----------------------------- MODULE Narration ------------------------------
(***************************************************************************)
(* What a member sees of a turn while it runs, in packages/slack: the      *)
(* acknowledgement and the stream of cards that handleDm (dm.ts) narrates  *)
(* on, the stop button of the stream, and the budget of chat.update calls  *)
(* that every turn of the process shares (slack-api.ts).                   *)
(*                                                                         *)
(* handleDm chains its Slack calls on one promise, updating: a link of the *)
(* chain is a call that is made when the ones before it have settled, and  *)
(* the turn goes on meanwhile.  The floors between two narrations are left *)
(* out: the agent speaks whenever it likes.                                *)
(***************************************************************************)
EXTENDS Naturals, Sequences, FiniteSets

CONSTANTS Turn,
          Ceiling,  \* UPDATES_PER_MINUTE
          Minute,   \* the window of the budget, in ticks
          MaxTime,  \* bound: ticks
          MaxSays,  \* bound: what an agent narrates that is not passed over
          None

VARIABLES turns,    \* turn -> what its handler knows, and what Slack shows
          now,
          spent,    \* tick -> the stamps that the budget has of it
          charged,  \* tick -> the chat.update calls paid for with those (history)
          forced    \* tick -> the stamps that take added (history)

budget == <<spent, charged, forced>>
vars == <<turns, now, budget>>

Time == 0..MaxTime
Phases == {"idle", "running", "failed", "answered", "posted", "settled"}
Links == {"open step", "open thought", "append", "write", "stop", "tidy"}

Narrated == [phase: Phases,
    ack: {"in flight", "step", "rest"},          \* what the acknowledgement says
    steps: {None, "asked", "open", "refused"},   \* the stream, as the bot knows it
    card: {None, "going", "closed"},             \* and as Slack shows it
    queue: Seq(Links),                           \* updating
    ackWritten: BOOLEAN, reserved: Time \cup {None}, settling: BOOLEAN,
    route: BOOLEAN,                              \* its entry in stopping
    cancelRun: BOOLEAN, stopWanted: BOOLEAN, stopped: BOOLEAN,
    says: 0..MaxSays,
    pressed: BOOLEAN, tried: BOOLEAN,  \* a press arrived, a cancel was tried (history)
    left: BOOLEAN,                     \* one left while the run was out (history)
    label: BOOLEAN,                    \* the answer says it was cut short (history)
    lost: SUBSET {"open", "stop", "tidy"}]   \* calls that failed (history)

ASSUME NarrationAssumption ==
    /\ Ceiling \in Nat /\ Minute \in Nat \ {0} /\ MaxTime \in Nat /\ MaxSays \in Nat
    /\ None \notin Time /\ None \notin {"asked", "open", "refused", "going", "closed"}

TypeOK ==
    /\ turns \in [Turn -> Narrated]
    /\ now \in Time
    /\ {spent, charged, forced} \subseteq [Time -> Nat]
-----------------------------------------------------------------------------
(* updateBudget. *)

\* Of the last minute: a stamp is the tick of it, and one of the stamps of that tick.
Window == {tick \in Time : tick <= now /\ now < tick + Minute}
Stamps(f) == UNION {{tick} \X (1..f[tick]) : tick \in Window}
Recent(f) == Cardinality(Stamps(f))
Adds(f, tick, n) == [f EXCEPT ![tick] = @ + n]

room(n) == Recent(spent) + n <= Ceiling

\* The cleanup, whatever the budget has.  What was reserved for it pays if it
\* has not aged out.
take(reserved) ==
    LET fresh == reserved # None /\ now < reserved + Minute
    IN /\ charged' = Adds(charged, IF fresh THEN reserved ELSE now, 1)
       /\ spent' = IF fresh THEN spent ELSE Adds(spent, now, 1)
       /\ forced' = IF fresh THEN forced ELSE Adds(forced, now, 1)
-----------------------------------------------------------------------------
(* The narration. *)

Is(t, phases) == turns[t].phase \in phases
Becomes(t, r) == turns' = [turns EXCEPT ![t] = r]
Link(t, kinds) == turns[t].queue # <<>> /\ Head(turns[t].queue) \in kinds
Rest(t) == [turns[t] EXCEPT !.queue = Tail(@)]
Chained(r, link) == [r EXCEPT !.queue = Append(@, link)]

Init ==
    /\ turns = [t \in Turn |->
          [phase |-> "idle", ack |-> "rest", steps |-> None, card |-> None, queue |-> <<>>,
           ackWritten |-> FALSE, reserved |-> None, settling |-> FALSE, route |-> FALSE,
           cancelRun |-> FALSE, stopWanted |-> FALSE, stopped |-> FALSE, says |-> 0,
           pressed |-> FALSE, tried |-> FALSE, left |-> FALSE, label |-> FALSE, lost |-> {}]]
    /\ now = 0
    /\ spent = [tick \in Time |-> 0] /\ charged = spent /\ forced = spent

\* The acknowledgement is posted: it says what rests there after the turn, and
\* may say more while the turn is out.
Acknowledges(t) ==
    /\ Is(t, {"idle"})
    /\ \E ack \in {"in flight", "rest"} :
           Becomes(t, [turns[t] EXCEPT !.phase = "running", !.ack = ack])
    /\ UNCHANGED <<now, budget>>

\* Mutant: the first step pays for itself only.
RewritesUnreserved(t, r) ==
    LET n == 1 IN
    \/ /\ room(n)
       /\ Becomes(t, Chained([r EXCEPT !.ackWritten = TRUE,
                                       !.reserved = IF @ = None THEN now ELSE @], "write"))
       /\ spent' = Adds(spent, now, n) /\ charged' = Adds(charged, now, 1)
    \/ ~room(n) /\ Becomes(t, r) /\ UNCHANGED <<spent, charged>>

\* A step on the acknowledgement, if there is room for it.  The first one pays
\* for the cleanup it makes necessary too.
Rewrites(t, r) ==
    LET n == IF r.ackWritten THEN 1 ELSE 2 IN
    \/ /\ room(n)
       /\ Becomes(t, Chained([r EXCEPT !.ackWritten = TRUE,
                                       !.reserved = IF @ = None THEN now ELSE @], "write"))
       /\ spent' = Adds(spent, now, n) /\ charged' = Adds(charged, now, 1)
    \/ ~room(n) /\ Becomes(t, r) /\ UNCHANGED <<spent, charged>>

\* The driver reads what it was sent before the run's end, which may be later.
Speaks(t) ==
    /\ Is(t, {"running", "failed", "answered", "posted"})
    /\ turns[t].says < MaxSays

Said(t) == [turns[t] EXCEPT !.says = @ + 1]

\* onProgress: a card of the stream, which the first step opens, or a step on the
\* acknowledgement where the stream was refused.
narrate(t) ==
    /\ Speaks(t)
    /\ \/ turns[t].steps = "refused" /\ Rewrites(t, Said(t))
       \/ /\ turns[t].steps = None
          /\ Becomes(t, [Said(t) EXCEPT !.steps = "asked", !.queue = <<"open step">>])
          /\ UNCHANGED <<spent, charged>>
       \/ /\ turns[t].steps \in {"asked", "open"}   \* and chat.appendStream has room
          /\ Becomes(t, Chained(Said(t), "append"))
          /\ UNCHANGED <<spent, charged>>
    /\ UNCHANGED <<now, forced>>

\* onThought: never on the acknowledgement.
think(t) ==
    /\ Speaks(t) /\ turns[t].steps # "refused"
    /\ Becomes(t, IF turns[t].steps = None
                  THEN [Said(t) EXCEPT !.steps = "asked", !.queue = <<"open thought">>]
                  ELSE Chained(Said(t), "append"))
    /\ UNCHANGED <<now, budget>>

\* Mutant: whatever the turn is at.
RoutesAlways(t) ==
    /\ Link(t, {"open step", "open thought"})
    /\ Becomes(t, [Rest(t) EXCEPT !.steps = "open", !.card = "going", !.route = TRUE])
    /\ UNCHANGED <<now, budget>>

\* chat.startStream answers: the button is routed here if the turn can still
\* use it.
Opened(t) ==
    /\ Link(t, {"open step", "open thought"})
    /\ Becomes(t, [Rest(t) EXCEPT !.steps = "open", !.card = "going",
                                  !.route = ~turns[t].settling])
    /\ UNCHANGED <<now, budget>>

\* Mutant: the step is narrated again whatever the turn is at.
RefusedRepeating(t) ==
    /\ Link(t, {"open step", "open thought"})
    /\ \E lost \in BOOLEAN :
          LET r == [Rest(t) EXCEPT !.steps = "refused",
                                   !.card = IF lost THEN "going" ELSE @,
                                   !.lost = IF lost THEN @ \cup {"open"} ELSE @]
          IN IF Link(t, {"open step"})
             THEN Rewrites(t, r) ELSE Becomes(t, r) /\ UNCHANGED <<spent, charged>>
    /\ UNCHANGED <<now, forced>>

\* It refuses, or only its answer is lost.  The step that asked is narrated again
\* on the acknowledgement, if the turn is not settling: behind the cleanup it
\* would stand over the answer.
Refused(t) ==
    /\ Link(t, {"open step", "open thought"})
    /\ \E lost \in BOOLEAN :
          LET r == [Rest(t) EXCEPT !.steps = "refused",
                                   !.card = IF lost THEN "going" ELSE @,
                                   !.lost = IF lost THEN @ \cup {"open"} ELSE @]
          IN IF Link(t, {"open step"}) /\ ~r.settling
             THEN Rewrites(t, r) ELSE Becomes(t, r) /\ UNCHANGED <<spent, charged>>
    /\ UNCHANGED <<now, forced>>

\* A call of the narration lands, or fails and is only logged.
Narrates(t) ==
    /\ Link(t, {"append", "write"})
    /\ \/ Becomes(t, Rest(t))
       \/ Link(t, {"write"}) /\ Becomes(t, [Rest(t) EXCEPT !.ack = "step"])
    /\ UNCHANGED <<now, budget>>

\* The cards are folded away, of the stream that was opened by then.
StopsStream(t) ==
    /\ Link(t, {"stop"})
    /\ \/ /\ turns[t].steps = "open"
          /\ Becomes(t, [Rest(t) EXCEPT !.card = "closed"])
       \/ Becomes(t, [Rest(t) EXCEPT !.lost = IF turns[t].steps = "open"
                                              THEN @ \cup {"stop"} ELSE @])
    /\ UNCHANGED <<now, budget>>

\* The acknowledgement says what rests.
Tidies(t) ==
    /\ Link(t, {"tidy"})
    /\ take(turns[t].reserved)
    /\ \/ Becomes(t, [Rest(t) EXCEPT !.ack = "rest"])
       \/ Becomes(t, [Rest(t) EXCEPT !.lost = @ \cup {"tidy"}])
    /\ UNCHANGED now
-----------------------------------------------------------------------------
(* The stop button. *)

\* cancel(): the frame leaves the process, or is swallowed by a dead pipe.
Cancels(t, r) ==
    \E gone \in BOOLEAN :
        Becomes(t, [r EXCEPT !.stopped = @ \/ gone, !.tried = TRUE,
                             !.left = @ \/ (gone /\ r.phase = "running")])

\* onCancelable: there is a session, and a press may have come before it.
CancelableOnly(t) ==     \* Mutant: nobody asks whether it did.
    /\ Is(t, {"running"}) /\ ~turns[t].cancelRun
    /\ Becomes(t, [turns[t] EXCEPT !.cancelRun = TRUE])
    /\ UNCHANGED <<now, budget>>

Cancelable(t) ==
    /\ Is(t, {"running"}) /\ ~turns[t].cancelRun
    /\ LET r == [turns[t] EXCEPT !.cancelRun = TRUE]
       IN IF r.stopWanted THEN Cancels(t, r) ELSE Becomes(t, r)
    /\ UNCHANGED <<now, budget>>

\* halt: message_stream_stopped names a stream that is routed to this turn.
Press(t) ==
    /\ turns[t].card = "going" /\ turns[t].route
    /\ LET r == [turns[t] EXCEPT !.pressed = TRUE]
       IN IF r.cancelRun THEN Cancels(t, r) ELSE Becomes(t, [r EXCEPT !.stopWanted = TRUE])
    /\ UNCHANGED <<now, budget>>
-----------------------------------------------------------------------------
(* The end of the turn. *)

\* The button's window is the run.
RunAnswers(t) ==
    /\ Is(t, {"running"})
    /\ Becomes(t, [turns[t] EXCEPT !.phase = "answered", !.settling = TRUE, !.route = FALSE])
    /\ UNCHANGED <<now, budget>>

RunFails(t) ==
    /\ Is(t, {"running"})
    /\ Becomes(t, [turns[t] EXCEPT !.phase = "failed"])
    /\ UNCHANGED <<now, budget>>

\* The answer is posted, under a line that it was cut short if it was, or cannot be.
Posts(t) ==
    /\ Is(t, {"answered"})
    /\ \E posted \in BOOLEAN :
          Becomes(t, [turns[t] EXCEPT !.phase = "posted", !.label = posted /\ turns[t].stopped])
    /\ UNCHANGED <<now, budget>>

\* The two closes are queued behind the narration that they undo, and nothing
\* else is known of their order.
settle(t) ==
    LET r == turns[t]
        stop == IF r.steps # None THEN <<"stop">> ELSE <<>>
        tidy == IF r.ackWritten \/ r.ack = "in flight" THEN <<"tidy">> ELSE <<>>
    IN
    /\ Is(t, {"failed", "posted"})
    /\ \E closing \in {stop \o tidy, tidy \o stop} :
          Becomes(t, [r EXCEPT !.phase = "settled", !.settling = TRUE, !.route = FALSE,
                               !.queue = @ \o closing])
    /\ UNCHANGED <<now, budget>>

Tick == now < MaxTime /\ now' = now + 1 /\ UNCHANGED <<turns, budget>>

Agent(t) == narrate(t) \/ think(t) \/ Cancelable(t) \/ RunAnswers(t) \/ RunFails(t)
Slack(t) == Opened(t) \/ Refused(t) \/ Narrates(t) \/ StopsStream(t) \/ Tidies(t) \/ Press(t)
Handler(t) == Acknowledges(t) \/ Posts(t) \/ settle(t)

Next == Tick \/ \E t \in Turn : Agent(t) \/ Slack(t) \/ Handler(t)

Spec == Init /\ [][Next]_vars
-----------------------------------------------------------------------------
\* "Its write would land after the tidy and stand over the answer for good": once
\* a turn has settled and its calls were made, the acknowledgement says what
\* rests, no card is spinning and no press can reach the turn, however late the
\* stream opened or was refused; unless the very call that would have seen to it
\* failed.
AnswerStandsAlone ==
    \A t \in Turn : Is(t, {"settled"}) /\ turns[t].queue = <<>> =>
        /\ turns[t].ack = "rest" \/ "tidy" \in turns[t].lost
        /\ turns[t].card # "going" \/ turns[t].lost \cap {"open", "stop"} # {}
        /\ ~turns[t].route

\* "Both orders are real: a stream opens before the session exists, and a press
\* can land in the gap": a press that reached the turn is tried on its session
\* as soon as there is one (halt, onCancelable).
PressesCount ==
    \A t \in Turn : Is(t, {"running"}) /\ turns[t].pressed /\ turns[t].cancelRun =>
                        turns[t].tried

\* An answer is only said to be cut short when a cancel left for its run while the
\* run was out: no press during delivery labels a whole answer (halt, opened).
LabelIsTrue == \A t \in Turn : turns[t].label => turns[t].left

\* Every chat.update of every turn is paid for with a stamp of its own, cleanups
\* too, so that a minute's worth of stamps is over the ceiling only by cleanups
\* that nothing was reserved for, or whose reservation had aged out.
PaidWithinBudget == Recent(charged) <= Ceiling + Recent(forced)
=============================================================================
