-------------------------------- MODULE Turns --------------------------------
(***************************************************************************)
(* One member's turns: packages/slack/src/dm.ts and mention.ts, over the   *)
(* gateway's turn routes (server.ts) and the conversation and turn rows of *)
(* store.ts.                                                               *)
(*                                                                         *)
(* Slack delivers an event to the bot, perhaps more than once.  Every      *)
(* delivery has a handler of its own and the handlers interleave at every  *)
(* await: each call to the gateway, and each query the gateway makes for   *)
(* it, is a step.  A conversation is known by the message its DM thread    *)
(* hangs from, its root.                                                   *)
(***************************************************************************)
EXTENDS Naturals, FiniteSets

CONSTANTS Delivery,   \* what Slack hands the bot
          Event,      \* Slack event ids
          EventOf,    \* the event a delivery carries
          Mention,    \* the events that mention the bot in a channel
          Source,     \* channel threads
          SourceOf,   \* the channel thread a mention sits in
          Root,       \* messages in the member's DM that a thread may hang from
          BotRoot,    \* those of them that are openings the bot posts
          RootOf,     \* the root of the thread a DM message is in
          None,
          MaxCrashes, \* bound: crashes of the bot
          Failures,   \* whether calls to the gateway or to Slack may fail
          Overruns    \* whether a turn may be worked on for TURN_STALE_MINUTES

VARIABLES conversations, \* root -> its source thread, "dm" without one, or None
          turns,         \* event -> its turn, or None
          aged,          \* events whose turn is older than TURN_STALE_MINUTES
          resume,        \* root -> the events that the session to resume has seen
          handlers,      \* delivery -> its handler
          posted,        \* the openings that the bot posted
          corrected,     \* the openings that it called a second start (history)
          ran,           \* deliveries whose prompt was run (history)
          crashes

store == <<conversations, turns, aged, resume>>
slack == <<posted, corrected, ran>>
vars  == <<store, handlers, slack, crashes>>

Status == {"completed", "failed", "cancelled"}
Turn   == [conversation: Root, status: Status \cup {"running"}]

\* Where a handler is: the await it is at, or how it ended.
Phase == {"idle", "find", "post", "lookup", "open", "relookup", "retire", "insert",
          "busy", "held", "ready", "running", "closing", "recording", "correct",
          "done", "told", "silent", "failed"}

Handler == [phase: Phase,
            root: Root \cup {None},          \* the root it asked with
            conversation: Root \cup {None},  \* the one it was given
            turn: BOOLEAN,                   \* whether it was given a turn
            base: SUBSET Event,              \* what the session it resumes has seen
            status: Status \cup {None},      \* how its turn ended
            alive: BOOLEAN]

ASSUME TurnsAssumption ==
    /\ EventOf \in [Delivery -> Event]
    /\ Mention \subseteq Event /\ BotRoot \subseteq Root
    /\ SourceOf \in [Mention -> Source]
    /\ RootOf \in [Event \ Mention -> Root]
    /\ MaxCrashes \in Nat /\ Failures \in BOOLEAN /\ Overruns \in BOOLEAN
    /\ None \notin Root \cup Turn \cup Status \cup Source \cup {"dm"}
    /\ "dm" \notin Source

-----------------------------------------------------------------------------
InMention(d) == EventOf[d] \in Mention

\* Handler d is alive, in a phase of the bot's, or its request is in a phase of
\* the gateway's, which goes on though the bot may be gone.
Bot(d, phase) == handlers[d].phase = phase /\ handlers[d].alive
Gateway(d, phase) == handlers[d].phase = phase

Goes(d, phase) == handlers' = [handlers EXCEPT ![d].phase = phase]

\* conversationForSource for a mention, conversationForDm for a message.
Matching(d) == {r \in Root :
    IF InMention(d) THEN conversations[r] = SourceOf[EventOf[d]]
    ELSE conversations[r] # None /\ r = handlers[d].root}

RunningIn(r) == {e \in Event : turns[e] # None /\ turns[e].conversation = r
                                               /\ turns[e].status = "running"}

\* The handlers between the start of their turn and its close.
Working == {d \in Delivery : /\ handlers[d].turn
                             /\ handlers[d].phase \in {"held", "ready", "running", "closing"}}

-----------------------------------------------------------------------------
Idle(d) == [phase |-> "idle", root |-> IF InMention(d) THEN None ELSE RootOf[EventOf[d]],
            conversation |-> None, turn |-> FALSE, base |-> {},
            status |-> None, alive |-> TRUE]

Init == /\ conversations = [r \in Root |-> None]
        /\ turns = [e \in Event |-> None]
        /\ aged = {}
        /\ resume = [r \in Root |-> {}]
        /\ handlers = [d \in Delivery |-> Idle(d)]
        /\ posted = {} /\ corrected = {} /\ ran = {}
        /\ crashes = 0

\* Slack delivers an event.  A reply under an opening comes after the opening.
Deliver(d) ==
    /\ handlers[d].phase = "idle"
    /\ handlers[d].root \in BotRoot => handlers[d].root \in posted
    /\ handlers' = [handlers EXCEPT ![d].phase = "find", ![d].alive = TRUE]
    /\ UNCHANGED <<store, slack, crashes>>

\* deps.find: what it returns only decides whether the thread is quoted.
FindMessage(d) ==
    /\ Bot(d, "find") /\ ~InMention(d)
    /\ Goes(d, "lookup")
    /\ UNCHANGED <<store, slack, crashes>>

\* A mention asks with the root of the conversation it found, or posts one.  In a
\* channel the bot cannot read it says so and that is all.
FindMention(d) ==
    /\ Bot(d, "find") /\ InMention(d)
    /\ \/ Goes(d, "told")
       \/ Matching(d) = {} /\ Goes(d, "post")
       \/ \E r \in Matching(d) :
            handlers' = [handlers EXCEPT ![d].phase = "lookup", ![d].root = r]
    /\ UNCHANGED <<store, slack, crashes>>

PostOpening(d) ==
    /\ Bot(d, "post")
    /\ \E r \in BotRoot \ posted :
         /\ posted' = posted \cup {r}
         /\ handlers' = [handlers EXCEPT ![d].phase = "lookup", ![d].root = r]
    /\ UNCHANGED <<store, corrected, ran, crashes>>

-----------------------------------------------------------------------------
(* POST /api/slack/turn: find, else open, else find again; then recordTurn. *)

Given(d, r) == handlers' = [handlers EXCEPT ![d].phase = "retire", ![d].conversation = r]

Lookup(d) ==
    /\ Gateway(d, "lookup")
    /\ \/ \E r \in Matching(d) : Given(d, r)
       \/ Matching(d) = {} /\ Goes(d, "open")
    /\ UNCHANGED <<store, slack, crashes>>

\* openConversation: the row collides on its root, or on its source thread.
OpenConversation(d) ==
    /\ Gateway(d, "open")
    /\ LET r == handlers[d].root
           source == IF InMention(d) THEN SourceOf[EventOf[d]] ELSE "dm"
           taken == conversations[r] # None \/ (InMention(d) /\ Matching(d) # {})
       IN \/ /\ ~taken
             /\ conversations' = [conversations EXCEPT ![r] = source]
             /\ Given(d, r)
          \/ taken /\ Goes(d, "relookup") /\ UNCHANGED conversations
    /\ UNCHANGED <<turns, aged, resume, slack, crashes>>

\* A find that comes back empty again is answered 409, which the bot throws on.
Relookup(d) ==
    /\ Gateway(d, "relookup")
    /\ \/ \E r \in Matching(d) : Given(d, r)
       \/ Matching(d) = {} /\ Goes(d, "failed")
    /\ UNCHANGED <<store, slack, crashes>>

\* Mutants: a turn that never closed keeps its thread, or any turn loses it.
RetireNone(d) ==
    /\ Gateway(d, "retire")
    /\ Goes(d, "insert")
    /\ UNCHANGED <<store, slack, crashes>>
RetireRunning(d) ==
    /\ Gateway(d, "retire")
    /\ turns' = [e \in Event |-> IF e \in RunningIn(handlers[d].conversation)
                                 THEN [turns[e] EXCEPT !.status = "cancelled"] ELSE turns[e]]
    /\ Goes(d, "insert")
    /\ UNCHANGED <<conversations, aged, resume, slack, crashes>>

\* The first query of recordTurn: what went stale gives way.
Retire(d) ==
    /\ Gateway(d, "retire")
    /\ turns' = [e \in Event |-> IF e \in aged \cap RunningIn(handlers[d].conversation)
                                 THEN [turns[e] EXCEPT !.status = "cancelled"] ELSE turns[e]]
    /\ Goes(d, "insert")
    /\ UNCHANGED <<conversations, aged, resume, slack, crashes>>

\* Mutant: no constraint on the event.
InsertAnyEvent(d) ==
    LET r == handlers[d].conversation IN
    /\ Gateway(d, "insert")
    /\ RunningIn(r) = {}
    /\ turns' = [turns EXCEPT ![EventOf[d]] = [conversation |-> r, status |-> "running"]]
    /\ handlers' = [handlers EXCEPT ![d].phase = "held", ![d].turn = TRUE]
    /\ UNCHANGED <<conversations, aged, resume, slack, crashes>>

\* The second: one turn per event, one running turn per conversation.
Insert(d) ==
    LET r == handlers[d].conversation IN
    /\ Gateway(d, "insert")
    /\ turns[EventOf[d]] = None
    /\ RunningIn(r) = {}
    /\ turns' = [turns EXCEPT ![EventOf[d]] = [conversation |-> r, status |-> "running"]]
    /\ \/ handlers' = [handlers EXCEPT ![d].phase = "held", ![d].turn = TRUE]
       \/ Failures /\ Goes(d, "failed")     \* the answer is lost on its way
    /\ UNCHANGED <<conversations, aged, resume, slack, crashes>>

\* Mutant: given no turn, it is handled already.
AfterRefusalSilent(d) == "silent"

\* A mention that was given no turn corrects the opening it posted for nothing,
\* whatever it was refused for.
AfterRefusal(d) == IF handlers[d].conversation # handlers[d].root THEN "correct" ELSE "silent"

RefuseDuplicate(d) ==
    /\ Gateway(d, "insert")
    /\ turns[EventOf[d]] # None
    /\ Goes(d, IF InMention(d) THEN AfterRefusal(d) ELSE "silent")
    /\ UNCHANGED <<store, slack, crashes>>

RefuseBusy(d) ==
    /\ Gateway(d, "insert")
    /\ turns[EventOf[d]] = None
    /\ RunningIn(handlers[d].conversation) # {}
    /\ Goes(d, IF InMention(d) THEN AfterRefusal(d) ELSE "busy")
    /\ UNCHANGED <<store, slack, crashes>>

-----------------------------------------------------------------------------
(* The turn of a mention: closed at once. *)

CloseWith(d, status) ==
    handlers' = [handlers EXCEPT ![d].phase = "closing", ![d].status = status]

FinishMention(d) ==
    /\ Bot(d, "held") /\ InMention(d)
    /\ CloseWith(d, "completed")
    /\ UNCHANGED <<store, slack, crashes>>

\* "Started twice", in the opening that nothing will answer in.
Correct(d) ==
    /\ Bot(d, "correct")
    /\ corrected' = corrected \cup {handlers[d].root}
    /\ Goes(d, IF handlers[d].turn THEN "done" ELSE "told")
    /\ UNCHANGED <<store, posted, ran, crashes>>

-----------------------------------------------------------------------------
(* The turn of a message. *)

TellBusy(d) ==
    /\ Bot(d, "busy")
    /\ Goes(d, "told")
    /\ UNCHANGED <<store, slack, crashes>>

\* Nothing to ask, or a machine that cannot take it: closed, then said.
Decline(d) ==
    /\ Bot(d, "held") /\ ~InMention(d)
    /\ CloseWith(d, "cancelled")
    /\ UNCHANGED <<store, slack, crashes>>

\* The gateway names the machine, and the session to resume there.
Decide(d) ==
    /\ Bot(d, "held") /\ ~InMention(d)
    /\ handlers' = [handlers EXCEPT ![d].phase = "ready",
                                    ![d].base = resume[handlers[d].conversation]]
    /\ UNCHANGED <<store, slack, crashes>>

\* Links, catch-up, files and acknowledgement are behind it: deps.run.
Run(d) ==
    /\ Bot(d, "ready")
    /\ Goes(d, "running")
    /\ ran' = ran \cup {d}
    /\ UNCHANGED <<store, posted, corrected, crashes>>

\* The answer was posted, or would not post: the turn is over either way.
Answer(d) ==
    /\ Bot(d, "running")
    /\ CloseWith(d, "completed")
    /\ UNCHANGED <<store, slack, crashes>>

\* Mutant: the failure is told and the turn left open.
RunFailsUnclosed(d) ==
    /\ Bot(d, "running")
    /\ Goes(d, "told")
    /\ UNCHANGED <<store, slack, crashes>>

RunFails(d) ==
    /\ Bot(d, "running")
    /\ CloseWith(d, "failed")
    /\ UNCHANGED <<store, slack, crashes>>

-----------------------------------------------------------------------------
(* POST /api/slack/turn/done. *)

\* closeTurn, whatever the status was.  Only a run that was answered has a
\* session to remember, and only a mention an opening to correct.
CloseTurn(d) ==
    /\ Gateway(d, "closing")
    /\ \/ turns' = [turns EXCEPT ![EventOf[d]].status = handlers[d].status]
       \/ Failures /\ UNCHANGED turns     \* fails open: logged
    /\ Goes(d, CASE InMention(d) /\ handlers[d].conversation # handlers[d].root -> "correct"
                 [] ~InMention(d) /\ handlers[d].status = "completed" -> "recording"
                 [] OTHER -> "done")
    /\ UNCHANGED <<conversations, aged, resume, slack, crashes>>

\* recordResume.
RecordResume(d) ==
    /\ Gateway(d, "recording")
    /\ \/ resume' = [resume EXCEPT ![handlers[d].conversation] =
                        handlers[d].base \cup {EventOf[d]}]
       \/ Failures /\ UNCHANGED resume
    /\ Goes(d, "done")
    /\ UNCHANGED <<conversations, turns, aged, slack, crashes>>

-----------------------------------------------------------------------------
\* A call of the bot's rejects outside the try around the run: announcing tells
\* the member and nothing closes the turn.
Throws(d) ==
    /\ Failures
    /\ \E phase \in {"find", "post", "busy", "held", "ready", "correct"} : Bot(d, phase)
    /\ Goes(d, "failed")
    /\ UNCHANGED <<store, slack, crashes>>

\* The bot dies with every handler it has.
Crash ==
    /\ crashes < MaxCrashes
    /\ crashes' = crashes + 1
    /\ handlers' = [d \in Delivery |-> [handlers[d] EXCEPT !.alive = FALSE]]
    /\ UNCHANGED <<store, slack>>

\* A turn has been running for TURN_STALE_MINUTES.  That is not between the two
\* queries of one recordTurn; the turn is retired by the next.
Age(e) ==
    /\ turns[e] # None /\ turns[e].status = "running"
    /\ Overruns \/ \A d \in Working : EventOf[d] = e => ~handlers[d].alive
    /\ \A d \in Delivery : handlers[d].phase = "insert" =>
                               handlers[d].conversation # turns[e].conversation
    /\ aged' = aged \cup {e}
    /\ UNCHANGED <<conversations, turns, resume, handlers, slack, crashes>>

Asks(d) == \/ FindMessage(d) \/ FindMention(d) \/ PostOpening(d)
Routes(d) == \/ Lookup(d) \/ OpenConversation(d) \/ Relookup(d) \/ Retire(d)
             \/ Insert(d) \/ RefuseDuplicate(d) \/ RefuseBusy(d)
Works(d) == \/ FinishMention(d) \/ Correct(d) \/ TellBusy(d) \/ Decline(d) \/ Decide(d)
            \/ Run(d) \/ Answer(d) \/ RunFails(d)
Closes(d) == CloseTurn(d) \/ RecordResume(d)

Next == \/ \E d \in Delivery : \/ Deliver(d) \/ Asks(d) \/ Routes(d) \/ Works(d)
                               \/ Closes(d) \/ Throws(d)
        \/ \E e \in Event : Age(e)
        \/ Crash

\* Every await settles: a gateway call within its ten seconds, a prompt within
\* its deadline, a Slack call when its client stops retrying.
Fairness == \A d \in Delivery : WF_vars(Asks(d) \/ Routes(d) \/ Works(d) \/ Closes(d))

Spec == Init /\ [][Next]_vars
FairSpec == Spec /\ Fairness
-----------------------------------------------------------------------------
TypeOK ==
    /\ conversations \in [Root -> Source \cup {"dm", None}]
    /\ turns \in [Event -> Turn \cup {None}]
    /\ aged \subseteq Event
    /\ resume \in [Root -> SUBSET Event]
    /\ handlers \in [Delivery -> Handler]
    /\ posted \subseteq BotRoot /\ corrected \subseteq posted /\ ran \subseteq Delivery
    /\ crashes \in 0..MaxCrashes

\* "A thread is a sequence": no two prompts of one conversation run at once, in
\* whatever order deliveries, crashes and stale turns come.
OneRunPerThread ==
    \A d1, d2 \in Delivery :
        /\ Bot(d1, "running") /\ Bot(d2, "running")
        /\ handlers[d1].conversation = handlers[d2].conversation
        => d1 = d2

\* A redelivery collides with the turn it already made: however often Slack sends
\* an event, and whether or not the bot died in between, it is run once.
RunOnce == \A d1, d2 \in ran : EventOf[d1] = EventOf[d2] => d1 = d2

\* "Every path that opened a turn calls this": a turn is running only while a
\* handler works on it, or did when the bot died. It does not hold with Failures:
\* a call that throws before the try around the run leaves the turn open.
TurnHasWorker ==
    \A e \in Event : turns[e] # None /\ turns[e].status = "running" =>
        \E d \in Working : EventOf[d] = e

\* A crashed turn does not lock the member out: the next message is only turned
\* away for a turn that has not gone stale.
LeftTurnsGiveWay ==
    [][\A d \in Delivery : handlers[d].phase = "insert" /\ handlers'[d].phase = "busy" =>
           \E e \in RunningIn(handlers[d].conversation) : e \notin aged]_vars

\* handleMention: an opening that another delivery's conversation made a stray is
\* corrected, by the handler that posted it, in the thread the member looks at.
StraysCorrected ==
    \A r \in posted : \/ conversations[r] # None
                      \/ r \in corrected
                      \/ \E d \in Delivery : /\ handlers[d].root = r
                                             /\ InMention(d)
                                             /\ handlers[d].phase \notin {"done", "silent"}

\* Every turn ends, so every thread takes its next message.
EveryTurnEnds ==
    \A e \in Event : turns[e] # None ~> (turns[e] # None /\ turns[e].status # "running")

\* "A thread is a sequence", of sessions: of two turns of one thread that were
\* both answered, one ran in a session that had seen the other. It does not hold:
\* the turn is closed before the session it ran in is recorded.
SessionsAreASequence ==
    \A d1, d2 \in ran :
        /\ handlers[d1].conversation = handlers[d2].conversation
        /\ handlers[d1].status = "completed" /\ handlers[d2].status = "completed"
        => \/ EventOf[d1] \in handlers[d2].base \cup {EventOf[d2]}
           \/ EventOf[d2] \in handlers[d1].base
=============================================================================
