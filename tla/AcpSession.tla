----------------------------- MODULE AcpSession -----------------------------
(***************************************************************************)
(* One prompt through an agent over ACP: AcpConnection and driveAcpSession *)
(* of packages/protocol/src/acp-protocol.ts, and the floor that answers an *)
(* agent's permission requests, here or in the companion.                  *)
(*                                                                         *)
(* The driver is a chain of requests, each awaited before the next; what   *)
(* follows an await is the continuation of its outcome and runs before the *)
(* next event of the transport, but not before the rest of the chunk that  *)
(* brought it.  The agent answers as an agent may, in the session it has.  *)
(***************************************************************************)
EXTENDS Naturals, Sequences, FiniteSets

CONSTANTS Given,       \* the options of a call and the offers of its agent
          Ask,         \* permission requests the agent may make
          MaxSays,     \* updates the agent sends, replayed ones apart
          MaxWire,     \* frames of the agent not read yet
          LateReplay,  \* a replay may trail the answer of its load
          None

VARIABLES given,
          at,          \* the call of the driver: what it awaits, and for what
          pending,     \* the request in the table of the connection
          outcome,     \* how it was settled, until the driver continues
          session,     \* what the driver knows of the session it is in
          turn,        \* the text of the assistant's messages so far
          replaying, approvals, result,
          writable, output, deaf,          \* the transport
          toAgent, toDriver,
          work,        \* the request the agent is at
          authed, sess, asked, wrote,      \* the agent
          history,     \* how often its session holds the conversation
          decided,     \* what the floor decided, as the agent was told
          narrated,    \* the turns whose steps were shown
          said         \* the updates of this turn, as they were read

driver    == <<at, pending, outcome, session, replaying, result>>
listening == <<turn, approvals, narrated, said>>
transport == <<writable, output, deaf>>
agent     == <<work, authed, sess, asked, wrote, history>>
vars == <<given, driver, listening, transport, agent, toAgent, toDriver, decided>>

Method == {"initialize", "authenticate", "session/load", "session/new",
           "model option", "session/set_model", "session/set_mode",
           "mode option", "session/prompt"}

\* None is neither a request nor an answer to one for permission.
ASSUME AcpAssumption ==
    /\ MaxSays \in Nat /\ MaxWire \in Nat
    /\ None \notin Method
    /\ None \notin {"allow_once", "allow_always", "reject_once", "reject_always"}

\* A call has come to its end, or waits for what trails the answer.
Over == {"drain", "returned", "threw"}

Idle   == [id |-> None, mode |-> None, model |-> None]
Silent == [segments |-> <<>>, current |-> <<>>, last |-> None, seen |-> FALSE,
           labels |-> FALSE]
Refused(code) == [ok |-> FALSE, code |-> code]
Granted(body) == [ok |-> TRUE, body |-> body]
-----------------------------------------------------------------------------
(* The floor: which tool kinds are denied, and the option it answers with. *)

\* Mutant: kinds are compared as they come.
NormalizeNot(kind) == kind

Normalize(kind) == IF kind = "switch-mode" THEN "switch_mode" ELSE kind
ReadOnlyModes   == {"read-only", "plan"}
WriteCapable(mode) == mode \notin ReadOnlyModes
\* Mutant: any chosen mode takes the policy that allows writes.
PolicyByPresence == IF given.mode # None THEN "writes" ELSE "read-only"

Policy == IF given.mode # None /\ WriteCapable(given.mode)
          THEN "writes" ELSE "read-only"

DeniedByFloor(ask, policy) ==
    IF policy = "writes" THEN Normalize(ask.kind) = "switch_mode"
    ELSE \/ Normalize(ask.kind) \in {"edit", "delete", "move", "write", "switch_mode"}
         \/ ask.mcp

\* The option selected, None for a cancelled outcome: one that lasts only for
\* the call when there is one.
Respond(ask, policy) ==
    LET side == IF DeniedByFloor(ask, policy) THEN {"reject_once", "reject_always"}
                                              ELSE {"allow_once", "allow_always"}
        once == side \cap {"reject_once", "allow_once"} \cap ask.options
    IN IF once # {} THEN CHOOSE o \in once : TRUE
       ELSE IF side \cap ask.options # {} THEN CHOOSE o \in side \cap ask.options : TRUE
       ELSE None

\* What is reported goes with what was selected, and with nothing else.
Decision(ask, policy) ==
    IF Respond(ask, policy) = None THEN <<>>
    ELSE <<[kind |-> ask.kind, allowed |-> ~DeniedByFloor(ask, policy)]>>
-----------------------------------------------------------------------------
(* The text of a turn: segments by message id, notices aside. *)

Flush(t) ==
    [t EXCEPT !.segments = IF t.current = <<>> THEN @
                           ELSE Append(@, [id |-> t.last, text |-> t.current]),
              !.current = <<>>]

Chunk(t, id, text) ==
    LET before == IF t.seen /\ id # t.last THEN Flush(t) ELSE t
    IN [before EXCEPT !.current = @ \o text, !.last = id, !.seen = TRUE,
                      !.labels = @ \/ id # None]

\* Only an agent that labels nothing has its messages ended by a tool call.
ToolCall(t) == IF t.labels THEN t ELSE Flush(t)

Aside(labels, segment) == labels /\ segment.id = None

\* Mutant: a message a notice came between stays in halves.
JoinedNot(open, s) == Append(open, s)

\* One more segment: the halves of a message that a notice came between are one.
Joined(open, s) ==
    IF open # <<>> /\ s.id # None /\ open[Len(open)].id = s.id
    THEN [open EXCEPT ![Len(open)].text = @ \o s.text]
    ELSE Append(open, s)

\* The messages that the segments make, without the notices.
Answered(labels, segments) ==
    LET upTo[n \in 0..Len(segments)] ==
          IF n = 0 THEN <<>>
          ELSE IF Aside(labels, segments[n]) THEN upTo[n - 1]
          ELSE Joined(upTo[n - 1], segments[n])
    IN upTo[Len(segments)]

\* The notices are told by where they fell.
Assemble(t) ==
    LET all      == Flush(t).segments
        answered == Answered(t.labels, all)
        kept     == IF answered # <<>> THEN answered ELSE all
        asides   == {i \in DOMAIN all : Aside(t.labels, all[i])}
    IN [text    |-> IF kept = <<>> THEN <<>> ELSE kept[Len(kept)].text,
        notices |-> IF answered = <<>> THEN <<>> ELSE [i \in asides |-> all[i].text]]
-----------------------------------------------------------------------------
(* The connection: one request in the table, as the driver awaits each. *)

Places == [method: Method \cup Over, for: {"session/load", "session/new", None},
           retried: BOOLEAN]

TypeOK ==
    /\ given \in Given
    /\ at \in Places
    /\ pending \in Method \cup {None}
    /\ outcome # None => pending = None
    /\ replaying \in BOOLEAN /\ deaf \in BOOLEAN /\ writable \in BOOLEAN
    /\ output \in {"open", "ended", "closed"}
    /\ turn.labels \in BOOLEAN
    /\ result # None => at.method \in {"returned", "threw"}
    /\ Len(toDriver) <= MaxWire

Init ==
    /\ given \in Given
    /\ at = [method |-> "initialize", for |-> None, retried |-> FALSE]
    /\ pending = "initialize" /\ outcome = None
    /\ session = Idle /\ turn = Silent /\ replaying = FALSE
    /\ approvals = <<>> /\ result = None
    /\ writable = TRUE /\ output = "open" /\ deaf = FALSE
    /\ toAgent = <<[kind |-> "request", method |-> "initialize", want |-> None]>>
    /\ toDriver = <<>>
    /\ work = None /\ authed = FALSE /\ sess = Idle /\ history = 0 /\ asked = 0
    /\ wrote = FALSE /\ decided = <<>> /\ narrated = {} /\ said = <<>>

\* A request that cannot be written is rejected there and then.
Request(method, for, retried, want) ==
    /\ at' = [method |-> method, for |-> for, retried |-> retried]
    /\ IF writable
       THEN /\ pending' = method /\ outcome' = None
            /\ toAgent' = Append(toAgent, [kind |-> "request", method |-> method,
                                           want |-> want])
       ELSE /\ pending' = None /\ outcome' = Refused("transport")
            /\ UNCHANGED toAgent

\* A transport that cannot answer fails what is pending.
FailAllPending ==
    /\ pending' = None
    /\ outcome' = IF pending # None THEN Refused("transport") ELSE outcome

Ends(method, value) ==
    /\ at' = [at EXCEPT !.method = method]
    /\ result' = value /\ outcome' = None
    /\ UNCHANGED <<pending, toAgent>>

Throw == Ends("threw", "error")
-----------------------------------------------------------------------------
(* Between the session and its prompt: the model, then the mode.  Each step *)
(* is the next request to send, or Refuse.                                  *)

Refuse == [method |-> "refuse", want |-> None]
Step(method, want) == [method |-> method, want |-> want]

\* Mutant: the context goes by what was asked for and not by what was loaded.
PromptStepByAsking(s) ==
    Step("session/prompt", IF given.resume THEN "alone" ELSE "with context")

\* What a new session would need is a second copy in one that was loaded.
PromptStep(s) ==
    Step("session/prompt", IF s.id # "old" THEN "with context" ELSE "alone")

\* An agent may serve its modes as a configuration option instead.
PlanOptionStep(s) ==
    CASE given.modesAs = "option" /\ "plan" \in given.modes /\ s.mode # "plan"
           -> Step("mode option", "plan")
      [] given.requirePlan /\ ~(given.modesAs = "option" /\ "plan" \in given.modes)
           -> Refuse
      [] OTHER -> PromptStep(s)

ModeStep(s) ==
    LET roster == IF given.modesAs = "modes" THEN given.modes ELSE {}
        wanted == IF given.mode # None THEN given.mode ELSE "plan"
    IN CASE wanted \in roster /\ s.mode # wanted -> Step("session/set_mode", wanted)
         [] wanted \in roster /\ s.mode = wanted -> PromptStep(s)
         [] wanted \notin roster /\ given.mode # None -> Refuse
         [] OTHER -> PlanOptionStep(s)

\* A model the member asked for is set when the agent's roster has it.
ModelStep(s) ==
    IF given.modelsAs = "roster" /\ given.model \in given.models /\ s.model # given.model
    THEN Step("session/set_model", given.model)
    ELSE ModeStep(s)

\* The first candidate on offer, for agents whose model is an option.
Candidate ==
    LET offered == {i \in DOMAIN given.candidates : given.candidates[i] \in given.models}
    IN IF given.modelsAs # "option" \/ offered = {} THEN None
       ELSE given.candidates[CHOOSE i \in offered : \A j \in offered : i <= j]

ModelOptionStep(s) ==
    CASE given.candidates = <<>> \/ Candidate \in {s.model} \ {None} -> ModelStep(s)
      [] given.candidates # <<>> /\ Candidate = None -> Refuse
      [] OTHER -> Step("model option", Candidate)

Go(step) ==
    IF step = Refuse THEN Throw /\ UNCHANGED replaying
    ELSE /\ Request(step.method, None, FALSE, step.want)
         /\ replaying' = (replaying /\ step.method # "session/prompt")
         /\ UNCHANGED result
-----------------------------------------------------------------------------
(* The driver, continuing after an await. *)

Awaited(method) == at.method = method /\ outcome # None
Elsewhere == UNCHANGED <<given, transport, agent, toDriver, decided, approvals, narrated>>

OpenNew == Request("session/new", "session/new", FALSE, None) /\ UNCHANGED result

\* Mutant: a load does not suspend narration.
InitializedNarrating ==
    /\ Awaited("initialize")
    /\ CASE ~outcome.ok -> Throw
         [] outcome.ok /\ given.resume /\ given.load ->
              Request("session/load", "session/load", FALSE, None) /\ UNCHANGED result
         [] OTHER -> OpenNew
    /\ UNCHANGED <<replaying, session, turn, said>> /\ Elsewhere

Initialized ==
    /\ Awaited("initialize")
    /\ CASE ~outcome.ok -> Throw /\ UNCHANGED replaying
         [] outcome.ok /\ given.resume /\ given.load ->
              /\ Request("session/load", "session/load", FALSE, None)
              /\ replaying' = TRUE /\ UNCHANGED result
         [] OTHER -> OpenNew /\ UNCHANGED replaying
    /\ UNCHANGED <<session, turn, said>> /\ Elsewhere

\* What has arrived so far is the conversation, replayed.
Loaded ==
    /\ Awaited("session/load") /\ outcome.ok
    /\ session' = outcome.body
    /\ turn' = Silent /\ said' = <<>>
    /\ Go(ModelOptionStep(outcome.body))
    /\ Elsewhere

Opened ==
    /\ Awaited("session/new") /\ outcome.ok
    /\ session' = outcome.body
    /\ Go(ModelOptionStep(outcome.body))
    /\ UNCHANGED <<turn, said>> /\ Elsewhere

\* A resume that cannot happen costs the history and not the turn, unless it
\* is for want of credentials that a new session would need too.
GiveUp(for) ==
    IF for = "session/load" /\ outcome.code # "auth" THEN OpenNew ELSE Throw

\* Gated: authenticate with the method advertised, and try once more.
SessionRefused ==
    /\ Awaited("session/load") \/ Awaited("session/new")
    /\ ~outcome.ok
    /\ IF outcome.code = "auth" /\ given.methods /\ ~at.retried
       THEN Request("authenticate", at.method, TRUE, None) /\ UNCHANGED result
       ELSE GiveUp(at.method)
    /\ UNCHANGED <<session, replaying, turn, said>> /\ Elsewhere

Authenticated ==
    /\ Awaited("authenticate")
    /\ IF outcome.ok THEN Request(at.for, at.for, TRUE, None) /\ UNCHANGED result
       ELSE GiveUp(at.for)
    /\ UNCHANGED <<session, replaying, turn, said>> /\ Elsewhere

\* A selection that failed, or did not stick, is not run on.
ModelSelected ==
    /\ \/ Awaited("model option")
          /\ Go(IF outcome.ok /\ outcome.body = Candidate THEN ModelStep(session) ELSE Refuse)
       \/ Awaited("session/set_model")
          /\ Go(IF outcome.ok THEN ModeStep(session) ELSE Refuse)
    /\ UNCHANGED <<session, turn, said>> /\ Elsewhere

\* Plan that nobody requires is a hint; the floor is there without it.
ModeSelected ==
    /\ Awaited("session/set_mode") \/ Awaited("mode option")
    /\ LET set == outcome.ok /\ (at.method = "mode option" => outcome.body = "plan")
       IN Go(IF set \/ (given.mode = None /\ ~given.requirePlan)
             THEN PromptStep(session) ELSE Refuse)
    /\ UNCHANGED <<session, turn, said>> /\ Elsewhere

PromptAnswered ==
    /\ Awaited("session/prompt")
    /\ IF outcome.ok THEN Ends("drain", None) ELSE Throw
    /\ UNCHANGED <<session, replaying, turn, said>> /\ Elsewhere

\* What trails the answer has arrived within the drain.
DrainEnds ==
    /\ at.method = "drain" /\ toDriver = <<>>
    /\ Ends("returned", Assemble(turn))
    /\ UNCHANGED <<session, replaying, turn, said>> /\ Elsewhere

Continue == \/ Initialized \/ Loaded \/ Opened \/ SessionRefused \/ Authenticated
            \/ ModelSelected \/ ModeSelected \/ PromptAnswered
-----------------------------------------------------------------------------
(* The driver, reading a frame. *)

Listens == at.method \notin {"returned", "threw"} /\ output = "open" /\ toDriver # <<>>
Reads(kind) == /\ Listens /\ ~deaf /\ Head(toDriver).kind = kind
               /\ toDriver' = Tail(toDriver)
Quiet == UNCHANGED <<given, transport, agent>>

ReadAnswer ==
    /\ Reads("answer")
    /\ IF pending # None
       THEN pending' = None /\ outcome' = Head(toDriver).outcome
       ELSE UNCHANGED <<pending, outcome>>
    /\ UNCHANGED <<at, session, replaying, result, listening, toAgent, decided>>
    /\ Quiet

ReadChunk ==
    /\ Reads("chunk")
    /\ turn' = Chunk(turn, Head(toDriver).id, <<Head(toDriver).text>>)
    /\ said' = Append(said, Head(toDriver))
    /\ UNCHANGED <<driver, approvals, narrated, toAgent, decided>>
    /\ Quiet

\* A step of the turn, or of one that a load replays.
ReadTool ==
    /\ Reads("tool")
    /\ narrated' = IF replaying THEN narrated ELSE narrated \cup {Head(toDriver).of}
    /\ turn' = ToolCall(turn)
    /\ said' = Append(said, Head(toDriver))
    /\ UNCHANGED <<driver, approvals, toAgent, decided>>
    /\ Quiet

ReadThought ==
    /\ Reads("thought")
    /\ narrated' = IF replaying THEN narrated ELSE narrated \cup {Head(toDriver).of}
    /\ UNCHANGED <<driver, turn, approvals, said, toAgent, decided>>
    /\ Quiet

\* The driver's own floor, for an agent of this machine.
ReadAsk ==
    /\ Reads("ask")
    /\ LET ask == Head(toDriver).ask
           new == Decision(ask, Policy)
       IN /\ approvals' = approvals \o new
          /\ decided' = decided \o new
          /\ toAgent' = IF ~writable THEN toAgent
                        ELSE Append(toAgent, [kind |-> "permission", ask |-> ask,
                                              option |-> Respond(ask, Policy)])
    /\ UNCHANGED <<driver, turn, narrated, said>>
    /\ Quiet

\* Mutant: a report is believed whoever sent it.
ReadReportAnyway ==
    /\ Reads("report")
    /\ approvals' = approvals \o Head(toDriver).decision
    /\ UNCHANGED <<driver, turn, narrated, said, toAgent, decided>>
    /\ Quiet

\* Only a companion that owns the floor is believed about it.
ReadReport ==
    /\ Reads("report")
    /\ approvals' = IF given.upstream THEN approvals \o Head(toDriver).decision
                                      ELSE approvals
    /\ UNCHANGED <<driver, turn, narrated, said, toAgent, decided>>
    /\ Quiet

\* A frame beyond the budget: the reader takes nothing any more, and whatever
\* is pending fails, then and with every chunk that follows.
Overflows ==
    /\ Listens
    /\ deaf \/ Head(toDriver).kind = "huge"
    /\ toDriver' = Tail(toDriver)
    /\ deaf' = TRUE
    /\ FailAllPending
    /\ UNCHANGED <<at, session, replaying, result, listening, writable, output, toAgent, decided>>
    /\ UNCHANGED <<given, agent>>

Dispatch == \/ ReadAnswer \/ ReadChunk \/ ReadTool \/ ReadThought \/ ReadAsk
            \/ ReadReport \/ Overflows
-----------------------------------------------------------------------------
(* The agent, which answers a request when it likes. *)

Alive == at.method \notin {"returned", "threw"} /\ output = "open"
At(methods) == work # None /\ work.method \in methods
Room(n) == Len(toDriver) + n <= MaxWire
Sends(frames) == Room(Len(frames)) /\ toDriver' = toDriver \o frames
Answer(o) == [kind |-> "answer", outcome |-> o]
Still == UNCHANGED <<given, driver, listening, transport>>

\* What follows a grant: the mode is left, or a file written.
Told(ask, option) ==
    LET granted == option \in {"allow_once", "allow_always"}
    IN /\ IF granted /\ ask.kind \in {"switch-mode", "switch_mode"}
          THEN \E m \in given.modes : sess' = [sess EXCEPT !.mode = m]
          ELSE UNCHANGED sess
       /\ wrote' = (wrote \/ (granted /\ ask.kind = "edit"))

AgentReads ==
    /\ Alive /\ toAgent # <<>>
    /\ LET m == Head(toAgent)
       IN IF m.kind = "permission"
          THEN Told(m.ask, m.option) /\ UNCHANGED <<work, history>>
          ELSE /\ work' = [method |-> m.method, want |-> m.want]
               /\ history' = IF m.method = "session/prompt" /\ m.want = "with context"
                             THEN history + 1 ELSE history
               /\ UNCHANGED <<sess, wrote>>
    /\ toAgent' = Tail(toAgent)
    /\ UNCHANGED <<authed, asked, toDriver, decided>> /\ Still

AgentRefuses ==
    /\ Alive /\ At(Method \ {"initialize"})
    /\ work' = None
    /\ Sends(<<Answer(Refused("other"))>>)
    /\ UNCHANGED <<authed, sess, asked, wrote, history, toAgent, decided>> /\ Still

\* The conversation so far, as a load replays it.
Replay == {<<>>, <<[kind |-> "chunk", id |-> None, text |-> 0],
                   [kind |-> "tool", of |-> "before"]>>}

AgentOpens ==
    /\ Alive /\ At({"session/load", "session/new"})
    /\ work' = None
    /\ IF given.gated /\ ~authed
       THEN /\ Sends(<<Answer(Refused("auth"))>>)
            /\ UNCHANGED <<sess, history>>
       ELSE \E mode \in given.modes \cup {None}, model \in given.models, replay \in Replay :
              LET old == At({"session/load"})
                  s   == [id |-> IF old THEN "old" ELSE "new", mode |-> mode, model |-> model]
              IN /\ (mode = None) = (given.modes = {})
                 /\ replay # <<>> => old
                 /\ sess' = s
                 /\ history' = IF old THEN 1 ELSE 0
                 /\ \/ Sends(replay \o <<Answer(Granted(s))>>)
                    \/ LateReplay /\ Sends(<<Answer(Granted(s))>> \o replay)
    /\ UNCHANGED <<authed, asked, wrote, toAgent, decided>> /\ Still

AgentAuthenticates ==
    /\ Alive /\ At({"authenticate"})
    /\ work' = None /\ authed' \in BOOLEAN
    /\ Sends(<<Answer(Granted(None))>>)
    /\ UNCHANGED <<sess, asked, wrote, history, toAgent, decided>> /\ Still

\* An option may not stick: the agent says what is in force.
AgentSets ==
    /\ Alive
    /\ \/ At({"initialize"}) /\ UNCHANGED sess /\ Sends(<<Answer(Granted(None))>>)
       \/ At({"session/set_model", "model option"})
          /\ \/ sess' = [sess EXCEPT !.model = work.want]
             \/ At({"model option"}) /\ UNCHANGED sess
          /\ Sends(<<Answer(Granted(sess'.model))>>)
       \/ At({"session/set_mode", "mode option"})
          /\ \/ sess' = [sess EXCEPT !.mode = work.want]
             \/ At({"mode option"}) /\ UNCHANGED sess
          /\ Sends(<<Answer(Granted(sess'.mode))>>)
    /\ work' = None
    /\ UNCHANGED <<authed, asked, wrote, history, toAgent, decided>> /\ Still

AgentEndsPrompt ==
    /\ Alive /\ At({"session/prompt"})
    /\ work' = [work EXCEPT !.method = "answered"]
    /\ Sends(<<Answer(Granted(None))>>)
    /\ UNCHANGED <<authed, sess, asked, wrote, history, toAgent, decided>> /\ Still

\* Updates of the turn; some agents send the last ones after their answer.
AgentSays ==
    /\ Alive /\ asked < MaxSays
    /\ At({"session/prompt", "answered"})
    /\ asked' = asked + 1
    /\ \E frame \in [kind: {"chunk"}, id: given.ids, text: {asked + 1}]
                \cup [kind: {"tool", "thought"}, of: {"this"}] : Sends(<<frame>>)
    /\ UNCHANGED <<work, authed, sess, wrote, history, toAgent, decided>> /\ Still

\* Under a mode that lets it write, an agent does not ask.
AgentWrites ==
    /\ Alive /\ At({"session/prompt"}) /\ WriteCapable(sess.mode) /\ sess.mode # None
    /\ wrote' = TRUE
    /\ UNCHANGED <<work, authed, sess, asked, history, toDriver, toAgent, decided>> /\ Still

\* A request for permission: a companion answers it and reports its decision.
AgentAsks ==
    /\ Alive /\ asked < MaxSays /\ At({"session/prompt"})
    /\ asked' = asked + 1
    /\ \E ask \in Ask :
         IF given.upstream
         THEN /\ Told(ask, Respond(ask, Policy))
              /\ decided' = decided \o Decision(ask, Policy)
              /\ IF Decision(ask, Policy) = <<>> THEN UNCHANGED toDriver
                 ELSE Sends(<<[kind |-> "report", decision |-> Decision(ask, Policy)]>>)
         ELSE /\ Sends(<<[kind |-> "ask", ask |-> ask]>>)
              /\ UNCHANGED <<sess, wrote, decided>>
    /\ UNCHANGED <<work, authed, history, toAgent>> /\ Still

\* An agent that reports a decision itself: a companion drops that.
AgentForges ==
    /\ Alive /\ asked < MaxSays /\ At({"session/prompt"})
    /\ asked' = asked + 1
    /\ IF given.upstream THEN UNCHANGED toDriver
       ELSE Sends(<<[kind |-> "report", decision |-> <<[kind |-> "edit", allowed |-> TRUE]>>]>>)
    /\ UNCHANGED <<work, authed, sess, wrote, history, toAgent, decided>> /\ Still

AgentFloods ==
    /\ Alive /\ asked < MaxSays /\ work # None
    /\ asked' = MaxSays
    /\ Sends(<<[kind |-> "huge"]>>)
    /\ UNCHANGED <<work, authed, sess, wrote, history, toAgent, decided>> /\ Still

AgentStep == \/ AgentReads \/ AgentRefuses \/ AgentOpens \/ AgentAuthenticates
             \/ AgentSets \/ AgentEndsPrompt \/ AgentSays \/ AgentWrites
             \/ AgentAsks \/ AgentForges \/ AgentFloods
-----------------------------------------------------------------------------
(* The transport: its two directions fail apart.  The one that is read ends *)
(* and closes.  An agent of this machine is read from its stdout, a socket  *)
(* that closes in a later phase of the event loop, with the driver running  *)
(* between.  A companion's is read through a PassThrough, whose close       *)
(* follows its end before any continuation runs: to the driver, one event.  *)

InputBreaks ==
    /\ Alive /\ writable
    /\ writable' = FALSE
    /\ UNCHANGED <<given, driver, listening, output, deaf, agent, toAgent, toDriver, decided>>

OutputEnds ==
    /\ Alive /\ outcome = None /\ toDriver = <<>>
    /\ output' = IF given.upstream THEN "closed" ELSE "ended"
    /\ FailAllPending
    /\ UNCHANGED <<at, session, replaying, result, given, listening, writable, deaf, agent,
                   toAgent, toDriver, decided>>

\* Mutant: only the end is listened for.
OutputClosesUnheard ==
    /\ output = "ended" /\ outcome = None
    /\ output' = "closed"
    /\ UNCHANGED <<given, driver, listening, writable, deaf, agent, toAgent, toDriver, decided>>

OutputCloses ==
    /\ output = "ended" /\ outcome = None
    /\ output' = "closed"
    /\ FailAllPending
    /\ UNCHANGED <<at, session, replaying, result, given, listening, writable, deaf, agent,
                   toAgent, toDriver, decided>>

Next == Continue \/ DrainEnds \/ Dispatch \/ AgentStep
        \/ InputBreaks \/ OutputEnds \/ OutputCloses

Spec == Init /\ [][Next]_vars

\* The driver's own loop runs; of the agent nothing is assumed.
FairSpec == Spec /\ WF_vars(Continue) /\ WF_vars(DrainEnds) /\ WF_vars(OutputCloses)
-----------------------------------------------------------------------------
(* What the driver owes its caller.  A bad outcome of any of these takes    *)
(* several frames, and often the agent's part, to reach.                    *)

\* A prompt is worked on in the mode the member chose, or if none was in plan where
\* that is what keeps the agent from writing, and by the model asked for, when the agent
\* offers it: through a resume that fails, a selection that does not stick and an
\* agent that asks to leave the mode.
PromptAsChosen ==
    At({"session/prompt"}) =>
      /\ given.mode # None => sess.mode = given.mode
      /\ given.mode = None /\ given.requirePlan => sess.mode = "plan"
      /\ given.candidates # <<>> => sess.model = Candidate
      /\ given.candidates = <<>> /\ given.modelsAs = "roster" /\ given.model \in given.models
           => sess.model = given.model

\* Nothing is written for a member who chose a mode that only reads, nor for one who
\* chose none where plan is required, whatever the agent asks, and on whichever
\* machine the floor stands.
ReadOnlyNeverWrites ==
    (IF given.mode = None THEN given.requirePlan ELSE ~WriteCapable(given.mode)) => ~wrote

\* The agent has the conversation once when it is prompted: it is neither
\* left out of a session that starts over nor told to one that remembers.
HistoryOnce == At({"session/prompt"}) => history = 1

\* What a turn reports as allowed and refused is what its floor decided, in
\* that order, and not what its agent says of it.
ReportIsTrue == at.method = "returned" => approvals = decided

\* The steps shown while a turn runs are that turn's.
NarratesThisTurn == narrated \subseteq {"this"}

\* The answer a reader of the turn's updates would give, and not of those of an
\* earlier turn that a load replays: the last message whole when the agent labels
\* them, wherever notices fell; else what follows the last break at which something
\* had been said.  Every notice is told as one.
Spoken   == {i \in DOMAIN said : said[i].kind = "chunk"}
Labelled == {i \in Spoken : said[i].id # None}
LastMessage ==
    IF Labelled # {} THEN {i \in Labelled : \A j \in Labelled : j >= i => said[j].id = said[i].id}
                     ELSE {i \in Spoken : \A k \in Spoken : i..k \subseteq Spoken}
\* The updates I in their order.
Tells(text, I) ==
    /\ Len(text) = Cardinality(I)
    /\ \A i \in I : text[Cardinality({j \in I : j <= i})] = said[i].text
Contents(texts) == UNION {{texts[k][i] : i \in DOMAIN texts[k]} : k \in DOMAIN texts}
Replayed(update) == IF update.kind = "chunk" THEN update.text = 0 ELSE update.of # "this"
AnswerIsLastMessage ==
    at.method = "returned" =>
      /\ \A i \in DOMAIN said : ~Replayed(said[i])
      /\ Tells(result.text, LastMessage)
      /\ Labelled # {} =>
           Contents(result.notices) = {said[i].text : i \in Spoken \ Labelled}

\* The requests that answer the failure of another: a new session for a load, and the
\* prompt for a plan that was only a hint.
FallsBack == \/ at.method = "session/new" /\ given.resume /\ given.load
             \/ at.method = "session/prompt" /\ given.mode = None /\ ~given.requirePlan

\* One of these, made after the close, is sent to nobody and awaited for good.
Stranded == FallsBack /\ pending = at.method /\ output = "closed" /\ given.upstream

\* A call whose transport has gone comes to an end, whatever it was at and whatever
\* it does about the failure.  Over a PassThrough it may be stranded instead: its
\* caller has gone by then, with an error of its own.
Settles == output # "open" ~> at.method \in {"returned", "threw"} \/ Stranded
=============================================================================
