----------------------------- MODULE Companion ------------------------------
(***************************************************************************)
(* The companion: packages/companion/src/index.ts, with the clone of       *)
(* workspace.ts.                                                           *)
(*                                                                         *)
(* One process on a member's machine.  It runs an agent for every session  *)
(* the gateway opens on it, after cloning a workspace if the session asks  *)
(* for one, and keeps its agents while it reconnects.  Handlers run one at *)
(* a time; git and the agents end when they like.  What the gateway does   *)
(* with the lines is in System.                                            *)
(***************************************************************************)
EXTENDS Naturals, Sequences, FiniteSets

CONSTANTS SessionId,
          MaxSessions,  \* the limit the companion declares and keeps to
          MaxOutbox     \* MAX_OUTBOX_LINES

VARIABLES running,      \* the process is up
          shuttingDown,
          link,         \* where the connection epoch stands
          sessions,     \* sessions served by an agent
          pending,      \* opens whose clone holds a slot
          clones,       \* opens whose git has not exited
          agents,       \* sessions whose agent, of this process, has not exited
          temp,         \* sessions with a workspace or an agent home on disk
          outbox,       \* lines waiting for a connection
          body,         \* lines of this epoch's ingest body, not read yet
          draining      \* lines of an earlier epoch's body that may still be read

process == <<running, shuttingDown>>
work    == <<sessions, pending, clones, agents, temp>>
lines   == <<outbox, body, draining>>
vars    == <<process, link, work, lines>>

\* What System assumes of the constants.
CompanionAssumption ==
    MaxSessions \in Nat \ {0} /\ MaxOutbox \in Nat \ {0}

\* "connecting" is between the stream's GET and its answer; a "broken" epoch is
\* one the companion still believes in.
Link == {"off", "connecting", "attached", "broken"}

\* A hello names the sessions it declares, a goodbye none, any other line one.
Line == [kind: {"hello", "opened", "refused", "frame", "close", "goodbye"},
         ids: SUBSET SessionId]
Says(kind, s) == [kind |-> kind, ids |-> {s}]

\* What a hello declares, and what counts against the limit.
Working == sessions \cup pending
-----------------------------------------------------------------------------
Init == /\ running = TRUE /\ shuttingDown = FALSE
        /\ link = "off"
        /\ sessions = {} /\ pending = {} /\ clones = {} /\ agents = {}
        /\ temp = {}
        /\ outbox = <<>> /\ body = <<>> /\ draining = <<>>

HasUpstream == link \in {"attached", "broken"}

\* An ending epoch leaves what the network had taken of its body.
Drains == draining' = IF link = "attached" /\ body # <<>> THEN body ELSE draining

\* sendLine, with the sessions ss and the pending opens pp the handler leaves: a
\* line too many fails every session.
Fits == IF HasUpstream THEN Len(body) <= MaxOutbox ELSE Len(outbox) < MaxOutbox

Enqueue(line, ss, pp) ==
    /\ Fits
    /\ IF HasUpstream THEN body' = Append(body, line) /\ outbox' = outbox
                      ELSE outbox' = Append(outbox, line) /\ body' = body
    /\ sessions' = ss /\ pending' = pp
    /\ UNCHANGED <<link, draining>>

Overflow ==
    /\ ~Fits
    /\ sessions' = {} /\ pending' = {}
    /\ outbox' = <<>> /\ body' = <<>> /\ Drains
    /\ link' = "off"

SendLine(line, ss, pp) == Enqueue(line, ss, pp) \/ Overflow

\* The same for a handler that has nothing to say.
Leaves(ss, pp) == sessions' = ss /\ pending' = pp /\ UNCHANGED <<link, lines>>

-----------------------------------------------------------------------------
(* openSession: what a line from the gateway asks for. *)

MayOpen(s) == Cardinality(Working) < MaxSessions /\ s \notin Working

\* At capacity, an agent or a workspace that is not offered, a failed setup.
RefuseOpen(s) ==
    /\ SendLine(Says("refused", s), sessions, pending)
    /\ UNCHANGED <<process, clones, agents, temp>>

Spawn(s) ==
    /\ MayOpen(s)
    /\ agents' = agents \cup {s}
    /\ temp' = temp \cup {s}
    /\ SendLine(Says("opened", s), sessions \cup {s}, pending)
    /\ UNCHANGED <<process, clones>>

BeginClone(s) ==
    /\ MayOpen(s)
    /\ clones' = clones \cup {s}
    /\ temp' = temp \cup {s}
    /\ Leaves(sessions, pending \cup {s})
    /\ UNCHANGED <<process, agents>>

OpenSession(s) == RefuseOpen(s) \/ Spawn(s) \/ BeginClone(s)

\* Mutant: nobody looks at whether the open was cancelled.
CloneEndsAnyway(s) ==
    /\ s \in clones
    /\ clones' = clones \ {s}
    /\ agents' = agents \cup {s} /\ UNCHANGED temp
    /\ SendLine(Says("opened", s), sessions \cup {s}, pending \ {s})
    /\ UNCHANGED process

\* The rest of openSession, once git has exited: nothing for an open that was
\* cancelled meanwhile, a refusal or an agent for one that still holds its slot.
CloneEnds(s) ==
    /\ s \in clones
    /\ clones' = clones \ {s}
    /\ \/ /\ s \notin pending
          /\ temp' = temp \ {s}
          /\ Leaves(sessions, pending)
          /\ UNCHANGED agents
       \/ /\ s \in pending
          /\ temp' = temp \ {s}
          /\ SendLine(Says("refused", s), sessions, pending \ {s})
          /\ UNCHANGED agents
       \/ /\ s \in pending
          /\ agents' = agents \cup {s} /\ UNCHANGED temp
          /\ SendLine(Says("opened", s), sessions \cup {s}, pending \ {s})
    /\ UNCHANGED process

\* Mutant: a close does not reach an open still cloning.
CloseAgentOnly(s) ==
    /\ Leaves(sessions \ {s}, pending)
    /\ UNCHANGED <<process, clones, agents, temp>>

\* endSession for a close from the gateway: a pending open is cancelled, an agent
\* told to stop; its files wait until it has.
CloseSession(s) ==
    /\ Leaves(sessions \ {s}, pending \ {s})
    /\ UNCHANGED <<process, clones, agents, temp>>

\* Frames go to the agent's stdin and change nothing here.
Receive(kind, s) ==
    \/ shuttingDown /\ UNCHANGED vars
    \/ ~shuttingDown /\ kind = "open" /\ OpenSession(s)
    \/ ~shuttingDown /\ kind = "close" /\ CloseSession(s)
    \/ ~shuttingDown /\ kind = "frame" /\ UNCHANGED vars

-----------------------------------------------------------------------------
(* What the agents do. *)

\* A frame is forwarded as long as the agent lives, whatever became of its
\* session.
AgentSpeaks(s) ==
    /\ s \in agents
    /\ SendLine(Says("frame", s), sessions, pending)
    /\ UNCHANGED <<process, clones, agents, temp>>

\* Mutant: the files go with the session, while the agent still writes.
AgentOverrunsAtOnce(s) ==
    /\ s \in agents \cap sessions
    /\ temp' = temp \ {s}
    /\ SendLine(Says("close", s), sessions \ {s}, pending)
    /\ UNCHANGED <<process, clones, agents>>

\* A frame over the budget ends the session; the agent takes its time.
AgentOverruns(s) ==
    /\ s \in agents \cap sessions
    /\ SendLine(Says("close", s), sessions \ {s}, pending)
    /\ UNCHANGED <<process, clones, agents, temp>>

\* The agent exits, or could not be spawned: its files go, and a session that it
\* was still serving is closed.
AgentExits(s) ==
    /\ s \in agents
    /\ agents' = agents \ {s}
    /\ temp' = temp \ {s}
    /\ \/ /\ s \in sessions
          /\ SendLine(Says("close", s), sessions \ {s}, pending)
       \/ /\ s \notin sessions
          /\ Leaves(sessions, pending)
    /\ UNCHANGED <<process, clones>>

-----------------------------------------------------------------------------
(* connectOnce, one epoch after another. *)

Connect ==
    /\ running /\ link = "off"
    /\ link' = "connecting"
    /\ UNCHANGED <<process, work, lines>>

\* Mutant: the hello declares nothing.
AttachWithNothing ==
    /\ link = "connecting"
    /\ link' = "attached"
    /\ body' = <<[kind |-> "hello", ids |-> {}]>> \o outbox
    /\ outbox' = <<>>
    /\ UNCHANGED <<process, work, draining>>

\* The stream is answered: the ingest body opens with a hello and the outbox.
Attach ==
    /\ link = "connecting"
    /\ link' = "attached"
    /\ body' = <<[kind |-> "hello", ids |-> Working]>> \o outbox
    /\ outbox' = <<>>
    /\ UNCHANGED <<process, work, draining>>

\* The network gives up on an epoch the companion still believes in.
Break ==
    /\ link = "attached"
    /\ link' = "broken"
    /\ body' = <<>> /\ Drains
    /\ UNCHANGED <<process, work, outbox>>

\* A read that fails, a stream that ends, an ingest turned down or 70 seconds of
\* silence: what was enqueued on the body is gone.
EpochEnds ==
    /\ link # "off"
    /\ link' = "off"
    /\ body' = <<>> /\ Drains
    /\ UNCHANGED <<process, work, outbox>>

-----------------------------------------------------------------------------
(* shutdown and the process. *)

Closes(q) == [i \in DOMAIN q |-> Says("close", q[i])]

\* SIGTERM: the agents of sessions and the clones are killed and their files
\* reclaimed, each is closed, and the goodbye comes last.  q is the order of the
\* two maps.
Shutdown(q) ==
    LET last == Closes(q) \o <<[kind |-> "goodbye", ids |-> {}]>>
    IN /\ running /\ ~shuttingDown
       /\ shuttingDown' = TRUE
       /\ sessions' = {} /\ pending' = {}
       /\ agents' = agents \ sessions
       /\ temp' = temp \ Working
       /\ clones' = clones \ pending
       /\ IF HasUpstream THEN body' = body \o last /\ outbox' = outbox
                         ELSE outbox' = outbox \o last /\ body' = body
       /\ UNCHANGED <<running, link, draining>>

\* The process ends, 200 ms after a shutdown or at any time, and all it knew is
\* lost: what it leaves on the machine is nobody's.
Exit ==
    /\ running
    /\ running' = FALSE /\ shuttingDown' = FALSE
    /\ link' = "off"
    /\ sessions' = {} /\ pending' = {} /\ clones' = {} /\ agents' = {} /\ temp' = {}
    /\ outbox' = <<>> /\ body' = <<>> /\ Drains

Start == ~running /\ running' = TRUE /\ UNCHANGED <<shuttingDown, link, work, lines>>
=============================================================================
