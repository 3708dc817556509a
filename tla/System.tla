------------------------------- MODULE System -------------------------------
(***************************************************************************)
(* The relay and one companion over the network between them: relay.ts as  *)
(* server.ts calls it, the companion's index.ts, and the clients of        *)
(* packages/client/src/remote.ts that open sessions on it.                 *)
(*                                                                         *)
(* The companion listens on one leg and posts on another.  Either side may *)
(* lose a leg before the other notices, lines of a dead epoch may still    *)
(* arrive or be lost, and both processes may restart.                      *)
(***************************************************************************)
EXTENDS Naturals, Sequences, FiniteSets, SequencesExt

CONSTANTS SessionId,
          MaxSessions, MaxOutbox,
          MaxFailures,  \* bound: drops, restarts and shutdowns in a behaviour
          MaxDown,      \* bound: lines on the leg that a client's frame may add to
          Laptop, Ann, Run, Codex,  \* the one endpoint, owner, run and agent
          None

\* The relay's.
VARIABLES endpoints, sessions, attachments, stray, farewells, sent
\* The companion's.
VARIABLES running, shuttingDown, link, served, pending, clones, agents, temp,
          outbox, body, draining
VARIABLES leg,         \* the leg the gateway has registered: the companion's or a dead one
          down,        \* lines on the companion's leg
          generation,  \* the attachment made by the hello of the current body
          lateGeneration,  \* and of the one still draining
          client,      \* id -> where remote.ts stands with it
          failures

R == INSTANCE Relay WITH
        Endpoint <- {Laptop}, Owner <- {Ann}, RunId <- {Run}, Agent <- {Codex},
        Offers <- {{Codex}}, OwnerOf <- [e \in {Laptop} |-> Ann],
        MaxSlots <- MaxSessions, MaxAttachments <- MaxFailures + 1

C == INSTANCE Companion WITH sessions <- served

ASSUME SystemAssumption ==
    /\ R!RelayAssumption /\ C!CompanionAssumption
    /\ MaxFailures \in Nat /\ MaxDown \in Nat

relayState == <<endpoints, sessions, attachments, stray, farewells>>
companion  == <<running, shuttingDown, link, served, pending, clones, agents, temp,
                outbox, body, draining>>
gateway    == <<leg, down, generation, lateGeneration>>
vars       == <<relayState, sent, companion, gateway, client, failures>>
-----------------------------------------------------------------------------
Init == /\ R!Init /\ C!Init
        /\ leg = "none" /\ down = <<>> /\ generation = 0 /\ lateGeneration = 0
        /\ client = [s \in SessionId |-> "idle"]
        /\ failures = 0

Fails == failures < MaxFailures /\ failures' = failures + 1

\* sendToEndpoint: down the registered leg, or nowhere.
LinesDown == {[kind |-> l.kind, session |-> l.session] : l \in {m \in sent' : m.to = Laptop}}
Relayed == IF leg = "companion" THEN \E q \in SetToSeqs(LinesDown) : down' = down \o q
                                ELSE UNCHANGED down

\* An epoch that ends takes the leg's lines along; the gateway may not notice.
LegDies == /\ down' = <<>>
           /\ leg' = IF leg = "companion" THEN "dead" ELSE leg
           /\ lateGeneration' = IF draining' # draining THEN generation ELSE lateGeneration
           /\ UNCHANGED generation

\* The companion ran a handler; an overflow in it ended the epoch.
Handled == IF link' = link THEN UNCHANGED <<gateway, failures>>
                           ELSE LegDies /\ Fails
-----------------------------------------------------------------------------
(* The companion works. *)

\* Bound: an agent has one frame on its way at a time.
FrameRoom(s) == C!Says("frame", s) \notin ToSet(body) \cup ToSet(outbox)

CompanionReads ==
    /\ link = "attached" /\ down # <<>>
    /\ C!Receive(Head(down).kind, Head(down).session)
    /\ IF link' = link THEN down' = Tail(down) /\ UNCHANGED <<leg, generation, lateGeneration, failures>>
                       ELSE LegDies /\ Fails
    /\ R!Ignored /\ UNCHANGED client

CompanionWorks ==
    /\ \E s \in SessionId : \/ C!CloneEnds(s)
                            \/ FrameRoom(s) /\ C!AgentSpeaks(s)
                            \/ C!AgentOverruns(s)
                            \/ C!AgentExits(s)
    /\ Handled
    /\ R!Ignored /\ UNCHANGED client

\* registerPeerStream: the new leg is the registered one, whatever it replaces.
Connects ==
    /\ C!Connect
    /\ leg' = "companion" /\ down' = <<>>
    /\ R!Ignored /\ UNCHANGED <<generation, lateGeneration, client, failures>>

Attaches ==
    /\ C!Attach
    /\ generation' = 0
    /\ R!Ignored /\ UNCHANGED <<leg, down, lateGeneration, client, failures>>

\* An epoch that fails here, and one the companion gives up on: its network broke
\* or the gateway ended its leg.
EpochEnds == C!EpochEnds /\ LegDies /\ R!Ignored /\ UNCHANGED client
EpochFails == EpochEnds /\ link # "broken" /\ leg = "companion" /\ Fails
GivesUp == EpochEnds /\ (link = "broken" \/ leg # "companion") /\ UNCHANGED failures

NetworkBreaks ==
    /\ C!Break /\ Fails /\ LegDies
    /\ R!Ignored /\ UNCHANGED client

ShutsDown ==
    /\ Fails
    /\ \E q \in SetToSeqs(served), r \in SetToSeqs(pending) : C!Shutdown(q \o r)
    /\ R!Ignored /\ UNCHANGED <<gateway, client>>

\* The end of a shutdown, and a crash.
CompanionExits == C!Exit /\ LegDies /\ R!Ignored /\ UNCHANGED client
Quits == CompanionExits /\ shuttingDown /\ UNCHANGED failures
Crashes == CompanionExits /\ Fails

CompanionStarts == C!Start /\ R!Ignored /\ UNCHANGED <<gateway, client, failures>>

-----------------------------------------------------------------------------
(* The gateway reads, of the current body or of the one before. *)

\* handleEndpointIngest; g is the attachment the body's hello made.
Apply(line, g) ==
    CASE line.kind = "hello"   -> R!AttachEndpoint(Laptop, line.ids, MaxSessions, {Codex})
      [] line.kind = "goodbye" -> IF g = 0 THEN R!Ignored ELSE R!SayGoodbye(Laptop, g)
      [] OTHER -> \E s \in line.ids :
           \/ ~R!Speaks(Laptop, s) /\ R!Ignored
           \/ line.kind = "opened"  /\ R!AckOpened(Laptop, s)
           \/ line.kind = "refused" /\ R!AckRefused(Laptop, s)
           \/ line.kind = "close"   /\ R!EndpointClose(Laptop, s)
           \/ line.kind = "frame"   /\ R!EndpointLine(Laptop, s)

GatewayReads ==
    /\ link = "attached" /\ body # <<>>
    /\ Apply(Head(body), generation)
    /\ body' = Tail(body)
    /\ generation' = IF Head(body).kind = "hello" THEN attachments' ELSE generation
    /\ Relayed
    /\ UNCHANGED <<running, shuttingDown, link, served, pending, clones, agents, temp,
                   outbox, draining, leg, lateGeneration, client, failures>>

\* What is left of an earlier body arrives after all, or never does.
GatewayReadsLate ==
    /\ draining # <<>>
    /\ Apply(Head(draining), lateGeneration)
    /\ draining' = Tail(draining)
    /\ lateGeneration' = IF Head(draining).kind = "hello" THEN attachments' ELSE lateGeneration
    /\ Relayed
    /\ UNCHANGED <<running, shuttingDown, link, served, pending, clones, agents, temp,
                   outbox, body, leg, generation, client, failures>>
RestIsLost ==
    /\ draining # <<>> /\ draining' = <<>>
    /\ R!Ignored
    /\ UNCHANGED <<running, shuttingDown, link, served, pending, clones, agents, temp,
                   outbox, body, gateway, client, failures>>

\* The registered leg closes: one that died, or the companion's own.
LegCloses ==
    /\ leg' = "none"
    /\ IF Laptop \in R!Attached THEN R!DetachEndpoint(Laptop) ELSE R!Ignored
    /\ UNCHANGED <<companion, down, generation, lateGeneration, client>>
DeadLegCloses == LegCloses /\ leg = "dead" /\ UNCHANGED failures
LegIsCut == LegCloses /\ leg = "companion" /\ Fails

\* One resume window, for the leg it was set for or left behind by a refusal.
TimerFires ==
    /\ \E s \in SessionId, l \in R!Leg : R!TimerFires(s, l) \/ R!StrayFires(s, l)
    /\ Relayed
    /\ UNCHANGED <<companion, leg, generation, lateGeneration, client, failures>>

\* The gateway restarts, and every connection of its breaks.
GatewayRestarts ==
    /\ Fails
    /\ endpoints' = [e \in {Laptop} |-> None]
    /\ sessions' = [s \in SessionId |-> None]
    /\ attachments' = 0 /\ stray' = {} /\ farewells' = {} /\ sent' = {}
    /\ leg' = "none" /\ down' = <<>> /\ generation' = 0 /\ lateGeneration' = 0
    /\ link' = IF link = "attached" THEN "broken" ELSE link
    /\ body' = IF link = "attached" THEN <<>> ELSE body
    /\ draining' = <<>>
    /\ UNCHANGED <<running, shuttingDown, served, pending, clones, agents, temp,
                   outbox, client>>

-----------------------------------------------------------------------------
(* The clients: remote.ts draws a fresh id for every prompt. *)

ClientOpens(s) ==
    /\ client[s] = "idle"
    /\ \/ R!RefuseOpen(Laptop, s, Codex, Ann) /\ client' = [client EXCEPT ![s] = "over"]
       \/ R!AcceptOpen(Laptop, s, Run, Codex, Ann) /\ client' = [client EXCEPT ![s] = "open"]
    /\ Relayed
    /\ UNCHANGED <<companion, leg, generation, lateGeneration, failures>>

ClientSpeaks(s) ==
    /\ client[s] = "open" /\ Len(down) < MaxDown
    /\ R!ClientLine(s)
    /\ Relayed
    /\ UNCHANGED <<companion, leg, generation, lateGeneration, client, failures>>

\* The prompt is over, answered or not: a close is posted and the leg dropped, or
\* the leg alone is.
ClientEnds(s) ==
    /\ client[s] = "open"
    /\ client' = [client EXCEPT ![s] = "over"]
    /\ R!CloseSession(s) \/ R!DetachClient(s)
    /\ Relayed
    /\ UNCHANGED <<companion, leg, generation, lateGeneration, failures>>

-----------------------------------------------------------------------------
Next == \/ CompanionReads \/ CompanionWorks
        \/ Connects \/ Attaches \/ NetworkBreaks \/ EpochFails \/ GivesUp
        \/ ShutsDown \/ Quits \/ Crashes \/ CompanionStarts
        \/ GatewayReads \/ GatewayReadsLate \/ RestIsLost
        \/ DeadLegCloses \/ LegIsCut \/ TimerFires \/ GatewayRestarts
        \/ \E s \in SessionId : ClientOpens(s) \/ ClientSpeaks(s) \/ ClientEnds(s)

\* Each of the two event loops goes on as long as there is something for it to do:
\* main() reconnects while the process runs, an idle or ended epoch is given up, a
\* connection delivers, and a timer that is set fires.
CompanionLoop == Connects \/ Attaches \/ CompanionReads \/ GivesUp
GatewayLoop == GatewayReads \/ DeadLegCloses \/ TimerFires

Fairness == WF_vars(CompanionLoop) /\ WF_vars(Quits) /\ WF_vars(GatewayLoop)

Spec == Init /\ [][Next]_vars
FairSpec == Spec /\ Fairness
-----------------------------------------------------------------------------
TypeOK ==
    /\ R!TypeOK
    /\ running \in BOOLEAN /\ shuttingDown \in BOOLEAN
    /\ link \in C!Link
    /\ \A S \in {served, pending, clones, agents, temp} : S \subseteq SessionId
    /\ \A q \in {outbox, body, draining} : ToSet(q) \subseteq C!Line
    /\ leg \in {"none", "companion", "dead"}
    /\ client \in [SessionId -> {"idle", "open", "over"}]
    /\ generation \in 0..attachments /\ lateGeneration \in 0..attachments
    /\ failures \in 0..MaxFailures

\* Once a connection is quiet, both ends agree on the sessions: the ids the relay
\* counts against the limit are those the companion works on, whatever was lost,
\* repeated or late before.
Agreement ==
    link = "attached" /\ leg = "companion" /\ body = <<>> /\ down = <<>> /\ ~shuttingDown
        => R!Held(Laptop) = C!Working

\* The workspace of a session, and the home of its agent, are on disk exactly as
\* long as something may still write there: git or the agent.
FilesOutliveWriters == temp = clones \cup agents

\* "Spawning would leave an agent nobody awaits": none is for an open that was
\* cancelled while its clone ran.
CancelledNeverSpawn == [][\A s \in agents' \ agents : s \notin clones \ pending]_vars

\* "Detached agents outlive us, so SIGKILL the group now": a companion that was
\* told to stop leaves no agent behind, nor the home it writes to. It does not hold
\* of a session that ended within the kill grace before.
QuitsAlone == [][shuttingDown /\ running /\ ~running' => agents = {}]_vars

\* A session that is over for the relay ends on the companion too, though the
\* line that said so was lost.
ZombiesEnd ==
    \A s \in SessionId : s \in C!Working /\ s \notin R!Live ~> s \notin C!Working

\* A session the companion does not work on gives its slot back, though its open
\* or its close was lost and its client still waits, as long as the companion
\* comes back.
GhostsEnd ==
    \A s \in SessionId : []<>(link = "attached") =>
        (s \in R!Live /\ s \notin C!Working ~> s \notin R!Live \/ s \in C!Working)
=============================================================================
