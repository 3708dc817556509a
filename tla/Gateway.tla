------------------------------ MODULE Gateway -------------------------------
(***************************************************************************)
(* The gateway's transports around the relay: packages/gateway/src/        *)
(* server.ts, with the session rows of store.ts and the journals of        *)
(* journal.ts.                                                             *)
(*                                                                         *)
(* Every peer holds an SSE leg to listen on and posts its lines on ingest  *)
(* bodies; the two arrive and close independently.  A handler that awaits  *)
(* the store is two steps, the query and the code after it, and anything   *)
(* may run in between.  The relay is Relay's, called as server.ts calls    *)
(* it.                                                                     *)
(***************************************************************************)
EXTENDS Naturals, FiniteSets

CONSTANTS Endpoint, SessionId, Owner, RunId, Agent, Offers, OwnerOf,
          MaxSlots, MaxAttachments, None,
          MaxOpens,     \* bound: opens awaiting the store at once
          MaxRestarts,  \* bound: restarts of the process
          Retention,    \* whether journals expire: SYMMA_GATEWAY_RETENTION_DAYS > 0
          Outages,      \* whether a store query may fail
          Orderly,      \* whether peers speak only once a leg of theirs has connected,
                        \* as the companion and remote.ts do
          Reopens,      \* whether an id may be opened again: the relay allows it, but
                        \* remote.ts draws a fresh id for every prompt
          EagerDelete   \* whether an owner may delete a session being opened

VARIABLES endpoints, sessions, attachments, stray, farewells, sent  \* the relay's

VARIABLES endpointStreams,     \* endpoints with a registered SSE leg
          connected,           \* endpoints that ever had a leg (history)
          sessionStreams,      \* id -> whose SSE leg is registered, or None
          sessionStreamOwners, \* id -> who claims the leg, or None
          opens,               \* opens between their first line and their answer
          rows,                \* id -> its row in the sessions table, or None
          aged,                \* ids whose row is past the retention window
          served,              \* ids whose row had a session its endpoint kept (history)
          used,                \* ids that were ever opened (history)
          releasing,           \* deleteSessionRow calls under way
          forgetting,          \* rows deleted, their journals not yet
          deleting,            \* owner's DELETEs between the query and the rest
          sweeps,              \* retention sweeps under way: the live sessions each was given
          journals,            \* journal files on disk
          restarts

relayState == <<endpoints, sessions, attachments, stray, farewells>>
legs  == <<endpointStreams, connected, sessionStreams, sessionStreamOwners>>
table == <<rows, aged, served, used>>
calls == <<opens, releasing, forgetting, deleting, sweeps>>
vars  == <<relayState, sent, legs, table, calls, journals, restarts>>

R == INSTANCE Relay

Row  == [run: RunId, endpoint: Endpoint]
Ref  == RunId \X SessionId
Key  == [session: SessionId, run: RunId, endpoint: Endpoint]
Open == [session: SessionId, run: RunId, endpoint: Endpoint, agent: Agent,
         caller: Owner, phase: {"reserving", "reserved", "conflict"}]

ASSUME GatewayAssumption ==
    /\ R!RelayAssumption
    /\ MaxOpens \in Nat /\ MaxRestarts \in Nat
    /\ Retention \in BOOLEAN /\ Outages \in BOOLEAN
    /\ Orderly \in BOOLEAN /\ Reopens \in BOOLEAN /\ EagerDelete \in BOOLEAN
    /\ None \notin Row /\ None \notin Owner
-----------------------------------------------------------------------------
KeyOf(s) == [session |-> s, run |-> sessions[s].run, endpoint |-> sessions[s].endpoint]

\* Whether the row of k's id is k's: DELETE ... WHERE id = .. AND run_id = ..
\* AND endpoint_id = .. matches the whole key.
Matches(k) == rows[k.session] = [run |-> k.run, endpoint |-> k.endpoint]

Drop(S) == /\ rows' = [s \in SessionId |-> IF s \in S THEN None ELSE rows[s]]
           /\ aged' = aged \ S
           /\ served' = served \ S
           /\ UNCHANGED used

\* maySession: a live session is its owner's, and before that the leg is the claim.
MaySession(caller, s) ==
    IF s \in R!Live THEN sessions[s].owner = caller
    ELSE sessionStreamOwners[s] \in {None, caller}

\* onLine: a relayed line is journaled when it names the session it came on.
Journal(s) == \/ journals' = journals \cup {<<sessions[s].run, s>>}
              \/ UNCHANGED journals

\* refuseToSender: down the caller's own leg, or not at all.
RefuseToSender(caller, s) ==
    sent' = IF sessionStreamOwners[s] = caller THEN {R!ToClient(s, "refused")} ELSE {}
-----------------------------------------------------------------------------
Init == /\ R!Init
        /\ endpointStreams = {} /\ connected = {}
        /\ sessionStreams = [s \in SessionId |-> None]
        /\ sessionStreamOwners = [s \in SessionId |-> None]
        /\ opens = {} /\ releasing = {} /\ forgetting = {} /\ deleting = {}
        /\ sweeps = {}
        /\ rows = [s \in SessionId |-> None]
        /\ aged = {} /\ served = {} /\ used = {}
        /\ journals = {}
        /\ restarts = 0

-----------------------------------------------------------------------------
(* The companion's two legs. *)

\* registerPeerStream: the last connection wins, and the leg it replaces is no
\* longer in the map when it closes.
EndpointConnects(e) ==
    /\ endpointStreams' = endpointStreams \cup {e}
    /\ connected' = connected \cup {e}
    /\ R!Ignored
    /\ UNCHANGED <<sessionStreams, sessionStreamOwners, table, calls, journals, restarts>>

EndpointDrops(e) ==
    /\ e \in endpointStreams
    /\ endpointStreams' = endpointStreams \ {e}
    /\ IF e \in R!Attached THEN R!DetachEndpoint(e) ELSE R!Ignored
    /\ UNCHANGED <<connected, sessionStreams, sessionStreamOwners, table, calls, journals, restarts>>

\* A hello or a goodbye on one of the companion's ingest bodies.  A body may
\* stay open long after the leg it attached with is gone, so a goodbye may speak
\* for any generation so far; a body that ends detaches nothing.
Hello(e) ==
    /\ Orderly => e \in connected
    /\ \E declared \in SUBSET SessionId, max \in 1..MaxSlots, agents \in Offers :
           R!AttachEndpoint(e, declared, max, agents)
    /\ UNCHANGED <<legs, table, calls, journals, restarts>>

Goodbye(e) ==
    /\ \E g \in 1..attachments : R!SayGoodbye(e, g)
    /\ UNCHANGED <<legs, table, calls, journals, restarts>>

\* A line about session s from e's companion: an ack, a close or a frame.  A
\* refusal that the relay applied starts the deletion of the session's row.
EndpointSays(e, s) ==
    /\ R!Speaks(e, s)
    /\ \/ R!AckOpened(e, s) /\ UNCHANGED <<served, releasing, journals>>
       \/ /\ R!AckRefused(e, s)
          /\ releasing' = releasing \cup {KeyOf(s)}
          /\ served' = served \ {s}
          /\ UNCHANGED journals
       \/ R!EndpointClose(e, s) /\ UNCHANGED <<served, releasing, journals>>
       \/ R!EndpointLine(e, s) /\ Journal(s) /\ UNCHANGED <<served, releasing>>
    /\ UNCHANGED <<legs, rows, aged, used, opens, forgetting, deleting, sweeps, restarts>>

-----------------------------------------------------------------------------
(* The client's two legs. *)

ClientConnects(caller, s) ==
    /\ MaySession(caller, s)
    /\ R!AttachClient(s)
    /\ sessionStreams' = [sessionStreams EXCEPT ![s] = caller]
    /\ sessionStreamOwners' = [sessionStreamOwners EXCEPT ![s] = caller]
    /\ UNCHANGED <<endpointStreams, connected, table, calls, journals, restarts>>

\* The leg closed while it was the registered one.
ClientDrops(s) ==
    /\ sessionStreams[s] # None
    /\ sessionStreams' = [sessionStreams EXCEPT ![s] = None]
    /\ sessionStreamOwners' = [sessionStreamOwners EXCEPT ![s] = None]
    /\ R!DetachClient(s)
    /\ UNCHANGED <<endpointStreams, connected, table, calls, journals, restarts>>

\* An open line: turned down at once, or left waiting for its row.
OpenArrives(o) ==
    /\ o.phase = "reserving"
    /\ \/ /\ ~(o.endpoint \in R!Attached /\ endpoints[o.endpoint].owner = o.caller)
          /\ RefuseToSender(o.caller, o.session)
          /\ UNCHANGED <<opens, used>>
       \/ /\ o.endpoint \in R!Attached /\ endpoints[o.endpoint].owner = o.caller
          /\ Cardinality(opens) < MaxOpens
          /\ Orderly => sessionStreamOwners[o.session] = o.caller
          /\ Reopens \/ o.session \notin used
          /\ opens' = opens \cup {o}
          /\ used' = used \cup {o.session}
          /\ sent' = {}
    /\ UNCHANGED <<relayState, legs, rows, aged, served, releasing, forgetting, deleting,
                   sweeps, journals, restarts>>

\* recordSession: the primary key takes an id once.
Reserve(o) ==
    /\ o \in opens /\ o.phase = "reserving"
    /\ \/ /\ rows[o.session] = None
          /\ rows' = [rows EXCEPT ![o.session] = [run |-> o.run, endpoint |-> o.endpoint]]
          /\ opens' = (opens \ {o}) \cup {[o EXCEPT !.phase = "reserved"]}
       \/ /\ rows[o.session] # None
          /\ opens' = (opens \ {o}) \cup {[o EXCEPT !.phase = "conflict"]}
          /\ UNCHANGED rows
       \/ Outages /\ opens' = opens \ {o} /\ UNCHANGED rows
    /\ R!Ignored
    /\ UNCHANGED <<legs, aged, served, used, releasing, forgetting, deleting, sweeps, journals, restarts>>

OpenConflicts(o) ==
    /\ o \in opens /\ o.phase = "conflict"
    /\ RefuseToSender(o.caller, o.session)
    /\ opens' = opens \ {o}
    /\ UNCHANGED <<relayState, legs, table, releasing, forgetting, deleting, sweeps,
                   journals, restarts>>

\* Mutant: whoever registered while the row was awaited keeps the leg.
OpenWithoutEviction(o) ==
    /\ o \in opens /\ o.phase = "reserved"
    /\ R!AcceptOpen(o.endpoint, o.session, o.run, o.agent, o.caller)
    /\ opens' = opens \ {o}
    /\ served' = IF Matches(o) THEN served \cup {o.session} ELSE served
    /\ UNCHANGED <<legs, rows, aged, used, releasing, forgetting, deleting, sweeps, journals,
                   restarts>>

\* The row is there: the relay decides.  A leg that is not the caller's own goes.
OpenAccepted(o) ==
    /\ o \in opens /\ o.phase = "reserved"
    /\ R!AcceptOpen(o.endpoint, o.session, o.run, o.agent, o.caller)
    /\ opens' = opens \ {o}
    /\ LET evict == sessionStreamOwners[o.session] # o.caller IN
       /\ sessionStreams' = IF evict THEN [sessionStreams EXCEPT ![o.session] = None]
                            ELSE sessionStreams
       /\ sessionStreamOwners' = IF evict THEN [sessionStreamOwners EXCEPT ![o.session] = None]
                                 ELSE sessionStreamOwners
    /\ served' = IF Matches(o) THEN served \cup {o.session} ELSE served
    /\ UNCHANGED <<endpointStreams, connected, rows, aged, used, releasing, forgetting, deleting,
                   sweeps, journals, restarts>>

\* Mutant: the reservation of a refused open stays.
OpenRefusedKeepsRow(o) ==
    /\ o \in opens /\ o.phase = "reserved"
    /\ R!RefuseOpen(o.endpoint, o.session, o.agent, o.caller)
    /\ opens' = opens \ {o}
    /\ UNCHANGED <<legs, table, releasing, forgetting, deleting, sweeps, journals, restarts>>

\* The relay refused what the row was reserved for: the row is given back.
OpenRefused(o) ==
    /\ o \in opens /\ o.phase = "reserved"
    /\ R!RefuseOpen(o.endpoint, o.session, o.agent, o.caller)
    /\ opens' = opens \ {o}
    /\ releasing' = releasing \cup
           {[session |-> o.session, run |-> o.run, endpoint |-> o.endpoint]}
    /\ UNCHANGED <<legs, table, forgetting, deleting, sweeps, journals, restarts>>

\* A frame or a close on a session ingest, from whoever may touch the session.
ClientSays(caller, s) ==
    /\ MaySession(caller, s)
    /\ s \in R!Live
    /\ \/ R!ClientLine(s) /\ Journal(s)
       \/ R!CloseSession(s) /\ UNCHANGED journals
    /\ UNCHANGED <<legs, table, calls, restarts>>

TimerFires(s) ==
    /\ \E leg \in R!Leg : R!TimerFires(s, leg) \/ R!StrayFires(s, leg)
    /\ UNCHANGED <<legs, table, calls, journals, restarts>>

-----------------------------------------------------------------------------
(* Rows and journals going. *)

\* Mutant: the row goes and nothing follows.
ReleaseOnlyRow(k) ==
    /\ k \in releasing
    /\ releasing' = releasing \ {k}
    /\ IF Matches(k) THEN Drop({k.session}) ELSE UNCHANGED table
    /\ R!Ignored
    /\ UNCHANGED <<legs, opens, forgetting, deleting, sweeps, journals, restarts>>

\* deleteSessionRow runs, or fails and is only logged.
Release(k) ==
    /\ k \in releasing
    /\ releasing' = releasing \ {k}
    /\ \/ /\ Matches(k)
          /\ Drop({k.session})
          /\ forgetting' = forgetting \cup {<<k.run, k.session>>}
       \/ (~Matches(k) \/ Outages) /\ UNCHANGED <<table, forgetting>>
    /\ R!Ignored
    /\ UNCHANGED <<legs, opens, deleting, sweeps, journals, restarts>>

\* forgetSessions: the journals of rows that are gone.
Forget(ref) ==
    /\ ref \in forgetting
    /\ forgetting' = forgetting \ {ref}
    /\ journals' = journals \ {ref}
    /\ R!Ignored
    /\ UNCHANGED <<legs, table, opens, releasing, deleting, sweeps, restarts>>

\* DELETE by the owner: the row goes with the query, the session and the journal
\* with what follows it.
OwnerDeletes(caller, s) ==
    /\ rows[s] # None
    /\ OwnerOf[rows[s].endpoint] = caller
    /\ EagerDelete \/ \A o \in opens : o.session # s
    /\ deleting' = deleting \cup {<<rows[s].run, s>>}
    /\ Drop({s})
    /\ R!Ignored
    /\ UNCHANGED <<legs, opens, releasing, forgetting, sweeps, journals, restarts>>

\* Mutant: the journal goes while the session stays live.
DeleteLeavesLive(ref) ==
    /\ ref \in deleting
    /\ deleting' = deleting \ {ref}
    /\ journals' = journals \ {ref}
    /\ R!Ignored
    /\ UNCHANGED <<legs, table, opens, releasing, forgetting, sweeps, restarts>>

\* Ending the session is part of deleting it.
DeleteProceeds(ref) ==
    /\ ref \in deleting
    /\ deleting' = deleting \ {ref}
    /\ R!CloseSession(ref[2])
    /\ journals' = journals \ {ref}
    /\ UNCHANGED <<legs, table, opens, releasing, forgetting, sweeps, restarts>>

\* Retention: the sweep takes the live sessions, the query spares them.  A row is
\* days old by then, and neither an open nor a query stays under way that long.
RowAges(s) ==
    /\ Retention
    /\ rows[s] # None
    /\ sweeps = {} /\ \A o \in opens : o.session # s
    /\ aged' = aged \cup {s}
    /\ R!Ignored
    /\ UNCHANGED <<legs, rows, served, used, calls, journals, restarts>>

SweepBegins ==
    /\ Retention
    /\ sweeps = {}
    /\ sweeps' = {{KeyOf(s) : s \in R!Live}}
    /\ R!Ignored
    /\ UNCHANGED <<legs, table, opens, releasing, forgetting, deleting, journals, restarts>>

\* Mutant: age alone decides.
SweepExpiresAll(spared) ==
    /\ spared \in sweeps
    /\ sweeps' = sweeps \ {spared}
    /\ Drop(aged)
    /\ forgetting' = forgetting \cup {<<rows[s].run, s>> : s \in aged}
    /\ R!Ignored
    /\ UNCHANGED <<legs, opens, releasing, deleting, journals, restarts>>

\* expireSessions: aged rows go, but for those whose whole key was live.
SweepExpires(spared) ==
    /\ spared \in sweeps
    /\ sweeps' = sweeps \ {spared}
    /\ \/ LET doomed == {s \in aged : ~\E k \in spared : k.session = s /\ Matches(k)}
          IN /\ Drop(doomed)
             /\ forgetting' = forgetting \cup {<<rows[s].run, s>> : s \in doomed}
       \/ Outages /\ UNCHANGED <<table, forgetting>>
    /\ R!Ignored
    /\ UNCHANGED <<legs, opens, releasing, deleting, journals, restarts>>

\* The process ends, drained or not, and comes back with the table and the disk.
Restart ==
    /\ restarts < MaxRestarts
    /\ restarts' = restarts + 1
    /\ endpoints' = [e \in Endpoint |-> None]
    /\ sessions' = [s \in SessionId |-> None]
    /\ attachments' = 0 /\ stray' = {} /\ farewells' = {} /\ sent' = {}
    /\ endpointStreams' = {} /\ connected' = {}
    /\ sessionStreams' = [s \in SessionId |-> None]
    /\ sessionStreamOwners' = [s \in SessionId |-> None]
    /\ opens' = {} /\ releasing' = {} /\ forgetting' = {} /\ deleting' = {}
    /\ sweeps' = {}
    /\ UNCHANGED <<table, journals>>

-----------------------------------------------------------------------------
CompanionStep(e) ==
    \/ EndpointConnects(e)
    \/ EndpointDrops(e)
    \/ Hello(e)
    \/ Goodbye(e)
    \/ \E s \in SessionId : EndpointSays(e, s)

ClientStep(caller, s) ==
    \/ ClientConnects(caller, s)
    \/ ClientSays(caller, s)
    \/ OwnerDeletes(caller, s)

OpenStep(o) == Reserve(o) \/ OpenConflicts(o) \/ OpenAccepted(o) \/ OpenRefused(o)

\* What the process does of itself once it has been asked.
Continuation ==
    \/ \E o \in opens : OpenStep(o)
    \/ \E k \in releasing : Release(k)
    \/ \E ref \in forgetting : Forget(ref)
    \/ \E ref \in deleting : DeleteProceeds(ref)
    \/ \E spared \in sweeps : SweepExpires(spared)

Next == \/ \E e \in Endpoint : CompanionStep(e)
        \/ \E caller \in Owner, s \in SessionId : ClientStep(caller, s)
        \/ \E o \in Open : OpenArrives(o)
        \/ \E s \in SessionId : ClientDrops(s) \/ TimerFires(s) \/ RowAges(s)
        \/ Continuation
        \/ SweepBegins
        \/ Restart

\* A store query is answered and the code after it runs, and timers fire.
Fairness == /\ R!Fairness
            /\ \A k \in Key : WF_vars(Release(k))
            /\ \A ref \in Ref : WF_vars(Forget(ref)) /\ WF_vars(DeleteProceeds(ref))

Spec == Init /\ [][Next]_vars
FairSpec == Spec /\ Fairness
-----------------------------------------------------------------------------
TypeOK ==
    /\ R!TypeOK
    /\ endpointStreams \subseteq connected /\ connected \subseteq Endpoint
    /\ sessionStreams \in [SessionId -> Owner \cup {None}]
    /\ sessionStreamOwners \in [SessionId -> Owner \cup {None}]
    /\ opens \subseteq Open /\ releasing \subseteq Key
    /\ forgetting \subseteq Ref /\ deleting \subseteq Ref
    /\ sweeps \subseteq SUBSET Key
    /\ rows \in [SessionId -> Row \cup {None}]
    /\ aged \subseteq SessionId /\ served \subseteq SessionId /\ used \subseteq SessionId
    /\ journals \subseteq Ref
    /\ restarts \in 0..MaxRestarts

\* Tenant isolation on the wire: the leg that gets a live session's lines was
\* opened by the session's owner, though it may have been registered before the
\* session existed and while its open was waiting for the store.
LegBelongsToOwner ==
    \A s \in R!Live : sessionStreams[s] \in {None, sessions[s].owner}

\* A session is live only while its row, the one that authorizes its readers,
\* is in the table, or while the DELETE that took the row is about to end it.
LiveHasRow ==
    \A s \in R!Live : Matches(KeyOf(s)) \/ <<sessions[s].run, s>> \in deleting

\* "Frames and their row are one unit": a journal on disk has a row, or code
\* still to run that removes it, as long as the process did not end in between.
JournalReachable ==
    restarts = 0 =>
    \A ref \in journals : \/ /\ rows[ref[2]] # None
                             /\ rows[ref[2]].run = ref[1]
                          \/ ref \in forgetting \cup deleting

\* "Only a session the relay accepted may leave a row": every other row has an
\* open still waiting for it, or a deletion under way, as long as the process
\* did not end in between.
OnlyServedLeaveRows ==
    restarts = 0 =>
    \A s \in SessionId : rows[s] # None =>
        \/ s \in served
        \/ \E o \in opens : o.session = s /\ o.phase = "reserved" /\ Matches(o)
        \/ \E k \in releasing : k.session = s /\ Matches(k)

\* Retention and DELETE are final: once a session's row is gone for good, so is
\* its journal, and no frame still on its way brings the file back.
ForgottenForGood ==
    \A s \in SessionId : <>[](rows[s] = None) =>
                           <>[](\A run \in RunId : <<run, s>> \notin journals)

\* "A leg's timer is armed while that peer is disconnected", for the client's leg.
\* It does not hold: openSession never asks whether the client still has its leg.
ClientWatched ==
    \A s \in R!Live : sessionStreams[s] # None \/ "clientResume" \in sessions[s].timers

\* An endpoint that stays away loses its sessions, though clients of theirs come
\* and go and the endpoint dropped and came back before.
AbandonedSessionsEnd == R!AbandonedSessionsEnd
=============================================================================
