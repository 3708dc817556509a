------------------------------- MODULE Relay --------------------------------
(***************************************************************************)
(* The gateway's pairing relay: packages/gateway/src/relay.ts.             *)
(*                                                                         *)
(* A companion attaches an endpoint, a client opens a session on it, and   *)
(* the relay carries lines between the two.  Either peer may go away; the  *)
(* session then has one resume window per missing peer before it fails.    *)
(* Every method of createRelay is one action.  The transports that call    *)
(* them are in Gateway; here each may be called at any time with any       *)
(* argument, as the relay's own tests call it.                             *)
(***************************************************************************)
EXTENDS Naturals, FiniteSets

CONSTANTS Endpoint,       \* endpoint ids
          SessionId,      \* session ids, chosen by clients
          Owner,          \* tenants
          RunId,          \* run ids, chosen by clients
          Agent,          \* agent names
          Offers,         \* the sets of agents a companion may come with
          OwnerOf,        \* the owner the store holds for an endpoint's token
          MaxSlots,       \* bound: largest hello.maxSessions
          MaxAttachments, \* bound: attachments made in a behaviour
          None            \* no attachment, no session

Leg == {"endpointResume", "clientResume"}

Attachment == [owner: Owner, sessions: SUBSET SessionId, online: BOOLEAN,
               quit: BOOLEAN,
               generation: Nat, maxSessions: Nat, agents: SUBSET Agent]

Session == [run: RunId, endpoint: Endpoint, owner: Owner, timers: SUBSET Leg]

ASSUME RelayAssumption ==
    /\ Offers \subseteq SUBSET Agent
    /\ OwnerOf \in [Endpoint -> Owner]
    /\ MaxSlots \in Nat \ {0}
    /\ MaxAttachments \in Nat
    /\ IsFiniteSet(SessionId)
    /\ SessionId \cap Endpoint = {}
    /\ None \notin Attachment /\ None \notin Session
    /\ None \notin [run: RunId, endpoint: Endpoint, owner: Owner]

VARIABLES endpoints,    \* id -> its attachment, None before the first hello
          sessions,     \* id -> the live session of that id, or None
          attachments,  \* generation counter
          stray,        \* timers set for a session that has ended since
          farewells,    \* generations whose own leg said goodbye (history)
          sent          \* the lines handed to the peers by the latest step

relayState == <<endpoints, sessions, attachments, stray, farewells>>
vars == <<endpoints, sessions, attachments, stray, farewells, sent>>

-----------------------------------------------------------------------------
ToClient(s, kind) == [to |-> s, kind |-> kind, session |-> s]
ToEndpoint(e, kind, s) == [to |-> e, kind |-> kind, session |-> s]

Live == {s \in SessionId : sessions[s] # None}
Attached == {e \in Endpoint : endpoints[e] # None}

\* The sessions an endpoint's attachment lists: existing?.sessions ?? [].
Held(e) == IF endpoints[e] = None THEN {} ELSE endpoints[e].sessions

\* arm and disarm, for every session of a set at once.
Arm(S, leg) == [s \in SessionId |->
    IF s \in S \cap Live THEN [sessions[s] EXCEPT !.timers = @ \cup {leg}] ELSE sessions[s]]
Disarm(S, leg) == [s \in SessionId |->
    IF s \in S \cap Live THEN [sessions[s] EXCEPT !.timers = @ \ {leg}] ELSE sessions[s]]

\* The sessions that the relay routes to an endpoint.
On(e) == {s \in Live : sessions[s].endpoint = e}

\* failSession, for the live sessions of a set at once: the row goes, with both
\* timers (Ended), the slot goes (Freed), and both peers get a close (CloseLines).
Ended(S) == [s \in SessionId |-> IF s \in S THEN None ELSE sessions[s]]
\* Mutant: the slot is not given back.
FreedNothing(S) == endpoints

Freed(S) == [e \in Endpoint |->
    IF e \in Attached
      THEN [endpoints[e] EXCEPT
              !.sessions = @ \ (S \cap On(e))]
      ELSE None]

\* Mutant: only the endpoint hears of the end.
CloseEndpointLines(S) ==
    {ToEndpoint(sessions[s].endpoint, "close", s) : s \in S \cap Live}

CloseLines(S) == {ToClient(s, "close") : s \in S \cap Live}
            \cup {ToEndpoint(sessions[s].endpoint, "close", s) : s \in S \cap Live}

Fail(S) == /\ sessions' = Ended(S)
           /\ endpoints' = Freed(S)
           /\ sent' = CloseLines(S)

Ignored == UNCHANGED relayState /\ sent' = {}
-----------------------------------------------------------------------------
Init == /\ endpoints = [e \in Endpoint |-> None]
        /\ sessions = [s \in SessionId |-> None]
        /\ attachments = 0
        /\ stray = {}
        /\ farewells = {}
        /\ sent = {}

\* Mutant: what the relay holds is carried, declared or not.
AttachCarryingAll(e, declared, max, agents) ==
    /\ attachments < MaxAttachments
    /\ attachments' = attachments + 1
    /\ sessions' = Disarm(Held(e), "endpointResume")
    /\ endpoints' = [endpoints EXCEPT ![e] =
           [owner |-> OwnerOf[e], sessions |-> Held(e), online |-> TRUE,
            quit |-> FALSE, generation |-> attachments + 1,
            maxSessions |-> max, agents |-> agents]]
    /\ sent' = {ToEndpoint(e, "close", s) : s \in declared \ Live}
    /\ UNCHANGED <<stray, farewells>>

\* Mutant: what is carried has its timers stopped and is not listed again.
AttachListingNone(e, declared, max, agents) ==
    LET dropped == Held(e) \ declared
    IN /\ attachments < MaxAttachments
       /\ attachments' = attachments + 1
       /\ sessions' = [s \in SessionId |->
              IF s \in dropped THEN None ELSE Disarm(Held(e), "endpointResume")[s]]
       /\ endpoints' = [endpoints EXCEPT ![e] =
              [owner |-> OwnerOf[e], sessions |-> {}, online |-> TRUE,
               quit |-> FALSE, generation |-> attachments + 1,
               maxSessions |-> max, agents |-> agents]]
       /\ sent' = CloseLines(dropped) \cup {ToEndpoint(e, "close", s) : s \in declared \ Live}
       /\ UNCHANGED <<stray, farewells>>

\* A companion's hello.  What it still declares is carried and its timers
\* stopped; what it no longer declares fails; what it declares and the relay
\* does not know it is told to close.  A hello without a list counts as one that
\* declares Held(e).
AttachEndpoint(e, declared, max, agents) ==
    LET dropped  == Held(e) \ declared
        carried  == Held(e) \cap declared
        stale    == declared \ Live
    IN /\ attachments < MaxAttachments
       /\ attachments' = attachments + 1
       /\ sessions' = [s \in SessionId |->
              IF s \in dropped THEN None ELSE Disarm(carried, "endpointResume")[s]]
       /\ endpoints' = [Freed(dropped) EXCEPT ![e] =
              [owner |-> OwnerOf[e], sessions |-> carried, online |-> TRUE,
               quit |-> FALSE, generation |-> attachments + 1,
               maxSessions |-> max, agents |-> agents]]
       /\ sent' = CloseLines(dropped) \cup {ToEndpoint(e, "close", s) : s \in stale}
       /\ UNCHANGED <<stray, farewells>>

\* Mutant: a goodbye is believed whichever leg it came on.
SayAnyGoodbye(e, generation) ==
    /\ e \in Attached
    /\ generation \in 1..attachments
    /\ farewells' = farewells \cup {generation}
    /\ endpoints' = [endpoints EXCEPT ![e].quit = TRUE]
    /\ sent' = {}
    /\ UNCHANGED <<sessions, attachments, stray>>

\* A goodbye speaks for the attachment of the leg it came on, and no other.
SayGoodbye(e, generation) ==
    /\ e \in Attached
    /\ generation \in 1..attachments
    /\ farewells' = farewells \cup {generation}
    /\ endpoints' = IF endpoints[e].generation = generation
                      THEN [endpoints EXCEPT ![e].quit = TRUE]
                      ELSE endpoints
    /\ sent' = {}
    /\ UNCHANGED <<sessions, attachments, stray>>

\* Mutant: no resume window opens.
DetachWithoutWindow(e) ==
    /\ e \in Attached
    /\ endpoints' = [endpoints EXCEPT ![e].online = FALSE]
    /\ sent' = {}
    /\ UNCHANGED <<sessions, attachments, stray, farewells>>

\* The leg is gone: every session of the attachment starts waiting for it.
DetachEndpoint(e) ==
    /\ e \in Attached
    /\ endpoints' = [endpoints EXCEPT ![e].online = FALSE]
    /\ sessions' = Arm(Held(e), "endpointResume")
    /\ sent' = {}
    /\ UNCHANGED <<attachments, stray, farewells>>

DetachClient(s) ==
    /\ sessions' = Arm({s}, "clientResume")
    /\ sent' = {}
    /\ UNCHANGED <<endpoints, attachments, stray, farewells>>

AttachClient(s) ==
    /\ sessions' = Disarm({s}, "clientResume")
    /\ sent' = {}
    /\ UNCHANGED <<endpoints, attachments, stray, farewells>>

\* Mutants: an endpoint that is away, another tenant's.
AcceptsAway(e, s, agent, caller) ==
    /\ e \in Attached /\ endpoints[e].owner = caller
    /\ s \notin Live
    /\ Cardinality(endpoints[e].sessions) < endpoints[e].maxSessions
    /\ agent \in endpoints[e].agents
AcceptsAnyone(e, s, agent, caller) ==
    /\ e \in Attached /\ endpoints[e].online
    /\ s \notin Live
    /\ Cardinality(endpoints[e].sessions) < endpoints[e].maxSessions
    /\ agent \in endpoints[e].agents

\* What an open needs, in the order the code asks; anything short of it is
\* refused.
Accepts(e, s, agent, caller) ==
    /\ e \in Attached
    /\ endpoints[e].online
    /\ endpoints[e].owner = caller
    /\ s \notin Live
    /\ Cardinality(endpoints[e].sessions) < endpoints[e].maxSessions
    /\ agent \in endpoints[e].agents

RefuseOpen(e, s, agent, caller) ==
    /\ ~Accepts(e, s, agent, caller)
    /\ sent' = {ToClient(s, "refused")}
    /\ UNCHANGED relayState

AcceptOpen(e, s, run, agent, caller) ==
    /\ Accepts(e, s, agent, caller)
    /\ sessions' = [sessions EXCEPT ![s] =
           [run |-> run, endpoint |-> e, owner |-> caller, timers |-> {}]]
    /\ endpoints' = [endpoints EXCEPT ![e].sessions = @ \cup {s}]
    /\ sent' = {ToEndpoint(e, "open", s)}
    /\ UNCHANGED <<attachments, stray, farewells>>

OpenSession(e, s, run, agent, caller) ==
    RefuseOpen(e, s, agent, caller) \/ AcceptOpen(e, s, run, agent, caller)

\* Whether endpoint e may speak for session s: session?.endpoint !== endpoint.
Speaks(e, s) == s \in Live /\ sessions[s].endpoint = e

\* opened or refused from the companion.  A refusal frees the slot; it does not
\* clear the session's timers, which stay set under the session's id.
AckOpened(e, s) ==
    /\ Speaks(e, s)
    /\ sent' = {ToClient(s, "opened")}
    /\ UNCHANGED relayState

AckRefused(e, s) ==
    /\ Speaks(e, s)
    /\ sent' = {ToClient(s, "refused")}
    /\ sessions' = Ended({s})
    /\ endpoints' = Freed({s})
    /\ stray' = stray \cup {<<s, leg>> : leg \in sessions[s].timers}
    /\ UNCHANGED <<attachments, farewells>>

EndpointAck(e, s) ==
    \/ ~Speaks(e, s) /\ Ignored
    \/ AckOpened(e, s)
    \/ AckRefused(e, s)

EndpointLine(e, s) ==
    \/ ~Speaks(e, s) /\ Ignored
    \/ Speaks(e, s) /\ sent' = {ToClient(s, "frame")} /\ UNCHANGED relayState

EndpointClose(e, s) ==
    \/ ~Speaks(e, s) /\ Ignored
    \/ Speaks(e, s) /\ Fail({s}) /\ UNCHANGED <<attachments, stray, farewells>>

ClientLine(s) ==
    \/ s \notin Live /\ Ignored
    \/ /\ s \in Live
       /\ sent' = {ToEndpoint(sessions[s].endpoint, "frame", s)}
       /\ UNCHANGED relayState

CloseSession(s) == Fail({s}) /\ UNCHANGED <<attachments, stray, farewells>>

\* One resume window has elapsed with that peer still away.
TimerFires(s, leg) ==
    /\ s \in Live
    /\ leg \in sessions[s].timers
    /\ Fail({s})
    /\ UNCHANGED <<attachments, stray, farewells>>

\* So does a timer left behind: failSession(sessionId), whoever holds the id now.
StrayFires(s, leg) ==
    /\ <<s, leg>> \in stray
    /\ stray' = stray \ {<<s, leg>>}
    /\ Fail({s})
    /\ UNCHANGED <<attachments, farewells>>

EndpointStep(e) ==
    \/ \E declared \in SUBSET SessionId, max \in 1..MaxSlots,
          agents \in Offers : AttachEndpoint(e, declared, max, agents)
    \/ \E g \in 1..attachments : SayGoodbye(e, g)
    \/ DetachEndpoint(e)
    \/ \E s \in SessionId : \/ EndpointAck(e, s)
                            \/ EndpointLine(e, s)
                            \/ EndpointClose(e, s)

ClientStep(s) ==
    \/ \E e \in Endpoint, run \in RunId, agent \in Agent, caller \in Owner :
           OpenSession(e, s, run, agent, caller)
    \/ DetachClient(s)
    \/ AttachClient(s)
    \/ ClientLine(s)
    \/ CloseSession(s)

Next == \/ \E e \in Endpoint : EndpointStep(e)
        \/ \E s \in SessionId : ClientStep(s)
        \/ \E s \in SessionId, leg \in Leg : TimerFires(s, leg) \/ StrayFires(s, leg)

\* A timer that was set fires: setTimeout, on a process that keeps running.
Fairness == \A s \in SessionId, leg \in Leg : WF_vars(TimerFires(s, leg))

Spec == Init /\ [][Next]_vars
-----------------------------------------------------------------------------
TypeOK ==
    /\ endpoints \in [Endpoint -> Attachment \cup {None}]
    /\ sessions \in [SessionId -> Session \cup {None}]
    /\ attachments \in 0..MaxAttachments
    /\ stray \subseteq SessionId \X Leg
    /\ farewells \subseteq 1..attachments

\* The two maps agree.  An attachment lists exactly the live sessions routed to
\* it, so no slot is lost or counted twice over reattaches, refusals and
\* failures: activeSessions, capacity and carried are all read off that list.
SlotAccounting ==
    /\ \A e \in Endpoint : Held(e) = On(e)
    /\ \A s \in Live : sessions[s].endpoint \in Attached

\* The endpoint half of the comment on Session: a session waits for its endpoint
\* exactly while that endpoint is away.  Opens are turned down while it is, a
\* reattach clears what it carries and fails the rest.
ResumeTimerIffOffline ==
    \A s \in Live : "endpointResume" \in sessions[s].timers
                        <=> ~endpoints[sessions[s].endpoint].online

\* Tenant isolation: an attachment has the owner its endpoint's token names, and
\* both ends of a live session belong to one owner, whatever attached since.
SameTenant ==
    /\ \A e \in Attached : endpoints[e].owner = OwnerOf[e]
    /\ \A s \in Live : sessions[s].owner = endpoints[sessions[s].endpoint].owner

\* sayGoodbye: an endpoint counts as having quit only if the leg of its latest
\* attachment said so, never by the draining leg of an earlier one.
QuitIsOwn ==
    \A e \in Attached : endpoints[e].quit => endpoints[e].generation \in farewells

\* maxSessions is a promise about the sessions that the relay routes to an endpoint: it
\* may come back with a lower limit than it has, but no step adds one past the limit,
\* though openSession counts the attachment's list and never those sessions.
WithinCapacity ==
    \A e \in Endpoint : \/ On(e)' \subseteq On(e)
                        \/ Cardinality(On(e)') <= endpoints'[e].maxSessions
NeverOverbooked == [][WithinCapacity]_vars

\* The sessions of the relay, without what it keeps to manage them.
Pair(s) == IF sessions[s] = None THEN None
           ELSE [run |-> sessions[s].run, endpoint |-> sessions[s].endpoint,
                 owner |-> sessions[s].owner]
Promise == INSTANCE Broker WITH live <- [s \in SessionId |-> Pair(s)]

\* The relay implements the broker: an id joins one pair from accept to end, no
\* end goes untold to its client, no line reaches a third party, and an endpoint
\* is never told to close a session that is still live.
BrokerSpec == Promise!Spec

\* An endpoint that stays away loses its sessions: each of them ends, however
\* often it dropped and came back before.
AbandonedSessionsEnd ==
    \A e \in Endpoint :
        <>[](e \in Attached /\ ~endpoints[e].online) => <>[](On(e) = {})
=============================================================================
