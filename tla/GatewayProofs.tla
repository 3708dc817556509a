---------------------------- MODULE GatewayProofs ----------------------------
(***************************************************************************)
(* Tenant isolation on the wire, for every value of Gateway's constants:   *)
(* however many opens wait for the store, whichever legs come and go       *)
(* meanwhile, and however often the process restarts.                      *)
(***************************************************************************)
EXTENDS Gateway, TLAPS

\* LegBelongsToOwner is not inductive: an open is accepted for a caller whatever
\* the legs are, so that it has to be known before whose leg is registered.  It is
\* the claimant's, and OpenAccepted asks for the claimant.
LegsAreClaimed ==
    \A s \in SessionId : sessionStreams[s] \in {None, sessionStreamOwners[s]}

LegInv ==
    /\ sessions \in [SessionId -> R!Session \cup {None}]
    /\ opens \subseteq Open
    /\ sessionStreams \in [SessionId -> Owner \cup {None}]
    /\ sessionStreamOwners \in [SessionId -> Owner \cup {None}]
    /\ LegsAreClaimed
    /\ LegBelongsToOwner

\* A step that opens no session, and leaves those that stay with whom they were.
SameParties(was, is) ==
    /\ was # None
    /\ is.run = was.run /\ is.endpoint = was.endpoint /\ is.owner = was.owner

SessionsKept ==
    /\ sessions' \in [SessionId -> R!Session \cup {None}]
    /\ \A s \in SessionId : sessions'[s] # None => SameParties(sessions[s], sessions'[s])

\* Timers are all that arm and disarm touch.
LEMMA TimersKeep ==
  ASSUME sessions \in [SessionId -> R!Session \cup {None}],
         NEW S, NEW leg \in R!Leg,
         sessions' = R!Arm(S, leg) \/ sessions' = R!Disarm(S, leg)
  PROVE  SessionsKept
<1>1. ASSUME NEW s \in SessionId
      PROVE  /\ sessions'[s] \in R!Session \cup {None}
             /\ sessions'[s] # None => SameParties(sessions[s], sessions'[s])
  <2>1. CASE s \in S \cap R!Live
    <3>1. sessions[s] \in R!Session /\ sessions[s] # None
      BY <2>1 DEF R!Live
    <3>2. \/ sessions'[s] = [sessions[s] EXCEPT !.timers = @ \cup {leg}]
          \/ sessions'[s] = [sessions[s] EXCEPT !.timers = @ \ {leg}]
      BY <2>1 DEF R!Arm, R!Disarm
    <3>3. sessions'[s] \in R!Session /\ SameParties(sessions[s], sessions'[s])
      BY <3>1, <3>2 DEF R!Session, SameParties
    <3>4. QED  BY <3>1, <3>3
  <2>2. CASE s \notin S \cap R!Live
    <3>1. sessions'[s] = sessions[s]
      BY <2>2 DEF R!Arm, R!Disarm
    <3>2. QED  BY <3>1 DEF SameParties
  <2>3. QED  BY <2>1, <2>2
<1>2. \E f : sessions' = [s \in SessionId |-> f[s]]
  <2>1. sessions' = [s \in SessionId |-> sessions'[s]]
    BY DEF R!Arm, R!Disarm
  <2>2. QED  BY <2>1
<1>3. QED  BY <1>1, <1>2 DEF SessionsKept

\* Ending sessions ends sessions.
LEMMA EndingKeeps ==
  ASSUME sessions \in [SessionId -> R!Session \cup {None}],
         NEW S, sessions' = R!Ended(S)
  PROVE  SessionsKept
BY DEF SessionsKept, SameParties, R!Ended

LEMMA NothingKeeps ==
  ASSUME sessions \in [SessionId -> R!Session \cup {None}], sessions' = sessions
  PROVE  SessionsKept
BY DEF SessionsKept, SameParties

\* A hello ends some sessions and clears the timers of others.
LEMMA HelloKeeps ==
  ASSUME sessions \in [SessionId -> R!Session \cup {None}],
         NEW e, NEW declared, NEW max, NEW agents,
         R!AttachEndpoint(e, declared, max, agents)
  PROVE  SessionsKept
<1> DEFINE kept == R!Disarm(R!Held(e) \cap declared, "endpointResume")
<1>1. sessions' = [s \in SessionId |->
                      IF s \in R!Held(e) \ declared THEN None ELSE kept[s]]
  BY DEF R!AttachEndpoint
<1>2. ASSUME NEW s \in SessionId
      PROVE  \/ kept[s] = sessions[s]
             \/ /\ sessions[s] \in R!Session /\ sessions[s] # None
                /\ kept[s] = [sessions[s] EXCEPT !.timers = @ \ {"endpointResume"}]
  BY DEF R!Disarm, R!Live
<1>3. ASSUME NEW s \in SessionId
      PROVE  /\ kept[s] \in R!Session \cup {None}
             /\ kept[s] # None => SameParties(sessions[s], kept[s])
  <2> HIDE DEF kept
  <2>1. CASE kept[s] = sessions[s]
    BY <2>1 DEF SameParties
  <2>2. CASE /\ sessions[s] \in R!Session /\ sessions[s] # None
             /\ kept[s] = [sessions[s] EXCEPT !.timers = @ \ {"endpointResume"}]
    BY <2>2 DEF R!Session, SameParties
  <2>3. QED  BY <1>2, <2>1, <2>2
<1> HIDE DEF kept
<1>4. QED  BY <1>1, <1>3 DEF SessionsKept

\* What the companion says of a session.
LEMMA SpeakingKeeps ==
  ASSUME sessions \in [SessionId -> R!Session \cup {None}],
         NEW e \in Endpoint, NEW s \in SessionId, EndpointSays(e, s)
  PROVE  SessionsKept
<1>1. sessions' = sessions \/ sessions' = R!Ended({s})
  BY DEF EndpointSays, R!AckOpened, R!AckRefused, R!EndpointClose, R!EndpointLine,
         R!Fail, R!Ignored, R!relayState
<1>2. QED  BY <1>1, EndingKeeps, NothingKeeps

\* With the legs and their claims as they were, isolation needs no more than that
\* no session was opened or changed hands.
LEMMA KeptIsEnough ==
  ASSUME LegInv, SessionsKept, opens' \subseteq Open,
         sessionStreams' = sessionStreams, sessionStreamOwners' = sessionStreamOwners
  PROVE  LegInv'
<1>1. LegBelongsToOwner'
  BY DEF LegInv, SessionsKept, SameParties, LegBelongsToOwner, R!Live
<1>2. LegsAreClaimed'
  BY DEF LegInv, LegsAreClaimed
<1>3. QED  BY <1>1, <1>2 DEF LegInv, SessionsKept
-----------------------------------------------------------------------------
\* No step of a companion, of a client or of a timer opens a session.
LEMMA CompanionKeeps ==
  ASSUME sessions \in [SessionId -> R!Session \cup {None}],
         NEW e \in Endpoint, CompanionStep(e)
  PROVE  SessionsKept
<1>1. CASE EndpointConnects(e)
  BY <1>1, NothingKeeps DEF EndpointConnects, R!Ignored, R!relayState
<1>2. CASE EndpointDrops(e)
  <2>1. \/ sessions' = sessions
        \/ sessions' = R!Arm(R!Held(e), "endpointResume")
    BY <1>2 DEF EndpointDrops, R!Ignored, R!relayState, R!DetachEndpoint
  <2>2. QED  BY <2>1, TimersKeep, NothingKeeps DEF R!Leg
<1>3. CASE Hello(e)
  BY <1>3, HelloKeeps DEF Hello
<1>4. CASE Goodbye(e)
  BY <1>4, NothingKeeps DEF Goodbye, R!SayGoodbye
<1>5. CASE \E s \in SessionId : EndpointSays(e, s)
  BY <1>5, SpeakingKeeps
<1>6. QED  BY <1>1, <1>2, <1>3, <1>4, <1>5 DEF CompanionStep

LEMMA ClientKeeps ==
  ASSUME sessions \in [SessionId -> R!Session \cup {None}], NEW s \in SessionId,
         \/ ClientDrops(s) \/ TimerFires(s)
         \/ \E caller \in Owner : ClientConnects(caller, s) \/ ClientSays(caller, s)
  PROVE  SessionsKept
<1>1. \/ sessions' = sessions \/ sessions' = R!Ended({s})
      \/ sessions' = R!Arm({s}, "clientResume") \/ sessions' = R!Disarm({s}, "clientResume")
  BY DEF ClientDrops, TimerFires, ClientConnects, ClientSays, R!DetachClient, R!AttachClient,
         R!ClientLine, R!CloseSession, R!TimerFires, R!StrayFires, R!Fail, R!Ignored,
         R!relayState
<1>2. QED  BY <1>1, EndingKeeps, NothingKeeps, TimersKeep DEF R!Leg
-----------------------------------------------------------------------------
LEMMA CompanionStepKeeps ==
  ASSUME LegInv, NEW e \in Endpoint, CompanionStep(e)
  PROVE  LegInv'
<1>1. /\ opens' = opens
      /\ sessionStreams' = sessionStreams /\ sessionStreamOwners' = sessionStreamOwners
  BY DEF CompanionStep, EndpointConnects, EndpointDrops, Hello, Goodbye, EndpointSays,
         legs, calls
<1>2. QED  BY <1>1, CompanionKeeps, KeptIsEnough DEF LegInv

\* A leg that is registered beside a live session is its owner's.
LEMMA ClientConnectsKeeps ==
  ASSUME LegInv, NEW caller \in Owner, NEW s \in SessionId, ClientConnects(caller, s)
  PROVE  LegInv'
<1>1. /\ MaySession(caller, s)
      /\ sessionStreams' = [sessionStreams EXCEPT ![s] = caller]
      /\ sessionStreamOwners' = [sessionStreamOwners EXCEPT ![s] = caller]
      /\ opens' = opens
  BY DEF ClientConnects, calls
<1>2. SessionsKept
  BY ClientKeeps DEF LegInv
<1>3. ASSUME NEW t \in SessionId, sessions'[t] # None
      PROVE  sessionStreams'[t] \in {None, sessions'[t].owner}
  <2>1. sessions[t] # None /\ sessions'[t].owner = sessions[t].owner
    BY <1>2, <1>3 DEF SessionsKept, SameParties
  <2>2. CASE t = s
    <3>1. sessions[s].owner = caller
      BY <1>1, <2>1, <2>2 DEF MaySession, R!Live
    <3>2. QED  BY <1>1, <2>1, <2>2, <3>1 DEF LegInv
  <2>3. CASE t # s
    <3>1. sessionStreams'[t] = sessionStreams[t]
      BY <1>1, <2>3 DEF LegInv
    <3>2. QED  BY <2>1, <3>1 DEF LegInv, LegBelongsToOwner, R!Live
  <2>4. QED  BY <2>2, <2>3
<1>4. LegsAreClaimed'
  BY <1>1 DEF LegInv, LegsAreClaimed
<1>5. LegBelongsToOwner'
  BY <1>3 DEF LegBelongsToOwner, R!Live
<1>6. QED  BY <1>1, <1>2, <1>4, <1>5 DEF LegInv, SessionsKept

LEMMA ClientStepKeeps ==
  ASSUME LegInv, NEW caller \in Owner, NEW s \in SessionId, ClientStep(caller, s)
  PROVE  LegInv'
<1>1. CASE ClientConnects(caller, s)
  BY <1>1, ClientConnectsKeeps
<1>2. CASE ClientSays(caller, s)
  BY <1>2, ClientKeeps, KeptIsEnough DEF ClientSays, legs, calls, LegInv
<1>3. CASE OwnerDeletes(caller, s)
  <2>1. SessionsKept
    BY <1>3, NothingKeeps DEF OwnerDeletes, R!Ignored, R!relayState, LegInv
  <2>2. QED  BY <1>3, <2>1, KeptIsEnough DEF OwnerDeletes, legs, LegInv
<1>4. QED  BY <1>1, <1>2, <1>3 DEF ClientStep

LEMMA ClientDropsKeeps ==
  ASSUME LegInv, NEW s \in SessionId, ClientDrops(s)
  PROVE  LegInv'
<1>1. /\ sessionStreams' = [sessionStreams EXCEPT ![s] = None]
      /\ sessionStreamOwners' = [sessionStreamOwners EXCEPT ![s] = None]
      /\ opens' = opens
  BY DEF ClientDrops, calls
<1>2. SessionsKept
  BY ClientKeeps DEF LegInv
<1>3. LegsAreClaimed'
  BY <1>1 DEF LegInv, LegsAreClaimed
<1>4. ASSUME NEW t \in SessionId, sessions'[t] # None
      PROVE  sessionStreams'[t] \in {None, sessions'[t].owner}
  BY <1>1, <1>2, <1>4 DEF SessionsKept, SameParties, LegInv, LegBelongsToOwner, R!Live
<1>5. LegBelongsToOwner'
  BY <1>4 DEF LegBelongsToOwner, R!Live
<1>6. QED  BY <1>1, <1>2, <1>3, <1>5 DEF LegInv, SessionsKept
-----------------------------------------------------------------------------
\* The race this is about: the session is there from this step on, and whoever
\* claimed the leg while the row was awaited has lost it in the same step.
LEMMA OpenAcceptedKeeps ==
  ASSUME LegInv, NEW o \in opens, OpenAccepted(o)
  PROVE  LegInv'
<1> DEFINE id == o.session
           claimed == sessionStreamOwners[id] = o.caller
           opened == [run |-> o.run, endpoint |-> o.endpoint, owner |-> o.caller,
                      timers |-> {}]
<1>1. /\ o \in Open /\ id \in SessionId /\ o.caller \in Owner
      /\ opened \in R!Session /\ opened.owner = o.caller
  BY DEF LegInv, Open, R!Session
<1>2. /\ sessions' = [sessions EXCEPT ![id] = opened]
      /\ opens' = opens \ {o}
  BY DEF OpenAccepted, R!AcceptOpen
<1>3. /\ sessionStreams' = IF claimed THEN sessionStreams
                           ELSE [sessionStreams EXCEPT ![id] = None]
      /\ sessionStreamOwners' = IF claimed THEN sessionStreamOwners
                                ELSE [sessionStreamOwners EXCEPT ![id] = None]
  BY DEF OpenAccepted
<1> HIDE DEF opened
<1>4. LegsAreClaimed'
  BY <1>1, <1>3 DEF LegInv, LegsAreClaimed
<1>5. ASSUME NEW t \in SessionId, sessions'[t] # None
      PROVE  sessionStreams'[t] \in {None, sessions'[t].owner}
  <2>1. CASE t = id
    <3>1. sessions'[t].owner = o.caller
      BY <1>1, <1>2, <2>1 DEF LegInv
    <3>2. sessionStreams'[t] \in {None, o.caller}
      BY <1>1, <1>3, <2>1 DEF LegInv, LegsAreClaimed
    <3>3. QED  BY <3>1, <3>2
  <2>2. CASE t # id
    <3>1. sessions'[t] = sessions[t] /\ sessionStreams'[t] = sessionStreams[t]
      BY <1>1, <1>2, <1>3, <2>2 DEF LegInv
    <3>2. QED  BY <1>5, <3>1 DEF LegInv, LegBelongsToOwner, R!Live
  <2>3. QED  BY <2>1, <2>2
<1>6. LegBelongsToOwner'
  BY <1>5 DEF LegBelongsToOwner, R!Live
<1>7. QED  BY <1>1, <1>2, <1>3, <1>4, <1>6 DEF LegInv

LEMMA OpenStepKeeps ==
  ASSUME LegInv, NEW o \in opens, OpenStep(o)
  PROVE  LegInv'
<1>1. o \in Open
  BY DEF LegInv
<1>2. CASE Reserve(o)
  <2>1. [o EXCEPT !.phase = "reserved"] \in Open /\ [o EXCEPT !.phase = "conflict"] \in Open
    BY <1>1 DEF Open
  <2>2. opens' \subseteq Open
    BY <1>2, <2>1 DEF Reserve, LegInv
  <2>3. SessionsKept
    BY <1>2, NothingKeeps DEF Reserve, R!Ignored, R!relayState, LegInv
  <2>4. QED  BY <1>2, <2>2, <2>3, KeptIsEnough DEF Reserve, legs
<1>3. CASE OpenConflicts(o)
  BY <1>3, NothingKeeps, KeptIsEnough DEF OpenConflicts, relayState, legs, LegInv
<1>4. CASE OpenAccepted(o)
  BY <1>4, OpenAcceptedKeeps
<1>5. CASE OpenRefused(o)
  BY <1>5, NothingKeeps, KeptIsEnough
     DEF OpenRefused, R!RefuseOpen, R!relayState, legs, LegInv
<1>6. QED  BY <1>2, <1>3, <1>4, <1>5 DEF OpenStep

LEMMA ContinuationKeeps ==
  ASSUME LegInv, Continuation
  PROVE  LegInv'
<1>1. CASE \E o \in opens : OpenStep(o)
  BY <1>1, OpenStepKeeps
<1>2. CASE \E k \in releasing : Release(k)
  BY <1>2, NothingKeeps, KeptIsEnough DEF Release, R!Ignored, R!relayState, legs, LegInv
<1>3. CASE \E ref \in forgetting : Forget(ref)
  BY <1>3, NothingKeeps, KeptIsEnough DEF Forget, R!Ignored, R!relayState, legs, LegInv
<1>4. CASE \E ref \in deleting : DeleteProceeds(ref)
  BY <1>4, EndingKeeps, KeptIsEnough
     DEF DeleteProceeds, R!CloseSession, R!Fail, legs, LegInv
<1>5. CASE \E spared \in sweeps : SweepExpires(spared)
  BY <1>5, NothingKeeps, KeptIsEnough
     DEF SweepExpires, R!Ignored, R!relayState, legs, LegInv
<1>6. QED  BY <1>1, <1>2, <1>3, <1>4, <1>5 DEF Continuation
-----------------------------------------------------------------------------
LEMMA LegInvInit == Init => LegInv
BY DEF Init, R!Init, LegInv, LegsAreClaimed, LegBelongsToOwner, R!Live

LEMMA LegInvNext == LegInv /\ [Next]_vars => LegInv'
<1> SUFFICES ASSUME LegInv, [Next]_vars PROVE LegInv'
  OBVIOUS
<1>1. ASSUME NEW e \in Endpoint, CompanionStep(e) PROVE LegInv'
  BY <1>1, CompanionStepKeeps
<1>2. ASSUME NEW caller \in Owner, NEW s \in SessionId, ClientStep(caller, s) PROVE LegInv'
  BY <1>2, ClientStepKeeps
<1>3. ASSUME NEW o \in Open, OpenArrives(o) PROVE LegInv'
  <2>1. opens' \subseteq Open
    BY <1>3 DEF OpenArrives, LegInv
  <2>2. SessionsKept
    BY <1>3, NothingKeeps DEF OpenArrives, relayState, LegInv
  <2>3. QED  BY <1>3, <2>1, <2>2, KeptIsEnough DEF OpenArrives, legs
<1>4. ASSUME NEW s \in SessionId, ClientDrops(s) PROVE LegInv'
  BY <1>4, ClientDropsKeeps
<1>5. ASSUME NEW s \in SessionId, TimerFires(s) PROVE LegInv'
  BY <1>5, ClientKeeps, KeptIsEnough DEF TimerFires, legs, calls, LegInv
<1>6. ASSUME NEW s \in SessionId, RowAges(s) PROVE LegInv'
  BY <1>6, NothingKeeps, KeptIsEnough
     DEF RowAges, R!Ignored, R!relayState, legs, calls, LegInv
<1>7. CASE Continuation
  BY <1>7, ContinuationKeeps
<1>8. CASE SweepBegins
  BY <1>8, NothingKeeps, KeptIsEnough DEF SweepBegins, R!Ignored, R!relayState, legs, LegInv
<1>9. CASE Restart
  BY <1>9 DEF Restart, LegInv, LegsAreClaimed, LegBelongsToOwner, R!Live
<1>10. CASE UNCHANGED vars
  BY <1>10, NothingKeeps, KeptIsEnough DEF vars, relayState, legs, calls, LegInv
<1>11. QED
  BY <1>1, <1>2, <1>3, <1>4, <1>5, <1>6, <1>7, <1>8, <1>9, <1>10 DEF Next

\* The leg that gets a live session's lines was opened by the session's owner,
\* for any number of tenants, sessions and opens in flight.
THEOREM GatewayIsolation == Spec => []LegBelongsToOwner
<1>1. LegInv => LegBelongsToOwner
  BY DEF LegInv
<1>2. QED  BY <1>1, LegInvInit, LegInvNext, PTL DEF Spec
-----------------------------------------------------------------------------
(***************************************************************************)
(* The rows and journals of Gateway, for every value of the constants but  *)
(* two: no id is opened again (remote.ts draws a fresh one for every       *)
(* prompt), and no owner deletes a session that is still being opened.     *)
(* Without either, a row is not the live session's: see the README.        *)
(***************************************************************************)

\* That a live session has its row says nothing of what is under way to take it.
\* An id is opened once, so that an open, a live session and the code that gives
\* a row back never meet on one id.
OpensStandAlone ==
    \A o \in opens :
        /\ o.session \in used \ aged
        /\ sessions[o.session] = None
        /\ o.phase = "reserved" => Matches(o)
        /\ \A p \in opens : p.session = o.session => p = o
        /\ \A k \in releasing : k.session # o.session
        /\ \A ref \in deleting : ref[2] # o.session

LiveStandsAlone ==
    \A s \in SessionId : sessions[s] # None =>
        /\ s \in used
        /\ \A k \in releasing : k.session # s

GoneStaysGone ==
    /\ \A s \in SessionId : rows[s] # None => s \in used
    /\ \A k \in releasing : k.session \in used
    /\ \A ref \in deleting : ref[2] \in used \cap SessionId /\ rows[ref[2]] = None

\* A row does not age while a sweep is out, so that what a sweep was given still
\* names every live session it could take.
SweepsSpare ==
    \A spared \in sweeps, s \in aged : sessions[s] # None => KeyOf(s) \in spared

\* LiveHasRow, with Live, KeyOf and Matches spelled out.
RowsOfLive ==
    \A s \in SessionId : sessions[s] # None =>
        \/ rows[s] = [run |-> sessions[s].run, endpoint |-> sessions[s].endpoint]
        \/ <<sessions[s].run, s>> \in deleting

RowInv ==
    /\ sessions \in [SessionId -> R!Session \cup {None}]
    /\ rows \in [SessionId -> Row \cup {None}]
    /\ opens \subseteq Open
    /\ aged \subseteq used \cap SessionId
    /\ OpensStandAlone
    /\ LiveStandsAlone
    /\ GoneStaysGone
    /\ SweepsSpare
    /\ RowsOfLive
-----------------------------------------------------------------------------
LEMMA LiveRows == RowInv => LiveHasRow
BY DEF RowInv, RowsOfLive, LiveHasRow, R!Live, Matches, KeyOf

\* The parties of a session are its key.
LEMMA KeysStay ==
  ASSUME SessionsKept, NEW s \in SessionId, sessions'[s] # None
  PROVE  /\ sessions[s] # None /\ KeyOf(s)' = KeyOf(s)
         /\ sessions'[s].run = sessions[s].run
         /\ sessions'[s].endpoint = sessions[s].endpoint
BY DEF SessionsKept, SameParties, KeyOf

\* With the table as it was, nothing can go wrong by what ends.
LEMMA TableKept ==
  ASSUME RowInv, SessionsKept, opens' \subseteq opens, releasing' \subseteq releasing,
         sweeps' \subseteq sweeps, deleting' = deleting,
         rows' = rows, aged' = aged, used' = used
  PROVE  RowInv'
<1>1. OpensStandAlone'
  <2> SUFFICES ASSUME NEW o \in opens'
               PROVE  /\ o.session \in used' \ aged'
                      /\ sessions'[o.session] = None
                      /\ o.phase = "reserved" => Matches(o)'
                      /\ \A p \in opens' : p.session = o.session => p = o
                      /\ \A k \in releasing' : k.session # o.session
                      /\ \A ref \in deleting' : ref[2] # o.session
    BY DEF OpensStandAlone
  <2>1. o \in opens /\ o.session \in SessionId /\ sessions[o.session] = None
    BY DEF RowInv, OpensStandAlone, Open
  <2>2. sessions'[o.session] = None
    BY <2>1, KeysStay
  <2>3. Matches(o)' <=> Matches(o)
    BY DEF Matches
  <2>4. QED  BY <2>1, <2>2, <2>3 DEF RowInv, OpensStandAlone
<1>2. LiveStandsAlone'
  BY KeysStay DEF RowInv, LiveStandsAlone
<1>3. GoneStaysGone'
  BY DEF RowInv, GoneStaysGone
<1>4. SweepsSpare'
  BY KeysStay DEF RowInv, SweepsSpare
<1>5. RowsOfLive'
  BY KeysStay DEF RowInv, RowsOfLive
<1>6. QED  BY <1>1, <1>2, <1>3, <1>4, <1>5 DEF RowInv, SessionsKept

\* Rows that go, whoever takes them: no open waits for one, and a live session
\* that loses its row is about to end.
LEMMA DropKeeps ==
  ASSUME RowInv, NEW S, Drop(S),
         sessions' = sessions, opens' = opens, releasing' \subseteq releasing,
         sweeps' \subseteq sweeps, deleting \subseteq deleting',
         \A o \in opens : o.session \notin S,
         \A ref \in deleting' \ deleting : ref[2] \in S \cap used \cap SessionId,
         \A s \in S \cap SessionId : sessions[s] # None => <<sessions[s].run, s>> \in deleting'
  PROVE  RowInv'
<1>1. /\ rows' = [s \in SessionId |-> IF s \in S THEN None ELSE rows[s]]
      /\ aged' = aged \ S /\ used' = used
  BY DEF Drop
<1>2. OpensStandAlone'
  <2> SUFFICES ASSUME NEW o \in opens
               PROVE  /\ o.session \in used' \ aged'
                      /\ sessions'[o.session] = None
                      /\ o.phase = "reserved" => Matches(o)'
                      /\ \A p \in opens : p.session = o.session => p = o
                      /\ \A k \in releasing' : k.session # o.session
                      /\ \A ref \in deleting' : ref[2] # o.session
    BY DEF OpensStandAlone
  <2>1. o.session \in SessionId /\ o.session \notin S
    BY DEF RowInv, Open
  <2>2. Matches(o)' <=> Matches(o)
    BY <1>1, <2>1 DEF Matches
  <2>3. QED  BY <1>1, <2>1, <2>2 DEF RowInv, OpensStandAlone
<1>3. LiveStandsAlone'
  BY <1>1 DEF RowInv, LiveStandsAlone
<1>4. GoneStaysGone'
  <2>1. ASSUME NEW ref \in deleting'
        PROVE  ref[2] \in used' \cap SessionId /\ rows'[ref[2]] = None
    <3>1. CASE ref \in deleting
      BY <1>1, <3>1 DEF RowInv, GoneStaysGone
    <3>2. CASE ref \notin deleting
      BY <1>1, <3>2
    <3>3. QED  BY <3>1, <3>2
  <2>2. QED  BY <1>1, <2>1 DEF RowInv, GoneStaysGone
<1>5. SweepsSpare'
  BY <1>1 DEF RowInv, SweepsSpare, KeyOf
<1>6. RowsOfLive'
  BY <1>1 DEF RowInv, RowsOfLive
<1>7. QED  BY <1>1, <1>2, <1>3, <1>4, <1>5, <1>6 DEF RowInv
-----------------------------------------------------------------------------
(* The open. *)

\* An id that is opened is new to everything there is.
LEMMA OpenArrivesKeeps ==
  ASSUME RowInv, ~Reopens, NEW o \in Open, OpenArrives(o)
  PROVE  RowInv'
<1>1. /\ sessions' = sessions /\ rows' = rows /\ aged' = aged
      /\ releasing' = releasing /\ deleting' = deleting /\ sweeps' = sweeps
  BY DEF OpenArrives, relayState
<1>2. CASE opens' = opens /\ used' = used
  BY <1>1, <1>2, TableKept, NothingKeeps DEF RowInv
<1>3. CASE /\ o.phase = "reserving" /\ o.session \notin used
           /\ opens' = opens \cup {o} /\ used' = used \cup {o.session}
  <2>1. o.session \in SessionId
    BY DEF Open
  <2>2. /\ sessions[o.session] = None
        /\ \A p \in opens : p.session # o.session
        /\ \A k \in releasing : k.session # o.session
        /\ \A ref \in deleting : ref[2] # o.session
    BY <1>3, <2>1 DEF RowInv, OpensStandAlone, LiveStandsAlone, GoneStaysGone
  <2>3. OpensStandAlone'
    BY <1>1, <1>3, <2>2 DEF RowInv, OpensStandAlone, Matches
  <2>4. /\ LiveStandsAlone' /\ GoneStaysGone' /\ SweepsSpare' /\ RowsOfLive'
    BY <1>1, <1>3 DEF RowInv, LiveStandsAlone, GoneStaysGone, SweepsSpare, RowsOfLive, KeyOf
  <2>5. QED  BY <1>1, <1>3, <2>3, <2>4 DEF RowInv
<1>4. QED  BY <1>2, <1>3 DEF OpenArrives

LEMMA ReserveKeeps ==
  ASSUME RowInv, NEW o \in opens, Reserve(o)
  PROVE  RowInv'
<1> DEFINE now(phase) == [o EXCEPT !.phase = phase]
<1>1. /\ sessions' = sessions /\ aged' = aged /\ used' = used
      /\ releasing' = releasing /\ deleting' = deleting /\ sweeps' = sweeps
  BY DEF Reserve, R!Ignored, R!relayState
<1>2. /\ o \in Open /\ o.session \in SessionId
      /\ [run |-> o.run, endpoint |-> o.endpoint] \in Row
      /\ \A phase \in {"reserved", "conflict"} :
            /\ now(phase) \in Open /\ now(phase).phase = phase
            /\ now(phase).session = o.session
            /\ now(phase).run = o.run /\ now(phase).endpoint = o.endpoint
  BY DEF RowInv, Open, Row
<1> HIDE DEF now
<1>3. CASE rows' = rows /\ opens' = opens \ {o}
  BY <1>1, <1>3, TableKept, NothingKeeps DEF RowInv
<1>4. ASSUME NEW phase \in {"reserved", "conflict"},
             opens' = (opens \ {o}) \cup {now(phase)},
             \/ rows' = rows /\ phase = "conflict"
             \/ /\ phase = "reserved" /\ rows[o.session] = None
                /\ rows' = [rows EXCEPT ![o.session] =
                                [run |-> o.run, endpoint |-> o.endpoint]]
      PROVE  RowInv'
  <2>1. /\ \A p \in opens \ {o} : p.session # o.session
        /\ sessions[o.session] = None /\ o.session \in used
        /\ \A ref \in deleting : ref[2] # o.session
    BY DEF RowInv, OpensStandAlone
  <2>2. /\ \A s \in SessionId \ {o.session} : rows'[s] = rows[s]
        /\ rows' \in [SessionId -> Row \cup {None}]
    BY <1>2, <1>4 DEF RowInv
  <2>3. ASSUME NEW p \in opens'
        PROVE  /\ p.session \in used' \ aged'
               /\ sessions'[p.session] = None
               /\ p.phase = "reserved" => Matches(p)'
               /\ \A q \in opens' : q.session = p.session => q = p
               /\ \A k \in releasing' : k.session # p.session
               /\ \A ref \in deleting' : ref[2] # p.session
    <3>1. CASE p \in opens \ {o}
      <4>1. p.session \in SessionId \ {o.session}
        BY <2>1, <3>1 DEF RowInv, Open
      <4>2. Matches(p)' <=> Matches(p)
        BY <2>2, <4>1 DEF Matches
      <4>3. QED  BY <1>1, <1>2, <1>4, <3>1, <4>1, <4>2 DEF RowInv, OpensStandAlone
    <3>2. CASE p = now(phase)
      <4>1. p.session = o.session /\ p.phase = phase
        BY <1>2, <3>2
      <4>2. phase = "reserved" => Matches(p)'
        BY <1>2, <1>4, <3>2 DEF Matches, RowInv
      <4>3. QED  BY <1>1, <1>4, <2>1, <3>2, <4>1, <4>2 DEF RowInv, OpensStandAlone
    <3>3. QED  BY <1>4, <3>1, <3>2
  <2>4. OpensStandAlone'
    BY <2>3 DEF OpensStandAlone
  <2>5. LiveStandsAlone' /\ SweepsSpare'
    BY <1>1 DEF RowInv, LiveStandsAlone, SweepsSpare, KeyOf
  <2>6. GoneStaysGone'
    BY <1>1, <2>1, <2>2 DEF RowInv, GoneStaysGone
  <2>7. RowsOfLive'
    BY <1>1, <2>1, <2>2 DEF RowInv, RowsOfLive
  <2>8. QED  BY <1>1, <1>2, <1>4, <2>2, <2>4, <2>5, <2>6, <2>7 DEF RowInv
<1>5. QED
  BY <1>3, <1>4 DEF Reserve, now

\* The session starts with the row that its open waited for.
LEMMA AcceptedHasRow ==
  ASSUME RowInv, NEW o \in opens, OpenAccepted(o)
  PROVE  RowInv'
<1> DEFINE id == o.session
           opened == [run |-> o.run, endpoint |-> o.endpoint, owner |-> o.caller,
                      timers |-> {}]
<1>1. /\ id \in SessionId /\ opened \in R!Session
      /\ opened.run = o.run /\ opened.endpoint = o.endpoint
      /\ o.phase = "reserved"
  BY DEF RowInv, Open, R!Session, OpenAccepted
<1>2. /\ sessions' = [sessions EXCEPT ![id] = opened] /\ opens' = opens \ {o}
      /\ rows' = rows /\ aged' = aged /\ used' = used
      /\ releasing' = releasing /\ deleting' = deleting /\ sweeps' = sweeps
  BY DEF OpenAccepted, R!AcceptOpen
<1> HIDE DEF opened
<1>3. /\ sessions' \in [SessionId -> R!Session \cup {None}] /\ sessions'[id] = opened
      /\ \A s \in SessionId \ {id} : sessions'[s] = sessions[s]
  BY <1>1, <1>2 DEF RowInv
<1>4. /\ id \in used \ aged
      /\ rows[id] = [run |-> o.run, endpoint |-> o.endpoint]
      /\ \A p \in opens \ {o} : p.session # id
      /\ \A k \in releasing : k.session # id
  BY <1>1 DEF RowInv, OpensStandAlone, Matches
<1>5. OpensStandAlone'
  <2> SUFFICES ASSUME NEW p \in opens \ {o}
               PROVE  /\ p.session \in used' \ aged'
                      /\ sessions'[p.session] = None
                      /\ p.phase = "reserved" => Matches(p)'
                      /\ \A q \in opens' : q.session = p.session => q = p
                      /\ \A k \in releasing' : k.session # p.session
                      /\ \A ref \in deleting' : ref[2] # p.session
    BY <1>2 DEF OpensStandAlone
  <2>1. p.session \in SessionId \ {id}
    BY <1>4 DEF RowInv, Open
  <2>2. Matches(p)' <=> Matches(p)
    BY <1>2 DEF Matches
  <2>3. QED  BY <1>2, <1>3, <2>1, <2>2 DEF RowInv, OpensStandAlone
<1>6. LiveStandsAlone'
  BY <1>2, <1>3, <1>4 DEF RowInv, LiveStandsAlone
<1>7. GoneStaysGone'
  BY <1>2 DEF RowInv, GoneStaysGone
<1>8. SweepsSpare'
  BY <1>2, <1>3, <1>4 DEF RowInv, SweepsSpare, KeyOf
<1>9. RowsOfLive'
  BY <1>1, <1>2, <1>3, <1>4 DEF RowInv, RowsOfLive
<1>10. QED  BY <1>2, <1>3, <1>5, <1>6, <1>7, <1>8, <1>9 DEF RowInv

\* A key is given back only when neither an open nor a session has its id.
LEMMA GivesBack ==
  ASSUME RowInv, SessionsKept, NEW k, releasing' = releasing \cup {k},
         k.session \in used, \A o \in opens' : o.session # k.session,
         \A s \in SessionId : sessions'[s] # None => s # k.session,
         opens' \subseteq opens, sweeps' = sweeps, deleting' = deleting,
         rows' = rows, aged' = aged, used' = used
  PROVE  RowInv'
<1>1. OpensStandAlone'
  <2> SUFFICES ASSUME NEW o \in opens'
               PROVE  /\ o.session \in used' \ aged'
                      /\ sessions'[o.session] = None
                      /\ o.phase = "reserved" => Matches(o)'
                      /\ \A p \in opens' : p.session = o.session => p = o
                      /\ \A j \in releasing' : j.session # o.session
                      /\ \A ref \in deleting' : ref[2] # o.session
    BY DEF OpensStandAlone
  <2>1. o \in opens /\ o.session \in SessionId
    BY DEF RowInv, Open
  <2>2. sessions'[o.session] = None
    BY <2>1, KeysStay DEF RowInv, OpensStandAlone
  <2>3. Matches(o)' <=> Matches(o)
    BY DEF Matches
  <2>4. QED  BY <2>1, <2>2, <2>3 DEF RowInv, OpensStandAlone
<1>2. LiveStandsAlone'
  BY KeysStay DEF RowInv, LiveStandsAlone
<1>3. GoneStaysGone'
  BY DEF RowInv, GoneStaysGone
<1>4. SweepsSpare'
  BY KeysStay DEF RowInv, SweepsSpare
<1>5. RowsOfLive'
  BY KeysStay DEF RowInv, RowsOfLive
<1>6. QED  BY <1>1, <1>2, <1>3, <1>4, <1>5 DEF RowInv, SessionsKept

LEMMA RefusedGivesBack ==
  ASSUME RowInv, NEW o \in opens, OpenRefused(o)
  PROVE  RowInv'
<1> DEFINE k == [session |-> o.session, run |-> o.run, endpoint |-> o.endpoint]
<1>1. /\ sessions' = sessions /\ opens' = opens \ {o} /\ releasing' = releasing \cup {k}
      /\ rows' = rows /\ aged' = aged /\ used' = used
      /\ deleting' = deleting /\ sweeps' = sweeps
  BY DEF OpenRefused, R!RefuseOpen, R!relayState, table
<1>2. /\ k.session = o.session /\ o.session \in used /\ sessions[o.session] = None
      /\ \A p \in opens \ {o} : p.session # o.session
  BY DEF RowInv, OpensStandAlone
<1> HIDE DEF k
<1>3. SessionsKept
  BY <1>1, NothingKeeps DEF RowInv
<1>4. QED  BY <1>1, <1>2, <1>3, GivesBack

\* The companion's own refusal, of a session that was live.
LEMMA AckRefusedGivesBack ==
  ASSUME RowInv, NEW e \in Endpoint, NEW s \in SessionId, R!Speaks(e, s), R!AckRefused(e, s),
         releasing' = releasing \cup {KeyOf(s)}, opens' = opens,
         sweeps' = sweeps, deleting' = deleting, rows' = rows, aged' = aged, used' = used
  PROVE  RowInv'
<1>1. sessions[s] # None /\ sessions' = R!Ended({s})
  BY DEF R!AckRefused, R!Speaks, R!Live
<1>2. SessionsKept
  BY <1>1, EndingKeeps DEF RowInv
<1>3. \A t \in SessionId : sessions'[t] # None => t # s
  BY <1>1 DEF R!Ended
<1>4. /\ KeyOf(s).session = s /\ s \in used
      /\ \A o \in opens : o.session # s
  BY <1>1 DEF RowInv, OpensStandAlone, LiveStandsAlone, KeyOf
<1>5. QED  BY <1>2, <1>3, <1>4, GivesBack
-----------------------------------------------------------------------------
(* Everything else. *)

LEMMA CompanionRows ==
  ASSUME RowInv, NEW e \in Endpoint, CompanionStep(e)
  PROVE  RowInv'
<1>1. SessionsKept
  BY CompanionKeeps DEF RowInv
<1>2. CASE /\ releasing' = releasing
           /\ \/ EndpointConnects(e) \/ EndpointDrops(e) \/ Hello(e) \/ Goodbye(e)
              \/ \E s \in SessionId : EndpointSays(e, s)
  BY <1>1, <1>2, TableKept
     DEF EndpointConnects, EndpointDrops, Hello, Goodbye, EndpointSays, table, calls
<1>3. ASSUME NEW s \in SessionId, EndpointSays(e, s), releasing' # releasing
      PROVE  RowInv'
  <2>1. /\ R!Speaks(e, s) /\ R!AckRefused(e, s)
        /\ releasing' = releasing \cup {KeyOf(s)} /\ opens' = opens
        /\ sweeps' = sweeps /\ deleting' = deleting
        /\ rows' = rows /\ aged' = aged /\ used' = used
    BY <1>3 DEF EndpointSays
  <2>2. QED  BY <2>1, AckRefusedGivesBack
<1>4. QED
  BY <1>2, <1>3 DEF CompanionStep, EndpointConnects, EndpointDrops, Hello, Goodbye, calls

LEMMA OwnerDeletesKeeps ==
  ASSUME RowInv, ~EagerDelete, NEW caller \in Owner, NEW s \in SessionId,
         OwnerDeletes(caller, s)
  PROVE  RowInv'
<1>1. /\ Drop({s}) /\ rows[s] # None /\ \A o \in opens : o.session # s
      /\ deleting' = deleting \cup {<<rows[s].run, s>>}
      /\ sessions' = sessions /\ opens' = opens /\ releasing' = releasing /\ sweeps' = sweeps
  BY DEF OwnerDeletes, R!Ignored, R!relayState
<1>2. s \in used
  BY <1>1 DEF RowInv, GoneStaysGone
<1>3. sessions[s] # None => <<sessions[s].run, s>> \in deleting'
  BY <1>1 DEF RowInv, RowsOfLive
<1>4. QED  BY <1>1, <1>2, <1>3, DropKeeps

LEMMA ReleaseKeeps ==
  ASSUME RowInv, NEW k \in releasing, Release(k)
  PROVE  RowInv'
<1>1. /\ sessions' = sessions /\ opens' = opens /\ releasing' = releasing \ {k}
      /\ sweeps' = sweeps /\ deleting' = deleting
  BY DEF Release, R!Ignored, R!relayState
<1>2. CASE UNCHANGED table
  BY <1>1, <1>2, TableKept, NothingKeeps DEF table, RowInv
<1>3. CASE Drop({k.session})
  <2>1. /\ \A o \in opens : o.session # k.session
        /\ \A s \in SessionId : sessions[s] # None => s # k.session
    BY DEF RowInv, OpensStandAlone, LiveStandsAlone
  <2>2. QED  BY <1>1, <1>3, <2>1, DropKeeps
<1>4. QED  BY <1>2, <1>3 DEF Release

\* The session that a DELETE took the row of ends before anything else knows.
LEMMA DeleteProceedsKeeps ==
  ASSUME RowInv, NEW ref \in deleting, DeleteProceeds(ref)
  PROVE  RowInv'
<1>1. /\ sessions' = R!Ended({ref[2]}) /\ deleting' = deleting \ {ref}
      /\ opens' = opens /\ releasing' = releasing /\ sweeps' = sweeps
      /\ rows' = rows /\ aged' = aged /\ used' = used
  BY DEF DeleteProceeds, R!CloseSession, R!Fail, table
<1>2. SessionsKept
  BY <1>1, EndingKeeps DEF RowInv
<1>3. \A s \in SessionId : sessions'[s] # None => s # ref[2] /\ sessions'[s] = sessions[s]
  BY <1>1 DEF R!Ended
<1>4. OpensStandAlone'
  <2> SUFFICES ASSUME NEW o \in opens
               PROVE  /\ o.session \in used' \ aged'
                      /\ sessions'[o.session] = None
                      /\ o.phase = "reserved" => Matches(o)'
                      /\ \A p \in opens : p.session = o.session => p = o
                      /\ \A k \in releasing : k.session # o.session
                      /\ \A r \in deleting' : r[2] # o.session
    BY <1>1 DEF OpensStandAlone
  <2>1. o.session \in SessionId
    BY DEF RowInv, Open
  <2>2. Matches(o)' <=> Matches(o)
    BY <1>1 DEF Matches
  <2>3. QED  BY <1>1, <1>3, <2>1, <2>2 DEF RowInv, OpensStandAlone
<1>5. LiveStandsAlone' /\ GoneStaysGone'
  BY <1>1, <1>3 DEF RowInv, LiveStandsAlone, GoneStaysGone
<1>6. SweepsSpare'
  BY <1>1, <1>3 DEF RowInv, SweepsSpare, KeyOf
<1>7. RowsOfLive'
  <2>1. ASSUME NEW s \in SessionId, sessions'[s] # None
        PROVE  \/ rows[s] = [run |-> sessions[s].run, endpoint |-> sessions[s].endpoint]
               \/ <<sessions[s].run, s>> \in deleting \ {ref}
    <3>1. s # ref[2] /\ sessions[s] # None
      BY <1>3, <2>1
    <3>2. <<sessions[s].run, s>> # ref
      BY <3>1
    <3>3. QED  BY <3>1, <3>2 DEF RowInv, RowsOfLive
  <2>2. QED  BY <1>1, <1>3, <2>1 DEF RowsOfLive
<1>8. QED  BY <1>1, <1>2, <1>4, <1>5, <1>6, <1>7 DEF RowInv, SessionsKept

LEMMA AgesKeeps ==
  ASSUME RowInv, NEW s \in SessionId, RowAges(s)
  PROVE  RowInv'
<1>1. /\ rows[s] # None /\ sweeps = {} /\ \A o \in opens : o.session # s
      /\ aged' = aged \cup {s} /\ sessions' = sessions /\ opens' = opens
      /\ releasing' = releasing /\ deleting' = deleting /\ sweeps' = sweeps
      /\ rows' = rows /\ used' = used
  BY DEF RowAges, R!Ignored, R!relayState, calls
<1>2. OpensStandAlone'
  BY <1>1 DEF RowInv, OpensStandAlone, Matches
<1>3. LiveStandsAlone' /\ GoneStaysGone' /\ RowsOfLive'
  BY <1>1 DEF RowInv, LiveStandsAlone, GoneStaysGone, RowsOfLive
<1>4. SweepsSpare'
  BY <1>1 DEF SweepsSpare
<1>5. QED  BY <1>1, <1>2, <1>3, <1>4 DEF RowInv, GoneStaysGone

LEMMA SweepBeginsKeeps ==
  ASSUME RowInv, SweepBegins
  PROVE  RowInv'
<1>1. /\ sweeps' = {{KeyOf(s) : s \in R!Live}} /\ sessions' = sessions /\ opens' = opens
      /\ releasing' = releasing /\ deleting' = deleting
      /\ rows' = rows /\ used' = used /\ aged' = aged
  BY DEF SweepBegins, R!Ignored, R!relayState, table
<1>2. OpensStandAlone'
  BY <1>1 DEF RowInv, OpensStandAlone, Matches
<1>3. LiveStandsAlone' /\ GoneStaysGone' /\ RowsOfLive'
  BY <1>1 DEF RowInv, LiveStandsAlone, GoneStaysGone, RowsOfLive
<1>4. SweepsSpare'
  BY <1>1 DEF RowInv, SweepsSpare, KeyOf, R!Live
<1>5. QED  BY <1>1, <1>2, <1>3, <1>4 DEF RowInv

\* What the sweep was given names every live session whose row is old.
LEMMA SweepExpiresKeeps ==
  ASSUME RowInv, NEW spared \in sweeps, SweepExpires(spared)
  PROVE  RowInv'
<1> DEFINE doomed == {s \in aged : ~\E k \in spared : k.session = s /\ Matches(k)}
<1>1. /\ sessions' = sessions /\ opens' = opens /\ releasing' = releasing
      /\ deleting' = deleting /\ sweeps' = sweeps \ {spared}
  BY DEF SweepExpires, R!Ignored, R!relayState
<1>2. CASE UNCHANGED table
  BY <1>1, <1>2, TableKept, NothingKeeps DEF table, RowInv
<1>3. CASE Drop(doomed)
  <2>1. \A o \in opens : o.session \notin doomed
    BY DEF RowInv, OpensStandAlone
  <2>2. ASSUME NEW s \in doomed, s \in SessionId, sessions[s] # None
        PROVE  <<sessions[s].run, s>> \in deleting
    <3>1. KeyOf(s) \in spared /\ KeyOf(s).session = s
      BY <2>2 DEF RowInv, SweepsSpare, KeyOf
    <3>2. ~Matches(KeyOf(s))
      BY <2>2, <3>1
    <3>3. rows[s] # [run |-> sessions[s].run, endpoint |-> sessions[s].endpoint]
      BY <3>2 DEF Matches, KeyOf
    <3>4. QED  BY <2>2, <3>3 DEF RowInv, RowsOfLive
  <2> HIDE DEF doomed
  <2>3. QED  BY <1>1, <1>3, <2>1, <2>2, DropKeeps
<1>4. QED  BY <1>2, <1>3 DEF SweepExpires

LEMMA RestartKeeps ==
  ASSUME RowInv, Restart
  PROVE  RowInv'
<1>1. /\ sessions' = [s \in SessionId |-> None] /\ opens' = {} /\ releasing' = {}
      /\ deleting' = {} /\ sweeps' = {} /\ rows' = rows /\ aged' = aged /\ used' = used
  BY DEF Restart, table
<1>2. QED
  BY <1>1 DEF RowInv, OpensStandAlone, LiveStandsAlone, GoneStaysGone, SweepsSpare, RowsOfLive
-----------------------------------------------------------------------------
LEMMA RowInvInit == Init => RowInv
BY DEF Init, R!Init, RowInv, OpensStandAlone, LiveStandsAlone, GoneStaysGone, SweepsSpare,
   RowsOfLive

LEMMA RowInvNext ==
  ASSUME ~Reopens, ~EagerDelete, RowInv, [Next]_vars
  PROVE  RowInv'
<1>1. ASSUME NEW e \in Endpoint, CompanionStep(e) PROVE RowInv'
  BY <1>1, CompanionRows
<1>2. ASSUME NEW caller \in Owner, NEW s \in SessionId, ClientStep(caller, s) PROVE RowInv'
  <2>1. CASE OwnerDeletes(caller, s)
    BY <2>1, OwnerDeletesKeeps
  <2>2. CASE ClientConnects(caller, s) \/ ClientSays(caller, s)
    BY <2>2, ClientKeeps, TableKept DEF ClientConnects, ClientSays, table, calls, RowInv
  <2>3. QED  BY <1>2, <2>1, <2>2 DEF ClientStep
<1>3. ASSUME NEW o \in Open, OpenArrives(o) PROVE RowInv'
  BY <1>3, OpenArrivesKeeps
<1>4. ASSUME NEW s \in SessionId, ClientDrops(s) \/ TimerFires(s) PROVE RowInv'
  BY <1>4, ClientKeeps, TableKept DEF ClientDrops, TimerFires, table, calls, RowInv
<1>5. ASSUME NEW s \in SessionId, RowAges(s) PROVE RowInv'
  BY <1>5, AgesKeeps
<1>6. ASSUME NEW o \in opens, OpenStep(o) PROVE RowInv'
  <2>1. CASE OpenConflicts(o)
    BY <2>1, TableKept, NothingKeeps DEF OpenConflicts, relayState, table, RowInv
  <2>2. QED  BY <1>6, <2>1, ReserveKeeps, AcceptedHasRow, RefusedGivesBack DEF OpenStep
<1>7. ASSUME NEW k \in releasing, Release(k) PROVE RowInv'
  BY <1>7, ReleaseKeeps
<1>8. ASSUME NEW ref \in forgetting, Forget(ref) PROVE RowInv'
  BY <1>8, TableKept, NothingKeeps DEF Forget, R!Ignored, R!relayState, table, RowInv
<1>9. ASSUME NEW ref \in deleting, DeleteProceeds(ref) PROVE RowInv'
  BY <1>9, DeleteProceedsKeeps
<1>10. ASSUME NEW spared \in sweeps, SweepExpires(spared) PROVE RowInv'
  BY <1>10, SweepExpiresKeeps
<1>11. CASE SweepBegins
  BY <1>11, SweepBeginsKeeps
<1>12. CASE Restart
  BY <1>12, RestartKeeps
<1>13. CASE UNCHANGED vars
  BY <1>13, TableKept, NothingKeeps DEF vars, relayState, table, calls, RowInv
<1>14. QED
  BY <1>1, <1>2, <1>3, <1>4, <1>5, <1>6, <1>7, <1>8, <1>9, <1>10, <1>11, <1>12, <1>13
     DEF Next, Continuation

\* A session is live only while its row is in the table, or while the DELETE that
\* took the row is about to end it, through every restart and failing query.
THEOREM GatewayRows ==
  ASSUME ~Reopens, ~EagerDelete
  PROVE  Spec => []LiveHasRow
<1>1. RowInv /\ [Next]_vars => RowInv'
  BY RowInvNext
<1>2. QED  BY <1>1, RowInvInit, LiveRows, PTL DEF Spec
-----------------------------------------------------------------------------
(* Journals. *)

JournalHeld(ref) == \/ rows[ref[2]] # None /\ rows[ref[2]].run = ref[1]
                    \/ ref \in forgetting \cup deleting

\* What is on disk is named by a run and a session, of which there was a row.
JournalInv ==
    /\ restarts \in Nat
    /\ journals \subseteq Ref
    /\ restarts = 0 => \A ref \in journals : JournalHeld(ref)

\* A journal is written for a session that is live, and that has its row.
LEMMA WritesHeld ==
  ASSUME RowInv, JournalInv, restarts' = restarts,
         \A ref \in journals' \ journals : \E s \in SessionId :
             sessions[s] # None /\ ref = <<sessions[s].run, s>>,
         rows' = rows, forgetting' = forgetting, deleting' = deleting
  PROVE  JournalInv'
<1>1. ASSUME NEW ref \in journals' \ journals PROVE ref \in Ref /\ JournalHeld(ref)
  <2>1. PICK s \in SessionId : sessions[s] # None /\ ref = <<sessions[s].run, s>>
    BY <1>1
  <2>2. sessions[s] \in R!Session
    BY <2>1 DEF RowInv
  <2>3. sessions[s].run \in RunId /\ ref[1] = sessions[s].run /\ ref[2] = s
    BY <2>1, <2>2 DEF R!Session
  <2>4. ref \in Ref
    BY <2>1, <2>3 DEF Ref
  <2>5. CASE ref \in deleting
    BY <2>4, <2>5 DEF JournalHeld
  <2>6. CASE rows[s] = [run |-> sessions[s].run, endpoint |-> sessions[s].endpoint]
    <3>1. rows[s] # None
      BY <2>2, <2>3, <2>6, GatewayAssumption DEF GatewayAssumption, Row, R!Session
    <3>2. QED  BY <2>3, <2>4, <2>6, <3>1 DEF JournalHeld
  <2>7. QED  BY <2>1, <2>5, <2>6 DEF RowInv, RowsOfLive
<1>2. \A ref \in journals' : JournalHeld(ref)' <=> JournalHeld(ref)
  BY DEF JournalHeld
<1>3. QED  BY <1>1, <1>2 DEF JournalInv

\* A row that goes leaves its journal with whoever forgets it.
LEMMA DropHandsOver ==
  ASSUME RowInv, JournalInv, restarts' = restarts, NEW S, Drop(S), journals' = journals,
         forgetting \cup deleting \subseteq forgetting' \cup deleting',
         \A s \in S \cap SessionId : rows[s] # None =>
             <<rows[s].run, s>> \in forgetting' \cup deleting'
  PROVE  JournalInv'
<1>1. ASSUME NEW ref \in journals, JournalHeld(ref) PROVE JournalHeld(ref)'
  <2>1. ref[2] \in SessionId /\ ref = <<ref[1], ref[2]>>
    BY DEF JournalInv, Ref
  <2>2. rows'[ref[2]] = IF ref[2] \in S THEN None ELSE rows[ref[2]]
    BY <2>1 DEF Drop
  <2>3. CASE ref \in forgetting \cup deleting
    BY <2>3 DEF JournalHeld
  <2>4. CASE rows[ref[2]] # None /\ rows[ref[2]].run = ref[1]
    <3>1. CASE ref[2] \in S
      BY <2>1, <2>4, <3>1 DEF JournalHeld
    <3>2. CASE ref[2] \notin S
      BY <2>2, <2>4, <3>2 DEF JournalHeld
    <3>3. QED  BY <3>1, <3>2
  <2>5. QED  BY <1>1, <2>3, <2>4 DEF JournalHeld
<1>2. QED  BY <1>1 DEF JournalInv

\* A journal goes with the reference that kept it.
LEMMA ForgetsOne ==
  ASSUME JournalInv, restarts' = restarts, rows' = rows, NEW ref,
         journals' = journals \ {ref},
         (forgetting \cup deleting) \ {ref} \subseteq forgetting' \cup deleting'
  PROVE  JournalInv'
<1>1. ASSUME NEW r \in journals', JournalHeld(r) PROVE JournalHeld(r)'
  BY <1>1 DEF JournalHeld
<1>2. QED  BY <1>1 DEF JournalInv

LEMMA ReserveHeld ==
  ASSUME RowInv, JournalInv, NEW o \in opens, Reserve(o)
  PROVE  JournalInv'
<1>1. /\ restarts' = restarts /\ journals' = journals
      /\ forgetting' = forgetting /\ deleting' = deleting /\ sessions' = sessions
  BY DEF Reserve, R!Ignored, R!relayState
<1>2. CASE rows' = rows
  BY <1>1, <1>2, WritesHeld
<1>3. CASE /\ rows[o.session] = None
           /\ rows' = [rows EXCEPT ![o.session] =
                           [run |-> o.run, endpoint |-> o.endpoint]]
  <2>1. ASSUME NEW ref \in journals, JournalHeld(ref) PROVE JournalHeld(ref)'
    <3>1. CASE ref \in forgetting \cup deleting
      BY <1>1, <3>1 DEF JournalHeld
    <3>2. CASE rows[ref[2]] # None /\ rows[ref[2]].run = ref[1]
      <4>1. ref[2] \in SessionId /\ ref[2] # o.session
        BY <1>3, <3>2 DEF JournalInv, Ref
      <4>2. rows'[ref[2]] = rows[ref[2]]
        BY <1>3, <4>1 DEF RowInv
      <4>3. QED  BY <3>2, <4>2 DEF JournalHeld
    <3>3. QED  BY <2>1, <3>1, <3>2 DEF JournalHeld
  <2>2. QED  BY <1>1, <2>1 DEF JournalInv
<1>4. QED  BY <1>2, <1>3 DEF Reserve

LEMMA JournalInvNext ==
  ASSUME RowInv, JournalInv, [Next]_vars
  PROVE  JournalInv'
<1>1. ASSUME NEW e \in Endpoint, CompanionStep(e) PROVE JournalInv'
  <2>1. CASE journals' = journals
    BY <1>1, <2>1, WritesHeld
       DEF CompanionStep, EndpointConnects, EndpointDrops, Hello, Goodbye, EndpointSays,
           table, calls
  <2>2. ASSUME NEW s \in SessionId, EndpointSays(e, s) PROVE JournalInv'
    <3>1. \A ref \in journals' \ journals : sessions[s] # None /\ ref = <<sessions[s].run, s>>
      BY <2>2 DEF EndpointSays, R!Speaks, R!Live, Journal
    <3>2. /\ restarts' = restarts /\ rows' = rows /\ forgetting' = forgetting
          /\ deleting' = deleting
      BY <2>2 DEF EndpointSays
    <3>3. QED  BY <3>1, <3>2, WritesHeld
  <2>3. QED
    BY <1>1, <2>1, <2>2 DEF CompanionStep, EndpointConnects, EndpointDrops, Hello, Goodbye
<1>2. ASSUME NEW caller \in Owner, NEW s \in SessionId, ClientStep(caller, s) PROVE JournalInv'
  <2>1. CASE ClientConnects(caller, s)
    BY <2>1, WritesHeld DEF ClientConnects, table, calls
  <2>2. CASE ClientSays(caller, s)
    <3>1. \A ref \in journals' \ journals : sessions[s] # None /\ ref = <<sessions[s].run, s>>
      BY <2>2 DEF ClientSays, R!Live, Journal
    <3>2. /\ restarts' = restarts /\ rows' = rows /\ forgetting' = forgetting
          /\ deleting' = deleting
      BY <2>2 DEF ClientSays, table, calls
    <3>3. QED  BY <3>1, <3>2, WritesHeld
  <2>3. CASE OwnerDeletes(caller, s)
    <3>1. /\ Drop({s}) /\ deleting' = deleting \cup {<<rows[s].run, s>>}
          /\ forgetting' = forgetting /\ journals' = journals /\ restarts' = restarts
      BY <2>3 DEF OwnerDeletes
    <3>2. QED  BY <3>1, DropHandsOver
  <2>4. QED  BY <1>2, <2>1, <2>2, <2>3 DEF ClientStep
<1>3. ASSUME NEW o \in Open, OpenArrives(o) PROVE JournalInv'
  BY <1>3, WritesHeld DEF OpenArrives
<1>4. ASSUME NEW s \in SessionId, ClientDrops(s) \/ TimerFires(s) \/ RowAges(s)
      PROVE  JournalInv'
  BY <1>4, WritesHeld DEF ClientDrops, TimerFires, RowAges, table, calls
<1>5. ASSUME NEW o \in opens, OpenStep(o) PROVE JournalInv'
  <2>1. CASE OpenConflicts(o) \/ OpenAccepted(o) \/ OpenRefused(o)
    BY <2>1, WritesHeld DEF OpenConflicts, OpenAccepted, OpenRefused, table
  <2>2. QED  BY <1>5, <2>1, ReserveHeld DEF OpenStep
<1>6. ASSUME NEW k \in releasing, Release(k) PROVE JournalInv'
  <2>1. journals' = journals /\ deleting' = deleting /\ restarts' = restarts
    BY <1>6 DEF Release
  <2>2. CASE UNCHANGED <<table, forgetting>>
    BY <2>1, <2>2, WritesHeld DEF table
  <2>3. CASE /\ Matches(k) /\ Drop({k.session})
             /\ forgetting' = forgetting \cup {<<k.run, k.session>>}
    <3>1. rows[k.session].run = k.run
      BY <2>3 DEF Matches
    <3>2. QED  BY <2>1, <2>3, <3>1, DropHandsOver
  <2>4. QED  BY <1>6, <2>2, <2>3 DEF Release
<1>7. ASSUME NEW ref \in forgetting, Forget(ref) PROVE JournalInv'
  <2>1. /\ rows' = rows /\ restarts' = restarts /\ journals' = journals \ {ref}
        /\ (forgetting \cup deleting) \ {ref} \subseteq forgetting' \cup deleting'
    BY <1>7 DEF Forget, table
  <2>2. QED  BY <2>1, ForgetsOne
<1>8. ASSUME NEW ref \in deleting, DeleteProceeds(ref) PROVE JournalInv'
  <2>1. /\ rows' = rows /\ restarts' = restarts /\ journals' = journals \ {ref}
        /\ (forgetting \cup deleting) \ {ref} \subseteq forgetting' \cup deleting'
    BY <1>8 DEF DeleteProceeds, table
  <2>2. QED  BY <2>1, ForgetsOne
<1>9. ASSUME NEW spared \in sweeps, SweepExpires(spared) PROVE JournalInv'
  <2> DEFINE doomed == {s \in aged : ~\E k \in spared : k.session = s /\ Matches(k)}
  <2>1. journals' = journals /\ deleting' = deleting /\ restarts' = restarts
    BY <1>9 DEF SweepExpires
  <2>2. CASE UNCHANGED <<table, forgetting>>
    BY <2>1, <2>2, WritesHeld DEF table
  <2>3. CASE /\ Drop(doomed)
             /\ forgetting' = forgetting \cup {<<rows[s].run, s>> : s \in doomed}
    <3> HIDE DEF doomed
    <3>1. QED  BY <2>1, <2>3, DropHandsOver
  <2>4. QED  BY <1>9, <2>2, <2>3 DEF SweepExpires
<1>10. CASE SweepBegins
  BY <1>10, WritesHeld DEF SweepBegins, table
<1>11. CASE Restart
  BY <1>11 DEF Restart, JournalInv
<1>12. CASE UNCHANGED vars
  BY <1>12, WritesHeld DEF vars, table, calls
<1>13. QED
  BY <1>1, <1>2, <1>3, <1>4, <1>5, <1>6, <1>7, <1>8, <1>9, <1>10, <1>11, <1>12
     DEF Next, Continuation

\* A journal on disk has a row, or code still to run that removes it, until the
\* process ends for the first time.
THEOREM GatewayJournals ==
  ASSUME ~Reopens, ~EagerDelete
  PROVE  Spec => []JournalReachable
<1>1. Init => JournalInv
  BY DEF Init, JournalInv
<1>2. RowInv /\ [Next]_vars => RowInv'
  BY RowInvNext
<1>3. RowInv /\ JournalInv /\ [Next]_vars => JournalInv'
  BY JournalInvNext
<1>4. JournalInv => JournalReachable
  BY DEF JournalInv, JournalReachable, JournalHeld
<1>5. QED  BY RowInvInit, <1>1, <1>2, <1>3, <1>4, PTL DEF Spec
-----------------------------------------------------------------------------
(* Rows that nobody was served. *)

Accounted(s) ==
    \/ s \in served
    \/ \E o \in opens : o.session = s /\ o.phase = "reserved" /\ Matches(o)
    \/ \E k \in releasing : k.session = s /\ Matches(k)

ServedInv ==
    /\ restarts \in Nat
    /\ restarts = 0 => \A s \in SessionId : rows[s] # None => Accounted(s)

\* What does not touch a row and drops no reason for it.
LEMMA ReasonsStay ==
  ASSUME ServedInv, restarts' = restarts, rows' = rows, served \subseteq served',
         \A o \in opens : o.phase = "reserved" /\ Matches(o) =>
             \/ o \in opens' \/ o.session \in served'
             \/ \E k \in releasing' : k.session = o.session /\ Matches(k),
         \A k \in releasing : Matches(k) => k \in releasing'
  PROVE  ServedInv'
<1>1. ASSUME NEW s \in SessionId, Accounted(s) PROVE Accounted(s)'
  <2>1. \A k : Matches(k)' <=> (rows[k.session] = [run |-> k.run, endpoint |-> k.endpoint])
    BY DEF Matches
  <2>2. CASE s \in served
    BY <2>2 DEF Accounted
  <2>3. ASSUME NEW o \in opens, o.session = s, o.phase = "reserved", Matches(o)
        PROVE  Accounted(s)'
    BY <2>1, <2>3 DEF Accounted, Matches
  <2>4. ASSUME NEW k \in releasing, k.session = s, Matches(k) PROVE Accounted(s)'
    BY <2>1, <2>4 DEF Accounted, Matches
  <2>5. QED  BY <1>1, <2>2, <2>3, <2>4 DEF Accounted
<1>2. QED  BY <1>1 DEF ServedInv

LEMMA DroppedNeedNoReason ==
  ASSUME RowInv, ServedInv, restarts' = restarts, NEW S, Drop(S), opens' = opens,
         \A k \in releasing : k \in releasing' \/ k.session \in S
  PROVE  ServedInv'
<1>1. ASSUME NEW s \in SessionId, rows'[s] # None, Accounted(s) PROVE Accounted(s)'
  <2>1. s \notin S /\ rows'[s] = rows[s] /\ served' = served \ S
    BY <1>1 DEF Drop
  <2>2. ASSUME NEW o \in opens, o.session = s, o.phase = "reserved", Matches(o)
        PROVE  Accounted(s)'
    BY <2>1, <2>2 DEF Accounted, Matches
  <2>3. ASSUME NEW k \in releasing, k.session = s, Matches(k) PROVE Accounted(s)'
    BY <2>1, <2>3 DEF Accounted, Matches
  <2>4. CASE s \in served
    BY <2>1, <2>4 DEF Accounted
  <2>5. QED  BY <1>1, <2>2, <2>3, <2>4 DEF Accounted
<1>2. \A s \in SessionId : rows'[s] # None => rows[s] # None
  BY DEF Drop
<1>3. QED  BY <1>1, <1>2 DEF ServedInv

LEMMA ReserveAccounted ==
  ASSUME RowInv, ServedInv, NEW o \in opens, Reserve(o)
  PROVE  ServedInv'
<1> DEFINE got == [o EXCEPT !.phase = "reserved"]
<1>1. /\ restarts' = restarts /\ served' = served /\ releasing' = releasing
      /\ o.phase = "reserving" /\ o \in Open
  BY DEF Reserve, RowInv
<1>2. CASE rows' = rows
  BY <1>1, <1>2, ReasonsStay DEF Reserve
<1>3. CASE /\ rows' = [rows EXCEPT ![o.session] =
                           [run |-> o.run, endpoint |-> o.endpoint]]
           /\ opens' = (opens \ {o}) \cup {got}
  <2>1. /\ o.session \in SessionId /\ got.session = o.session /\ got.phase = "reserved"
        /\ got.run = o.run /\ got.endpoint = o.endpoint
    BY <1>1 DEF Open
  <2> HIDE DEF got
  <2>2. /\ rows'[o.session] = [run |-> o.run, endpoint |-> o.endpoint]
        /\ \A s \in SessionId \ {o.session} : rows'[s] = rows[s]
    BY <1>3, <2>1 DEF RowInv
  <2>3. Accounted(o.session)'
    BY <1>3, <2>1, <2>2 DEF Accounted, Matches
  <2>4. ASSUME NEW s \in SessionId \ {o.session}, Accounted(s) PROVE Accounted(s)'
    <3>1. ASSUME NEW p \in opens, p.session = s, p.phase = "reserved", Matches(p)
          PROVE  Accounted(s)'
      BY <1>1, <1>3, <2>2, <3>1 DEF Accounted, Matches
    <3>2. ASSUME NEW k \in releasing, k.session = s, Matches(k) PROVE Accounted(s)'
      BY <1>1, <2>2, <3>2 DEF Accounted, Matches
    <3>3. QED  BY <1>1, <2>4, <3>1, <3>2 DEF Accounted
  <2>5. QED  BY <1>1, <2>2, <2>3, <2>4 DEF ServedInv
<1>4. QED  BY <1>2, <1>3 DEF Reserve

\* The companion's refusal hands the row to its deletion.
LEMMA RefusalAccounted ==
  ASSUME RowInv, ServedInv, NEW e \in Endpoint, NEW s \in SessionId,
         R!Speaks(e, s), served' = served \ {s}, releasing' = releasing \cup {KeyOf(s)},
         opens' = opens, rows' = rows, restarts' = restarts
  PROVE  ServedInv'
<1>1. ASSUME rows[s] # None PROVE Accounted(s)'
  <2>1. sessions[s] # None
    BY DEF R!Speaks, R!Live
  <2>2. <<sessions[s].run, s>> \notin deleting
    BY <1>1 DEF RowInv, GoneStaysGone
  <2>3. rows[s] = [run |-> sessions[s].run, endpoint |-> sessions[s].endpoint]
    BY <2>1, <2>2 DEF RowInv, RowsOfLive
  <2>4. /\ KeyOf(s).session = s /\ KeyOf(s).run = sessions[s].run
        /\ KeyOf(s).endpoint = sessions[s].endpoint
    BY DEF KeyOf
  <2>5. PICK k \in releasing' : k.session = s /\ k.run = sessions[s].run
                               /\ k.endpoint = sessions[s].endpoint
    BY <2>4
  <2>6. QED  BY <2>3, <2>5 DEF Accounted, Matches
<1>2. ASSUME NEW t \in SessionId, t # s, Accounted(t) PROVE Accounted(t)'
  <2>1. ASSUME NEW o \in opens, o.session = t, o.phase = "reserved", Matches(o)
        PROVE  Accounted(t)'
    BY <2>1 DEF Accounted, Matches
  <2>2. ASSUME NEW k \in releasing, k.session = t, Matches(k) PROVE Accounted(t)'
    BY <2>2 DEF Accounted, Matches
  <2>3. QED  BY <1>2, <2>1, <2>2 DEF Accounted
<1>3. QED  BY <1>1, <1>2 DEF ServedInv

LEMMA ServedInvNext ==
  ASSUME ~Outages, RowInv, ServedInv, [Next]_vars
  PROVE  ServedInv'
<1>1. ASSUME NEW e \in Endpoint, CompanionStep(e) PROVE ServedInv'
  <2>1. CASE EndpointConnects(e) \/ EndpointDrops(e) \/ Hello(e) \/ Goodbye(e)
    BY <2>1, ReasonsStay DEF EndpointConnects, EndpointDrops, Hello, Goodbye, table, calls
  <2>2. ASSUME NEW s \in SessionId, EndpointSays(e, s) PROVE ServedInv'
    <3>1. CASE UNCHANGED <<served, releasing>>
      BY <2>2, <3>1, ReasonsStay DEF EndpointSays
    <3>2. CASE releasing' = releasing \cup {KeyOf(s)} /\ served' = served \ {s}
      BY <2>2, <3>2, RefusalAccounted DEF EndpointSays
    <3>3. QED  BY <2>2, <3>1, <3>2 DEF EndpointSays
  <2>3. QED  BY <1>1, <2>1, <2>2 DEF CompanionStep
<1>2. ASSUME NEW caller \in Owner, NEW s \in SessionId, ClientStep(caller, s) PROVE ServedInv'
  <2>1. CASE ClientConnects(caller, s) \/ ClientSays(caller, s)
    BY <2>1, ReasonsStay DEF ClientConnects, ClientSays, table, calls
  <2>2. CASE OwnerDeletes(caller, s)
    BY <2>2, DroppedNeedNoReason DEF OwnerDeletes
  <2>3. QED  BY <1>2, <2>1, <2>2 DEF ClientStep
<1>3. ASSUME NEW o \in Open, OpenArrives(o) PROVE ServedInv'
  BY <1>3, ReasonsStay DEF OpenArrives
<1>4. ASSUME NEW s \in SessionId, ClientDrops(s) \/ TimerFires(s) \/ RowAges(s)
      PROVE  ServedInv'
  BY <1>4, ReasonsStay DEF ClientDrops, TimerFires, RowAges, table, calls
<1>5. ASSUME NEW o \in opens, OpenStep(o) PROVE ServedInv'
  <2>1. CASE OpenConflicts(o)
    BY <2>1, ReasonsStay DEF OpenConflicts, table
  <2>2. CASE OpenAccepted(o)
    <3>1. /\ opens' = opens \ {o} /\ releasing' = releasing /\ rows' = rows
          /\ restarts' = restarts
          /\ served' = IF Matches(o) THEN served \cup {o.session} ELSE served
      BY <2>2 DEF OpenAccepted
    <3>2. QED  BY <3>1, ReasonsStay
  <2>3. CASE OpenRefused(o)
    <3>1. PICK k : /\ k.session = o.session /\ k.run = o.run /\ k.endpoint = o.endpoint
                   /\ releasing' = releasing \cup {k}
      BY <2>3 DEF OpenRefused
    <3>2. /\ opens' = opens \ {o} /\ rows' = rows /\ served' = served
          /\ restarts' = restarts
      BY <2>3 DEF OpenRefused, table
    <3>3. Matches(o) => Matches(k)
      BY <3>1 DEF Matches
    <3>4. QED  BY <3>1, <3>2, <3>3, ReasonsStay
  <2>4. QED  BY <1>5, <2>1, <2>2, <2>3, ReserveAccounted DEF OpenStep
<1>6. ASSUME NEW k \in releasing, Release(k) PROVE ServedInv'
  <2>1. opens' = opens /\ releasing' = releasing \ {k} /\ restarts' = restarts
    BY <1>6 DEF Release
  <2>2. CASE ~Matches(k) /\ UNCHANGED table
    BY <2>1, <2>2, ReasonsStay DEF table
  <2>3. CASE Drop({k.session})
    BY <2>1, <2>3, DroppedNeedNoReason
  <2>4. QED  BY <1>6, <2>2, <2>3 DEF Release
<1>7. ASSUME NEW ref \in forgetting, Forget(ref) PROVE ServedInv'
  BY <1>7, ReasonsStay DEF Forget, table
<1>8. ASSUME NEW ref \in deleting, DeleteProceeds(ref) PROVE ServedInv'
  BY <1>8, ReasonsStay DEF DeleteProceeds, table
<1>9. ASSUME NEW spared \in sweeps, SweepExpires(spared) PROVE ServedInv'
  BY <1>9, DroppedNeedNoReason DEF SweepExpires
<1>10. CASE SweepBegins
  BY <1>10, ReasonsStay DEF SweepBegins, table
<1>11. CASE Restart
  BY <1>11 DEF Restart, ServedInv
<1>12. CASE UNCHANGED vars
  BY <1>12, ReasonsStay DEF vars, table, calls
<1>13. QED
  BY <1>1, <1>2, <1>3, <1>4, <1>5, <1>6, <1>7, <1>8, <1>9, <1>10, <1>11, <1>12
     DEF Next, Continuation

\* Only a session that its endpoint kept leaves a row for good: any other row has
\* an open that waits for it or a deletion under way, until the process ends for
\* the first time, and as long as the store answers the deletion.
THEOREM GatewayServed ==
  ASSUME ~Reopens, ~EagerDelete, ~Outages
  PROVE  Spec => []OnlyServedLeaveRows
<1>1. Init => ServedInv
  BY DEF Init, ServedInv
<1>2. RowInv /\ [Next]_vars => RowInv'
  BY RowInvNext
<1>3. RowInv /\ ServedInv /\ [Next]_vars => ServedInv'
  BY ServedInvNext
<1>4. ServedInv => OnlyServedLeaveRows
  BY DEF ServedInv, OnlyServedLeaveRows, Accounted
<1>5. QED  BY RowInvInit, <1>1, <1>2, <1>3, <1>4, PTL DEF Spec

-----------------------------------------------------------------------------
(***************************************************************************)
(* The relay inside the gateway is Relay, so that what RelayProofs proves  *)
(* of its sessions and slots is true of them here.                         *)
(***************************************************************************)

RP == INSTANCE RelayProofs

\* A step of the gateway's own: at most it turns a caller down.
StandsAside == RP!Aside

\* The relay starts over with the process.
StartsOver == R!Init'

DeletesHere == \A ref \in deleting : ref[2] \in SessionId

LEMMA IgnoredAside == R!Ignored => StandsAside
  BY DEF R!Ignored, R!relayState, StandsAside, RP!Aside, RP!relayState

LEMMA DeletesHereNext == DeletesHere /\ [Next]_vars => DeletesHere'
<1> SUFFICES ASSUME DeletesHere, [Next]_vars PROVE DeletesHere'
  OBVIOUS
<1>1. deleting' \subseteq deleting \/ \E s \in SessionId : deleting' = deleting \cup {<<rows[s].run, s>>}
  <2>1. ASSUME NEW e \in Endpoint, CompanionStep(e) PROVE deleting' = deleting
    BY <2>1 DEF CompanionStep, EndpointConnects, EndpointDrops, Hello, Goodbye, EndpointSays, calls
  <2>2. ASSUME NEW caller \in Owner, NEW s \in SessionId, ClientStep(caller, s)
        PROVE  deleting' = deleting \/ deleting' = deleting \cup {<<rows[s].run, s>>}
    BY <2>2 DEF ClientStep, ClientConnects, ClientSays, OwnerDeletes, calls
  <2>3. ASSUME NEW o, OpenArrives(o) \/ OpenStep(o) PROVE deleting' = deleting
    BY <2>3 DEF OpenArrives, OpenStep, Reserve, OpenConflicts, OpenAccepted, OpenRefused
  <2>4. ASSUME NEW s, ClientDrops(s) \/ TimerFires(s) \/ RowAges(s) PROVE deleting' = deleting
    BY <2>4 DEF ClientDrops, TimerFires, RowAges, calls
  <2>5. CASE Continuation
    BY <2>3, <2>5 DEF Continuation, Release, Forget, DeleteProceeds, SweepExpires
  <2>6. CASE SweepBegins \/ Restart \/ UNCHANGED vars
    BY <2>6 DEF SweepBegins, Restart, vars, calls
  <2>7. QED  BY <2>1, <2>2, <2>3, <2>4, <2>5, <2>6 DEF Next
<1>2. QED  BY <1>1 DEF DeletesHere

LEMMA NextUsesRelay ==
  ASSUME opens \subseteq Open, DeletesHere, Next
  PROVE  R!Next \/ StandsAside \/ StartsOver
<1>1. ASSUME NEW e \in Endpoint, CompanionStep(e) PROVE R!Next \/ StandsAside
  <2>1. CASE EndpointConnects(e)
    BY <2>1, IgnoredAside DEF EndpointConnects
  <2>2. CASE EndpointDrops(e)
    BY <2>2, IgnoredAside DEF EndpointDrops, R!Next, R!EndpointStep
  <2>3. CASE Hello(e)
    BY <2>3 DEF Hello, R!Next, R!EndpointStep
  <2>4. CASE Goodbye(e)
    BY <2>4 DEF Goodbye, R!Next, R!EndpointStep
  <2>5. ASSUME NEW s \in SessionId, EndpointSays(e, s) PROVE R!Next
    BY <2>5 DEF EndpointSays, R!Next, R!EndpointStep, R!EndpointAck
  <2>6. QED  BY <1>1, <2>1, <2>2, <2>3, <2>4, <2>5 DEF CompanionStep
<1>2. ASSUME NEW caller \in Owner, NEW s \in SessionId, ClientStep(caller, s)
      PROVE  R!Next \/ StandsAside
  BY <1>2, IgnoredAside
     DEF ClientStep, ClientConnects, ClientSays, OwnerDeletes, R!Next, R!ClientStep
<1>3. ASSUME NEW o \in Open, OpenArrives(o) \/ OpenStep(o) PROVE R!Next \/ StandsAside
  <2>1. /\ o.session \in SessionId /\ o.endpoint \in Endpoint /\ o.run \in RunId
        /\ o.agent \in Agent /\ o.caller \in Owner
    BY DEF Open
  <2>2. CASE OpenArrives(o) \/ OpenConflicts(o)
    BY <2>1, <2>2 DEF OpenArrives, OpenConflicts, RefuseToSender, StandsAside,
       relayState, RP!Aside, RP!relayState, R!ToClient, RP!ToClient
  <2>3. CASE Reserve(o)
    BY <2>3, IgnoredAside DEF Reserve
  <2>4. CASE OpenAccepted(o) \/ OpenRefused(o)
    <3>1. R!OpenSession(o.endpoint, o.session, o.run, o.agent, o.caller)
      BY <2>4 DEF OpenAccepted, OpenRefused, R!OpenSession
    <3>2. QED  BY <2>1, <3>1 DEF R!Next, R!ClientStep
  <2>5. QED  BY <1>3, <2>2, <2>3, <2>4 DEF OpenStep
<1>4. ASSUME NEW s \in SessionId, ClientDrops(s) \/ TimerFires(s) \/ RowAges(s)
      PROVE  R!Next \/ StandsAside
  BY <1>4, IgnoredAside DEF ClientDrops, TimerFires, RowAges, R!Next, R!ClientStep
<1>5. CASE Continuation
  <2>1. ASSUME NEW ref \in deleting, DeleteProceeds(ref) PROVE R!Next
    <3>1. ref[2] \in SessionId /\ R!CloseSession(ref[2])
      BY <2>1 DEF DeleteProceeds, DeletesHere
    <3>2. QED  BY <3>1 DEF R!Next, R!ClientStep
  <2>2. QED
    BY <1>3, <1>5, <2>1, IgnoredAside DEF Continuation, Release, Forget, SweepExpires
<1>6. CASE SweepBegins
  BY <1>6, IgnoredAside DEF SweepBegins
<1>7. CASE Restart
  BY <1>7 DEF Restart, StartsOver, R!Init
<1>8. QED  BY <1>1, <1>2, <1>3, <1>4, <1>5, <1>6, <1>7 DEF Next

\* server.ts makes of relay.ts only what relay.ts is for: each of its steps is one of
\* the relay's, with an id, an endpoint and a caller that it may be given, or leaves the
\* relay alone and turns at most a caller down, or starts the process anew.
THEOREM GatewayUsesRelay ==
    Spec => R!Init /\ [][R!Next \/ StandsAside \/ StartsOver]_R!vars
<1>1. Init => R!Init /\ DeletesHere
  BY DEF Init, DeletesHere
<1>2. LegInv /\ DeletesHere /\ [Next]_vars => [R!Next \/ StandsAside \/ StartsOver]_R!vars
  BY NextUsesRelay DEF LegInv, vars, relayState, R!vars
<1>3. QED
  BY <1>1, <1>2, LegInvInit, LegInvNext, DeletesHereNext, PTL DEF Spec

\* The relay that is used here and the one that is proved about are one.
LEMMA SameRelay ==
  /\ R!RelayAssumption <=> RP!RelayAssumption
  /\ R!Init <=> RP!Init
  /\ R!Init' <=> RP!Init'
  /\ R!vars = RP!vars /\ R!vars' = RP!vars'
  /\ R!Next <=> RP!Next
<1>1. R!RelayAssumption <=> RP!RelayAssumption
  BY DEF R!RelayAssumption, RP!RelayAssumption, R!Attachment, RP!Attachment, R!Session,
         RP!Session, R!Leg, RP!Leg, R!IsFiniteSet, RP!IsFiniteSet
<1>2. (R!Init <=> RP!Init) /\ (R!Init' <=> RP!Init')
      /\ R!vars = RP!vars /\ R!vars' = RP!vars'
  BY DEF R!Init, RP!Init, R!vars, RP!vars
<1>3. \A e \in Endpoint : R!EndpointStep(e) <=> RP!EndpointStep(e)
  BY DEF R!EndpointStep, RP!EndpointStep, R!AttachEndpoint, RP!AttachEndpoint, R!SayGoodbye,
         RP!SayGoodbye, R!DetachEndpoint, RP!DetachEndpoint, R!EndpointAck, RP!EndpointAck,
         R!AckOpened, RP!AckOpened, R!AckRefused, RP!AckRefused, R!EndpointLine,
         RP!EndpointLine, R!EndpointClose, RP!EndpointClose, R!Speaks, RP!Speaks, R!Ignored,
         RP!Ignored, R!Held, RP!Held, R!Arm, RP!Arm, R!Disarm, RP!Disarm, R!relayState,
         RP!relayState, R!Fail, RP!Fail, R!Ended, RP!Ended, R!Freed, RP!Freed, R!CloseLines,
         RP!CloseLines, R!On, RP!On, R!Live, RP!Live, R!Attached, RP!Attached, R!ToClient,
         RP!ToClient, R!ToEndpoint, RP!ToEndpoint
<1>4. \A s \in SessionId : R!ClientStep(s) <=> RP!ClientStep(s)
  BY DEF R!ClientStep, RP!ClientStep, R!OpenSession, RP!OpenSession, R!RefuseOpen,
         RP!RefuseOpen, R!AcceptOpen, RP!AcceptOpen, R!Accepts, RP!Accepts, R!DetachClient,
         RP!DetachClient, R!AttachClient, RP!AttachClient, R!ClientLine, RP!ClientLine,
         R!CloseSession, RP!CloseSession, R!Ignored, RP!Ignored, R!Arm, RP!Arm, R!Disarm,
         RP!Disarm, R!relayState, RP!relayState, R!Cardinality, RP!Cardinality, R!Fail,
         RP!Fail, R!Ended, RP!Ended, R!Freed, RP!Freed, R!CloseLines, RP!CloseLines, R!On,
         RP!On, R!Live, RP!Live, R!Attached, RP!Attached, R!ToClient, RP!ToClient,
         R!ToEndpoint, RP!ToEndpoint
<1>5. \A s, leg : /\ R!TimerFires(s, leg) <=> RP!TimerFires(s, leg)
                  /\ R!StrayFires(s, leg) <=> RP!StrayFires(s, leg)
  BY DEF R!TimerFires, RP!TimerFires, R!StrayFires, RP!StrayFires, R!Fail, RP!Fail, R!Ended,
         RP!Ended, R!Freed, RP!Freed, R!CloseLines, RP!CloseLines, R!On, RP!On, R!Live,
         RP!Live, R!Attached, RP!Attached, R!ToClient, RP!ToClient, R!ToEndpoint,
         RP!ToEndpoint
<1>6. R!Next <=> RP!Next
  BY <1>3, <1>4, <1>5 DEF R!Next, RP!Next, R!Leg, RP!Leg
<1>7. QED  BY <1>1, <1>2, <1>6

LEMMA SameInvariant ==
  RP!IInv => /\ R!TypeOK /\ R!SlotAccounting /\ R!ResumeTimerIffOffline
             /\ R!SameTenant /\ R!QuitIsOwn
  BY DEF RP!IInv, R!TypeOK, RP!TypeOK, R!SlotAccounting, RP!SlotAccounting,
         R!ResumeTimerIffOffline, RP!ResumeTimerIffOffline, R!SameTenant, RP!SameTenant,
         R!QuitIsOwn, RP!QuitIsOwn, R!Attachment, RP!Attachment, R!Session, RP!Session,
         R!Leg, RP!Leg, R!Held, RP!Held, R!On, RP!On, R!Live, RP!Live, R!Attached,
         RP!Attached

LEMMA SameCapacity == RP!WithinCapacity <=> R!WithinCapacity
  BY DEF R!WithinCapacity, RP!WithinCapacity, R!On, RP!On, R!Live, RP!Live, R!Cardinality,
         RP!Cardinality

LEMMA SameBroker ==
  /\ R!Promise!Init <=> RP!Promise!Init
  /\ R!Promise!Init' <=> RP!Promise!Init'
  /\ R!Promise!vars = RP!Promise!vars /\ R!Promise!vars' = RP!Promise!vars'
  /\ R!Promise!Next <=> RP!Promise!Next
  BY DEF R!Promise!Init, RP!Promise!Init, R!Promise!vars, RP!Promise!vars, R!Promise!Next,
         RP!Promise!Next, R!Promise!Quiet, RP!Promise!Quiet, R!Promise!TurnAway,
         RP!Promise!TurnAway, R!Promise!Carry, RP!Promise!Carry, R!Promise!Accept,
         RP!Promise!Accept, R!Promise!Finish, RP!Promise!Finish, R!Promise!ToClient,
         RP!Promise!ToClient, R!Promise!ToEndpoint, RP!Promise!ToEndpoint,
         R!Promise!Pairing, RP!Promise!Pairing, R!Pair, RP!Pair

\* The gateway is one that uses the relay as RelayInUse has it.
LEMMA GatewayUsed == Spec => RP!UsedSpec
<1>1. R!Init => RP!Init
  BY SameRelay
<1>2. [R!Next \/ StandsAside \/ StartsOver]_R!vars => [RP!Next \/ RP!Aside \/ RP!Init']_RP!vars
  BY SameRelay, Zenon DEF StandsAside, StartsOver
<1>3. QED  BY <1>1, <1>2, GatewayUsesRelay, PTL DEF RP!UsedSpec

LEMMA RelayServes ==
  RP!UsedSpec => /\ []RP!IInv
                 /\ RP!NeverOverbooked
                 /\ RP!Promise!SpecWithRestarts
<1>1. RP!RelayAssumption
  BY SameRelay, GatewayAssumption DEF GatewayAssumption
<1>2. QED  BY <1>1, RP!RelayInUse, PTL

\* relay.ts behind server.ts, through every route, query, drop and restart: its slots,
\* timers, tenants and limits are what they are by itself.
THEOREM GatewayRelay ==
    Spec => /\ [](/\ R!TypeOK /\ R!SlotAccounting /\ R!ResumeTimerIffOffline
                  /\ R!SameTenant /\ R!QuitIsOwn)
            /\ R!NeverOverbooked
<1>1. [RP!WithinCapacity]_RP!vars => [R!WithinCapacity]_R!vars
  BY SameRelay, SameCapacity, Zenon
<1>2. QED
  BY <1>1, GatewayUsed, RelayServes, SameInvariant, PTL
     DEF RP!NeverOverbooked, R!NeverOverbooked

\* Clients and companions of the gateway see a broker that may start over: an id joins
\* one pair of one owner from accept to end, no end but a restart goes untold to its
\* client, and no line reaches a third party.
THEOREM GatewayImplementsBroker == Spec => R!Promise!SpecWithRestarts
<1>1. /\ RP!Promise!Init => R!Promise!Init
      /\ [RP!Promise!Next \/ RP!Promise!Init']_(RP!Promise!vars)
            => [R!Promise!Next \/ R!Promise!Init']_(R!Promise!vars)
  BY SameBroker, Zenon
<1>2. QED
  BY <1>1, GatewayUsed, RelayServes, PTL
     DEF R!Promise!SpecWithRestarts, RP!Promise!SpecWithRestarts
=============================================================================
