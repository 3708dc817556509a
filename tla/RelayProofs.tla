---------------------------- MODULE RelayProofs -----------------------------
(***************************************************************************)
(* What TLAPS proves of Relay, for every set of endpoints, sessions and    *)
(* owners and every bound.                                                 *)
(*                                                                         *)
(* The inductive invariant is the conjunction of the module's invariants:  *)
(* slots and sessions agree only because failSession and a refusal drop    *)
(* both, and a session waits for its endpoint exactly while it is away     *)
(* only because both maps name the same sessions.                          *)
(***************************************************************************)
EXTENDS Relay, TLAPS, FiniteSetTheorems

IInv == TypeOK /\ SlotAccounting /\ ResumeTimerIffOffline /\ SameTenant /\ QuitIsOwn

\* None is neither an attachment nor a session, so the two maps tell present
\* from absent.
LEMMA NoneIsNothing == None \notin Attachment /\ None \notin Session
  BY RelayAssumption DEF RelayAssumption

\* The relay starts with nothing attached and nothing live.
LEMMA InitIInv == Init => IInv
  BY RelayAssumption DEF RelayAssumption, Init, IInv, TypeOK, SlotAccounting,
     ResumeTimerIffOffline, SameTenant, QuitIsOwn, Live, On, Held, Attached

\* Ending sessions takes them off both maps and touches nothing else, whichever
\* method does it.
LEMMA EndingKeepsIInv ==
  ASSUME IInv, NEW S \in SUBSET SessionId,
         sessions' = Ended(S), endpoints' = Freed(S),
         attachments' = attachments, farewells' = farewells,
         stray' \subseteq SessionId \X Leg
  PROVE  IInv'
<1> USE NoneIsNothing
<1>1. \A s \in SessionId : sessions'[s] = IF s \in S THEN None ELSE sessions[s]
  BY DEF Ended
<1>2. Live' = Live \ S
  BY <1>1 DEF Live
<1>3. \A e \in Endpoint : endpoints[e] = None => endpoints'[e] = None
  BY DEF Freed, Attached
<1>4. \A e \in Attached :
        /\ endpoints[e] \in Attachment
        /\ endpoints'[e] = [endpoints[e] EXCEPT !.sessions = @ \ (S \cap On(e))]
        /\ endpoints'[e] \in Attachment
        /\ endpoints'[e].sessions = endpoints[e].sessions \ (S \cap On(e))
        /\ endpoints'[e].online = endpoints[e].online
        /\ endpoints'[e].owner = endpoints[e].owner
        /\ endpoints'[e].quit = endpoints[e].quit
        /\ endpoints'[e].generation = endpoints[e].generation
  BY DEF IInv, TypeOK, Freed, Attached, Attachment
<1>5. Attached' = Attached
  BY <1>3, <1>4 DEF Attached
<1>6. TypeOK'
  <2>1. endpoints' \in [Endpoint -> Attachment \cup {None}]
    BY <1>3, <1>4 DEF Freed, Attached
  <2>2. sessions' \in [SessionId -> Session \cup {None}]
    BY DEF IInv, TypeOK, Ended
  <2>3. QED  BY <2>1, <2>2 DEF IInv, TypeOK
<1>7. \A e \in Endpoint : On(e)' = On(e) \ S
  BY <1>1, <1>2 DEF On, Live
<1>8. SlotAccounting'
  <2>1. ASSUME NEW e \in Endpoint PROVE Held(e)' = On(e)'
    <3>1. CASE e \in Attached
      <4>1. endpoints[e] # None /\ endpoints'[e] # None
        BY <3>1, <1>4 DEF Attached
      <4>2. endpoints[e].sessions = On(e)
        BY <4>1 DEF Held, IInv, SlotAccounting
      <4>3. endpoints'[e].sessions = On(e) \ S
        BY <3>1, <1>4, <4>2
      <4>4. QED  BY <4>1, <4>3, <1>7 DEF Held
    <3>2. CASE e \notin Attached
      BY <3>2, <1>3, <1>7 DEF Held, Attached, IInv, SlotAccounting
    <3>3. QED  BY <3>1, <3>2
  <2>2. \A s \in Live' : sessions'[s].endpoint \in Attached'
    BY <1>1, <1>2, <1>5 DEF IInv, SlotAccounting, Live
  <2>3. QED  BY <2>1, <2>2 DEF SlotAccounting
<1>9. \A s \in Live' : /\ s \in Live /\ sessions'[s] = sessions[s]
                       /\ sessions[s].endpoint \in Attached
  BY <1>1, <1>2 DEF IInv, SlotAccounting, Live
<1>10. ResumeTimerIffOffline'
  BY <1>4, <1>9 DEF IInv, ResumeTimerIffOffline
<1>11. SameTenant'
  <2>1. \A e \in Attached' : endpoints'[e].owner = OwnerOf[e]
    BY <1>4, <1>5 DEF IInv, SameTenant
  <2>2. ASSUME NEW s \in Live'
        PROVE  sessions'[s].owner = endpoints'[sessions'[s].endpoint].owner
    <3>1. sessions[s].owner = endpoints[sessions[s].endpoint].owner
      BY <1>9 DEF IInv, SameTenant
    <3>2. sessions'[s] = sessions[s] /\ sessions[s].endpoint \in Attached
      BY <1>9
    <3>3. endpoints'[sessions[s].endpoint].owner = endpoints[sessions[s].endpoint].owner
      BY <3>2, <1>4
    <3>4. sessions'[s].endpoint = sessions[s].endpoint /\ sessions'[s].owner = sessions[s].owner
      BY <3>2
    <3>5. QED  BY <3>1, <3>3, <3>4
  <2>3. QED  BY <2>1, <2>2 DEF SameTenant
<1>12. QuitIsOwn'
  BY <1>4, <1>5 DEF IInv, QuitIsOwn
<1>13. QED  BY <1>6, <1>8, <1>10, <1>11, <1>12 DEF IInv

\* Setting or clearing timers leaves who is live, and where, as it was.
LEMMA TimersOnly ==
  ASSUME TypeOK, NEW S \in SUBSET SessionId, NEW leg \in Leg,
         sessions' = Arm(S, leg) \/ sessions' = Disarm(S, leg)
  PROVE  /\ sessions' \in [SessionId -> Session \cup {None}]
         /\ Live' = Live
         /\ \A s \in Live : /\ sessions'[s].endpoint = sessions[s].endpoint
                            /\ sessions'[s].owner = sessions[s].owner
                            /\ sessions'[s].run = sessions[s].run
                            /\ s \notin S => sessions'[s] = sessions[s]
                            /\ \A l \in Leg \ {leg} :
                                 l \in sessions'[s].timers <=> l \in sessions[s].timers
         /\ sessions' = Arm(S, leg) => \A s \in Live \cap S : leg \in sessions'[s].timers
         /\ sessions' = Disarm(S, leg) => \A s \in Live \cap S : leg \notin sessions'[s].timers
         /\ \A e \in Endpoint : On(e)' = On(e)
<1> USE NoneIsNothing
<1>1. \A s \in SessionId \ Live : sessions[s] = None /\ sessions'[s] = None
  BY DEF Arm, Disarm, Live
<1>2. \A s \in Live : sessions[s] \in Session
  BY DEF TypeOK, Live
<1>3. \A s \in Live :
        sessions'[s] = IF s \in S
                         THEN [sessions[s] EXCEPT !.timers =
                                 IF sessions' = Arm(S, leg) THEN @ \cup {leg} ELSE @ \ {leg}]
                         ELSE sessions[s]
  BY DEF Arm, Disarm, Live
<1>4. \A s \in Live : sessions'[s] \in Session
  <2> SUFFICES ASSUME NEW s \in Live PROVE sessions'[s] \in Session
    OBVIOUS
  <2>1. \A T \in SUBSET Leg : [sessions[s] EXCEPT !.timers = T] \in Session
    BY <1>2 DEF Session
  <2>2. sessions[s].timers \in SUBSET Leg
    BY <1>2 DEF Session
  <2>3. CASE s \in S
    <3>1. CASE sessions' = Arm(S, leg)
      BY <2>1, <2>2, <2>3, <3>1, <1>3
    <3>2. CASE sessions' # Arm(S, leg)
      BY <2>1, <2>2, <2>3, <3>2, <1>3
    <3>3. QED  BY <3>1, <3>2
  <2>4. CASE s \notin S
    BY <2>4, <1>2, <1>3
  <2>5. QED  BY <2>3, <2>4
<1>5. Live' = Live
  BY <1>1, <1>4 DEF Live
<1>6. sessions' \in [SessionId -> Session \cup {None}]
  <2>1. \A s \in SessionId : sessions'[s] \in Session \cup {None}
    BY <1>1, <1>4
  <2>2. sessions' = [s \in SessionId |-> sessions'[s]]
    BY DEF Arm, Disarm
  <2>3. QED  BY <2>1, <2>2
<1>7. \A s \in Live : /\ sessions'[s].endpoint = sessions[s].endpoint
                      /\ sessions'[s].owner = sessions[s].owner
                      /\ sessions'[s].run = sessions[s].run
                      /\ s \notin S => sessions'[s] = sessions[s]
                      /\ s \in S => sessions'[s].timers =
                           IF sessions' = Arm(S, leg) THEN sessions[s].timers \cup {leg}
                           ELSE sessions[s].timers \ {leg}
  BY <1>2, <1>3 DEF Session
<1>8. \A e \in Endpoint : On(e)' = On(e)
  BY <1>5, <1>7 DEF On
<1>9. sessions' = Arm(S, leg) => \A s \in Live \cap S : leg \in sessions'[s].timers
  BY <1>7
<1>10. sessions' = Disarm(S, leg) => \A s \in Live \cap S : leg \notin sessions'[s].timers
  <2> SUFFICES ASSUME sessions' = Disarm(S, leg), NEW s \in Live \cap S
               PROVE  leg \notin sessions'[s].timers
    OBVIOUS
  <2>1. sessions'[s] = [sessions[s] EXCEPT !.timers = @ \ {leg}]
    BY DEF Disarm, Live
  <2>2. QED  BY <2>1, <1>2 DEF Session
<1>11. \A s \in Live : \A l \in Leg \ {leg} :
          l \in sessions'[s].timers <=> l \in sessions[s].timers
  BY <1>7
<1>12. QED  BY <1>5, <1>6, <1>7, <1>8, <1>9, <1>10, <1>11

\* A hello: what is dropped ends, what is carried stops waiting, and the new
\* attachment lists exactly what is carried.
LEMMA AttachKeepsIInv ==
  ASSUME IInv, NEW e \in Endpoint, NEW declared \in SUBSET SessionId,
         NEW max \in 1..MaxSlots, NEW agents \in Offers,
         AttachEndpoint(e, declared, max, agents)
  PROVE  IInv'
<1> USE NoneIsNothing
<1> DEFINE dropped == Held(e) \ declared
           carried == Held(e) \cap declared
           fresh == [owner |-> OwnerOf[e], sessions |-> carried, online |-> TRUE,
                     quit |-> FALSE, generation |-> attachments + 1,
                     maxSessions |-> max, agents |-> agents]
<1>1. /\ attachments < MaxAttachments /\ attachments' = attachments + 1
      /\ stray' = stray /\ farewells' = farewells
      /\ sessions' = [s \in SessionId |->
             IF s \in dropped THEN None ELSE Disarm(carried, "endpointResume")[s]]
      /\ endpoints' = [Freed(dropped) EXCEPT ![e] = fresh]
  BY DEF AttachEndpoint
<1>2. Held(e) = On(e) /\ Held(e) \subseteq Live
  BY DEF IInv, SlotAccounting, On
<1> HIDE DEF dropped, carried, fresh
<1>3. dropped \subseteq On(e) /\ carried = On(e) \ dropped /\ carried \subseteq Live
  BY <1>2 DEF dropped, carried
<1>4. attachments \in Nat /\ MaxAttachments \in Nat /\ attachments' \in 0..MaxAttachments
  BY <1>1, RelayAssumption DEF RelayAssumption, IInv, TypeOK
<1>5. /\ fresh \in Attachment
      /\ fresh.sessions = carried /\ fresh.online /\ fresh.owner = OwnerOf[e]
      /\ ~fresh.quit
  BY <1>4, <1>3, RelayAssumption DEF fresh, Attachment, RelayAssumption, Live
<1>6. \A f \in Endpoint : endpoints'[f] = IF f = e THEN fresh ELSE Freed(dropped)[f]
  BY <1>1 DEF Freed
<1>7. \A f \in Endpoint \ {e} : endpoints'[f] = endpoints[f]
  <2> SUFFICES ASSUME NEW f \in Endpoint \ {e} PROVE endpoints'[f] = endpoints[f]
    OBVIOUS
  <2>1. dropped \cap On(f) = {}
    BY <1>3 DEF On
  <2>2. CASE f \in Attached
    <3>1. endpoints[f] \in Attachment
      BY <2>2 DEF Attached, IInv, TypeOK
    <3>2. endpoints'[f] = [endpoints[f] EXCEPT !.sessions = @ \ (dropped \cap On(f))]
      BY <2>2, <1>6 DEF Freed
    <3>3. QED  BY <2>1, <3>1, <3>2 DEF Attachment
  <2>3. CASE f \notin Attached
    BY <2>3, <1>6 DEF Freed, Attached
  <2>4. QED  BY <2>2, <2>3
<1>8. /\ Attached' = Attached \cup {e}
      /\ endpoints' \in [Endpoint -> Attachment \cup {None}]
  <2>1. \A f \in Endpoint : endpoints'[f] \in Attachment \cup {None}
    BY <1>5, <1>6, <1>7 DEF IInv, TypeOK
  <2>2. endpoints' = [f \in Endpoint |-> endpoints'[f]]
    BY <1>1 DEF Freed
  <2>3. Attached' = Attached \cup {e}
    BY <1>5, <1>6, <1>7 DEF Attached
  <2>4. QED  BY <2>1, <2>2, <2>3
<1>9. \A s \in Live : sessions[s] \in Session
  BY DEF Live, IInv, TypeOK
<1>10. \A s \in SessionId :
         sessions'[s] = IF s \in dropped THEN None
                        ELSE IF s \in carried
                          THEN [sessions[s] EXCEPT !.timers = @ \ {"endpointResume"}]
                          ELSE sessions[s]
  BY <1>1, <1>3 DEF Disarm
<1>11. Live' = Live \ dropped
  <2>1. \A s \in carried : [sessions[s] EXCEPT !.timers = @ \ {"endpointResume"}] \in Session
    BY <1>3, <1>9 DEF Session
  <2>2. \A s \in SessionId : sessions'[s] # None <=> s \in Live \ dropped
    BY <2>1, <1>3, <1>10 DEF Live
  <2>3. QED  BY <2>2 DEF Live
<1>12. \A s \in Live' : /\ sessions'[s] \in Session
                        /\ sessions'[s].endpoint = sessions[s].endpoint
                        /\ sessions'[s].owner = sessions[s].owner
                        /\ s \in carried => "endpointResume" \notin sessions'[s].timers
                        /\ s \notin carried => sessions'[s] = sessions[s]
  <2> SUFFICES ASSUME NEW s \in Live'
               PROVE  /\ sessions'[s] \in Session
                      /\ sessions'[s].endpoint = sessions[s].endpoint
                      /\ sessions'[s].owner = sessions[s].owner
                      /\ s \in carried => "endpointResume" \notin sessions'[s].timers
                      /\ s \notin carried => sessions'[s] = sessions[s]
    OBVIOUS
  <2>1. s \in Live /\ s \notin dropped /\ sessions[s] \in Session
    BY <1>9, <1>11
  <2>2. CASE s \in carried
    BY <2>1, <2>2, <1>10 DEF Session, Live
  <2>3. CASE s \notin carried
    BY <2>1, <2>3, <1>10 DEF Live
  <2>4. QED  BY <2>2, <2>3
<1>13. TypeOK'
  <2>1. \A s \in SessionId : sessions'[s] \in Session \cup {None}
    BY <1>12 DEF Live
  <2>2. sessions' \in [SessionId -> Session \cup {None}]
    BY <2>1, <1>1
  <2>3. farewells' \subseteq 1..attachments'
    BY <1>1, <1>4 DEF IInv, TypeOK
  <2>4. QED  BY <2>2, <2>3, <1>1, <1>4, <1>8 DEF IInv, TypeOK
<1>14. \A f \in Endpoint : On(f)' = On(f) \ dropped
  BY <1>11, <1>12 DEF On, Live
<1>15. SlotAccounting'
  <2>1. ASSUME NEW f \in Endpoint \ {e} PROVE Held(f)' = On(f)'
    <3>1. On(f)' = On(f)
      BY <1>14, <1>3 DEF On
    <3>2. QED  BY <3>1, <1>7 DEF Held, IInv, SlotAccounting
  <2>2. Held(e)' = On(e)'
    BY <1>3, <1>5, <1>6, <1>14 DEF Held
  <2>3. \A s \in Live' : sessions'[s].endpoint \in Attached'
    BY <1>8, <1>11, <1>12 DEF IInv, SlotAccounting
  <2>4. QED  BY <2>1, <2>2, <2>3 DEF SlotAccounting
<1>16. \A s \in Live' : /\ s \in Live
                        /\ s \in carried <=> sessions[s].endpoint = e
                        /\ sessions[s].endpoint \in Endpoint
  BY <1>3, <1>9, <1>11 DEF On, Session
<1>17. ResumeTimerIffOffline'
  <2> SUFFICES ASSUME NEW s \in Live'
               PROVE  "endpointResume" \in sessions'[s].timers
                        <=> ~endpoints'[sessions'[s].endpoint].online
    BY DEF ResumeTimerIffOffline
  <2>1. CASE s \in carried
    BY <2>1, <1>5, <1>6, <1>12, <1>16
  <2>2. CASE s \notin carried
    BY <2>2, <1>7, <1>12, <1>16 DEF IInv, ResumeTimerIffOffline
  <2>3. QED  BY <2>1, <2>2
<1>18. SameTenant'
  <2>1. \A f \in Attached' : endpoints'[f].owner = OwnerOf[f]
    BY <1>5, <1>6, <1>7, <1>8 DEF IInv, SameTenant, Attached
  <2>2. ASSUME NEW s \in Live'
        PROVE  sessions'[s].owner = endpoints'[sessions'[s].endpoint].owner
    <3>1. /\ s \in Live /\ sessions[s].endpoint \in Attached
          /\ sessions'[s].owner = sessions[s].owner
          /\ sessions'[s].endpoint = sessions[s].endpoint
      BY <1>12, <1>16 DEF IInv, SlotAccounting
    <3>2. sessions[s].owner = OwnerOf[sessions[s].endpoint]
      BY <3>1 DEF IInv, SameTenant
    <3>3. QED  BY <3>1, <3>2, <2>1, <1>8
  <2>3. QED  BY <2>1, <2>2 DEF SameTenant
<1>19. QuitIsOwn'
  BY <1>1, <1>5, <1>6, <1>7, <1>8 DEF IInv, QuitIsOwn, Attached
<1>20. QED  BY <1>13, <1>15, <1>17, <1>18, <1>19 DEF IInv

\* A goodbye marks the attachment it speaks for, after its generation is on record.
LEMMA GoodbyeKeepsIInv ==
  ASSUME IInv, NEW e \in Endpoint, NEW g \in 1..attachments, SayGoodbye(e, g)
  PROVE  IInv'
<1> USE NoneIsNothing
<1>1. /\ e \in Attached /\ endpoints[e] \in Attachment
      /\ farewells' = farewells \cup {g}
      /\ sessions' = sessions /\ attachments' = attachments /\ stray' = stray
  BY DEF SayGoodbye, IInv, TypeOK, Attached
<1>2. \A f \in Attached : /\ endpoints'[f] \in Attachment
                          /\ endpoints'[f].sessions = endpoints[f].sessions
                          /\ endpoints'[f].online = endpoints[f].online
                          /\ endpoints'[f].owner = endpoints[f].owner
                          /\ endpoints'[f].generation = endpoints[f].generation
                          /\ endpoints'[f].quit => endpoints[f].quit \/ endpoints[f].generation = g
  <2>1. \A f \in Attached : endpoints[f] \in Attachment
    BY DEF Attached, IInv, TypeOK
  <2>2. CASE endpoints[e].generation = g
    <3>1. endpoints' = [endpoints EXCEPT ![e].quit = TRUE]
      BY <2>2 DEF SayGoodbye
    <3>2. \A f \in Attached : endpoints'[f] =
            IF f = e THEN [endpoints[e] EXCEPT !.quit = TRUE] ELSE endpoints[f]
      BY <3>1 DEF Attached, IInv, TypeOK
    <3>3. ASSUME NEW f \in Attached
          PROVE  /\ endpoints'[f] \in Attachment
                 /\ endpoints'[f].sessions = endpoints[f].sessions
                 /\ endpoints'[f].online = endpoints[f].online
                 /\ endpoints'[f].owner = endpoints[f].owner
                 /\ endpoints'[f].generation = endpoints[f].generation
                 /\ endpoints'[f].quit => endpoints[f].quit \/ endpoints[f].generation = g
      <4>1. CASE f = e
        <5>1. /\ endpoints[f] \in Attachment
              /\ endpoints'[f] = [endpoints[f] EXCEPT !.quit = TRUE]
          BY <4>1, <2>1, <3>2
        <5>2. QED  BY <4>1, <2>2, <5>1 DEF Attachment
      <4>2. CASE f # e
        BY <4>2, <2>1, <3>2
      <4>3. QED  BY <4>1, <4>2
    <3>4. QED  BY <3>3
  <2>3. CASE endpoints[e].generation # g
    BY <2>1, <2>3 DEF SayGoodbye
  <2>4. QED  BY <2>2, <2>3
<1>3. \A f \in Endpoint : endpoints[f] = None <=> endpoints'[f] = None
  BY <1>1, <1>2 DEF SayGoodbye, IInv, TypeOK, Attached
<1>4. Attached' = Attached /\ Live' = Live
  BY <1>1, <1>3 DEF Attached, Live
<1>5. TypeOK'
  <2>1. endpoints' \in [Endpoint -> Attachment \cup {None}]
    BY <1>2, <1>3 DEF SayGoodbye, IInv, TypeOK, Attached
  <2>2. QED  BY <2>1, <1>1 DEF IInv, TypeOK
<1>6. \A f \in Endpoint : On(f)' = On(f) /\ Held(f)' = Held(f)
  BY <1>1, <1>2, <1>3, <1>4 DEF On, Held, Attached
<1>7. SlotAccounting'
  BY <1>1, <1>4, <1>6 DEF IInv, SlotAccounting
<1>8. \A s \in Live : sessions[s].endpoint \in Attached
  BY DEF IInv, SlotAccounting
<1>9. ResumeTimerIffOffline' /\ SameTenant'
  BY <1>1, <1>2, <1>4, <1>8 DEF IInv, ResumeTimerIffOffline, SameTenant
<1>10. QuitIsOwn'
  BY <1>1, <1>2, <1>4 DEF IInv, QuitIsOwn
<1>11. QED  BY <1>5, <1>7, <1>9, <1>10 DEF IInv

\* An endpoint goes away: every session it holds starts waiting for it.
LEMMA DetachKeepsIInv ==
  ASSUME IInv, NEW e \in Endpoint, DetachEndpoint(e)
  PROVE  IInv'
<1> USE NoneIsNothing
<1>1. /\ e \in Attached
      /\ endpoints' = [endpoints EXCEPT ![e].online = FALSE]
      /\ sessions' = Arm(Held(e), "endpointResume")
      /\ attachments' = attachments /\ stray' = stray /\ farewells' = farewells
  BY DEF DetachEndpoint
<1>2. Held(e) = On(e) /\ On(e) \subseteq SessionId /\ "endpointResume" \in Leg
  BY DEF IInv, SlotAccounting, On, Live, Leg
<1>3. /\ sessions' \in [SessionId -> Session \cup {None}] /\ Live' = Live
      /\ \A s \in Live : /\ sessions'[s].endpoint = sessions[s].endpoint
                         /\ sessions'[s].owner = sessions[s].owner
                         /\ s \notin On(e) => sessions'[s] = sessions[s]
      /\ \A s \in Live \cap On(e) : "endpointResume" \in sessions'[s].timers
      /\ \A f \in Endpoint : On(f)' = On(f)
  <2>1. TypeOK /\ On(e) \in SUBSET SessionId /\ sessions' = Arm(On(e), "endpointResume")
    BY <1>1, <1>2 DEF IInv
  <2>2. /\ sessions' \in [SessionId -> Session \cup {None}] /\ Live' = Live
        /\ \A f \in Endpoint : On(f)' = On(f)
    BY <2>1, <1>2, TimersOnly
  <2>3. \A s \in Live \cap On(e) : "endpointResume" \in sessions'[s].timers
    BY <2>1, <1>2, TimersOnly
  <2>4. \A s \in Live : /\ sessions'[s].endpoint = sessions[s].endpoint
                        /\ sessions'[s].owner = sessions[s].owner
                        /\ s \notin On(e) => sessions'[s] = sessions[s]
    BY <2>1, <1>2, TimersOnly
  <2>5. QED  BY <2>2, <2>3, <2>4
<1>4. \A f \in Attached : /\ endpoints'[f] \in Attachment
                          /\ endpoints'[f].sessions = endpoints[f].sessions
                          /\ endpoints'[f].owner = endpoints[f].owner
                          /\ endpoints'[f].generation = endpoints[f].generation
                          /\ endpoints'[f].quit = endpoints[f].quit
                          /\ f = e => ~endpoints'[f].online
                          /\ f # e => endpoints'[f] = endpoints[f]
  <2>1. \A f \in Attached : endpoints[f] \in Attachment
    BY DEF Attached, IInv, TypeOK
  <2>2. \A f \in Attached : endpoints'[f] =
          IF f = e THEN [endpoints[e] EXCEPT !.online = FALSE] ELSE endpoints[f]
    BY <1>1 DEF Attached, IInv, TypeOK
  <2>3. ASSUME NEW f \in Attached
        PROVE  /\ endpoints'[f] \in Attachment
               /\ endpoints'[f].sessions = endpoints[f].sessions
               /\ endpoints'[f].owner = endpoints[f].owner
               /\ endpoints'[f].generation = endpoints[f].generation
               /\ endpoints'[f].quit = endpoints[f].quit
               /\ f = e => ~endpoints'[f].online
               /\ f # e => endpoints'[f] = endpoints[f]
    <3>1. CASE f = e
      <4>1. endpoints[e] \in Attachment /\ endpoints'[e] = [endpoints[e] EXCEPT !.online = FALSE]
        BY <3>1, <2>1, <2>2, <1>1
      <4>2. /\ endpoints'[e] \in Attachment
            /\ endpoints'[e].sessions = endpoints[e].sessions
            /\ endpoints'[e].owner = endpoints[e].owner
            /\ endpoints'[e].generation = endpoints[e].generation
            /\ endpoints'[e].quit = endpoints[e].quit
            /\ ~endpoints'[e].online
        BY <4>1 DEF Attachment
      <4>3. QED  BY <3>1, <4>2
    <3>2. CASE f # e
      BY <3>2, <2>1, <2>2
    <3>3. QED  BY <3>1, <3>2
  <2>4. QED  BY <2>3
<1>5. \A f \in Endpoint : endpoints[f] = None <=> endpoints'[f] = None
  BY <1>1, <1>4 DEF IInv, TypeOK, Attached
<1>6. Attached' = Attached
  BY <1>5 DEF Attached
<1>7. TypeOK'
  <2>1. endpoints' \in [Endpoint -> Attachment \cup {None}]
    BY <1>1, <1>4, <1>5 DEF IInv, TypeOK, Attached
  <2>2. QED  BY <2>1, <1>1, <1>3 DEF IInv, TypeOK
<1>8. SlotAccounting'
  <2>1. \A f \in Endpoint : Held(f)' = Held(f)
    BY <1>4, <1>5 DEF Held, Attached
  <2>2. QED  BY <2>1, <1>3, <1>6 DEF IInv, SlotAccounting
<1>9. \A s \in Live : /\ sessions[s].endpoint \in Attached
                      /\ s \in On(e) <=> sessions[s].endpoint = e
  BY DEF IInv, SlotAccounting, On
<1>10. ResumeTimerIffOffline'
  <2> SUFFICES ASSUME NEW s \in Live
               PROVE  "endpointResume" \in sessions'[s].timers
                        <=> ~endpoints'[sessions'[s].endpoint].online
    BY <1>3 DEF ResumeTimerIffOffline
  <2>1. CASE s \in On(e)
    BY <2>1, <1>3, <1>4, <1>9
  <2>2. CASE s \notin On(e)
    <3>1. /\ sessions'[s] = sessions[s]
          /\ endpoints'[sessions[s].endpoint] = endpoints[sessions[s].endpoint]
      BY <2>2, <1>3, <1>4, <1>9
    <3>2. QED  BY <3>1 DEF IInv, ResumeTimerIffOffline
  <2>3. QED  BY <2>1, <2>2
<1>11. SameTenant'
  <2>1. \A f \in Attached' : endpoints'[f].owner = OwnerOf[f]
    BY <1>4, <1>6 DEF IInv, SameTenant
  <2>2. ASSUME NEW s \in Live'
        PROVE  sessions'[s].owner = endpoints'[sessions'[s].endpoint].owner
    <3>1. s \in Live /\ sessions[s].owner = endpoints[sessions[s].endpoint].owner
      BY <1>3 DEF IInv, SameTenant
    <3>2. QED  BY <3>1, <1>3, <1>4, <1>9
  <2>3. QED  BY <2>1, <2>2 DEF SameTenant
<1>12. QuitIsOwn'
  BY <1>1, <1>4, <1>6 DEF IInv, QuitIsOwn
<1>13. QED  BY <1>7, <1>8, <1>10, <1>11, <1>12 DEF IInv

\* A client's leg comes or goes: only its own timer is touched.
LEMMA ClientLegKeepsIInv ==
  ASSUME IInv, NEW s \in SessionId, DetachClient(s) \/ AttachClient(s)
  PROVE  IInv'
<1> USE NoneIsNothing
<1>1. /\ sessions' = Arm({s}, "clientResume") \/ sessions' = Disarm({s}, "clientResume")
      /\ endpoints' = endpoints /\ attachments' = attachments
      /\ stray' = stray /\ farewells' = farewells
  BY DEF DetachClient, AttachClient
<1>2. "clientResume" \in Leg /\ "endpointResume" \in Leg \ {"clientResume"}
  BY DEF Leg
<1>3. /\ sessions' \in [SessionId -> Session \cup {None}] /\ Live' = Live
      /\ \A t \in Live : /\ sessions'[t].endpoint = sessions[t].endpoint
                         /\ sessions'[t].owner = sessions[t].owner
                         /\ "endpointResume" \in sessions'[t].timers
                              <=> "endpointResume" \in sessions[t].timers
      /\ \A f \in Endpoint : On(f)' = On(f)
  <2>1. TypeOK /\ {s} \in SUBSET SessionId
    BY DEF IInv
  <2>2. QED  BY <2>1, <1>1, <1>2, TimersOnly
<1>4. TypeOK'
  BY <1>1, <1>3 DEF IInv, TypeOK
<1>5. SlotAccounting'
  BY <1>1, <1>3 DEF IInv, SlotAccounting, Held, Attached
<1>6. ResumeTimerIffOffline' /\ SameTenant' /\ QuitIsOwn'
  BY <1>1, <1>3 DEF IInv, ResumeTimerIffOffline, SameTenant, QuitIsOwn, Attached
<1>7. QED  BY <1>4, <1>5, <1>6 DEF IInv

\* An accepted open routes its session to its endpoint, which had room for it.
LEMMA AcceptAdds ==
  ASSUME IInv, NEW e \in Endpoint, NEW s \in SessionId, NEW run \in RunId,
         NEW agent \in Agent, NEW caller \in Owner, AcceptOpen(e, s, run, agent, caller)
  PROVE  /\ Live' = Live \cup {s} /\ s \notin Live
         /\ \A f \in Endpoint : On(f)' = IF f = e THEN On(f) \cup {s} ELSE On(f)
         /\ endpoints[e].maxSessions \in Nat
         /\ endpoints'[e].maxSessions = endpoints[e].maxSessions
         /\ Cardinality(On(e)) < endpoints[e].maxSessions
<1> USE NoneIsNothing
<1>1. /\ e \in Attached /\ s \notin Live
      /\ Cardinality(endpoints[e].sessions) < endpoints[e].maxSessions
      /\ sessions' = [sessions EXCEPT ![s] =
             [run |-> run, endpoint |-> e, owner |-> caller, timers |-> {}]]
      /\ endpoints' = [endpoints EXCEPT ![e].sessions = @ \cup {s}]
  BY DEF AcceptOpen, Accepts
<1>2. /\ endpoints[e] \in Attachment /\ endpoints[e].sessions = On(e)
      /\ endpoints'[e] = [endpoints[e] EXCEPT !.sessions = @ \cup {s}]
  BY <1>1 DEF Attached, Held, IInv, TypeOK, SlotAccounting
<1>3. /\ sessions'[s] \in Session /\ sessions'[s].endpoint = e
      /\ \A t \in SessionId : t # s => sessions'[t] = sessions[t]
  BY <1>1 DEF IInv, TypeOK, Session
<1>4. Live' = Live \cup {s}
  BY <1>3 DEF Live
<1>5. ASSUME NEW f \in Endpoint
      PROVE  On(f)' = IF f = e THEN On(f) \cup {s} ELSE On(f)
  <2>1. \A t \in Live : t \in SessionId /\ t # s /\ sessions'[t] = sessions[t]
    BY <1>1, <1>3 DEF Live
  <2>2. QED  BY <2>1, <1>3, <1>4 DEF On
<1>6. QED  BY <1>1, <1>2, <1>4, <1>5 DEF Attachment

\* An accepted open adds one session to both maps, on an endpoint that is there
\* and belongs to the caller.
LEMMA AcceptKeepsIInv ==
  ASSUME IInv, NEW e \in Endpoint, NEW s \in SessionId, NEW run \in RunId,
         NEW agent \in Agent, NEW caller \in Owner, AcceptOpen(e, s, run, agent, caller)
  PROVE  IInv'
<1> USE NoneIsNothing
<1> DEFINE opened == [run |-> run, endpoint |-> e, owner |-> caller, timers |-> {}]
<1>1. /\ e \in Attached /\ endpoints[e].online /\ endpoints[e].owner = caller /\ s \notin Live
      /\ sessions' = [sessions EXCEPT ![s] = opened]
      /\ endpoints' = [endpoints EXCEPT ![e].sessions = @ \cup {s}]
      /\ attachments' = attachments /\ stray' = stray /\ farewells' = farewells
  BY DEF AcceptOpen, Accepts
<1>2. opened \in Session /\ opened.endpoint = e /\ opened.owner = caller
      /\ "endpointResume" \notin opened.timers
  BY DEF Session
<1> HIDE DEF opened
<1>3. endpoints[e].owner = OwnerOf[e]
  BY <1>1 DEF IInv, SameTenant
<1>4. \A f \in Attached : endpoints[f] \in Attachment
  BY DEF Attached, IInv, TypeOK
<1>5. /\ endpoints'[e] = [endpoints[e] EXCEPT !.sessions = @ \cup {s}]
      /\ \A f \in Endpoint : f # e => endpoints'[f] = endpoints[f]
  BY <1>1 DEF Attached, IInv, TypeOK
<1>6. /\ endpoints'[e] \in Attachment
      /\ endpoints'[e].sessions = endpoints[e].sessions \cup {s}
      /\ endpoints'[e].online = endpoints[e].online
      /\ endpoints'[e].owner = endpoints[e].owner
      /\ endpoints'[e].generation = endpoints[e].generation
      /\ endpoints'[e].quit = endpoints[e].quit
  <2>1. endpoints[e] \in Attachment
    BY <1>1, <1>4
  <2>2. QED  BY <2>1, <1>5 DEF Attachment
<1>7. Attached' = Attached /\ endpoints[e] # None /\ endpoints'[e] # None
  BY <1>1, <1>5, <1>6 DEF Attached
<1>8. /\ sessions'[s] = opened
      /\ \A t \in SessionId : t # s => sessions'[t] = sessions[t]
  BY <1>1 DEF IInv, TypeOK
<1>9. Live' = Live \cup {s}
  BY <1>2, <1>8 DEF Live
<1>10. TypeOK'
  <2>1. endpoints' \in [Endpoint -> Attachment \cup {None}]
    BY <1>1, <1>5, <1>6 DEF IInv, TypeOK
  <2>2. sessions' \in [SessionId -> Session \cup {None}]
    BY <1>1, <1>2 DEF IInv, TypeOK
  <2>3. QED  BY <2>1, <2>2, <1>1 DEF IInv, TypeOK
<1>11. \A f \in Endpoint : On(f)' = IF f = e THEN On(f) \cup {s} ELSE On(f)
  BY AcceptAdds
<1>12. SlotAccounting'
  <2>1. Held(e)' = Held(e) \cup {s}
    BY <1>6, <1>7 DEF Held
  <2>2. \A f \in Endpoint : f # e => Held(f)' = Held(f)
    BY <1>5 DEF Held
  <2>3. \A t \in Live' : sessions'[t].endpoint \in Attached'
    BY <1>1, <1>2, <1>7, <1>8, <1>9 DEF IInv, SlotAccounting, Live
  <2>4. QED  BY <2>1, <2>2, <2>3, <1>11 DEF IInv, SlotAccounting
<1>13. \A t \in Live : /\ t \in Live' /\ sessions'[t] = sessions[t]
                       /\ sessions[t].endpoint \in Attached
                       /\ sessions[t].endpoint \in Endpoint
  BY <1>1, <1>8, <1>9 DEF IInv, SlotAccounting, Live, Attached
<1>14. \A f \in Attached : /\ endpoints'[f].online = endpoints[f].online
                           /\ endpoints'[f].owner = endpoints[f].owner
                           /\ endpoints'[f].generation = endpoints[f].generation
                           /\ endpoints'[f].quit = endpoints[f].quit
  BY <1>5, <1>6 DEF Attached
<1>15. ResumeTimerIffOffline'
  <2> SUFFICES ASSUME NEW t \in Live'
               PROVE  "endpointResume" \in sessions'[t].timers
                        <=> ~endpoints'[sessions'[t].endpoint].online
    BY DEF ResumeTimerIffOffline
  <2>1. CASE t = s
    BY <2>1, <1>1, <1>2, <1>6, <1>8
  <2>2. CASE t # s
    BY <2>2, <1>9, <1>13, <1>14 DEF IInv, ResumeTimerIffOffline
  <2>3. QED  BY <2>1, <2>2
<1>16. SameTenant'
  <2>1. \A f \in Attached' : endpoints'[f].owner = OwnerOf[f]
    BY <1>7, <1>14 DEF IInv, SameTenant
  <2>2. ASSUME NEW t \in Live'
        PROVE  sessions'[t].owner = endpoints'[sessions'[t].endpoint].owner
    <3>1. CASE t = s
      BY <3>1, <1>1, <1>2, <1>6, <1>8
    <3>2. CASE t # s
      BY <3>2, <1>9, <1>13, <1>14 DEF IInv, SameTenant
    <3>3. QED  BY <3>1, <3>2
  <2>3. QED  BY <2>1, <2>2 DEF SameTenant
<1>17. QuitIsOwn'
  BY <1>1, <1>7, <1>14 DEF IInv, QuitIsOwn
<1>18. QED  BY <1>10, <1>12, <1>15, <1>16, <1>17 DEF IInv

\* Every step of the relay keeps the invariant.
LEMMA NextIInv == IInv /\ [Next]_vars => IInv'
<1> SUFFICES ASSUME IInv, [Next]_vars PROVE IInv'
  OBVIOUS
<1>1. ASSUME UNCHANGED relayState PROVE IInv'
  BY <1>1 DEF relayState, IInv, TypeOK, SlotAccounting, ResumeTimerIffOffline,
     SameTenant, QuitIsOwn, Live, Held, On, Attached
<1>2. ASSUME NEW s \in SessionId, sessions' = Ended({s}), endpoints' = Freed({s}),
             attachments' = attachments, farewells' = farewells,
             stray' \subseteq SessionId \X Leg
      PROVE  IInv'
  BY <1>2, EndingKeepsIInv
<1>3. ASSUME NEW s \in SessionId, Fail({s}), UNCHANGED <<attachments, stray, farewells>>
      PROVE  IInv'
  BY <1>2, <1>3 DEF Fail, IInv, TypeOK
<1>4. ASSUME NEW e \in Endpoint, EndpointStep(e) PROVE IInv'
  <2>1. ASSUME NEW declared \in SUBSET SessionId, NEW max \in 1..MaxSlots,
               NEW agents \in Offers, AttachEndpoint(e, declared, max, agents)
        PROVE  IInv'
    BY <2>1, AttachKeepsIInv
  <2>2. ASSUME NEW g \in 1..attachments, SayGoodbye(e, g) PROVE IInv'
    BY <2>2, GoodbyeKeepsIInv
  <2>3. CASE DetachEndpoint(e)
    BY <2>3, DetachKeepsIInv
  <2>4. ASSUME NEW s \in SessionId, EndpointAck(e, s) PROVE IInv'
    <3>1. CASE ~Speaks(e, s) /\ Ignored
      BY <3>1, <1>1 DEF Ignored
    <3>2. CASE AckOpened(e, s)
      BY <3>2, <1>1 DEF AckOpened
    <3>3. CASE AckRefused(e, s)
      <4>1. s \in Live /\ sessions[s].timers \subseteq Leg
        BY <3>3 DEF AckRefused, Speaks, Live, IInv, TypeOK, Session
      <4>2. stray' \subseteq SessionId \X Leg
        BY <3>3, <4>1 DEF AckRefused, IInv, TypeOK
      <4>3. QED  BY <3>3, <4>2, <1>2 DEF AckRefused
    <3>4. QED  BY <2>4, <3>1, <3>2, <3>3 DEF EndpointAck
  <2>5. ASSUME NEW s \in SessionId, EndpointLine(e, s) PROVE IInv'
    BY <2>5, <1>1 DEF EndpointLine, Ignored
  <2>6. ASSUME NEW s \in SessionId, EndpointClose(e, s) PROVE IInv'
    BY <2>6, <1>1, <1>3 DEF EndpointClose, Ignored
  <2>7. QED  BY <1>4, <2>1, <2>2, <2>3, <2>4, <2>5, <2>6 DEF EndpointStep
<1>5. ASSUME NEW s \in SessionId, ClientStep(s) PROVE IInv'
  <2>1. ASSUME NEW e \in Endpoint, NEW run \in RunId, NEW agent \in Agent,
               NEW caller \in Owner, OpenSession(e, s, run, agent, caller)
        PROVE  IInv'
    <3>1. CASE RefuseOpen(e, s, agent, caller)
      BY <3>1, <1>1 DEF RefuseOpen
    <3>2. CASE AcceptOpen(e, s, run, agent, caller)
      BY <3>2, AcceptKeepsIInv
    <3>3. QED  BY <2>1, <3>1, <3>2 DEF OpenSession
  <2>2. CASE DetachClient(s) \/ AttachClient(s)
    BY <2>2, ClientLegKeepsIInv
  <2>3. CASE ClientLine(s)
    BY <2>3, <1>1 DEF ClientLine, Ignored
  <2>4. CASE CloseSession(s)
    BY <2>4, <1>3 DEF CloseSession
  <2>5. QED  BY <1>5, <2>1, <2>2, <2>3, <2>4 DEF ClientStep
<1>6. ASSUME NEW s \in SessionId, NEW leg \in Leg, TimerFires(s, leg) PROVE IInv'
  BY <1>6, <1>3 DEF TimerFires
<1>7. ASSUME NEW s \in SessionId, NEW leg \in Leg, StrayFires(s, leg) PROVE IInv'
  <2>1. stray' \subseteq SessionId \X Leg
    BY <1>7 DEF StrayFires, IInv, TypeOK
  <2>2. QED  BY <1>7, <2>1, <1>2 DEF StrayFires, Fail
<1>8. CASE UNCHANGED vars
  BY <1>8, <1>1 DEF vars, relayState
<1>9. QED  BY <1>4, <1>5, <1>6, <1>7, <1>8 DEF Next

\* Whatever the sets of endpoints, sessions and owners, a relay in any state it
\* can reach satisfies every state property the runs check one by one.
THEOREM RelayInvariant == Spec => []IInv
<1>1. Init => IInv  BY InitIInv
<1>2. IInv /\ [Next]_vars => IInv'  BY NextIInv
<1>3. QED  BY <1>1, <1>2, PTL DEF Spec

\* Every value the relay keeps has its type.
THEOREM RelayTypes == Spec => []TypeOK
BY RelayInvariant, PTL DEF IInv

\* An attachment lists exactly the live sessions routed to it.
THEOREM RelaySlots == Spec => []SlotAccounting
BY RelayInvariant, PTL DEF IInv

\* A session waits for its endpoint exactly while that endpoint is away.
THEOREM RelayTimers == Spec => []ResumeTimerIffOffline
BY RelayInvariant, PTL DEF IInv

\* Both ends of a live session belong to one owner.
THEOREM RelayTenants == Spec => []SameTenant
BY RelayInvariant, PTL DEF IInv

\* Only an attachment's own leg makes it count as having quit.
THEOREM RelayQuits == Spec => []QuitIsOwn
BY RelayInvariant, PTL DEF IInv

\* An id that ends, or whose timers are set or cleared, adds to no endpoint's
\* sessions; only an accepted open does.
LEMMA OnlyAcceptsAdd ==
  ASSUME IInv, [Next]_vars, NEW f \in Endpoint
  PROVE  \/ On(f)' \subseteq On(f)
         \/ \E e \in Endpoint, s \in SessionId, run \in RunId, agent \in Agent,
               caller \in Owner : AcceptOpen(e, s, run, agent, caller)
<1> DEFINE Kept == On(f)' \subseteq On(f)
<1> USE NoneIsNothing
<1>1. ASSUME sessions' = sessions PROVE Kept
  BY <1>1 DEF On, Live
<1>2. ASSUME NEW S \in SUBSET SessionId, sessions' = Ended(S) PROVE Kept
  BY <1>2 DEF On, Live, Ended
<1>3. ASSUME NEW S \in SUBSET SessionId, NEW leg \in Leg,
             sessions' = Arm(S, leg) \/ sessions' = Disarm(S, leg)
      PROVE  Kept
  <2>1. On(f)' = On(f)
    BY <1>3, TimersOnly DEF IInv
  <2>2. QED  BY <2>1
<1>4. ASSUME NEW e \in Endpoint, EndpointStep(e) PROVE Kept
  <2>1. ASSUME NEW declared \in SUBSET SessionId, NEW max \in 1..MaxSlots,
               NEW agents \in Offers, AttachEndpoint(e, declared, max, agents)
        PROVE  Kept
    <3>1. ASSUME NEW s \in SessionId
          PROVE  \/ sessions'[s] = None
                 \/ sessions'[s] = sessions[s]
                 \/ /\ s \in Live
                    /\ sessions'[s] = [sessions[s] EXCEPT !.timers = @ \ {"endpointResume"}]
      <4>1. sessions'[s] = IF s \in Held(e) \ declared THEN None
                           ELSE Disarm(Held(e) \cap declared, "endpointResume")[s]
        BY <2>1 DEF AttachEndpoint
      <4>2. QED  BY <4>1 DEF Disarm
    <3>2. \A s \in Live : sessions[s] \in Session
      BY DEF IInv, TypeOK, Live
    <3>3. \A s \in Live' : s \in Live /\ sessions'[s].endpoint = sessions[s].endpoint
      BY <3>1, <3>2 DEF Live, Session
    <3>4. QED  BY <3>3 DEF On
  <2>2. ASSUME NEW g \in 1..attachments, SayGoodbye(e, g) PROVE Kept
    BY <2>2, <1>1 DEF SayGoodbye
  <2>3. CASE DetachEndpoint(e)
    <3>1. Held(e) \in SUBSET SessionId /\ "endpointResume" \in Leg
      BY DEF IInv, SlotAccounting, On, Live, Leg
    <3>2. QED  BY <2>3, <3>1, <1>3 DEF DetachEndpoint
  <2>4. ASSUME NEW s \in SessionId,
               EndpointAck(e, s) \/ EndpointLine(e, s) \/ EndpointClose(e, s)
        PROVE  Kept
    <3>1. sessions' = sessions \/ sessions' = Ended({s})
      BY <2>4 DEF EndpointAck, AckOpened, AckRefused, EndpointLine, EndpointClose,
         Ignored, Fail, relayState
    <3>2. QED  BY <3>1, <1>1, <1>2
  <2>5. QED  BY <1>4, <2>1, <2>2, <2>3, <2>4 DEF EndpointStep
<1>5. ASSUME NEW s \in SessionId, ClientStep(s),
             ~\E e \in Endpoint, run \in RunId, agent \in Agent, caller \in Owner :
                AcceptOpen(e, s, run, agent, caller)
      PROVE  Kept
  <2>1. CASE DetachClient(s) \/ AttachClient(s)
    <3>1. {s} \in SUBSET SessionId /\ "clientResume" \in Leg
      BY DEF Leg
    <3>2. QED  BY <2>1, <3>1, <1>3 DEF DetachClient, AttachClient
  <2>2. CASE ~(DetachClient(s) \/ AttachClient(s))
    <3>1. sessions' = sessions \/ sessions' = Ended({s})
      BY <1>5, <2>2 DEF ClientStep, OpenSession, RefuseOpen, ClientLine, CloseSession,
         Ignored, Fail, relayState
    <3>2. QED  BY <3>1, <1>1, <1>2
  <2>3. QED  BY <2>1, <2>2
<1>6. ASSUME NEW s \in SessionId, NEW leg \in Leg, TimerFires(s, leg) \/ StrayFires(s, leg)
      PROVE  Kept
  BY <1>6, <1>2 DEF TimerFires, StrayFires, Fail
<1>7. CASE UNCHANGED vars
  BY <1>7, <1>1 DEF vars
<1>8. QED  BY <1>4, <1>5, <1>6, <1>7 DEF Next

\* An open counts the attachment's own list, which the invariant ties to the
\* sessions routed there.
LEMMA StepsWithin == IInv /\ [Next]_vars => WithinCapacity
<1> DEFINE Within(f) == On(f)' \subseteq On(f)
                          \/ Cardinality(On(f)') <= endpoints'[f].maxSessions
<1>1. ASSUME IInv, [Next]_vars PROVE \A f \in Endpoint : Within(f)
  <2> SUFFICES ASSUME NEW f \in Endpoint PROVE Within(f)
    OBVIOUS
  <2>1. CASE On(f)' \subseteq On(f)
    BY <2>1
  <2>2. ASSUME NEW e \in Endpoint, NEW s \in SessionId, NEW run \in RunId,
               NEW agent \in Agent, NEW caller \in Owner,
               AcceptOpen(e, s, run, agent, caller)
        PROVE  Within(f)
    <3>1. /\ On(f)' = IF f = e THEN On(f) \cup {s} ELSE On(f)
          /\ endpoints'[e].maxSessions = endpoints[e].maxSessions
          /\ endpoints[e].maxSessions \in Nat
          /\ Cardinality(On(e)) < endpoints[e].maxSessions
      BY <1>1, <2>2, AcceptAdds
    <3>2. s \notin On(e)
      BY <1>1, <2>2, AcceptAdds DEF On
    <3>3. IsFiniteSet(On(e))
      <4>1. On(e) \subseteq SessionId /\ IsFiniteSet(SessionId)
        BY RelayAssumption DEF RelayAssumption, On, Live
      <4>2. QED  BY <4>1, FS_Subset
    <3>4. Cardinality(On(e) \cup {s}) = Cardinality(On(e)) + 1 /\ Cardinality(On(e)) \in Nat
      BY <3>2, <3>3, FS_AddElement, FS_CardinalityType
    <3>5. QED  BY <3>1, <3>4
  <2>3. QED  BY <1>1, <2>1, <2>2, OnlyAcceptsAdd
<1>2. QED  BY <1>1 DEF WithinCapacity

\* No step adds a session to an endpoint at its limit.
THEOREM RelayCapacity == Spec => NeverOverbooked
BY StepsWithin, RelayInvariant, PTL DEF Spec, NeverOverbooked
-----------------------------------------------------------------------------
(***************************************************************************)
(* Relay implements Broker: the initial states are Broker's, and each step *)
(* is a step of Broker or leaves its variables alone.  The state of Broker *)
(* is read off sessions by Pair, which forgets the timers; the attachments *)
(* do not show at all.                                                     *)
(***************************************************************************)

\* Broker's live, read in a state of the relay.
Pairs == [s \in SessionId |-> Pair(s)]

\* An id is paired exactly while a session of the relay has it.
LEMMA PairedIffLive ==
  ASSUME TypeOK, NEW s \in SessionId
  PROVE  /\ Pairs[s] = Pair(s)
         /\ Pairs[s] = None <=> s \notin Live
         /\ s \in Live => /\ Pair(s) = [run |-> sessions[s].run,
                                        endpoint |-> sessions[s].endpoint,
                                        owner |-> sessions[s].owner]
                          /\ Pair(s).endpoint = sessions[s].endpoint
                          /\ Pair(s).owner = sessions[s].owner
                          /\ Pair(s) \in [run: RunId, endpoint: Endpoint, owner: Owner]
<1>1. CASE s \in Live
  <2>1. sessions[s] \in Session /\ sessions[s] # None
    BY <1>1 DEF TypeOK, Live
  <2>2. Pair(s) = [run |-> sessions[s].run, endpoint |-> sessions[s].endpoint,
                   owner |-> sessions[s].owner]
    BY <2>1 DEF Pair
  <2>3. Pair(s) \in [run: RunId, endpoint: Endpoint, owner: Owner]
    BY <2>1, <2>2 DEF Session
  <2>4. Pair(s) # None
    BY <2>3, RelayAssumption DEF RelayAssumption
  <2>5. QED  BY <1>1, <2>2, <2>3, <2>4 DEF Pairs
<1>2. CASE s \notin Live
  BY <1>2 DEF Pairs, Pair, Live
<1>3. QED  BY <1>1, <1>2

\* Steps that leave who is live alone, with or without touching timers, leave
\* Broker's state alone.
LEMMA PairsStay ==
  ASSUME TypeOK, TypeOK', Live' = Live,
         \A s \in Live : /\ sessions'[s].endpoint = sessions[s].endpoint
                         /\ sessions'[s].owner = sessions[s].owner
                         /\ sessions'[s].run = sessions[s].run
  PROVE  Pairs' = Pairs
<1>1. ASSUME NEW s \in SessionId PROVE Pair(s)' = Pair(s)
  <2>1. CASE s \in Live
    BY <2>1 DEF Pair, Live
  <2>2. CASE s \notin Live
    BY <2>2 DEF Pair, Live
  <2>3. QED  BY <2>1, <2>2
<1>2. QED  BY <1>1 DEF Pairs

\* Ending sessions unpairs their ids and no other.
LEMMA PairsEnd ==
  ASSUME NEW S \in SUBSET SessionId, sessions' = Ended(S)
  PROVE  Pairs' = [s \in SessionId |-> IF s \in S THEN None ELSE Pairs[s]]
<1>1. ASSUME NEW s \in SessionId PROVE Pair(s)' = IF s \in S THEN None ELSE Pair(s)
  BY DEF Pair, Ended
<1>2. QED  BY <1>1 DEF Pairs

\* A set of live sessions ends, and each client hears of it: close or refused.
LEMMA EndingFinishes ==
  ASSUME TypeOK, NEW S \in SUBSET Live, S # {},
         Pairs' = [s \in SessionId |-> IF s \in S THEN None ELSE Pairs[s]],
         \A s \in S : ToClient(s, "close") \in sent' \/ ToClient(s, "refused") \in sent',
         \A m \in sent' :
            \/ \E s \in S : m = ToClient(s, "close") \/ m = ToClient(s, "refused")
            \/ \E e \in Endpoint, s \in SessionId :
                  m = ToEndpoint(e, "close", s) /\ (s \in S \/ s \notin Live)
  PROVE  Promise!Finish(S)
<1>1. S \subseteq SessionId /\ \A s \in S : Pairs[s] # None
  BY PairedIffLive DEF Live
<1>2. \A s \in SessionId : Pairs'[s] = IF s \in S THEN None ELSE Pairs[s]
  OBVIOUS
<1>3. \A s \in S : \E kind \in {"close", "refused"} : Promise!ToClient(s, kind) \in sent'
  BY DEF ToClient, Promise!ToClient
<1>4. ASSUME NEW m \in sent'
      PROVE  /\ m.kind \in {"close", "refused"}
             /\ m.to \in SessionId => m.session \in S
             /\ m.to \in Endpoint => Pairs'[m.session] = None
  <2>1. ASSUME NEW s \in S, m = ToClient(s, "close") \/ m = ToClient(s, "refused")
        PROVE  m.kind \in {"close", "refused"} /\ m.session \in S /\ Pairs'[m.session] = None
    BY <2>1, <1>1, <1>2 DEF ToClient
  <2>2. ASSUME NEW e \in Endpoint, NEW s \in SessionId, m = ToEndpoint(e, "close", s),
               s \in S \/ s \notin Live
        PROVE  m.kind = "close" /\ m.to \notin SessionId /\ Pairs'[m.session] = None
    <3>1. m.kind = "close" /\ m.to = e /\ m.session = s
      BY <2>2 DEF ToEndpoint
    <3>2. e \notin SessionId
      BY RelayAssumption DEF RelayAssumption
    <3>3. Pairs'[s] = None
      BY <2>2, <1>2, PairedIffLive
    <3>4. QED  BY <3>1, <3>2, <3>3
  <2>3. QED  BY <2>1, <2>2
<1>5. QED  BY <1>1, <1>3, <1>4 DEF Promise!Finish, Pairs

\* failSession is one end of the broker, or nothing when no session is meant.
LEMMA FailFinishes ==
  ASSUME TypeOK, SlotAccounting, NEW s \in SessionId, Fail({s})
  PROVE  Promise!Finish({s}) \/ Promise!Quiet
<1>1. sessions' = Ended({s}) /\ sent' = CloseLines({s})
  BY DEF Fail
<1>2. CASE s \in Live
  <2>1. sessions[s].endpoint \in Endpoint
    BY <1>2 DEF SlotAccounting, Attached
  <2>2. sent' = {ToClient(s, "close"), ToEndpoint(sessions[s].endpoint, "close", s)}
    BY <1>1, <1>2 DEF CloseLines
  <2>3. /\ {s} \in SUBSET Live /\ {s} # {}
        /\ \A t \in {s} : ToClient(t, "close") \in sent'
    BY <1>2, <2>2
  <2>4. \A m \in sent' :
          \/ \E t \in {s} : m = ToClient(t, "close") \/ m = ToClient(t, "refused")
          \/ \E e \in Endpoint, t \in SessionId :
                m = ToEndpoint(e, "close", t) /\ (t \in {s} \/ t \notin Live)
    BY <2>1, <2>2
  <2>5. Pairs' = [t \in SessionId |-> IF t \in {s} THEN None ELSE Pairs[t]]
    BY <1>1, PairsEnd
  <2>6. QED  BY <2>3, <2>4, <2>5, EndingFinishes
<1>3. CASE s \notin Live
  <2>1. sent' = {}
    BY <1>1, <1>3 DEF CloseLines
  <2>2. Pairs' = Pairs
    BY <1>1, <1>3 DEF Ended, Live, Pairs, Pair
  <2>3. QED  BY <2>1, <2>2 DEF Promise!Quiet, Pairs
<1>4. QED  BY <1>2, <1>3

\* A hello ends what it no longer declares, and turns nothing else away but ids
\* that pair nobody.
LEMMA AttachImplements ==
  ASSUME IInv, IInv', NEW e \in Endpoint, NEW declared \in SUBSET SessionId,
         NEW max \in 1..MaxSlots, NEW agents \in Offers,
         AttachEndpoint(e, declared, max, agents)
  PROVE  Promise!TurnAway \/ \E S \in SUBSET SessionId : Promise!Finish(S)
<1> USE NoneIsNothing
<1> DEFINE dropped == Held(e) \ declared
           stale == declared \ Live
<1>1. /\ sent' = CloseLines(dropped) \cup {ToEndpoint(e, "close", s) : s \in stale}
      /\ \A s \in SessionId : sessions'[s] =
            IF s \in dropped THEN None ELSE Disarm(Held(e) \cap declared, "endpointResume")[s]
  BY DEF AttachEndpoint
<1>2. dropped \subseteq Live /\ dropped \subseteq On(e) /\ stale \subseteq SessionId
  BY DEF IInv, SlotAccounting, On
<1> HIDE DEF dropped
<1>3. \A s \in Live : sessions[s] \in Session
  BY DEF IInv, TypeOK, Live
<1>4. ASSUME NEW s \in SessionId
      PROVE  Pair(s)' = IF s \in dropped THEN None ELSE Pair(s)
  <2>1. CASE s \in dropped
    BY <2>1, <1>1 DEF Pair
  <2>2. CASE s \notin dropped /\ s \notin Live
    BY <2>2, <1>1 DEF Pair, Disarm, Live
  <2>3. CASE s \notin dropped /\ s \in Live
    <3>1. \/ sessions'[s] = sessions[s]
          \/ sessions'[s] = [sessions[s] EXCEPT !.timers = @ \ {"endpointResume"}]
      BY <2>3, <1>1 DEF Disarm
    <3>2. /\ sessions'[s] \in Session
          /\ sessions'[s].run = sessions[s].run
          /\ sessions'[s].endpoint = sessions[s].endpoint
          /\ sessions'[s].owner = sessions[s].owner
      BY <2>3, <3>1, <1>3 DEF Session
    <3>3. QED  BY <2>3, <3>2 DEF Pair, Live
  <2>4. QED  BY <2>1, <2>2, <2>3
<1>5. Pairs' = [s \in SessionId |-> IF s \in dropped THEN None ELSE Pairs[s]]
  BY <1>4 DEF Pairs
<1>6. CASE dropped = {}
  <2>1. Pairs' = Pairs
    BY <1>5, <1>6 DEF Pairs
  <2>2. stale \in SUBSET {s \in SessionId : Pairs[s] = None}
    BY <1>2, PairedIffLive DEF IInv
  <2>3. sent' = {Promise!ToEndpoint(e, "close", s) : s \in stale}
    BY <1>1, <1>6 DEF CloseLines, ToEndpoint, Promise!ToEndpoint
  <2>4. QED  BY <2>1, <2>2, <2>3 DEF Promise!TurnAway, Pairs
<1>7. CASE dropped # {}
  <2>1. \A s \in dropped : ToClient(s, "close") \in sent'
    BY <1>1, <1>2 DEF CloseLines
  <2>2. \A s \in dropped : sessions[s].endpoint = e
    BY <1>2 DEF On
  <2>3. ASSUME NEW m \in sent'
        PROVE  \/ \E s \in dropped : m = ToClient(s, "close") \/ m = ToClient(s, "refused")
               \/ \E f \in Endpoint, s \in SessionId :
                     m = ToEndpoint(f, "close", s) /\ (s \in dropped \/ s \notin Live)
    <3>1. CASE m \in CloseLines(dropped)
      BY <3>1, <2>2, <1>2 DEF CloseLines, Live
    <3>2. CASE m \in {ToEndpoint(e, "close", s) : s \in stale}
      BY <3>2, <1>2
    <3>3. QED  BY <1>1, <3>1, <3>2
  <2>4. Promise!Finish(dropped)
    BY <1>2, <1>5, <1>7, <2>1, <2>3, EndingFinishes DEF IInv
  <2>5. QED  BY <2>4, <1>2 DEF Live
<1>8. QED  BY <1>6, <1>7

\* Every step of the relay is a step of the broker.
LEMMA StepImplements == IInv /\ IInv' /\ [Next]_vars => [Promise!Next]_(Promise!vars)
<1> SUFFICES ASSUME IInv, IInv', [Next]_vars
             PROVE  Promise!Next \/ (Pairs' = Pairs /\ sent' = sent)
  BY DEF Promise!vars, Pairs
<1>1. ASSUME UNCHANGED sessions PROVE Pairs' = Pairs
  BY <1>1 DEF Pairs, Pair
<1>2. ASSUME UNCHANGED sessions, sent' = {} PROVE Promise!Next
  BY <1>1, <1>2 DEF Promise!Next, Promise!Quiet, Pairs
<1>3. ASSUME NEW S \in SUBSET SessionId, NEW leg \in Leg,
             sessions' = Arm(S, leg) \/ sessions' = Disarm(S, leg), sent' = {}
      PROVE  Promise!Next
  <2>1. TypeOK /\ TypeOK'
    BY DEF IInv
  <2>2. Live' = Live
    BY <1>3, <2>1, TimersOnly
  <2>3. \A s \in Live : /\ sessions'[s].endpoint = sessions[s].endpoint
                        /\ sessions'[s].owner = sessions[s].owner
                        /\ sessions'[s].run = sessions[s].run
    BY <1>3, <2>1, TimersOnly
  <2>4. Pairs' = Pairs
    BY <2>1, <2>2, <2>3, PairsStay
  <2>5. QED  BY <1>3, <2>4 DEF Promise!Next, Promise!Quiet, Pairs
<1>4. ASSUME NEW s \in SessionId, Fail({s}) PROVE Promise!Next
  <2>1. {s} \in SUBSET SessionId /\ (Promise!Finish({s}) \/ Promise!Quiet)
    BY <1>4, FailFinishes DEF IInv
  <2>2. QED  BY <2>1 DEF Promise!Next
<1>5. ASSUME NEW s \in Live, UNCHANGED sessions,
             \/ sent' = {ToClient(s, "frame")}
             \/ sent' = {ToClient(s, "opened")}
             \/ sent' = {ToEndpoint(sessions[s].endpoint, "frame", s)}
      PROVE  Promise!Next
  <2>1. s \in SessionId /\ Pairs[s] # None /\ Pairs[s].endpoint = sessions[s].endpoint
    BY PairedIffLive DEF IInv, Live
  <2>2. Promise!Carry(s)
    BY <1>1, <1>5, <2>1 DEF Promise!Carry, Pairs, ToClient, ToEndpoint,
       Promise!ToClient, Promise!ToEndpoint
  <2>3. QED  BY <2>1, <2>2 DEF Promise!Next
<1>6. ASSUME NEW e \in Endpoint, EndpointStep(e) PROVE Promise!Next
  <2>1. ASSUME NEW declared \in SUBSET SessionId, NEW max \in 1..MaxSlots,
               NEW agents \in Offers, AttachEndpoint(e, declared, max, agents)
        PROVE  Promise!Next
    <3>1. Promise!TurnAway \/ \E S \in SUBSET SessionId : Promise!Finish(S)
      BY <2>1, AttachImplements
    <3>2. QED  BY <3>1 DEF Promise!Next
  <2>2. ASSUME NEW g \in 1..attachments, SayGoodbye(e, g) PROVE Promise!Next
    BY <2>2, <1>2 DEF SayGoodbye
  <2>3. CASE DetachEndpoint(e)
    <3>1. Held(e) \in SUBSET SessionId /\ "endpointResume" \in Leg
      BY DEF IInv, SlotAccounting, On, Live, Leg
    <3>2. QED  BY <2>3, <3>1, <1>3 DEF DetachEndpoint
  <2>4. ASSUME NEW s \in SessionId, EndpointAck(e, s) PROVE Promise!Next
    <3>1. CASE ~Speaks(e, s) /\ Ignored
      BY <3>1, <1>2 DEF Ignored, relayState
    <3>2. CASE AckOpened(e, s)
      BY <3>2, <1>5 DEF AckOpened, Speaks, relayState
    <3>3. CASE AckRefused(e, s)
      <4>1. /\ {s} \in SUBSET Live /\ {s} # {} /\ {s} \in SUBSET SessionId
            /\ sent' = {ToClient(s, "refused")} /\ sessions' = Ended({s}) /\ TypeOK
        BY <3>3 DEF AckRefused, Speaks, IInv
      <4>2. Pairs' = [t \in SessionId |-> IF t \in {s} THEN None ELSE Pairs[t]]
        BY <4>1, PairsEnd
      <4>3. Promise!Finish({s})
        BY <4>1, <4>2, EndingFinishes
      <4>4. QED  BY <4>1, <4>3 DEF Promise!Next
    <3>4. QED  BY <2>4, <3>1, <3>2, <3>3 DEF EndpointAck
  <2>5. ASSUME NEW s \in SessionId, EndpointLine(e, s) PROVE Promise!Next
    BY <2>5, <1>2, <1>5 DEF EndpointLine, Ignored, Speaks, relayState
  <2>6. ASSUME NEW s \in SessionId, EndpointClose(e, s) PROVE Promise!Next
    BY <2>6, <1>2, <1>4 DEF EndpointClose, Ignored, relayState
  <2>7. QED  BY <1>6, <2>1, <2>2, <2>3, <2>4, <2>5, <2>6 DEF EndpointStep
<1>7. ASSUME NEW s \in SessionId, ClientStep(s) PROVE Promise!Next
  <2>1. ASSUME NEW e \in Endpoint, NEW run \in RunId, NEW agent \in Agent,
               NEW caller \in Owner, OpenSession(e, s, run, agent, caller)
        PROVE  Promise!Next
    <3>1. CASE RefuseOpen(e, s, agent, caller)
      <4>1. Pairs' = Pairs /\ sent' = {Promise!ToClient(s, "refused")}
        BY <3>1, <1>1 DEF RefuseOpen, relayState, ToClient, Promise!ToClient
      <4>2. QED  BY <4>1 DEF Promise!Next, Promise!TurnAway, Pairs
    <3>2. CASE AcceptOpen(e, s, run, agent, caller)
      <4> DEFINE p == [run |-> run, endpoint |-> e, owner |-> caller]
      <4>1. /\ s \notin Live /\ endpoints[e].owner = caller /\ e \in Attached
            /\ sessions' = [sessions EXCEPT ![s] =
                   [run |-> run, endpoint |-> e, owner |-> caller, timers |-> {}]]
            /\ sent' = {ToEndpoint(e, "open", s)}
        BY <3>2 DEF AcceptOpen, Accepts
      <4>2. p \in Promise!Pairing /\ p.endpoint = e /\ p.owner = OwnerOf[p.endpoint]
        BY <4>1 DEF Promise!Pairing, IInv, SameTenant
      <4>3. Pairs[s] = None
        BY <4>1, PairedIffLive DEF IInv
      <4>4. ASSUME NEW t \in SessionId PROVE Pair(t)' = IF t = s THEN p ELSE Pair(t)
        <5>1. [run |-> run, endpoint |-> e, owner |-> caller, timers |-> {}] \in Session
          BY DEF Session
        <5>2. CASE t = s
          <6>1. sessions'[s] = [run |-> run, endpoint |-> e, owner |-> caller, timers |-> {}]
            BY <4>1 DEF IInv, TypeOK
          <6>2. QED  BY <5>1, <5>2, <6>1, NoneIsNothing DEF Pair
        <5>3. CASE t # s
          BY <5>3, <4>1 DEF Pair, IInv, TypeOK
        <5>4. QED  BY <5>2, <5>3
      <4> HIDE DEF p
      <4>5. Pairs' = [Pairs EXCEPT ![s] = p]
        BY <4>4 DEF Pairs
      <4>6. Promise!Accept(s, p)
        BY <4>1, <4>2, <4>3, <4>5 DEF Promise!Accept, Pairs, ToEndpoint, Promise!ToEndpoint
      <4>7. QED  BY <4>2, <4>6 DEF Promise!Next
    <3>3. QED  BY <2>1, <3>1, <3>2 DEF OpenSession
  <2>2. CASE DetachClient(s) \/ AttachClient(s)
    <3>1. {s} \in SUBSET SessionId /\ "clientResume" \in Leg
      BY DEF Leg
    <3>2. QED  BY <2>2, <3>1, <1>3 DEF DetachClient, AttachClient
  <2>3. CASE ClientLine(s)
    BY <2>3, <1>2, <1>5 DEF ClientLine, Ignored, relayState
  <2>4. CASE CloseSession(s)
    BY <2>4, <1>4 DEF CloseSession
  <2>5. QED  BY <1>7, <2>1, <2>2, <2>3, <2>4 DEF ClientStep
<1>8. ASSUME NEW s \in SessionId, NEW leg \in Leg, TimerFires(s, leg) \/ StrayFires(s, leg)
      PROVE  Promise!Next
  BY <1>8, <1>4 DEF TimerFires, StrayFires
<1>9. CASE UNCHANGED vars
  BY <1>9, <1>1 DEF vars
<1>10. QED  BY <1>6, <1>7, <1>8, <1>9 DEF Next

\* The relay starts as the broker does: nobody paired, nothing sent.
LEMMA InitImplements == Init => Promise!Init
BY DEF Init, Promise!Init, Pair

\* Clients and endpoints see a broker: whatever the relay does behind it, an id
\* joins one pair from accept to end, and no end goes untold to its client.
THEOREM RelayImplementsBroker == Spec => BrokerSpec
<1>1. Init => Promise!Init  BY InitImplements
<1>2. IInv /\ IInv' /\ [Next]_vars => [Promise!Next]_(Promise!vars)  BY StepImplements
<1>3. QED  BY <1>1, <1>2, RelayInvariant, PTL DEF Spec, BrokerSpec, Promise!Spec

-----------------------------------------------------------------------------
(***************************************************************************)
(* The relay in use: those who call its methods also turn callers down by  *)
(* themselves, and the process may end and start over.                     *)
(***************************************************************************)

\* A step of those who use the relay: at most one caller is turned down.
Aside == /\ UNCHANGED relayState
         /\ sent' = {} \/ \E s \in SessionId : sent' = {ToClient(s, "refused")}

UsedSpec == Init /\ [][Next \/ Aside \/ Init']_vars

LEMMA UsedKeeps == IInv /\ [Next \/ Aside \/ Init']_vars => IInv'
<1> SUFFICES ASSUME IInv, [Next \/ Aside \/ Init']_vars PROVE IInv'
  OBVIOUS
<1>1. CASE [Next]_vars
  BY <1>1, NextIInv
<1>2. CASE Aside
  BY <1>2 DEF Aside, relayState, IInv, TypeOK, SlotAccounting, ResumeTimerIffOffline,
     SameTenant, QuitIsOwn, Live, On, Held, Attached
<1>3. CASE Init'
  BY <1>3, RelayAssumption DEF RelayAssumption, Init, IInv, TypeOK, SlotAccounting,
     ResumeTimerIffOffline, SameTenant, QuitIsOwn, Live, On, Held, Attached
<1>4. QED  BY <1>1, <1>2, <1>3

LEMMA UsedImplements ==
  IInv /\ IInv' /\ [Next \/ Aside \/ Init']_vars
    => [Promise!Next \/ Promise!Init']_(Promise!vars)
<1> SUFFICES ASSUME IInv, IInv', [Next \/ Aside \/ Init']_vars
             PROVE  [Promise!Next \/ Promise!Init']_(Promise!vars)
  OBVIOUS
<1>1. CASE [Next]_vars
  BY <1>1, StepImplements
<1>2. CASE Aside
  <2>1. Pairs' = Pairs
    BY <1>2 DEF Aside, relayState, Pairs, Pair
  <2>2. sent' = {} \/ \E s \in SessionId : sent' = {Promise!ToClient(s, "refused")}
    BY <1>2 DEF Aside, ToClient, Promise!ToClient
  <2>3. QED  BY <2>1, <2>2 DEF Promise!Next, Promise!Quiet, Promise!TurnAway, Pairs
<1>3. CASE Init'
  BY <1>3 DEF Init, Promise!Init, Pair
<1>4. QED  BY <1>1, <1>2, <1>3

LEMMA UsedWithin == IInv /\ [Next \/ Aside \/ Init']_vars => WithinCapacity
<1> SUFFICES ASSUME IInv, [Next \/ Aside \/ Init']_vars PROVE WithinCapacity
  OBVIOUS
<1>1. CASE [Next]_vars
  BY <1>1, StepsWithin
<1>2. CASE Aside
  BY <1>2 DEF Aside, relayState, WithinCapacity, On, Live
<1>3. CASE Init'
  BY <1>3 DEF Init, WithinCapacity, On, Live
<1>4. QED  BY <1>1, <1>2, <1>3

\* createRelay in a process that uses it and may start over: its invariants hold all
\* along, and clients and endpoints see a broker that starts over with the process.
THEOREM RelayInUse ==
    UsedSpec => /\ []IInv
                /\ NeverOverbooked
                /\ Promise!SpecWithRestarts
<1>1. Init => IInv  BY InitIInv
<1>2. IInv /\ [Next \/ Aside \/ Init']_vars => IInv'  BY UsedKeeps
<1>3. Init => Promise!Init  BY InitImplements
<1>4. IInv /\ IInv' /\ [Next \/ Aside \/ Init']_vars
        => [Promise!Next \/ Promise!Init']_(Promise!vars)
  BY UsedImplements
<1>5. QED
  BY <1>1, <1>2, <1>3, <1>4, UsedWithin, PTL
     DEF UsedSpec, NeverOverbooked, Promise!SpecWithRestarts
=============================================================================
