--------------------------- MODULE MembersProofs ----------------------------
(***************************************************************************)
(* What TLAPS proves of Members, for every number of members, machines,    *)
(* codes, tokens and sessions: what a removal takes away it takes away     *)
(* whole, and a code is spent once.                                        *)
(*                                                                         *)
(* The properties are not inductive: they hold at a commit only for what   *)
(* the statements before it saw and what the locks kept from changing      *)
(* since.  Deactivating and Uninstalling say what each phase of a removal  *)
(* knows, and Paying what a code that is redeemed but not claimed knows.   *)
(***************************************************************************)
EXTENDS Members, TLAPS

\* What stands for a row that exists belongs to a member who is active.
Owned ==
    /\ \A o \in Owner : users[o] = None => standing[o] = "none"
    /\ \A o \in Owner : standing[o] = "deactivated" => pairings[o] = None
    /\ \A e \in paired : endpoints[e] # None /\ standing[endpoints[e].owner] = "active"
    /\ \A t \in Token : tokens[t] # None /\ tokens[t].kind = "endpoint" =>
          /\ endpoints[tokens[t].subject] # None
          /\ \/ tokens[t].revoked
             \/ tokens[t].subject \in paired
             \/ standing[endpoints[tokens[t].subject].owner] = "gone"
    /\ \A s \in recorded : sessions[s] \in paired

\* A code that still counts has bought nothing, and what was bought with one
\* belongs to the member it was minted for.
Paying ==
    /\ \A o \in Owner : pairings[o] # None => minted[pairings[o].code] = o
    /\ \A call \in calls : call.wants = "endpoint" =>
          /\ minted[call.code] = call.owner
          /\ \A e \in Endpoint : endpoints[e] # None => endpoints[e].code # call.code
          /\ \A o \in Owner : pairings[o] # None /\ ~pairings[o].spent
                                 => pairings[o].code # call.code
    /\ \A o \in Owner : pairings[o] # None /\ ~pairings[o].spent =>
          \A e \in Endpoint : endpoints[e] # None => endpoints[e].code # pairings[o].code

\* What the statements of a removal have seen so far is still all there is.
Deactivating ==
    tx # None /\ tx.kind = "deactivate" =>
        /\ \A o \in tx.owners : Present(o)
        /\ tx.phase # "member" => MachinesOf(tx.owners) = tx.locked
        /\ tx.phase \in {"sessions", "cleaned"} => SessionsOn(tx.locked) \subseteq tx.doomed
        /\ tx.phase = "cleaned" =>
              /\ tx.unpair = tx.locked
              /\ \A t \in Token :
                       tokens[t] # None /\ tokens[t].kind = "endpoint"
                          /\ tokens[t].subject \in tx.locked => t \in tx.revoke

\* An uninstall misses only what was claimed beside it.
Uninstalling ==
    tx # None /\ tx.kind = "uninstall" =>
        /\ tx.phase # "member"
        /\ paired \subseteq tx.locked \cup late
        /\ tx.phase \in {"sessions", "cleaned"} =>
              \A s \in recorded : s \in tx.doomed \/ sessions[s] \in late

\* What a removal is still to delete, it has.
Revoking == tx # None => \A t \in tx.revoke : tokens[t] # None

IInv == TypeOK /\ Owned /\ Paying /\ Deactivating /\ Uninstalling /\ Revoking
        /\ CodePairsOnce /\ RemovalReports

\* None is no id and no row.
LEMMA NoneIsNothing ==
    /\ None \notin Owner /\ None \notin Endpoint /\ None \notin Code /\ None \notin Token
    /\ None \notin Session /\ None \notin Machine /\ None \notin Credential
    /\ None \notin Pairing
  BY MembersAssumption DEF MembersAssumption, Owner, Endpoint, Code, Token, Session

\* The gateway starts with an empty database.
LEMMA InitIInv == Init => IInv
  BY NoneIsNothing
  DEF Init, IInv, TypeOK, Owned, Paying, Deactivating, Uninstalling, Revoking, CodePairsOnce,
      RemovalReports

\* What an await left behind in a call.
LEMMA CallTypes ==
  ASSUME TypeOK, NEW call \in calls
  PROVE  call.owner \in Owner /\ (call.wants = "endpoint" => call.code \in Code)
<1>1. call \in Call
  BY DEF TypeOK
<1>2. CASE call \in [wants: {"code", "token"}, owner: Owner]
  BY <1>2
<1>3. CASE call \in [wants: {"endpoint"}, owner: Owner, code: Code]
  BY <1>3
<1>4. QED  BY <1>1, <1>2, <1>3 DEF Call

\* A code that is spent and a token that is revoked are rows still.
LEMMA SpentPairing ==
  \A p \in Pairing : [p EXCEPT !.spent = TRUE] \in Pairing
  BY DEF Pairing

LEMMA RevokedCredential ==
  ASSUME NEW c \in Credential
  PROVE  /\ [c EXCEPT !.revoked = TRUE] \in Credential
         /\ [c EXCEPT !.revoked = TRUE].kind = c.kind
         /\ [c EXCEPT !.revoked = TRUE].subject = c.subject
         /\ [c EXCEPT !.revoked = TRUE].revoked
<1>1. CASE c \in [kind: {"client"}, subject: Owner, revoked: BOOLEAN]
  BY <1>1 DEF Credential
<1>2. CASE c \in [kind: {"endpoint"}, subject: Endpoint, revoked: BOOLEAN]
  BY <1>2 DEF Credential
<1>3. QED  BY <1>1, <1>2 DEF Credential

-----------------------------------------------------------------------------
(* Types. *)

\* Every step keeps the state well typed.
LEMMA TypeStep == TypeOK /\ Revoking /\ [Next]_vars => TypeOK'
<1> SUFFICES ASSUME TypeOK, Revoking, [Next]_vars PROVE TypeOK'
  OBVIOUS
<1> USE NoneIsNothing
<1>1. CASE Requests
  <2>1. ASSUME NEW p \in Person, NEW wants \in {"code", "token"}, EnsureMember(p, wants)
        PROVE  TypeOK'
    <3>1. PICK o \in Owner :
             /\ \/ UNCHANGED <<users, standing>>
                \/ /\ users' = [users EXCEPT ![o] = p]
                   /\ standing' = [standing EXCEPT ![o] = "active"]
             /\ calls' = calls \cup {[wants |-> wants, owner |-> o]}
      BY <2>1 DEF EnsureMember
    <3>2. [wants |-> wants, owner |-> o] \in Call
      BY DEF Call
    <3>3. QED
      BY <2>1, <3>1, <3>2 DEF TypeOK, EnsureMember, machines, records
  <2>2. ASSUME NEW call \in calls, MintPairingCode(call) PROVE TypeOK'
    <3>1. call.owner \in Owner
      BY CallTypes
    <3>2. \A c \in Code : [code |-> c, spent |-> FALSE] \in Pairing
      BY DEF Pairing
    <3>3. pairings' \in [Owner -> Pairing \cup {None}]
      <4>1. CASE UNCHANGED pairings
        BY <4>1 DEF TypeOK
      <4>2. CASE \E c \in Code :
                    pairings' = [pairings EXCEPT ![call.owner] =
                                    [code |-> c, spent |-> FALSE]]
        <5>1. PICK row \in Pairing : pairings' = [pairings EXCEPT ![call.owner] = row]
          BY <4>2, <3>2
        <5>2. QED  BY <3>1, <5>1 DEF TypeOK
      <4>3. QED  BY <2>2, <4>1, <4>2 DEF MintPairingCode
    <3>4. minted' \in [Code -> Owner \cup {None}]
      BY <2>2, <3>1 DEF TypeOK, MintPairingCode
    <3>5. calls' \subseteq Call
      BY <2>2 DEF TypeOK, MintPairingCode
    <3>6. QED  BY <2>2, <3>3, <3>4, <3>5 DEF TypeOK, MintPairingCode, machines, records
  <2>3. ASSUME NEW call \in calls, MintClientToken(call) PROVE TypeOK'
    <3>1. [kind |-> "client", subject |-> call.owner, revoked |-> FALSE] \in Credential
      BY CallTypes DEF Credential
    <3>2. QED  BY <2>3, <3>1 DEF TypeOK, MintClientToken, members, machines, records
  <2>4. ASSUME NEW call \in calls, ClaimEndpoint(call) PROVE TypeOK'
    <3>1. call.owner \in Owner /\ call.code \in Code
      BY <2>4, CallTypes DEF ClaimEndpoint
    <3>2. CASE standing[call.owner] # "active" /\ UNCHANGED <<endpoints, paired, tokens, late>>
      BY <2>4, <3>2 DEF TypeOK, ClaimEndpoint, members, records
    <3>3. CASE \E e \in Endpoint, t \in Token :
             /\ endpoints' = [endpoints EXCEPT ![e] = [owner |-> call.owner,
                                                       code |-> call.code]]
             /\ paired' = paired \cup {e}
             /\ tokens' = [tokens EXCEPT ![t] = [kind |-> "endpoint", subject |-> e,
                                                 revoked |-> FALSE]]
             /\ late' = IF tx # None /\ tx.kind = "uninstall" THEN late \cup {e}
                                                             ELSE late
      <4>1. [owner |-> call.owner, code |-> call.code] \in Machine
        BY <3>1 DEF Machine
      <4>2. \A e \in Endpoint : [kind |-> "endpoint", subject |-> e, revoked |-> FALSE]
                                  \in Credential
        BY DEF Credential
      <4>3. QED  BY <2>4, <3>3, <4>1, <4>2 DEF TypeOK, ClaimEndpoint, members, records
    <3>4. QED  BY <2>4, <3>2, <3>3 DEF ClaimEndpoint
  <2>5. ASSUME NEW call \in calls, CallFails(call) PROVE TypeOK'
    BY <2>5 DEF TypeOK, CallFails, members, machines, records
  <2>6. ASSUME NEW o \in Owner, RedeemPairingCode(o) PROVE TypeOK'
    <3>1. pairings[o] \in Pairing
      BY <2>6 DEF TypeOK, RedeemPairingCode
    <3>2. pairings' \in [Owner -> Pairing \cup {None}]
      BY <2>6, <3>1, SpentPairing DEF TypeOK, RedeemPairingCode
    <3>3. [wants |-> "endpoint", owner |-> o, code |-> pairings[o].code] \in Call
      BY <3>1 DEF Call, Pairing
    <3>4. QED  BY <2>6, <3>2, <3>3 DEF TypeOK, RedeemPairingCode, machines, records
  <2>7. ASSUME NEW s \in Session, NEW l \in LegId, RecordSession(s, l) PROVE TypeOK'
    BY <2>7 DEF TypeOK, RecordSession, members, machines
  <2>8. QED
    BY <1>1, <2>1, <2>2, <2>3, <2>4, <2>5, <2>6, <2>7 DEF Requests
<1>2. CASE Expiry
  <2>1. ASSUME NEW o \in Owner, CodeExpires(o) PROVE TypeOK'
    <3>1. pairings' \in [Owner -> Pairing \cup {None}]
      BY <2>1, SpentPairing DEF TypeOK, CodeExpires
    <3>2. QED  BY <2>1, <3>1 DEF TypeOK, CodeExpires, machines, records
  <2>2. ASSUME NEW t \in Token, TokenExpires(t) PROVE TypeOK'
    <3>1. tokens' \in [Token -> Credential \cup {None}]
      BY <2>2, RevokedCredential DEF TypeOK, TokenExpires
    <3>2. QED  BY <2>2, <3>1 DEF TypeOK, TokenExpires, members, machines, records
  <2>3. QED  BY <1>2, <2>1, <2>2 DEF Expiry
<1>3. CASE Removing
  <2>1. ASSUME NEW o \in Owner, LockMember(o) PROVE TypeOK'
    BY <2>1 DEF TypeOK, LockMember, Opened, members, machines, records, Removal
  <2>2. CASE LockEndpoints
    BY <2>2 DEF TypeOK, LockEndpoints, MachinesOf, members, machines, records, Removal
  <2>3. CASE LockAllEndpoints
    BY <2>3 DEF TypeOK, LockAllEndpoints, Opened, members, machines, records, Removal
  <2>4. CASE DeleteSessions
    BY <2>4 DEF TypeOK, DeleteSessions, SessionsOn, members, machines, records, Removal
  <2>5. CASE CleanUp
    <3>1. MachinesOf(tx.owners) \subseteq Endpoint
      BY DEF TypeOK, MachinesOf
    <3>2. QED  BY <2>5, <3>1 DEF TypeOK, CleanUp, members, machines, records, Removal
  <2>6. CASE Commit
    <3>1. \E E, O, to : to \in {"deactivated", "gone"} /\ Removes(E, O, to)
      BY <2>6 DEF Commit
    <3>2. tx \in Removal /\ tx' = None
      BY <2>6 DEF Commit, TypeOK
    <3>3. \A t \in tx.revoke : t \in Token /\ [tokens[t] EXCEPT !.revoked = TRUE] \in Credential
      <4>1. ASSUME NEW t \in tx.revoke
            PROVE  t \in Token /\ tokens[t] \in Credential
        BY <2>6, <3>2 DEF Commit, Revoking, TypeOK, Removal
      <4>2. QED  BY <4>1, RevokedCredential
    <3>4. QED  BY <2>6, <3>1, <3>2, <3>3 DEF Commit, Removes, TypeOK, Removal
  <2>7. CASE Rollback
    BY <2>7 DEF TypeOK, Rollback, members, machines, records
  <2>8. QED
    BY <1>3, <2>1, <2>2, <2>3, <2>4, <2>5, <2>6, <2>7 DEF Removing
<1>4. CASE Legs
  <2>1. ASSUME NEW l \in LegId, NEW t \in Token, Authorize(l, t) PROVE TypeOK'
    BY <2>1 DEF TypeOK, Authorize, members, machines, records, LegState
  <2>2. ASSUME NEW l \in LegId, HoldLeg(l) \/ PeerCloses(l) \/ DropRevoked(l) PROVE TypeOK'
    BY <2>2 DEF TypeOK, HoldLeg, PeerCloses, DropRevoked, In, Becomes, members, machines,
                records, LegState
  <2>3. QED  BY <1>4, <2>1, <2>2 DEF Legs
<1>5. CASE UNCHANGED vars
  BY <1>5 DEF TypeOK, vars, members, machines, records
<1>6. QED  BY <1>1, <1>2, <1>3, <1>4, <1>5 DEF Next

-----------------------------------------------------------------------------
(* Who owns what. *)

Same == UNCHANGED <<members, machines, tokens, records>>

\* A machine's owner and a token's subject are what their types say.
LEMMA RowTypes ==
  ASSUME TypeOK
  PROVE  /\ \A e \in Endpoint : endpoints[e] # None =>
               endpoints[e].owner \in Owner /\ endpoints[e].code \in Code
         /\ \A t \in Token : tokens[t] # None /\ tokens[t].kind = "endpoint" =>
               tokens[t].subject \in Endpoint
         /\ \A o \in Owner : pairings[o] # None => pairings[o].code \in Code
<1>1. \A e \in Endpoint : endpoints[e] # None => endpoints[e] \in Machine
  BY DEF TypeOK
<1>2. \A o \in Owner : pairings[o] # None => pairings[o] \in Pairing
  BY DEF TypeOK
<1>3. ASSUME NEW t \in Token, tokens[t] # None, tokens[t].kind = "endpoint"
      PROVE  tokens[t].subject \in Endpoint
  <2>1. tokens[t] \in Credential
    BY <1>3 DEF TypeOK
  <2>2. tokens[t] \in [kind: {"endpoint"}, subject: Endpoint, revoked: BOOLEAN]
    BY <1>3, <2>1 DEF Credential
  <2>3. QED  BY <2>2
<1>4. QED  BY <1>1, <1>2, <1>3 DEF Machine, Pairing

\* A claim adds one machine of an active member and the token that speaks for it.
LEMMA ClaimAdds ==
  ASSUME TypeOK, NEW call \in calls, ClaimEndpoint(call), standing[call.owner] = "active"
  PROVE  \E e \in Endpoint, t \in Token :
           /\ endpoints[e] = None /\ tokens[t] = None
           /\ endpoints' \in [Endpoint -> Machine \cup {None}]
           /\ endpoints'[e] # None
           /\ endpoints'[e].owner = call.owner /\ endpoints'[e].code = call.code
           /\ \A x \in Endpoint \ {e} : endpoints'[x] = endpoints[x]
           /\ tokens'[t].kind = "endpoint" /\ tokens'[t].subject = e
           /\ \A x \in Token \ {t} : tokens'[x] = tokens[x]
           /\ paired' = paired \cup {e}
           /\ late' = IF tx # None /\ tx.kind = "uninstall" THEN late \cup {e} ELSE late
<1>1. call.owner \in Owner /\ call.code \in Code
  BY CallTypes DEF ClaimEndpoint
<1>2. PICK e \in Endpoint, t \in Token :
         /\ endpoints[e] = None /\ tokens[t] = None
         /\ endpoints' = [endpoints EXCEPT ![e] = [owner |-> call.owner, code |-> call.code]]
         /\ paired' = paired \cup {e}
         /\ tokens' = [tokens EXCEPT ![t] = [kind |-> "endpoint", subject |-> e,
                                             revoked |-> FALSE]]
         /\ late' = IF tx # None /\ tx.kind = "uninstall" THEN late \cup {e} ELSE late
  BY DEF ClaimEndpoint, Draws
<1>3. [owner |-> call.owner, code |-> call.code] \in Machine
  BY <1>1 DEF Machine
<1>4. /\ endpoints'[e] = [owner |-> call.owner, code |-> call.code]
      /\ tokens'[t] = [kind |-> "endpoint", subject |-> e, revoked |-> FALSE]
  BY <1>2 DEF TypeOK
<1>5. endpoints' \in [Endpoint -> Machine \cup {None}]
  BY <1>2, <1>3 DEF TypeOK
<1>6. endpoints'[e] # None
  BY <1>3, <1>4, NoneIsNothing
<1>7. QED  BY <1>2, <1>4, <1>5, <1>6 DEF TypeOK

\* A commit of a deactivation leaves the member nothing, an uninstall nobody.
LEMMA CommitOwned ==
  ASSUME TypeOK, Owned, Deactivating, Revoking, Commit PROVE Owned'
<1> USE NoneIsNothing
<1>1. tx \in Removal /\ tx.phase = "cleaned"
  BY DEF TypeOK, Commit
<1>2. \A t \in Token : /\ tokens[t] # None => tokens'[t].kind = tokens[t].kind
                                         /\ tokens'[t].subject = tokens[t].subject
                       /\ t \in tx.revoke => tokens'[t].revoked
                       /\ t \notin tx.revoke => tokens'[t] = tokens[t]
  <2>1. tokens' = [t \in Token |-> IF t \in tx.revoke
                                   THEN [tokens[t] EXCEPT !.revoked = TRUE] ELSE tokens[t]]
    BY DEF Commit, Removes
  <2>2. ASSUME NEW t \in tx.revoke
        PROVE  t \in Token /\ tokens[t] \in Credential
    BY <1>1 DEF Commit, Revoking, TypeOK, Removal
  <2>3. QED  BY <2>1, <2>2, RevokedCredential
<1>3. \A t \in tx.revoke : tokens[t] # None
  BY DEF Revoking, Commit
<1>4. CASE tx.kind = "deactivate"
  <2>1. /\ standing' = [o \in Owner |-> IF o \in tx.owners THEN "deactivated" ELSE standing[o]]
        /\ pairings' = [o \in Owner |-> IF o \in tx.owners THEN None ELSE pairings[o]]
        /\ paired' = paired \ MachinesOf(tx.owners)
        /\ recorded' = recorded \ (tx.doomed \cup SessionsOn(MachinesOf(tx.owners)))
        /\ endpoints' = endpoints /\ sessions' = sessions /\ users' = users
    BY <1>4, <1>1 DEF Commit, Removes, Deactivating
  <2>2. /\ \A o \in tx.owners : standing[o] \in {"active", "deactivated"}
        /\ \A t \in Token :
                 tokens[t] # None /\ tokens[t].kind = "endpoint"
                    /\ tokens[t].subject \in MachinesOf(tx.owners) => t \in tx.revoke
    BY <1>4, <1>1 DEF Commit, Deactivating, Present
  <2>3. \A o \in Owner : users'[o] = None => standing'[o] = "none"
    BY <2>1, <2>2 DEF Owned
  <2>4. \A o \in Owner : standing'[o] = "deactivated" => pairings'[o] = None
    BY <2>1 DEF Owned
  <2>5. \A e \in paired' : endpoints'[e] # None /\ standing'[endpoints'[e].owner] = "active"
    BY <2>1, RowTypes DEF Owned, MachinesOf, TypeOK
  <2>6. ASSUME NEW t \in Token, tokens'[t] # None, tokens'[t].kind = "endpoint",
               ~tokens'[t].revoked
        PROVE  /\ endpoints'[tokens'[t].subject] # None
               /\ \/ tokens'[t].subject \in paired'
                  \/ standing'[endpoints'[tokens'[t].subject].owner] = "gone"
    <3>1. t \notin tx.revoke /\ tokens'[t] = tokens[t]
      BY <2>6, <1>2
    <3>2. CASE tokens[t].subject \in paired
      BY <3>1, <3>2, <2>6, <2>1, <2>2 DEF Owned
    <3>3. CASE standing[endpoints[tokens[t].subject].owner] = "gone"
      BY <3>1, <3>3, <2>6, <2>1, <2>2, RowTypes DEF Owned
    <3>4. QED  BY <3>1, <3>2, <3>3, <2>6 DEF Owned
  <2>7. \A t \in Token : tokens'[t] # None /\ tokens'[t].kind = "endpoint"
                            => endpoints'[tokens'[t].subject] # None
    BY <1>2, <1>3, <2>1 DEF Owned
  <2>8. \A s \in recorded' : sessions'[s] \in paired'
    BY <2>1 DEF Owned, SessionsOn
  <2>9. QED  BY <2>3, <2>4, <2>5, <2>6, <2>7, <2>8 DEF Owned
<1>5. CASE tx.kind = "uninstall"
  <2>1. MachinesOf(Targets) = paired
    BY <1>5, RowTypes DEF MachinesOf, Targets, Present, Owned, TypeOK
  <2>2. /\ standing' = [o \in Owner |-> IF Present(o) THEN "gone" ELSE standing[o]]
        /\ paired' = {} /\ recorded' = {}
        /\ endpoints' = endpoints /\ users' = users
    BY <1>5, <2>1 DEF Commit, Removes, Targets, SessionsOn, Owned
  <2>3. \A o \in Owner : /\ users'[o] = None => standing'[o] = "none"
                         /\ standing'[o] # "deactivated"
    BY <2>2 DEF Owned, Present
  <2>4. ASSUME NEW t \in Token, tokens'[t] # None, tokens'[t].kind = "endpoint"
        PROVE  /\ endpoints'[tokens'[t].subject] # None
               /\ \/ tokens'[t].revoked
                  \/ standing'[endpoints'[tokens'[t].subject].owner] = "gone"
    <3>1. CASE t \in tx.revoke
      BY <3>1, <1>2, <1>3, <2>2, <2>4 DEF Owned
    <3>2. CASE t \notin tx.revoke
      <4>1. tokens'[t] = tokens[t]
        BY <3>2, <1>2
      <4>2. endpoints[tokens[t].subject] # None /\ endpoints[tokens[t].subject].owner \in Owner
        BY <4>1, <2>4, RowTypes DEF Owned
      <4>3. QED  BY <4>1, <4>2, <2>2, <2>4 DEF Owned, Present
    <3>3. QED  BY <3>1, <3>2
  <2>5. QED  BY <2>2, <2>3, <2>4 DEF Owned
<1>6. QED  BY <1>1, <1>4, <1>5 DEF Removal

\* Every step keeps what exists in the hands of an active member.
LEMMA OwnedStep ==
  ASSUME TypeOK, Owned, Deactivating, Revoking, [Next]_vars PROVE Owned'
<1> USE NoneIsNothing
<1>1. ASSUME Same PROVE Owned'
  BY <1>1 DEF Same, Owned, members, machines, records
<1>2. CASE Requests
  <2>1. ASSUME NEW p \in Person, NEW wants \in {"code", "token"}, EnsureMember(p, wants)
        PROVE  Owned'
    <3>1. PICK o \in Owner :
             \/ UNCHANGED <<users, standing>>
             \/ /\ users[o] = None
                /\ users' = [users EXCEPT ![o] = p]
                /\ standing' = [standing EXCEPT ![o] = "active"]
      BY <2>1 DEF EnsureMember, Draws
    <3>2. CASE UNCHANGED <<users, standing>>
      BY <2>1, <3>2, <1>1 DEF EnsureMember, Same, members, machines, records
    <3>3. CASE /\ users[o] = None
               /\ users' = [users EXCEPT ![o] = p]
               /\ standing' = [standing EXCEPT ![o] = "active"]
      <4>1. standing[o] = "none" /\ users'[o] # None
        BY <3>3, MembersAssumption DEF Owned, TypeOK, MembersAssumption
      <4>2. \A x \in Owner : standing[x] # "none" => standing'[x] = standing[x]
        BY <3>3, <4>1 DEF TypeOK
      <4>3. \A x \in Owner : /\ users'[x] = None => standing'[x] = "none"
                             /\ standing'[x] = "deactivated" => pairings'[x] = None
        BY <2>1, <3>3, <4>1 DEF TypeOK, Owned, EnsureMember
      <4>4. \A e \in Endpoint : endpoints[e] # None => endpoints[e].owner \in Owner
        BY RowTypes
      <4>5. \A e \in paired' : endpoints'[e] # None
                                /\ standing'[endpoints'[e].owner] = "active"
        BY <2>1, <4>2, <4>4 DEF TypeOK, Owned, EnsureMember, machines
      <4>6. \A t \in Token : tokens'[t] # None /\ tokens'[t].kind = "endpoint" =>
              /\ endpoints'[tokens'[t].subject] # None
              /\ \/ tokens'[t].revoked
                 \/ tokens'[t].subject \in paired'
                 \/ standing'[endpoints'[tokens'[t].subject].owner] = "gone"
        BY <2>1, <4>2, <4>4, RowTypes DEF Owned, EnsureMember, machines
      <4>7. QED  BY <2>1, <4>3, <4>5, <4>6 DEF Owned, EnsureMember, machines, records
    <3>4. QED  BY <3>1, <3>2, <3>3
  <2>2. ASSUME NEW call \in calls, MintPairingCode(call) PROVE Owned'
    <3>1. \A o \in Owner : standing[o] = "deactivated" => pairings'[o] = pairings[o]
      BY <2>2, CallTypes DEF MintPairingCode, TypeOK
    <3>2. QED  BY <2>2, <3>1 DEF MintPairingCode, Owned, machines, records
  <2>3. ASSUME NEW call \in calls, MintClientToken(call) PROVE Owned'
    <3>1. \A t \in Token : \/ tokens'[t] = tokens[t]
                           \/ tokens'[t].kind = "client"
      BY <2>3 DEF MintClientToken, TypeOK
    <3>2. QED  BY <2>3, <3>1 DEF MintClientToken, Owned, members, machines, records
  <2>4. ASSUME NEW call \in calls, ClaimEndpoint(call) PROVE Owned'
    <3>1. CASE standing[call.owner] # "active"
      BY <2>4, <3>1, <1>1 DEF ClaimEndpoint, Same, members, machines, records
    <3>2. CASE standing[call.owner] = "active"
      <4>1. PICK e \in Endpoint, t \in Token :
               /\ endpoints[e] = None /\ tokens[t] = None
               /\ endpoints'[e] # None /\ endpoints'[e].owner = call.owner
               /\ \A x \in Endpoint \ {e} : endpoints'[x] = endpoints[x]
               /\ tokens'[t].kind = "endpoint" /\ tokens'[t].subject = e
               /\ \A x \in Token \ {t} : tokens'[x] = tokens[x]
               /\ paired' = paired \cup {e}
        BY <2>4, <3>2, ClaimAdds
      <4>2. /\ UNCHANGED <<users, standing, pairings, sessions, recorded>>
        BY <2>4 DEF ClaimEndpoint, members, records
      <4>3. \A x \in paired' : endpoints'[x] # None
                               /\ standing'[endpoints'[x].owner] = "active"
        BY <3>2, <4>1, <4>2 DEF Owned, TypeOK
      <4>4. ASSUME NEW x \in Token, tokens'[x] # None, tokens'[x].kind = "endpoint"
            PROVE  /\ endpoints'[tokens'[x].subject] # None
                   /\ \/ tokens'[x].revoked
                      \/ tokens'[x].subject \in paired'
                      \/ standing'[endpoints'[tokens'[x].subject].owner] = "gone"
        <5>1. CASE x = t
          BY <5>1, <4>1
        <5>2. CASE x # t
          <6>1. /\ tokens'[x] = tokens[x] /\ tokens[x].subject \in Endpoint
                /\ endpoints[tokens[x].subject] # None
            BY <5>2, <4>1, <4>4, RowTypes DEF Owned
          <6>2. endpoints'[tokens[x].subject] = endpoints[tokens[x].subject]
            BY <6>1, <4>1
          <6>3. QED  BY <6>1, <6>2, <4>1, <4>2, <4>4 DEF Owned
        <5>3. QED  BY <5>1, <5>2
      <4>5. QED  BY <4>1, <4>2, <4>3, <4>4 DEF Owned
    <3>3. QED  BY <3>1, <3>2
  <2>5. ASSUME NEW call \in calls, CallFails(call) PROVE Owned'
    BY <2>5, <1>1 DEF CallFails, Same
  <2>6. ASSUME NEW o \in Owner, RedeemPairingCode(o) PROVE Owned'
    <3>1. standing[o] = "active"
      BY <2>6 DEF RedeemPairingCode
    <3>2. \A x \in Owner \ {o} : pairings'[x] = pairings[x]
      BY <2>6 DEF RedeemPairingCode, TypeOK
    <3>3. QED  BY <2>6, <3>1, <3>2 DEF RedeemPairingCode, Owned, machines, records
  <2>7. ASSUME NEW s \in Session, NEW l \in LegId, RecordSession(s, l) PROVE Owned'
    <3>1. PICK e \in paired : sessions' = [sessions EXCEPT ![s] = e]
      BY <2>7 DEF RecordSession
    <3>2. \A x \in recorded' : sessions'[x] \in paired'
      BY <2>7, <3>1 DEF RecordSession, machines, Owned, TypeOK
    <3>3. QED  BY <2>7, <3>2 DEF RecordSession, Owned, members, machines
  <2>8. QED
    BY <1>2, <2>1, <2>2, <2>3, <2>4, <2>5, <2>6, <2>7 DEF Requests
<1>3. CASE Expiry
  <2>1. ASSUME NEW o \in Owner, CodeExpires(o) PROVE Owned'
    <3>1. pairings[o] # None /\ \A x \in Owner \ {o} : pairings'[x] = pairings[x]
      BY <2>1 DEF CodeExpires, TypeOK
    <3>2. QED  BY <2>1, <3>1 DEF CodeExpires, Owned, machines, records
  <2>2. ASSUME NEW t \in Token, TokenExpires(t) PROVE Owned'
    <3>1. tokens[t] \in Credential /\ tokens[t].kind = "client"
      BY <2>2 DEF TokenExpires, TypeOK
    <3>2. tokens'[t].kind = "client" /\ \A x \in Token \ {t} : tokens'[x] = tokens[x]
      BY <2>2, <3>1, RevokedCredential DEF TokenExpires, TypeOK
    <3>3. QED  BY <2>2, <3>2 DEF TokenExpires, Owned, members, machines, records
  <2>3. QED  BY <1>3, <2>1, <2>2 DEF Expiry
<1>4. CASE Removing
  <2>1. CASE Commit
    BY <2>1, CommitOwned
  <2>2. CASE ~Commit
    BY <1>4, <2>2, <1>1 DEF Removing, LockMember, LockEndpoints, LockAllEndpoints,
       DeleteSessions, CleanUp, Rollback, Same
  <2>3. QED  BY <2>1, <2>2
<1>5. CASE Legs
  BY <1>5, <1>1 DEF Legs, Authorize, HoldLeg, PeerCloses, DropRevoked, Same
<1>6. CASE UNCHANGED vars
  BY <1>6, <1>1 DEF vars, Same
<1>7. QED  BY <1>2, <1>3, <1>4, <1>5, <1>6 DEF Next
-----------------------------------------------------------------------------
(* Codes. *)

Codes == Paying /\ CodePairsOnce

\* Two redeemed codes under way are two codes: the code tells whose it is.
LEMMA CallByCode ==
  ASSUME TypeOK, Paying, NEW call \in calls, NEW other \in calls,
         call.wants = "endpoint", other.wants = "endpoint", call.code = other.code
  PROVE  call = other
<1>1. call.owner = other.owner
  BY DEF Paying
<1>2. call \in Call /\ other \in Call
  BY DEF TypeOK
<1>3. /\ call \in [wants: {"endpoint"}, owner: Owner, code: Code]
      /\ other \in [wants: {"endpoint"}, owner: Owner, code: Code]
  BY <1>2 DEF Call
<1>4. QED  BY <1>1, <1>3

\* Every step keeps a code from being spent twice.
LEMMA CodesStep ==
  ASSUME TypeOK, Codes, [Next]_vars PROVE Codes'
<1> USE NoneIsNothing
<1>1. ASSUME UNCHANGED <<pairings, endpoints, minted>>,
             \A call \in calls' : call \in calls \/ call.wants # "endpoint"
      PROVE  Codes'
  BY <1>1 DEF Codes, Paying, CodePairsOnce
<1>2. CASE Requests
  <2>1. ASSUME NEW p \in Person, NEW wants \in {"code", "token"}, EnsureMember(p, wants)
        PROVE  Codes'
    BY <2>1, <1>1 DEF EnsureMember, machines
  <2>2. ASSUME NEW call \in calls, MintPairingCode(call) PROVE Codes'
    <3>1. CASE UNCHANGED <<pairings, minted>>
      BY <2>2, <3>1, <1>1 DEF MintPairingCode, machines
    <3>2. CASE ~UNCHANGED <<pairings, minted>>
      <4>1. PICK c \in Code :
               /\ minted[c] = None
               /\ pairings' = [pairings EXCEPT ![call.owner] = [code |-> c, spent |-> FALSE]]
               /\ minted' = [minted EXCEPT ![c] = call.owner]
        BY <2>2, <3>2 DEF MintPairingCode, Draws
      <4>2. call.owner \in Owner
        BY CallTypes
      <4>3. /\ \A x \in Code \ {c} : minted'[x] = minted[x]
            /\ minted'[c] = call.owner
            /\ pairings'[call.owner].code = c
            /\ \A o \in Owner \ {call.owner} : pairings'[o] = pairings[o]
            /\ endpoints' = endpoints /\ calls' \subseteq calls
        BY <2>2, <4>1, <4>2 DEF MintPairingCode, TypeOK, machines
      <4>4. \A e \in Endpoint : endpoints[e] # None =>
               /\ endpoints[e].code # c /\ endpoints[e].code \in Code
        BY <4>1, RowTypes DEF Codes, CodePairsOnce
      <4>5. \A x \in calls : x.wants = "endpoint" => x.code # c /\ x.code \in Code
        BY <4>1, CallTypes DEF Codes, Paying
      <4>6. \A o \in Owner : pairings[o] # None => pairings[o].code # c
                                               /\ pairings[o].code \in Code
        BY <4>1, RowTypes DEF Codes, Paying
      <4>7. CodePairsOnce'
        BY <4>3, <4>4 DEF Codes, CodePairsOnce
      <4>8. Paying'
        BY <4>3, <4>4, <4>5, <4>6 DEF Codes, Paying
      <4>9. QED  BY <4>7, <4>8 DEF Codes
    <3>3. QED  BY <3>1, <3>2
  <2>3. ASSUME NEW call \in calls, MintClientToken(call) PROVE Codes'
    BY <2>3, <1>1 DEF MintClientToken, members, machines
  <2>4. ASSUME NEW call \in calls, ClaimEndpoint(call) PROVE Codes'
    <3>1. CASE standing[call.owner] # "active"
      BY <2>4, <3>1, <1>1 DEF ClaimEndpoint, members
    <3>2. CASE standing[call.owner] = "active"
      <4>1. PICK e \in Endpoint :
               /\ endpoints[e] = None
               /\ endpoints'[e].owner = call.owner /\ endpoints'[e].code = call.code
               /\ \A x \in Endpoint \ {e} : endpoints'[x] = endpoints[x]
        BY <2>4, <3>2, ClaimAdds
      <4>2. /\ UNCHANGED <<pairings, minted>> /\ calls' = calls \ {call}
            /\ call.wants = "endpoint"
        BY <2>4 DEF ClaimEndpoint, members
      <4>3. /\ minted[call.code] = call.owner
            /\ \A x \in Endpoint : endpoints[x] # None => endpoints[x].code # call.code
            /\ \A o \in Owner : pairings[o] # None /\ ~pairings[o].spent
                                   => pairings[o].code # call.code
        BY <4>2 DEF Codes, Paying
      <4>4. \A x \in calls' : x.wants = "endpoint" => x.code # call.code
        BY <4>2, CallByCode DEF Codes
      <4>5. CodePairsOnce'
        BY <4>1, <4>2, <4>3 DEF Codes, CodePairsOnce
      <4>6. Paying'
        BY <4>1, <4>2, <4>3, <4>4 DEF Codes, Paying
      <4>7. QED  BY <4>5, <4>6 DEF Codes
    <3>3. QED  BY <3>1, <3>2
  <2>5. ASSUME NEW call \in calls, CallFails(call) PROVE Codes'
    BY <2>5, <1>1 DEF CallFails, members, machines
  <2>6. ASSUME NEW o \in Owner, RedeemPairingCode(o) PROVE Codes'
    <3>1. pairings[o] \in Pairing /\ ~pairings[o].spent /\ pairings[o] # None
      BY <2>6 DEF TypeOK, RedeemPairingCode
    <3>2. DEFINE c == pairings[o].code
    <3>3. DEFINE new == [wants |-> "endpoint", owner |-> o, code |-> c]
    <3>4. /\ \A x \in Owner \ {o} : pairings'[x] = pairings[x]
          /\ pairings'[o].code = c /\ pairings'[o].spent
          /\ UNCHANGED <<endpoints, minted>> /\ calls' = calls \cup {new}
      BY <2>6, <3>1 DEF TypeOK, RedeemPairingCode, machines, Pairing
    <3>5. minted[c] = o /\ \A x \in Owner \ {o} : pairings[x] # None => pairings[x].code # c
      BY <3>1 DEF Codes, Paying
    <3>6. \A e \in Endpoint : endpoints[e] # None => endpoints[e].code # c
      BY <3>1 DEF Codes, Paying
    <3>7. new.owner = o /\ new.code = c
      OBVIOUS
    <3>8. CodePairsOnce'
      BY <3>4 DEF Codes, CodePairsOnce
    <3> HIDE DEF c, new
    <3>9. Paying'
      <4>1. \A x \in Owner : pairings'[x] # None =>
               pairings[x] # None /\ pairings'[x].code = pairings[x].code
        BY <3>1, <3>4 DEF c
      <4>2. \A x \in Owner : pairings'[x] # None /\ ~pairings'[x].spent =>
               x # o /\ pairings'[x] = pairings[x]
        BY <3>4
      <4>3. ASSUME NEW x \in Owner, pairings'[x] # None
            PROVE  minted'[pairings'[x].code] = x
        BY <4>1, <4>3, <3>4 DEF Codes, Paying
      <4>4. ASSUME NEW call \in calls', call.wants = "endpoint"
            PROVE  /\ minted'[call.code] = call.owner
                   /\ \A e \in Endpoint : endpoints'[e] # None =>
                          endpoints'[e].code # call.code
                   /\ \A x \in Owner : pairings'[x] # None /\ ~pairings'[x].spent
                                          => pairings'[x].code # call.code
        <5>1. CASE call = new
          BY <5>1, <3>4, <3>5, <3>6, <3>7, <4>2
        <5>2. CASE call \in calls
          BY <5>2, <4>4, <3>4, <4>2 DEF Codes, Paying
        <5>3. QED  BY <5>1, <5>2, <3>4
      <4>5. \A x \in Owner : pairings'[x] # None /\ ~pairings'[x].spent =>
               \A e \in Endpoint : endpoints'[e] # None =>
                  endpoints'[e].code # pairings'[x].code
        BY <4>2, <3>4 DEF Codes, Paying
      <4>6. QED  BY <4>3, <4>4, <4>5 DEF Paying
    <3>10. QED  BY <3>8, <3>9 DEF Codes
  <2>7. ASSUME NEW s \in Session, NEW l \in LegId, RecordSession(s, l) PROVE Codes'
    BY <2>7, <1>1 DEF RecordSession, members, machines
  <2>8. QED
    BY <1>2, <2>1, <2>2, <2>3, <2>4, <2>5, <2>6, <2>7 DEF Requests
<1>3. CASE Expiry
  <2>1. ASSUME NEW o \in Owner, CodeExpires(o) PROVE Codes'
    <3>1. /\ pairings[o] \in Pairing /\ pairings[o] # None
          /\ pairings' = [pairings EXCEPT ![o].spent = TRUE]
          /\ UNCHANGED <<endpoints, minted, calls>>
      BY <2>1 DEF TypeOK, CodeExpires, machines
    <3>2. /\ \A x \in Owner \ {o} : pairings'[x] = pairings[x]
          /\ pairings'[o].code = pairings[o].code /\ pairings'[o].spent
      BY <3>1 DEF TypeOK, Pairing
    <3>3. QED  BY <3>1, <3>2 DEF Codes, Paying, CodePairsOnce
  <2>2. ASSUME NEW t \in Token, TokenExpires(t) PROVE Codes'
    BY <2>2, <1>1 DEF TokenExpires, members, machines
  <2>3. QED  BY <1>3, <2>1, <2>2 DEF Expiry
<1>4. CASE Removing
  <2>1. CASE Commit
    <3>1. PICK owners : pairings' = [o \in Owner |-> IF o \in owners THEN None ELSE pairings[o]]
      BY <2>1 DEF Commit, Removes
    <3>2. \A o \in Owner : pairings'[o] # None => pairings'[o] = pairings[o]
      BY <3>1
    <3>3. UNCHANGED <<endpoints, minted, calls>>
      BY <2>1 DEF Commit
    <3>4. QED  BY <3>2, <3>3 DEF Codes, Paying, CodePairsOnce
  <2>2. CASE ~Commit
    BY <1>4, <2>2, <1>1 DEF Removing, LockMember, LockEndpoints, LockAllEndpoints,
       DeleteSessions, CleanUp, Rollback, members, machines
  <2>3. QED  BY <2>1, <2>2
<1>5. CASE Legs
  BY <1>5, <1>1 DEF Legs, Authorize, HoldLeg, PeerCloses, DropRevoked, members, machines
<1>6. CASE UNCHANGED vars
  BY <1>6, <1>1 DEF vars, members, machines
<1>7. QED  BY <1>2, <1>3, <1>4, <1>5, <1>6 DEF Next
-----------------------------------------------------------------------------
(* What a removal knows while it is under way. *)

\* The tokens a removal has marked exist.
LEMMA RevokingStep ==
  ASSUME TypeOK, Revoking, [Next]_vars PROVE Revoking'
<1> USE NoneIsNothing
<1>1. ASSUME \A t \in Token : tokens[t] # None => tokens'[t] # None, tx' = tx
      PROVE  Revoking'
  BY <1>1 DEF Revoking, TypeOK, Removal
<1>2. ASSUME tokens' = tokens, tx' = tx PROVE Revoking'
  BY <1>2 DEF Revoking
<1>3. CASE Requests
  <2>1. ASSUME NEW call \in calls, MintClientToken(call) PROVE Revoking'
    <3>1. PICK t \in Token : tokens[t] = None /\ \A x \in Token \ {t} : tokens'[x] = tokens[x]
      BY <2>1 DEF MintClientToken, Draws, TypeOK
    <3>2. QED  BY <2>1, <3>1, <1>1 DEF MintClientToken
  <2>2. ASSUME NEW call \in calls, ClaimEndpoint(call) PROVE Revoking'
    <3>1. CASE standing[call.owner] # "active"
      BY <2>2, <3>1, <1>2 DEF ClaimEndpoint
    <3>2. CASE standing[call.owner] = "active"
      <4>1. PICK t \in Token : tokens[t] = None /\ \A x \in Token \ {t} : tokens'[x] = tokens[x]
        BY <2>2, <3>2, ClaimAdds
      <4>2. QED  BY <2>2, <4>1, <1>1 DEF ClaimEndpoint
    <3>3. QED  BY <3>1, <3>2
  <2>3. CASE ~\E call \in calls : MintClientToken(call) \/ ClaimEndpoint(call)
    BY <1>3, <2>3, <1>2 DEF Requests, EnsureMember, MintPairingCode, CallFails,
       RedeemPairingCode, RecordSession
  <2>4. QED  BY <2>1, <2>2, <2>3
<1>4. CASE Expiry
  <2>1. ASSUME NEW o \in Owner, CodeExpires(o) PROVE Revoking'
    BY <2>1, <1>2 DEF CodeExpires
  <2>2. ASSUME NEW t \in Token, TokenExpires(t) PROVE Revoking'
    <3>1. tokens[t] \in Credential
      BY <2>2 DEF TokenExpires, TypeOK
    <3>2. tokens'[t] \in Credential /\ \A x \in Token \ {t} : tokens'[x] = tokens[x]
      BY <2>2, <3>1, RevokedCredential DEF TokenExpires, TypeOK
    <3>3. QED  BY <2>2, <3>2, <1>1 DEF TokenExpires
  <2>3. QED  BY <1>4, <2>1, <2>2 DEF Expiry
<1>5. CASE Removing
  <2>1. CASE CleanUp
    BY <2>1 DEF CleanUp, Revoking, TypeOK, Removal
  <2>2. CASE LockEndpoints \/ DeleteSessions
    BY <2>2 DEF LockEndpoints, DeleteSessions, Revoking, TypeOK, Removal
  <2>3. CASE LockAllEndpoints \/ (\E o \in Owner : LockMember(o))
    BY <2>3 DEF LockAllEndpoints, LockMember, Opened, Revoking
  <2>4. CASE Commit \/ Rollback
    BY <2>4 DEF Commit, Rollback, Revoking
  <2>5. QED  BY <1>5, <2>1, <2>2, <2>3, <2>4 DEF Removing
<1>6. CASE Legs
  BY <1>6, <1>2 DEF Legs, Authorize, HoldLeg, PeerCloses, DropRevoked
<1>7. CASE UNCHANGED vars
  BY <1>7, <1>2 DEF vars
<1>8. QED  BY <1>3, <1>4, <1>5, <1>6, <1>7 DEF Next

\* While the member is locked nothing of theirs appears: what the statements of
\* a deactivation saw is what there is at its commit.
LEMMA DeactivatingStep ==
  ASSUME TypeOK, Owned, Deactivating, [Next]_vars PROVE Deactivating'
<1> USE NoneIsNothing
<1>0. ASSUME tx' = tx,
             tx # None /\ tx.kind = "deactivate" =>
                /\ \A o \in tx.owners : Present(o) => Present(o)'
                /\ MachinesOf(tx.owners)' = MachinesOf(tx.owners)
                /\ SessionsOn(tx.locked)' \subseteq SessionsOn(tx.locked)
                /\ tx.phase = "cleaned" => \A t \in Token :
                      tokens'[t] # None /\ tokens'[t].kind = "endpoint"
                         /\ tokens'[t].subject \in tx.locked => tokens'[t] = tokens[t]
      PROVE  Deactivating'
  <2> SUFFICES ASSUME tx # None, tx.kind = "deactivate" PROVE Deactivating'
    BY <1>0 DEF Deactivating
  <2>1. \A o \in tx.owners : Present(o)'
    BY <1>0 DEF Deactivating
  <2>2. tx.phase # "member" => MachinesOf(tx.owners)' = tx.locked
    BY <1>0 DEF Deactivating
  <2>3. tx.phase \in {"sessions", "cleaned"} => SessionsOn(tx.locked)' \subseteq tx.doomed
    BY <1>0 DEF Deactivating
  <2>4. ASSUME tx.phase = "cleaned"
        PROVE  /\ tx.unpair = tx.locked
               /\ \A t \in Token :
                        tokens'[t] # None /\ tokens'[t].kind = "endpoint"
                           /\ tokens'[t].subject \in tx.locked => t \in tx.revoke
    <3>1. /\ tx.unpair = tx.locked
          /\ \A t \in Token :
                   tokens[t] # None /\ tokens[t].kind = "endpoint"
                      /\ tokens[t].subject \in tx.locked => t \in tx.revoke
      BY <2>4 DEF Deactivating
    <3>2. \A t \in Token :
                tokens'[t] # None /\ tokens'[t].kind = "endpoint"
                   /\ tokens'[t].subject \in tx.locked => tokens'[t] = tokens[t]
      BY <1>0, <2>4
    <3>3. QED  BY <3>1, <3>2
  <2>5. QED  BY <2>1, <2>2, <2>3, <2>4, <1>0 DEF Deactivating
<1>1. ASSUME UNCHANGED <<standing, machines, tokens, records, tx>> PROVE Deactivating'
  BY <1>1, <1>0 DEF Present, MachinesOf, SessionsOn, machines, records
<1>2. CASE Requests
  <2>1. ASSUME NEW p \in Person, NEW wants \in {"code", "token"}, EnsureMember(p, wants)
        PROVE  Deactivating'
    <3>1. \A o \in Owner : Present(o) => Present(o)'
      BY <2>1 DEF EnsureMember, Present, TypeOK
    <3>2. UNCHANGED <<machines, tokens, records, tx>>
      BY <2>1 DEF EnsureMember
    <3>3. tx # None => tx.owners \subseteq Owner
      BY DEF TypeOK, Removal
    <3>4. tx # None => /\ MachinesOf(tx.owners)' = MachinesOf(tx.owners)
                       /\ SessionsOn(tx.locked)' = SessionsOn(tx.locked)
      BY <3>2 DEF MachinesOf, SessionsOn, machines, records
    <3>5. QED  BY <3>1, <3>2, <3>3, <3>4, <1>0
  <2>2. ASSUME NEW call \in calls, MintPairingCode(call) \/ CallFails(call) PROVE Deactivating'
    BY <2>2, <1>1 DEF MintPairingCode, CallFails, members
  <2>3. ASSUME NEW call \in calls, MintClientToken(call) PROVE Deactivating'
    <3>1. \A t \in Token : tokens'[t] = tokens[t] \/ tokens'[t].kind = "client"
      BY <2>3 DEF MintClientToken, TypeOK
    <3>2. UNCHANGED <<standing, machines, records, tx>>
      BY <2>3 DEF MintClientToken, members
    <3>3. QED
      BY <3>1, <3>2, <1>0 DEF Present, MachinesOf, SessionsOn, machines, records
  <2>4. ASSUME NEW call \in calls, ClaimEndpoint(call) PROVE Deactivating'
    <3>1. CASE standing[call.owner] # "active"
      BY <2>4, <3>1, <1>1 DEF ClaimEndpoint, machines, members
    <3>2. CASE standing[call.owner] = "active" /\ tx # None /\ tx.kind = "deactivate"
      <4>1. PICK e \in Endpoint, t \in Token :
               /\ endpoints[e] = None
               /\ endpoints'[e].owner = call.owner
               /\ \A x \in Endpoint \ {e} : endpoints'[x] = endpoints[x]
               /\ tokens'[t].subject = e
               /\ \A x \in Token \ {t} : tokens'[x] = tokens[x]
               /\ paired' = paired \cup {e}
        BY <2>4, <3>2, ClaimAdds
      <4>2. call.owner \notin tx.owners /\ UNCHANGED <<standing, sessions, recorded, tx>>
        BY <2>4, <3>2 DEF ClaimEndpoint, LocksMember, members, records
      <4>3. e \notin paired
        BY <4>1 DEF Owned
      <4>4. MachinesOf(tx.owners)' = MachinesOf(tx.owners)
        BY <4>1, <4>2, <4>3 DEF MachinesOf, TypeOK
      <4>5. SessionsOn(tx.locked)' = SessionsOn(tx.locked)
        BY <4>2 DEF SessionsOn
      <4>6. tx.phase = "cleaned" => e \notin tx.locked
        BY <4>3, <3>2 DEF Deactivating, MachinesOf
      <4>7. \A o \in tx.owners : Present(o) => Present(o)'
        BY <4>2 DEF Present
      <4>8. tx.phase = "cleaned" => \A x \in Token :
               tokens'[x].subject \in tx.locked => tokens'[x] = tokens[x]
        BY <4>1, <4>6
      <4>9. QED
        BY <4>2, <4>4, <4>5, <4>7, <4>8, <1>0
    <3>3. CASE ~(tx # None /\ tx.kind = "deactivate")
      BY <2>4, <3>3 DEF ClaimEndpoint, Deactivating
    <3>4. QED  BY <3>1, <3>2, <3>3
  <2>5. ASSUME NEW o \in Owner, RedeemPairingCode(o) PROVE Deactivating'
    BY <2>5, <1>1 DEF RedeemPairingCode
  <2>6. ASSUME NEW s \in Session, NEW l \in LegId, RecordSession(s, l) PROVE Deactivating'
    <3>1. PICK e \in paired : ~LocksEndpoint(e) /\ sessions' = [sessions EXCEPT ![s] = e]
      BY <2>6 DEF RecordSession
    <3>2. UNCHANGED <<standing, machines, tokens, tx>> /\ recorded' = recorded \cup {s}
      BY <2>6 DEF RecordSession, members
    <3>3. tx # None => SessionsOn(tx.locked)' \subseteq SessionsOn(tx.locked)
      BY <3>1, <3>2 DEF SessionsOn, LocksEndpoint, TypeOK
    <3>4. tx # None => MachinesOf(tx.owners)' = MachinesOf(tx.owners)
      BY <3>2 DEF MachinesOf, machines
    <3>5. QED
      BY <3>2, <3>3, <3>4, <1>0 DEF Present
  <2>7. QED
    BY <1>2, <2>1, <2>2, <2>3, <2>4, <2>5, <2>6 DEF Requests
<1>3. CASE Expiry
  <2>1. ASSUME NEW o \in Owner, CodeExpires(o) PROVE Deactivating'
    BY <2>1, <1>1 DEF CodeExpires
  <2>2. ASSUME NEW t \in Token, TokenExpires(t) PROVE Deactivating'
    <3>1. tokens[t] \in Credential /\ tokens[t].kind = "client"
      BY <2>2 DEF TokenExpires, TypeOK
    <3>2. tokens'[t].kind = "client" /\ \A x \in Token \ {t} : tokens'[x] = tokens[x]
      BY <2>2, <3>1, RevokedCredential DEF TokenExpires, TypeOK
    <3>3. UNCHANGED <<standing, machines, records, tx>>
      BY <2>2 DEF TokenExpires, members
    <3>4. QED
      BY <3>2, <3>3, <1>0 DEF Present, MachinesOf, SessionsOn, machines, records
  <2>3. QED  BY <1>3, <2>1, <2>2 DEF Expiry
<1>4. CASE Removing
  <2>1. ASSUME NEW o \in Owner, LockMember(o) PROVE Deactivating'
    BY <2>1 DEF LockMember, Opened, Deactivating, Present, members
  <2>2. CASE LockEndpoints
    BY <2>2 DEF LockEndpoints, Deactivating, Present, MachinesOf, TypeOK, Removal, members,
       machines
  <2>3. CASE LockAllEndpoints
    BY <2>3 DEF LockAllEndpoints, Opened, Deactivating
  <2>4. CASE DeleteSessions \/ CleanUp
    <3> SUFFICES ASSUME tx.kind = "deactivate" PROVE Deactivating'
      <4>1. tx \in Removal
        BY <2>4 DEF DeleteSessions, CleanUp, TypeOK
      <4>2. tx'.kind = tx.kind
        BY <2>4, <4>1 DEF DeleteSessions, CleanUp, Removal
      <4>3. QED  BY <4>2 DEF Deactivating
    <3>1. Targets = tx.owners
      BY DEF Targets
    <3>2. UNCHANGED <<standing, machines, tokens, records>> /\ tx \in Removal /\ tx # None
          /\ tx.phase \in {"endpoints", "sessions"}
      BY <2>4 DEF DeleteSessions, CleanUp, members, TypeOK
    <3>3. MachinesOf(tx.owners) = tx.locked
      BY <3>2 DEF Deactivating
    <3>4. /\ tx'.owners = tx.owners /\ tx'.locked = tx.locked
          /\ \/ /\ tx'.phase = "sessions"
                /\ tx'.doomed = SessionsOn(tx.locked)
             \/ /\ tx'.phase = "cleaned" /\ tx.phase = "sessions"
                /\ tx'.doomed = tx.doomed /\ tx'.unpair = tx.locked
                /\ \A t \in Token :
                         tokens[t] # None /\ tokens[t].kind = "endpoint"
                            /\ tokens[t].subject \in tx.locked => t \in tx'.revoke
      <4>1. CASE DeleteSessions
        BY <4>1, <3>1, <3>2, <3>3 DEF DeleteSessions, Removal
      <4>2. CASE CleanUp
        <5>1. /\ tx'.owners = tx.owners /\ tx'.locked = tx.locked
              /\ tx'.phase = "cleaned" /\ tx.phase = "sessions"
              /\ tx'.doomed = tx.doomed /\ tx'.unpair = MachinesOf(tx.owners)
              /\ tx'.revoke = {t \in Token :
                                 /\ tokens[t] # None
                                 /\ IF tokens[t].kind = "client"
                                    THEN tokens[t].subject \in Targets
                                    ELSE tokens[t].subject \in MachinesOf(Targets)}
          BY <4>2, <3>2 DEF CleanUp, Removal
        <5>2. QED  BY <5>1, <3>1, <3>3
      <4>3. QED  BY <2>4, <4>1, <4>2
    <3>5. /\ MachinesOf(tx.owners)' = MachinesOf(tx.owners)
          /\ SessionsOn(tx.locked)' = SessionsOn(tx.locked)
          /\ \A o \in tx'.owners : Present(o)'
      <4>1. /\ MachinesOf(tx.owners)' = MachinesOf(tx.owners)
            /\ SessionsOn(tx.locked)' = SessionsOn(tx.locked)
        BY <3>2, <3>4 DEF MachinesOf, SessionsOn, machines, records
      <4>2. \A o \in tx.owners : Present(o)
        BY <3>2 DEF Deactivating
      <4>3. QED  BY <4>1, <4>2, <3>2, <3>4 DEF Present
    <3>6. tx.phase = "sessions" => SessionsOn(tx.locked) \subseteq tx.doomed
      BY <3>2 DEF Deactivating
    <3>7. QED
      BY <3>2, <3>3, <3>4, <3>5, <3>6 DEF Deactivating
  <2>5. CASE Commit \/ Rollback
    BY <2>5 DEF Commit, Rollback, Deactivating
  <2>6. QED  BY <1>4, <2>1, <2>2, <2>3, <2>4, <2>5 DEF Removing
<1>5. CASE Legs
  BY <1>5, <1>1 DEF Legs, Authorize, HoldLeg, PeerCloses, DropRevoked, members
<1>6. CASE UNCHANGED vars
  BY <1>6, <1>1 DEF vars, members
<1>7. QED  BY <1>2, <1>3, <1>4, <1>5, <1>6 DEF Next

\* An uninstall holds every machine there was, so what it has not deleted was
\* recorded on a machine that was claimed beside it.
LEMMA UninstallingStep ==
  ASSUME TypeOK, Owned, Uninstalling, [Next]_vars PROVE Uninstalling'
<1> USE NoneIsNothing
<1>0. ASSUME tx' = tx,
             tx # None /\ tx.kind = "uninstall" =>
                /\ late \subseteq late'
                /\ paired' \subseteq paired \cup late'
                /\ tx.phase \in {"sessions", "cleaned"} => \A s \in recorded' :
                      \/ s \in recorded /\ sessions'[s] = sessions[s]
                      \/ sessions'[s] \in late'
      PROVE  Uninstalling'
  <2> SUFFICES ASSUME tx # None, tx.kind = "uninstall" PROVE Uninstalling'
    BY <1>0 DEF Uninstalling
  <2>1. tx.phase # "member" /\ paired' \subseteq tx.locked \cup late'
    BY <1>0 DEF Uninstalling
  <2>2. ASSUME tx.phase \in {"sessions", "cleaned"}, NEW s \in recorded'
        PROVE  s \in tx.doomed \/ sessions'[s] \in late'
    BY <1>0, <2>2 DEF Uninstalling
  <2>3. QED  BY <2>1, <2>2, <1>0 DEF Uninstalling
<1>1. ASSUME UNCHANGED <<machines, records, tx>> PROVE Uninstalling'
  BY <1>1, <1>0 DEF machines, records
<1>2. CASE Requests
  <2>1. ASSUME NEW call \in calls, ClaimEndpoint(call) PROVE Uninstalling'
    <3>1. CASE standing[call.owner] # "active"
      BY <2>1, <3>1, <1>1 DEF ClaimEndpoint, machines
    <3>2. CASE standing[call.owner] = "active"
      <4>1. /\ tx # None /\ tx.kind = "uninstall" =>
                  paired' \subseteq paired \cup late' /\ late \subseteq late'
        BY <2>1, <3>2, ClaimAdds
      <4>2. QED  BY <2>1, <4>1, <1>0 DEF ClaimEndpoint, records
    <3>3. QED  BY <3>1, <3>2
  <2>2. ASSUME NEW s \in Session, NEW l \in LegId, RecordSession(s, l) PROVE Uninstalling'
    <3>1. PICK e \in paired : ~LocksEndpoint(e) /\ sessions' = [sessions EXCEPT ![s] = e]
      BY <2>2 DEF RecordSession
    <3>2. UNCHANGED <<machines, tx>> /\ recorded' = recorded \cup {s}
      BY <2>2 DEF RecordSession
    <3>3. tx # None /\ tx.kind = "uninstall" => e \in late
      BY <3>1 DEF Uninstalling, LocksEndpoint
    <3>4. sessions'[s] = e /\ \A x \in recorded \ {s} : sessions'[x] = sessions[x]
      BY <3>1 DEF TypeOK
    <3>5. QED  BY <3>2, <3>3, <3>4, <1>0 DEF machines
  <2>3. CASE ~\E call \in calls : ClaimEndpoint(call)
    <3>1. CASE \E s \in Session, l \in LegId : RecordSession(s, l)
      BY <3>1, <2>2
    <3>2. CASE ~\E s \in Session, l \in LegId : RecordSession(s, l)
      BY <1>2, <2>3, <3>2, <1>1 DEF Requests, EnsureMember, MintPairingCode, MintClientToken,
         CallFails, RedeemPairingCode
    <3>3. QED  BY <3>1, <3>2
  <2>4. QED  BY <2>1, <2>3
<1>3. CASE Expiry
  BY <1>3, <1>1 DEF Expiry, CodeExpires, TokenExpires
<1>4. CASE Removing
  <2>1. CASE LockEndpoints \/ (\E o \in Owner : LockMember(o))
    <3>1. tx' # None => tx'.kind = "deactivate"
      <4>1. CASE LockEndpoints
        <5>1. tx \in Removal /\ tx.phase = "member" /\ tx # None
          BY <4>1 DEF LockEndpoints, TypeOK
        <5>2. tx.kind = "deactivate"
          BY <5>1 DEF Uninstalling, Removal
        <5>3. QED  BY <4>1, <5>1, <5>2 DEF LockEndpoints, Removal
      <4>2. CASE \E o \in Owner : LockMember(o)
        BY <4>2 DEF LockMember, Opened
      <4>3. QED  BY <2>1, <4>1, <4>2
    <3>2. QED  BY <3>1 DEF Uninstalling
  <2>2. CASE LockAllEndpoints
    BY <2>2 DEF LockAllEndpoints, Opened, Uninstalling, machines
  <2>3. CASE DeleteSessions
    <3>1. /\ tx \in Removal /\ tx # None /\ UNCHANGED <<machines, records>>
          /\ tx' = [tx EXCEPT !.phase = "sessions", !.doomed = SessionsOn(MachinesOf(Targets))]
      BY <2>3 DEF DeleteSessions, TypeOK
    <3>2. /\ tx'.kind = tx.kind /\ tx'.phase = "sessions" /\ tx'.locked = tx.locked
          /\ tx'.doomed = SessionsOn(MachinesOf(Targets))
      BY <3>1 DEF Removal
    <3>3. tx.kind = "uninstall" => MachinesOf(Targets) = paired
      BY RowTypes DEF MachinesOf, Targets, Present, Owned, TypeOK
    <3>4. SessionsOn(paired) = recorded
      BY DEF SessionsOn, Owned
    <3>5. QED  BY <3>1, <3>2, <3>3, <3>4 DEF Uninstalling, machines, records
  <2>4. CASE CleanUp
    <3>1. tx \in Removal /\ tx # None /\ tx.phase = "sessions" /\ UNCHANGED <<machines, records>>
      BY <2>4 DEF CleanUp, TypeOK
    <3>2. /\ tx'.kind = tx.kind /\ tx'.phase = "cleaned" /\ tx'.locked = tx.locked
          /\ tx'.doomed = tx.doomed
      BY <2>4, <3>1 DEF CleanUp, Removal
    <3>3. QED  BY <3>1, <3>2 DEF Uninstalling, machines, records
  <2>5. CASE Commit \/ Rollback
    BY <2>5 DEF Commit, Rollback, Uninstalling
  <2>6. QED  BY <1>4, <2>1, <2>2, <2>3, <2>4, <2>5 DEF Removing
<1>5. CASE Legs
  BY <1>5, <1>1 DEF Legs, Authorize, HoldLeg, PeerCloses, DropRevoked
<1>6. CASE UNCHANGED vars
  BY <1>6, <1>1 DEF vars
<1>7. QED  BY <1>2, <1>3, <1>4, <1>5, <1>6 DEF Next

-----------------------------------------------------------------------------
(* What a removal reports. *)

\* Only a commit takes a session's row away, and what it takes it returns.
LEMMA ReportsStep ==
  ASSUME TypeOK, Deactivating, Uninstalling, RemovalReports, [Next]_vars
  PROVE  RemovalReports'
<1> USE NoneIsNothing
<1>1. ASSUME UNCHANGED <<machines, records>> PROVE RemovalReports'
  BY <1>1 DEF RemovalReports, machines, records
<1>2. CASE Requests
  <2>1. ASSUME NEW call \in calls, ClaimEndpoint(call) PROVE RemovalReports'
    BY <2>1 DEF ClaimEndpoint, RemovalReports, records
  <2>2. ASSUME NEW s \in Session, NEW l \in LegId, RecordSession(s, l) PROVE RemovalReports'
    <3>1. /\ \A x \in Session \ {s} : sessions'[x] = sessions[x]
          /\ recorded' = recorded \cup {s} /\ UNCHANGED <<machines, reported>>
      BY <2>2 DEF RecordSession, TypeOK
    <3>2. QED  BY <3>1 DEF RemovalReports, machines
  <2>3. CASE ~\E call \in calls : ClaimEndpoint(call)
    <3>1. CASE \E s \in Session, l \in LegId : RecordSession(s, l)
      BY <3>1, <2>2
    <3>2. CASE ~\E s \in Session, l \in LegId : RecordSession(s, l)
      BY <1>2, <2>3, <3>2, <1>1 DEF Requests, EnsureMember, MintPairingCode, MintClientToken,
         CallFails, RedeemPairingCode
    <3>3. QED  BY <3>1, <3>2
  <2>4. QED  BY <2>1, <2>3
<1>3. CASE Expiry
  BY <1>3, <1>1 DEF Expiry, CodeExpires, TokenExpires
<1>4. CASE Removing
  <2>1. CASE Commit
    <3>1. /\ tx \in Removal /\ tx # None /\ tx.phase = "cleaned"
          /\ UNCHANGED <<late, sessions>> /\ reported' = reported \cup tx.doomed
      BY <2>1 DEF Commit, Removes, TypeOK
    <3>2. CASE tx.kind = "deactivate"
      <4>1. recorded' = recorded \ (tx.doomed \cup SessionsOn(tx.locked))
        BY <2>1, <3>1, <3>2 DEF Commit, Removes, Deactivating
      <4>2. SessionsOn(tx.locked) \subseteq tx.doomed
        BY <3>1, <3>2 DEF Deactivating
      <4>3. QED  BY <3>1, <4>1, <4>2 DEF RemovalReports
    <3>3. CASE tx.kind = "uninstall"
      <4>1. \A s \in recorded : s \in tx.doomed \/ sessions[s] \in late
        BY <3>1, <3>3 DEF Uninstalling
      <4>2. QED  BY <3>1, <4>1 DEF RemovalReports
    <3>4. QED  BY <3>1, <3>2, <3>3 DEF Removal
  <2>2. CASE ~Commit
    BY <1>4, <2>2, <1>1 DEF Removing, LockMember, LockEndpoints, LockAllEndpoints,
       DeleteSessions, CleanUp, Rollback
  <2>3. QED  BY <2>1, <2>2
<1>5. CASE Legs
  BY <1>5, <1>1 DEF Legs, Authorize, HoldLeg, PeerCloses, DropRevoked
<1>6. CASE UNCHANGED vars
  BY <1>6, <1>1 DEF vars
<1>7. QED  BY <1>2, <1>3, <1>4, <1>5, <1>6 DEF Next

-----------------------------------------------------------------------------
(* The theorems. *)

\* The inductive invariant holds of every behaviour of the store.
LEMMA Inductive == Spec => []IInv
<1>1. Init => IInv
  BY InitIInv
<1>2. IInv /\ [Next]_vars => IInv'
  <2> SUFFICES ASSUME IInv, [Next]_vars PROVE IInv'
    OBVIOUS
  <2>1. TypeOK' /\ Owned' /\ Codes' /\ Deactivating' /\ Uninstalling' /\ Revoking'
    BY TypeStep, OwnedStep, CodesStep, DeactivatingStep, UninstallingStep, RevokingStep
       DEF IInv, Codes
  <2>2. RemovalReports'
    BY ReportsStep DEF IInv
  <2>3. QED  BY <2>1, <2>2 DEF IInv, Codes
<1>3. QED  BY <1>1, <1>2, PTL DEF Spec

\* The tables, the requests and the legs are what their types say.
THEOREM MembersTypes == Spec => []TypeOK
<1>1. IInv => TypeOK
  BY DEF IInv
<1>2. QED  BY <1>1, Inductive, PTL

\* A pairing code pairs one machine at most, and pairs it to the member it was
\* minted for (redeemPairingCode, claimEndpoint).
THEOREM MembersCodes == Spec => []CodePairsOnce
<1>1. IInv => CodePairsOnce
  BY DEF IInv
<1>2. QED  BY <1>1, Inductive, PTL

\* Whoever is deactivated keeps no machine, no code and no token of a machine,
\* whatever a pairing was doing meanwhile (deactivateUser).
THEOREM MembersRemoved == Spec => []RemovedKeepNothing
<1>1. IInv => RemovedKeepNothing
  <2> SUFFICES ASSUME TypeOK, Owned, NEW o \in Owner, standing[o] = "deactivated"
               PROVE  /\ pairings[o] = None
                      /\ \A e \in paired : endpoints[e].owner # o
                      /\ \A t \in Token :
                            tokens[t] # None /\ tokens[t].kind = "endpoint" /\ Holder(t) = o
                               => tokens[t].revoked
    BY DEF IInv, RemovedKeepNothing
  <2>1. pairings[o] = None /\ \A e \in paired : endpoints[e].owner # o
    BY DEF Owned
  <2>2. ASSUME NEW t \in Token, tokens[t] # None, tokens[t].kind = "endpoint", Holder(t) = o
        PROVE  tokens[t].revoked
    <3>1. endpoints[tokens[t].subject].owner = o
      BY <2>2 DEF Holder
    <3>2. QED  BY <2>1, <2>2, <3>1 DEF Owned
  <2>3. QED  BY <2>1, <2>2
<1>2. QED  BY <1>1, Inductive, PTL

\* A removal hands back every session whose row it takes, but for those on a
\* machine claimed beside an uninstall (deactivateUser, deleteWorkspace).
THEOREM MembersReports == Spec => []RemovalReports
<1>1. IInv => RemovalReports
  BY DEF IInv
<1>2. QED  BY <1>1, Inductive, PTL
=============================================================================
