------------------------------ MODULE Members -------------------------------
(***************************************************************************)
(* Membership: users, pairing codes, endpoints, tokens, and what holds     *)
(* while one of them is taken away.  packages/gateway/src/store.ts over    *)
(* schema.sql, with the routes and the revocation sweep of server.ts.      *)
(*                                                                         *)
(* A statement is one step, and so is a transaction of one statement.  The *)
(* two transactions of several, deactivateUser and deleteWorkspace, are a  *)
(* step for each: at read committed each takes its own snapshot, others    *)
(* see nothing of it before the commit, and only the rows it locked wait.  *)
(* Ids, codes and tokens are random and never drawn twice.                 *)
(***************************************************************************)
EXTENDS Naturals, FiniteSets

CONSTANTS Person,                  \* Slack identities of one workspace
          MaxOwners, MaxCodes,     \* bounds: ids drawn for users, codes,
          MaxEndpoints, MaxTokens, \*   endpoints, tokens
          MaxSessions, MaxLegs,    \*   sessions, and responses that are held
          MaxCalls,                \* bound: calls under way at once
          None

VARIABLES users,     \* id -> the member it is, or None; ids stay taken
          standing,  \* id -> "none", "active", "deactivated", "gone" with its workspace
          pairings,  \* id -> the code row of that member, or None
          endpoints, \* id -> whose machine and the code that paid for it, or None
          paired,    \* endpoints whose row exists
          tokens,    \* id -> what it speaks for, or None
          sessions,  \* id -> the endpoint it was recorded on, or None
          recorded,  \* sessions whose row exists
          reported,  \* sessions a removal returned for their frames to be deleted
          late,      \* endpoints claimed while an uninstall was under way (history)
          tx,        \* the removal under way, or None
          calls,     \* requests between two statements
          minted,    \* code -> the member it was minted for, or None (history)
          legs       \* response -> the token that admitted it and its state, or None

members  == <<users, standing, pairings>>
machines == <<endpoints, paired, late>>
records  == <<sessions, recorded, reported>>
vars == <<members, machines, tokens, records, tx, calls, minted, legs>>

Owner    == 1..MaxOwners
Code     == 1..MaxCodes
Endpoint == 1..MaxEndpoints
Token    == 1..MaxTokens
Session  == 1..MaxSessions
LegId    == 1..MaxLegs

\* A code counts until it is consumed or expires; a token until it is revoked or
\* deleted or expires.  Whoever presents one cannot tell which it was.
Pairing == [code: Code, spent: BOOLEAN]
Machine == [owner: Owner, code: Code]
Credential == [kind: {"client"}, subject: Owner, revoked: BOOLEAN]
        \cup  [kind: {"endpoint"}, subject: Endpoint, revoked: BOOLEAN]
Call    == [wants: {"code", "token"}, owner: Owner]        \* a bot route past ensureMember
     \cup  [wants: {"endpoint"}, owner: Owner, code: Code] \* /api/pair past the redeem
Removal == [kind: {"deactivate", "uninstall"}, owners: SUBSET Owner,
            phase: {"member", "endpoints", "sessions", "cleaned"},
            locked: SUBSET Endpoint,  \* endpoints it holds FOR UPDATE
            doomed: SUBSET Session,   \* session rows it has deleted
            unpair: SUBSET Endpoint,  \* endpoints it has deleted
            revoke: SUBSET Token]     \* tokens it has revoked or deleted
LegState == [token: Token, state: {"admitted", "held", "closed"}]

ASSUME MembersAssumption ==
    /\ MaxOwners \in Nat /\ MaxCodes \in Nat /\ MaxEndpoints \in Nat
    /\ MaxTokens \in Nat /\ MaxSessions \in Nat /\ MaxLegs \in Nat
    /\ MaxCalls \in Nat
    /\ None \notin Nat /\ None \notin Person
    /\ None \notin Pairing /\ None \notin Machine /\ None \notin Credential

TypeOK ==
    /\ users \in [Owner -> Person \cup {None}]
    /\ standing \in [Owner -> {"none", "active", "deactivated", "gone"}]
    /\ pairings \in [Owner -> Pairing \cup {None}]
    /\ endpoints \in [Endpoint -> Machine \cup {None}]
    /\ paired \subseteq Endpoint
    /\ tokens \in [Token -> Credential \cup {None}]
    /\ sessions \in [Session -> Endpoint \cup {None}]
    /\ recorded \subseteq Session /\ reported \subseteq Session
    /\ late \subseteq Endpoint
    /\ tx \in Removal \cup {None}
    /\ calls \subseteq Call
    /\ minted \in [Code -> Owner \cup {None}]
    /\ legs \in [LegId -> LegState \cup {None}]
-----------------------------------------------------------------------------
\* The lowest id not drawn yet: which one it is means nothing.
Draws(f, id) == f[id] = None /\ \A lower \in 1..(id - 1) : f[lower] # None

MachinesOf(owners) == {e \in paired : endpoints[e].owner \in owners}
SessionsOn(E) == {s \in recorded : sessions[s] \in E}

\* Whose credential t is: the member itself, or the member whose machine it is.
Holder(t) == IF tokens[t].kind = "client" THEN tokens[t].subject
                                          ELSE endpoints[tokens[t].subject].owner

\* Mutant: a token counts until somebody revokes it.
AdmitsUnjoined(t) == tokens[t] # None /\ ~tokens[t].revoked

\* ownerForClientToken, endpointForToken: joined through to the member, so that
\* removal stops a token whether or not anything remembered to revoke it.
Admits(t) ==
    /\ tokens[t] # None /\ ~tokens[t].revoked
    /\ tokens[t].kind = "endpoint" => tokens[t].subject \in paired
    /\ standing[Holder(t)] = "active"

\* Rows a removal holds: a statement that must lock one waits for the commit.
\* Only deactivateUser takes the member's.
LocksMember(o)   == tx # None /\ tx.kind = "deactivate" /\ o \in tx.owners
LocksEndpoint(e) == tx # None /\ e \in tx.locked

In(l, state) == legs[l] # None /\ legs[l].state = state
Becomes(l, state) == legs' = [legs EXCEPT ![l].state = state]

Init ==
    /\ users = [o \in Owner |-> None] /\ standing = [o \in Owner |-> "none"]
    /\ pairings = [o \in Owner |-> None]
    /\ endpoints = [e \in Endpoint |-> None] /\ paired = {}
    /\ tokens = [t \in Token |-> None] /\ sessions = [s \in Session |-> None]
    /\ recorded = {} /\ reported = {} /\ late = {} /\ tx = None /\ calls = {}
    /\ minted = [c \in Code |-> None]
    /\ legs = [l \in LegId |-> None]
-----------------------------------------------------------------------------
(* The bot's routes. *)

Present(o) == standing[o] \in {"active", "deactivated"}

\* slackCaller: ensureMember finds the member or makes one, and answers 403 for
\* one who is deactivated.  It never brings one back.
EnsureMember(p, wants) ==
    /\ Cardinality(calls) < MaxCalls
    /\ \E o \in Owner :
          /\ \/ /\ users[o] = p /\ standing[o] = "active" /\ ~LocksMember(o)
                /\ UNCHANGED <<users, standing>>
             \/ /\ ~\E other \in Owner : users[other] = p /\ Present(other)
                /\ Draws(users, o)
                /\ users' = [users EXCEPT ![o] = p]
                /\ standing' = [standing EXCEPT ![o] = "active"]
          /\ calls' = calls \cup {[wants |-> wants, owner |-> o]}
    /\ UNCHANGED <<pairings, machines, tokens, records, tx, minted, legs>>

\* mintPairingCode: supersedes what the member had, under the member's lock.
MintPairingCode(call) ==
    /\ call \in calls /\ call.wants = "code"
    /\ ~LocksMember(call.owner)
    /\ \/ \E c \in Code :
             /\ standing[call.owner] = "active" /\ Draws(minted, c)
             /\ pairings' = [pairings EXCEPT ![call.owner] =
                                [code |-> c, spent |-> FALSE]]
             /\ minted' = [minted EXCEPT ![c] = call.owner]
       \/ standing[call.owner] # "active" /\ UNCHANGED <<pairings, minted>>
    /\ calls' = calls \ {call}
    /\ UNCHANGED <<users, standing, machines, tokens, records, tx, legs>>

\* mintClientToken asks nothing of the member: a token of one who was removed
\* since ensureMember is written all the same, and admits nobody.
MintClientToken(call) ==
    /\ call \in calls /\ call.wants = "token"
    /\ \E t \in Token :
          /\ Draws(tokens, t)
          /\ tokens' = [tokens EXCEPT ![t] = [kind |-> "client", subject |-> call.owner,
                                              revoked |-> FALSE]]
    /\ calls' = calls \ {call}
    /\ UNCHANGED <<members, machines, records, tx, minted, legs>>

\* The process ends, the caller's deadline passes, or the store fails.
CallFails(call) ==
    /\ call \in calls
    /\ calls' = calls \ {call}
    /\ UNCHANGED <<members, machines, tokens, records, tx, minted, legs>>
-----------------------------------------------------------------------------
(* POST /api/pair: the code first, then the endpoint. *)

\* Mutant: whether a code was spent is left to the caller.
RedeemTwice(o) ==
    /\ pairings[o] # None
    /\ standing[o] = "active" /\ Cardinality(calls) < MaxCalls
    /\ pairings' = [pairings EXCEPT ![o].spent = TRUE]
    /\ calls' = calls \cup {[wants |-> "endpoint", owner |-> o, code |-> pairings[o].code]}
    /\ UNCHANGED <<users, standing, machines, tokens, records, tx, minted, legs>>

\* redeemPairingCode: the claim is the UPDATE.  It takes no lock on the member;
\* the code's own row is what a removal that has deleted it makes it wait for.
RedeemPairingCode(o) ==
    /\ pairings[o] # None /\ ~pairings[o].spent
    /\ standing[o] = "active" /\ Cardinality(calls) < MaxCalls
    /\ ~(LocksMember(o) /\ tx.phase = "cleaned")
    /\ pairings' = [pairings EXCEPT ![o].spent = TRUE]
    /\ calls' = calls \cup {[wants |-> "endpoint", owner |-> o, code |-> pairings[o].code]}
    /\ UNCHANGED <<users, standing, machines, tokens, records, tx, minted, legs>>

\* Mutant: claims without the member's lock.
ClaimEndpointUnlocked(call) ==
    /\ call \in calls /\ call.wants = "endpoint" /\ standing[call.owner] = "active"
    /\ \E e \in Endpoint, t \in Token :
          /\ Draws(endpoints, e) /\ Draws(tokens, t)
          /\ endpoints' = [endpoints EXCEPT ![e] = [owner |-> call.owner, code |-> call.code]]
          /\ paired' = paired \cup {e}
          /\ tokens' = [tokens EXCEPT ![t] = [kind |-> "endpoint", subject |-> e,
                                              revoked |-> FALSE]]
    /\ calls' = calls \ {call}
    /\ UNCHANGED <<members, late, records, tx, minted, legs>>

\* claimEndpoint: under the member's lock, or refused as a code that never
\* worked is.  The answer may be lost, and the token then with it.
ClaimEndpoint(call) ==
    /\ call \in calls /\ call.wants = "endpoint"
    /\ ~LocksMember(call.owner)
    /\ \/ \E e \in Endpoint, t \in Token :
             /\ standing[call.owner] = "active"
             /\ Draws(endpoints, e) /\ Draws(tokens, t)
             /\ endpoints' = [endpoints EXCEPT ![e] = [owner |-> call.owner,
                                                       code |-> call.code]]
             /\ paired' = paired \cup {e}
             /\ tokens' = [tokens EXCEPT ![t] = [kind |-> "endpoint", subject |-> e,
                                                 revoked |-> FALSE]]
             /\ late' = IF tx # None /\ tx.kind = "uninstall" THEN late \cup {e}
                                                             ELSE late
       \/ standing[call.owner] # "active" /\ UNCHANGED <<endpoints, paired, tokens, late>>
    /\ calls' = calls \ {call}
    /\ UNCHANGED <<members, records, tx, minted, legs>>
-----------------------------------------------------------------------------
CodeExpires(o) ==
    /\ pairings[o] # None /\ ~pairings[o].spent
    /\ pairings' = [pairings EXCEPT ![o].spent = TRUE]
    /\ UNCHANGED <<users, standing, machines, tokens, records, tx, calls, minted, legs>>

\* Only a client token has an expiry.  expireTokens deletes what is past it.
TokenExpires(t) ==
    /\ tokens[t] # None /\ tokens[t].kind = "client" /\ ~tokens[t].revoked
    /\ tokens' = [tokens EXCEPT ![t].revoked = TRUE]
    /\ UNCHANGED <<members, machines, records, tx, calls, minted, legs>>

\* recordSession, for a companion whose leg is held: the foreign key takes a
\* share of the endpoint's row, and finds none once a removal has committed.
RecordSession(s, l) ==
    /\ Draws(sessions, s)
    /\ In(l, "held") /\ tokens[legs[l].token].kind = "endpoint"
    /\ LET e == tokens[legs[l].token].subject
       IN /\ e \in paired /\ ~LocksEndpoint(e)
          /\ sessions' = [sessions EXCEPT ![s] = e]
    /\ recorded' = recorded \cup {s}
    /\ UNCHANGED <<members, machines, tokens, reported, tx, calls, minted, legs>>
-----------------------------------------------------------------------------
(* deactivateUser and deleteWorkspace, a statement at a time. *)

\* The members a statement finds: the one that was named, or all there are.
Targets == IF tx.kind = "deactivate" THEN tx.owners ELSE {o \in Owner : Present(o)}

Opened(kind, owners, phase, locked) ==
    [kind |-> kind, owners |-> owners, phase |-> phase, locked |-> locked,
     doomed |-> {}, unpair |-> {}, revoke |-> {}]

\* The member first, in a statement of its own: what waited for this lock, or
\* was waited for, is in the snapshots of the statements below.
LockMember(o) ==
    /\ tx = None /\ Present(o)
    /\ tx' = Opened("deactivate", {o}, "member", {})
    /\ UNCHANGED <<members, machines, tokens, records, calls, minted, legs>>

LockEndpoints ==
    /\ tx # None /\ tx.phase = "member"
    /\ tx' = [tx EXCEPT !.phase = "endpoints", !.locked = MachinesOf(tx.owners)]
    /\ UNCHANGED <<members, machines, tokens, records, calls, minted, legs>>

\* deleteWorkspace starts with the endpoints, and locks no member.
LockAllEndpoints ==
    /\ tx = None /\ \E o \in Owner : Present(o)
    /\ tx' = Opened("uninstall", {}, "endpoints", paired)
    /\ UNCHANGED <<members, machines, tokens, records, calls, minted, legs>>

\* Mutant: the sessions are left to the cascade.
DeleteNoSessions ==
    /\ tx # None /\ tx.phase = "endpoints"
    /\ tx' = [tx EXCEPT !.phase = "sessions"]
    /\ UNCHANGED <<members, machines, tokens, records, calls, minted, legs>>

DeleteSessions ==
    /\ tx # None /\ tx.phase = "endpoints"
    /\ tx' = [tx EXCEPT !.phase = "sessions", !.doomed = SessionsOn(MachinesOf(Targets))]
    /\ UNCHANGED <<members, machines, tokens, records, calls, minted, legs>>

\* The credentials, and with deactivateUser the endpoints and the code.
CleanUp ==
    /\ tx # None /\ tx.phase = "sessions"
    /\ tx' = [tx EXCEPT !.phase = "cleaned",
                 !.unpair = IF tx.kind = "deactivate" THEN MachinesOf(tx.owners) ELSE {},
                 !.revoke = {t \in Token :
                               /\ tokens[t] # None
                               /\ IF tokens[t].kind = "client"
                                  THEN tokens[t].subject \in Targets
                                  ELSE tokens[t].subject \in MachinesOf(Targets)}]
    /\ UNCHANGED <<members, machines, tokens, records, calls, minted, legs>>

Removes(machinesGone, owners, to) ==
    /\ standing' = [o \in Owner |-> IF o \in owners THEN to ELSE standing[o]]
    /\ pairings' = [o \in Owner |-> IF o \in owners THEN None ELSE pairings[o]]
    /\ paired' = paired \ machinesGone
    /\ tokens' = [t \in Token |-> IF t \in tx.revoke THEN [tokens[t] EXCEPT !.revoked = TRUE]
                                                      ELSE tokens[t]]
    /\ recorded' = recorded \ (tx.doomed \cup SessionsOn(machinesGone))
    /\ reported' = reported \cup tx.doomed

\* COMMIT.  Sessions go with their endpoint, and with a workspace everything
\* below it goes: the cascade takes what is there by then.
Commit ==
    /\ tx # None /\ tx.phase = "cleaned"
    /\ IF tx.kind = "deactivate" THEN Removes(tx.unpair, tx.owners, "deactivated")
                                 ELSE Removes(MachinesOf(Targets), Targets, "gone")
    /\ tx' = None
    /\ UNCHANGED <<users, endpoints, late, sessions, calls, minted, legs>>

Rollback ==
    /\ tx # None
    /\ tx' = None
    /\ UNCHANGED <<members, machines, tokens, records, calls, minted, legs>>
-----------------------------------------------------------------------------
(* Legs: responses that stay open after the query that admitted them. *)

\* The query of endpointOwner or ownerForClientToken.
Authorize(l, t) ==
    /\ Draws(legs, l) /\ Admits(t)
    /\ legs' = [legs EXCEPT ![l] = [token |-> t, state |-> "admitted"]]
    /\ UNCHANGED <<members, machines, tokens, records, tx, calls, minted>>

\* holdLeg, in the code after it.
HoldLeg(l) ==
    /\ In(l, "admitted") /\ Becomes(l, "held")
    /\ UNCHANGED <<members, machines, tokens, records, tx, calls, minted>>

\* A response that closes before it is held stays in the map for good, where
\* nothing but the sweep sees it: closed is closed here.
PeerCloses(l) ==
    /\ In(l, "admitted") \/ In(l, "held")
    /\ Becomes(l, "closed")
    /\ UNCHANGED <<members, machines, tokens, records, tx, calls, minted>>

\* dropRevokedLegs, for one leg of a tick: a leg that admits() no longer admits
\* is destroyed.  A question that fails changes nothing before the next tick.
DropRevoked(l) ==
    /\ In(l, "held") /\ ~Admits(legs[l].token)
    /\ Becomes(l, "closed")
    /\ UNCHANGED <<members, machines, tokens, records, tx, calls, minted>>
-----------------------------------------------------------------------------
Requests ==
    \/ \E p \in Person, wants \in {"code", "token"} : EnsureMember(p, wants)
    \/ \E call \in calls : \/ MintPairingCode(call)
                           \/ MintClientToken(call)
                           \/ ClaimEndpoint(call)
                           \/ CallFails(call)
    \/ \E o \in Owner : RedeemPairingCode(o)
    \/ \E s \in Session, l \in LegId : RecordSession(s, l)

Expiry == \/ \E o \in Owner : CodeExpires(o)
          \/ \E t \in Token : TokenExpires(t)

Removing ==
    \/ \E o \in Owner : LockMember(o)
    \/ LockEndpoints
    \/ LockAllEndpoints
    \/ DeleteSessions
    \/ CleanUp
    \/ Commit
    \/ Rollback

Legs ==
    \/ \E l \in LegId : \/ \E t \in Token : Authorize(l, t)
                        \/ HoldLeg(l)
                        \/ PeerCloses(l)
                        \/ DropRevoked(l)

Next == Requests \/ Expiry \/ Removing \/ Legs

Spec == Init /\ [][Next]_vars

\* The sweep asks about every leg it holds on every tick of an interval, each
\* leg whatever became of the others, and the store answers a question in the end.
Fairness == \A l \in LegId : WF_vars(DropRevoked(l))

FairSpec == Spec /\ Fairness
-----------------------------------------------------------------------------
\* A code pairs one machine at most, and that one is the member's it was minted
\* for: over two redeems at once, a newer code, a removal between the redeem and
\* the claim, and a process that ends there (redeemPairingCode, claimEndpoint).
CodePairsOnce ==
    \A e \in Endpoint : endpoints[e] # None =>
        /\ minted[endpoints[e].code] = endpoints[e].owner
        /\ \A other \in Endpoint \ {e} :
              endpoints[other] # None => endpoints[other].code # endpoints[e].code

\* A member who was deactivated has no machine, no code and no machine's token
\* that is not revoked, whatever was under way when they were removed
\* (deactivateUser against mintPairingCode and claimEndpoint).
RemovedKeepNothing ==
    \A o \in Owner : standing[o] = "deactivated" =>
        /\ pairings[o] = None
        /\ \A e \in paired : endpoints[e].owner # o
        /\ \A t \in Token :
              tokens[t] # None /\ tokens[t].kind = "endpoint" /\ Holder(t) = o
                  => tokens[t].revoked

\* A removal returns every session whose row went with it, or its frames stay on
\* disk beyond authorization and retention.  The exception is the code's: an
\* uninstall holds no member, and a machine claimed beside it is not locked.
RemovalReports ==
    \A s \in Session : sessions[s] # None =>
        s \in recorded \cup reported \/ sessions[s] \in late

\* A leg whose member was removed, or whose token was revoked or ran out, is dropped, though
\* queries fail in between (dropRevokedLegs).
RemovedLegsDrop ==
    \A l \in LegId :
        (/\ In(l, "held")
         /\ \/ standing[Holder(legs[l].token)] # "active"
            \/ tokens[legs[l].token].revoked) ~> ~In(l, "held")
=============================================================================
