----------------------------- MODULE AcpProofs ------------------------------
(***************************************************************************)
(* What TLAPS proves of a call to driveAcpSession, for every agent it may  *)
(* meet: whatever options the call has, whichever modes and models are on  *)
(* offer and in whichever form, however many frames are on their way, and  *)
(* wherever the transport ends.                                            *)
(*                                                                         *)
(* The properties speak of the prompt, and the driver knows of the agent's *)
(* session what the answers before it said.  So the invariant follows the  *)
(* one request that is under way: what the agent has of it, what the       *)
(* answer to it may say (Truth), and what is settled of the session when   *)
(* the next one is sent (Stage).  A reader that overflowed is the hard     *)
(* case: its requests fail while the agent still has them, so that two may *)
(* be under way, and the invariant says which two.                         *)
(*                                                                         *)
(* The answer is another matter: it is put together from segments, whose   *)
(* number nothing bounds, so what it says of the updates that were read    *)
(* takes an induction over them, and an invariant between the two (Heard). *)
(***************************************************************************)
EXTENDS AcpSession, WellFoundedInduction, FiniteSetTheorems, SequenceTheorems, TLAPS

\* The requests that the agent has, unread or at work.
Requests == {i \in DOMAIN toAgent : toAgent[i].kind = "request"}
Answers  == {i \in DOMAIN toDriver : toDriver[i].kind = "answer"}
Busy     == work # None /\ work.method \in Method
Free     == Requests = {} /\ ~Busy
Pipeline == {[method |-> toAgent[i].method, want |-> toAgent[i].want] : i \in Requests}
            \cup (IF Busy THEN {work} ELSE {})

Opening     == {"initialize", "authenticate", "session/load", "session/new"}
ModeMethods == {"session/set_mode", "mode option"}

\* What the driver sets the mode to, and whether it goes on when that fails.
ModeWant  == IF given.mode # None THEN given.mode ELSE "plan"
Hint      == given.mode = None /\ ~given.requirePlan
Memory(s) == IF s.id = "old" THEN 1 ELSE 0

ModelSettled(model) ==
    /\ given.candidates # <<>> => model = Candidate
    /\ given.candidates = <<>> /\ given.modelsAs = "roster" /\ given.model \in given.models
         => model = given.model
ModeSettled(mode) ==
    /\ given.mode # None => mode = given.mode
    /\ given.mode = None /\ given.requirePlan => mode = "plan"

\* What an answer that grants says is so.
Truth(o) ==
    o.ok =>
      /\ at.method \in {"session/load", "session/new"} => o.body = sess /\ history = Memory(sess)
      /\ at.method = "session/set_model" => sess.model = given.model
      /\ at.method = "session/set_mode" => sess.mode = ModeWant
      /\ at.method = "model option" => o.body = sess.model
      /\ at.method = "mode option" => o.body = sess.mode

\* A connection that still reads has one request under way, which is unread, at
\* work or answered.
InFlight ==
    ~deaf /\ output = "open" =>
      /\ pending = None => Free /\ Answers = {}
      /\ \A i, j \in Requests : i = j
      /\ \A i, j \in Answers : i = j
      /\ Requests # {} => ~Busy /\ Answers = {}
      /\ Busy => Answers = {}
      /\ \A r \in Pipeline : r.method = at.method
      /\ \A i \in Answers :
            /\ Truth(toDriver[i].outcome)
            /\ \A j \in DOMAIN toDriver : j > i => toDriver[j].kind # "report"

\* A grant that the driver is about to go on with.
Settled == outcome # None /\ outcome.ok => Free /\ Truth(outcome)

Table == /\ pending # None => pending = at.method /\ outcome = None
         /\ output # "open" => toDriver = <<>>
         /\ at.method = "authenticate" => at.for # None

\* What is known of the agent's session at each request, whatever becomes of it.
Entered == history = Memory(session)
Stage ==
    /\ at.method \in Opening => \A r \in Pipeline : r.method \in Opening
    /\ at.method = "model option" =>
         /\ given.candidates # <<>> /\ given.modelsAs = "option"
         /\ Entered /\ sess.mode = session.mode
         /\ \A r \in Pipeline : r.method = "model option"
    /\ at.method = "session/set_model" =>
         /\ given.candidates = <<>>
         /\ Entered /\ sess.mode = session.mode
         /\ \A r \in Pipeline : r.method = "session/set_model" /\ r.want = given.model
    /\ at.method \in ModeMethods =>
         /\ ModelSettled(sess.model) /\ Entered
         /\ at.method = "mode option" => given.mode = None
         /\ \A r \in Pipeline : r.method \in ModeMethods /\ r.want = ModeWant
    /\ at.method = "session/prompt" =>
         /\ \A r \in Pipeline : r.method = "session/prompt" \/ (r.method \in ModeMethods /\ Hint)
         /\ \A i \in Requests : toAgent[i].method = "session/prompt" =>
              /\ ModelSettled(sess.model) /\ ModeSettled(sess.mode)
              /\ history = IF toAgent[i].want = "with context" THEN 0 ELSE 1
              /\ \A j \in Requests : j <= i
         /\ At({"session/prompt"}) => Requests = {}
    /\ at.method = "drain" => Free

Permitted == \A i \in DOMAIN toAgent :
    toAgent[i].kind = "request" \/
    (toAgent[i].kind = "permission" /\ toAgent[i].option = Respond(toAgent[i].ask, Policy))

Suspended ==
    /\ at.method = "session/load" \/ (at.method = "authenticate" /\ at.for = "session/load") => replaying
    /\ ~LateReplay /\ ~deaf =>
         \A i \in DOMAIN toDriver :
            toDriver[i].kind \in {"tool", "thought"} /\ toDriver[i].of # "this" =>
               /\ at.method = "session/load"
               /\ \E j \in Answers : j > i

Unread ==
    /\ Len(approvals) <= Len(decided)
    /\ \A i \in 1..Len(approvals) : approvals[i] = decided[i]
    /\ \E p \in [1..(Len(decided) - Len(approvals)) -> DOMAIN toDriver] :
         /\ \A k \in DOMAIN p : /\ toDriver[p[k]].kind = "report"
                                /\ toDriver[p[k]].decision = <<decided[Len(approvals) + k]>>
         /\ \A j, k \in DOMAIN p : j < k => p[j] < p[k]
         /\ \A i \in DOMAIN toDriver : toDriver[i].kind = "report" => \E k \in DOMAIN p : p[k] = i
Reported ==
    /\ ~given.upstream => approvals = decided
    /\ given.upstream =>
         /\ \A i \in DOMAIN toDriver : toDriver[i].kind # "ask"
         /\ ~deaf => Unread
    /\ \/ at.method = "drain"
       \/ at.method = "session/prompt" /\ outcome # None /\ outcome.ok
       => /\ approvals = decided
          /\ given.upstream => \A i \in DOMAIN toDriver : toDriver[i].kind # "report"
    /\ at.method = "returned" => approvals = decided
SeqLike(q) == \E S : q \in Seq(S)
Wires == SeqLike(toAgent) /\ SeqLike(toDriver) /\ SeqLike(approvals) /\ SeqLike(decided)

\* A text that is being put together has its fields, and nobody else looks at them.
Shaped(t) == DOMAIN t = DOMAIN Silent /\ t.labels \in BOOLEAN

Types == /\ TypeOK /\ Wires /\ Shaped(turn)
         /\ DOMAIN sess = DOMAIN Idle
         /\ work # None => DOMAIN work = DOMAIN Refuse

IInv == /\ Types /\ Table /\ InFlight /\ Settled /\ Stage /\ Permitted /\ Suspended /\ Reported
        /\ PromptAsChosen /\ HistoryOnce /\ ReadOnlyNeverWrites
        /\ ~LateReplay => NarratesThisTurn
-----------------------------------------------------------------------------
(* Sequences of whatever there is. *)

LEMMA Taking ==
    ASSUME NEW q, SeqLike(q), q # <<>>
    PROVE  /\ SeqLike(Tail(q)) /\ Head(q) = q[1] /\ 1 \in DOMAIN q
           /\ Len(q) \in Nat /\ Len(Tail(q)) = Len(q) - 1
           /\ DOMAIN q = 1..Len(q) /\ DOMAIN Tail(q) = 1..(Len(q) - 1)
           /\ \A i \in DOMAIN Tail(q) : i + 1 \in DOMAIN q /\ Tail(q)[i] = q[i + 1]
  <1> PICK S : q \in Seq(S) BY DEF SeqLike
  <1>1. Tail(q) \in Seq(S) /\ Len(q) \in Nat /\ Len(Tail(q)) = Len(q) - 1 OBVIOUS
  <1>2. DOMAIN q = 1..Len(q) /\ DOMAIN Tail(q) = 1..(Len(q) - 1) BY <1>1
  <1>3. Len(q) # 0 /\ Head(q) = q[1] OBVIOUS
  <1>4. \A i \in DOMAIN Tail(q) : i + 1 \in DOMAIN q /\ Tail(q)[i] = q[i + 1] BY <1>1, <1>2
  <1> QED BY <1>1, <1>2, <1>3, <1>4 DEF SeqLike

LEMMA Adding ==
    ASSUME NEW q, NEW x, SeqLike(q)
    PROVE  /\ SeqLike(Append(q, x)) /\ Len(q) \in Nat
           /\ Len(Append(q, x)) = Len(q) + 1
           /\ DOMAIN q = 1..Len(q) /\ DOMAIN Append(q, x) = 1..(Len(q) + 1)
           /\ Append(q, x)[Len(q) + 1] = x
           /\ \A i \in DOMAIN q : Append(q, x)[i] = q[i]
           /\ q \o <<x>> = Append(q, x)
  <1> PICK S : q \in Seq(S) BY DEF SeqLike
  <1> DEFINE T == S \cup {x}
  <1>1. q \in Seq(T) /\ x \in T OBVIOUS
  <1> HIDE DEF T
  <1>2. Append(q, x) \in Seq(T) BY <1>1
  <1>3. /\ Len(q) \in Nat /\ Len(Append(q, x)) = Len(q) + 1
        /\ DOMAIN q = 1..Len(q) /\ DOMAIN Append(q, x) = 1..(Len(q) + 1)
    BY <1>1
  <1>4. /\ Append(q, x)[Len(q) + 1] = x
        /\ \A i \in DOMAIN q : Append(q, x)[i] = q[i]
    BY <1>1
  <1>5. q \o <<x>> = Append(q, x) BY <1>1
  <1> QED BY <1>2, <1>3, <1>4, <1>5 DEF SeqLike

LEMMA Joining ==
    ASSUME NEW q, NEW p, SeqLike(q), SeqLike(p)
    PROVE  /\ SeqLike(q \o p) /\ Len(q) \in Nat /\ Len(p) \in Nat
           /\ Len(q \o p) = Len(q) + Len(p)
           /\ DOMAIN q = 1..Len(q) /\ DOMAIN p = 1..Len(p)
           /\ DOMAIN (q \o p) = 1..(Len(q) + Len(p))
           /\ \A i \in DOMAIN q : (q \o p)[i] = q[i]
           /\ \A i \in DOMAIN p : (q \o p)[Len(q) + i] = p[i]
           /\ \A i \in DOMAIN (q \o p) : i > Len(q) => i - Len(q) \in DOMAIN p
                                           /\ (q \o p)[i] = p[i - Len(q)]
  <1> PICK S : q \in Seq(S) BY DEF SeqLike
  <1> PICK S2 : p \in Seq(S2) BY DEF SeqLike
  <1> DEFINE T == S \cup S2
  <1>1. q \in Seq(T) /\ p \in Seq(T) OBVIOUS
  <1> HIDE DEF T
  <1>2. q \o p \in Seq(T) BY <1>1
  <1>3. /\ Len(q) \in Nat /\ Len(p) \in Nat /\ Len(q \o p) = Len(q) + Len(p)
        /\ DOMAIN q = 1..Len(q) /\ DOMAIN p = 1..Len(p)
        /\ DOMAIN (q \o p) = 1..(Len(q) + Len(p))
    BY <1>1
  <1>4. \A i \in DOMAIN q : (q \o p)[i] = q[i] BY <1>1
  <1>5. \A i \in DOMAIN p : (q \o p)[Len(q) + i] = p[i] BY <1>1, <1>3
  <1>6. \A i \in DOMAIN (q \o p) : i > Len(q) => i - Len(q) \in DOMAIN p
                                           /\ (q \o p)[i] = p[i - Len(q)]
    BY <1>1, <1>3
  <1> QED BY <1>2, <1>3, <1>4, <1>5, <1>6 DEF SeqLike

LEMMA Few ==
    /\ SeqLike(<<>>) /\ Len(<<>>) = 0
    /\ \A x : SeqLike(<<x>>) /\ Len(<<x>>) = 1 /\ <<x>>[1] = x
    /\ \A x, y, z : SeqLike(<<x, y>>) /\ SeqLike(<<x, y, z>>)
  <1>1. \A S : <<>> \in Seq(S) OBVIOUS
  <1>2. \A x : <<x>> \in Seq({x}) OBVIOUS
  <1>3. \A x, y, z : <<x, y>> \in Seq({x, y}) /\ <<x, y, z>> \in Seq({x, y, z}) OBVIOUS
  <1> QED BY <1>1, <1>2, <1>3 DEF SeqLike
-----------------------------------------------------------------------------
(* The floor. *)

\* Nothing that the floor denies is granted.
LEMMA Floor ==
    ASSUME NEW ask, NEW policy
    PROVE  Respond(ask, policy) \in {"allow_once", "allow_always"} => ~DeniedByFloor(ask, policy)
  <1> DEFINE side == IF DeniedByFloor(ask, policy) THEN {"reject_once", "reject_always"}
                                                   ELSE {"allow_once", "allow_always"}
             once == side \cap {"reject_once", "allow_once"} \cap ask.options
  <1>1. Respond(ask, policy) \in side \cup {None}
    <2>1. CASE once # {}
      <3>1. (CHOOSE o \in once : TRUE) \in once BY <2>1
      <3> QED BY <2>1, <3>1 DEF Respond
    <2>2. CASE once = {} /\ side \cap ask.options # {}
      <3>1. (CHOOSE o \in side \cap ask.options : TRUE) \in side \cap ask.options BY <2>2
      <3> QED BY <2>2, <3>1 DEF Respond
    <2>3. CASE once = {} /\ side \cap ask.options = {} BY <2>3 DEF Respond
    <2> QED BY <2>1, <2>2, <2>3
  <1> QED BY <1>1, AcpAssumption DEF AcpAssumption

\* An agent that was told what the floor selected stays in its mode, and has
\* written only where the policy lets it.
LEMMA ToldKeeps ==
    ASSUME NEW ask, NEW policy, Told(ask, Respond(ask, policy))
    PROVE  sess' = sess /\ (policy = "read-only" /\ ~wrote => ~wrote')
  <1>1. ask.kind \in {"switch-mode", "switch_mode"} => DeniedByFloor(ask, policy)
    BY DEF DeniedByFloor, Normalize
  <1>2. policy = "read-only" /\ ask.kind = "edit" => DeniedByFloor(ask, policy)
    BY DEF DeniedByFloor, Normalize
  <1> DEFINE granted == Respond(ask, policy) \in {"allow_once", "allow_always"}
  <1>3. granted => ~DeniedByFloor(ask, policy) BY Floor
  <1>4. /\ ~(granted /\ ask.kind \in {"switch-mode", "switch_mode"}) => sess' = sess
        /\ wrote' = (wrote \/ (granted /\ ask.kind = "edit"))
    BY Zenon DEF Told
  <1> HIDE DEF granted
  <1>5. sess' = sess BY <1>1, <1>3, <1>4
  <1>6. policy = "read-only" => ~(granted /\ ask.kind = "edit") BY <1>2, <1>3
  <1> QED BY <1>4, <1>5, <1>6
-----------------------------------------------------------------------------
(* The driver sends its next request, or ends.                              *)

LEMMA CandidateKept == ASSUME given' = given PROVE Candidate' = Candidate
  BY DEF Candidate

\* A request joins what is under way, and nothing else moves.
LEMMA RequestAdds ==
    ASSUME IInv, outcome # None, NEW m, NEW f, NEW r, NEW w, m \in Method,
           Request(m, f, r, w), Elsewhere
    PROVE  /\ at'.method = m /\ at'.for = f /\ at'.retried = r /\ pending = None
           /\ SeqLike(toAgent') /\ DOMAIN toAgent \subseteq DOMAIN toAgent'
           /\ Requests \subseteq Requests'
           /\ \A i \in Requests : toAgent'[i] = toAgent[i]
           /\ \A i \in Requests' : \/ i \in Requests
                                   \/ /\ toAgent'[i].method = m /\ toAgent'[i].want = w
                                      /\ \A j \in Requests' : j <= i
           /\ Requests = {} => \A i, j \in Requests' : i = j
           /\ ~writable => Requests' = Requests
           /\ Busy' = Busy
           /\ Pipeline' \subseteq Pipeline \cup {[method |-> m, want |-> w]}
           /\ Permitted'
  <1> USE DEF IInv, Types, TypeOK, Wires, Request, Elsewhere, agent, transport
  <1>1. at'.method = m /\ at'.for = f /\ at'.retried = r /\ pending = None OBVIOUS
  <1>2. Busy' = Busy BY DEF Busy
  <1>3. CASE ~writable
    <2>1. toAgent' = toAgent BY <1>3
    <2>2. Requests' = Requests /\ Pipeline' = Pipeline BY <2>1 DEF Requests, Pipeline, Busy
    <2>3. Permitted' BY <2>1 DEF Permitted, Policy
    <2> QED BY <1>1, <1>2, <2>1, <2>2, <2>3
  <1>4. CASE writable
    <2> DEFINE x == [kind |-> "request", method |-> m, want |-> w]
    <2>1. toAgent' = Append(toAgent, x) BY <1>4
    <2>2. /\ SeqLike(toAgent') /\ Len(toAgent) \in Nat
          /\ DOMAIN toAgent = 1..Len(toAgent) /\ DOMAIN toAgent' = 1..(Len(toAgent) + 1)
          /\ toAgent'[Len(toAgent) + 1] = x
          /\ \A i \in DOMAIN toAgent : toAgent'[i] = toAgent[i]
      BY <2>1, Adding
    <2>3. Requests' = Requests \cup {Len(toAgent) + 1} BY <2>2 DEF Requests
    <2>4. \A i \in Requests : i \in 1..Len(toAgent) /\ toAgent'[i] = toAgent[i]
      BY <2>2 DEF Requests
    <2>5. \A j \in Requests' : j <= Len(toAgent) + 1 BY <2>2, <2>3, <2>4
    <2>6. Pipeline' \subseteq Pipeline \cup {[method |-> m, want |-> w]}
      BY <2>2, <2>3, <2>4 DEF Pipeline, Busy
    <2>7. Permitted'
      <3> SUFFICES ASSUME NEW i \in DOMAIN toAgent' 
                   PROVE  \/ toAgent'[i].kind = "request"
                          \/ /\ toAgent'[i].kind = "permission"
                             /\ toAgent'[i].option = Respond(toAgent'[i].ask, Policy')
        BY DEF Permitted
      <3>1. i = Len(toAgent) + 1 \/ i \in DOMAIN toAgent BY <2>2
      <3>2. Policy' = Policy BY DEF Policy
      <3> QED BY <2>2, <3>1, <3>2 DEF Permitted
    <2>8. DOMAIN toAgent \subseteq DOMAIN toAgent' BY <2>2
    <2>9. Requests = {} => \A i, j \in Requests' : i = j BY <2>3
    <2>10. \A i \in Requests' : \/ i \in Requests
                                \/ /\ toAgent'[i].method = m /\ toAgent'[i].want = w
                                   /\ \A j \in Requests' : j <= i
      BY <2>2, <2>3, <2>5
    <2> HIDE DEF x
    <2> QED BY <1>1, <1>2, <1>4, <2>2, <2>3, <2>4, <2>6, <2>7, <2>8, <2>9, <2>10
  <1> QED BY <1>3, <1>4

\* Of the driver's own moves only the ones the agent has no part in are to be shown.
LEMMA RestKeeps ==
    ASSUME IInv, Elsewhere
    PROVE  /\ PromptAsChosen' /\ HistoryOnce' /\ ReadOnlyNeverWrites'
           /\ (~LateReplay => NarratesThisTurn)'
           /\ SeqLike(toDriver') /\ SeqLike(approvals') /\ SeqLike(decided')
  <1> USE DEF IInv, Elsewhere, transport, agent
  <1>1. PromptAsChosen' BY CandidateKept DEF PromptAsChosen, At
  <1>2. HistoryOnce' BY DEF HistoryOnce, At
  <1>3. ReadOnlyNeverWrites' BY DEF ReadOnlyNeverWrites, WriteCapable
  <1>4. (~LateReplay => NarratesThisTurn)' BY DEF NarratesThisTurn
  <1> QED BY <1>1, <1>2, <1>3, <1>4 DEF Types, Wires

LEMMA RequestKeeps ==
    ASSUME IInv, outcome # None, NEW m, NEW f, NEW r, NEW w, m \in Method,
           f \in {"session/load", "session/new", None}, r \in BOOLEAN,
           at.method \in Method, Request(m, f, r, w), Elsewhere, result' = result,
           Shaped(turn'), replaying' \in BOOLEAN, Stage',
           m = "authenticate" => f # None,
           m = "session/load" \/ (m = "authenticate" /\ f = "session/load") => replaying'
    PROVE  IInv'
  <1> USE DEF IInv, Types
  <1>1. /\ at'.method = m /\ at'.for = f /\ at'.retried = r /\ pending = None
        /\ SeqLike(toAgent') /\ Requests \subseteq Requests'
        /\ Requests = {} => \A i, j \in Requests' : i = j
        /\ ~writable => Requests' = Requests
        /\ Busy' = Busy
        /\ Pipeline' \subseteq Pipeline \cup {[method |-> m, want |-> w]}
        /\ Permitted'
    BY RequestAdds
  <1>2. m \notin Over BY DEF Method, Over
  <1>3. \/ pending' = m /\ outcome' = None /\ writable
        \/ pending' = None /\ ~outcome'.ok /\ ~writable
    BY DEF Request, Refused
  <1>4. /\ given' = given /\ writable' = writable /\ output' = output /\ deaf' = deaf
        /\ toDriver' = toDriver /\ decided' = decided /\ approvals' = approvals
        /\ narrated' = narrated /\ sess' = sess /\ history' = history
    BY DEF Elsewhere, transport, agent
  <1>5. Answers' = Answers BY <1>4 DEF Answers
  <1>6. TypeOK'
    <2>1. at' \in Places BY <1>1 DEF Request, Places
    <2>2. result' = None BY DEF TypeOK, Method
    <2> QED BY <1>3, <1>4, <2>1, <2>2 DEF TypeOK, Shaped
  <1>14. SeqLike(toDriver') /\ SeqLike(approvals') /\ SeqLike(decided') BY RestKeeps
  <1>15. work' = work BY DEF Elsewhere, agent
  <1>7. Types' BY <1>1, <1>4, <1>6, <1>14, <1>15 DEF Wires
  <1>8. Table' BY <1>1, <1>3, <1>4 DEF Table
  <1>9. ~deaf /\ output = "open" => Free /\ Answers = {} BY <1>1 DEF InFlight
  <1>10. InFlight'
    <2> SUFFICES ASSUME ~deaf, output = "open" PROVE InFlight' BY <1>4 DEF InFlight
    <2>1. Free /\ Answers = {} BY <1>9
    <2>2. Pipeline = {} BY <2>1 DEF Free, Pipeline
    <2>3. ~Busy' /\ Answers' = {} BY <1>1, <1>5, <2>1 DEF Free
    <2>4. \A x \in Pipeline' : x.method = m BY <1>1, <2>2
    <2>5. (pending = None)' => Free' BY <1>1, <1>3, <2>1, <2>3, AcpAssumption DEF Free, AcpAssumption
    <2>6. \A i, j \in Requests' : i = j BY <1>1, <2>1 DEF Free
    <2> QED BY <1>1, <2>3, <2>4, <2>5, <2>6 DEF InFlight
  <1>11. Settled' BY <1>3 DEF Settled
  <1>12. Suspended'
    <2>1. ~LateReplay /\ ~deaf => \A i \in DOMAIN toDriver :
            ~(toDriver[i].kind \in {"tool", "thought"} /\ toDriver[i].of # "this")
      <3> SUFFICES ASSUME ~LateReplay, ~deaf, NEW i \in DOMAIN toDriver,
                          toDriver[i].kind \in {"tool", "thought"}, toDriver[i].of # "this"
                   PROVE  FALSE
        OBVIOUS
      <3>1. Answers # {} BY DEF Suspended
      <3>2. toDriver # <<>> BY <3>1 DEF Answers
      <3> QED BY <1>9, <3>1, <3>2 DEF Table
    <2> QED BY <1>1, <1>4, <2>1 DEF Suspended
  <1>13. Reported' BY <1>1, <1>2, <1>3, <1>4 DEF Reported, Over, Unread
  <1> QED BY <1>1, <1>7, <1>8, <1>10, <1>11, <1>12, <1>13, RestKeeps

\* A call ends, or waits for what trails its answer, with nothing left to settle.
LEMMA EndsKeeps ==
    ASSUME IInv, NEW m, NEW v, Ends(m, v), Elsewhere, pending = None, m \in Over,
           Shaped(turn'), replaying' \in BOOLEAN, outcome # None \/ at.method = "drain",
           m = "drain" => v = None /\ at.method = "session/prompt" /\ outcome # None /\ outcome.ok,
           m = "returned" => at.method = "drain"
    PROVE  IInv'
  <1> USE DEF IInv, Types
  <1>1. at'.method = m /\ at' \in Places BY DEF Ends, TypeOK, Places
  <1>2. /\ given' = given /\ writable' = writable /\ output' = output /\ deaf' = deaf
        /\ toDriver' = toDriver /\ decided' = decided /\ approvals' = approvals
        /\ narrated' = narrated /\ sess' = sess /\ history' = history /\ work' = work
        /\ toAgent' = toAgent /\ pending' = None /\ outcome' = None /\ result' = v
    BY DEF Elsewhere, transport, agent, Ends
  <1>3. /\ Answers' = Answers /\ Requests' = Requests /\ Busy' = Busy
        /\ Free' = Free /\ Pipeline' = Pipeline
    BY <1>2 DEF Answers, Requests, Busy, Free, Pipeline
  <1>4. TypeOK' BY <1>1, <1>2 DEF TypeOK, Shaped, Over
  <1>5. Types' BY <1>2, <1>4, RestKeeps DEF Wires
  <1>6. Table' BY <1>1, <1>2 DEF Table, Over
  <1>7. ~deaf /\ output = "open" => Free /\ Answers = {} BY DEF InFlight
  <1>8. InFlight'
    <2> SUFFICES ASSUME ~deaf, output = "open" PROVE InFlight' BY <1>2 DEF InFlight
    <2>1. Requests = {} /\ ~Busy /\ Answers = {} /\ Pipeline = {}
      BY <1>7 DEF Free, Pipeline
    <2> QED BY <1>3, <1>7, <2>1 DEF InFlight
  <1>9. Settled' BY <1>2 DEF Settled
  <1>10. Stage'
    <2>1. m = "drain" => Free BY DEF Settled
    <2> QED BY <1>1, <1>3, <2>1 DEF Stage, Over, Opening, ModeMethods
  <1>11. Permitted' BY <1>2 DEF Permitted, Policy
  <1>12. Suspended'
    <2>1. ~LateReplay /\ ~deaf => \A i \in DOMAIN toDriver :
            ~(toDriver[i].kind \in {"tool", "thought"} /\ toDriver[i].of # "this")
      <3> SUFFICES ASSUME ~LateReplay, ~deaf, NEW i \in DOMAIN toDriver,
                          toDriver[i].kind \in {"tool", "thought"}, toDriver[i].of # "this"
                   PROVE  FALSE
        OBVIOUS
      <3>1. Answers # {} BY DEF Suspended
      <3>2. toDriver # <<>> BY <3>1 DEF Answers
      <3> QED BY <1>7, <3>1, <3>2 DEF Table
    <2> QED BY <1>1, <1>2, <2>1 DEF Suspended, Over
  <1>13. Reported' BY <1>1, <1>2 DEF Reported, Over, Unread
  <1> QED BY <1>5, <1>6, <1>8, <1>9, <1>10, <1>11, <1>12, <1>13, RestKeeps

LEMMA GoRefuses ==
    ASSUME IInv, outcome # None, at.method \in Method, Elsewhere, Shaped(turn'), Go(Refuse)
    PROVE  IInv'
  <1>1. Ends("threw", "error") /\ replaying' = replaying BY DEF Go, Throw
  <1>2. pending = None /\ replaying \in BOOLEAN BY DEF IInv, Types, TypeOK
  <1> QED BY <1>1, <1>2, EndsKeeps DEF Over

LEMMA GoSends ==
    ASSUME IInv, outcome # None, at.method \in Method, Elsewhere, Shaped(turn'),
           NEW m, NEW w, m \in Method \ {"session/load", "authenticate"}, Go(Step(m, w))
    PROVE  /\ Stage' => IInv'
           /\ at'.method = m /\ Busy' = Busy
           /\ \A i \in Requests : toAgent'[i] = toAgent[i]
           /\ \A i \in Requests' : \/ i \in Requests
                                   \/ /\ toAgent'[i].method = m /\ toAgent'[i].want = w
                                      /\ \A j \in Requests' : j <= i
           /\ Pipeline' \subseteq Pipeline \cup {[method |-> m, want |-> w]}
           /\ given' = given /\ sess' = sess /\ history' = history /\ work' = work
  <1>1. Step(m, w) # Refuse /\ Step(m, w).method = m /\ Step(m, w).want = w
    <2>1. m # "refuse" BY DEF Method
    <2> QED BY <2>1 DEF Step, Refuse
  <1>2. /\ Request(m, None, FALSE, w) /\ result' = result
        /\ replaying' = (replaying /\ m # "session/prompt")
    BY <1>1 DEF Go
  <1>3. replaying' \in BOOLEAN BY <1>2 DEF IInv, Types, TypeOK
  <1>4. Stage' => IInv' BY <1>2, <1>3, RequestKeeps
  <1>5. given' = given /\ sess' = sess /\ history' = history /\ work' = work
    BY DEF Elsewhere, agent
  <1> QED BY <1>2, <1>4, <1>5, RequestAdds

\* The prompt goes out when what it depends on is settled, or a hint was refused.
LEMMA GoPrompts ==
    ASSUME IInv, outcome # None, at.method \in Method, Elsewhere, Shaped(turn'),
           NEW s, session' = s, Go(PromptStep(s)),
           \A x \in Pipeline : x.method \in ModeMethods /\ Hint,
           ModelSettled(sess.model), ModeSettled(sess.mode), history = Memory(s)
    PROVE  IInv'
  <1> DEFINE w == IF s.id # "old" THEN "with context" ELSE "alone"
  <1>1. PromptStep(s) = Step("session/prompt", w) BY DEF PromptStep
  <1> HIDE DEF w
  <1>2. "session/prompt" \in Method \ {"session/load", "authenticate"} BY DEF Method
  <1>3. /\ Stage' => IInv'
        /\ at'.method = "session/prompt" /\ Busy' = Busy
        /\ \A i \in Requests : toAgent'[i] = toAgent[i]
        /\ \A i \in Requests' : \/ i \in Requests
                                \/ /\ toAgent'[i].method = "session/prompt" /\ toAgent'[i].want = w
                                   /\ \A j \in Requests' : j <= i
        /\ Pipeline' \subseteq Pipeline \cup {[method |-> "session/prompt", want |-> w]}
        /\ given' = given /\ sess' = sess /\ history' = history /\ work' = work
    BY <1>1, <1>2, GoSends
  <1>4. ASSUME NEW i \in Requests PROVE toAgent[i].method \in ModeMethods
    <2>1. [method |-> toAgent[i].method, want |-> toAgent[i].want] \in Pipeline BY DEF Pipeline
    <2> QED BY <2>1
  <1>5. ~At({"session/prompt"})'
    <2>1. Busy => work \in Pipeline BY DEF Pipeline
    <2>2. ~(work # None /\ work.method = "session/prompt")
      BY <2>1 DEF Busy, ModeMethods, Method
    <2> QED BY <1>3, <2>2 DEF At
  <1>6. Hint' = Hint /\ ModelSettled(sess.model)' /\ ModeSettled(sess.mode)'
    BY <1>3, CandidateKept DEF Hint, ModelSettled, ModeSettled
  <1>7. \A i \in Requests' : toAgent'[i].method = "session/prompt" =>
              /\ history' = IF toAgent'[i].want = "with context" THEN 0 ELSE 1
              /\ \A j \in Requests' : j <= i
    <2> SUFFICES ASSUME NEW i \in Requests', toAgent'[i].method = "session/prompt"
                 PROVE  /\ history' = IF toAgent'[i].want = "with context" THEN 0 ELSE 1
                        /\ \A j \in Requests' : j <= i
      OBVIOUS
    <2>1. toAgent'[i].want = w /\ \A j \in Requests' : j <= i BY <1>3, <1>4 DEF ModeMethods
    <2> QED BY <1>3, <2>1 DEF w, Memory
  <1>8. \A x \in Pipeline' : x.method = "session/prompt" \/ (x.method \in ModeMethods /\ Hint')
    BY <1>3, <1>6
  <1>9. Stage' BY <1>3, <1>5, <1>6, <1>7, <1>8 DEF Stage, Opening, ModeMethods
  <1> QED BY <1>3, <1>9

LEMMA GoModes ==
    ASSUME IInv, outcome # None, at.method \in Method, Elsewhere, Shaped(turn'),
           NEW s, session' = s, Go(ModeStep(s)), Free,
           ModelSettled(sess.model), history = Memory(s), sess.mode = s.mode
    PROVE  IInv'
  <1>1. Pipeline = {} BY DEF Free, Pipeline
  <1>2. CASE ModeStep(s) = Refuse BY <1>2, GoRefuses
  <1>3. CASE ModeStep(s) = PromptStep(s) /\ ModeSettled(sess.mode)
    BY <1>1, <1>3, GoPrompts
  <1>4. CASE \E m \in ModeMethods : /\ ModeStep(s) = Step(m, ModeWant)
                                    /\ m = "mode option" => given.mode = None
    <2>1. PICK m \in ModeMethods : /\ ModeStep(s) = Step(m, ModeWant)
                                   /\ m = "mode option" => given.mode = None
      BY <1>4
    <2>2. m \in Method \ {"session/load", "authenticate"} BY DEF ModeMethods, Method
    <2>3. /\ Stage' => IInv'
          /\ at'.method = m
          /\ Pipeline' \subseteq {[method |-> m, want |-> ModeWant]}
          /\ given' = given /\ sess' = sess /\ history' = history
      BY <1>1, <2>1, <2>2, GoSends
    <2>4. ModelSettled(sess.model)' /\ ModeWant' = ModeWant
      BY <2>3, CandidateKept DEF ModelSettled, ModeWant
    <2>5. \A x \in Pipeline' : x.method = m /\ x.want = ModeWant BY <2>3
    <2>6. Entered' BY <2>3 DEF Entered, Memory
    <2>7. Stage' BY <2>1, <2>3, <2>4, <2>5, <2>6 DEF Stage, Opening, ModeMethods
    <2> QED BY <2>3, <2>7
  <1>5. \/ ModeStep(s) = Refuse
        \/ ModeStep(s) = PromptStep(s) /\ ModeSettled(sess.mode)
        \/ \E m \in ModeMethods : /\ ModeStep(s) = Step(m, ModeWant)
                                  /\ m = "mode option" => given.mode = None
    <2> DEFINE roster == IF given.modesAs = "modes" THEN given.modes ELSE {}
    <2>1. CASE ModeWant \in roster /\ s.mode # ModeWant
      <3>1. ModeStep(s) = Step("session/set_mode", ModeWant) BY <2>1 DEF ModeStep, ModeWant
      <3> QED BY <3>1 DEF ModeMethods
    <2>2. CASE ModeWant \in roster /\ s.mode = ModeWant
      <3>1. ModeStep(s) = PromptStep(s) BY <2>2 DEF ModeStep, ModeWant
      <3> QED BY <2>2, <3>1 DEF ModeSettled, ModeWant
    <2>3. CASE ModeWant \notin roster /\ given.mode # None BY <2>3 DEF ModeStep, ModeWant
    <2>4. CASE ModeWant \notin roster /\ given.mode = None
      <3>1. ModeStep(s) = PlanOptionStep(s) BY <2>4 DEF ModeStep, ModeWant
      <3>2. CASE given.modesAs = "option" /\ "plan" \in given.modes /\ s.mode # "plan"
        <4>1. PlanOptionStep(s) = Step("mode option", "plan") BY <3>2 DEF PlanOptionStep
        <4> QED BY <2>4, <3>1, <4>1 DEF ModeMethods, ModeWant
      <3>3. CASE given.requirePlan /\ ~(given.modesAs = "option" /\ "plan" \in given.modes)
        BY <3>1, <3>3 DEF PlanOptionStep
      <3>4. CASE /\ ~(given.modesAs = "option" /\ "plan" \in given.modes /\ s.mode # "plan")
                 /\ ~(given.requirePlan /\ ~(given.modesAs = "option" /\ "plan" \in given.modes))
        <4>1. PlanOptionStep(s) = PromptStep(s) BY <3>4 DEF PlanOptionStep
        <4> QED BY <2>4, <3>1, <3>4, <4>1 DEF ModeSettled
      <3> QED BY <3>2, <3>3, <3>4
    <2> QED BY <2>1, <2>2, <2>3, <2>4
  <1> QED BY <1>2, <1>3, <1>4, <1>5

\* A model the member asked for goes before the mode.
LEMMA GoModels ==
    ASSUME IInv, outcome # None, at.method \in Method, Elsewhere, Shaped(turn'),
           NEW s, session' = s, Go(ModelStep(s)), Free,
           history = Memory(s), sess.mode = s.mode,
           given.candidates # <<>> => sess.model = Candidate /\ given.modelsAs = "option",
           given.candidates = <<>> => sess.model = s.model
    PROVE  IInv'
  <1>1. Pipeline = {} BY DEF Free, Pipeline
  <1> DEFINE sets == /\ given.modelsAs = "roster" /\ given.model \in given.models
                     /\ s.model # given.model
  <1>2. CASE sets
    <2>1. ModelStep(s) = Step("session/set_model", given.model) BY <1>2 DEF ModelStep
    <2>2. "session/set_model" \in Method \ {"session/load", "authenticate"} BY DEF Method
    <2>3. /\ Stage' => IInv'
          /\ at'.method = "session/set_model"
          /\ Pipeline' \subseteq {[method |-> "session/set_model", want |-> given.model]}
          /\ given' = given /\ sess' = sess /\ history' = history
      BY <1>1, <2>1, <2>2, GoSends
    <2>4. Entered' BY <2>3 DEF Entered, Memory
    <2>5. given.candidates = <<>> BY <1>2
    <2>6. \A x \in Pipeline' : x.method = "session/set_model" /\ x.want = given'.model BY <2>3
    <2>7. Stage' BY <2>3, <2>4, <2>5, <2>6 DEF Stage, Opening, ModeMethods
    <2> QED BY <2>3, <2>7
  <1>3. CASE ~sets
    <2>1. ModelStep(s) = ModeStep(s) BY <1>3 DEF ModelStep
    <2>2. ModelSettled(sess.model) BY <1>3 DEF ModelSettled
    <2> QED BY <2>1, <2>2, GoModes
  <1> QED BY <1>2, <1>3

\* A session that has just been opened.
LEMMA GoFirst ==
    ASSUME IInv, outcome # None, at.method \in Method, Elsewhere, Shaped(turn'),
           NEW s, session' = s, Go(ModelOptionStep(s)), Free,
           history = Memory(s), sess = s
    PROVE  IInv'
  <1>1. Pipeline = {} BY DEF Free, Pipeline
  <1>2. Candidate # None => given.modelsAs = "option" BY DEF Candidate
  <1>3. CASE given.candidates = <<>> \/ Candidate \in {s.model} \ {None}
    <2>1. ModelOptionStep(s) = ModelStep(s) BY <1>3 DEF ModelOptionStep
    <2>2. given.candidates # <<>> => sess.model = Candidate /\ given.modelsAs = "option"
      BY <1>2, <1>3
    <2> QED BY <2>1, <2>2, GoModels
  <1>4. CASE given.candidates # <<>> /\ Candidate = None
    <2>1. ModelOptionStep(s) = Refuse BY <1>4 DEF ModelOptionStep
    <2> QED BY <2>1, GoRefuses
  <1>5. CASE given.candidates # <<>> /\ Candidate \notin {s.model, None}
    <2> PICK w : w = Candidate OBVIOUS
    <2>1. ModelOptionStep(s) = Step("model option", w) BY <1>5 DEF ModelOptionStep
    <2>2. "model option" \in Method \ {"session/load", "authenticate"} BY DEF Method
    <2>3. /\ Stage' => IInv'
          /\ at'.method = "model option"
          /\ Pipeline' \subseteq {[method |-> "model option", want |-> w]}
          /\ given' = given /\ sess' = sess /\ history' = history
      BY <1>1, <2>1, <2>2, GoSends
    <2>4. Entered' BY <2>3 DEF Entered, Memory
    <2>5. \A x \in Pipeline' : x.method = "model option"
      <3> DEFINE sent == [method |-> "model option", want |-> w]
      <3>1. sent.method = "model option" OBVIOUS
      <3>2. Pipeline' \subseteq {sent} BY <2>3
      <3> HIDE DEF sent
      <3> QED BY <3>1, <3>2
    <2>6. Stage' BY <1>2, <1>5, <2>3, <2>4, <2>5 DEF Stage, Opening, ModeMethods
    <2> QED BY <2>3, <2>6
  <1> QED BY <1>3, <1>4, <1>5
-----------------------------------------------------------------------------
(* The driver's steps.                                                      *)

LEMMA FlushShapes ==
    ASSUME NEW t, Shaped(t)
    PROVE  Shaped(Flush(t)) /\ Flush(t).labels = t.labels
  <1> DEFINE more == IF t.current = <<>> THEN t.segments
                     ELSE Append(t.segments, [id |-> t.last, text |-> t.current])
  <1>1. Flush(t) = [t EXCEPT !.segments = more, !.current = <<>>] BY Zenon DEF Flush
  <1>2. DOMAIN Silent = {"segments", "current", "last", "seen", "labels"} BY DEF Silent
  <1> HIDE DEF more
  <1> QED BY <1>1, <1>2 DEF Shaped

LEMMA StageOpening ==
    ASSUME at'.method \in Opening, \A x \in Pipeline' : x.method \in Opening
    PROVE  Stage'
  <1>1. at'.method \notin {"model option", "session/set_model", "session/set_mode",
                          "mode option", "session/prompt", "drain"}
    BY DEF Opening
  <1> QED BY <1>1 DEF Stage, ModeMethods

LEMMA InitializedKeeps == ASSUME IInv, Initialized PROVE IInv'
  <1> USE DEF IInv, Types
  <1>1. /\ outcome # None /\ at.method = "initialize" /\ Elsewhere
        /\ session' = session /\ turn' = turn
        /\ pending = None /\ replaying \in BOOLEAN /\ Shaped(turn')
        /\ at.method \in Method
    BY DEF Initialized, Awaited, TypeOK, Method, Shaped
  <1>2. CASE ~outcome.ok
    <2>1. Ends("threw", "error") /\ replaying' = replaying BY <1>2 DEF Initialized, Throw
    <2> QED BY <1>1, <2>1, EndsKeeps DEF Over
  <1>3. ASSUME NEW m \in {"session/load", "session/new"}, Request(m, m, FALSE, None),
               result' = result, replaying' \in BOOLEAN, m = "session/load" => replaying'
        PROVE  IInv'
    <2>1. m \in Method /\ m # "authenticate" BY DEF Method
    <2>2. at'.method = m /\ Pipeline' \subseteq Pipeline \cup {[method |-> m, want |-> None]}
      BY <1>1, <1>3, <2>1, RequestAdds
    <2>3. \A x \in Pipeline' : x.method \in Opening BY <1>1, <2>2 DEF Stage, Opening
    <2>4. Stage' BY <2>2, <2>3, StageOpening DEF Opening
    <2> QED BY <1>1, <1>3, <2>1, <2>4, RequestKeeps
  <1>4. CASE outcome.ok
    <2>1. \/ /\ Request("session/load", "session/load", FALSE, None)
             /\ replaying' = TRUE /\ result' = result
          \/ /\ Request("session/new", "session/new", FALSE, None)
             /\ replaying' = replaying /\ result' = result
      BY <1>4 DEF Initialized, OpenNew
    <2> QED BY <1>1, <1>3, <2>1
  <1> QED BY <1>2, <1>4

LEMMA OpensKeeps == ASSUME IInv, Loaded \/ Opened PROVE IInv'
  <1> USE DEF IInv, Types
  <1>1. /\ outcome # None /\ outcome.ok /\ at.method \in {"session/load", "session/new"}
        /\ Elsewhere /\ session' = outcome.body
        /\ Go(ModelOptionStep(outcome.body))
        /\ turn' = Silent \/ turn' = turn
    BY DEF Loaded, Opened, Awaited
  <1>4. Shaped(turn')
    <2>1. Shaped(Silent) BY DEF Shaped, Silent
    <2> QED BY <1>1, <2>1
  <1>2. Free /\ outcome.body = sess /\ history = Memory(sess)
    BY <1>1 DEF Settled, Truth
  <1>3. at.method \in Method BY <1>1 DEF Method
  <1> QED BY <1>1, <1>2, <1>3, <1>4, GoFirst

\* A session is asked for once more, or another in its place.
LEMMA AsksAgain ==
    ASSUME IInv, outcome # None, at.method \in Opening, Elsewhere, turn' = turn,
           replaying' = replaying, result' = result,
           NEW m, NEW f, NEW r \in BOOLEAN, Request(m, f, r, None),
           m \in {"session/load", "session/new", "authenticate"},
           f \in {"session/load", "session/new"},
           m = "session/load" \/ (m = "authenticate" /\ f = "session/load") => replaying
    PROVE  IInv'
  <1> USE DEF IInv, Types
  <1>1. m \in Method /\ at.method \in Method BY DEF Method, Opening
  <1>2. at'.method = m /\ Pipeline' \subseteq Pipeline \cup {[method |-> m, want |-> None]}
    BY <1>1, RequestAdds
  <1>3. \A x \in Pipeline' : x.method \in Opening
    <2>1. \A x \in Pipeline : x.method \in Opening BY DEF Stage
    <2>2. m \in Opening BY DEF Opening
    <2> QED BY <1>2, <2>1, <2>2
  <1>4. Stage' BY <1>2, <1>3, StageOpening DEF Opening
  <1>5. replaying' \in BOOLEAN BY DEF TypeOK
  <1>6. f # None BY AcpAssumption DEF AcpAssumption, Method
  <1> QED BY <1>1, <1>4, <1>5, <1>6, RequestKeeps

LEMMA SessionRefusedKeeps == ASSUME IInv, SessionRefused \/ Authenticated PROVE IInv'
  <1> USE DEF IInv, Types
  <1>1. /\ outcome # None /\ Elsewhere /\ turn' = turn /\ replaying' = replaying
        /\ at.method \in Opening /\ at.method \in Method
        /\ pending = None /\ replaying \in BOOLEAN /\ Shaped(turn')
    BY DEF SessionRefused, Authenticated, Awaited, Opening, Method, TypeOK
  <1>2. ASSUME NEW f \in {"session/load", "session/new"}, GiveUp(f) PROVE IInv'
    <2>1. CASE Throw
      <3>1. Ends("threw", "error") BY <2>1 DEF Throw
      <3> QED BY <1>1, <3>1, EndsKeeps DEF Over
    <2>2. CASE OpenNew BY <1>1, <2>2, AsksAgain DEF OpenNew
    <2> QED BY <1>2, <2>1, <2>2 DEF GiveUp
  <1>3. CASE SessionRefused
    <2>1. at.method \in {"session/load", "session/new"} BY <1>3 DEF SessionRefused, Awaited
    <2>2. at.method = "session/load" => replaying BY DEF Suspended
    <2>3. CASE Request("authenticate", at.method, TRUE, None) /\ result' = result
      BY <1>1, <2>1, <2>2, <2>3, AsksAgain
    <2> QED BY <1>2, <1>3, <2>1, <2>3 DEF SessionRefused
  <1>4. CASE Authenticated
    <2>1. at.method = "authenticate" BY <1>4 DEF Authenticated, Awaited
    <2>2. at.for = "session/load" => replaying BY <2>1 DEF Suspended
    <2>3. at.for \in {"session/load", "session/new"} BY <2>1 DEF Table, TypeOK, Places
    <2>4. CASE Request(at.for, at.for, TRUE, None) /\ result' = result
      BY <1>1, <2>2, <2>3, <2>4, AsksAgain
    <2> QED BY <1>2, <1>4, <2>3, <2>4 DEF Authenticated
  <1> QED BY <1>3, <1>4

LEMMA ModelSelectedKeeps == ASSUME IInv, ModelSelected PROVE IInv'
  <1> USE DEF IInv, Types
  <1>1. /\ outcome # None /\ at.method \in {"model option", "session/set_model"}
        /\ Elsewhere /\ session' = session /\ turn' = turn /\ Shaped(turn')
    BY DEF ModelSelected, Awaited
  <1>2. at.method \in Method BY <1>1 DEF Method
  <1>3. Entered /\ sess.mode = session.mode BY <1>1 DEF Stage
  <1>4. CASE Go(Refuse) BY <1>1, <1>2, <1>4, GoRefuses
  <1>5. CASE /\ at.method = "model option" /\ outcome.ok /\ outcome.body = Candidate
             /\ Go(ModelStep(session))
    <2>1. Free /\ sess.model = Candidate BY <1>1, <1>5 DEF Settled, Truth
    <2>2. given.candidates # <<>> /\ given.modelsAs = "option" BY <1>5 DEF Stage
    <2> QED BY <1>1, <1>2, <1>3, <1>5, <2>1, <2>2, GoModels DEF Entered
  <1>6. CASE at.method = "session/set_model" /\ outcome.ok /\ Go(ModeStep(session))
    <2>1. Free /\ sess.model = given.model BY <1>1, <1>6 DEF Settled, Truth
    <2>2. given.candidates = <<>> BY <1>6 DEF Stage
    <2>3. ModelSettled(sess.model) BY <2>1, <2>2 DEF ModelSettled
    <2> QED BY <1>1, <1>2, <1>3, <1>6, <2>1, <2>3, GoModes DEF Entered
  <1>7. \/ Go(Refuse)
        \/ /\ at.method = "model option" /\ outcome.ok /\ outcome.body = Candidate
           /\ Go(ModelStep(session))
        \/ at.method = "session/set_model" /\ outcome.ok /\ Go(ModeStep(session))
    BY DEF ModelSelected, Awaited
  <1> QED BY <1>4, <1>5, <1>6, <1>7

LEMMA ModeSelectedKeeps == ASSUME IInv, ModeSelected PROVE IInv'
  <1> USE DEF IInv, Types
  <1>1. /\ outcome # None /\ at.method \in ModeMethods
        /\ Elsewhere /\ session' = session /\ turn' = turn /\ Shaped(turn')
    BY DEF ModeSelected, Awaited, ModeMethods
  <1>2. at.method \in Method BY <1>1 DEF Method, ModeMethods
  <1>3. /\ ModelSettled(sess.model) /\ Entered
        /\ at.method = "mode option" => given.mode = None
        /\ \A x \in Pipeline : x.method \in ModeMethods
    BY <1>1 DEF Stage
  <1>4. CASE Go(Refuse) BY <1>1, <1>2, <1>4, GoRefuses
  <1>5. CASE /\ outcome.ok /\ (at.method = "mode option" => outcome.body = "plan")
             /\ Go(PromptStep(session))
    <2>1. Free /\ Pipeline = {} BY <1>1, <1>5 DEF Settled, Free, Pipeline
    <2>2. at.method = "session/set_mode" => sess.mode = ModeWant
      BY <1>1, <1>5 DEF Settled, Truth
    <2>3. at.method = "mode option" => sess.mode = "plan"
      BY <1>1, <1>5 DEF Settled, Truth
    <2>4. ModeSettled(sess.mode) BY <1>1, <1>3, <2>2, <2>3 DEF ModeSettled, ModeWant, ModeMethods
    <2> QED BY <1>1, <1>2, <1>3, <1>5, <2>1, <2>4, GoPrompts DEF Entered
  <1>6. CASE Hint /\ Go(PromptStep(session))
    <2>1. ModeSettled(sess.mode) BY <1>6 DEF Hint, ModeSettled
    <2> QED BY <1>1, <1>2, <1>3, <1>6, <2>1, GoPrompts DEF Entered
  <1>7. \/ Go(Refuse)
        \/ /\ outcome.ok /\ (at.method = "mode option" => outcome.body = "plan")
           /\ Go(PromptStep(session))
        \/ Hint /\ Go(PromptStep(session))
    BY DEF ModeSelected, Hint
  <1> QED BY <1>4, <1>5, <1>6, <1>7

LEMMA EndingKeeps == ASSUME IInv, PromptAnswered \/ DrainEnds PROVE IInv'
  <1> USE DEF IInv, Types
  <1>1. /\ Elsewhere /\ turn' = turn /\ Shaped(turn')
        /\ replaying' = replaying /\ replaying \in BOOLEAN
    BY DEF PromptAnswered, DrainEnds, TypeOK
  <1>2. CASE PromptAnswered
    <2>1. at.method = "session/prompt" /\ outcome # None /\ pending = None
      BY <1>2 DEF PromptAnswered, Awaited, TypeOK
    <2>2. (outcome.ok /\ Ends("drain", None)) \/ Ends("threw", "error")
      BY <1>2 DEF PromptAnswered, Throw
    <2> QED BY <1>1, <2>1, <2>2, EndsKeeps DEF Over
  <1>3. CASE DrainEnds
    <2>1. at.method = "drain" BY <1>3 DEF DrainEnds
    <2>2. PICK v : Ends("returned", v) BY <1>3 DEF DrainEnds
    <2>3. pending = None BY <2>1 DEF Table, TypeOK, Method
    <2> QED BY <1>1, <2>1, <2>2, <2>3, EndsKeeps DEF Over
  <1> QED BY <1>2, <1>3
-----------------------------------------------------------------------------
(* The driver reads a frame.                                                *)

LEMMA Shifted ==
    ASSUME SeqLike(toDriver), toDriver # <<>>, toDriver' = Tail(toDriver)
    PROVE  /\ SeqLike(toDriver') /\ Head(toDriver) = toDriver[1] /\ 1 \in DOMAIN toDriver
           /\ Len(toDriver) \in Nat /\ Len(toDriver') = Len(toDriver) - 1
           /\ \A i \in DOMAIN toDriver : i \in Nat /\ i >= 1
           /\ \A i \in DOMAIN toDriver' :
                 i \in Nat /\ i >= 1 /\ i + 1 \in DOMAIN toDriver /\ toDriver'[i] = toDriver[i + 1]
           /\ \A j \in DOMAIN toDriver :
                 j # 1 => j - 1 \in DOMAIN toDriver' /\ toDriver'[j - 1] = toDriver[j]
           /\ \A i \in Answers' : i + 1 \in Answers
           /\ \A j \in Answers : j # 1 => j - 1 \in Answers'
  <1>1. /\ SeqLike(toDriver') /\ Head(toDriver) = toDriver[1] /\ 1 \in DOMAIN toDriver
        /\ Len(toDriver) \in Nat /\ Len(toDriver') = Len(toDriver) - 1
        /\ DOMAIN toDriver = 1..Len(toDriver) /\ DOMAIN toDriver' = 1..(Len(toDriver) - 1)
        /\ \A i \in DOMAIN toDriver' : i + 1 \in DOMAIN toDriver /\ toDriver'[i] = toDriver[i + 1]
    BY Taking
  <1>2. \A j \in DOMAIN toDriver :
            j # 1 => j - 1 \in DOMAIN toDriver' /\ toDriver'[j - 1] = toDriver[j]
    <2> SUFFICES ASSUME NEW j \in DOMAIN toDriver, j # 1
                 PROVE  j - 1 \in DOMAIN toDriver' /\ toDriver'[j - 1] = toDriver[j]
      OBVIOUS
    <2>1. j - 1 \in DOMAIN toDriver' /\ (j - 1) + 1 = j BY <1>1
    <2> QED BY <1>1, <2>1
  <1>3. \A i \in Answers' : i + 1 \in Answers BY <1>1 DEF Answers
  <1>4. \A j \in Answers : j # 1 => j - 1 \in Answers' BY <1>2 DEF Answers
  <1> QED BY <1>1, <1>2, <1>3, <1>4

\* What goes for every frame but an answer.
LEMMA ReadKeeps ==
    ASSUME IInv, Listens, ~deaf, toDriver' = Tail(toDriver), Head(toDriver).kind # "answer",
           UNCHANGED <<given, driver, transport, agent>>,
           SeqLike(toAgent'), Requests' = Requests, \A i \in Requests : toAgent'[i] = toAgent[i],
           Permitted', Shaped(turn'), SeqLike(approvals'), SeqLike(decided'), Reported',
           (~LateReplay => NarratesThisTurn)'
    PROVE  IInv'
  <1> USE DEF IInv, Types
  <1>1. /\ SeqLike(toDriver') /\ Head(toDriver) = toDriver[1] /\ 1 \in DOMAIN toDriver
        /\ Len(toDriver) \in Nat /\ Len(toDriver') = Len(toDriver) - 1
        /\ \A i \in DOMAIN toDriver : i \in Nat /\ i >= 1
        /\ \A i \in DOMAIN toDriver' :
              i \in Nat /\ i >= 1 /\ i + 1 \in DOMAIN toDriver /\ toDriver'[i] = toDriver[i + 1]
        /\ \A j \in DOMAIN toDriver :
              j # 1 => j - 1 \in DOMAIN toDriver' /\ toDriver'[j - 1] = toDriver[j]
        /\ \A i \in Answers' : i + 1 \in Answers
        /\ \A j \in Answers : j # 1 => j - 1 \in Answers'
    BY Shifted DEF Listens, Wires
  <1>2. /\ given' = given /\ at' = at /\ pending' = pending /\ outcome' = outcome
        /\ session' = session /\ replaying' = replaying /\ result' = result
        /\ writable' = writable /\ output' = output /\ deaf' = deaf
        /\ work' = work /\ sess' = sess /\ wrote' = wrote /\ history' = history
        /\ output = "open"
    BY DEF driver, transport, agent, Listens
  <1>3. Busy' = Busy /\ Free' = Free /\ Pipeline' = Pipeline
    BY <1>2 DEF Busy, Free, Pipeline
  <1>4. 1 \notin Answers BY <1>1 DEF Answers
  <1>5. TypeOK' BY <1>1, <1>2, AcpAssumption DEF TypeOK, Shaped, AcpAssumption
  <1>6. Table' BY <1>2 DEF Table
  <1>7. InFlight'
    <2>1. ASSUME NEW i \in Answers' PROVE i + 1 \in Answers /\ i \in Nat /\ toDriver'[i] = toDriver[i + 1]
      BY <1>1 DEF Answers
    <2>2. Answers = {} => Answers' = {} BY <2>1
    <2>3. \A i, j \in Answers' : i = j
      <3> SUFFICES ASSUME NEW i \in Answers', NEW j \in Answers' PROVE i = j OBVIOUS
      <3>1. i + 1 = j + 1 BY <1>2, <2>1 DEF InFlight
      <3> QED BY <2>1, <3>1
    <2>4. \A i \in Answers' :
            /\ Truth(toDriver[i].outcome)'
            /\ \A j \in DOMAIN toDriver' : j > i => toDriver'[j].kind # "report"
      <3> SUFFICES ASSUME NEW i \in Answers'
                   PROVE  /\ Truth(toDriver[i].outcome)'
                          /\ \A j \in DOMAIN toDriver' : j > i => toDriver'[j].kind # "report"
        OBVIOUS
      <3>1. /\ Truth(toDriver[i + 1].outcome)
            /\ \A j \in DOMAIN toDriver : j > i + 1 => toDriver[j].kind # "report"
        BY <1>2, <2>1 DEF InFlight
      <3>2. Truth(toDriver[i].outcome)' BY <1>2, <2>1, <3>1 DEF Truth, Memory, ModeWant
      <3>3. \A j \in DOMAIN toDriver' : j > i => toDriver'[j].kind # "report"
        BY <1>1, <2>1, <3>1
      <3> QED BY <3>2, <3>3
    <2> QED BY <1>2, <1>3, <2>2, <2>3, <2>4 DEF InFlight
  <1>8. Settled' BY <1>2, <1>3 DEF Settled, Truth, Memory, ModeWant
  <1>9. Stage'
    <2>1. Entered' = Entered /\ Hint' = Hint /\ ModeWant' = ModeWant
          /\ At({"session/prompt"})' = At({"session/prompt"})
          /\ ModelSettled(sess.model)' = ModelSettled(sess.model)
          /\ ModeSettled(sess.mode)' = ModeSettled(sess.mode)
      BY <1>2, CandidateKept DEF Entered, Memory, Hint, ModeWant, At, ModelSettled, ModeSettled
    <2> QED BY <1>2, <1>3, <2>1 DEF Stage
  <1>10. Suspended'
    <2> SUFFICES ASSUME ~LateReplay, ~deaf, NEW i \in DOMAIN toDriver',
                        toDriver'[i].kind \in {"tool", "thought"}, toDriver'[i].of # "this"
                 PROVE  at.method = "session/load" /\ \E j \in Answers' : j > i
      BY <1>2 DEF Suspended
    <2>1. at.method = "session/load" /\ \E j \in Answers : j > i + 1
      BY <1>1 DEF Suspended
    <2>2. PICK j \in Answers : j > i + 1 BY <2>1
    <2>3. j \in Nat /\ j # 1 BY <1>1, <2>2 DEF Answers
    <2>4. j - 1 \in Answers' /\ j - 1 > i BY <1>1, <2>2, <2>3
    <2> QED BY <2>1, <2>4
  <1>11. PromptAsChosen' /\ HistoryOnce' /\ ReadOnlyNeverWrites'
    BY <1>2, CandidateKept DEF PromptAsChosen, HistoryOnce, ReadOnlyNeverWrites, At, WriteCapable
  <1>12. Types' BY <1>1, <1>2, <1>5 DEF Wires
  <1> QED BY <1>6, <1>7, <1>8, <1>9, <1>10, <1>11, <1>12

\* Reports that a companion sent and nobody has read yet stay in their order.
LEMMA UnreadTail ==
    ASSUME Types, Unread, toDriver # <<>>, toDriver' = Tail(toDriver),
           Head(toDriver).kind # "report", approvals' = approvals, decided' = decided
    PROVE  Unread'
  <1>1. /\ Head(toDriver) = toDriver[1]
        /\ \A i \in DOMAIN toDriver : i \in Nat /\ i >= 1
        /\ \A i \in DOMAIN toDriver' :
              i \in Nat /\ i >= 1 /\ i + 1 \in DOMAIN toDriver /\ toDriver'[i] = toDriver[i + 1]
        /\ \A j \in DOMAIN toDriver :
              j # 1 => j - 1 \in DOMAIN toDriver' /\ toDriver'[j - 1] = toDriver[j]
    BY Shifted DEF Types, Wires
  <1> DEFINE n == Len(decided) - Len(approvals)
  <1>2. PICK p \in [1..n -> DOMAIN toDriver] :
          /\ \A k \in DOMAIN p : /\ toDriver[p[k]].kind = "report"
                                 /\ toDriver[p[k]].decision = <<decided[Len(approvals) + k]>>
          /\ \A j, k \in DOMAIN p : j < k => p[j] < p[k]
          /\ \A i \in DOMAIN toDriver : toDriver[i].kind = "report" => \E k \in DOMAIN p : p[k] = i
    BY DEF Unread
  <1> DEFINE q == [k \in 1..n |-> p[k] - 1]
  <1> HIDE DEF n
  <1>3. \A k \in 1..n : /\ p[k] \in DOMAIN toDriver /\ p[k] # 1
                        /\ p[k] \in Nat
                        /\ toDriver'[p[k] - 1] = toDriver[p[k]] /\ p[k] - 1 \in DOMAIN toDriver'
    BY <1>1, <1>2
  <1>4. q \in [1..n -> DOMAIN toDriver'] BY <1>3
  <1>5. \A k \in DOMAIN q : /\ toDriver'[q[k]].kind = "report"
                            /\ toDriver'[q[k]].decision = <<decided[Len(approvals) + k]>>
    BY <1>2, <1>3
  <1>6. \A j, k \in DOMAIN q : j < k => q[j] < q[k] BY <1>2, <1>3
  <1>7. \A i \in DOMAIN toDriver' : toDriver'[i].kind = "report" => \E k \in DOMAIN q : q[k] = i
    <2> SUFFICES ASSUME NEW i \in DOMAIN toDriver', toDriver'[i].kind = "report"
                 PROVE  \E k \in DOMAIN q : q[k] = i
      OBVIOUS
    <2>1. i \in Nat /\ i + 1 \in DOMAIN toDriver /\ toDriver[i + 1].kind = "report" BY <1>1
    <2>2. PICK k \in 1..n : p[k] = i + 1 BY <1>2, <2>1
    <2>3. q[k] = i BY <2>1, <2>2
    <2> QED BY <2>3
  <1> HIDE DEF q
  <1> QED BY <1>4, <1>5, <1>6, <1>7 DEF Unread, n

\* The first one that is read is the next decision.
LEMMA UnreadReport ==
    ASSUME Types, Unread, toDriver # <<>>, toDriver' = Tail(toDriver),
           Head(toDriver).kind = "report", approvals' = approvals \o Head(toDriver).decision,
           decided' = decided
    PROVE  Unread' /\ SeqLike(approvals')
  <1>1. /\ Head(toDriver) = toDriver[1] /\ 1 \in DOMAIN toDriver
        /\ \A i \in DOMAIN toDriver : i \in Nat /\ i >= 1
        /\ \A i \in DOMAIN toDriver' :
              i \in Nat /\ i >= 1 /\ i + 1 \in DOMAIN toDriver /\ toDriver'[i] = toDriver[i + 1]
        /\ \A j \in DOMAIN toDriver :
              j # 1 => j - 1 \in DOMAIN toDriver' /\ toDriver'[j - 1] = toDriver[j]
    BY Shifted DEF Types, Wires
  <1> DEFINE a == Len(approvals)
             n == Len(decided) - a
  <1>2. a \in Nat /\ Len(decided) \in Nat /\ a <= Len(decided)
        /\ DOMAIN approvals = 1..a
    BY Adding DEF Types, Wires, Unread
  <1>3. PICK p \in [1..n -> DOMAIN toDriver] :
          /\ \A k \in DOMAIN p : /\ toDriver[p[k]].kind = "report"
                                 /\ toDriver[p[k]].decision = <<decided[a + k]>>
          /\ \A j, k \in DOMAIN p : j < k => p[j] < p[k]
          /\ \A i \in DOMAIN toDriver : toDriver[i].kind = "report" => \E k \in DOMAIN p : p[k] = i
    BY DEF Unread
  <1>4. \A i \in 1..a : approvals[i] = decided[i] BY DEF Unread
  <1> HIDE DEF a, n
  <1>5. n \in Nat /\ n = Len(decided) - a BY <1>2 DEF n
  <1>6. 1 \in 1..n /\ p[1] = 1
    <2>1. PICK k \in 1..n : p[k] = 1 BY <1>1, <1>3
    <2>4. 1 \in 1..n BY <1>5, <2>1
    <2>2. 1 \in 1..n /\ p[1] \in DOMAIN toDriver BY <2>4
    <2>3. CASE k # 1
      <3>1. p[1] < p[k] BY <1>3, <2>1, <2>2, <2>3
      <3> QED BY <1>1, <2>1, <2>2, <3>1
    <2> QED BY <2>1, <2>2, <2>3
  <1>7. Head(toDriver).decision = <<decided[a + 1]>> BY <1>1, <1>3, <1>6
  <1> PICK x : x = decided[a + 1] OBVIOUS
  <1>8. approvals' = Append(approvals, x)
    <2>1. approvals' = approvals \o <<x>> BY <1>7
    <2>2. SeqLike(approvals) BY DEF Types, Wires
    <2> QED BY <2>1, <2>2, Adding
  <1>9. /\ SeqLike(approvals') /\ Len(approvals') = a + 1
        /\ approvals'[a + 1] = decided[a + 1]
        /\ \A i \in 1..a : approvals'[i] = approvals[i]
    <2>1. SeqLike(approvals) BY DEF Types, Wires
    <2>2. /\ SeqLike(Append(approvals, x)) /\ Len(Append(approvals, x)) = a + 1
          /\ Append(approvals, x)[a + 1] = x
          /\ \A i \in DOMAIN approvals : Append(approvals, x)[i] = approvals[i]
      BY <2>1, Adding DEF a
    <2> QED BY <1>2, <1>8, <2>2
  <1> DEFINE m == n - 1
             q == [k \in 1..m |-> p[k + 1] - 1]
  <1> HIDE DEF m
  <1>10. m \in Nat /\ m = Len(decided) - (a + 1) /\ \A k \in 1..m : k + 1 \in 1..n
    BY <1>5, <1>6, <1>2 DEF m
  <1>11. \A k \in 1..m : /\ p[k + 1] \in DOMAIN toDriver /\ p[k + 1] # 1 /\ p[k + 1] \in Nat
                         /\ toDriver'[p[k + 1] - 1] = toDriver[p[k + 1]]
                         /\ p[k + 1] - 1 \in DOMAIN toDriver'
    <2> SUFFICES ASSUME NEW k \in 1..m
                 PROVE  /\ p[k + 1] \in DOMAIN toDriver /\ p[k + 1] # 1 /\ p[k + 1] \in Nat
                        /\ toDriver'[p[k + 1] - 1] = toDriver[p[k + 1]]
                        /\ p[k + 1] - 1 \in DOMAIN toDriver'
      OBVIOUS
    <2>1. k + 1 \in 1..n /\ 1 < k + 1 BY <1>10
    <2>2. p[1] < p[k + 1] BY <1>3, <1>6, <2>1
    <2>3. p[k + 1] \in DOMAIN toDriver BY <1>3, <2>1
    <2> QED BY <1>1, <1>6, <2>2, <2>3
  <1>12. q \in [1..m -> DOMAIN toDriver'] BY <1>11
  <1>13. \A k \in DOMAIN q : /\ toDriver'[q[k]].kind = "report"
                             /\ toDriver'[q[k]].decision = <<decided[(a + 1) + k]>>
    <2> SUFFICES ASSUME NEW k \in 1..m
                 PROVE  /\ toDriver'[p[k + 1] - 1].kind = "report"
                        /\ toDriver'[p[k + 1] - 1].decision = <<decided[(a + 1) + k]>>
      OBVIOUS
    <2>1. a + (k + 1) = (a + 1) + k BY <1>2, <1>10
    <2>2. k + 1 \in DOMAIN p BY <1>3, <1>10
    <2> QED BY <1>3, <1>11, <2>1, <2>2
  <1>14. \A j, k \in DOMAIN q : j < k => q[j] < q[k]
    <2> SUFFICES ASSUME NEW j \in 1..m, NEW k \in 1..m, j < k
                 PROVE  p[j + 1] - 1 < p[k + 1] - 1
      OBVIOUS
    <2>1. j + 1 < k + 1 /\ j + 1 \in DOMAIN p /\ k + 1 \in DOMAIN p BY <1>3, <1>10
    <2>2. p[j + 1] < p[k + 1] BY <1>3, <2>1
    <2> QED BY <1>11, <2>2
  <1>15. \A i \in DOMAIN toDriver' : toDriver'[i].kind = "report" => \E k \in DOMAIN q : q[k] = i
    <2> SUFFICES ASSUME NEW i \in DOMAIN toDriver', toDriver'[i].kind = "report"
                 PROVE  \E k \in DOMAIN q : q[k] = i
      OBVIOUS
    <2>1. i \in Nat /\ i >= 1 /\ i + 1 \in DOMAIN toDriver /\ toDriver[i + 1].kind = "report"
      BY <1>1
    <2>2. PICK k \in 1..n : p[k] = i + 1 BY <1>3, <2>1
    <2>3. k # 1 BY <1>6, <2>1, <2>2
    <2>4. k - 1 \in 1..m /\ (k - 1) + 1 = k BY <1>5, <2>3 DEF m
    <2>5. q[k - 1] = i BY <2>1, <2>2, <2>4
    <2> QED BY <2>4, <2>5
  <1>16. \A i \in 1..(a + 1) : approvals'[i] = decided[i]
    <2>1. \A i \in 1..(a + 1) : i = a + 1 \/ i \in 1..a BY <1>2
    <2> QED BY <1>4, <1>9, <2>1
  <1>17. a + 1 <= Len(decided) BY <1>2, <1>5, <1>6
  <1> HIDE DEF q
  <1>18. m = Len(decided') - Len(approvals') /\ Len(approvals') = a + 1 BY <1>9, <1>10
  <1>20. Len(approvals') <= Len(decided') /\ \A i \in 1..Len(approvals') : approvals'[i] = decided'[i]
    BY <1>16, <1>17, <1>18
  <1> DEFINE b == Len(approvals')
             c == Len(decided') - b
  <1>21. \E p1 \in [1..c -> DOMAIN toDriver'] :
            /\ \A k \in DOMAIN p1 : /\ toDriver'[p1[k]].kind = "report"
                                    /\ toDriver'[p1[k]].decision = <<decided'[b + k]>>
            /\ \A j, k \in DOMAIN p1 : j < k => p1[j] < p1[k]
            /\ \A i \in DOMAIN toDriver' :
                  toDriver'[i].kind = "report" => \E k \in DOMAIN p1 : p1[k] = i
    <2>1. c = m /\ b = a + 1 /\ decided' = decided BY <1>18
    <2> HIDE DEF b, c
    <2>2. q \in [1..c -> DOMAIN toDriver'] BY <1>12, <2>1
    <2>3. \A k \in DOMAIN q : /\ toDriver'[q[k]].kind = "report"
                              /\ toDriver'[q[k]].decision = <<decided'[b + k]>>
      BY <1>13, <2>1
    <2> QED BY <1>14, <1>15, <2>2, <2>3
  <1>22. Unread' BY <1>20, <1>21 DEF Unread
  <1> QED BY <1>9, <1>22

\* More frames, of which none is a report, leave those that are.
LEMMA UnreadJoins ==
    ASSUME Unread, DOMAIN toDriver \subseteq DOMAIN toDriver',
           \A i \in DOMAIN toDriver : toDriver'[i] = toDriver[i],
           \A i \in DOMAIN toDriver' \ DOMAIN toDriver : toDriver'[i].kind # "report",
           approvals' = approvals, decided' = decided
    PROVE  Unread'
  <1> DEFINE n == Len(decided) - Len(approvals)
  <1>1. PICK p \in [1..n -> DOMAIN toDriver] :
          /\ \A k \in DOMAIN p : /\ toDriver[p[k]].kind = "report"
                                 /\ toDriver[p[k]].decision = <<decided[Len(approvals) + k]>>
          /\ \A j, k \in DOMAIN p : j < k => p[j] < p[k]
          /\ \A i \in DOMAIN toDriver : toDriver[i].kind = "report" => \E k \in DOMAIN p : p[k] = i
    BY DEF Unread
  <1> HIDE DEF n
  <1>2. p \in [1..n -> DOMAIN toDriver'] /\ \A k \in DOMAIN p : toDriver'[p[k]] = toDriver[p[k]]
    BY <1>1
  <1>3. \A k \in DOMAIN p : /\ toDriver'[p[k]].kind = "report"
                            /\ toDriver'[p[k]].decision = <<decided'[Len(approvals') + k]>>
    BY <1>1, <1>2
  <1>4. \A i \in DOMAIN toDriver' : toDriver'[i].kind = "report" => \E k \in DOMAIN p : p[k] = i
    <2> SUFFICES ASSUME NEW i \in DOMAIN toDriver', toDriver'[i].kind = "report"
                 PROVE  \E k \in DOMAIN p : p[k] = i
      OBVIOUS
    <2>1. i \in DOMAIN toDriver /\ toDriver[i].kind = "report" OBVIOUS
    <2> QED BY <1>1, <2>1
  <1>5. n = Len(decided') - Len(approvals') BY DEF n
  <1> QED BY <1>1, <1>2, <1>3, <1>4, <1>5 DEF Unread

\* A reader that tells nobody what was decided leaves the reports as they are.
LEMMA StillReported ==
    ASSUME IInv, Listens, ~deaf, toDriver' = Tail(toDriver), Head(toDriver).kind # "report",
           UNCHANGED <<given, at, outcome, deaf, approvals, decided>>
    PROVE  Reported'
  <1> USE DEF IInv
  <1>1. toDriver # <<>> /\ SeqLike(toDriver) BY DEF Listens, Types, Wires
  <1>2. \A i \in DOMAIN toDriver' : i + 1 \in DOMAIN toDriver /\ toDriver'[i] = toDriver[i + 1]
    BY <1>1, Shifted
  <1>3. given.upstream => Unread' BY <1>1, UnreadTail DEF Reported
  <1> QED BY <1>2, <1>3 DEF Reported

LEMMA TurnShapes ==
    ASSUME NEW t, Shaped(t), NEW id, NEW text
    PROVE  Shaped(Chunk(t, id, text)) /\ Shaped(ToolCall(t))
  <1> DEFINE before == IF t.seen /\ id # t.last THEN Flush(t) ELSE t
  <1>1. DOMAIN Silent = {"segments", "current", "last", "seen", "labels"} BY DEF Silent
  <1>2. Shaped(before) BY FlushShapes
  <1>3. Chunk(t, id, text) = [before EXCEPT !.current = @ \o text, !.last = id, !.seen = TRUE,
                                            !.labels = @ \/ id # None]
    BY Zenon DEF Chunk
  <1>4. Shaped(ToolCall(t)) BY FlushShapes DEF ToolCall
  <1> HIDE DEF before
  <1> QED BY <1>1, <1>2, <1>3, <1>4 DEF Shaped

LEMMA ReadAnswerKeeps == ASSUME IInv, ReadAnswer PROVE IInv'
  <1> USE DEF IInv, Types
  <1>1. /\ SeqLike(toDriver') /\ Head(toDriver) = toDriver[1] /\ 1 \in DOMAIN toDriver
        /\ Len(toDriver) \in Nat /\ Len(toDriver') = Len(toDriver) - 1
        /\ \A i \in DOMAIN toDriver : i \in Nat /\ i >= 1
        /\ \A i \in DOMAIN toDriver' :
              i \in Nat /\ i >= 1 /\ i + 1 \in DOMAIN toDriver /\ toDriver'[i] = toDriver[i + 1]
        /\ \A i \in Answers' : i + 1 \in Answers
    BY Shifted DEF ReadAnswer, Reads, Listens, Wires
  <1>2. /\ given' = given /\ at' = at /\ session' = session /\ replaying' = replaying
        /\ result' = result /\ writable' = writable /\ output' = output /\ deaf' = deaf
        /\ work' = work /\ sess' = sess /\ wrote' = wrote /\ history' = history
        /\ toAgent' = toAgent /\ decided' = decided /\ approvals' = approvals
        /\ narrated' = narrated /\ turn' = turn
        /\ output = "open" /\ ~deaf /\ toDriver # <<>> /\ toDriver' = Tail(toDriver)
        /\ Head(toDriver).kind = "answer"
    BY DEF ReadAnswer, Reads, Quiet, listening, transport, agent, Listens
  <1>3. Busy' = Busy /\ Free' = Free /\ Pipeline' = Pipeline /\ Requests' = Requests
    BY <1>2 DEF Busy, Free, Pipeline, Requests
  <1>4. 1 \in Answers BY <1>1, <1>2 DEF Answers
  <1>5. pending # None /\ Free /\ Truth(toDriver[1].outcome) BY <1>2, <1>4 DEF InFlight, Free
  <1>6. pending' = None /\ outcome' = toDriver[1].outcome
    BY <1>1, <1>5 DEF ReadAnswer
  <1>7. Answers' = {}
    <2> SUFFICES ASSUME NEW i \in Answers' PROVE FALSE OBVIOUS
    <2>1. i + 1 \in Answers /\ i \in Nat /\ i >= 1 BY <1>1 DEF Answers
    <2>2. i + 1 = 1 BY <1>2, <1>4, <2>1 DEF InFlight
    <2> QED BY <2>1, <2>2
  <1>8. Types'
    <2>1. TypeOK' BY <1>1, <1>2, <1>6, AcpAssumption DEF TypeOK, AcpAssumption
    <2> QED BY <1>1, <1>2, <2>1 DEF Wires, Shaped
  <1>9. Table' BY <1>2, <1>6 DEF Table
  <1>10. InFlight'
    <2>1. Pipeline = {} /\ Requests = {} BY <1>5 DEF Free, Pipeline
    <2> QED BY <1>3, <1>5, <1>7, <2>1 DEF InFlight, Free
  <1>11. Settled' BY <1>2, <1>3, <1>5, <1>6 DEF Settled, Truth, Memory, ModeWant
  <1>12. Stage'
    <2>1. Entered' = Entered /\ Hint' = Hint /\ ModeWant' = ModeWant
          /\ At({"session/prompt"})' = At({"session/prompt"})
          /\ ModelSettled(sess.model)' = ModelSettled(sess.model)
          /\ ModeSettled(sess.mode)' = ModeSettled(sess.mode)
      BY <1>2, CandidateKept DEF Entered, Memory, Hint, ModeWant, At, ModelSettled, ModeSettled
    <2> QED BY <1>2, <1>3, <2>1 DEF Stage
  <1>13. Permitted' BY <1>2 DEF Permitted, Policy
  <1>14. Suspended'
    <2> SUFFICES ASSUME ~LateReplay, NEW i \in DOMAIN toDriver',
                        toDriver'[i].kind \in {"tool", "thought"}, toDriver'[i].of # "this"
                 PROVE  FALSE
      BY <1>2 DEF Suspended
    <2>1. PICK j \in Answers : j > i + 1 BY <1>1, <1>2 DEF Suspended
    <2>2. j = 1 BY <1>2, <1>4 DEF InFlight
    <2> QED BY <1>1, <2>1, <2>2
  <1>15. Reported'
    <2>1. given.upstream => Unread'
      BY <1>2, UnreadTail DEF Reported
    <2>2. \A i \in DOMAIN toDriver' : toDriver'[i].kind # "report"
      <3>1. \A j \in DOMAIN toDriver : j > 1 => toDriver[j].kind # "report"
        BY <1>2, <1>4 DEF InFlight
      <3> QED BY <1>1, <3>1
    <2>3. approvals = decided
      <3>1. CASE ~given.upstream BY <3>1 DEF Reported
      <3>2. CASE given.upstream
        <4>1. Unread' BY <2>1, <3>2
        <4>2. /\ Len(approvals) <= Len(decided)
              /\ \A i \in 1..Len(approvals) : approvals[i] = decided[i]
              /\ \E p \in [1..(Len(decided) - Len(approvals)) -> DOMAIN toDriver'] :
                   \A k \in DOMAIN p : toDriver'[p[k]].kind = "report"
          BY <1>2, <4>1 DEF Unread
        <4>3. Len(approvals) \in Nat /\ Len(decided) \in Nat BY Adding DEF Wires
        <4>4. Len(decided) = Len(approvals)
          <5> SUFFICES ASSUME Len(decided) > Len(approvals) PROVE FALSE BY <4>2, <4>3
          <5>1. 1 \in 1..(Len(decided) - Len(approvals)) BY <4>3
          <5> QED BY <2>2, <4>2, <5>1
        <4>5. PICK S : approvals \in Seq(S) BY DEF Wires, SeqLike
        <4>6. PICK T : decided \in Seq(T) BY DEF Wires, SeqLike
        <4>7. approvals \in Seq(S \cup T) /\ decided \in Seq(S \cup T) BY <4>5, <4>6
        <4> QED BY <4>2, <4>4, <4>7
      <3> QED BY <3>1, <3>2
    <2>4. \A i \in DOMAIN toDriver' : i + 1 \in DOMAIN toDriver /\ toDriver'[i] = toDriver[i + 1]
      BY <1>1
    <2> QED BY <1>2, <2>1, <2>2, <2>3, <2>4 DEF Reported
  <1>16. PromptAsChosen' /\ HistoryOnce' /\ ReadOnlyNeverWrites' /\ (~LateReplay => NarratesThisTurn)'
    BY <1>2, CandidateKept
    DEF PromptAsChosen, HistoryOnce, ReadOnlyNeverWrites, NarratesThisTurn, At, WriteCapable
  <1> QED BY <1>8, <1>9, <1>10, <1>11, <1>12, <1>13, <1>14, <1>15, <1>16

LEMMA ReadUpdateKeeps == ASSUME IInv, ReadChunk \/ ReadTool \/ ReadThought PROVE IInv'
  <1> USE DEF IInv, Types
  <1>1. /\ Listens /\ ~deaf /\ toDriver' = Tail(toDriver) /\ toDriver # <<>>
        /\ Head(toDriver).kind \notin {"answer", "report"}
        /\ UNCHANGED <<given, driver, transport, agent>>
        /\ toAgent' = toAgent /\ approvals' = approvals /\ decided' = decided
    BY DEF ReadChunk, ReadTool, ReadThought, Reads, Quiet, Listens
  <1>2. Requests' = Requests /\ SeqLike(toAgent') /\ SeqLike(approvals') /\ SeqLike(decided')
    BY <1>1 DEF Requests, Wires
  <1>3. Permitted' BY <1>1 DEF Permitted, Policy
  <1>4. UNCHANGED <<given, at, outcome, deaf, approvals, decided>>
    BY <1>1 DEF driver, transport
  <1>5. Reported' BY <1>1, <1>4, StillReported
  <1>6. Shaped(turn')
    <2>1. \/ turn' = turn \/ turn' = ToolCall(turn)
          \/ turn' = Chunk(turn, Head(toDriver).id, <<Head(toDriver).text>>)
      BY DEF ReadChunk, ReadTool, ReadThought
    <2> QED BY <2>1, TurnShapes
  <1>7. (~LateReplay => NarratesThisTurn)'
    <2> SUFFICES ASSUME ~LateReplay PROVE narrated' \subseteq {"this"} BY DEF NarratesThisTurn
    <2>1. narrated \subseteq {"this"} BY DEF NarratesThisTurn
    <2>2. CASE narrated' = narrated BY <2>1, <2>2
    <2>3. CASE /\ ~replaying /\ narrated' = narrated \cup {Head(toDriver).of}
               /\ Head(toDriver).kind \in {"tool", "thought"}
      <3>1. Head(toDriver) = toDriver[1] /\ 1 \in DOMAIN toDriver
        BY <1>1, Shifted DEF Wires
      <3>2. Head(toDriver).of = "this" BY <1>1, <2>3, <3>1 DEF Suspended
      <3> QED BY <2>1, <2>3, <3>2
    <2>4. narrated' = narrated
          \/ (/\ ~replaying /\ narrated' = narrated \cup {Head(toDriver).of}
              /\ Head(toDriver).kind \in {"tool", "thought"})
      BY DEF ReadChunk, ReadTool, ReadThought, Reads
    <2> QED BY <2>2, <2>3, <2>4
  <1> QED BY <1>1, <1>2, <1>3, <1>5, <1>6, <1>7, ReadKeeps

LEMMA ReadReportKeeps == ASSUME IInv, ReadReport PROVE IInv'
  <1> USE DEF IInv, Types
  <1>1. /\ Listens /\ ~deaf /\ toDriver' = Tail(toDriver) /\ toDriver # <<>>
        /\ Head(toDriver).kind = "report"
        /\ UNCHANGED <<given, driver, transport, agent>>
        /\ toAgent' = toAgent /\ decided' = decided /\ turn' = turn /\ narrated' = narrated
        /\ approvals' = IF given.upstream THEN approvals \o Head(toDriver).decision ELSE approvals
    BY DEF ReadReport, Reads, Quiet, Listens
  <1>2. Requests' = Requests /\ SeqLike(toAgent') /\ SeqLike(decided')
    BY <1>1 DEF Requests, Wires
  <1>3. Permitted' BY <1>1 DEF Permitted, Policy
  <1>4. given' = given /\ at' = at /\ outcome' = outcome /\ deaf' = deaf
    BY <1>1 DEF driver, transport
  <1>5. Head(toDriver) = toDriver[1] /\ 1 \in DOMAIN toDriver
        /\ \A i \in DOMAIN toDriver' : i + 1 \in DOMAIN toDriver /\ toDriver'[i] = toDriver[i + 1]
    BY <1>1, Shifted DEF Wires
  <1>6. Reported' /\ SeqLike(approvals')
    <2>1. CASE ~given.upstream BY <1>1, <1>4, <2>1 DEF Reported, Wires
    <2>2. CASE given.upstream
      <3>1. Unread' /\ SeqLike(approvals') BY <1>1, <2>2, UnreadReport DEF Reported
      <3>2. ~(at.method = "drain" \/ (at.method = "session/prompt" /\ outcome # None /\ outcome.ok))
        BY <1>1, <1>5, <2>2 DEF Reported
      <3>3. at.method # "returned" BY <1>1 DEF Listens
      <3>4. \A i \in DOMAIN toDriver' : toDriver'[i].kind # "ask" BY <1>5, <2>2 DEF Reported
      <3> QED BY <1>4, <2>2, <3>1, <3>2, <3>3, <3>4 DEF Reported
    <2> QED BY <2>1, <2>2
  <1>7. Shaped(turn') /\ (~LateReplay => NarratesThisTurn)'
    BY <1>1 DEF Shaped, NarratesThisTurn
  <1> QED BY <1>1, <1>2, <1>3, <1>6, <1>7, ReadKeeps

LEMMA DecisionSeq ==
    ASSUME NEW ask, NEW policy, NEW q, SeqLike(q)
    PROVE  SeqLike(Decision(ask, policy)) /\ SeqLike(q \o Decision(ask, policy))
  <1>1. PICK x : Decision(ask, policy) = <<>> \/ Decision(ask, policy) = <<x>>
    BY DEF Decision
  <1>2. SeqLike(Decision(ask, policy)) BY <1>1, Few
  <1> QED BY <1>2, Joining

LEMMA ReadAskKeeps == ASSUME IInv, ReadAsk PROVE IInv'
  <1> USE DEF IInv, Types
  <1> DEFINE ask == Head(toDriver).ask
             reply == [kind |-> "permission", ask |-> ask, option |-> Respond(ask, Policy)]
  <1>1. /\ Listens /\ ~deaf /\ toDriver' = Tail(toDriver) /\ toDriver # <<>>
        /\ Head(toDriver).kind = "ask"
        /\ UNCHANGED <<given, driver, transport, agent>>
        /\ turn' = turn /\ narrated' = narrated
        /\ approvals' = approvals \o Decision(ask, Policy)
        /\ decided' = decided \o Decision(ask, Policy)
        /\ toAgent' = IF ~writable THEN toAgent ELSE Append(toAgent, reply)
    BY DEF ReadAsk, Reads, Quiet, Listens
  <1>2. SeqLike(approvals') /\ SeqLike(decided') BY <1>1, DecisionSeq DEF Wires
  <1>3. given' = given /\ at' = at /\ outcome' = outcome /\ deaf' = deaf /\ Policy' = Policy
    BY <1>1 DEF driver, transport, Policy
  <1>4. Head(toDriver) = toDriver[1] /\ 1 \in DOMAIN toDriver
        /\ \A i \in DOMAIN toDriver' : i + 1 \in DOMAIN toDriver /\ toDriver'[i] = toDriver[i + 1]
    BY <1>1, Shifted DEF Wires
  <1>5. ~given.upstream /\ approvals = decided BY <1>1, <1>4 DEF Reported
  <1>6. approvals' = decided' BY <1>1, <1>5
  <1>7. Reported' BY <1>3, <1>5, <1>6 DEF Reported
  <1>8. /\ SeqLike(toAgent') /\ Requests' = Requests
        /\ \A i \in Requests : toAgent'[i] = toAgent[i]
        /\ Permitted'
    <2>1. CASE ~writable
      <3>1. toAgent' = toAgent BY <1>1, <2>1
      <3> QED BY <1>3, <3>1 DEF Requests, Permitted, Wires
    <2>2. CASE writable
      <3>1. toAgent' = Append(toAgent, reply) BY <1>1, <2>2
      <3>2. reply.kind = "permission" /\ reply.option = Respond(reply.ask, Policy) OBVIOUS
      <3> HIDE DEF reply
      <3>3. /\ SeqLike(toAgent') /\ Len(toAgent) \in Nat
            /\ DOMAIN toAgent = 1..Len(toAgent) /\ DOMAIN toAgent' = 1..(Len(toAgent) + 1)
            /\ toAgent'[Len(toAgent) + 1] = reply
            /\ \A i \in DOMAIN toAgent : toAgent'[i] = toAgent[i]
        BY <3>1, Adding DEF Wires
      <3>4. \A i \in DOMAIN toAgent' : i = Len(toAgent) + 1 \/ i \in DOMAIN toAgent BY <3>3
      <3>5. Requests' = Requests BY <3>2, <3>3, <3>4 DEF Requests
      <3>6. Permitted' BY <1>3, <3>2, <3>3, <3>4 DEF Permitted
      <3> QED BY <3>3, <3>5, <3>6 DEF Requests
    <2> QED BY <2>1, <2>2
  <1>9. Shaped(turn') /\ (~LateReplay => NarratesThisTurn)'
    BY <1>1 DEF Shaped, NarratesThisTurn
  <1> QED BY <1>1, <1>2, <1>7, <1>8, <1>9, ReadKeeps

\* When nothing more can be read what is pending fails, and the agent is left as it is.
LEMMA FailKeeps ==
    ASSUME IInv, FailAllPending, deaf' \/ output' # "open", deaf => deaf', deaf' \in BOOLEAN,
           output # "open" => output' # "open", output' \in {"open", "ended", "closed"},
           UNCHANGED <<given, at, session, replaying, result, listening, writable, agent,
                       toAgent, decided>>,
           SeqLike(toDriver'), Len(toDriver') <= MaxWire, output' # "open" => toDriver' = <<>>,
           deaf' \/ toDriver' = toDriver,
           \A i \in DOMAIN toDriver' : \E j \in DOMAIN toDriver : toDriver'[i] = toDriver[j]
    PROVE  IInv'
  <1> USE DEF IInv, Types
  <1>1. /\ given' = given /\ at' = at /\ session' = session /\ replaying' = replaying
        /\ result' = result /\ turn' = turn /\ approvals' = approvals /\ narrated' = narrated
        /\ writable' = writable /\ work' = work /\ sess' = sess /\ wrote' = wrote
        /\ history' = history /\ toAgent' = toAgent /\ decided' = decided
    BY DEF listening, agent
  <1>2. /\ pending' = None
        /\ \/ ~outcome'.ok
           \/ outcome' = outcome
    BY DEF FailAllPending, Refused
  <1>3. Busy' = Busy /\ Free' = Free /\ Pipeline' = Pipeline /\ Requests' = Requests
    BY <1>1 DEF Busy, Free, Pipeline, Requests
  <1>4. TypeOK' BY <1>1, <1>2 DEF TypeOK
  <1>5. Types' BY <1>1, <1>4 DEF Wires, Shaped
  <1>6. Table' BY <1>1, <1>2 DEF Table
  <1>7. InFlight' BY DEF InFlight
  <1>8. Settled' BY <1>1, <1>2, <1>3 DEF Settled, Truth, Memory, ModeWant
  <1>9. Stage'
    <2>1. Entered' = Entered /\ Hint' = Hint /\ ModeWant' = ModeWant
          /\ At({"session/prompt"})' = At({"session/prompt"})
          /\ ModelSettled(sess.model)' = ModelSettled(sess.model)
          /\ ModeSettled(sess.mode)' = ModeSettled(sess.mode)
      BY <1>1, CandidateKept DEF Entered, Memory, Hint, ModeWant, At, ModelSettled, ModeSettled
    <2> QED BY <1>1, <1>3, <2>1 DEF Stage
  <1>10. Permitted' BY <1>1 DEF Permitted, Policy
  <1>11. Suspended'
    <2>1. CASE deaf' BY <1>1, <2>1 DEF Suspended
    <2>2. CASE ~deaf'
      <3>1. toDriver' = <<>> BY <2>2
      <3> QED BY <1>1, <3>1 DEF Suspended
    <2> QED BY <2>1, <2>2
  <1>12. Reported'
    <2>1. ASSUME given.upstream, ~deaf' PROVE Unread'
      <3>1. Unread /\ toDriver' = toDriver BY <2>1 DEF Reported
      <3> QED BY <1>1, <3>1, UnreadJoins
    <2>2. \A k : (\A j \in DOMAIN toDriver : toDriver[j].kind # k)
                 => \A i \in DOMAIN toDriver' : toDriver'[i].kind # k
      OBVIOUS
    <2> QED BY <1>1, <1>2, <2>1, <2>2 DEF Reported
  <1>13. PromptAsChosen' /\ HistoryOnce' /\ ReadOnlyNeverWrites' /\ (~LateReplay => NarratesThisTurn)'
    BY <1>1, CandidateKept
    DEF PromptAsChosen, HistoryOnce, ReadOnlyNeverWrites, NarratesThisTurn, At, WriteCapable
  <1> QED BY <1>5, <1>6, <1>7, <1>8, <1>9, <1>10, <1>11, <1>12, <1>13

\* What the driver sends may be lost on the way: nothing of it is known here.
LEMMA InputKeeps ==
    ASSUME IInv, UNCHANGED <<given, at, pending, outcome, session, replaying, result, turn,
                             approvals, narrated, output, deaf, work, sess, wrote, history,
                             toAgent, toDriver, decided>>,
           writable' \in BOOLEAN
    PROVE  IInv'
  <1> USE DEF IInv, Types
  <1>1. /\ Busy' = Busy /\ Free' = Free /\ Pipeline' = Pipeline /\ Requests' = Requests
        /\ Answers' = Answers
    BY DEF Busy, Free, Pipeline, Requests, Answers
  <1>2. TypeOK' BY DEF TypeOK
  <1>3. Types' BY <1>2 DEF Wires, Shaped
  <1>4. InFlight' /\ Table' /\ Settled'
    BY <1>1 DEF InFlight, Table, Settled, Truth, Memory, ModeWant
  <1>5. Entered' = Entered /\ Hint' = Hint /\ ModeWant' = ModeWant
        /\ At({"session/prompt"})' = At({"session/prompt"})
        /\ ModelSettled(sess.model)' = ModelSettled(sess.model)
        /\ ModeSettled(sess.mode)' = ModeSettled(sess.mode)
    BY CandidateKept DEF Entered, Memory, Hint, ModeWant, At, ModelSettled, ModeSettled
  <1>6. Stage' BY <1>1, <1>5 DEF Stage
  <1>7. Permitted' BY DEF Permitted, Policy
  <1>8. Suspended' /\ Reported' BY <1>1 DEF Suspended, Reported, Unread
  <1>9. PromptAsChosen' /\ HistoryOnce' /\ ReadOnlyNeverWrites' /\ (~LateReplay => NarratesThisTurn)'
    BY CandidateKept
    DEF PromptAsChosen, HistoryOnce, ReadOnlyNeverWrites, NarratesThisTurn, At, WriteCapable
  <1> QED BY <1>3, <1>4, <1>6, <1>7, <1>8, <1>9

LEMMA TransportKeeps ==
    ASSUME IInv, Overflows \/ OutputEnds \/ OutputCloses \/ InputBreaks
    PROVE  IInv'
  <1> USE DEF IInv, Types
  <1>1. CASE Overflows
    <2>1. /\ SeqLike(toDriver') /\ Len(toDriver) \in Nat /\ Len(toDriver') = Len(toDriver) - 1
          /\ \A i \in DOMAIN toDriver' : i + 1 \in DOMAIN toDriver /\ toDriver'[i] = toDriver[i + 1]
      BY <1>1, Shifted DEF Overflows, Listens, Wires
    <2>2. Len(toDriver') <= MaxWire BY <2>1, AcpAssumption DEF TypeOK, AcpAssumption
    <2>3. output' = "open" /\ output = "open" /\ deaf'
      BY <1>1 DEF Overflows, Listens
    <2> QED BY <1>1, <2>1, <2>2, <2>3, FailKeeps DEF Overflows
  <1>2. CASE OutputEnds
    <2>1. /\ SeqLike(toDriver') /\ Len(toDriver') <= MaxWire /\ deaf' = deaf /\ deaf' \in BOOLEAN
          /\ toDriver' = toDriver /\ toDriver' = <<>> /\ output' \in {"ended", "closed"}
      BY <1>2 DEF OutputEnds, TypeOK, Wires
    <2> QED BY <1>2, <2>1, FailKeeps DEF OutputEnds
  <1>3. CASE OutputCloses
    <2>1. /\ SeqLike(toDriver') /\ Len(toDriver') <= MaxWire /\ deaf' = deaf /\ deaf' \in BOOLEAN
          /\ toDriver' = toDriver /\ toDriver' = <<>> /\ output' = "closed"
      BY <1>3 DEF OutputCloses, TypeOK, Wires, Table
    <2> QED BY <1>3, <2>1, FailKeeps DEF OutputCloses
  <1>4. CASE InputBreaks BY <1>4, InputKeeps DEF InputBreaks, driver, listening, agent
  <1> QED BY <1>1, <1>2, <1>3, <1>4
-----------------------------------------------------------------------------
(* The agent.                                                               *)

\* A request that the agent has tells where the driver is.
LEMMA Where ==
    ASSUME IInv, Alive, NEW r \in Pipeline
    PROVE  /\ r.method \in Opening => at.method \in Opening
           /\ r.method = "model option" => at.method = "model option"
           /\ r.method = "session/set_model" =>
                 at.method = "session/set_model" /\ r.want = given.model
           /\ r.method \in ModeMethods =>
                 \/ at.method \in ModeMethods /\ r.want = ModeWant
                 \/ at.method = "session/prompt" /\ Hint
           /\ r.method = "session/prompt" => at.method = "session/prompt"
  <1> USE DEF IInv
  <1>1. ~Free BY DEF Free, Pipeline
  <1>2. at.method \in Opening \cup {"model option", "session/set_model"} \cup ModeMethods
                      \cup {"session/prompt"}
    BY <1>1 DEF Types, TypeOK, Places, Method, Over, Alive, Stage, Opening, ModeMethods
  <1>3. CASE at.method \in Opening
    <2>1. r.method \in Opening BY <1>3 DEF Stage
    <2> QED BY <1>3, <2>1 DEF Opening, ModeMethods
  <1>4. CASE at.method = "model option"
    <2>1. r.method = "model option" BY <1>4 DEF Stage
    <2> QED BY <1>4, <2>1 DEF Opening, ModeMethods
  <1>5. CASE at.method = "session/set_model"
    <2>1. r.method = "session/set_model" /\ r.want = given.model BY <1>5 DEF Stage
    <2> QED BY <1>5, <2>1 DEF Opening, ModeMethods
  <1>6. CASE at.method \in ModeMethods
    <2>1. r.method \in ModeMethods /\ r.want = ModeWant BY <1>6 DEF Stage
    <2> QED BY <1>6, <2>1 DEF Opening, ModeMethods
  <1>7. CASE at.method = "session/prompt"
    <2>1. r.method = "session/prompt" \/ (r.method \in ModeMethods /\ Hint) BY <1>7 DEF Stage
    <2> QED BY <1>7, <2>1 DEF Opening, ModeMethods
  <1> QED BY <1>2, <1>3, <1>4, <1>5, <1>6, <1>7

\* A report goes out with each decision.
LEMMA UnreadGrows ==
    ASSUME Types, Unread, NEW x, decided' = decided \o <<x>>, approvals' = approvals,
           toDriver' = toDriver \o <<[kind |-> "report", decision |-> <<x>>]>>
    PROVE  Unread'
  <1> DEFINE a == Len(approvals)
             n == Len(decided) - a
             r == [kind |-> "report", decision |-> <<x>>]
             top == Len(toDriver) + 1
  <1>1. /\ Len(toDriver) \in Nat /\ DOMAIN toDriver = 1..Len(toDriver)
        /\ DOMAIN toDriver' = 1..top /\ toDriver'[top] = r
        /\ \A i \in DOMAIN toDriver : toDriver'[i] = toDriver[i]
    <2>1. SeqLike(toDriver) /\ toDriver' = toDriver \o <<r>> BY DEF Types, Wires
    <2> HIDE DEF r
    <2>2. toDriver' = Append(toDriver, r) BY <2>1, Adding
    <2> QED BY <2>1, <2>2, Adding
  <1>2. /\ a \in Nat /\ Len(decided) \in Nat /\ Len(decided') = Len(decided) + 1
        /\ DOMAIN decided = 1..Len(decided)
        /\ decided'[Len(decided) + 1] = x /\ \A i \in DOMAIN decided : decided'[i] = decided[i]
    <2>1. SeqLike(decided) /\ SeqLike(approvals) BY DEF Types, Wires
    <2> QED BY <2>1, Adding
  <1>3. a <= Len(decided) /\ \A i \in 1..a : approvals[i] = decided[i] BY DEF Unread
  <1>4. PICK p \in [1..n -> DOMAIN toDriver] :
          /\ \A k \in DOMAIN p : /\ toDriver[p[k]].kind = "report"
                                 /\ toDriver[p[k]].decision = <<decided[a + k]>>
          /\ \A j, k \in DOMAIN p : j < k => p[j] < p[k]
          /\ \A i \in DOMAIN toDriver : toDriver[i].kind = "report" => \E k \in DOMAIN p : p[k] = i
    BY DEF Unread
  <1>5. r.kind = "report" /\ r.decision = <<x>> OBVIOUS
  <1> DEFINE m == Len(decided') - Len(approvals')
  <1>6. m = n + 1 /\ n \in Nat /\ a + m = Len(decided) + 1 /\ Len(approvals') = a BY <1>2, <1>3
  <1> HIDE DEF a, n, r, top, m
  <1> DEFINE q == [k \in 1..m |-> IF k = m THEN top ELSE p[k]]
  <1>7. \A k \in 1..m : k = m \/ (k \in 1..n /\ k # m) BY <1>6
  <1>8. \A k \in 1..n : p[k] \in 1..Len(toDriver) /\ toDriver'[p[k]] = toDriver[p[k]] BY <1>1, <1>4
  <1>9. top \in DOMAIN toDriver' /\ \A k \in 1..Len(toDriver) : k < top /\ k \in DOMAIN toDriver'
    BY <1>1 DEF top
  <1>10. q \in [1..m -> DOMAIN toDriver'] BY <1>7, <1>8, <1>9
  <1>11. \A k \in 1..m : /\ toDriver'[q[k]].kind = "report"
                         /\ toDriver'[q[k]].decision = <<decided'[a + k]>>
    <2> TAKE k \in 1..m
    <2>1. CASE k = m
      <3>1. q[k] = top BY <2>1
      <3>2. decided'[a + k] = x BY <1>2, <1>6, <2>1
      <3> QED BY <1>1, <1>5, <3>1, <3>2
    <2>2. CASE k \in 1..n /\ k # m
      <3>1. q[k] = p[k] BY <2>2
      <3>2. a + k \in 1..Len(decided) BY <1>2, <1>6, <2>2
      <3>3. decided'[a + k] = decided[a + k] BY <1>2, <3>2
      <3>4. k \in DOMAIN p BY <1>4, <2>2
      <3>5. toDriver[p[k]].kind = "report" /\ toDriver[p[k]].decision = <<decided[a + k]>>
        BY <1>4, <3>4
      <3> QED BY <1>8, <2>2, <3>1, <3>3, <3>5
    <2> QED BY <1>7, <2>1, <2>2
  <1>12. \A j, k \in 1..m : j < k => q[j] < q[k]
    <2> SUFFICES ASSUME NEW j \in 1..m, NEW k \in 1..m, j < k PROVE q[j] < q[k] OBVIOUS
    <2>1. j \in 1..n /\ j # m BY <1>6
    <2>2. q[j] = p[j] BY <2>1
    <2>3. CASE k = m BY <1>8, <1>9, <2>1, <2>2, <2>3
    <2>4. CASE k \in 1..n /\ k # m
      <3>1. q[k] = p[k] BY <2>4
      <3>2. p[j] < p[k] BY <1>4, <2>1, <2>4
      <3> QED BY <2>2, <3>1, <3>2
    <2> QED BY <1>7, <2>3, <2>4
  <1>13. \A i \in DOMAIN toDriver' : toDriver'[i].kind = "report" => \E k \in 1..m : q[k] = i
    <2> SUFFICES ASSUME NEW i \in DOMAIN toDriver', toDriver'[i].kind = "report"
                 PROVE  \E k \in 1..m : q[k] = i
      OBVIOUS
    <2>1. m \in 1..m BY <1>6
    <2>2. CASE i = top
      <3>1. q[m] = i BY <2>1, <2>2
      <3> QED BY <2>1, <3>1
    <2>3. CASE i \in DOMAIN toDriver
      <3>1. PICK k \in 1..n : p[k] = i BY <1>1, <1>4, <2>3
      <3>2. k \in 1..m /\ k # m BY <1>6
      <3>3. q[k] = i BY <3>1, <3>2
      <3> QED BY <3>2, <3>3
    <2> QED BY <1>1, <2>2, <2>3 DEF top
  <1>14. a <= Len(decided') /\ \A i \in 1..a : approvals[i] = decided'[i]
    <2>1. \A i \in 1..a : i \in DOMAIN decided BY <1>2, <1>3
    <2> QED BY <1>2, <1>3, <2>1
  <1>15. DOMAIN q = 1..m OBVIOUS
  <1> HIDE DEF q
  <1>16. \A k \in DOMAIN q : /\ toDriver'[q[k]].kind = "report"
                             /\ toDriver'[q[k]].decision = <<decided'[Len(approvals') + k]>>
    BY <1>6, <1>11, <1>15
  <1> QED BY <1>6, <1>10, <1>12, <1>13, <1>14, <1>15, <1>16 DEF Unread, m

\* The agent answers the request that it has at hand, after what a load replays.
LEMMA AnswerKeeps ==
    ASSUME IInv, Alive, Busy, UNCHANGED <<given, driver, listening, transport>>,
           NEW frames, NEW a, SeqLike(frames), a \in DOMAIN frames, frames[a].kind = "answer",
           Sends(frames),
           \A i \in DOMAIN frames : i # a => frames[i].kind \in {"chunk", "tool"},
           ~LateReplay => \A i \in DOMAIN frames : i # a => work.method = "session/load" /\ i < a,
           work' = None \/ (work'.method = "answered" /\ DOMAIN work' = DOMAIN Refuse),
           UNCHANGED <<toAgent, decided, wrote>>,
           work.method = at.method => Truth(frames[a].outcome)',
           DOMAIN sess' = DOMAIN Idle, Stage'
    PROVE  IInv'
  <1> USE DEF IInv, Types
  <1>1. /\ given' = given /\ at' = at /\ session' = session /\ replaying' = replaying
        /\ pending' = pending /\ outcome' = outcome
        /\ result' = result /\ turn' = turn /\ approvals' = approvals /\ narrated' = narrated
        /\ writable' = writable /\ output' = output /\ deaf' = deaf
        /\ toAgent' = toAgent /\ decided' = decided /\ wrote' = wrote
    BY DEF driver, listening, transport
  <1> PICK n : n = Len(toDriver) OBVIOUS
  <1>2. /\ SeqLike(toDriver') /\ n \in Nat
        /\ DOMAIN toDriver = 1..n /\ DOMAIN frames = 1..Len(frames) /\ Len(frames) \in Nat
        /\ DOMAIN toDriver' = 1..(n + Len(frames))
        /\ \A i \in DOMAIN toDriver : toDriver'[i] = toDriver[i]
        /\ \A i \in DOMAIN frames : toDriver'[n + i] = frames[i]
        /\ \A i \in DOMAIN toDriver' : i > n => i - n \in DOMAIN frames /\ toDriver'[i] = frames[i - n]
        /\ Len(toDriver') <= MaxWire
    <2>1. toDriver' = toDriver \o frames /\ Len(toDriver) + Len(frames) <= MaxWire
      BY DEF Sends, Room
    <2>2. SeqLike(toDriver) BY DEF Wires
    <2> QED BY <2>1, <2>2, Joining
  <1>3. a \in Nat /\ a >= 1 /\ n + a \in DOMAIN toDriver' /\ toDriver'[n + a] = frames[a]
    BY <1>2
  <1>4. ~Busy' /\ ~At({"session/prompt"})'
    BY DEF Busy, Method, At
  <1>5. Requests' = Requests BY <1>1 DEF Requests
  <1>6. work \in Pipeline BY DEF Pipeline
  <1>7. ~Free /\ ~(outcome # None /\ outcome.ok) BY DEF Free, Settled
  <1>8. \A i \in DOMAIN toDriver' : i \in DOMAIN toDriver \/ (i > n /\ i - n \in DOMAIN frames
                                      /\ toDriver'[i] = frames[i - n])
    BY <1>2
  <1>9. \A i \in DOMAIN toDriver' \ DOMAIN toDriver : toDriver'[i].kind \in {"answer", "chunk", "tool"}
    BY <1>8
  <1>10. Types'
    <2>1. TypeOK' BY <1>1, <1>2 DEF TypeOK
    <2> QED BY <1>1, <1>2, <2>1 DEF Wires
  <1>11. Table'
    <2>1. output = "open" BY DEF Alive
    <2> QED BY <1>1, <2>1 DEF Table
  <1>12. ~deaf => /\ Answers = {} /\ Requests = {} /\ pending # None
                  /\ work.method = at.method
    BY <1>6, <1>7 DEF InFlight, Alive
  <1>13. ~deaf => Answers' = {n + a}
    <2> SUFFICES ASSUME ~deaf PROVE Answers' = {n + a} OBVIOUS
    <2>1. \A i \in DOMAIN toDriver : toDriver'[i].kind # "answer" BY <1>2, <1>12 DEF Answers
    <2>2. ASSUME NEW i \in DOMAIN toDriver', toDriver'[i].kind = "answer" PROVE i = n + a
      <3>1. i > n /\ i - n \in DOMAIN frames /\ toDriver'[i] = frames[i - n] BY <1>8, <2>1, <2>2
      <3>2. i - n = a BY <2>2, <3>1
      <3> QED BY <1>2, <3>1, <3>2
    <2> QED BY <1>3, <2>2 DEF Answers
  <1>14. InFlight'
    <2> SUFFICES ASSUME ~deaf, output = "open" PROVE InFlight' BY <1>1 DEF InFlight
    <2>1. Answers' = {n + a} /\ Requests' = {} /\ pending' # None BY <1>1, <1>5, <1>12, <1>13
    <2>2. Pipeline' = {} BY <1>4, <2>1 DEF Pipeline
    <2>3. Truth(toDriver[n + a].outcome)'
      <3>1. Truth(frames[a].outcome)' BY <1>12
      <3> QED BY <1>3, <3>1 DEF Truth
    <2>4. \A j \in DOMAIN toDriver' : j > n + a => toDriver'[j].kind # "report"
      <3> SUFFICES ASSUME NEW j \in DOMAIN toDriver', j > n + a PROVE toDriver'[j].kind # "report"
        OBVIOUS
      <3>1. j \notin DOMAIN toDriver BY <1>2, <1>3
      <3> QED BY <1>9, <3>1
    <2> QED BY <1>4, <2>1, <2>2, <2>3, <2>4 DEF InFlight
  <1>15. Settled' BY <1>1, <1>7 DEF Settled
  <1>16. Permitted' BY <1>1 DEF Permitted, Policy
  <1>17. Suspended'
    <2> SUFFICES ASSUME ~LateReplay, ~deaf, NEW i \in DOMAIN toDriver',
                        toDriver'[i].kind \in {"tool", "thought"}, toDriver'[i].of # "this"
                 PROVE  at.method = "session/load" /\ \E j \in Answers' : j > i
      BY <1>1 DEF Suspended
    <2>1. i \notin DOMAIN toDriver
      <3> SUFFICES ASSUME i \in DOMAIN toDriver PROVE FALSE OBVIOUS
      <3>1. toDriver[i].kind \in {"tool", "thought"} /\ toDriver[i].of # "this" BY <1>2
      <3>2. Answers # {} BY <3>1 DEF Suspended
      <3> QED BY <1>12, <3>2
    <2>2. i > n /\ i - n \in DOMAIN frames /\ toDriver'[i] = frames[i - n] BY <1>8, <2>1
    <2>3. i - n # a BY <2>2
    <2>4. work.method = "session/load" /\ i - n < a BY <2>2, <2>3
    <2>5. n + a \in Answers' /\ n + a > i BY <1>2, <1>3, <1>13, <2>2, <2>4
    <2> QED BY <1>12, <2>4, <2>5
  <1>18. Reported'
    <2>1. ASSUME given.upstream, ~deaf PROVE Unread'
      <3>1. Unread BY <2>1 DEF Reported
      <3>2. DOMAIN toDriver \subseteq DOMAIN toDriver' BY <1>2
      <3> QED BY <1>1, <1>2, <1>9, <3>1, <3>2, UnreadJoins
    <2>2. at.method \notin {"drain", "returned"} BY <1>7 DEF Stage, Alive
    <2>3. given.upstream => \A i \in DOMAIN toDriver' : toDriver'[i].kind # "ask"
      BY <1>2, <1>9 DEF Reported
    <2> QED BY <1>1, <1>7, <2>1, <2>2, <2>3 DEF Reported
  <1>19. ReadOnlyNeverWrites' /\ (~LateReplay => NarratesThisTurn)'
    BY <1>1 DEF ReadOnlyNeverWrites, NarratesThisTurn, WriteCapable
  <1>20. PromptAsChosen' /\ HistoryOnce' BY <1>4 DEF PromptAsChosen, HistoryOnce
  <1> QED BY <1>10, <1>11, <1>14, <1>15, <1>16, <1>17, <1>18, <1>19, <1>20

\* The agent says something that is no answer, or nothing.
LEMMA LaterKeeps ==
    ASSUME IInv, Alive, UNCHANGED <<given, driver, listening, transport>>,
           UNCHANGED <<toAgent, work, sess, history>>,
           SeqLike(toDriver'), Len(toDriver') <= MaxWire,
           DOMAIN toDriver \subseteq DOMAIN toDriver',
           \A i \in DOMAIN toDriver : toDriver'[i] = toDriver[i],
           \A i \in DOMAIN toDriver' \ DOMAIN toDriver :
              /\ toDriver'[i].kind # "answer"
              /\ toDriver'[i].kind \in {"tool", "thought"} => toDriver'[i].of = "this"
              /\ toDriver'[i].kind = "report" => Busy,
           SeqLike(decided'), ReadOnlyNeverWrites', Reported'
    PROVE  IInv'
  <1> USE DEF IInv, Types
  <1>1. /\ given' = given /\ at' = at /\ session' = session /\ replaying' = replaying
        /\ pending' = pending /\ outcome' = outcome
        /\ result' = result /\ turn' = turn /\ approvals' = approvals /\ narrated' = narrated
        /\ writable' = writable /\ output' = output /\ deaf' = deaf /\ output = "open"
        /\ toAgent' = toAgent /\ work' = work /\ sess' = sess /\ history' = history
    BY DEF driver, listening, transport, Alive
  <1>2. Busy' = Busy /\ Free' = Free /\ Pipeline' = Pipeline /\ Requests' = Requests
    BY <1>1 DEF Busy, Free, Pipeline, Requests
  <1>3. Answers' = Answers
    <2>1. \A i \in DOMAIN toDriver' : toDriver'[i].kind = "answer" => i \in DOMAIN toDriver
      OBVIOUS
    <2> QED BY <2>1 DEF Answers
  <1>4. Types'
    <2>1. TypeOK' BY <1>1 DEF TypeOK
    <2> QED BY <1>1, <2>1 DEF Wires
  <1>5. Table' BY <1>1 DEF Table
  <1>6. InFlight'
    <2> SUFFICES ASSUME ~deaf PROVE InFlight' BY <1>1 DEF InFlight
    <2>1. \A i \in Answers' :
            /\ Truth(toDriver[i].outcome)'
            /\ \A j \in DOMAIN toDriver' : j > i => toDriver'[j].kind # "report"
      <3> SUFFICES ASSUME NEW i \in Answers'
                   PROVE  /\ Truth(toDriver[i].outcome)'
                          /\ \A j \in DOMAIN toDriver' : j > i => toDriver'[j].kind # "report"
        OBVIOUS
      <3>1. /\ i \in DOMAIN toDriver /\ toDriver'[i] = toDriver[i] /\ Truth(toDriver[i].outcome)
            /\ \A j \in DOMAIN toDriver : j > i => toDriver[j].kind # "report"
            /\ ~Busy
        BY <1>1, <1>3 DEF InFlight, Answers
      <3>2. Truth(toDriver[i].outcome)' BY <1>1, <3>1 DEF Truth, Memory, ModeWant
      <3> QED BY <3>1, <3>2
    <2> QED BY <1>1, <1>2, <1>3, <2>1 DEF InFlight
  <1>7. Settled' BY <1>1, <1>2 DEF Settled, Truth, Memory, ModeWant
  <1>8. Stage'
    <2>1. Entered' = Entered /\ Hint' = Hint /\ ModeWant' = ModeWant
          /\ At({"session/prompt"})' = At({"session/prompt"})
          /\ ModelSettled(sess.model)' = ModelSettled(sess.model)
          /\ ModeSettled(sess.mode)' = ModeSettled(sess.mode)
      BY <1>1, CandidateKept DEF Entered, Memory, Hint, ModeWant, At, ModelSettled, ModeSettled
    <2> QED BY <1>1, <1>2, <2>1 DEF Stage
  <1>9. Permitted' BY <1>1 DEF Permitted, Policy
  <1>10. Suspended'
    <2>1. \A i \in DOMAIN toDriver' :
            toDriver'[i].kind \in {"tool", "thought"} /\ toDriver'[i].of # "this"
            => /\ i \in DOMAIN toDriver /\ toDriver[i].kind \in {"tool", "thought"}
               /\ toDriver[i].of # "this"
      OBVIOUS
    <2> QED BY <1>1, <1>3, <2>1 DEF Suspended
  <1>11. PromptAsChosen' /\ HistoryOnce' /\ (~LateReplay => NarratesThisTurn)'
    BY <1>1, CandidateKept DEF PromptAsChosen, HistoryOnce, NarratesThisTurn, At
  <1> QED BY <1>4, <1>5, <1>6, <1>7, <1>8, <1>9, <1>10, <1>11

LEMMA TakenFacts ==
    ASSUME SeqLike(toAgent), toAgent # <<>>, toAgent' = Tail(toAgent)
    PROVE  /\ SeqLike(toAgent') /\ Head(toAgent) = toAgent[1] /\ 1 \in DOMAIN toAgent
           /\ \A i \in DOMAIN toAgent : i \in Nat /\ i >= 1
           /\ \A i \in DOMAIN toAgent' :
                 i \in Nat /\ i >= 1 /\ i + 1 \in DOMAIN toAgent /\ toAgent'[i] = toAgent[i + 1]
           /\ \A i \in Requests' : i + 1 \in Requests /\ i \in Nat /\ i >= 1
                                   /\ toAgent'[i] = toAgent[i + 1]
           /\ \A j \in Requests : j # 1 => j - 1 \in Requests' /\ j \in Nat
                                           /\ toAgent'[j - 1] = toAgent[j]
  <1>1. /\ SeqLike(toAgent') /\ Head(toAgent) = toAgent[1] /\ 1 \in DOMAIN toAgent
        /\ Len(toAgent) \in Nat
        /\ DOMAIN toAgent = 1..Len(toAgent) /\ DOMAIN toAgent' = 1..(Len(toAgent) - 1)
        /\ \A i \in DOMAIN toAgent' : i + 1 \in DOMAIN toAgent /\ toAgent'[i] = toAgent[i + 1]
    BY Taking
  <1>2. \A j \in DOMAIN toAgent :
            j # 1 => j - 1 \in DOMAIN toAgent' /\ toAgent'[j - 1] = toAgent[j]
    <2> SUFFICES ASSUME NEW j \in DOMAIN toAgent, j # 1
                 PROVE  j - 1 \in DOMAIN toAgent' /\ toAgent'[j - 1] = toAgent[j]
      OBVIOUS
    <2>1. j - 1 \in DOMAIN toAgent' /\ (j - 1) + 1 = j BY <1>1
    <2> QED BY <1>1, <2>1
  <1>3. \A i \in Requests' : i + 1 \in Requests /\ i \in Nat /\ i >= 1
                             /\ toAgent'[i] = toAgent[i + 1]
    BY <1>1 DEF Requests
  <1>4. \A j \in Requests : j # 1 => j - 1 \in Requests' /\ j \in Nat
                                     /\ toAgent'[j - 1] = toAgent[j]
    BY <1>1, <1>2 DEF Requests
  <1>5. \A i \in DOMAIN toAgent : i \in Nat /\ i >= 1 BY <1>1
  <1>6. \A i \in DOMAIN toAgent' : i \in Nat /\ i >= 1 BY <1>1
  <1> QED BY <1>1, <1>3, <1>4, <1>5, <1>6

\* What the agent reads is a request that it takes up, or what the floor selected.
LEMMA AgentReadsKeeps == ASSUME IInv, AgentReads PROVE IInv'
  <1> USE DEF IInv, Types
  <1>1. /\ Alive /\ toAgent # <<>> /\ toAgent' = Tail(toAgent)
        /\ given' = given /\ at' = at /\ session' = session /\ replaying' = replaying
        /\ pending' = pending /\ outcome' = outcome
        /\ result' = result /\ turn' = turn /\ approvals' = approvals /\ narrated' = narrated
        /\ writable' = writable /\ output' = output /\ deaf' = deaf /\ output = "open"
        /\ decided' = decided /\ toDriver' = toDriver
    BY DEF AgentReads, Still, driver, listening, transport, Alive
  <1>2. /\ SeqLike(toAgent') /\ Head(toAgent) = toAgent[1] /\ 1 \in DOMAIN toAgent
        /\ \A i \in DOMAIN toAgent : i \in Nat /\ i >= 1
        /\ \A i \in DOMAIN toAgent' :
              i \in Nat /\ i >= 1 /\ i + 1 \in DOMAIN toAgent /\ toAgent'[i] = toAgent[i + 1]
        /\ \A i \in Requests' : i + 1 \in Requests /\ i \in Nat /\ i >= 1
                                /\ toAgent'[i] = toAgent[i + 1]
        /\ \A j \in Requests : j # 1 => j - 1 \in Requests' /\ j \in Nat
                                        /\ toAgent'[j - 1] = toAgent[j]
    BY <1>1, TakenFacts DEF Wires
  <1>3. Answers' = Answers BY <1>1 DEF Answers
  <1>4. Permitted'
    <2> SUFFICES ASSUME NEW i \in DOMAIN toAgent'
                 PROVE  \/ toAgent'[i].kind = "request"
                        \/ /\ toAgent'[i].kind = "permission"
                           /\ toAgent'[i].option = Respond(toAgent'[i].ask, Policy')
      BY DEF Permitted
    <2>1. Policy' = Policy BY <1>1 DEF Policy
    <2> QED BY <1>2, <2>1 DEF Permitted
  <1>5. Table' /\ Suspended' /\ Reported' /\ (~LateReplay => NarratesThisTurn)'
    <2>1. given.upstream /\ ~deaf => Unread' BY <1>1, UnreadJoins DEF Reported
    <2> QED BY <1>1, <1>3, <2>1 DEF Table, Suspended, Reported, NarratesThisTurn
  <1>6. TypeOK' /\ Wires' BY <1>1, <1>2 DEF TypeOK, Wires
  <1>7. CASE toAgent[1].kind = "permission"
    <2>1. /\ Told(toAgent[1].ask, Respond(toAgent[1].ask, Policy))
          /\ work' = work /\ history' = history
      BY <1>2, <1>7 DEF AgentReads, Permitted
    <2>2. sess' = sess /\ (Policy = "read-only" /\ ~wrote => ~wrote') BY <2>1, ToldKeeps
    <2>3. 1 \notin Requests BY <1>7 DEF Requests
    <2>4. Busy' = Busy BY <2>1 DEF Busy
    <2>5. Requests = {} <=> Requests' = {} BY <1>2, <2>3
    <2>6. Free' = Free BY <2>4, <2>5 DEF Free
    <2>7. Pipeline' \subseteq Pipeline
      BY <1>2, <2>1, <2>4 DEF Pipeline
    <2>8. Types' BY <1>1, <1>6, <2>1, <2>2
    <2>9. InFlight'
      <3> SUFFICES ASSUME ~deaf PROVE InFlight' BY <1>1 DEF InFlight
      <3>1. \A i, j \in Requests' : i = j
        <4> SUFFICES ASSUME NEW i \in Requests', NEW j \in Requests' PROVE i = j OBVIOUS
        <4>1. i + 1 = j + 1 BY <1>1, <1>2 DEF InFlight
        <4> QED BY <1>2, <4>1
      <3>2. \A i \in Answers' : Truth(toDriver[i].outcome)'
        BY <1>1, <1>3, <2>1, <2>2 DEF InFlight, Truth, Memory, ModeWant
      <3> QED BY <1>1, <1>3, <2>4, <2>5, <2>6, <2>7, <3>1, <3>2 DEF InFlight
    <2>10. Settled' BY <1>1, <2>1, <2>2, <2>6 DEF Settled, Truth, Memory, ModeWant
    <2>11. Stage'
      <3>1. Entered' = Entered /\ Hint' = Hint /\ ModeWant' = ModeWant
            /\ At({"session/prompt"})' = At({"session/prompt"})
            /\ ModelSettled(sess.model)' = ModelSettled(sess.model)
            /\ ModeSettled(sess.mode)' = ModeSettled(sess.mode)
        BY <1>1, <2>1, <2>2, CandidateKept
        DEF Entered, Memory, Hint, ModeWant, At, ModelSettled, ModeSettled
      <3>2. at.method = "session/prompt" =>
              \A i \in Requests' : toAgent'[i].method = "session/prompt" =>
                /\ ModelSettled(sess.model) /\ ModeSettled(sess.mode)
                /\ history = IF toAgent'[i].want = "with context" THEN 0 ELSE 1
                /\ \A j \in Requests' : j <= i
        <4> SUFFICES ASSUME at.method = "session/prompt", NEW i \in Requests',
                            toAgent'[i].method = "session/prompt"
                     PROVE  /\ ModelSettled(sess.model) /\ ModeSettled(sess.mode)
                            /\ history = IF toAgent'[i].want = "with context" THEN 0 ELSE 1
                            /\ \A j \in Requests' : j <= i
          OBVIOUS
        <4>1. /\ i + 1 \in Requests /\ toAgent[i + 1].method = "session/prompt"
              /\ toAgent'[i] = toAgent[i + 1]
          BY <1>2
        <4>2. \A j \in Requests : j <= i + 1 BY <4>1 DEF Stage
        <4>3. \A j \in Requests' : j <= i BY <1>2, <4>2
        <4> QED BY <4>1, <4>3 DEF Stage
      <3>3. Requests = {} => Requests' = {} BY <2>5
      <3> HIDE DEF Requests
      <3>4. \A r \in Pipeline' : r \in Pipeline BY <2>7
      <3> QED BY <1>1, <2>1, <2>2, <2>5, <2>6, <3>1, <3>2, <3>4 DEF Stage
    <2>12. PromptAsChosen' /\ HistoryOnce'
      BY <1>1, <2>1, <2>2, CandidateKept DEF PromptAsChosen, HistoryOnce, At
    <2>13. ReadOnlyNeverWrites'
      BY <1>1, <2>2 DEF ReadOnlyNeverWrites, WriteCapable, Policy
    <2> QED BY <1>4, <1>5, <2>8, <2>9, <2>10, <2>11, <2>12, <2>13
  <1>8. CASE toAgent[1].kind = "request"
    <2> DEFINE r == [method |-> toAgent[1].method, want |-> toAgent[1].want]
    <2>1. /\ work' = r /\ sess' = sess /\ wrote' = wrote
          /\ history' = IF toAgent[1].method = "session/prompt" /\ toAgent[1].want = "with context"
                        THEN history + 1 ELSE history
      BY <1>2, <1>8 DEF AgentReads
    <2>2. 1 \in Requests /\ r \in Pipeline BY <1>2, <1>8 DEF Requests, Pipeline
    <2>3. r.method = toAgent[1].method /\ r.want = toAgent[1].want /\ DOMAIN r = {"method", "want"}
      OBVIOUS
    <2> HIDE DEF r
    <2>4. \A x \in Pipeline' : x \in Pipeline
      <3>1. \A i \in Requests' : [method |-> toAgent'[i].method, want |-> toAgent'[i].want] \in Pipeline
        BY <1>2 DEF Pipeline
      <3> QED BY <2>1, <2>2, <3>1 DEF Pipeline
    <2>5. ~Free /\ ~(outcome # None /\ outcome.ok) BY <2>2 DEF Free, Settled
    <2>6. toAgent[1].method = "session/prompt" => /\ at.method = "session/prompt"
                                                  /\ Requests' = {}
                                                  /\ ModelSettled(sess.model) /\ ModeSettled(sess.mode)
                                                  /\ history' = 1
      <3> SUFFICES ASSUME toAgent[1].method = "session/prompt"
                   PROVE  /\ at.method = "session/prompt" /\ Requests' = {}
                          /\ ModelSettled(sess.model) /\ ModeSettled(sess.mode) /\ history' = 1
        OBVIOUS
      <3>1. at.method = "session/prompt" BY <1>1, <2>2, <2>3, Where
      <3>2. /\ ModelSettled(sess.model) /\ ModeSettled(sess.mode)
            /\ history = IF toAgent[1].want = "with context" THEN 0 ELSE 1
            /\ \A j \in Requests : j <= 1
        BY <2>2, <3>1 DEF Stage
      <3>3. Requests' = {}
        <4> SUFFICES ASSUME NEW i \in Requests' PROVE FALSE OBVIOUS
        <4>1. i \in Nat /\ i >= 1 /\ i + 1 \in Requests BY <1>2
        <4>2. i + 1 <= 1 BY <3>2, <4>1
        <4> QED BY <4>1, <4>2
      <3>4. CASE toAgent[1].want = "with context"
        <4>1. history = 0 /\ history' = history + 1 BY <2>1, <3>2, <3>4
        <4>2. history' = 0 + 1 BY <4>1
        <4>3. history' = 1 BY <4>2
        <4> QED BY <3>1, <3>2, <3>3, <4>3
      <3>5. CASE toAgent[1].want # "with context"
        <4>1. history' = 1 BY <2>1, <3>2, <3>5
        <4> QED BY <3>1, <3>2, <3>3, <4>1
      <3> QED BY <3>4, <3>5
    <2>7. toAgent[1].method # "session/prompt" => history' = history BY <2>1
    <2>8. At({"session/prompt"})' => toAgent[1].method = "session/prompt"
      BY <2>1, <2>3 DEF At
    <2>9. Types' BY <1>1, <1>6, <2>1, <2>3 DEF Refuse
    <2>10. InFlight'
      <3> SUFFICES ASSUME ~deaf PROVE InFlight' BY <1>1 DEF InFlight
      <3>1. Answers = {} /\ pending # None /\ \A j \in Requests : j = 1
        BY <1>1, <2>2, <2>5 DEF InFlight
      <3>2. Requests' = {} BY <1>2, <3>1
      <3>3. \A x \in Pipeline' : x.method = at.method BY <1>1, <2>4 DEF InFlight
      <3> QED BY <1>1, <1>3, <3>1, <3>2, <3>3 DEF InFlight
    <2>11. Settled' BY <1>1, <2>5 DEF Settled
    <2>12. Stage'
      <3>1. Hint' = Hint /\ ModeWant' = ModeWant
            /\ ModelSettled(sess.model)' = ModelSettled(sess.model)
            /\ ModeSettled(sess.mode)' = ModeSettled(sess.mode)
        BY <1>1, <2>1, CandidateKept DEF Hint, ModeWant, ModelSettled, ModeSettled
      <3>2. at.method # "session/prompt" => Entered' = Entered /\ history' = history
        BY <1>1, <2>1, <2>6, <2>7 DEF Entered, Memory
      <3>3. at.method = "session/prompt" =>
              \A i \in Requests' : toAgent'[i].method = "session/prompt" =>
                /\ ModelSettled(sess.model) /\ ModeSettled(sess.mode)
                /\ history' = IF toAgent'[i].want = "with context" THEN 0 ELSE 1
                /\ \A j \in Requests' : j <= i
        <4> SUFFICES ASSUME at.method = "session/prompt", NEW i \in Requests',
                            toAgent'[i].method = "session/prompt"
                     PROVE  /\ ModelSettled(sess.model) /\ ModeSettled(sess.mode)
                            /\ history' = IF toAgent'[i].want = "with context" THEN 0 ELSE 1
                            /\ \A j \in Requests' : j <= i
          OBVIOUS
        <4>1. /\ i + 1 \in Requests /\ toAgent[i + 1].method = "session/prompt"
              /\ toAgent'[i] = toAgent[i + 1]
          BY <1>2
        <4>2. \A j \in Requests : j <= i + 1 BY <4>1 DEF Stage
        <4>3. \A j \in Requests' : j <= i BY <1>2, <4>2
        <4>4. history' = history BY <2>6, <2>7
        <4> QED BY <4>1, <4>3, <4>4 DEF Stage
      <3>4. At({"session/prompt"})' => Requests' = {} BY <2>6, <2>8
      <3>5. at.method # "drain" BY <2>5 DEF Stage
      <3> HIDE DEF Requests
      <3> QED BY <1>1, <2>1, <2>4, <3>1, <3>2, <3>3, <3>4, <3>5
              DEF Stage, Opening, ModeMethods
    <2>13. PromptAsChosen'
      <3> SUFFICES ASSUME At({"session/prompt"})' PROVE PromptAsChosen' BY DEF PromptAsChosen
      <3>1. ModelSettled(sess.model) /\ ModeSettled(sess.mode) BY <2>6, <2>8
      <3> QED BY <1>1, <2>1, <3>1, CandidateKept DEF PromptAsChosen, ModelSettled, ModeSettled
    <2>14. HistoryOnce' BY <2>6, <2>8 DEF HistoryOnce
    <2>15. ReadOnlyNeverWrites' BY <1>1, <2>1 DEF ReadOnlyNeverWrites, WriteCapable
    <2> QED BY <1>4, <1>5, <2>9, <2>10, <2>11, <2>12, <2>13, <2>14, <2>15
  <1> QED BY <1>2, <1>7, <1>8 DEF Permitted

LEMMA AnswerOne ==
    ASSUME IInv, Alive, Busy, Still, NEW o, Sends(<<Answer(o)>>),
           work' = None \/ (work'.method = "answered" /\ DOMAIN work' = DOMAIN Refuse),
           UNCHANGED <<toAgent, decided, wrote>>,
           work.method = at.method => Truth(o)',
           DOMAIN sess' = DOMAIN Idle, Stage'
    PROVE  IInv'
  <1> PICK f : f = Answer(o) OBVIOUS
  <1>1. f.kind = "answer" /\ f.outcome = o BY DEF Answer
  <1>2. SeqLike(<<f>>) /\ DOMAIN <<f>> = {1} /\ <<f>>[1] = f BY Few
  <1> PICK frames : frames = <<f>> OBVIOUS
  <1>3. SeqLike(frames) /\ DOMAIN frames = {1} /\ frames[1] = f /\ Sends(frames) BY <1>2
  <1>4. work.method = at.method => Truth(frames[1].outcome)' BY <1>1, <1>3
  <1>5. UNCHANGED <<given, driver, listening, transport>> BY DEF Still
  <1> QED BY <1>1, <1>3, <1>4, <1>5, AnswerKeeps

\* A request that is done with, and no session changed by it.
LEMMA StageQuits ==
    ASSUME Stage, UNCHANGED <<given, at, session, sess, history, toAgent>>,
           work' = None \/ work'.method = "answered"
    PROVE  Stage'
  <1>1. ~Busy' /\ ~At({"session/prompt"})' BY DEF Busy, Method, At
  <1>2. Requests' = Requests BY DEF Requests
  <1>3. Pipeline' \subseteq Pipeline BY <1>1, <1>2 DEF Pipeline
  <1>4. Entered' = Entered /\ Hint' = Hint /\ ModeWant' = ModeWant
        /\ ModelSettled(sess.model)' = ModelSettled(sess.model)
        /\ ModeSettled(sess.mode)' = ModeSettled(sess.mode)
    BY CandidateKept DEF Entered, Memory, Hint, ModeWant, ModelSettled, ModeSettled
  <1>5. \A r \in Pipeline' : r \in Pipeline BY <1>3
  <1>6. Free => Free' BY <1>1, <1>2 DEF Free
  <1> QED BY <1>1, <1>2, <1>4, <1>5, <1>6 DEF Stage

LEMMA AgentPlainKeeps ==
    ASSUME IInv, AgentRefuses \/ AgentAuthenticates \/ AgentEndsPrompt
    PROVE  IInv'
  <1> USE DEF IInv, Types
  <1>1. /\ Alive /\ Busy /\ Still /\ sess' = sess /\ history' = history
        /\ toAgent' = toAgent /\ decided' = decided /\ wrote' = wrote
    BY DEF AgentRefuses, AgentAuthenticates, AgentEndsPrompt, At, Busy, Method
  <1>2. work' = None \/ (work'.method = "answered" /\ DOMAIN work' = DOMAIN Refuse)
    <2>1. work' = None \/ work' = [work EXCEPT !.method = "answered"]
      BY DEF AgentRefuses, AgentAuthenticates, AgentEndsPrompt
    <2>2. DOMAIN work = DOMAIN Refuse /\ DOMAIN Refuse = {"method", "want"} BY <1>1 DEF Busy, Refuse
    <2> QED BY <2>1, <2>2
  <1>3. /\ given' = given /\ at' = at /\ session' = session BY <1>1 DEF Still, driver
  <1>4. Stage' BY <1>1, <1>2, <1>3, StageQuits
  <1>5. PICK o : Sends(<<Answer(o)>>) /\ (work.method = at.method => Truth(o)')
    <2>1. CASE AgentRefuses
      <3>1. ~Refused("other").ok BY DEF Refused
      <3>2. Truth(Refused("other"))' BY <3>1 DEF Truth
      <3> QED BY <2>1, <3>2 DEF AgentRefuses
    <2>2. CASE AgentAuthenticates
      <3>1. work.method = "authenticate" BY <2>2 DEF AgentAuthenticates, At
      <3>2. work.method = at.method => Truth(Granted(None))' BY <1>3, <3>1 DEF Truth
      <3> QED BY <2>2, <3>2 DEF AgentAuthenticates
    <2>3. CASE AgentEndsPrompt
      <3>1. work.method = "session/prompt" BY <2>3 DEF AgentEndsPrompt, At
      <3>2. work.method = at.method => Truth(Granted(None))' BY <1>3, <3>1 DEF Truth
      <3> QED BY <2>3, <3>2 DEF AgentEndsPrompt
    <2> QED BY <2>1, <2>2, <2>3
  <1>6. DOMAIN sess' = DOMAIN Idle BY <1>1
  <1> QED BY <1>1, <1>2, <1>4, <1>5, <1>6, AnswerOne

LEMMA AgentSetsKeeps == ASSUME IInv, AgentSets PROVE IInv'
  <1> USE DEF IInv, Types
  <1>1. /\ Alive /\ Busy /\ Still /\ work' = None /\ history' = history
        /\ toAgent' = toAgent /\ decided' = decided /\ wrote' = wrote
    BY DEF AgentSets, At, Busy, Method
  <1>2. given' = given /\ at' = at /\ session' = session BY <1>1 DEF Still, driver
  <1>3. DOMAIN sess = {"id", "mode", "model"} /\ DOMAIN Idle = {"id", "mode", "model"} BY DEF Idle
  <1>4. work \in Pipeline BY <1>1 DEF Pipeline
  <1>5. ~Busy' /\ ~At({"session/prompt"})' /\ Requests' = Requests
    BY <1>1 DEF Busy, At, Requests
  <1>6. \A r \in Pipeline' : r \in Pipeline BY <1>1, <1>5 DEF Pipeline
  <1>7. CASE At({"initialize"}) /\ sess' = sess /\ Sends(<<Answer(Granted(None))>>)
    <2>1. Stage' BY <1>1, <1>2, <1>7, StageQuits
    <2>2. work.method = at.method => Truth(Granted(None))' BY <1>2, <1>7 DEF Truth, At
    <2>3. DOMAIN sess' = DOMAIN Idle BY <1>7
    <2> QED BY <1>1, <1>7, <2>1, <2>2, <2>3, AnswerOne
  <1>8. CASE /\ At({"session/set_model", "model option"})
             /\ \/ sess' = [sess EXCEPT !.model = work.want]
                \/ At({"model option"}) /\ sess' = sess
             /\ Sends(<<Answer(Granted(sess'.model))>>)
    <2>1. /\ DOMAIN sess' = DOMAIN Idle /\ sess'.mode = sess.mode
          /\ work.method = "session/set_model" => sess'.model = work.want
      BY <1>3, <1>8 DEF At
    <2>2. PICK o : o = Granted(sess'.model) OBVIOUS
    <2>3. o.body = sess'.model BY <2>2 DEF Granted
    <2>4. \/ work.method = "model option" /\ at.method = "model option"
          \/ work.method = "session/set_model" /\ at.method = "session/set_model"
             /\ work.want = given.model
      BY <1>1, <1>4, <1>8, Where DEF At
    <2>5. Truth(o)' BY <1>2, <2>1, <2>3, <2>4 DEF Truth
    <2>6. Stage'
      <3>1. Entered' = Entered BY <1>1, <1>2 DEF Entered, Memory
      <3> QED BY <1>2, <1>6, <2>1, <2>4, <3>1 DEF Stage, Opening, ModeMethods
    <2>7. Sends(<<Answer(o)>>) BY <1>8, <2>2
    <2> QED BY <1>1, <2>1, <2>5, <2>6, <2>7, AnswerOne
  <1>9. CASE /\ At({"session/set_mode", "mode option"})
             /\ \/ sess' = [sess EXCEPT !.mode = work.want]
                \/ At({"mode option"}) /\ sess' = sess
             /\ Sends(<<Answer(Granted(sess'.mode))>>)
    <2>1. /\ DOMAIN sess' = DOMAIN Idle /\ sess'.model = sess.model
          /\ work.method = "session/set_mode" => sess'.mode = work.want
      BY <1>3, <1>9 DEF At
    <2>2. PICK o : o = Granted(sess'.mode) OBVIOUS
    <2>3. o.body = sess'.mode BY <2>2 DEF Granted
    <2>4. /\ work.method \in ModeMethods
          /\ \/ at.method \in ModeMethods /\ work.want = ModeWant
             \/ at.method = "session/prompt" /\ Hint
      BY <1>1, <1>4, <1>9, Where DEF At, ModeMethods
    <2>5. work.method = at.method => Truth(o)'
      <3>1. ModeWant' = ModeWant BY <1>2 DEF ModeWant
      <3> QED BY <1>2, <2>1, <2>3, <2>4, <3>1 DEF Truth, ModeMethods
    <2>6. Stage'
      <3>1. Entered' = Entered /\ ModelSettled(sess.model)' = ModelSettled(sess.model)
            /\ ModeWant' = ModeWant /\ Hint' = Hint
        BY <1>1, <1>2, <2>1, CandidateKept DEF Entered, Memory, ModelSettled, ModeWant, Hint
      <3>2. CASE at.method \in ModeMethods
        BY <1>2, <1>6, <3>1, <3>2 DEF Stage, Opening, ModeMethods
      <3>3. CASE at.method = "session/prompt" /\ Hint
        <4>1. ModeSettled(sess.mode)' BY <1>2, <3>3 DEF Hint, ModeSettled
        <4>2. \A i \in Requests' : toAgent'[i].method = "session/prompt" =>
              /\ ModelSettled(sess.model)'
              /\ history' = IF toAgent'[i].want = "with context" THEN 0 ELSE 1
              /\ \A j \in Requests' : j <= i
          BY <1>1, <1>5, <3>1, <3>3 DEF Stage
        <4>3. \A r \in Pipeline' : r.method = "session/prompt" \/ (r.method \in ModeMethods /\ Hint')
          BY <1>6, <3>1, <3>3 DEF Stage
        <4> QED BY <1>2, <1>5, <3>3, <4>1, <4>2, <4>3 DEF Stage, Opening, ModeMethods
      <3> QED BY <2>4, <3>2, <3>3
    <2>7. Sends(<<Answer(o)>>) BY <1>9, <2>2
    <2> QED BY <1>1, <2>1, <2>5, <2>6, <2>7, AnswerOne
  <1> QED BY <1>7, <1>8, <1>9 DEF AgentSets

LEMMA Around ==
    ASSUME NEW c, NEW t, NEW f
    PROVE  /\ LET p == <<c, t>> \o <<f>>
              IN SeqLike(p) /\ DOMAIN p = 1..3 /\ p[1] = c /\ p[2] = t /\ p[3] = f
           /\ LET p == <<f>> \o <<c, t>>
              IN SeqLike(p) /\ DOMAIN p = 1..3 /\ p[1] = f /\ p[2] = c /\ p[3] = t
  <1> DEFINE one == <<f>>
             two == <<c, t>>
  <1>1. SeqLike(one) /\ Len(one) = 1 /\ one[1] = f BY Few
  <1>2. SeqLike(two) /\ Len(two) = 2 /\ two[1] = c /\ two[2] = t BY Few
  <1> HIDE DEF one, two
  <1>8. SeqLike(one) /\ SeqLike(two) BY <1>1, <1>2
  <1>3. /\ SeqLike(two \o one) /\ DOMAIN (two \o one) = 1..(Len(two) + Len(one))
        /\ DOMAIN two = 1..Len(two) /\ DOMAIN one = 1..Len(one)
        /\ \A i \in DOMAIN two : (two \o one)[i] = two[i]
        /\ \A i \in DOMAIN one : (two \o one)[Len(two) + i] = one[i]
    BY <1>8, Joining
  <1>4. /\ SeqLike(one \o two) /\ DOMAIN (one \o two) = 1..(Len(one) + Len(two))
        /\ DOMAIN one = 1..Len(one) /\ DOMAIN two = 1..Len(two)
        /\ \A i \in DOMAIN one : (one \o two)[i] = one[i]
        /\ \A i \in DOMAIN two : (one \o two)[Len(one) + i] = two[i]
    BY <1>8, Joining
  <1>5. /\ (two \o one)[1] = c /\ (two \o one)[2] = t /\ (two \o one)[2 + 1] = f
        /\ (one \o two)[1] = f /\ (one \o two)[1 + 1] = c /\ (one \o two)[1 + 2] = t
        /\ DOMAIN (two \o one) = 1..(2 + 1) /\ DOMAIN (one \o two) = 1..(1 + 2)
    BY <1>1, <1>2, <1>3, <1>4
  <1> DEFINE p == two \o one
             q == one \o two
  <1>6. SeqLike(p) /\ DOMAIN p = 1..3 /\ p[1] = c /\ p[2] = t /\ p[3] = f BY <1>3, <1>5
  <1>7. SeqLike(q) /\ DOMAIN q = 1..3 /\ q[1] = f /\ q[2] = c /\ q[3] = t BY <1>4, <1>5
  <1> QED BY <1>6, <1>7 DEF one, two

LEMMA AgentOpensKeeps == ASSUME IInv, AgentOpens PROVE IInv'
  <1> USE DEF IInv, Types
  <1>1. /\ Alive /\ Busy /\ Still /\ work' = None
        /\ toAgent' = toAgent /\ decided' = decided /\ wrote' = wrote
        /\ work.method \in {"session/load", "session/new"}
    BY DEF AgentOpens, At, Busy, Method
  <1>2. given' = given /\ at' = at /\ session' = session BY <1>1 DEF Still, driver
  <1>3. work \in Pipeline BY <1>1 DEF Pipeline
  <1>4. at.method \in Opening BY <1>1, <1>3, Where DEF Opening
  <1>5. ~Busy' /\ Requests' = Requests BY <1>1 DEF Busy, Requests
  <1>6. \A r \in Pipeline' : r \in Pipeline BY <1>1, <1>5 DEF Pipeline
  <1>7. Stage' BY <1>2, <1>4, <1>6, StageOpening DEF Stage
  <1>8. CASE sess' = sess /\ Sends(<<Answer(Refused("auth"))>>)
    <2>1. ~Refused("auth").ok BY DEF Refused
    <2>2. Truth(Refused("auth"))' BY <2>1 DEF Truth
    <2>3. DOMAIN sess' = DOMAIN Idle BY <1>8
    <2> QED BY <1>1, <1>7, <1>8, <2>2, <2>3, AnswerOne
  <1>9. ASSUME NEW mode, NEW model, NEW replay \in Replay,
               replay # <<>> => work.method = "session/load",
               sess' = [id |-> IF work.method = "session/load" THEN "old" ELSE "new",
                        mode |-> mode, model |-> model],
               history' = IF work.method = "session/load" THEN 1 ELSE 0,
               \/ Sends(replay \o <<Answer(Granted(sess'))>>)
               \/ LateReplay /\ Sends(<<Answer(Granted(sess'))>> \o replay)
        PROVE  IInv'
    <2>1. PICK o : o = Granted(sess') OBVIOUS
    <2>2. o.body = sess' BY <2>1 DEF Granted
    <2>3. sess'.id = "old" <=> work.method = "session/load" BY <1>9
    <2>4. DOMAIN sess' = DOMAIN Idle BY <1>9 DEF Idle
    <2>5. work.method = at.method => Truth(o)'
      <3>1. history' = Memory(sess)' BY <1>9, <2>3 DEF Memory
      <3> QED BY <1>1, <1>2, <2>2, <3>1 DEF Truth
    <2> PICK f : f = Answer(o) OBVIOUS
    <2>6. f.kind = "answer" /\ f.outcome = o BY DEF Answer
    <2> PICK c, t : /\ c = [kind |-> "chunk", id |-> None, text |-> 0]
                    /\ t = [kind |-> "tool", of |-> "before"]
      OBVIOUS
    <2>7. c.kind = "chunk" /\ t.kind = "tool" OBVIOUS
    <2>8. replay = <<>> \/ replay = <<c, t>> BY DEF Replay
    <2>9. UNCHANGED <<given, driver, listening, transport>> BY <1>1 DEF Still
    <2>10. PICK frames, a : /\ Sends(frames)
                            /\ \/ frames = <<f>> /\ a = 1
                               \/ frames = <<c, t>> \o <<f>> /\ a = 3 /\ work.method = "session/load"
                               \/ frames = <<f>> \o <<c, t>> /\ a = 1 /\ LateReplay
      <3>1. <<>> \o <<f>> = <<f>> /\ <<f>> \o <<>> = <<f>> BY SMT
      <3> QED BY <1>9, <2>1, <2>8, <3>1
    <2>15. /\ SeqLike(frames)
           /\ a \in DOMAIN frames /\ frames[a] = f
           /\ \A i \in DOMAIN frames : i # a => frames[i] \in {c, t}
           /\ ~LateReplay => \A i \in DOMAIN frames : i # a => work.method = "session/load" /\ i < a
      <3> PICK p : p = <<c, t>> \o <<f>> OBVIOUS
      <3> PICK q : q = <<f>> \o <<c, t>> OBVIOUS
      <3>1. SeqLike(p) /\ DOMAIN p = 1..3 /\ p[1] = c /\ p[2] = t /\ p[3] = f BY Around
      <3>2. SeqLike(q) /\ DOMAIN q = 1..3 /\ q[1] = f /\ q[2] = c /\ q[3] = t BY Around
      <3>3. CASE frames = <<f>> /\ a = 1 BY <3>3, Few
      <3>4. CASE frames = p /\ a = 3 /\ work.method = "session/load" BY <3>1, <3>4
      <3>5. CASE frames = q /\ a = 1 /\ LateReplay BY <3>2, <3>5
      <3> QED BY <2>10, <3>3, <3>4, <3>5
    <2>11. SeqLike(frames) /\ a \in DOMAIN frames /\ frames[a] = f BY <2>15
    <2>12. \A i \in DOMAIN frames : i # a => frames[i].kind \in {"chunk", "tool"}
      BY <2>7, <2>15
    <2>13. ~LateReplay => \A i \in DOMAIN frames : i # a => work.method = "session/load" /\ i < a
      BY <2>15
    <2>14. work.method = at.method => Truth(frames[a].outcome)'
      BY <2>5, <2>6, <2>11
    <2> QED BY <1>1, <1>7, <2>4, <2>6, <2>9, <2>10, <2>11, <2>12, <2>13, <2>14, AnswerKeeps
  <1>10. \/ sess' = sess /\ Sends(<<Answer(Refused("auth"))>>)
         \/ \E mode \in given.modes \cup {None}, model \in given.models, replay \in Replay :
              /\ replay # <<>> => work.method = "session/load"
              /\ sess' = [id |-> IF work.method = "session/load" THEN "old" ELSE "new",
                          mode |-> mode, model |-> model]
              /\ history' = IF work.method = "session/load" THEN 1 ELSE 0
              /\ \/ Sends(replay \o <<Answer(Granted(sess'))>>)
                 \/ LateReplay /\ Sends(<<Answer(Granted(sess'))>> \o replay)
    BY <1>1 DEF AgentOpens, At, Busy
  <1> QED BY <1>8, <1>9, <1>10

\* A frame of the turn.
LEMMA FrameKeeps ==
    ASSUME IInv, Alive, Still, UNCHANGED <<toAgent, work, sess, history>>, NEW f, Sends(<<f>>),
           f.kind # "answer", f.kind \in {"tool", "thought"} => f.of = "this",
           f.kind = "report" => Busy,
           SeqLike(decided'), ReadOnlyNeverWrites',
           given.upstream => f.kind # "ask",
           \/ decided' = decided /\ (given.upstream => f.kind # "report")
           \/ /\ given.upstream /\ Busy
              /\ \E x : /\ f = [kind |-> "report", decision |-> <<x>>]
                        /\ decided' = decided \o <<x>>
    PROVE  IInv'
  <1> USE DEF IInv
  <1>1. /\ given' = given /\ at' = at /\ outcome' = outcome /\ deaf' = deaf
        /\ approvals' = approvals
        /\ UNCHANGED <<given, driver, listening, transport>>
    BY DEF Still, driver, listening, transport
  <1>2. SeqLike(toDriver) /\ toDriver' = toDriver \o <<f>> BY DEF Types, Wires, Sends
  <1>3. toDriver' = Append(toDriver, f) BY <1>2, Adding
  <1> PICK n : n = Len(toDriver) OBVIOUS
  <1>4. /\ SeqLike(toDriver') /\ n \in Nat /\ Len(toDriver') = n + 1
        /\ DOMAIN toDriver = 1..n /\ DOMAIN toDriver' = 1..(n + 1)
        /\ toDriver'[n + 1] = f
        /\ \A i \in DOMAIN toDriver : toDriver'[i] = toDriver[i]
    <2>1. /\ SeqLike(Append(toDriver, f)) /\ n \in Nat /\ Len(Append(toDriver, f)) = n + 1
          /\ DOMAIN toDriver = 1..n /\ DOMAIN Append(toDriver, f) = 1..(n + 1)
          /\ Append(toDriver, f)[n + 1] = f
          /\ \A i \in DOMAIN toDriver : Append(toDriver, f)[i] = toDriver[i]
      BY <1>2, Adding
    <2> QED BY <1>3, <2>1
  <1>5. Len(toDriver') <= MaxWire
    <2>1. Len(<<f>>) = 1 BY Few
    <2> QED BY <1>4, <2>1 DEF Sends, Room
  <1>6. \A i \in DOMAIN toDriver' : i = n + 1 \/ i \in DOMAIN toDriver BY <1>4
  <1>7. DOMAIN toDriver \subseteq DOMAIN toDriver' BY <1>4
  <1>8. \A i \in DOMAIN toDriver' \ DOMAIN toDriver : toDriver'[i] = f BY <1>4, <1>6
  <1>9. Reported'
    <2>1. given.upstream => \A i \in DOMAIN toDriver' : toDriver'[i].kind # "ask"
      BY <1>4, <1>6 DEF Reported
    <2>2. at.method # "returned" BY DEF Alive
    <2>3. CASE decided' = decided /\ (given.upstream => f.kind # "report")
      <3>1. given.upstream /\ ~deaf => Unread'
        BY <1>1, <1>4, <1>7, <1>8, <2>3, UnreadJoins DEF Reported
      <3>2. given.upstream => \A k : k \in DOMAIN toDriver' /\ toDriver'[k].kind = "report"
                                     => k \in DOMAIN toDriver /\ toDriver[k].kind = "report"
        BY <1>4, <1>6, <2>3
      <3> QED BY <1>1, <2>1, <2>2, <2>3, <3>1, <3>2 DEF Reported
    <2>4. CASE /\ given.upstream /\ Busy
               /\ \E x : /\ f = [kind |-> "report", decision |-> <<x>>]
                         /\ decided' = decided \o <<x>>
      <3>1. ~(outcome # None /\ outcome.ok) /\ at.method # "drain"
        BY <2>4 DEF Settled, Free, Stage
      <3>2. ~deaf => Unread' BY <1>1, <1>2, <2>4, UnreadGrows DEF Reported
      <3> QED BY <1>1, <2>1, <2>2, <2>4, <3>1, <3>2 DEF Reported
    <2> QED BY <2>3, <2>4
  <1> QED BY <1>1, <1>4, <1>5, <1>7, <1>8, <1>9, LaterKeeps

\* Nothing that the driver could read.
LEMMA QuietKeeps ==
    ASSUME IInv, Alive, Still, UNCHANGED <<toAgent, toDriver, work, sess, history, decided>>,
           ReadOnlyNeverWrites'
    PROVE  IInv'
  <1> USE DEF IInv
  <1>1. /\ given' = given /\ at' = at /\ outcome' = outcome /\ deaf' = deaf
        /\ approvals' = approvals
        /\ UNCHANGED <<given, driver, listening, transport>>
    BY DEF Still, driver, listening, transport
  <1>2. given.upstream /\ ~deaf => Unread' BY <1>1, UnreadJoins DEF Reported
  <1>3. Reported' BY <1>1, <1>2 DEF Reported
  <1>4. SeqLike(toDriver') /\ Len(toDriver') <= MaxWire /\ SeqLike(decided')
    BY DEF Types, TypeOK, Wires
  <1> QED BY <1>1, <1>3, <1>4, LaterKeeps

LEMMA AgentTurnKeeps ==
    ASSUME IInv, AgentSays \/ AgentWrites \/ AgentForges \/ AgentFloods
    PROVE  IInv'
  <1> USE DEF IInv
  <1>1. /\ Alive /\ Still /\ UNCHANGED <<toAgent, work, sess, history, decided>>
        /\ given' = given /\ SeqLike(decided')
    BY DEF AgentSays, AgentWrites, AgentForges, AgentFloods, Still, Types, Wires
  <1>2. wrote' = wrote => ReadOnlyNeverWrites'
    BY <1>1 DEF ReadOnlyNeverWrites, WriteCapable
  <1>3. CASE AgentSays
    <2>1. PICK f : Sends(<<f>>) /\ f.kind \in {"chunk", "tool", "thought"}
                   /\ (f.kind # "chunk" => f.of = "this")
      BY <1>3 DEF AgentSays
    <2>2. ReadOnlyNeverWrites' BY <1>2, <1>3 DEF AgentSays
    <2> QED BY <1>1, <2>1, <2>2, FrameKeeps
  <1>4. CASE AgentWrites
    <2>1. At({"session/prompt"}) /\ WriteCapable(sess.mode) /\ toDriver' = toDriver
      BY <1>4 DEF AgentWrites
    <2>2. /\ given.mode # None => sess.mode = given.mode
          /\ given.mode = None /\ given.requirePlan => sess.mode = "plan"
      BY <2>1 DEF PromptAsChosen
    <2>3. ReadOnlyNeverWrites'
      BY <1>1, <2>1, <2>2 DEF ReadOnlyNeverWrites, WriteCapable, ReadOnlyModes
    <2> QED BY <1>1, <2>1, <2>3, QuietKeeps
  <1>5. CASE AgentForges
    <2>1. Busy /\ wrote' = wrote BY <1>5 DEF AgentForges, At, Busy, Method
    <2>2. CASE given.upstream
      <3>1. toDriver' = toDriver BY <1>5, <2>2 DEF AgentForges
      <3> QED BY <1>1, <1>2, <2>1, <3>1, QuietKeeps
    <2>3. CASE ~given.upstream
      <3>1. PICK f : Sends(<<f>>) /\ f.kind = "report" BY <1>5, <2>3 DEF AgentForges
      <3> QED BY <1>1, <1>2, <2>1, <2>3, <3>1, FrameKeeps
    <2> QED BY <2>2, <2>3
  <1>6. CASE AgentFloods
    <2>1. PICK f : Sends(<<f>>) /\ f.kind = "huge" BY <1>6 DEF AgentFloods
    <2>2. ReadOnlyNeverWrites' BY <1>2, <1>6 DEF AgentFloods
    <2> QED BY <1>1, <2>1, <2>2, FrameKeeps
  <1> QED BY <1>3, <1>4, <1>5, <1>6

LEMMA AgentAsksKeeps == ASSUME IInv, AgentAsks PROVE IInv'
  <1> USE DEF IInv
  <1>1. /\ Alive /\ Still /\ UNCHANGED <<toAgent, work, history>> /\ given' = given
        /\ Busy
    BY DEF AgentAsks, Still, At, Busy, Method
  <1>2. wrote' = wrote => ReadOnlyNeverWrites'
    BY <1>1 DEF ReadOnlyNeverWrites, WriteCapable
  <1>3. CASE ~given.upstream
    <2>1. PICK f : Sends(<<f>>) /\ f.kind = "ask" BY <1>3 DEF AgentAsks
    <2>2. sess' = sess /\ wrote' = wrote /\ decided' = decided BY <1>3 DEF AgentAsks
    <2>3. SeqLike(decided') BY <2>2 DEF Types, Wires
    <2> QED BY <1>1, <1>2, <1>3, <2>1, <2>2, <2>3, FrameKeeps
  <1>4. CASE given.upstream
    <2>1. PICK ask \in Ask :
            /\ Told(ask, Respond(ask, Policy))
            /\ decided' = decided \o Decision(ask, Policy)
            /\ IF Decision(ask, Policy) = <<>> THEN toDriver' = toDriver
               ELSE Sends(<<[kind |-> "report", decision |-> Decision(ask, Policy)]>>)
      BY <1>4 DEF AgentAsks
    <2>2. sess' = sess /\ (Policy = "read-only" /\ ~wrote => ~wrote') BY <2>1, ToldKeeps
    <2>3. ReadOnlyNeverWrites' BY <1>1, <2>2 DEF ReadOnlyNeverWrites, WriteCapable, Policy
    <2>4. SeqLike(decided) BY DEF Types, Wires
    <2>5. SeqLike(decided') BY <2>1, <2>4, DecisionSeq
    <2>6. CASE Decision(ask, Policy) = <<>>
      <3>1. PICK S : decided \in Seq(S) BY <2>4 DEF SeqLike
      <3>2. decided \o <<>> = decided BY <3>1
      <3>3. decided' = decided /\ toDriver' = toDriver BY <2>1, <2>6, <3>2
      <3> QED BY <1>1, <2>2, <2>3, <3>3, QuietKeeps
    <2>7. CASE Decision(ask, Policy) # <<>>
      <3>1. PICK x : Decision(ask, Policy) = <<x>> BY <2>7 DEF Decision
      <3>2. PICK f : f = [kind |-> "report", decision |-> <<x>>] OBVIOUS
      <3>3. Sends(<<f>>) /\ decided' = decided \o <<x>> BY <2>1, <2>7, <3>1, <3>2
      <3>4. f.kind = "report" BY <3>2
      <3> QED BY <1>1, <1>4, <2>2, <2>3, <2>5, <3>2, <3>3, <3>4, FrameKeeps
    <2> QED BY <2>6, <2>7
  <1> QED BY <1>3, <1>4
-----------------------------------------------------------------------------
LEMMA InitHolds == ASSUME Init PROVE IInv
  <1> DEFINE first == [kind |-> "request", method |-> "initialize", want |-> None]
  <1>1. /\ given \in Given
        /\ at = [method |-> "initialize", for |-> None, retried |-> FALSE]
        /\ pending = "initialize" /\ outcome = None /\ session = Idle /\ turn = Silent
        /\ replaying = FALSE /\ approvals = <<>> /\ result = None
        /\ writable = TRUE /\ output = "open" /\ deaf = FALSE
        /\ toAgent = <<first>> /\ toDriver = <<>> /\ work = None /\ sess = Idle /\ history = 0
        /\ wrote = FALSE /\ decided = <<>> /\ narrated = {}
    BY DEF Init
  <1>2. first.kind = "request" /\ first.method = "initialize" OBVIOUS
  <1> HIDE DEF first
  <1>3. SeqLike(toAgent) /\ DOMAIN toAgent = {1} /\ toAgent[1] = first BY <1>1, Few
  <1>4. SeqLike(toDriver) /\ SeqLike(approvals) /\ SeqLike(decided)
        /\ DOMAIN toDriver = {} /\ Len(toDriver) = 0 /\ Len(decided) = 0 /\ Len(approvals) = 0
    BY <1>1, Few
  <1>5. at.method = "initialize" /\ at \in Places BY <1>1 DEF Places, Method
  <1>6. TypeOK
    <2>1. pending \in Method BY <1>1 DEF Method
    <2>2. Len(toDriver) <= MaxWire BY <1>4, AcpAssumption DEF AcpAssumption
    <2>3. turn.labels = FALSE BY <1>1 DEF Silent
    <2>4. given \in Given /\ pending \in Method \cup {None} /\ outcome = None /\ result = None
          /\ replaying \in BOOLEAN /\ deaf \in BOOLEAN /\ writable \in BOOLEAN
          /\ output \in {"open", "ended", "closed"}
      BY <1>1, <2>1
    <2>5. turn.labels \in BOOLEAN BY <2>3
    <2> QED BY <1>5, <2>2, <2>4, <2>5, Zenon DEF TypeOK
  <1>7. Types
    <2>1. Shaped(turn) BY <1>1 DEF Shaped, Silent
    <2> QED BY <1>1, <1>3, <1>4, <1>6, <2>1 DEF Types, Wires
  <1>8. Requests = {1} /\ Answers = {} /\ ~Busy BY <1>1, <1>2, <1>3, <1>4 DEF Requests, Answers, Busy
  <1>9. \A r \in Pipeline : r.method = "initialize" BY <1>2, <1>3, <1>8 DEF Pipeline
  <1>10. Table BY <1>1, <1>5 DEF Table
  <1>11. InFlight
    <2>1. pending # None BY <1>1, AcpAssumption DEF AcpAssumption, Method
    <2> QED BY <1>5, <1>8, <1>9, <2>1 DEF InFlight
  <1>12. Settled BY <1>1 DEF Settled
  <1>13. Stage BY <1>5, <1>9 DEF Stage, Opening, ModeMethods
  <1>14. Permitted BY <1>2, <1>3 DEF Permitted
  <1>15. Suspended BY <1>4, <1>5 DEF Suspended
  <1>16. Reported
    <2>1. Unread
      <3> DEFINE p == [k \in 1..0 |-> 1]
      <3>1. p \in [1..(Len(decided) - Len(approvals)) -> DOMAIN toDriver] BY <1>4
      <3>2. DOMAIN p = {} OBVIOUS
      <3>3. \A i \in 1..Len(approvals) : FALSE BY <1>4
      <3> HIDE DEF p
      <3>4. /\ \A k \in DOMAIN p : /\ toDriver[p[k]].kind = "report"
                                  /\ toDriver[p[k]].decision = <<decided[Len(approvals) + k]>>
            /\ \A j, k \in DOMAIN p : j < k => p[j] < p[k]
        BY <3>2, Zenon
      <3>5. \A i \in DOMAIN toDriver : toDriver[i].kind = "report" => \E k \in DOMAIN p : p[k] = i
        BY <1>4, Zenon
      <3>6. Len(approvals) <= Len(decided) BY <1>4
      <3>7. \A i \in 1..Len(approvals) : approvals[i] = decided[i] BY <3>3, Zenon
      <3> QED BY <3>1, <3>4, <3>5, <3>6, <3>7, Zenon DEF Unread
    <2> QED BY <1>1, <1>4, <1>5, <2>1 DEF Reported
  <1>17. PromptAsChosen /\ HistoryOnce /\ ReadOnlyNeverWrites /\ NarratesThisTurn
    BY <1>1 DEF PromptAsChosen, HistoryOnce, ReadOnlyNeverWrites, NarratesThisTurn, At
  <1> QED BY <1>7, <1>10, <1>11, <1>12, <1>13, <1>14, <1>15, <1>16, <1>17 DEF IInv

LEMMA NextKeeps == ASSUME IInv, [Next]_vars PROVE IInv'
  <1>1. CASE Continue
    BY <1>1, InitializedKeeps, OpensKeeps, SessionRefusedKeeps, ModelSelectedKeeps,
       ModeSelectedKeeps, EndingKeeps
    DEF Continue
  <1>2. CASE DrainEnds BY <1>2, EndingKeeps
  <1>3. CASE Dispatch
    BY <1>3, ReadAnswerKeeps, ReadUpdateKeeps, ReadAskKeeps, ReadReportKeeps, TransportKeeps
    DEF Dispatch
  <1>4. CASE AgentStep
    BY <1>4, AgentReadsKeeps, AgentPlainKeeps, AgentOpensKeeps, AgentSetsKeeps, AgentTurnKeeps,
       AgentAsksKeeps
    DEF AgentStep
  <1>5. CASE InputBreaks \/ OutputEnds \/ OutputCloses BY <1>5, TransportKeeps
  <1>6. CASE UNCHANGED vars
    <2>1. writable \in BOOLEAN BY DEF IInv, Types, TypeOK
    <2> QED BY <1>6, <2>1, InputKeeps DEF vars, driver, listening, transport, agent
  <1> QED BY <1>1, <1>2, <1>3, <1>4, <1>5, <1>6 DEF Next

\* The inductive invariant, and the types with it: a frame on its way is a frame of one
\* of the sequences, and the driver is at a place that driveAcpSession has.
THEOREM AcpInvariant == Spec => []IInv
  <1>1. Init => IInv BY InitHolds
  <1>2. IInv /\ [Next]_vars => IInv' BY NextKeeps
  <1> QED BY <1>1, <1>2, PTL DEF Spec

\* The state has its types, and no more than MaxWire frames are unread.
THEOREM AcpTypes == Spec => []TypeOK
  <1>1. IInv => TypeOK BY DEF IInv, Types
  <1> QED BY <1>1, AcpInvariant, PTL

\* No prompt is worked on in another mode or by another model than were asked for, when
\* the agent has them: not after a resume that was refused and begun anew, nor after a
\* selection that did not stick, nor by an agent that was allowed to leave its mode.
THEOREM AcpPromptsAsChosen == Spec => []PromptAsChosen
  <1>1. IInv => PromptAsChosen BY DEF IInv
  <1> QED BY <1>1, AcpInvariant, PTL

\* A member who chose a mode that only reads, or was put in plan, has nothing written,
\* whichever requests for permission the agent makes, and wherever they are answered.
THEOREM AcpReadOnly == Spec => []ReadOnlyNeverWrites
  <1>1. IInv => ReadOnlyNeverWrites BY DEF IInv
  <1> QED BY <1>1, AcpInvariant, PTL

\* A prompt finds the conversation in the agent's session once, whether the session
\* was loaded, begun anew after a load that failed, or never asked for.
THEOREM AcpHistory == Spec => []HistoryOnce
  <1>1. IInv => HistoryOnce BY DEF IInv
  <1> QED BY <1>1, AcpInvariant, PTL

\* The approvals that a turn returns with are the decisions of its floor, all of them
\* and in their order, however many of an agent's own reports came between.
THEOREM AcpReports == Spec => []ReportIsTrue
  <1>1. IInv => ReportIsTrue BY DEF IInv, Reported, ReportIsTrue
  <1> QED BY <1>1, AcpInvariant, PTL

\* An agent that replays a conversation before it answers the load has none of it shown
\* as this turn's.  One that replays it later has (LateReplay).
THEOREM AcpNarrates == ASSUME ~LateReplay PROVE Spec => []NarratesThisTurn
  <1>1. IInv => NarratesThisTurn BY DEF IInv
  <1> QED BY <1>1, AcpInvariant, PTL
-----------------------------------------------------------------------------
(* Induction over the natural numbers, for sets: the recursion of Answered *)
(* is unfolded with it.                                                    *)

LEMMA Inductive ==
    ASSUME NEW S, 0 \in S, \A n \in Nat : n \in S => n + 1 \in S
    PROVE  Nat \subseteq S
  <1> DEFINE less == {p \in Nat \X Nat : p[1] < p[2]}
  <1>1. IsWellFoundedOn(less, Nat)
    BY NatLessThanWellFounded, SMT DEF OpToRel
  <1>2. ASSUME Nat \ S # {} PROVE FALSE
    <2>1. PICK x \in Nat \ S : \A y \in Nat \ S : <<y, x>> \notin less
      <3> HIDE DEF less
      <3> QED BY <1>1, <1>2, WFMin
    <2>2. x # 0 /\ x - 1 \in Nat /\ <<x - 1, x>> \in less OBVIOUS
    <2>3. x - 1 \in S BY <2>1, <2>2
    <2>4. (x - 1) + 1 \in S BY <2>2, <2>3
    <2> QED BY <2>2, <2>4
  <1> QED BY <1>2

\* The recursion of Answered, cut off after m segments.
OneMore(labels, open, s) == IF Aside(labels, s) THEN open ELSE Joined(open, s)
UpTo(labels, q, f, m) ==
    f = [n \in 0..m |-> IF n = 0 THEN <<>>
                        ELSE IF Aside(labels, q[n]) THEN f[n - 1]
                        ELSE Joined(f[n - 1], q[n])]

LEMMA UpToExists ==
    ASSUME NEW labels, NEW q, NEW m \in Nat
    PROVE  \E f : UpTo(labels, q, f, m)
  <1> DEFINE S == {k \in Nat : \E f : UpTo(labels, q, f, k)}
  <1>1. 0 \in S
    <2> DEFINE f == [n \in 0..0 |-> <<>>]
    <2>1. UpTo(labels, q, f, 0) BY DEF UpTo
    <2> QED BY <2>1
  <1>2. ASSUME NEW k \in Nat, k \in S PROVE k + 1 \in S
    <2>1. PICK f : UpTo(labels, q, f, k) BY <1>2
    <2> DEFINE g == [n \in 0..(k + 1) |-> IF n = k + 1 THEN OneMore(labels, f[k], q[k + 1])
                                           ELSE f[n]]
               h == [n \in 0..(k + 1) |-> IF n = 0 THEN <<>>
                        ELSE IF Aside(labels, q[n]) THEN g[n - 1]
                        ELSE Joined(g[n - 1], q[n])]
    <2>2. \A n \in 0..k : g[n] = f[n] OBVIOUS
    <2>3. g[k + 1] = OneMore(labels, f[k], q[k + 1]) OBVIOUS
    <2>4. \A n \in 0..(k + 1) : h[n] = IF n = 0 THEN <<>>
                        ELSE IF Aside(labels, q[n]) THEN g[n - 1]
                        ELSE Joined(g[n - 1], q[n])
      OBVIOUS
    <2>5. DOMAIN g = 0..(k + 1) /\ DOMAIN h = 0..(k + 1)
          /\ g = [n \in 0..(k + 1) |-> g[n]] /\ h = [n \in 0..(k + 1) |-> h[n]] OBVIOUS
    <2> HIDE DEF g, h
    <2>6. ASSUME NEW n \in 0..(k + 1) PROVE g[n] = h[n]
      <3>1. CASE n = k + 1
        <4>1. n # 0 /\ n - 1 = k /\ k \in 0..k BY <3>1
        <4> QED BY <2>2, <2>3, <2>4, <3>1, <4>1 DEF OneMore
      <3>2. CASE n = 0
        <4>1. f[0] = <<>> BY <2>1 DEF UpTo
        <4>2. n \in 0..k BY <3>2
        <4> QED BY <2>2, <2>4, <3>2, <4>1, <4>2
      <3>3. CASE n \in 1..k
        <4>1. n \in 0..k /\ n - 1 \in 0..k /\ n # 0 BY <3>3
        <4>2. f[n] = IF Aside(labels, q[n]) THEN f[n - 1] ELSE Joined(f[n - 1], q[n])
          BY <2>1, <4>1 DEF UpTo
        <4> QED BY <2>2, <2>4, <4>1, <4>2
      <3> QED BY <3>1, <3>2, <3>3
    <2>7. g = h BY <2>5, <2>6
    <2>8. UpTo(labels, q, g, k + 1) BY <2>7 DEF UpTo, h
    <2> QED BY <2>8
  <1> HIDE DEF S
  <1>3. Nat \subseteq S BY <1>1, <1>2, Inductive
  <1> QED BY <1>3 DEF S

LEMMA UpToAgrees ==
    ASSUME NEW labels, NEW q, NEW p, NEW f, NEW g, NEW m \in Nat, NEW k \in Nat, m <= k,
           UpTo(labels, q, f, m), UpTo(labels, p, g, k),
           \A n \in 1..m : q[n] = p[n]
    PROVE  \A n \in 0..m : f[n] = g[n]
  <1> DEFINE S == {n \in Nat : n <= m => f[n] = g[n]}
  <1>1. f[0] = g[0] BY DEF UpTo
  <1>2. ASSUME NEW n \in Nat, n \in S PROVE n + 1 \in S
    <2> SUFFICES ASSUME n + 1 <= m PROVE f[n + 1] = g[n + 1] OBVIOUS
    <2>1. /\ n + 1 \in 0..m /\ n + 1 \in 0..k /\ n + 1 # 0 /\ (n + 1) - 1 = n /\ n + 1 \in 1..m
          /\ f[n] = g[n]
      BY <1>2
    <2>2. f[n + 1] = IF Aside(labels, q[n + 1]) THEN f[n] ELSE Joined(f[n], q[n + 1])
      BY <2>1 DEF UpTo
    <2>3. g[n + 1] = IF Aside(labels, p[n + 1]) THEN g[n] ELSE Joined(g[n], p[n + 1])
      BY <2>1 DEF UpTo
    <2>4. q[n + 1] = p[n + 1] BY <2>1
    <2> QED BY <2>1, <2>2, <2>3, <2>4
  <1>3. 0 \in S BY <1>1
  <1> HIDE DEF S
  <1>4. Nat \subseteq S BY <1>2, <1>3, Inductive
  <1> QED BY <1>4 DEF S

LEMMA AnsweredIs ==
    ASSUME NEW labels, NEW q, Len(q) \in Nat
    PROVE  \E f : UpTo(labels, q, f, Len(q)) /\ Answered(labels, q) = f[Len(q)]
  <1> DEFINE F == CHOOSE f : UpTo(labels, q, f, Len(q))
  <1>1. UpTo(labels, q, F, Len(q)) BY UpToExists
  <1>2. Answered(labels, q) = F[Len(q)] BY DEF Answered, UpTo
  <1> QED BY <1>1, <1>2

LEMMA AnsweredNone == ASSUME NEW labels PROVE Answered(labels, <<>>) = <<>>
  <1>1. Len(<<>>) = 0 /\ Len(<<>>) \in Nat BY Few
  <1>2. PICK f : UpTo(labels, <<>>, f, 0) /\ Answered(labels, <<>>) = f[0] BY <1>1, AnsweredIs
  <1> QED BY <1>2 DEF UpTo

LEMMA AnsweredMore ==
    ASSUME NEW labels, NEW q, SeqLike(q), NEW s
    PROVE  Answered(labels, Append(q, s)) = IF Aside(labels, s) THEN Answered(labels, q)
                                            ELSE Joined(Answered(labels, q), s)
  <1> DEFINE p == Append(q, s)
  <1> PICK n : n = Len(q) OBVIOUS
  <1>1. n \in Nat /\ Len(p) = n + 1 /\ p[n + 1] = s /\ \A i \in 1..n : p[i] = q[i]
    BY Adding
  <1> HIDE DEF p
  <1>2. PICK f : UpTo(labels, q, f, n) /\ Answered(labels, q) = f[n] BY <1>1, AnsweredIs
  <1>3. PICK g : UpTo(labels, p, g, n + 1) /\ Answered(labels, p) = g[n + 1]
    BY <1>1, AnsweredIs
  <1>4. f[n] = g[n] BY <1>1, <1>2, <1>3, UpToAgrees
  <1>5. g[n + 1] = IF Aside(labels, p[n + 1]) THEN g[n] ELSE Joined(g[n], p[n + 1])
    <2>1. n + 1 \in 0..(n + 1) /\ n + 1 # 0 /\ (n + 1) - 1 = n BY <1>1
    <2> QED BY <1>3, <2>1 DEF UpTo
  <1> QED BY <1>1, <1>2, <1>3, <1>4, <1>5 DEF p

-----------------------------------------------------------------------------
(* What the text of a turn has to do with the updates that were read: the  *)
(* answer, if it were put together now, tells the last message of them.    *)

Latest(q)  == q[Len(q)]
\* What the property says of the updates that were read, of any sequence of them.
Voiced(q)  == {i \in DOMAIN q : q[i].kind = "chunk"}
Named(q)   == {i \in Voiced(q) : q[i].id # None}
LastIn(q)  ==
    IF Named(q) # {} THEN {i \in Named(q) : \A j \in Named(q) : j >= i => q[j].id = q[i].id}
                     ELSE {i \in Voiced(q) : \A k \in Voiced(q) : i..k \subseteq Voiced(q)}
Going(q, id) == {i \in LastIn(q) : i \in Named(q) /\ q[i].id = id}
TellsIn(q, text, I) ==
    /\ Len(text) = Cardinality(I)
    /\ \A i \in I : text[Cardinality({j \in I : j <= i})] = q[i].text

\* The segments with the one that is open, the messages they make, and the notices.
Segment(i, w) == [id |-> i, text |-> w]
Whole(t)   == IF t.current = <<>> THEN t.segments
              ELSE Append(t.segments, Segment(t.last, t.current))
Message(m) == DOMAIN m = {"id", "text"} /\ SeqLike(m.text)
MessagesOf(w) == Answered(TRUE, w)
PlainOf(w) == Answered(FALSE, w)
AreMessages(A) == SeqLike(A) /\ (A # <<>> => Message(Latest(A)))
Pieces(w)  == {w[j] : j \in DOMAIN w}
Notices(q) == UNION {Pieces(q[i].text) : i \in {k \in DOMAIN q : q[k].id = None}}
\* A text that is being put together, and the chunks that end its open segment.
Turned(t)  ==
    /\ DOMAIN t = DOMAIN Silent /\ SeqLike(t.segments) /\ SeqLike(t.current)
    /\ t.labels \in BOOLEAN /\ t.seen \in BOOLEAN
    /\ ~t.seen => t.current = <<>>
Breaks(t, id) == t.seen /\ id # t.last

\* An agent that labelled a message has its last labelled one told; of one that labelled
\* none, every segment is a message, and one is open when the last update was a chunk.
HeardLabelled(t, q) ==
    LET A == MessagesOf(Whole(t))
    IN /\ t.current # <<>>
       /\ AreMessages(MessagesOf(t.segments)) /\ AreMessages(A) /\ A # <<>>
       /\ TellsIn(q, Latest(A).text, LastIn(q))
       /\ \A i \in LastIn(q) : q[i].id = Latest(A).id
HeardPlain(t, q) ==
    /\ t.last = None
    /\ MessagesOf(t.segments) = <<>> /\ PlainOf(t.segments) = t.segments
    /\ t.current # <<>> <=> Len(q) \in Voiced(q)
    /\ Voiced(q) = {} => Whole(t) = <<>>
    /\ Voiced(q) # {} =>
         /\ Whole(t) # <<>> /\ SeqLike(Latest(Whole(t)).text)
         /\ TellsIn(q, Latest(Whole(t)).text, LastIn(q))
Heard(t, q) ==
    /\ SeqLike(q) /\ Turned(t)
    /\ t.labels <=> Named(q) # {}
    /\ Notices(Whole(t)) = {q[i].text : i \in Voiced(q) \ Named(q)}
    /\ t.labels => HeardLabelled(t, q)
    /\ ~t.labels => HeardPlain(t, q)

\* One more update.
Passes(q, f, p)  == SeqLike(q) /\ f.kind # "chunk" /\ p = Append(q, f)
Says(q, f, p, n) == SeqLike(q) /\ f.kind = "chunk" /\ p = Append(q, f) /\ n = Len(q) + 1

LEMMA ToolSays ==
    ASSUME NEW q, NEW f, NEW p, Passes(q, f, p)
    PROVE  /\ SeqLike(p) /\ Len(p) \notin Voiced(p)
           /\ Voiced(p) = Voiced(q) /\ Named(p) = Named(q) /\ LastIn(p) = LastIn(q)
           /\ \A i \in Voiced(q) : p[i] = q[i]
           /\ LastIn(q) \subseteq Voiced(q)
  <1> PICK n : n = Len(q) OBVIOUS
  <1>1. /\ SeqLike(p) /\ n \in Nat /\ Len(p) = n + 1 /\ DOMAIN q = 1..n /\ DOMAIN p = 1..(n + 1)
        /\ p[n + 1] = f /\ \A i \in DOMAIN q : p[i] = q[i]
    BY Adding DEF Passes
  <1>2. \A i \in DOMAIN p : i = n + 1 \/ i \in DOMAIN q BY <1>1
  <1>3. \A i \in DOMAIN q : i \in DOMAIN p BY <1>1
  <1>4. Voiced(p) = Voiced(q) BY <1>1, <1>2, <1>3 DEF Voiced, Passes
  <1>5. \A i \in Voiced(q) : p[i] = q[i] BY <1>1 DEF Voiced
  <1>6. Named(p) = Named(q) BY <1>4, <1>5 DEF Named
  <1>7. \A i \in Named(q) : p[i] = q[i] BY <1>5 DEF Named
  <1>8. LastIn(p) = LastIn(q)
    <2>1. {i \in Named(q) : \A j \in Named(q) : j >= i => p[j].id = p[i].id}
            = {i \in Named(q) : \A j \in Named(q) : j >= i => q[j].id = q[i].id}
      BY <1>7
    <2> QED BY <1>4, <1>6, <2>1 DEF LastIn
  <1>9. LastIn(q) \subseteq Voiced(q) BY DEF LastIn, Named
  <1>10. Len(p) \notin Voiced(p) BY <1>1 DEF Voiced, Passes
  <1> QED BY <1>1, <1>4, <1>5, <1>6, <1>8, <1>9, <1>10

LEMMA ChunkSays ==
    ASSUME NEW q, NEW f, NEW p, NEW n, Says(q, f, p, n)
    PROVE  /\ SeqLike(p) /\ Len(p) = n /\ n \in Nat /\ Len(q) \in Nat /\ p[n] = f
           /\ Voiced(q) \subseteq 1..Len(q) /\ LastIn(q) \subseteq Voiced(q)
           /\ \A i \in Voiced(q) : p[i] = q[i]
           /\ Voiced(p) = Voiced(q) \cup {n}
  <1> PICK m : m = Len(q) OBVIOUS
  <1>0. SeqLike(q) /\ p = Append(q, f) /\ n = m + 1 /\ f.kind = "chunk" BY DEF Says
  <1>1. /\ SeqLike(p) /\ m \in Nat /\ Len(p) = n /\ DOMAIN q = 1..m /\ DOMAIN p = 1..n
        /\ p[n] = f /\ \A i \in DOMAIN q : p[i] = q[i]
    BY <1>0, Adding
  <1>2. \A i \in DOMAIN p : i = n \/ i \in DOMAIN q BY <1>0, <1>1
  <1>3. /\ \A i \in DOMAIN q : i \in DOMAIN p /\ i \in Nat /\ i < n
        /\ n \in DOMAIN p /\ n \notin DOMAIN q /\ n \in Nat
    BY <1>0, <1>1
  <1>4. Voiced(p) = Voiced(q) \cup {n} BY <1>0, <1>1, <1>2, <1>3 DEF Voiced
  <1>5. \A i \in Voiced(q) : p[i] = q[i] /\ i \in 1..m BY <1>1 DEF Voiced
  <1>6. LastIn(q) \subseteq Voiced(q) BY DEF LastIn, Named
  <1> QED BY <1>1, <1>3, <1>4, <1>5, <1>6

LEMMA NamedSays ==
    ASSUME NEW q, NEW f, NEW p, NEW n, Says(q, f, p, n), f.id # None
    PROVE  Named(p) = Named(q) \cup {n} /\ LastIn(p) = Going(q, f.id) \cup {n}
  <1> PICK m : m = Len(q) OBVIOUS
  <1>1. /\ m \in Nat /\ n = m + 1 /\ p[n] = f /\ Voiced(p) = Voiced(q) \cup {n}
        /\ \A i \in Voiced(q) : p[i] = q[i] /\ i \in 1..m
    <2>1. p[n] = f BY ChunkSays
    <2>2. Voiced(p) = Voiced(q) \cup {n} BY ChunkSays
    <2>3. \A i \in Voiced(q) : p[i] = q[i] BY ChunkSays
    <2>4. Voiced(q) \subseteq 1..Len(q) BY ChunkSays
    <2>5. Len(q) \in Nat BY ChunkSays
    <2> QED BY <2>1, <2>2, <2>3, <2>4, <2>5 DEF Says
  <1>2. Named(p) = Named(q) \cup {n} /\ p[n].id = f.id BY <1>1 DEF Named
  <1>3. \A i \in Named(q) : p[i] = q[i] /\ i \in 1..m BY <1>1 DEF Named
  <1>4. LastIn(p) = {i \in Named(p) : \A j \in Named(p) : j >= i => p[j].id = p[i].id}
    BY <1>2 DEF LastIn
  <1>5. ASSUME NEW i \in Named(q)
        PROVE  i \in LastIn(p) <=> i \in LastIn(q) /\ q[i].id = f.id
    <2>1. i \in LastIn(q) <=> \A j \in Named(q) : j >= i => q[j].id = q[i].id
      BY DEF LastIn
    <2>2. i \in LastIn(p) <=> \A j \in Named(q) \cup {n} : j >= i => p[j].id = p[i].id
      BY <1>2, <1>4
    <2>3. n >= i BY <1>1, <1>3
    <2> QED BY <1>2, <1>3, <2>1, <2>2, <2>3
  <1>6. n \in LastIn(p)
    <2>1. \A j \in Named(p) : j >= n => j = n BY <1>1, <1>2, <1>3
    <2> QED BY <1>2, <1>4, <2>1
  <1>7. LastIn(p) = Going(q, f.id) \cup {n}
    <2>1. LastIn(p) \subseteq Named(q) \cup {n} BY <1>2, <1>4
    <2>2. \A i \in Named(q) : i \in LastIn(p) <=> i \in Going(q, f.id) BY <1>5 DEF Going
    <2>3. Going(q, f.id) \subseteq Named(q) BY DEF Going
    <2> QED BY <1>6, <2>1, <2>2, <2>3
  <1> QED BY <1>2, <1>7

LEMMA NoticeSays ==
    ASSUME NEW q, NEW f, NEW p, NEW n, Says(q, f, p, n), f.id = None
    PROVE  Named(p) = Named(q) /\ (Named(q) # {} => LastIn(p) = LastIn(q))
  <1>1. /\ p[n] = f /\ Voiced(p) = Voiced(q) \cup {n}
        /\ \A i \in Voiced(q) : p[i] = q[i]
    <2>1. p[n] = f BY ChunkSays
    <2>2. Voiced(p) = Voiced(q) \cup {n} BY ChunkSays
    <2>3. \A i \in Voiced(q) : p[i] = q[i] BY ChunkSays
    <2> QED BY <2>1, <2>2, <2>3
  <1>2. Named(p) = Named(q) BY <1>1 DEF Named
  <1>3. \A i \in Named(q) : p[i] = q[i] BY <1>1 DEF Named
  <1>4. ASSUME Named(q) # {} PROVE LastIn(p) = LastIn(q)
    <2>1. Named(p) # {} BY <1>2, <1>4
    <2>2. LastIn(p) = {i \in Named(p) : \A j \in Named(p) : j >= i => p[j].id = p[i].id}
      BY <2>1 DEF LastIn
    <2>3. {i \in Named(p) : \A j \in Named(p) : j >= i => p[j].id = p[i].id}
            = {i \in Named(q) : \A j \in Named(q) : j >= i => q[j].id = q[i].id}
      BY ONLY <1>2, <1>3
    <2> QED BY ONLY <1>4, <2>2, <2>3 DEF LastIn
  <1> QED BY <1>2, <1>4

LEMMA PlainSays ==
    ASSUME NEW q, NEW f, NEW p, NEW n, Says(q, f, p, n), f.id = None, Named(q) = {}
    PROVE  /\ Len(q) \in Voiced(q) => LastIn(p) = LastIn(q) \cup {n}
           /\ Len(q) \notin Voiced(q) => LastIn(p) = {n}
  <1> PICK m : m = Len(q) OBVIOUS
  <1>1. /\ m \in Nat /\ n = m + 1 /\ n \in Nat /\ Voiced(p) = Voiced(q) \cup {n}
        /\ \A i \in Voiced(q) : p[i] = q[i] /\ i \in 1..m
    <2>1. Voiced(p) = Voiced(q) \cup {n} BY ChunkSays
    <2>2. \A i \in Voiced(q) : p[i] = q[i] BY ChunkSays
    <2>3. Voiced(q) \subseteq 1..Len(q) BY ChunkSays
    <2>4. Len(q) \in Nat BY ChunkSays
    <2> QED BY <2>1, <2>2, <2>3, <2>4 DEF Says
  <1>2. Named(p) = {} BY NoticeSays
  <1>3. /\ LastIn(p) = {i \in Voiced(p) : \A k \in Voiced(p) : i..k \subseteq Voiced(p)}
        /\ LastIn(q) = {i \in Voiced(q) : \A k \in Voiced(q) : i..k \subseteq Voiced(q)}
    BY <1>2 DEF LastIn
  <1>4. n \in LastIn(p)
    <2>1. \A k \in Voiced(p) : k \in Nat /\ k <= n BY <1>1
    <2>2. n \in Voiced(p) BY <1>1
    <2>3. ASSUME NEW k \in Voiced(p) PROVE n..k \subseteq Voiced(p)
      <3>1. k \in Nat /\ n \in Nat /\ k <= n BY <1>1, <2>1
      <3>2. n..k \subseteq {n} BY <3>1
      <3> QED BY <2>2, <3>2
    <2> QED BY <1>3, <2>2, <2>3
  <1>5. ASSUME NEW i \in Voiced(q)
        PROVE  i \in LastIn(p) <=> m \in Voiced(q) /\ i \in LastIn(q)
    <2>1. i \in 1..m BY <1>1
    <2>2. ASSUME i \in LastIn(p) PROVE m \in Voiced(q) /\ i \in LastIn(q)
      <3>1. i..n \subseteq Voiced(p) BY <1>1, <1>3, <2>2
      <3>2. i..m \subseteq Voiced(q)
        <4>1. \A j \in i..m : j \in i..n /\ j # n BY <1>1, <2>1
        <4> QED BY <1>1, <3>1, <4>1
      <3>3. m \in i..m BY <1>1, <2>1
      <3>4. \A k \in Voiced(q) : i..k \subseteq i..m BY <1>1, <2>1
      <3> QED BY <1>3, <3>2, <3>3, <3>4
    <2>3. ASSUME m \in Voiced(q), i \in LastIn(q) PROVE i \in LastIn(p)
      <3>1. i..m \subseteq Voiced(q) BY <1>3, <2>3
      <3>2. \A k \in Voiced(p) : i..k \subseteq (i..m) \cup {n} BY <1>1, <2>1
      <3> QED BY <1>1, <1>3, <3>1, <3>2
    <2> QED BY <2>2, <2>3
  <1>6. LastIn(p) \subseteq Voiced(q) \cup {n} /\ LastIn(q) \subseteq Voiced(q) BY <1>1, <1>3
  <1> QED BY <1>4, <1>5, <1>6

\* One more update of the message that is told, the first of one, and one of another.
LEMMA TellsMore ==
    ASSUME NEW q, NEW p, NEW n \in Nat, NEW I \in SUBSET (1..n), NEW text, SeqLike(text),
           TellsIn(q, text, I), \A i \in I : p[i] = q[i]
    PROVE  /\ TellsIn(p, text, I)
           /\ TellsIn(p, Append(text, p[n + 1].text), I \cup {n + 1})
  <1>1. TellsIn(p, text, I) BY DEF TellsIn
  <1> DEFINE J == I \cup {n + 1}
             x == p[n + 1].text
  <1>2. IsFiniteSet(I) /\ Cardinality(I) \in Nat /\ n + 1 \notin I
    <2>1. IsFiniteSet(1..n) BY FS_Interval
    <2>2. IsFiniteSet(I) BY <2>1, FS_Subset
    <2> QED BY <2>2, FS_CardinalityType
  <1>3. Cardinality(J) = Cardinality(I) + 1 BY <1>2, FS_AddElement
  <1> PICK c : c = Cardinality(I) OBVIOUS
  <1>4. /\ Len(text) = c /\ DOMAIN text = 1..c
        /\ Len(Append(text, x)) = c + 1 /\ Append(text, x)[c + 1] = x
        /\ \A i \in 1..c : Append(text, x)[i] = text[i]
    BY <1>1, Adding DEF TellsIn
  <1>5. ASSUME NEW i \in J PROVE Append(text, x)[Cardinality({j \in J : j <= i})] = p[i].text
    <2>1. CASE i = n + 1
      <3>1. \A j \in J : j <= n + 1 OBVIOUS
      <3>2. {j \in J : j <= i} = J BY <2>1, <3>1
      <3> HIDE DEF J
      <3> QED BY <1>3, <1>4, <2>1, <3>2
    <2>2. CASE i \in I
      <3> DEFINE K == {j \in I : j <= i}
      <3>1. {j \in J : j <= i} = K BY <2>2
      <3>2. IsFiniteSet(K) /\ Cardinality(K) <= Cardinality(I) BY <1>2, FS_Subset
      <3>3. Cardinality(K) \in Nat /\ Cardinality(K) # 0
        <4>1. i \in K BY <2>2
        <4> QED BY <3>2, <4>1, FS_CardinalityType, FS_EmptySet
      <3>4. Cardinality(K) \in 1..c BY <1>2, <3>2, <3>3
      <3>5. text[Cardinality(K)] = p[i].text BY <1>1, <2>2 DEF TellsIn
      <3> HIDE DEF K
      <3> QED BY <1>4, <3>1, <3>4, <3>5
    <2> QED BY <2>1, <2>2
  <1> QED BY <1>1, <1>3, <1>4, <1>5 DEF TellsIn

LEMMA TellsFirst ==
    ASSUME NEW p, NEW n \in Nat
    PROVE  TellsIn(p, <<p[n].text>>, {n})
  <1>1. Cardinality({n}) = 1 BY FS_Singleton
  <1> SUFFICES ASSUME NEW i \in {n}
               PROVE <<p[n].text>>[Cardinality({j \in {n} : j <= i})] = p[i].text
    BY <1>1, Few DEF TellsIn
  <1>2. {j \in {n} : j <= i} = {n} OBVIOUS
  <1> QED BY <1>1, <1>2, Few

LEMMA LatestOf ==
    ASSUME NEW q, SeqLike(q), NEW x
    PROVE  Latest(Append(q, x)) = x /\ Append(q, x) # <<>> /\ SeqLike(Append(q, x))
  <1>1. Latest(Append(q, x)) = x BY Adding DEF Latest
  <1>2. Len(Append(q, x)) # 0 BY Adding
  <1> QED BY <1>1, <1>2, Adding, Few

\* A message joins the one before it or begins its own.
LEMMA Joins ==
    ASSUME NEW A, AreMessages(A), NEW s, Message(s)
    PROVE  /\ AreMessages(Joined(A, s)) /\ Joined(A, s) # <<>> /\ Latest(Joined(A, s)).id = s.id
           /\ A # <<>> /\ s.id # None /\ Latest(A).id = s.id
                => Latest(Joined(A, s)).text = Latest(A).text \o s.text
           /\ ~(A # <<>> /\ s.id # None /\ Latest(A).id = s.id)
                => Latest(Joined(A, s)).text = s.text
  <1> PICK B : B = Joined(A, s) OBVIOUS
  <1>1. CASE A # <<>> /\ s.id # None /\ Latest(A).id = s.id
    <2> PICK S : A \in Seq(S) BY DEF AreMessages, SeqLike
    <2> DEFINE n == Len(A)
               m == [A[n] EXCEPT !.text = @ \o s.text]
    <2>1. n \in Nat /\ n # 0 /\ n \in DOMAIN A /\ DOMAIN A = 1..n BY <1>1
    <2>2. B = [A EXCEPT ![n] = m] BY <1>1 DEF Joined, Latest
    <2>3. DOMAIN A[n] = {"id", "text"} /\ SeqLike(A[n].text) BY <1>1 DEF AreMessages, Message, Latest
    <2>4. SeqLike(A[n].text \o s.text) BY <2>3, Joining DEF Message
    <2>5. m.text = A[n].text \o s.text /\ m.id = A[n].id /\ DOMAIN m = {"id", "text"}
      BY <2>3
    <2> HIDE DEF m
    <2>6. B \in Seq(S \cup {m}) /\ Len(B) = n /\ B[n] = m
      <3>1. A \in Seq(S \cup {m}) /\ m \in S \cup {m} /\ n \in 1..Len(A) BY <2>1
      <3> QED BY <2>1, <2>2, <3>1, ExceptSeq
    <2>7. B # <<>>
      <3>1. Len(B) # 0 BY <2>1, <2>6
      <3> QED BY <3>1, Few
    <2>8. Latest(B) = m /\ Latest(A) = A[n] BY <2>6 DEF Latest
    <2>9. Message(m) BY <2>4, <2>5 DEF Message
    <2> QED BY <1>1, <2>5, <2>6, <2>7, <2>8, <2>9 DEF AreMessages, SeqLike
  <1>2. CASE ~(A # <<>> /\ s.id # None /\ Latest(A).id = s.id)
    <2>1. B = Append(A, s) BY <1>2 DEF Joined, Latest
    <2> QED BY <1>2, <2>1, LatestOf DEF AreMessages
  <1> QED BY <1>1, <1>2

LEMMA NoticesMore ==
    ASSUME NEW q, SeqLike(q), NEW s
    PROVE  Notices(Append(q, s)) =
             Notices(q) \cup (IF s.id = None THEN Pieces(s.text) ELSE {})
  <1> DEFINE p == Append(q, s)
  <1> PICK n : n = Len(q) OBVIOUS
  <1>1. /\ n \in Nat /\ DOMAIN q = 1..n /\ DOMAIN p = 1..(n + 1)
        /\ p[n + 1] = s /\ \A i \in DOMAIN q : p[i] = q[i]
    BY Adding
  <1> HIDE DEF p
  <1>2. {k \in DOMAIN p : p[k].id = None} =
          {k \in DOMAIN q : q[k].id = None} \cup (IF s.id = None THEN {n + 1} ELSE {})
    <2>1. \A i \in DOMAIN p : i = n + 1 \/ i \in DOMAIN q BY <1>1
    <2>2. \A i \in DOMAIN q : i \in DOMAIN p BY <1>1
    <2>3. n + 1 \in DOMAIN p BY <1>1
    <2> QED BY <1>1, <2>1, <2>2, <2>3
  <1>3. \A k \in DOMAIN q : p[k] = q[k] BY <1>1
  <1> QED BY <1>1, <1>2, <1>3 DEF Notices, p

\* A labelled segment is of a message, and one without a label a notice.
LEMMA MessagesMore ==
    ASSUME NEW q, SeqLike(q), NEW s
    PROVE  /\ s.id = None => MessagesOf(Append(q, s)) = MessagesOf(q)
           /\ s.id # None => MessagesOf(Append(q, s)) = Joined(MessagesOf(q), s)
  <1>1. Answered(TRUE, Append(q, s)) = IF Aside(TRUE, s) THEN Answered(TRUE, q)
                                       ELSE Joined(Answered(TRUE, q), s)
    BY AnsweredMore, Zenon
  <1>2. Aside(TRUE, s) <=> s.id = None BY DEF Aside
  <1>3. CASE s.id = None BY <1>1, <1>2, <1>3, Zenon DEF MessagesOf
  <1>4. CASE s.id # None BY <1>1, <1>2, <1>4, Zenon DEF MessagesOf
  <1> QED BY <1>3, <1>4

\* What one more chunk makes of the segments.
LEMMA ChunkBreaks ==
    ASSUME NEW t, Turned(t), NEW id, NEW x, NEW u, u = Chunk(t, id, <<x>>), Breaks(t, id)
    PROVE  /\ Turned(u) /\ SeqLike(Whole(t))
           /\ u.segments = Whole(t) /\ u.current = <<x>> /\ u.last = id
           /\ Whole(u) = Append(Whole(t), Segment(id, <<x>>))
  <1> PICK v : v = Flush(t) OBVIOUS
  <1>1. DOMAIN t = {"segments", "current", "last", "seen", "labels"} BY DEF Silent, Turned
  <1>2. /\ v.segments = Whole(t) /\ v.current = <<>>
        /\ v.labels \in BOOLEAN /\ DOMAIN v = DOMAIN t
    BY <1>1 DEF Flush, Whole, Segment, Turned
  <1>3. u = [v EXCEPT !.current = @ \o <<x>>, !.last = id, !.seen = TRUE,
                      !.labels = @ \/ id # None]
    BY DEF Chunk, Breaks
  <1>4. <<>> \o <<x>> = <<x>> /\ SeqLike(<<x>>) /\ <<x>> # <<>> BY Few, Adding
  <1>5. /\ u.segments = Whole(t) /\ u.current = <<x>> /\ u.last = id
        /\ u.seen \in BOOLEAN /\ u.seen /\ u.labels \in BOOLEAN /\ DOMAIN u = DOMAIN t
    BY <1>1, <1>2, <1>3, <1>4
  <1>6. SeqLike(Whole(t)) BY Adding DEF Whole, Turned
  <1>7. Turned(u) BY <1>4, <1>5, <1>6 DEF Turned
  <1>8. Whole(u) = Append(Whole(t), Segment(id, <<x>>)) BY <1>4, <1>5 DEF Whole
  <1> QED BY <1>5, <1>6, <1>7, <1>8

LEMMA ChunkGoesOn ==
    ASSUME NEW t, Turned(t), NEW id, NEW x, NEW u, u = Chunk(t, id, <<x>>), ~Breaks(t, id)
    PROVE  /\ Turned(u)
           /\ u.segments = t.segments /\ u.current = Append(t.current, x) /\ u.last = id
           /\ Whole(u) = Append(t.segments, Segment(id, Append(t.current, x)))
           /\ SeqLike(Append(t.current, x)) /\ Append(t.current, x) # <<>>
  <1>1. DOMAIN t = {"segments", "current", "last", "seen", "labels"} BY DEF Silent, Turned
  <1>2. u = [t EXCEPT !.current = @ \o <<x>>, !.last = id, !.seen = TRUE,
                      !.labels = @ \/ id # None]
    BY DEF Chunk, Breaks
  <1>3. /\ t.current \o <<x>> = Append(t.current, x)
        /\ SeqLike(Append(t.current, x)) /\ Append(t.current, x) # <<>>
    <2>1. SeqLike(t.current) BY DEF Turned
    <2> QED BY <2>1, Adding, LatestOf
  <1>4. /\ u.segments = t.segments /\ u.current = Append(t.current, x) /\ u.last = id
        /\ u.seen \in BOOLEAN /\ u.seen /\ u.labels \in BOOLEAN /\ DOMAIN u = DOMAIN t
    BY <1>1, <1>2, <1>3 DEF Turned
  <1>5. Turned(u) BY <1>3, <1>4 DEF Turned
  <1>6. Whole(u) = Append(t.segments, Segment(id, Append(t.current, x))) BY <1>3, <1>4 DEF Whole
  <1> QED BY <1>3, <1>4, <1>5, <1>6

LEMMA ChunkLabels ==
    ASSUME NEW t, Turned(t), NEW id, NEW x, NEW u, u = Chunk(t, id, <<x>>)
    PROVE  u.seen /\ (u.labels <=> t.labels \/ id # None)
  <1> PICK v : v = IF t.seen /\ id # t.last THEN Flush(t) ELSE t OBVIOUS
  <1>1. DOMAIN t = {"segments", "current", "last", "seen", "labels"} BY DEF Silent, Turned
  <1>2. v = t \/ v = Flush(t) OBVIOUS
  <1>3. v.labels = t.labels /\ DOMAIN v = DOMAIN t BY <1>1, <1>2 DEF Flush
  <1>4. u = [v EXCEPT !.current = @ \o <<x>>, !.last = id, !.seen = TRUE,
                      !.labels = @ \/ id # None]
    BY DEF Chunk
  <1>5. u.seen /\ u.labels = (v.labels \/ id # None) BY <1>1, <1>3, <1>4
  <1> QED BY <1>3, <1>5

LEMMA AppendsLast ==
    ASSUME NEW q, SeqLike(q), NEW p, SeqLike(p), NEW x
    PROVE  q \o Append(p, x) = Append(q \o p, x)
  <1> PICK S : q \in Seq(S) BY DEF SeqLike
  <1> PICK S2 : p \in Seq(S2) BY DEF SeqLike
  <1> DEFINE T == S \cup S2 \cup {x}
  <1>1. q \in Seq(T) /\ p \in Seq(T) /\ x \in T OBVIOUS
  <1> HIDE DEF T
  <1> QED BY <1>1

\* A chunk without an id is a notice, if any of the others has one.
LEMMA ChunkNotices ==
    ASSUME NEW t, Turned(t), NEW id, NEW x, NEW u, u = Chunk(t, id, <<x>>)
    PROVE  Notices(Whole(u)) = Notices(Whole(t)) \cup (IF id = None THEN {x} ELSE {})
  <1>1. Pieces(<<x>>) = {x} /\ Pieces(<<>>) = {} BY Few DEF Pieces
  <1>2. CASE Breaks(t, id)
    <2> PICK s : s = Segment(id, <<x>>) OBVIOUS
    <2>1. s.id = id /\ s.text = <<x>> BY DEF Segment
    <2>2. Whole(u) = Append(Whole(t), s) /\ SeqLike(Whole(t)) BY <1>2, ChunkBreaks
    <2>3. Notices(Whole(u)) = Notices(Whole(t)) \cup (IF s.id = None THEN Pieces(s.text) ELSE {})
      BY <2>2, NoticesMore
    <2> QED BY <1>1, <2>1, <2>3
  <1>3. CASE ~Breaks(t, id)
    <2> PICK text : text = Append(t.current, x) OBVIOUS
    <2> PICK s : s = Segment(id, text) OBVIOUS
    <2>1. s.id = id /\ s.text = text BY DEF Segment
    <2>0. SeqLike(t.segments) /\ SeqLike(t.current) BY DEF Turned
    <2>2. Whole(u) = Append(t.segments, s)
      <3>1. Whole(u) = Append(t.segments, Segment(id, text)) BY <1>3, ChunkGoesOn
      <3> QED BY <3>1
    <2>3. Notices(Whole(u)) = Notices(t.segments) \cup (IF s.id = None THEN Pieces(s.text) ELSE {})
      BY <2>0, <2>2, NoticesMore
    <2>4. Notices(Whole(t)) = Notices(t.segments) \cup (IF id = None THEN Pieces(t.current) ELSE {})
      <3>1. CASE t.current = <<>> BY <1>1, <3>1 DEF Whole
      <3>2. CASE t.current # <<>>
        <4> PICK r : r = Segment(id, t.current) OBVIOUS
        <4>1. r.id = id /\ r.text = t.current BY DEF Segment
        <4>2. id = t.last BY <1>3, <3>2 DEF Breaks, Turned
        <4>3. Whole(t) = Append(t.segments, r) BY <3>2, <4>2 DEF Whole
        <4>4. Notices(Whole(t))
                = Notices(t.segments) \cup (IF r.id = None THEN Pieces(r.text) ELSE {})
          BY <2>0, <4>3, NoticesMore
        <4> QED BY <4>1, <4>4
      <3> QED BY <3>1, <3>2
    <2>5. Pieces(text) = Pieces(t.current) \cup {x}
      <3> PICK n : n = Len(t.current) OBVIOUS
      <3> PICK c : c = t.current OBVIOUS
      <3>1. /\ n \in Nat /\ DOMAIN c = 1..n /\ DOMAIN text = 1..(n + 1) /\ text[n + 1] = x
            /\ \A i \in DOMAIN c : text[i] = c[i]
        BY <2>0, Adding
      <3>2. DOMAIN text = DOMAIN c \cup {n + 1} BY <3>1
      <3> QED BY <3>1, <3>2 DEF Pieces
    <2> QED BY <2>1, <2>3, <2>4, <2>5
  <1> QED BY <1>2, <1>3

\* A chunk, of an agent that labelled one before: a notice, then a message.
LEMMA LabelledNotice ==
    ASSUME NEW t, NEW q, Heard(t, q), t.labels, NEW f, f.kind = "chunk", f.id = None,
           NEW u, u = Chunk(t, f.id, <<f.text>>), NEW p, p = Append(q, f)
    PROVE  HeardLabelled(u, p)
  <1> PICK n : n = Len(q) + 1 OBVIOUS
  <1> PICK A : A = MessagesOf(Whole(t)) OBVIOUS
  <1> PICK B : B = MessagesOf(t.segments) OBVIOUS
  <1> PICK C : C = MessagesOf(Whole(u)) OBVIOUS
  <1> PICK I : I = LastIn(q) OBVIOUS
  <1>1. Turned(t) /\ SeqLike(q) /\ Named(q) # {} BY DEF Heard
  <1>2. /\ t.current # <<>> /\ AreMessages(B) /\ AreMessages(A) /\ A # <<>>
        /\ TellsIn(q, Latest(A).text, I) /\ \A i \in I : q[i].id = Latest(A).id
    BY DEF Heard, HeardLabelled
  <1>3. /\ Len(q) \in Nat /\ I \subseteq 1..Len(q)
        /\ LastIn(p) = I /\ \A i \in I : p[i] = q[i]
    <2>1. Says(q, f, p, n) BY <1>1 DEF Says
    <2>2. /\ Len(q) \in Nat /\ Voiced(q) \subseteq 1..Len(q) /\ LastIn(q) \subseteq Voiced(q)
          /\ \A i \in Voiced(q) : p[i] = q[i]
      BY ONLY <2>1, ChunkSays
    <2>3. f.id = None OBVIOUS
    <2>4. LastIn(p) = LastIn(q) BY ONLY <1>1, <2>1, <2>3, NoticeSays
    <2> QED BY <2>2, <2>4
  <1>4. TellsIn(p, Latest(A).text, I)
    BY <1>2, <1>3 DEF TellsIn
  <1>5. u.current # <<>> /\ AreMessages(MessagesOf(u.segments)) /\ C = A
    <2>1. CASE Breaks(t, f.id)
      <3> PICK s : s = Segment(f.id, <<f.text>>) OBVIOUS
      <3>1. /\ u.segments = Whole(t) /\ u.current = <<f.text>> /\ SeqLike(Whole(t))
            /\ Whole(u) = Append(Whole(t), Segment(f.id, <<f.text>>))
        BY <1>1, <2>1, ChunkBreaks
      <3>2. s.id = None BY DEF Segment
      <3>3. C = A
        <4>1. MessagesOf(Append(Whole(t), s)) = MessagesOf(Whole(t)) BY <3>1, <3>2, MessagesMore
        <4> QED BY <3>1, <4>1
      <3>4. <<f.text>> # <<>> BY Few
      <3> QED BY <1>2, <3>1, <3>3, <3>4
    <2>2. CASE ~Breaks(t, f.id)
      <3> PICK s : s = Segment(f.id, Append(t.current, f.text)) OBVIOUS
      <3> PICK r : r = Segment(f.id, t.current) OBVIOUS
      <3>1. /\ u.segments = t.segments /\ u.current = Append(t.current, f.text)
            /\ Append(t.current, f.text) # <<>>
            /\ Whole(u) = Append(t.segments, Segment(f.id, Append(t.current, f.text)))
        BY <1>1, <2>2, ChunkGoesOn
      <3>2. s.id = None /\ r.id = None BY DEF Segment
      <3>3. SeqLike(t.segments) /\ t.last = f.id BY <1>1, <1>2, <2>2 DEF Turned, Breaks
      <3>4. Whole(t) = Append(t.segments, r) BY <1>2, <3>3 DEF Whole
      <3>5. C = B
        <4>1. MessagesOf(Append(t.segments, s)) = MessagesOf(t.segments)
          BY <3>2, <3>3, MessagesMore
        <4> QED BY <3>1, <4>1
      <3>6. A = B
        <4>1. MessagesOf(Append(t.segments, r)) = MessagesOf(t.segments)
          BY <3>2, <3>3, MessagesMore
        <4> QED BY <3>4, <4>1
      <3> QED BY <1>2, <3>1, <3>5, <3>6
    <2> QED BY <2>1, <2>2
  <1> QED BY <1>2, <1>3, <1>4, <1>5 DEF HeardLabelled

LEMMA LabelledWhole ==
    ASSUME NEW t, NEW q, Heard(t, q), t.labels, NEW f, f.kind = "chunk", f.id # None,
           NEW u, u = Chunk(t, f.id, <<f.text>>),
           NEW A, A = MessagesOf(Whole(t)), NEW C, C = MessagesOf(Whole(u))
    PROVE  /\ u.current # <<>> /\ AreMessages(MessagesOf(u.segments))
           /\ AreMessages(C) /\ C # <<>> /\ Latest(C).id = f.id
           /\ Latest(A).id = f.id => Latest(C).text = Append(Latest(A).text, f.text)
           /\ Latest(A).id # f.id => Latest(C).text = <<f.text>>
  <1> PICK B : B = MessagesOf(t.segments) OBVIOUS
  <1>1. Turned(t) BY DEF Heard
  <1>2. t.current # <<>> /\ AreMessages(B) /\ AreMessages(A) /\ A # <<>>
    BY DEF Heard, HeardLabelled
  <1>3. CASE Breaks(t, f.id)
    <2> PICK s : s = Segment(f.id, <<f.text>>) OBVIOUS
    <2>1. /\ u.segments = Whole(t) /\ u.current = <<f.text>> /\ SeqLike(Whole(t))
          /\ Whole(u) = Append(Whole(t), Segment(f.id, <<f.text>>))
      BY <1>1, <1>3, ChunkBreaks
    <2>2. s.id = f.id /\ s.text = <<f.text>> /\ Message(s)
      BY Few DEF Segment, Message
    <2>3. C = Joined(A, s)
      <3>1. MessagesOf(Append(Whole(t), s)) = Joined(MessagesOf(Whole(t)), s)
        BY <2>1, <2>2, MessagesMore
      <3> QED BY <2>1, <3>1
    <2>4. /\ AreMessages(C) /\ C # <<>> /\ Latest(C).id = s.id
          /\ A # <<>> /\ s.id # None /\ Latest(A).id = s.id
               => Latest(C).text = Latest(A).text \o s.text
          /\ ~(A # <<>> /\ s.id # None /\ Latest(A).id = s.id) => Latest(C).text = s.text
      <3>1. AreMessages(A) /\ Message(s) BY <1>2, <2>2
      <3> QED BY ONLY <2>3, <3>1, Joins
    <2>5. SeqLike(Latest(A).text) BY <1>2 DEF AreMessages, Message
    <2>6. Latest(A).text \o <<f.text>> = Append(Latest(A).text, f.text) BY <2>5, Adding
    <2>7. <<f.text>> # <<>> BY Few
    <2> QED BY <1>2, <2>1, <2>2, <2>4, <2>6, <2>7
  <1>4. CASE ~Breaks(t, f.id)
    <2> PICK s : s = Segment(f.id, Append(t.current, f.text)) OBVIOUS
    <2> PICK r : r = Segment(f.id, t.current) OBVIOUS
    <2>1. /\ u.segments = t.segments /\ u.current = Append(t.current, f.text)
          /\ Append(t.current, f.text) # <<>> /\ SeqLike(Append(t.current, f.text))
          /\ Whole(u) = Append(t.segments, Segment(f.id, Append(t.current, f.text)))
      BY <1>1, <1>4, ChunkGoesOn
    <2>2. SeqLike(t.segments) /\ SeqLike(t.current) /\ t.last = f.id
      BY <1>1, <1>2, <1>4 DEF Turned, Breaks
    <2>3. /\ s.id = f.id /\ s.text = Append(t.current, f.text) /\ Message(s)
          /\ r.id = f.id /\ r.text = t.current /\ Message(r)
      BY <2>1, <2>2 DEF Segment, Message
    <2>4. Whole(t) = Append(t.segments, r) BY <1>2, <2>2 DEF Whole
    <2>5. C = Joined(B, s)
      <3>1. MessagesOf(Append(t.segments, s)) = Joined(MessagesOf(t.segments), s)
        BY <2>2, <2>3, MessagesMore
      <3> QED BY <2>1, <3>1
    <2>6. A = Joined(B, r)
      <3>1. MessagesOf(Append(t.segments, r)) = Joined(MessagesOf(t.segments), r)
        BY <2>2, <2>3, MessagesMore
      <3> QED BY <2>4, <3>1
    <2>7. /\ AreMessages(C) /\ C # <<>> /\ Latest(C).id = s.id
          /\ B # <<>> /\ s.id # None /\ Latest(B).id = s.id
               => Latest(C).text = Latest(B).text \o s.text
          /\ ~(B # <<>> /\ s.id # None /\ Latest(B).id = s.id) => Latest(C).text = s.text
      <3>1. AreMessages(B) /\ Message(s) BY <1>2, <2>3
      <3> QED BY ONLY <2>5, <3>1, Joins
    <2>8. /\ Latest(A).id = r.id
          /\ B # <<>> /\ r.id # None /\ Latest(B).id = r.id
               => Latest(A).text = Latest(B).text \o r.text
          /\ ~(B # <<>> /\ r.id # None /\ Latest(B).id = r.id) => Latest(A).text = r.text
      <3>1. AreMessages(B) /\ Message(r) BY <1>2, <2>3
      <3> QED BY ONLY <2>6, <3>1, Joins
    <2>9. B # <<>> => Latest(B).text \o Append(t.current, f.text)
                        = Append(Latest(B).text \o t.current, f.text)
      <3> SUFFICES ASSUME B # <<>>
                   PROVE  Latest(B).text \o Append(t.current, f.text)
                            = Append(Latest(B).text \o t.current, f.text)
        OBVIOUS
      <3>1. SeqLike(Latest(B).text) BY <1>2 DEF AreMessages, Message
      <3> PICK w : w = Latest(B).text OBVIOUS
      <3> PICK c : c = t.current OBVIOUS
      <3>2. SeqLike(w) /\ SeqLike(c) BY <2>2, <3>1
      <3>3. w \o Append(c, f.text) = Append(w \o c, f.text) BY ONLY <3>2, AppendsLast
      <3> QED BY <3>3
    <2> QED BY <1>2, <2>1, <2>3, <2>7, <2>8, <2>9
  <1> QED BY <1>3, <1>4

LEMMA LabelledMessage ==
    ASSUME NEW t, NEW q, Heard(t, q), t.labels, NEW f, f.kind = "chunk", f.id # None,
           NEW u, u = Chunk(t, f.id, <<f.text>>), NEW p, p = Append(q, f)
    PROVE  HeardLabelled(u, p)
  <1> PICK m : m = Len(q) OBVIOUS
  <1> PICK n : n = m + 1 OBVIOUS
  <1> PICK A : A = MessagesOf(Whole(t)) OBVIOUS
  <1> PICK C : C = MessagesOf(Whole(u)) OBVIOUS
  <1> PICK I : I = LastIn(q) OBVIOUS
  <1>1. SeqLike(q) /\ Named(q) # {} BY DEF Heard
  <1>2. /\ AreMessages(A) /\ A # <<>>
        /\ TellsIn(q, Latest(A).text, I) /\ \A i \in I : q[i].id = Latest(A).id
    BY DEF Heard, HeardLabelled
  <1>3. /\ u.current # <<>> /\ AreMessages(MessagesOf(u.segments))
        /\ AreMessages(C) /\ C # <<>> /\ Latest(C).id = f.id
        /\ Latest(A).id = f.id => Latest(C).text = Append(Latest(A).text, f.text)
        /\ Latest(A).id # f.id => Latest(C).text = <<f.text>>
    BY LabelledWhole
  <1>4. I \subseteq Named(q) BY <1>1 DEF LastIn
  <1>5. /\ m \in Nat /\ n \in Nat /\ I \subseteq 1..m /\ p[n] = f
        /\ \A i \in I : p[i] = q[i]
        /\ LastIn(p) = Going(q, f.id) \cup {n}
    <2>1. Says(q, f, p, n) BY <1>1 DEF Says
    <2>2. /\ Len(q) \in Nat /\ p[n] = f /\ n \in Nat
          /\ Voiced(q) \subseteq 1..Len(q) /\ LastIn(q) \subseteq Voiced(q)
          /\ \A i \in Voiced(q) : p[i] = q[i]
      BY ONLY <2>1, ChunkSays
    <2>3. f.id # None OBVIOUS
    <2>4. LastIn(p) = Going(q, f.id) \cup {n} BY ONLY <2>1, <2>3, NamedSays
    <2> QED BY <2>2, <2>4
  <1>6. CASE Latest(A).id = f.id
    <2>1. LastIn(p) = I \cup {n} BY <1>2, <1>4, <1>5, <1>6 DEF Going
    <2>2. SeqLike(Latest(A).text) BY <1>2 DEF AreMessages, Message
    <2>3. TellsIn(p, Append(Latest(A).text, f.text), I \cup {n})
      <3> PICK w : w = Latest(A).text OBVIOUS
      <3>1. /\ TellsIn(q, w, I) /\ SeqLike(w) /\ I \in SUBSET (1..m)
            /\ \A i \in I : p[i] = q[i]
        BY <1>2, <1>5, <2>2
      <3>2. TellsIn(p, Append(w, p[m + 1].text), I \cup {m + 1}) BY ONLY <1>5, <3>1, TellsMore
      <3> QED BY <1>5, <3>2
    <2>4. \A i \in LastIn(p) : p[i].id = Latest(C).id BY <1>2, <1>3, <1>5, <1>6, <2>1
    <2> QED BY <1>3, <1>6, <2>1, <2>3, <2>4 DEF HeardLabelled
  <1>7. CASE Latest(A).id # f.id
    <2>1. LastIn(p) = {n} BY <1>2, <1>5, <1>7 DEF Going
    <2>2. TellsIn(p, <<f.text>>, {n}) BY <1>5, TellsFirst
    <2>3. \A i \in LastIn(p) : p[i].id = Latest(C).id BY <1>3, <1>5, <2>1
    <2> QED BY <1>3, <1>7, <2>1, <2>2, <2>3 DEF HeardLabelled
  <1> QED BY <1>6, <1>7

LEMMA PlainMore ==
    ASSUME NEW q, SeqLike(q), NEW s, s.id = None
    PROVE  PlainOf(Append(q, s)) = Append(PlainOf(q), s)
  <1>1. Answered(FALSE, Append(q, s)) = IF Aside(FALSE, s) THEN Answered(FALSE, q)
                                        ELSE Joined(Answered(FALSE, q), s)
    BY AnsweredMore, Zenon
  <1>2. ~Aside(FALSE, s) BY DEF Aside
  <1>3. PlainOf(Append(q, s)) = Joined(PlainOf(q), s) BY <1>1, <1>2, Zenon DEF PlainOf
  <1> QED BY <1>3 DEF Joined

\* Without labels nothing is a message by its label, whole segments or not.
LEMMA PlainWhole ==
    ASSUME NEW t, NEW q, Turned(t), HeardPlain(t, q)
    PROVE  MessagesOf(Whole(t)) = <<>> /\ PlainOf(Whole(t)) = Whole(t) /\ SeqLike(Whole(t))
  <1>1. MessagesOf(t.segments) = <<>> /\ PlainOf(t.segments) = t.segments /\ SeqLike(t.segments)
    BY DEF HeardPlain, Turned
  <1>2. CASE t.current = <<>> BY <1>1, <1>2 DEF Whole
  <1>3. CASE t.current # <<>>
    <2> PICK r : r = Segment(t.last, t.current) OBVIOUS
    <2> PICK S : S = t.segments OBVIOUS
    <2>1. r.id = None BY DEF HeardPlain, Segment
    <2>2. Whole(t) = Append(S, r) BY <1>3 DEF Whole
    <2>3. SeqLike(S) BY <1>1
    <2>4. MessagesOf(Append(S, r)) = MessagesOf(S) BY ONLY <2>1, <2>3, MessagesMore
    <2>5. PlainOf(Append(S, r)) = Append(PlainOf(S), r) BY ONLY <2>1, <2>3, PlainMore
    <2>6. SeqLike(Append(S, r)) BY <2>3, Adding
    <2> QED BY <1>1, <2>2, <2>4, <2>5, <2>6
  <1> QED BY <1>2, <1>3

\* A chunk, of an agent that labelled none before: the first that is labelled.
LEMMA LabelledFirst ==
    ASSUME NEW t, NEW q, Heard(t, q), ~t.labels, NEW f, f.kind = "chunk", f.id # None,
           NEW u, u = Chunk(t, f.id, <<f.text>>), NEW p, p = Append(q, f)
    PROVE  HeardLabelled(u, p)
  <1> PICK n : n = Len(q) + 1 OBVIOUS
  <1> PICK s : s = Segment(f.id, <<f.text>>) OBVIOUS
  <1> PICK S : S = u.segments OBVIOUS
  <1> PICK C : C = MessagesOf(Whole(u)) OBVIOUS
  <1>1. Turned(t) /\ HeardPlain(t, q) /\ Named(q) = {} /\ SeqLike(q) BY DEF Heard
  <1>2. MessagesOf(S) = <<>> /\ SeqLike(S) /\ u.current = <<f.text>> /\ Whole(u) = Append(S, s)
    <2>1. CASE Breaks(t, f.id)
      <3>1. /\ u.segments = Whole(t) /\ u.current = <<f.text>>
            /\ Whole(u) = Append(Whole(t), Segment(f.id, <<f.text>>))
        BY <1>1, <2>1, ChunkBreaks
      <3>2. MessagesOf(Whole(t)) = <<>> /\ SeqLike(Whole(t)) BY <1>1, PlainWhole
      <3> QED BY <3>1, <3>2
    <2>2. CASE ~Breaks(t, f.id)
      <3>1. /\ u.segments = t.segments /\ u.current = Append(t.current, f.text)
            /\ Whole(u) = Append(t.segments, Segment(f.id, Append(t.current, f.text)))
        BY <1>1, <2>2, ChunkGoesOn
      <3>2. t.current = <<>> BY <1>1, <2>2 DEF Turned, HeardPlain, Breaks
      <3>3. Append(<<>>, f.text) = <<f.text>> OBVIOUS
      <3>4. MessagesOf(t.segments) = <<>> /\ SeqLike(t.segments) BY <1>1 DEF HeardPlain, Turned
      <3> QED BY <3>1, <3>2, <3>3, <3>4
    <2> QED BY <2>1, <2>2
  <1>3. s.id = f.id /\ s.id # None /\ s.text = <<f.text>> /\ Message(s)
    BY Few DEF Segment, Message
  <1>4. AreMessages(<<>>) BY Few DEF AreMessages
  <1>5. /\ AreMessages(C) /\ C # <<>> /\ Latest(C).id = f.id
        /\ Latest(C).text = <<f.text>>
    <2>1. MessagesOf(Append(S, s)) = Joined(MessagesOf(S), s) BY ONLY <1>2, <1>3, MessagesMore
    <2>2. C = Joined(<<>>, s) BY <1>2, <2>1
    <2>3. /\ AreMessages(Joined(<<>>, s)) /\ Joined(<<>>, s) # <<>>
          /\ Latest(Joined(<<>>, s)).id = s.id /\ Latest(Joined(<<>>, s)).text = s.text
      BY ONLY <1>3, <1>4, Joins
    <2> QED BY <1>3, <2>2, <2>3
  <1>6. n \in Nat /\ p[n] = f /\ LastIn(p) = {n}
    <2>1. Says(q, f, p, n) BY <1>1 DEF Says
    <2>2. p[n] = f /\ n \in Nat BY ONLY <2>1, ChunkSays
    <2>3. f.id # None OBVIOUS
    <2>4. LastIn(p) = Going(q, f.id) \cup {n} BY ONLY <2>1, <2>3, NamedSays
    <2>5. Going(q, f.id) = {} BY <1>1 DEF Going
    <2> QED BY <2>2, <2>4, <2>5
  <1>7. TellsIn(p, <<f.text>>, {n})
    <2>1. TellsIn(p, <<p[n].text>>, {n}) BY ONLY <1>6, TellsFirst
    <2> QED BY <1>6, <2>1
  <1>8. \A i \in LastIn(p) : p[i].id = Latest(C).id BY <1>5, <1>6
  <1>9. u.current # <<>>
    <2>1. <<f.text>> # <<>> BY Few
    <2> QED BY <1>2, <2>1
  <1> QED BY <1>2, <1>4, <1>5, <1>6, <1>7, <1>8, <1>9 DEF HeardLabelled

LEMMA PlainChunk ==
    ASSUME NEW t, NEW q, Heard(t, q), ~t.labels, NEW f, f.kind = "chunk", f.id = None,
           NEW u, u = Chunk(t, f.id, <<f.text>>), NEW p, p = Append(q, f)
    PROVE  HeardPlain(u, p)
  <1> PICK m : m = Len(q) OBVIOUS
  <1> PICK n : n = m + 1 OBVIOUS
  <1> PICK c : c = t.current OBVIOUS
  <1> PICK S : S = t.segments OBVIOUS
  <1> PICK w : w = Append(c, f.text) OBVIOUS
  <1> PICK I : I = LastIn(q) OBVIOUS
  <1>1. Turned(t) /\ HeardPlain(t, q) /\ Named(q) = {} /\ SeqLike(q) BY DEF Heard
  <1>2. /\ u.segments = S /\ u.current = w /\ u.last = None /\ w # <<>> /\ SeqLike(w)
        /\ Whole(u) = Append(S, Segment(None, w))
    <2>1. ~Breaks(t, f.id) BY <1>1 DEF HeardPlain, Breaks
    <2>2. /\ u.segments = t.segments /\ u.current = Append(t.current, f.text) /\ u.last = f.id
          /\ Whole(u) = Append(t.segments, Segment(f.id, Append(t.current, f.text)))
          /\ SeqLike(Append(t.current, f.text)) /\ Append(t.current, f.text) # <<>>
      BY <1>1, <2>1, ChunkGoesOn
    <2> QED BY <2>2
  <1>3. MessagesOf(S) = <<>> /\ PlainOf(S) = S /\ SeqLike(S) /\ SeqLike(c)
    BY <1>1 DEF HeardPlain, Turned
  <1>4. Whole(u) # <<>> /\ Latest(Whole(u)).text = w
    <2> PICK s : s = Segment(None, w) OBVIOUS
    <2>1. Latest(Append(S, s)) = s /\ Append(S, s) # <<>> BY ONLY <1>3, LatestOf
    <2>2. s.text = w BY DEF Segment
    <2> QED BY <1>2, <2>1, <2>2
  <1>5. Says(q, f, p, n) BY <1>1 DEF Says
  <1>6. /\ Len(p) = n /\ m \in Nat /\ n \in Nat /\ p[n] = f /\ I \in SUBSET (1..m)
        /\ \A i \in I : p[i] = q[i]
        /\ n \in Voiced(p)
    <2>1. /\ Len(p) = n /\ Len(q) \in Nat /\ n \in Nat /\ p[n] = f
          /\ Voiced(q) \subseteq 1..Len(q) /\ LastIn(q) \subseteq Voiced(q)
          /\ \A i \in Voiced(q) : p[i] = q[i]
      BY ONLY <1>5, ChunkSays
    <2>2. Voiced(p) = Voiced(q) \cup {n} BY ONLY <1>5, ChunkSays
    <2> QED BY <2>1, <2>2
  <1>7. /\ m \in Voiced(q) => LastIn(p) = I \cup {n}
        /\ m \notin Voiced(q) => LastIn(p) = {n}
    <2>1. f.id = None OBVIOUS
    <2>2. /\ Len(q) \in Voiced(q) => LastIn(p) = LastIn(q) \cup {n}
          /\ Len(q) \notin Voiced(q) => LastIn(p) = {n}
      BY ONLY <1>1, <1>5, <2>1, PlainSays
    <2> QED BY <2>2
  <1>8. TellsIn(p, w, LastIn(p))
    <2>1. CASE m \in Voiced(q)
      <3> PICK r : r = Segment(None, c) OBVIOUS
      <3>1. c # <<>> /\ Voiced(q) # {} BY <1>1, <2>1 DEF HeardPlain
      <3>2. Whole(t) = Append(S, r) BY <1>1, <3>1 DEF Whole, HeardPlain
      <3>3. Latest(Append(S, r)) = r BY ONLY <1>3, LatestOf
      <3>4. r.text = c BY DEF Segment
      <3>5. TellsIn(q, c, I) BY <1>1, <3>1, <3>2, <3>3, <3>4 DEF HeardPlain
      <3>6. TellsIn(p, Append(c, p[m + 1].text), I \cup {m + 1})
        BY ONLY <1>3, <1>6, <3>5, TellsMore
      <3> QED BY <1>6, <1>7, <2>1, <3>6
    <2>2. CASE m \notin Voiced(q)
      <3>1. c = <<>> BY <1>1, <2>2 DEF HeardPlain
      <3>2. w = <<f.text>> BY <3>1
      <3>3. TellsIn(p, <<p[n].text>>, {n}) BY ONLY <1>6, TellsFirst
      <3> QED BY <1>6, <1>7, <2>2, <3>2, <3>3
    <2> QED BY <2>1, <2>2
  <1> QED BY <1>2, <1>3, <1>4, <1>6, <1>8 DEF HeardPlain

\* The notices among the updates, as one more chunk leaves them.
LEMMA NoticesSaid ==
    ASSUME NEW q, NEW f, NEW p, NEW n, Says(q, f, p, n)
    PROVE  {p[i].text : i \in Voiced(p) \ Named(p)}
             = {q[i].text : i \in Voiced(q) \ Named(q)} \cup (IF f.id = None THEN {f.text} ELSE {})
  <1>0. Says(q, f, p, n) OBVIOUS
  <1>1. /\ n \in Nat /\ Len(q) \in Nat /\ p[n] = f /\ Voiced(q) \subseteq 1..Len(q)
        /\ \A i \in Voiced(q) : p[i] = q[i]
        /\ Voiced(p) = Voiced(q) \cup {n}
    <2>1. /\ n \in Nat /\ Len(q) \in Nat /\ p[n] = f /\ Voiced(q) \subseteq 1..Len(q)
          /\ \A i \in Voiced(q) : p[i] = q[i]
      BY ONLY <1>0, ChunkSays
    <2>2. Voiced(p) = Voiced(q) \cup {n} BY ONLY <1>0, ChunkSays
    <2> QED BY <2>1, <2>2
  <1>2. n \notin Voiced(q)
    <2>1. n = Len(q) + 1 BY DEF Says
    <2> QED BY <1>1, <2>1
  <1>3. Named(q) \subseteq Voiced(q) BY DEF Named
  <1>4. CASE f.id = None
    <2>1. Named(p) = Named(q) BY <1>4, NoticeSays
    <2>2. Voiced(p) \ Named(p) = (Voiced(q) \ Named(q)) \cup {n} BY <1>1, <1>2, <1>3, <2>1
    <2> QED BY <1>1, <1>4, <2>2
  <1>5. CASE f.id # None
    <2>1. Named(p) = Named(q) \cup {n} BY <1>5, NamedSays
    <2>2. Voiced(p) \ Named(p) = Voiced(q) \ Named(q) BY <1>1, <1>2, <1>3, <2>1
    <2> QED BY <1>1, <1>5, <2>2
  <1> QED BY <1>4, <1>5

\* Every update that is read is heard: a chunk, and a tool call.
LEMMA HearsChunk ==
    ASSUME NEW t, NEW q, Heard(t, q), NEW f, f.kind = "chunk"
    PROVE  Heard(Chunk(t, f.id, <<f.text>>), Append(q, f))
  <1> PICK u : u = Chunk(t, f.id, <<f.text>>) OBVIOUS
  <1> PICK p : p = Append(q, f) OBVIOUS
  <1> PICK n : n = Len(q) + 1 OBVIOUS
  <1>1. Turned(t) /\ SeqLike(q) /\ t.labels \in BOOLEAN BY DEF Heard, Turned
  <1>2. Says(q, f, p, n) BY <1>1 DEF Says
  <1>3. SeqLike(p) BY ONLY <1>2, ChunkSays
  <1>4. Turned(u)
    <2>1. CASE Breaks(t, f.id) BY <1>1, <2>1, ChunkBreaks
    <2>2. CASE ~Breaks(t, f.id) BY <1>1, <2>2, ChunkGoesOn
    <2> QED BY <2>1, <2>2
  <1>5. u.labels <=> t.labels \/ f.id # None BY <1>1, ChunkLabels
  <1>6. u.labels <=> Named(p) # {}
    <2>1. CASE f.id = None
      <3>1. Named(p) = Named(q) BY ONLY <1>2, <2>1, NoticeSays
      <3> QED BY <1>5, <2>1, <3>1 DEF Heard
    <2>2. CASE f.id # None
      <3>1. Named(p) = Named(q) \cup {n} BY ONLY <1>2, <2>2, NamedSays
      <3> QED BY <1>5, <2>2, <3>1
    <2> QED BY <2>1, <2>2
  <1>7. Notices(Whole(u)) = {p[i].text : i \in Voiced(p) \ Named(p)}
    <2>1. Notices(Whole(u)) = Notices(Whole(t)) \cup (IF f.id = None THEN {f.text} ELSE {})
      BY <1>1, ChunkNotices
    <2>2. {p[i].text : i \in Voiced(p) \ Named(p)}
            = {q[i].text : i \in Voiced(q) \ Named(q)} \cup (IF f.id = None THEN {f.text} ELSE {})
      BY ONLY <1>2, NoticesSaid
    <2>3. Notices(Whole(t)) = {q[i].text : i \in Voiced(q) \ Named(q)} BY DEF Heard
    <2> QED BY ONLY <2>1, <2>2, <2>3
  <1>8. u.labels => HeardLabelled(u, p)
    <2>1. CASE t.labels /\ f.id = None BY <2>1, LabelledNotice
    <2>2. CASE t.labels /\ f.id # None BY <2>2, LabelledMessage
    <2>3. CASE ~t.labels /\ f.id # None BY <2>3, LabelledFirst
    <2>4. CASE ~t.labels /\ f.id = None BY <1>5, <2>4
    <2> QED BY <2>1, <2>2, <2>3, <2>4
  <1>9. ~u.labels => HeardPlain(u, p)
    <2>1. CASE ~t.labels /\ f.id = None BY <2>1, PlainChunk
    <2>2. CASE ~(~t.labels /\ f.id = None) BY <1>5, <2>2
    <2> QED BY <2>1, <2>2
  <1>10. Heard(u, p) BY <1>3, <1>4, <1>6, <1>7, <1>8, <1>9 DEF Heard
  <1> QED BY <1>10

LEMMA HearsTool ==
    ASSUME NEW t, NEW q, Heard(t, q), NEW f, f.kind # "chunk"
    PROVE  Heard(ToolCall(t), Append(q, f))
  <1> PICK p : p = Append(q, f) OBVIOUS
  <1>1. Turned(t) /\ SeqLike(q) /\ t.labels \in BOOLEAN BY DEF Heard, Turned
  <1>2. /\ SeqLike(p) /\ Len(p) \notin Voiced(p)
        /\ Voiced(p) = Voiced(q) /\ Named(p) = Named(q) /\ LastIn(p) = LastIn(q)
        /\ \A i \in Voiced(q) : p[i] = q[i]
        /\ LastIn(q) \subseteq Voiced(q)
    <2>1. Passes(q, f, p) BY <1>1 DEF Passes
    <2> QED BY ONLY <2>1, ToolSays
  <1>3. {p[i].text : i \in Voiced(p) \ Named(p)} = {q[i].text : i \in Voiced(q) \ Named(q)}
    BY <1>2
  <1>4. ASSUME NEW w, TellsIn(q, w, LastIn(q)) PROVE TellsIn(p, w, LastIn(p))
    BY <1>2, <1>4 DEF TellsIn
  <1>5. CASE t.labels
    <2>1. HeardLabelled(t, q) BY <1>5 DEF Heard
    <2>2. TellsIn(p, Latest(MessagesOf(Whole(t))).text, LastIn(p)) BY <1>4, <2>1 DEF HeardLabelled
    <2>3. \A i \in LastIn(p) : p[i].id = q[i].id BY <1>2
    <2>4. HeardLabelled(t, p) BY <1>2, <2>1, <2>2, <2>3 DEF HeardLabelled
    <2>5. Heard(t, p) BY <1>1, <1>2, <1>3, <1>5, <2>4 DEF Heard
    <2>6. ToolCall(t) = t BY <1>5 DEF ToolCall
    <2> QED BY <2>5, <2>6
  <1>6. CASE ~t.labels
    <2> PICK u : u = ToolCall(t) OBVIOUS
    <2>1. HeardPlain(t, q) BY <1>6 DEF Heard
    <2>2. MessagesOf(Whole(t)) = <<>> /\ PlainOf(Whole(t)) = Whole(t) /\ SeqLike(Whole(t))
      BY <1>1, <2>1, PlainWhole
    <2>3. /\ u.segments = Whole(t) /\ u.current = <<>> /\ u.last = t.last
          /\ u.labels = t.labels /\ u.seen = t.seen /\ DOMAIN u = DOMAIN t
      <3>1. u = Flush(t) BY <1>6 DEF ToolCall
      <3>2. DOMAIN t = {"segments", "current", "last", "seen", "labels"} BY <1>1 DEF Silent, Turned
      <3> QED BY <3>1, <3>2 DEF Flush, Whole, Segment
    <2>4. Whole(u) = Whole(t) BY <2>3 DEF Whole
    <2>5. Turned(u) BY <1>1, <2>2, <2>3, Few DEF Turned
    <2>6. HeardPlain(u, p)
      <3>1. u.last = None BY <2>1, <2>3 DEF HeardPlain
      <3>2. MessagesOf(u.segments) = <<>> /\ PlainOf(u.segments) = u.segments BY <2>2, <2>3
      <3>3. Voiced(p) = {} => Whole(u) = <<>> BY <1>2, <2>1, <2>4 DEF HeardPlain
      <3>4. ASSUME Voiced(p) # {}
            PROVE  /\ Whole(u) # <<>> /\ SeqLike(Latest(Whole(u)).text)
                   /\ TellsIn(p, Latest(Whole(u)).text, LastIn(p))
        <4>1. /\ Whole(t) # <<>> /\ SeqLike(Latest(Whole(t)).text)
              /\ TellsIn(q, Latest(Whole(t)).text, LastIn(q))
          BY <1>2, <2>1, <3>4 DEF HeardPlain
        <4>2. TellsIn(p, Latest(Whole(t)).text, LastIn(p)) BY <1>4, <4>1
        <4> QED BY <2>4, <4>1, <4>2
      <3> QED BY <1>2, <2>3, <3>1, <3>2, <3>3, <3>4 DEF HeardPlain
    <2>7. Heard(u, p)
      <3>1. u.labels <=> Named(p) # {} BY <1>2, <2>3 DEF Heard
      <3>2. Notices(Whole(u)) = {p[i].text : i \in Voiced(p) \ Named(p)}
        <4>1. Notices(Whole(t)) = {q[i].text : i \in Voiced(q) \ Named(q)} BY DEF Heard
        <4> QED BY ONLY <1>3, <2>4, <4>1
      <3>3. ~u.labels BY <1>6, <2>3
      <3> QED BY <1>2, <2>5, <2>6, <3>1, <3>2, <3>3 DEF Heard
    <2> QED BY <2>7
  <1> QED BY <1>5, <1>6

LEMMA HearsNothing == Heard(Silent, <<>>)
  <1> DEFINE t == Silent
  <1>1. /\ t.segments = <<>> /\ t.current = <<>> /\ t.last = None /\ ~t.seen /\ ~t.labels
        /\ t.labels \in BOOLEAN /\ t.seen \in BOOLEAN
    BY DEF Silent
  <1>2. DOMAIN t = DOMAIN Silent OBVIOUS
  <1> HIDE DEF t
  <1>3. Turned(t) BY <1>1, <1>2, Few DEF Turned
  <1>4. Whole(t) = <<>> BY <1>1 DEF Whole
  <1>5. SeqLike(<<>>) /\ Len(<<>>) = 0 /\ DOMAIN <<>> = {} BY Few
  <1>6. Voiced(<<>>) = {} /\ Named(<<>>) = {} BY <1>5 DEF Voiced, Named
  <1>7. MessagesOf(<<>>) = <<>> /\ PlainOf(<<>>) = <<>> BY AnsweredNone DEF MessagesOf, PlainOf
  <1>8. HeardPlain(t, <<>>) BY <1>1, <1>4, <1>5, <1>6, <1>7 DEF HeardPlain
  <1>9. Notices(<<>>) = {} BY <1>5 DEF Notices
  <1>10. {<<>>[i].text : i \in Voiced(<<>>) \ Named(<<>>)} = {} BY <1>6
  <1>11. Heard(t, <<>>) BY <1>1, <1>3, <1>4, <1>5, <1>6, <1>8, <1>9, <1>10 DEF Heard
  <1> QED BY <1>11 DEF t

\* What was heard is what the answer says, and the notices beside it.
LEMMA HeardTells ==
    ASSUME NEW t, NEW q, Heard(t, q)
    PROVE  /\ TellsIn(q, Assemble(t).text, LastIn(q))
           /\ Named(q) # {} => Contents(Assemble(t).notices)
                                 = {q[i].text : i \in Voiced(q) \ Named(q)}
  <1> PICK W : W = Whole(t) OBVIOUS
  <1> DEFINE A == Answered(t.labels, W)
             kept == IF A # <<>> THEN A ELSE W
             asides == {i \in DOMAIN W : Aside(t.labels, W[i])}
  <1>1. Turned(t) /\ t.labels \in BOOLEAN BY DEF Heard, Turned
  <1>2. Flush(t).segments = W
    <2>1. DOMAIN t = {"segments", "current", "last", "seen", "labels"} BY <1>1 DEF Silent, Turned
    <2> QED BY <2>1 DEF Flush, Whole, Segment
  <1>3. Assemble(t) = [text |-> IF kept = <<>> THEN <<>> ELSE kept[Len(kept)].text,
                       notices |-> IF A = <<>> THEN <<>> ELSE [i \in asides |-> W[i].text]]
    BY <1>2 DEF Assemble
  <1>4. /\ Assemble(t).text = (IF kept = <<>> THEN <<>> ELSE Latest(kept).text)
        /\ Assemble(t).notices = (IF A = <<>> THEN <<>> ELSE [i \in asides |-> W[i].text])
    BY <1>3 DEF Latest
  <1>5. CASE t.labels
    <2>1. HeardLabelled(t, q) BY <1>5 DEF Heard
    <2>2. A = MessagesOf(W)
      <3>1. t.labels = TRUE BY <1>1, <1>5
      <3> QED BY <3>1 DEF MessagesOf
    <2>3. A # <<>> /\ TellsIn(q, Latest(A).text, LastIn(q)) BY <2>1, <2>2 DEF HeardLabelled
    <2>4. asides = {i \in DOMAIN W : W[i].id = None} BY <1>5 DEF Aside
    <2> HIDE DEF A, asides
    <2>5. Contents([i \in asides |-> W[i].text]) = Notices(W)
      <3>1. Contents([i \in asides |-> W[i].text]) = UNION {Pieces(W[i].text) : i \in asides}
        BY DEF Contents, Pieces
      <3> QED BY <2>4, <3>1 DEF Notices
    <2>6. Notices(W) = {q[i].text : i \in Voiced(q) \ Named(q)} BY DEF Heard
    <2>7. kept = A BY <2>3
    <2> HIDE DEF kept
    <2> QED BY <1>4, <2>3, <2>5, <2>6, <2>7
  <1>6. CASE ~t.labels
    <2>1. HeardPlain(t, q) /\ Named(q) = {} BY <1>6 DEF Heard
    <2>2. A = PlainOf(W)
      <3>1. t.labels = FALSE BY <1>1, <1>6
      <3> QED BY <3>1 DEF PlainOf
    <2>3. A = W BY <1>1, <2>1, <2>2, PlainWhole
    <2>4. kept = W BY <2>3
    <2> HIDE DEF A, kept, asides
    <2>5. CASE Voiced(q) = {}
      <3>1. W = <<>> BY <2>1, <2>5 DEF HeardPlain
      <3>2. LastIn(q) = {} BY <2>1, <2>5 DEF LastIn
      <3>3. Len(<<>>) = 0 /\ Cardinality({}) = 0 BY Few, FS_EmptySet
      <3>4. TellsIn(q, <<>>, {}) BY <3>3 DEF TellsIn
      <3> QED BY <1>4, <2>1, <2>4, <3>1, <3>2, <3>4
    <2>6. CASE Voiced(q) # {}
      <3>1. W # <<>> /\ TellsIn(q, Latest(W).text, LastIn(q)) BY <2>1, <2>6 DEF HeardPlain
      <3> QED BY <1>4, <2>1, <2>4, <3>1
    <2> QED BY <2>5, <2>6
  <1> QED BY <1>5, <1>6

\* What the driver has of the turn, and what it returns with.
Hears == /\ Heard(turn, said)
         /\ at.method = "returned" => result = Assemble(turn)

LEMMA GoesOn ==
    ASSUME NEW s, Go(ModelOptionStep(s)) \/ Go(ModelStep(s)) \/ Go(ModeStep(s))
                  \/ Go(PromptStep(s)) \/ Go(Refuse),
           at \in Places
    PROVE  /\ at'.method \notin {"drain", "returned"}
           /\ outcome' # None => ~outcome'.ok
  <1> DEFINE out == {"refuse", "session/prompt", "mode option", "session/set_mode",
                     "session/set_model", "model option"}
  <1>1. Refuse.method \in out BY DEF Refuse
  <1>2. PromptStep(s).method \in out BY DEF PromptStep, Step
  <1>3. PlanOptionStep(s).method \in out BY <1>1, <1>2 DEF PlanOptionStep, Step
  <1>4. ModeStep(s).method \in out BY <1>1, <1>2, <1>3 DEF ModeStep, Step
  <1>5. ModelStep(s).method \in out BY <1>4 DEF ModelStep, Step
  <1>6. ModelOptionStep(s).method \in out BY <1>1, <1>5 DEF ModelOptionStep, Step
  <1>7. ASSUME NEW step, Go(step), step.method \in out
        PROVE  /\ at'.method \notin {"drain", "returned"}
               /\ outcome' # None => ~outcome'.ok
    <2>1. CASE step = Refuse BY <1>7, <2>1 DEF Go, Throw, Ends, Places
    <2>2. CASE step # Refuse
      <3>1. Request(step.method, None, FALSE, step.want) BY <1>7, <2>2 DEF Go
      <3>2. at' = [method |-> step.method, for |-> None, retried |-> FALSE]
        BY <3>1, Zenon DEF Request
      <3>3. at'.method = step.method BY ONLY <3>2
      <3>4. outcome' = None \/ outcome' = Refused("transport") BY <3>1 DEF Request
      <3>5. step.method \notin {"drain", "returned"} BY <1>7
      <3>6. ~Refused("transport").ok BY DEF Refused
      <3>7. outcome' # None => ~outcome'.ok BY <3>4, <3>6
      <3> QED BY <3>3, <3>5, <3>7
    <2> QED BY <2>1, <2>2
  <1> HIDE DEF out
  <1> QED BY <1>1, <1>2, <1>4, <1>5, <1>6, <1>7

\* What follows an await is the next request, which is not answered yet, or the end of
\* the call; an answered prompt is the way to a return.
LEMMA ContinuesTurn ==
    ASSUME at \in Places, at.method = "authenticate" => at.for # None, Continue
    PROVE  /\ at.method # "returned" /\ at'.method # "returned"
           /\ at'.method = "drain" => at.method = "session/prompt" /\ outcome.ok
           /\ outcome' # None => ~outcome'.ok
  <1> DEFINE Next1 == /\ at.method # "returned" /\ at'.method \notin {"drain", "returned"}
                      /\ outcome' # None => ~outcome'.ok
  <1>1. ASSUME Initialized PROVE Next1
    BY <1>1 DEF Initialized, Awaited, Request, OpenNew, Throw, Ends, Places, Refused
  <1>2. ASSUME Loaded \/ Opened PROVE Next1
    <2>1. Go(ModelOptionStep(outcome.body)) BY <1>2 DEF Loaded, Opened
    <2> QED BY <1>2, <2>1, GoesOn DEF Loaded, Opened, Awaited
  <1>3. ASSUME SessionRefused \/ Authenticated PROVE Next1
    <2>1. CASE SessionRefused
      BY <2>1 DEF SessionRefused, Awaited, Request, GiveUp, OpenNew, Throw, Ends, Places, Refused
    <2>2. CASE Authenticated
      <3>1. at.method = "authenticate" /\ at.for \in {"session/load", "session/new"}
        BY <2>2 DEF Authenticated, Awaited, Places
      <3> QED BY <2>2, <3>1
          DEF Authenticated, Request, GiveUp, OpenNew, Throw, Ends, Places, Refused
    <2> QED BY <1>3, <2>1, <2>2
  <1>4. ASSUME ModelSelected PROVE Next1
    <2>1. Go(ModelStep(session)) \/ Go(ModeStep(session)) \/ Go(Refuse)
      BY <1>4 DEF ModelSelected
    <2> QED BY <1>4, <2>1, GoesOn DEF ModelSelected, Awaited
  <1>5. ASSUME ModeSelected PROVE Next1
    <2>1. Go(PromptStep(session)) \/ Go(Refuse) BY <1>5 DEF ModeSelected
    <2> QED BY <1>5, <2>1, GoesOn DEF ModeSelected, Awaited
  <1>6. ASSUME PromptAnswered
        PROVE  /\ at.method = "session/prompt" /\ at'.method # "returned"
               /\ at'.method = "drain" => outcome.ok
               /\ outcome' # None => ~outcome'.ok
    BY <1>6 DEF PromptAnswered, Awaited, Throw, Ends, Places
  <1>7. Next1 \/ PromptAnswered BY <1>1, <1>2, <1>3, <1>4, <1>5 DEF Continue
  <1> QED BY <1>6, <1>7

LEMMA HearsStep == ASSUME IInv, Hears, [Next]_vars PROVE Hears'
  <1>1. at \in Places BY DEF IInv, Types, TypeOK
  <1>2. ASSUME turn' = turn, said' = said PROVE Heard(turn, said)'
    BY <1>2 DEF Hears
  <1>3. ASSUME at' = at, result' = result, turn' = turn
        PROVE  (at.method = "returned" => result = Assemble(turn))'
    BY <1>3 DEF Hears
  <1>4. CASE Continue
    <2>1. Heard(turn, said)'
      <3>1. CASE Loaded
        <4>1. turn' = Silent /\ said' = <<>> BY <3>1 DEF Loaded
        <4> QED BY <4>1, HearsNothing
      <3>2. CASE ~Loaded
        <4>1. turn' = turn /\ said' = said
          BY <1>4, <3>2 DEF Continue, Initialized, Opened, SessionRefused, Authenticated,
             ModelSelected, ModeSelected, PromptAnswered
        <4> QED BY <1>2, <4>1
      <3> QED BY <3>1, <3>2
    <2>2. at'.method # "returned"
      <3>1. at.method = "authenticate" => at.for # None BY DEF IInv, Table
      <3> QED BY <1>1, <1>4, <3>1, ContinuesTurn
    <2> QED BY <2>1, <2>2 DEF Hears
  <1>5. CASE DrainEnds
    <2>1. turn' = turn /\ said' = said /\ result' = Assemble(turn) BY <1>5 DEF DrainEnds, Ends
    <2>2. Heard(turn, said)' BY <1>2, <2>1
    <2> QED BY <2>1, <2>2 DEF Hears
  <1>6. CASE Dispatch
    <2>1. CASE ReadChunk
      <3>1. /\ Head(toDriver).kind = "chunk" /\ at' = at /\ at.method # "returned"
            /\ turn' = Chunk(turn, Head(toDriver).id, <<Head(toDriver).text>>)
            /\ said' = Append(said, Head(toDriver))
        BY <2>1 DEF ReadChunk, Reads, Listens, driver
      <3>2. Heard(Chunk(turn, Head(toDriver).id, <<Head(toDriver).text>>),
                  Append(said, Head(toDriver)))
        BY <3>1, HearsChunk DEF Hears
      <3> QED BY <3>1, <3>2 DEF Hears
    <2>2. CASE ReadTool
      <3>1. /\ Head(toDriver).kind # "chunk" /\ at' = at /\ at.method # "returned"
            /\ turn' = ToolCall(turn) /\ said' = Append(said, Head(toDriver))
        BY <2>2 DEF ReadTool, Reads, Listens, driver
      <3>2. Heard(ToolCall(turn), Append(said, Head(toDriver))) BY <3>1, HearsTool DEF Hears
      <3> QED BY <3>1, <3>2 DEF Hears
    <2>3. CASE ReadAnswer \/ ReadThought \/ ReadAsk \/ ReadReport \/ Overflows
      <3>1. turn' = turn /\ said' = said /\ at' = at /\ result' = result
        BY <2>3 DEF ReadAnswer, ReadThought, ReadAsk, ReadReport, Overflows, driver, listening
      <3> QED BY <1>2, <1>3, <3>1 DEF Hears
    <2> QED BY <1>6, <2>1, <2>2, <2>3 DEF Dispatch
  <1>7. CASE AgentStep
    <2>1. Still
      BY <1>7 DEF AgentStep, AgentReads, AgentRefuses, AgentOpens, AgentAuthenticates, AgentSets,
         AgentEndsPrompt, AgentSays, AgentWrites, AgentAsks, AgentForges, AgentFloods
    <2>2. turn' = turn /\ said' = said /\ at' = at /\ result' = result
      BY <2>1 DEF Still, driver, listening
    <2> QED BY <1>2, <1>3, <2>2 DEF Hears
  <1>8. CASE InputBreaks \/ OutputEnds \/ OutputCloses \/ UNCHANGED vars
    <2>1. turn' = turn /\ said' = said /\ at' = at /\ result' = result
      BY <1>8 DEF InputBreaks, OutputEnds, OutputCloses, driver, listening, vars
    <2> QED BY <1>2, <1>3, <2>1 DEF Hears
  <1> QED BY <1>4, <1>5, <1>6, <1>7, <1>8 DEF Next

\* The answer that a turn returns with is the last message of the updates that were
\* read, whole and in order, and the notices are the others, however they fell: between
\* the halves of a message, before the first label or among tool calls.  Of any agent,
\* one whose replay trails its load too.
TellsLast ==
    at.method = "returned" =>
      /\ Tells(result.text, LastMessage)
      /\ Labelled # {} =>
           Contents(result.notices) = {said[i].text : i \in Spoken \ Labelled}
THEOREM AcpTellsLast == Spec => []TellsLast
  <1>1. Init => Hears
    <2> SUFFICES ASSUME Init PROVE Hears OBVIOUS
    <2>1. turn = Silent /\ said = <<>> /\ at.method = "initialize" BY DEF Init
    <2> QED BY <2>1, HearsNothing DEF Hears
  <1>2. IInv /\ Hears /\ [Next]_vars => Hears' BY HearsStep
  <1>3. Hears => TellsLast
    <2> SUFFICES ASSUME Hears, at.method = "returned"
                 PROVE  /\ Tells(result.text, LastMessage)
                        /\ Labelled # {} =>
                             Contents(result.notices) = {said[i].text : i \in Spoken \ Labelled}
      BY DEF TellsLast
    <2>1. Spoken = Voiced(said) BY DEF Spoken, Voiced
    <2>2. Labelled = Named(said) BY <2>1 DEF Labelled, Named
    <2>3. LastMessage = LastIn(said) BY <2>1, <2>2 DEF LastMessage, LastIn
    <2>4. \A text, I : Tells(text, I) <=> TellsIn(said, text, I) BY DEF Tells, TellsIn
    <2>5. Heard(turn, said) /\ result = Assemble(turn) BY DEF Hears
    <2>6. /\ TellsIn(said, Assemble(turn).text, LastIn(said))
          /\ Named(said) # {} => Contents(Assemble(turn).notices)
                                  = {said[i].text : i \in Voiced(said) \ Named(said)}
      BY ONLY <2>5, HeardTells
    <2> QED BY <2>1, <2>2, <2>3, <2>4, <2>5, <2>6
  <1> QED BY <1>1, <1>2, <1>3, AcpInvariant, PTL DEF Spec
-----------------------------------------------------------------------------
(* What is left of a conversation that a load replays.                     *)

\* An update of the conversation that a load replays.
Olden(f) == f.kind \in {"chunk", "tool"} /\ Replayed(f)
Clean    == \A i \in DOMAIN said : ~Replayed(said[i])

\* Of an agent that answers a load when it has replayed it, what is replayed comes
\* before a grant, and the driver that goes on with that grant forgets what it heard.
Heralded == /\ at.method = "session/load"
            /\ \/ pending = None /\ outcome.ok
               \/ \E j \in Answers : toDriver[j].outcome.ok
Anew ==
    /\ asked \in Nat /\ SeqLike(said)
    /\ ~deaf => \A i \in DOMAIN toDriver : Olden(toDriver[i]) =>
                  /\ at.method = "session/load"
                  /\ \E j \in Answers : j > i /\ toDriver[j].outcome.ok
    /\ ~Clean => /\ ~deaf => Heralded
                 /\ at.method \notin {"drain", "returned"}
                 /\ ~(at.method = "session/prompt" /\ outcome # None /\ outcome.ok)

\* The driver goes on when no answer is on its way: what it heard is forgotten, or clean.
LEMMA AnewOutcome ==
    ASSUME IInv, Anew, outcome # None, ~deaf
    PROVE  /\ \A i \in DOMAIN toDriver : ~Olden(toDriver[i])
           /\ ~Clean => at.method = "session/load" /\ outcome.ok
  <1>1. pending = None BY DEF IInv, Types, TypeOK
  <1>2. Answers = {} BY <1>1 DEF IInv, InFlight, Table, Answers
  <1>3. \A i \in DOMAIN toDriver : ~Olden(toDriver[i]) BY <1>2 DEF Anew
  <1>4. ~Clean => at.method = "session/load" /\ outcome.ok BY <1>2 DEF Anew, Heralded
  <1> QED BY <1>3, <1>4

\* A step after which nothing heard or unread is of another turn.
LEMMA AnewClean ==
    ASSUME Anew, asked' = asked, toDriver' = toDriver, deaf' = deaf,
           said' = said \/ said' = <<>>, ~deaf \/ Clean => Clean',
           ~deaf => \A i \in DOMAIN toDriver : ~Olden(toDriver[i]),
           at'.method \in {"drain", "returned"} => Clean',
           at'.method = "session/prompt" /\ outcome' # None => ~outcome'.ok
    PROVE  Anew'
  <1>1. SeqLike(said') BY Few DEF Anew
  <1>2. ~deaf' => \A i \in DOMAIN toDriver' : ~Olden(toDriver'[i]) BY DEF Anew
  <1>3. ~Clean' => deaf' BY DEF Anew
  <1> QED BY <1>1, <1>2, <1>3 DEF Anew

LEMMA AnewContinues == ASSUME IInv, Anew, Continue PROVE Anew'
  <1>1. /\ outcome # None /\ asked' = asked /\ toDriver' = toDriver /\ deaf' = deaf
        /\ said' = said \/ said' = <<>>
        /\ at.method = "session/load" /\ outcome.ok => said' = <<>>
    BY DEF Continue, Initialized, Loaded, Opened, SessionRefused, Authenticated,
       ModelSelected, ModeSelected, PromptAnswered, Elsewhere, Awaited, transport, agent
  <1>2. ~deaf => /\ \A i \in DOMAIN toDriver : ~Olden(toDriver[i])
                 /\ ~Clean => at.method = "session/load" /\ outcome.ok
    BY <1>1, AnewOutcome
  <1>3. (said' = <<>> => Clean') /\ (said' = said => (Clean <=> Clean')) BY DEF Clean
  <1>4. ~deaf \/ Clean => Clean' BY <1>1, <1>2, <1>3
  <1>5. /\ at'.method # "returned"
        /\ at'.method = "drain" => at.method = "session/prompt" /\ outcome.ok
        /\ outcome' # None => ~outcome'.ok
    BY ContinuesTurn DEF IInv, Types, TypeOK, Table
  <1>6. at'.method \in {"drain", "returned"} => Clean' BY <1>1, <1>4, <1>5 DEF Anew
  <1>7. at'.method = "session/prompt" /\ outcome' # None => ~outcome'.ok BY <1>5
  <1>8. ~deaf => \A i \in DOMAIN toDriver : ~Olden(toDriver[i]) BY <1>2
  <1> QED BY ONLY Anew, <1>1, <1>4, <1>6, <1>7, <1>8, AnewClean

LEMMA AnewDrains == ASSUME IInv, Anew, DrainEnds PROVE Anew'
  <1>1. /\ asked' = asked /\ toDriver' = toDriver /\ deaf' = deaf /\ said' = said
        /\ at.method = "drain" /\ toDriver = <<>> /\ outcome' = None
    BY DEF DrainEnds, Ends, Elsewhere, agent, transport
  <1>2. Clean BY <1>1 DEF Anew
  <1>3. Clean' BY <1>1, <1>2 DEF Clean
  <1>4. \A i \in DOMAIN toDriver : ~Olden(toDriver[i]) BY <1>1
  <1> QED BY <1>1, <1>3, <1>4, AnewClean

\* A frame that is not an answer is read.
LEMMA AnewReads ==
    ASSUME IInv, Anew, Listens, ~deaf, Head(toDriver).kind # "answer",
           toDriver' = Tail(toDriver), asked' = asked, deaf' = deaf,
           at' = at, pending' = pending, outcome' = outcome,
           said' = said
           \/ (said' = Append(said, Head(toDriver)) /\ Head(toDriver).kind \in {"chunk", "tool"})
    PROVE  Anew'
  <1>1. /\ Head(toDriver) = toDriver[1] /\ 1 \in DOMAIN toDriver
        /\ \A i \in DOMAIN toDriver : i \in Nat /\ i >= 1
        /\ \A i \in DOMAIN toDriver' :
              i \in Nat /\ i >= 1 /\ i + 1 \in DOMAIN toDriver /\ toDriver'[i] = toDriver[i + 1]
        /\ \A j \in DOMAIN toDriver :
              j # 1 => j - 1 \in DOMAIN toDriver' /\ toDriver'[j - 1] = toDriver[j]
        /\ \A j \in Answers : j # 1 => j - 1 \in Answers'
    BY Shifted DEF Listens, IInv, Types, Wires
  <1>2. 1 \notin Answers BY <1>1 DEF Answers
  <1>3. \A j \in Answers : /\ j \in Nat /\ j - 1 \in Answers'
                          /\ toDriver'[j - 1].outcome = toDriver[j].outcome
    BY <1>1, <1>2 DEF Answers
  <1>4. \A i \in DOMAIN toDriver' : Olden(toDriver'[i]) =>
           /\ at'.method = "session/load"
           /\ \E j \in Answers' : j > i /\ toDriver'[j].outcome.ok
    <2> SUFFICES ASSUME NEW i \in DOMAIN toDriver', Olden(toDriver'[i])
                 PROVE  /\ at'.method = "session/load"
                        /\ \E j \in Answers' : j > i /\ toDriver'[j].outcome.ok
      OBVIOUS
    <2>1. i \in Nat /\ i + 1 \in DOMAIN toDriver /\ Olden(toDriver[i + 1]) BY <1>1
    <2>2. at.method = "session/load" BY <2>1 DEF Anew
    <2>3. PICK j \in Answers : j > i + 1 /\ toDriver[j].outcome.ok BY <2>1 DEF Anew
    <2>4. /\ j \in Nat /\ j - 1 \in Answers'
          /\ toDriver'[j - 1].outcome = toDriver[j].outcome
      BY <1>3
    <2>5. j - 1 > i BY <2>1, <2>3, <2>4
    <2>6. toDriver'[j - 1].outcome.ok BY <2>3, <2>4
    <2> QED BY <2>2, <2>4, <2>5, <2>6
  <1>5. (\E j \in Answers : toDriver[j].outcome.ok)
        => \E j \in Answers' : toDriver'[j].outcome.ok
    BY <1>3
  <1>6. CASE said' = said
    <2>1. Clean' <=> Clean BY <1>6 DEF Clean
    <2>2. Heralded => Heralded' BY <1>5 DEF Heralded
    <2> QED BY <1>4, <1>6, <2>1, <2>2 DEF Anew
  <1>7. CASE said' = Append(said, Head(toDriver)) /\ Head(toDriver).kind \in {"chunk", "tool"}
    <2>1. /\ SeqLike(said') /\ DOMAIN said' = 1..(Len(said) + 1) /\ DOMAIN said = 1..Len(said)
          /\ Len(said) \in Nat /\ said'[Len(said) + 1] = toDriver[1]
          /\ \A i \in DOMAIN said : said'[i] = said[i]
      BY <1>1, <1>7, Adding DEF Anew
    <2>2. Clean /\ ~Replayed(toDriver[1]) => Clean'
      <3> SUFFICES ASSUME Clean, ~Replayed(toDriver[1]), NEW i \in DOMAIN said'
                   PROVE  ~Replayed(said'[i])
        BY DEF Clean, Replayed
      <3>1. i \in DOMAIN said \/ i = Len(said) + 1 BY <2>1
      <3> QED BY <2>1, <3>1 DEF Clean
    <2>3. CASE Clean /\ ~Replayed(toDriver[1]) BY <1>4, <2>1, <2>2, <2>3 DEF Anew
    <2>4. CASE Replayed(toDriver[1])
      <3>1. Olden(toDriver[1]) BY <1>1, <1>7, <2>4 DEF Olden
      <3>2. at.method = "session/load" /\ \E j \in Answers : toDriver[j].outcome.ok
        BY <1>1, <3>1 DEF Anew
      <3>3. Heralded' BY <1>5, <3>2 DEF Heralded
      <3> QED BY <1>4, <2>1, <3>2, <3>3 DEF Anew
    <2>5. CASE ~Clean
      <3>1. Heralded BY <2>5 DEF Anew
      <3>2. Heralded' BY <1>5, <3>1 DEF Heralded
      <3>3. at.method = "session/load" BY <3>1 DEF Heralded
      <3> QED BY <1>4, <2>1, <3>2, <3>3 DEF Anew
    <2> QED BY <2>3, <2>4, <2>5
  <1> QED BY <1>6, <1>7

LEMMA AnewAnswered == ASSUME IInv, Anew, ReadAnswer PROVE Anew'
  <1>1. /\ Head(toDriver) = toDriver[1] /\ 1 \in DOMAIN toDriver
        /\ \A i \in DOMAIN toDriver' :
              i \in Nat /\ i >= 1 /\ i + 1 \in DOMAIN toDriver /\ toDriver'[i] = toDriver[i + 1]
    BY Shifted DEF ReadAnswer, Reads, Listens, IInv, Types, Wires
  <1>2. /\ at' = at /\ asked' = asked /\ said' = said /\ deaf' = deaf /\ ~deaf
        /\ output = "open" /\ Head(toDriver).kind = "answer"
    BY DEF ReadAnswer, Reads, Listens, Quiet, listening, transport, agent
  <1>3. 1 \in Answers BY <1>1, <1>2 DEF Answers
  <1>4. \A j \in Answers : j = 1 BY <1>2, <1>3 DEF IInv, InFlight
  <1>5. pending # None BY <1>2, <1>3 DEF IInv, InFlight
  <1>6. outcome = None /\ outcome' = toDriver[1].outcome
    BY <1>1, <1>5 DEF ReadAnswer, IInv, Table
  <1>7. pending' = None BY <1>5 DEF ReadAnswer
  <1>8. \A i \in DOMAIN toDriver' : ~Olden(toDriver'[i])
    <2> SUFFICES ASSUME NEW i \in DOMAIN toDriver', Olden(toDriver'[i]) PROVE FALSE OBVIOUS
    <2>1. i \in Nat /\ i + 1 \in DOMAIN toDriver /\ Olden(toDriver[i + 1]) BY <1>1
    <2>2. PICK j \in Answers : j > i + 1 BY <1>2, <2>1 DEF Anew
    <2> QED BY <1>1, <1>4, <2>1, <2>2
  <1>9. Clean' <=> Clean BY <1>2 DEF Clean
  <1>10. ~Clean => Heralded /\ Heralded'
    <2> SUFFICES ASSUME ~Clean PROVE Heralded /\ Heralded' OBVIOUS
    <2>1. Heralded BY <1>2 DEF Anew
    <2>2. toDriver[1].outcome.ok BY <1>4, <1>5, <2>1 DEF Heralded
    <2> QED BY <1>2, <1>6, <1>7, <2>1, <2>2 DEF Heralded
  <1>11. ~Clean => at.method = "session/load" BY <1>10 DEF Heralded
  <1> QED BY <1>2, <1>8, <1>9, <1>10, <1>11 DEF Anew

LEMMA AnewDispatch == ASSUME IInv, Anew, Dispatch PROVE Anew'
  <1>1. CASE ReadAnswer BY <1>1, AnewAnswered
  <1>2. CASE ReadChunk \/ ReadTool \/ ReadThought \/ ReadAsk \/ ReadReport
    <2>1. /\ Listens /\ ~deaf /\ Head(toDriver).kind # "answer"
          /\ toDriver' = Tail(toDriver) /\ asked' = asked /\ deaf' = deaf
          /\ at' = at /\ pending' = pending /\ outcome' = outcome
          /\ \/ said' = said
             \/ /\ said' = Append(said, Head(toDriver))
                /\ Head(toDriver).kind \in {"chunk", "tool"}
      BY <1>2 DEF ReadChunk, ReadTool, ReadThought, ReadAsk, ReadReport, Reads, Quiet,
         driver, agent, transport
    <2> QED BY <2>1, AnewReads
  <1>3. CASE Overflows
    <2>1. /\ asked' = asked /\ said' = said /\ deaf' /\ at' = at
          /\ outcome' = outcome \/ outcome' = Refused("transport")
      BY <1>3 DEF Overflows, FailAllPending, agent, listening
    <2>2. ~Refused("transport").ok BY DEF Refused
    <2>3. Clean' <=> Clean BY <2>1 DEF Clean
    <2> QED BY <2>1, <2>2, <2>3 DEF Anew
  <1> QED BY <1>1, <1>2, <1>3 DEF Dispatch

\* The transport goes when everything was read and no answer waits, or says nothing new.
LEMMA AnewTransport ==
    ASSUME IInv, Anew, InputBreaks \/ OutputEnds \/ OutputCloses \/ UNCHANGED vars
    PROVE  Anew'
  <1>1. /\ asked' = asked /\ said' = said /\ at' = at /\ deaf' = deaf /\ toDriver' = toDriver
    BY DEF InputBreaks, OutputEnds, OutputCloses, vars, agent, listening, driver, transport
  <1>2. (Clean' <=> Clean) /\ Answers' = Answers BY <1>1 DEF Clean, Answers
  <1>3. CASE InputBreaks \/ UNCHANGED vars
    <2>1. pending' = pending /\ outcome' = outcome
      BY <1>3 DEF InputBreaks, vars, driver
    <2>2. Heralded' <=> Heralded BY <1>1, <1>2, <2>1 DEF Heralded
    <2> QED BY <1>1, <1>2, <2>1, <2>2 DEF Anew
  <1>4. CASE OutputEnds \/ OutputCloses
    <2>1. /\ toDriver = <<>> /\ outcome = None
          /\ pending' = None
          /\ outcome' = outcome \/ outcome' = Refused("transport")
          /\ pending = None => outcome' = outcome
      BY <1>4 DEF OutputEnds, OutputCloses, FailAllPending, IInv, Table
    <2>2. Answers = {} BY <2>1 DEF Answers
    <2>3. outcome' # None => ~outcome'.ok BY <2>1 DEF Refused
    <2>4. Heralded => pending = None /\ outcome.ok BY <2>2 DEF Heralded
    <2>5. Heralded => Heralded' BY <1>1, <2>1, <2>4 DEF Heralded
    <2> QED BY <1>1, <1>2, <2>1, <2>3, <2>5 DEF Anew
  <1> QED BY <1>3, <1>4

\* The agent sends: what is replayed comes before the answer to its load.
LEMMA AnewGrows ==
    ASSUME IInv, Anew, Still, asked' \in Nat, NEW frames, SeqLike(frames),
           toDriver' = toDriver \o frames,
           ~deaf => \A i \in DOMAIN frames : Olden(frames[i]) =>
              /\ at.method = "session/load"
              /\ \E j \in DOMAIN frames : /\ j > i /\ frames[j].kind = "answer"
                                          /\ frames[j].outcome.ok
    PROVE  Anew'
  <1>1. /\ at' = at /\ pending' = pending /\ outcome' = outcome /\ deaf' = deaf
        /\ said' = said
    BY DEF Still, driver, transport, listening
  <1>2. /\ Len(toDriver) \in Nat /\ Len(frames) \in Nat
        /\ DOMAIN toDriver = 1..Len(toDriver) /\ DOMAIN frames = 1..Len(frames)
        /\ DOMAIN toDriver' = 1..(Len(toDriver) + Len(frames))
        /\ \A i \in DOMAIN toDriver : toDriver'[i] = toDriver[i]
        /\ \A i \in DOMAIN frames : toDriver'[Len(toDriver) + i] = frames[i]
        /\ \A i \in DOMAIN toDriver' :
              i > Len(toDriver) => /\ i - Len(toDriver) \in DOMAIN frames
                                   /\ toDriver'[i] = frames[i - Len(toDriver)]
    BY Joining DEF IInv, Types, Wires
  <1>3. \A j \in Answers : j \in Answers' /\ toDriver'[j] = toDriver[j]
    BY <1>2 DEF Answers
  <1>4. Clean' <=> Clean BY <1>1 DEF Clean
  <1>5. Heralded => Heralded' BY <1>1, <1>3 DEF Heralded
  <1>6. ASSUME ~deaf, NEW i \in DOMAIN toDriver', Olden(toDriver'[i])
        PROVE  /\ at.method = "session/load"
               /\ \E j \in Answers' : j > i /\ toDriver'[j].outcome.ok
    <2>1. CASE i \in DOMAIN toDriver
      <3>1. Olden(toDriver[i]) BY <1>2, <1>6, <2>1
      <3>2. at.method = "session/load" /\ \E j \in Answers : j > i /\ toDriver[j].outcome.ok
        BY <1>6, <2>1, <3>1 DEF Anew
      <3> QED BY <1>3, <3>2
    <2>2. CASE i \notin DOMAIN toDriver
      <3> PICK n : n = Len(toDriver) OBVIOUS
      <3>1. n \in Nat /\ i \in Nat /\ i > n BY <1>2, <2>2
      <3>2. i - n \in DOMAIN frames /\ toDriver'[i] = frames[i - n] BY <1>2, <3>1
      <3>3. Olden(frames[i - n]) BY <1>6, <3>2
      <3>4. at.method = "session/load" BY <1>6, <3>2, <3>3
      <3>5. PICK j \in DOMAIN frames : /\ j > i - n /\ frames[j].kind = "answer"
                                       /\ frames[j].outcome.ok
        BY <1>6, <3>2, <3>3
      <3>6. j \in Nat /\ n + j \in DOMAIN toDriver' /\ toDriver'[n + j] = frames[j]
        BY <1>2, <3>1
      <3>7. n + j \in Answers' BY <3>5, <3>6 DEF Answers
      <3>8. n + j > i BY <3>1, <3>5, <3>6
      <3>9. toDriver'[n + j].outcome.ok BY <3>5, <3>6
      <3> QED BY <3>4, <3>7, <3>8, <3>9
    <2> QED BY <2>1, <2>2
  <1> QED BY <1>1, <1>4, <1>5, <1>6 DEF Anew

LEMMA AnewFrame ==
    ASSUME IInv, Anew, Still, asked' \in Nat,
           toDriver' = toDriver \/ (\E f : Sends(<<f>>) /\ ~Olden(f))
    PROVE  Anew'
  <1>1. SeqLike(toDriver) BY DEF IInv, Types, Wires
  <1>2. CASE toDriver' = toDriver
    <2>1. SeqLike(<<>>) /\ DOMAIN <<>> = {} BY Few
    <2>2. toDriver' = toDriver \o <<>> BY <1>1, <1>2 DEF SeqLike
    <2> QED BY <2>1, <2>2, AnewGrows
  <1>3. ASSUME NEW f, Sends(<<f>>), ~Olden(f) PROVE Anew'
    <2> PICK frames : frames = <<f>> OBVIOUS
    <2>1. SeqLike(frames) /\ DOMAIN frames = {1} /\ frames[1] = f BY Few
    <2>2. toDriver' = toDriver \o frames BY <1>3 DEF Sends
    <2>3. \A i \in DOMAIN frames : ~Olden(frames[i]) BY <1>3, <2>1
    <2> QED BY ONLY IInv, Anew, Still, asked' \in Nat, <2>1, <2>2, <2>3, AnewGrows
  <1> QED BY <1>2, <1>3

LEMMA AnewSays == ASSUME IInv, Anew, AgentSays PROVE Anew'
  <1>1. asked \in Nat /\ asked' = asked + 1 /\ Still BY DEF AgentSays, Anew
  <1>2. PICK f \in [kind: {"chunk"}, id: given.ids, text: {asked + 1}]
                    \cup [kind: {"tool", "thought"}, of: {"this"}] : Sends(<<f>>)
    BY DEF AgentSays
  <1>3. CASE f \in [kind: {"chunk"}, id: given.ids, text: {asked + 1}]
    <2>1. f.kind = "chunk" /\ f.text = asked + 1 BY <1>3
    <2>2. ~Olden(f) BY <1>1, <2>1 DEF Olden, Replayed
    <2> QED BY <1>1, <1>2, <2>2, AnewFrame
  <1>4. CASE f \in [kind: {"tool", "thought"}, of: {"this"}]
    <2>1. f.kind # "chunk" /\ f.of = "this" BY <1>4
    <2>2. ~Olden(f) BY <2>1 DEF Olden, Replayed
    <2> QED BY <1>1, <1>2, <2>2, AnewFrame
  <1> QED BY <1>2, <1>3, <1>4

LEMMA AnewOpens == ASSUME IInv, Anew, AgentOpens, ~LateReplay PROVE Anew'
  <1>1. /\ Alive /\ Still /\ asked' = asked /\ asked \in Nat /\ Busy
        /\ output = "open"
    BY DEF AgentOpens, Anew, Alive, At, Busy, Method
  <1>2. work \in Pipeline BY <1>1 DEF Pipeline
  <1>3. ~deaf => work.method = at.method BY <1>1, <1>2 DEF IInv, InFlight
  <1>4. CASE Sends(<<Answer(Refused("auth"))>>)
    <2>1. ~Olden(Answer(Refused("auth"))) BY DEF Olden, Answer
    <2> QED BY <1>1, <1>4, <2>1, AnewFrame
  <1>5. ASSUME NEW s, NEW replay \in Replay, replay # <<>> => work.method = "session/load",
               Sends(replay \o <<Answer(Granted(s))>>)
        PROVE  Anew'
    <2> PICK f : f = Answer(Granted(s)) OBVIOUS
    <2>1. f.kind = "answer" /\ f.outcome.ok BY Zenon DEF Answer, Granted
    <2>2. ~Olden(f) BY <2>1 DEF Olden
    <2> PICK c, t : /\ c = [kind |-> "chunk", id |-> None, text |-> 0]
                    /\ t = [kind |-> "tool", of |-> "before"]
      OBVIOUS
    <2>3. replay = <<>> \/ replay = <<c, t>> BY DEF Replay
    <2>4. CASE replay = <<>>
      <3>1. <<>> \o <<f>> = <<f>> BY SMT
      <3>2. Sends(<<f>>) BY <1>5, <2>4, <3>1
      <3> QED BY <1>1, <2>2, <3>2, AnewFrame
    <2>5. CASE replay = <<c, t>>
      <3> PICK frames : frames = <<c, t>> \o <<f>> OBVIOUS
      <3>1. SeqLike(frames) /\ DOMAIN frames = 1..3 /\ frames[3] = f BY Around
      <3>2. toDriver' = toDriver \o frames BY <1>5, <2>5 DEF Sends
      <3>3. work.method = "session/load" BY <1>5, <2>5
      <3>4. \A i \in DOMAIN frames : Olden(frames[i]) => i # 3 /\ i \in 1..3
        BY <2>2, <3>1
      <3>5. ~deaf => \A i \in DOMAIN frames : Olden(frames[i]) =>
              /\ at.method = "session/load"
              /\ \E j \in DOMAIN frames : /\ j > i /\ frames[j].kind = "answer"
                                          /\ frames[j].outcome.ok
        BY <1>3, <2>1, <3>1, <3>3, <3>4
      <3>6. asked' \in Nat BY <1>1
      <3> QED BY ONLY IInv, Anew, <1>1, <3>1, <3>2, <3>5, <3>6, AnewGrows
    <2> QED BY <2>3, <2>4, <2>5
  <1>6. \/ Sends(<<Answer(Refused("auth"))>>)
        \/ \E mode \in given.modes \cup {None}, model \in given.models, replay \in Replay :
             /\ replay # <<>> => work.method = "session/load"
             /\ Sends(replay \o <<Answer(Granted(sess'))>>)
    BY DEF AgentOpens, At
  <1> QED BY <1>4, <1>5, <1>6

LEMMA AnewAgent == ASSUME IInv, Anew, AgentStep, ~LateReplay PROVE Anew'
  <1>1. \A o : ~Olden(Answer(o)) BY DEF Olden, Answer
  <1>2. asked \in Nat /\ MaxSays \in Nat BY AcpAssumption DEF Anew, AcpAssumption
  <1>3. CASE AgentOpens BY <1>3, AnewOpens
  <1>4. CASE AgentSays BY <1>4, AnewSays
  <1>5. CASE AgentReads \/ AgentWrites
    BY <1>2, <1>5, AnewFrame DEF AgentReads, AgentWrites
  <1>6. CASE AgentRefuses \/ AgentAuthenticates \/ AgentSets \/ AgentEndsPrompt
    <2>1. Still /\ asked' = asked /\ \E o : Sends(<<Answer(o)>>)
      BY <1>6 DEF AgentRefuses, AgentAuthenticates, AgentSets, AgentEndsPrompt
    <2> QED BY <1>1, <1>2, <2>1, AnewFrame
  <1>7. CASE AgentAsks
    <2>1. Still /\ asked' = asked + 1 BY <1>7 DEF AgentAsks
    <2>2. PICK ask \in Ask : \/ toDriver' = toDriver
                            \/ Sends(<<[kind |-> "report", decision |-> Decision(ask, Policy)]>>)
                            \/ Sends(<<[kind |-> "ask", ask |-> ask]>>)
      BY <1>7 DEF AgentAsks
    <2>3. /\ ~Olden([kind |-> "report", decision |-> Decision(ask, Policy)])
          /\ ~Olden([kind |-> "ask", ask |-> ask])
      BY DEF Olden
    <2> QED BY <1>2, <2>1, <2>2, <2>3, AnewFrame
  <1>8. CASE AgentForges \/ AgentFloods
    <2>1. Still /\ asked' \in Nat BY <1>2, <1>8 DEF AgentForges, AgentFloods
    <2>2. \A d : ~Olden([kind |-> "report", decision |-> d]) BY DEF Olden
    <2>3. ~Olden([kind |-> "huge"]) BY DEF Olden
    <2>4. toDriver' = toDriver \/ \E f : Sends(<<f>>) /\ ~Olden(f)
      BY <1>8, <2>2, <2>3 DEF AgentForges, AgentFloods
    <2> QED BY <2>1, <2>4, AnewFrame
  <1> QED BY <1>3, <1>4, <1>5, <1>6, <1>7, <1>8 DEF AgentStep

LEMMA AnewStep == ASSUME IInv, Anew, [Next]_vars, ~LateReplay PROVE Anew'
  <1> QED BY AnewContinues, AnewDrains, AnewDispatch, AnewAgent, AnewTransport DEF Next

\* The answer that a turn returns with is the last message of its own updates: of an
\* agent that answers a load when it has replayed it, nothing of the replay is left.
THEOREM AcpAnswers == ASSUME ~LateReplay PROVE Spec => []AnswerIsLastMessage
  <1>1. Init => Anew
    <2> SUFFICES ASSUME Init PROVE Anew OBVIOUS
    <2>1. asked = 0 /\ toDriver = <<>> /\ said = <<>> BY DEF Init
    <2>2. Clean BY <2>1 DEF Clean
    <2> QED BY <2>1, <2>2, Few DEF Anew
  <1>2. IInv /\ Anew /\ [Next]_vars => Anew' BY AnewStep
  <1>3. Anew /\ TellsLast => AnswerIsLastMessage
    BY DEF Anew, Clean, TellsLast, AnswerIsLastMessage
  <1> QED BY <1>1, <1>2, <1>3, AcpInvariant, AcpTellsLast, PTL DEF Spec
=============================================================================
