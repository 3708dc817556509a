---------------------------- MODULE SystemProofs -----------------------------
(***************************************************************************)
(* What TLAPS proves of the companion at work under the gateway, for any   *)
(* number of prompts, any limit and queue, and any number of failures.     *)
(*                                                                         *)
(* The companion never compares an id with those it has seen before: that  *)
(* the files of one session are not those of another, and that a cancelled *)
(* clone is not taken up again, rests on the ids.  remote.ts draws one for *)
(* every prompt, the relay opens it once, and its open is on one leg.      *)
(*                                                                         *)
(* That the two ends agree once the connection is quiet is proved from     *)
(* what each line still on its way will make of them (AgreeInv).           *)
(***************************************************************************)
EXTENDS System, FunctionTheorems, FiniteSetTheorems, SequenceTheorems, TLAPS

Kinds    == {"open", "opened", "refused", "frame", "close"}
DownLine == [kind: Kinds, session: SessionId]
Place    == {"idle", "open", "over"}

\* The sessions that the companion has git or an agent for, and what it knows of
\* each: a session has an agent, an open that holds a slot has its git.
Known == clones \cup agents
Parts == /\ Known \subseteq SessionId
         /\ served \subseteq agents /\ pending \subseteq clones
         /\ clones \cap agents = {}
         /\ FilesOutliveWriters

LinesOK == outbox \in Seq(C!Line) /\ body \in Seq(C!Line) /\ draining \in Seq(C!Line)

\* Where in a leg's lines session s is opened.
OpensOf(q, s) == {i \in DOMAIN q : q[i].kind = "open" /\ q[i].session = s}

\* An id is on its way to the companion once, and never after it arrived there.
OpenedOnce == \A s \in SessionId : \A i, j \in OpensOf(down, s) : i = j
OpensAhead == \A s \in SessionId : OpensOf(down, s) # {} => s \notin Known /\ client[s] # "idle"
IdsFresh   == \A s \in SessionId : client[s] = "idle" => s \notin Known

SystemInv == /\ Parts /\ LinesOK
             /\ down \in Seq(DownLine) /\ client \in [SessionId -> Place]
             /\ OpenedOnce /\ OpensAhead /\ IdsFresh

-----------------------------------------------------------------------------
(* What the relay hands down. *)

LEMMA SessionsFinite == IsFiniteSet(SessionId)
  BY SystemAssumption DEF R!RelayAssumption, R!IsFiniteSet, IsFiniteSet

SentOK == \A m \in sent' : m.kind \in Kinds /\ m.session \in SessionId

LEMMA DownLineFinite == IsFiniteSet(DownLine)
  <1>1. IsFiniteSet(Kinds)
    <2>1. /\ IsFiniteSet({"open"}) /\ IsFiniteSet({"opened"}) /\ IsFiniteSet({"refused"})
          /\ IsFiniteSet({"frame"}) /\ IsFiniteSet({"close"})
      BY FS_Singleton
    <2>2. IsFiniteSet({"open"} \cup {"opened"}) BY <2>1, FS_Union
    <2>3. IsFiniteSet({"open"} \cup {"opened"} \cup {"refused"}) BY <2>1, <2>2, FS_Union
    <2>4. IsFiniteSet({"open"} \cup {"opened"} \cup {"refused"} \cup {"frame"})
      BY <2>1, <2>3, FS_Union
    <2>5. IsFiniteSet({"open"} \cup {"opened"} \cup {"refused"} \cup {"frame"} \cup {"close"})
      BY <2>1, <2>4, FS_Union
    <2>6. Kinds = {"open"} \cup {"opened"} \cup {"refused"} \cup {"frame"} \cup {"close"}
      BY DEF Kinds
    <2> QED BY <2>5, <2>6
  <1>2. IsFiniteSet(Kinds \X SessionId) BY <1>1, SessionsFinite, FS_Product
  <1> DEFINE f == [p \in Kinds \X SessionId |-> [kind |-> p[1], session |-> p[2]]]
  <1>3. f \in Surjection(Kinds \X SessionId, DownLine)
    <2>1. f \in [Kinds \X SessionId -> DownLine] BY DEF DownLine
    <2>2. ASSUME NEW l \in DownLine PROVE \E p \in Kinds \X SessionId : f[p] = l
      <3>1. <<l.kind, l.session>> \in Kinds \X SessionId BY DEF DownLine
      <3>2. f[<<l.kind, l.session>>] = l BY <3>1 DEF DownLine
      <3> QED BY <3>1, <3>2
    <2> QED BY <2>1, <2>2, Fun_IsSurj
  <1> QED BY <1>2, <1>3, FS_Surjection

LEMMA RelayedAdds ==
    ASSUME Relayed, SentOK, down \in Seq(DownLine)
    PROVE  \E q \in Seq(DownLine) :
               /\ down' = down \o q
               /\ \A i \in DOMAIN q : q[i] \in LinesDown
               /\ \A i, j \in DOMAIN q : q[i] = q[j] => i = j
  <1>1. LinesDown \subseteq DownLine BY DEF LinesDown, SentOK, DownLine
  <1>2. Cardinality(LinesDown) \in Nat BY <1>1, DownLineFinite, FS_Subset, FS_CardinalityType
  <1>3. CASE leg = "companion"
    <2>1. PICK q \in SetToSeqs(LinesDown) : down' = down \o q BY <1>3 DEF Relayed
    <2>2. q \in [1..Cardinality(LinesDown) -> LinesDown] BY <2>1 DEF SetToSeqs
    <2>3. q \in Seq(DownLine) BY <1>1, <1>2, <2>2
    <2>4. \A i, j \in DOMAIN q : q[i] = q[j] => i = j BY <2>2 DEF SetToSeqs
    <2> QED BY <2>1, <2>2, <2>3, <2>4
  <1>4. CASE leg # "companion"
    <2>1. down' = down \o <<>>
      <3>1. down' = down BY <1>4 DEF Relayed
      <3>2. down \o <<>> = down BY ConcatEmptySeq
      <3> QED BY <3>1, <3>2
    <2>2. <<>> \in Seq(DownLine) /\ DOMAIN <<>> = {} OBVIOUS
    <2> QED BY <2>1, <2>2
  <1> QED BY <1>3, <1>4

LEMMA TailOpens ==
    ASSUME NEW q \in Seq(DownLine), q # <<>>, NEW s \in SessionId, NEW i \in OpensOf(Tail(q), s)
    PROVE  i \in Nat \ {0} /\ i + 1 \in OpensOf(q, s)
  <1>1. Len(q) \in Nat \ {0} /\ DOMAIN q = 1..Len(q) BY EmptySeq, LenProperties
  <1>2. DOMAIN Tail(q) = 1..Len(q) - 1 BY <1>1, HeadTailProperties, LenProperties
  <1>3. Tail(q)[i] = q[i + 1] BY <1>1, <1>2 DEF OpensOf
  <1> QED BY <1>1, <1>2, <1>3 DEF OpensOf

LEMMA AddedOpens ==
    ASSUME NEW p \in Seq(DownLine), NEW q \in Seq(DownLine), NEW s \in SessionId,
           NEW i \in OpensOf(p \o q, s)
    PROVE  \/ i \in OpensOf(p, s)
           \/ i - Len(p) \in OpensOf(q, s) /\ i \in Nat
  <1>1. /\ Len(p) \in Nat /\ Len(q) \in Nat
        /\ DOMAIN p = 1..Len(p) /\ DOMAIN q = 1..Len(q)
        /\ DOMAIN (p \o q) = 1..Len(p) + Len(q)
    BY LenProperties, ConcatProperties
  <1>2. (p \o q)[i] = IF i <= Len(p) THEN p[i] ELSE q[i - Len(p)]
    BY <1>1, ConcatProperties DEF OpensOf
  <1> QED BY <1>1, <1>2 DEF OpensOf

\* No open is added to the companion's leg.
Fewer == /\ down' \in Seq(DownLine) /\ OpenedOnce'
         /\ \A s \in SessionId : OpensOf(down', s) # {} => OpensOf(down, s) # {}

LEMMA SameFewer ==
    ASSUME down \in Seq(DownLine), OpenedOnce, down' = down
    PROVE  Fewer
  BY DEF Fewer, OpenedOnce

LEMMA NoneFewer ==
    ASSUME down' = <<>>
    PROVE  Fewer
  <1>1. <<>> \in Seq(DownLine) /\ DOMAIN <<>> = {} OBVIOUS
  <1> QED BY <1>1 DEF Fewer, OpenedOnce, OpensOf

LEMMA TailFewer ==
    ASSUME down \in Seq(DownLine), OpenedOnce, down # <<>>, down' = Tail(down)
    PROVE  /\ Fewer
           /\ \A s \in SessionId : 1 \in OpensOf(down, s) => OpensOf(down', s) = {}
  <1>1. Tail(down) \in Seq(DownLine) BY HeadTailProperties
  <1>2. ASSUME NEW s \in SessionId, NEW i \in OpensOf(Tail(down), s)
        PROVE  i \in Nat \ {0} /\ i + 1 \in OpensOf(down, s)
    BY <1>2, TailOpens
  <1>3. OpenedOnce'
    <2>1. ASSUME NEW s \in SessionId, NEW i \in OpensOf(Tail(down), s), NEW j \in OpensOf(Tail(down), s)
          PROVE  i = j
      <3>1. i + 1 = j + 1 BY <1>2 DEF OpenedOnce
      <3> QED BY <1>2, <3>1
    <2> QED BY <2>1 DEF OpenedOnce
  <1>4. ASSUME NEW s \in SessionId, 1 \in OpensOf(down, s), NEW i \in OpensOf(Tail(down), s)
        PROVE  FALSE
    <2>1. i + 1 = 1 BY <1>2, <1>4 DEF OpenedOnce
    <2> QED BY <1>2, <2>1
  <1> QED BY <1>1, <1>2, <1>3, <1>4 DEF Fewer

LEMMA QuietAdds ==
    ASSUME Relayed, SentOK, down \in Seq(DownLine), OpenedOnce, \A m \in sent' : m.kind # "open"
    PROVE  Fewer
  <1>1. PICK q \in Seq(DownLine) : down' = down \o q /\ \A i \in DOMAIN q : q[i] \in LinesDown
    BY RelayedAdds
  <1>2. \A s \in SessionId : OpensOf(q, s) = {} BY <1>1 DEF OpensOf, LinesDown
  <1>3. down' \in Seq(DownLine) BY <1>1, ConcatProperties
  <1>4. ASSUME NEW s \in SessionId, NEW i \in OpensOf(down', s)
        PROVE  i \in OpensOf(down, s)
    BY <1>1, <1>2, <1>4, AddedOpens
  <1> QED BY <1>3, <1>4 DEF Fewer, OpenedOnce

\* An id that was asked for, that the companion has nothing of and that is not on its
\* way there.
Retired(s) == client[s] # "idle" /\ s \notin Known /\ OpensOf(down, s) = {}
NoneReturns == \A s \in SessionId : Retired(s) => Retired(s)'

\* A step that opens nothing: what is known to the companion only goes.
LEMMA InvKept ==
    ASSUME SystemInv, Parts', LinesOK', Fewer, Known' \subseteq Known,
           client' \in [SessionId -> Place],
           \A s \in SessionId : client[s] # "idle" => client'[s] # "idle"
    PROVE  SystemInv' /\ NoneReturns
  <1>1. OpensAhead' BY DEF SystemInv, OpensAhead, Fewer
  <1>2. IdsFresh' BY DEF SystemInv, IdsFresh
  <1>3. NoneReturns BY DEF NoneReturns, Retired, Fewer, OpensOf
  <1> QED BY <1>1, <1>2, <1>3 DEF SystemInv, Fewer

-----------------------------------------------------------------------------
(* The companion's handlers. *)

LEMMA AppendOK ==
    ASSUME NEW q \in Seq(C!Line), NEW line \in C!Line
    PROVE  Append(q, line) \in Seq(C!Line)
  BY AppendProperties

\* A line that is sent, or that overflows the queue, leaves no session and no
\* open but those its handler leaves.
LEMMA SendLineKeeps ==
    ASSUME LinesOK, NEW line \in C!Line, NEW ss, NEW pp, C!SendLine(line, ss, pp)
    PROVE  LinesOK' /\ served' \subseteq ss /\ pending' \subseteq pp
  <1>1. CASE C!Enqueue(line, ss, pp)
    <2>1. LinesOK' BY <1>1, AppendOK DEF C!Enqueue, LinesOK
    <2> QED BY <1>1, <2>1 DEF C!Enqueue
  <1>2. CASE C!Overflow
    <2>1. <<>> \in Seq(C!Line) OBVIOUS
    <2> QED BY <1>2, <2>1 DEF C!Overflow, C!Drains, LinesOK
  <1> QED BY <1>1, <1>2 DEF C!SendLine

LEMMA SaysLine ==
    ASSUME NEW kind \in {"opened", "refused", "frame", "close"}, NEW s \in SessionId
    PROVE  C!Says(kind, s) \in C!Line
  BY DEF C!Says, C!Line

\* A fresh id takes up an agent or a git of its own.
LEMMA OpenKeeps ==
    ASSUME Parts, LinesOK, NEW s \in SessionId \ Known, C!OpenSession(s)
    PROVE  Parts' /\ LinesOK' /\ Known' \subseteq Known \cup {s}
  <1> USE DEF Parts, Known, FilesOutliveWriters
  <1>1. CASE C!RefuseOpen(s)
    <2>1. LinesOK' /\ served' \subseteq served /\ pending' \subseteq pending
      BY <1>1, SendLineKeeps, SaysLine DEF C!RefuseOpen
    <2> QED BY <1>1, <2>1 DEF C!RefuseOpen
  <1>2. CASE C!Spawn(s)
    <2>1. LinesOK' /\ served' \subseteq served \cup {s} /\ pending' \subseteq pending
      BY <1>2, SendLineKeeps, SaysLine DEF C!Spawn
    <2>2. agents' = agents \cup {s} /\ temp' = temp \cup {s} /\ clones' = clones
      BY <1>2 DEF C!Spawn
    <2> QED BY <2>1, <2>2
  <1>3. CASE C!BeginClone(s)
    <2>1. LinesOK' BY <1>3 DEF C!BeginClone, C!Leaves, LinesOK, C!lines
    <2>2. /\ served' = served /\ pending' = pending \cup {s} /\ agents' = agents
          /\ clones' = clones \cup {s} /\ temp' = temp \cup {s}
      BY <1>3 DEF C!BeginClone, C!Leaves
    <2> QED BY <2>1, <2>2
  <1> QED BY <1>1, <1>2, <1>3 DEF C!OpenSession

LEMMA CloseKeeps ==
    ASSUME Parts, LinesOK, NEW s, C!CloseSession(s)
    PROVE  Parts' /\ LinesOK' /\ Known' \subseteq Known
  <1>1. LinesOK' BY DEF C!CloseSession, C!Leaves, LinesOK, C!lines
  <1>2. /\ served' = served \ {s} /\ pending' = pending \ {s}
        /\ agents' = agents /\ clones' = clones /\ temp' = temp
    BY DEF C!CloseSession, C!Leaves
  <1> QED BY <1>1, <1>2 DEF Parts, Known, FilesOutliveWriters

LEMMA CloneEndsKeeps ==
    ASSUME Parts, LinesOK, NEW s \in SessionId, C!CloneEnds(s)
    PROVE  /\ Parts' /\ LinesOK' /\ Known' \subseteq Known
           /\ agents' \ agents \subseteq pending
  <1> USE DEF Parts, Known, FilesOutliveWriters
  <1>1. s \in clones /\ clones' = clones \ {s} BY DEF C!CloneEnds
  <1>2. CASE /\ s \notin pending
             /\ temp' = temp \ {s}
             /\ C!Leaves(served, pending)
             /\ UNCHANGED agents
    <2>1. LinesOK' /\ served' = served /\ pending' = pending
      BY <1>2 DEF C!Leaves, LinesOK, C!lines
    <2> QED BY <1>1, <1>2, <2>1
  <1>3. CASE /\ s \in pending
             /\ temp' = temp \ {s}
             /\ C!SendLine(C!Says("refused", s), served, pending \ {s})
             /\ UNCHANGED agents
    <2>1. LinesOK' /\ served' \subseteq served /\ pending' \subseteq pending \ {s}
      BY <1>3, SendLineKeeps, SaysLine
    <2> QED BY <1>1, <1>3, <2>1
  <1>4. CASE /\ s \in pending
             /\ agents' = agents \cup {s} /\ UNCHANGED temp
             /\ C!SendLine(C!Says("opened", s), served \cup {s}, pending \ {s})
    <2>1. LinesOK' /\ served' \subseteq served \cup {s} /\ pending' \subseteq pending \ {s}
      BY <1>4, SendLineKeeps, SaysLine
    <2> QED BY <1>1, <1>4, <2>1
  <1> QED BY <1>2, <1>3, <1>4 DEF C!CloneEnds

LEMMA AgentKeeps ==
    ASSUME Parts, LinesOK, NEW s \in SessionId,
           C!AgentSpeaks(s) \/ C!AgentOverruns(s) \/ C!AgentExits(s)
    PROVE  /\ Parts' /\ LinesOK' /\ Known' \subseteq Known
           /\ agents' \subseteq agents
  <1> USE DEF Parts, Known, FilesOutliveWriters
  <1>1. CASE C!AgentSpeaks(s)
    <2>1. LinesOK' /\ served' \subseteq served /\ pending' \subseteq pending
      BY <1>1, SendLineKeeps, SaysLine DEF C!AgentSpeaks
    <2> QED BY <1>1, <2>1 DEF C!AgentSpeaks
  <1>2. CASE C!AgentOverruns(s)
    <2>1. LinesOK' /\ served' \subseteq served \ {s} /\ pending' \subseteq pending
      BY <1>2, SendLineKeeps, SaysLine DEF C!AgentOverruns
    <2> QED BY <1>2, <2>1 DEF C!AgentOverruns
  <1>3. CASE C!AgentExits(s)
    <2>1. /\ s \in agents /\ agents' = agents \ {s} /\ temp' = temp \ {s} /\ clones' = clones
      BY <1>3 DEF C!AgentExits
    <2>2. LinesOK' /\ served' \subseteq served \ {s} /\ pending' \subseteq pending
      <3>1. CASE s \in served /\ C!SendLine(C!Says("close", s), served \ {s}, pending)
        BY <3>1, SendLineKeeps, SaysLine
      <3>2. CASE s \notin served /\ C!Leaves(served, pending)
        BY <3>2 DEF C!Leaves, LinesOK, C!lines
      <3> QED BY <1>3, <3>1, <3>2 DEF C!AgentExits
    <2> QED BY <2>1, <2>2
  <1> QED BY <1>1, <1>2, <1>3

LEMMA EpochKeeps ==
    ASSUME Parts, LinesOK, C!Connect \/ C!Attach \/ C!Break \/ C!EpochEnds \/ C!Start
    PROVE  /\ Parts' /\ LinesOK' /\ Known' \subseteq Known
           /\ agents' \subseteq agents
  <1> USE DEF Parts, Known, FilesOutliveWriters
  <1>1. UNCHANGED <<served, pending, clones, agents, temp>>
    BY DEF C!Connect, C!Attach, C!Break, C!EpochEnds, C!Start, C!work
  <1>2. <<>> \in Seq(C!Line) OBVIOUS
  <1>3. LinesOK'
    <2>1. CASE C!Connect \/ C!Start BY <2>1 DEF C!Connect, C!Start, C!lines, LinesOK
    <2>2. CASE C!Break \/ C!EpochEnds
      BY <1>2, <2>2 DEF C!Break, C!EpochEnds, C!Drains, LinesOK
    <2>3. CASE C!Attach
      <3>1. [kind |-> "hello", ids |-> C!Working] \in C!Line BY DEF C!Working, C!Line
      <3>2. <<[kind |-> "hello", ids |-> C!Working]>> \in Seq(C!Line) BY <3>1
      <3>3. <<[kind |-> "hello", ids |-> C!Working]>> \o outbox \in Seq(C!Line)
        BY <3>2, ConcatProperties DEF LinesOK
      <3> QED BY <1>2, <2>3, <3>3 DEF C!Attach, LinesOK
    <2> QED BY <2>1, <2>2, <2>3
  <1> QED BY <1>1, <1>3

LEMMA ExitKeeps ==
    ASSUME Parts, LinesOK, C!Exit
    PROVE  Parts' /\ LinesOK' /\ Known' = {} /\ agents' = {}
  <1>1. <<>> \in Seq(C!Line) OBVIOUS
  <1> QED BY <1>1 DEF C!Exit, C!Drains, Parts, Known, FilesOutliveWriters, LinesOK

\* The order of a finite set is a sequence of it.
LEMMA OrderOf ==
    ASSUME NEW S \in SUBSET SessionId, NEW q \in SetToSeqs(S)
    PROVE  q \in Seq(SessionId)
  <1>1. Cardinality(S) \in Nat BY SessionsFinite, FS_Subset, FS_CardinalityType
  <1>2. q \in [1..Cardinality(S) -> S] BY DEF SetToSeqs
  <1> QED BY <1>1, <1>2

LEMMA ShutdownKeeps ==
    ASSUME Parts, LinesOK, NEW q \in Seq(SessionId), C!Shutdown(q)
    PROVE  Parts' /\ LinesOK' /\ Known' \subseteq Known /\ agents' \subseteq agents
  <1>1. Parts' /\ Known' \subseteq Known /\ agents' \subseteq agents
    BY DEF C!Shutdown, C!Working, Parts, Known, FilesOutliveWriters
  <1> DEFINE goodbye == [kind |-> "goodbye", ids |-> {}]
             last == C!Closes(q) \o <<goodbye>>
  <1>2. C!Closes(q) \in Seq(C!Line)
    <2>1. Len(q) \in Nat /\ DOMAIN q = 1..Len(q) BY LenProperties
    <2>2. \A i \in 1..Len(q) : C!Says("close", q[i]) \in C!Line BY ElementOfSeq, SaysLine
    <2>3. C!Closes(q) \in [1..Len(q) -> C!Line] BY <2>1, <2>2 DEF C!Closes
    <2> QED BY <2>1, <2>3
  <1>3. <<goodbye>> \in Seq(C!Line)
    <2>1. goodbye \in C!Line BY DEF C!Line
    <2> QED BY <2>1
  <1>4. last \in Seq(C!Line) BY <1>2, <1>3, ConcatProperties
  <1>5. body \o last \in Seq(C!Line) /\ outbox \o last \in Seq(C!Line)
    BY <1>4, ConcatProperties DEF LinesOK
  <1>6. LinesOK' BY <1>5 DEF C!Shutdown, LinesOK
  <1> QED BY <1>1, <1>6

-----------------------------------------------------------------------------
(* What the relay sends: of all its methods only an accepted open opens. *)

Quiet == SentOK /\ \A m \in sent' : m.kind # "open"

LEMMA FailQuiet ==
    ASSUME NEW S, R!Fail(S)
    PROVE  Quiet
  BY DEF R!Fail, R!CloseLines, R!ToClient, R!ToEndpoint, R!Live, Quiet, SentOK, Kinds

LEMMA ApplyQuiet ==
    ASSUME NEW line \in C!Line, NEW g, Apply(line, g)
    PROVE  Quiet
  <1> USE DEF Quiet, SentOK, Kinds, R!Live
  <1>1. CASE R!Ignored BY <1>1 DEF R!Ignored
  <1>2. CASE R!AttachEndpoint(Laptop, line.ids, MaxSessions, {Codex})
    <2>1. line.ids \subseteq SessionId BY DEF C!Line
    <2> QED BY <1>2, <2>1 DEF R!AttachEndpoint, R!CloseLines, R!ToClient, R!ToEndpoint
  <1>3. CASE R!SayGoodbye(Laptop, g) BY <1>3 DEF R!SayGoodbye
  <1>4. ASSUME NEW s \in line.ids,
               \/ R!AckOpened(Laptop, s) \/ R!AckRefused(Laptop, s)
               \/ R!EndpointClose(Laptop, s) \/ R!EndpointLine(Laptop, s)
        PROVE  Quiet
    <2>1. CASE R!AckOpened(Laptop, s) \/ R!AckRefused(Laptop, s)
      BY <2>1 DEF R!AckOpened, R!AckRefused, R!Speaks, R!ToClient
    <2>2. CASE R!EndpointClose(Laptop, s)
      BY <2>2, FailQuiet DEF R!EndpointClose, R!Ignored
    <2>3. CASE R!EndpointLine(Laptop, s)
      BY <2>3 DEF R!EndpointLine, R!Speaks, R!ToClient, R!Ignored
    <2> QED BY <1>4, <2>1, <2>2, <2>3
  <1> QED BY <1>1, <1>2, <1>3, <1>4 DEF Apply

-----------------------------------------------------------------------------
(* The steps of the system. *)

\* An agent is only spawned by the handler of an open that is first read, or of a
\* clone that still holds its slot.
NoneTakenUp == \A s \in agents' \ agents : s \notin clones \ pending

LEMMA ReadsKeep ==
    ASSUME SystemInv, CompanionReads
    PROVE  SystemInv' /\ NoneTakenUp /\ NoneReturns
  <1> DEFINE s == Head(down).session
  <1>1. /\ Parts /\ LinesOK /\ down \in Seq(DownLine) /\ client \in [SessionId -> Place]
        /\ OpenedOnce /\ OpensAhead /\ IdsFresh /\ down # <<>> /\ client' = client
    BY DEF SystemInv, CompanionReads
  <1>2. Head(down) \in DownLine /\ Head(down) = down[1] /\ 1 \in DOMAIN down /\ s \in SessionId
    <2>1. Len(down) \in Nat \ {0} /\ DOMAIN down = 1..Len(down) BY <1>1, EmptySeq, LenProperties
    <2>2. Head(down) \in DownLine BY <1>1, HeadTailProperties
    <2> QED BY <2>1, <2>2 DEF DownLine
  <1>3. Fewer /\ (1 \in OpensOf(down, s) => OpensOf(down', s) = {})
    <2>1. CASE down' = Tail(down) BY <1>1, <1>2, <2>1, TailFewer
    <2>2. CASE down' = <<>>
      <3>1. DOMAIN <<>> = {} OBVIOUS
      <3> QED BY <2>2, <3>1, NoneFewer DEF OpensOf
    <2> QED BY <2>1, <2>2 DEF CompanionReads, LegDies
  <1>4. CASE UNCHANGED C!vars
    <2>1. Parts' /\ LinesOK' /\ Known' = Known /\ agents' = agents
      BY <1>1, <1>4 DEF C!vars, C!process, C!work, C!lines, Parts, LinesOK, Known, FilesOutliveWriters
    <2> QED BY <1>1, <1>3, <2>1, InvKept DEF NoneTakenUp
  <1>5. CASE C!CloseSession(s)
    <2>1. Parts' /\ LinesOK' /\ Known' \subseteq Known BY <1>1, <1>5, CloseKeeps
    <2>2. agents' = agents BY <1>5 DEF C!CloseSession
    <2> QED BY <1>1, <1>3, <2>1, <2>2, InvKept DEF NoneTakenUp
  <1>6. CASE Head(down).kind = "open" /\ C!OpenSession(s)
    <2>1. 1 \in OpensOf(down, s) BY <1>2, <1>6 DEF OpensOf
    <2>2. s \notin Known /\ client[s] # "idle" BY <1>1, <1>2, <2>1 DEF OpensAhead
    <2>3. Parts' /\ LinesOK' /\ Known' \subseteq Known \cup {s}
      BY <1>1, <1>2, <1>6, <2>2, OpenKeeps
    <2>4. OpensAhead' BY <1>1, <1>3, <2>1, <2>3 DEF OpensAhead, Fewer
    <2>5. IdsFresh' BY <1>1, <2>2, <2>3 DEF IdsFresh
    <2>6. NoneTakenUp
      <3>1. agents' \subseteq agents \cup {s}
        BY <1>6 DEF C!OpenSession, C!RefuseOpen, C!Spawn, C!BeginClone
      <3> QED BY <2>2, <3>1 DEF NoneTakenUp, Known
    <2>7. NoneReturns
      <3>1. \A p \in SessionId : OpensOf(down, p) = {} => OpensOf(down', p) = {} /\ p # s
        BY <1>3, <2>1 DEF Fewer
      <3> QED BY <1>1, <2>3, <3>1 DEF NoneReturns, Retired, OpensOf
    <2> QED BY <1>1, <1>3, <2>3, <2>4, <2>5, <2>6, <2>7 DEF SystemInv, Fewer
  <1> QED BY <1>4, <1>5, <1>6 DEF CompanionReads, C!Receive

LEMMA WorksKeep ==
    ASSUME SystemInv, CompanionWorks
    PROVE  SystemInv' /\ NoneTakenUp /\ NoneReturns
  <1>1. Parts /\ LinesOK /\ down \in Seq(DownLine) /\ OpenedOnce /\ client \in [SessionId -> Place]
        /\ client' = client
    BY DEF SystemInv, CompanionWorks
  <1>2. Fewer BY <1>1, SameFewer, NoneFewer DEF CompanionWorks, Handled, LegDies, gateway
  <1>3. Parts' /\ LinesOK' /\ Known' \subseteq Known /\ NoneTakenUp
    BY <1>1, CloneEndsKeeps, AgentKeeps DEF CompanionWorks, NoneTakenUp
  <1> QED BY <1>1, <1>2, <1>3, InvKept

LEMMA EpochsKeep ==
    ASSUME SystemInv,
           \/ Connects \/ Attaches \/ NetworkBreaks \/ EpochFails \/ GivesUp
           \/ ShutsDown \/ Quits \/ Crashes \/ CompanionStarts
    PROVE  SystemInv' /\ NoneTakenUp /\ NoneReturns
  <1>1. Parts /\ LinesOK /\ down \in Seq(DownLine) /\ OpenedOnce /\ client \in [SessionId -> Place]
    BY DEF SystemInv
  <1>2. client' = client
    BY DEF Connects, Attaches, NetworkBreaks, EpochFails, GivesUp, EpochEnds, ShutsDown, Quits,
       Crashes, CompanionExits, CompanionStarts
  <1>3. Fewer
    <2>1. down' = down \/ down' = <<>>
      BY DEF Connects, Attaches, NetworkBreaks, EpochFails, GivesUp, EpochEnds, ShutsDown, Quits,
         Crashes, CompanionExits, CompanionStarts, LegDies, gateway
    <2> QED BY <1>1, <2>1, SameFewer, NoneFewer
  <1>4. Parts' /\ LinesOK' /\ Known' \subseteq Known /\ agents' \subseteq agents
    <2>1. CASE C!Connect \/ C!Attach \/ C!Break \/ C!EpochEnds \/ C!Start
      BY <1>1, <2>1, EpochKeeps
    <2>2. CASE C!Exit BY <1>1, <2>2, ExitKeeps
    <2>3. CASE \E q \in SetToSeqs(served), r \in SetToSeqs(pending) : C!Shutdown(q \o r)
      <3>1. PICK q \in SetToSeqs(served), r \in SetToSeqs(pending) : C!Shutdown(q \o r) BY <2>3
      <3>2. served \in SUBSET SessionId /\ pending \in SUBSET SessionId
        BY <1>1 DEF Parts, Known
      <3>3. q \in Seq(SessionId) /\ r \in Seq(SessionId) BY <3>2, OrderOf
      <3>4. q \o r \in Seq(SessionId) BY <3>3, ConcatProperties
      <3> QED BY <1>1, <3>1, <3>4, ShutdownKeeps
    <2> QED
      BY <2>1, <2>2, <2>3 DEF Connects, Attaches, NetworkBreaks, EpochFails, GivesUp, EpochEnds,
         ShutsDown, Quits, Crashes, CompanionExits, CompanionStarts
  <1> QED BY <1>1, <1>2, <1>3, <1>4, InvKept DEF NoneTakenUp

\* The companion's own state, which the other steps leave alone.
AtWork == <<served, pending, clones, agents, temp>>

LEMMA AsideKeeps ==
    ASSUME SystemInv, UNCHANGED AtWork, UNCHANGED client, LinesOK', Fewer
    PROVE  SystemInv' /\ NoneTakenUp /\ NoneReturns
  <1>1. Parts' /\ Known' = Known /\ agents' = agents
    BY DEF SystemInv, AtWork, Parts, Known, FilesOutliveWriters
  <1> QED BY <1>1, InvKept DEF SystemInv, NoneTakenUp

LEMMA GatewayKeeps ==
    ASSUME SystemInv,
           \/ GatewayReads \/ GatewayReadsLate \/ RestIsLost
           \/ DeadLegCloses \/ LegIsCut \/ TimerFires \/ GatewayRestarts
    PROVE  SystemInv' /\ NoneTakenUp /\ NoneReturns
  <1>1. /\ Parts /\ LinesOK /\ down \in Seq(DownLine) /\ OpenedOnce
        /\ UNCHANGED AtWork /\ UNCHANGED client
    BY DEF SystemInv, GatewayReads, GatewayReadsLate, RestIsLost, DeadLegCloses, LegIsCut,
       LegCloses, TimerFires, GatewayRestarts, AtWork, companion
  <1>2. <<>> \in Seq(C!Line) OBVIOUS
  <1>3. CASE GatewayReads
    <2>1. Head(body) \in C!Line /\ Tail(body) \in Seq(C!Line)
      BY <1>1, <1>3, HeadTailProperties DEF GatewayReads, LinesOK
    <2>2. Quiet BY <1>3, <2>1, ApplyQuiet DEF GatewayReads
    <2>3. Fewer BY <1>1, <1>3, <2>2, QuietAdds DEF GatewayReads, Quiet
    <2>4. LinesOK' BY <1>1, <1>3, <2>1 DEF GatewayReads, LinesOK
    <2> QED BY <1>1, <2>3, <2>4, AsideKeeps
  <1>4. CASE GatewayReadsLate
    <2>1. Head(draining) \in C!Line /\ Tail(draining) \in Seq(C!Line)
      BY <1>1, <1>4, HeadTailProperties DEF GatewayReadsLate, LinesOK
    <2>2. Quiet BY <1>4, <2>1, ApplyQuiet DEF GatewayReadsLate
    <2>3. Fewer BY <1>1, <1>4, <2>2, QuietAdds DEF GatewayReadsLate, Quiet
    <2>4. LinesOK' BY <1>1, <1>4, <2>1 DEF GatewayReadsLate, LinesOK
    <2> QED BY <1>1, <2>3, <2>4, AsideKeeps
  <1>5. CASE RestIsLost
    <2>1. LinesOK' BY <1>1, <1>2, <1>5 DEF RestIsLost, LinesOK
    <2>2. Fewer BY <1>1, <1>5, SameFewer DEF RestIsLost, gateway
    <2> QED BY <1>1, <2>1, <2>2, AsideKeeps
  <1>6. CASE DeadLegCloses \/ LegIsCut
    <2>1. LinesOK' BY <1>1, <1>6 DEF DeadLegCloses, LegIsCut, LegCloses, companion, LinesOK
    <2>2. Fewer BY <1>1, <1>6, SameFewer DEF DeadLegCloses, LegIsCut, LegCloses
    <2> QED BY <1>1, <2>1, <2>2, AsideKeeps
  <1>7. CASE TimerFires
    <2>1. LinesOK' BY <1>1, <1>7 DEF TimerFires, companion, LinesOK
    <2>2. Quiet BY <1>7, FailQuiet DEF TimerFires, R!TimerFires, R!StrayFires
    <2>3. Fewer BY <1>1, <1>7, <2>2, QuietAdds DEF TimerFires, Quiet
    <2> QED BY <1>1, <2>1, <2>3, AsideKeeps
  <1>8. CASE GatewayRestarts
    <2>1. LinesOK' BY <1>1, <1>2, <1>8 DEF GatewayRestarts, LinesOK
    <2>2. Fewer BY <1>8, NoneFewer DEF GatewayRestarts
    <2> QED BY <1>1, <2>1, <2>2, AsideKeeps
  <1> QED BY <1>3, <1>4, <1>5, <1>6, <1>7, <1>8

LEMMA ClientsKeep ==
    ASSUME SystemInv, NEW s \in SessionId, ClientOpens(s) \/ ClientSpeaks(s) \/ ClientEnds(s)
    PROVE  SystemInv' /\ NoneTakenUp /\ NoneReturns
  <1>1. /\ Parts /\ LinesOK /\ down \in Seq(DownLine) /\ OpenedOnce /\ OpensAhead /\ IdsFresh
        /\ client \in [SessionId -> Place]
        /\ UNCHANGED companion /\ Relayed
    BY DEF SystemInv, ClientOpens, ClientSpeaks, ClientEnds
  <1>2. Parts' /\ LinesOK' /\ Known' = Known /\ agents' = agents
    BY <1>1 DEF companion, Parts, LinesOK, Known, FilesOutliveWriters
  <1>3. /\ client' \in [SessionId -> Place]
        /\ \A p \in SessionId : client[p] # "idle" => client'[p] # "idle"
    BY <1>1 DEF ClientOpens, ClientSpeaks, ClientEnds, Place
  <1>4. ASSUME Quiet PROVE SystemInv' /\ NoneTakenUp /\ NoneReturns
    <2>1. Fewer BY <1>1, <1>4, QuietAdds DEF Quiet
    <2> QED BY <1>2, <1>3, <2>1, InvKept DEF NoneTakenUp
  <1>5. CASE ClientSpeaks(s)
    <2>1. Quiet
      BY <1>5 DEF ClientSpeaks, R!ClientLine, R!Ignored, R!ToEndpoint, Quiet, SentOK, Kinds
    <2> QED BY <1>4, <2>1
  <1>6. CASE ClientEnds(s)
    <2>1. Quiet
      <3>1. CASE R!CloseSession(s) BY <3>1, FailQuiet DEF R!CloseSession
      <3>2. CASE R!DetachClient(s) BY <3>2 DEF R!DetachClient, Quiet, SentOK
      <3> QED BY <1>6, <3>1, <3>2 DEF ClientEnds
    <2> QED BY <1>4, <2>1
  <1>7. CASE R!RefuseOpen(Laptop, s, Codex, Ann)
    <2>1. Quiet BY <1>7 DEF R!RefuseOpen, R!ToClient, Quiet, SentOK, Kinds
    <2> QED BY <1>4, <2>1
  <1>8. CASE /\ client[s] = "idle"
             /\ R!AcceptOpen(Laptop, s, Run, Codex, Ann)
             /\ client' = [client EXCEPT ![s] = "open"]
    <2>1. sent' = {[to |-> Laptop, kind |-> "open", session |-> s]}
      BY <1>8 DEF R!AcceptOpen, R!ToEndpoint
    <2>2. SentOK BY <2>1 DEF SentOK, Kinds
    <2>3. PICK q \in Seq(DownLine) :
              /\ down' = down \o q
              /\ \A i \in DOMAIN q : q[i] \in LinesDown
              /\ \A i, j \in DOMAIN q : q[i] = q[j] => i = j
      BY <1>1, <2>2, RelayedAdds
    <2>4. \A i \in DOMAIN q : q[i] = [kind |-> "open", session |-> s]
      BY <2>1, <2>3 DEF LinesDown
    <2>5. down' \in Seq(DownLine) BY <1>1, <2>3, ConcatProperties
    <2>6. OpensOf(down, s) = {} /\ s \notin Known BY <1>1, <1>8 DEF OpensAhead, IdsFresh
    <2>7. \A p \in SessionId : p # s => OpensOf(q, p) = {} BY <2>4 DEF OpensOf
    <2>8. ASSUME NEW p \in SessionId, NEW i \in OpensOf(down', p)
          PROVE  \/ p # s /\ i \in OpensOf(down, p)
                 \/ p = s /\ i - Len(down) \in OpensOf(q, s) /\ i \in Nat
      BY <1>1, <2>3, <2>6, <2>7, <2>8, AddedOpens
    <2>9. \A i, j \in OpensOf(q, s) : i = j BY <2>3, <2>4 DEF OpensOf
    <2>10. OpenedOnce'
      <3>1. ASSUME NEW p \in SessionId, NEW i \in OpensOf(down', p), NEW j \in OpensOf(down', p)
            PROVE  i = j
        <4>1. CASE p # s BY <1>1, <2>8, <4>1 DEF OpenedOnce
        <4>2. CASE p = s
          <5>1. i - Len(down) = j - Len(down) BY <2>8, <2>9, <4>2
          <5>2. i \in Nat /\ j \in Nat /\ Len(down) \in Nat BY <1>1, <2>8, <4>2, LenProperties
          <5> QED BY <5>1, <5>2
        <4> QED BY <4>1, <4>2
      <3> QED BY <3>1 DEF OpenedOnce
    <2>11. OpensAhead'
      BY <1>1, <1>2, <1>3, <1>8, <2>6, <2>8 DEF OpensAhead
    <2>12. IdsFresh' BY <1>1, <1>2, <1>3 DEF IdsFresh
    <2>13. NoneReturns
      <3>1. \A p \in SessionId : p # s /\ OpensOf(down, p) = {} => OpensOf(down', p) = {} BY <2>8
      <3> QED BY <1>2, <1>3, <1>8, <3>1 DEF NoneReturns, Retired, OpensOf
    <2> QED BY <1>2, <1>3, <2>5, <2>10, <2>11, <2>12, <2>13 DEF SystemInv, NoneTakenUp
  <1> QED BY <1>5, <1>6, <1>7, <1>8 DEF ClientOpens

-----------------------------------------------------------------------------
LEMMA InitHolds == Init => SystemInv
  <1> SUFFICES ASSUME Init PROVE SystemInv OBVIOUS
  <1>1. Parts /\ IdsFresh BY DEF Init, C!Init, Parts, Known, IdsFresh, FilesOutliveWriters
  <1>2. LinesOK /\ down \in Seq(DownLine) BY DEF Init, C!Init, LinesOK
  <1>3. \A s \in SessionId : OpensOf(down, s) = {}
    <2>1. DOMAIN <<>> = {} OBVIOUS
    <2> QED BY <2>1 DEF Init, OpensOf
  <1> QED BY <1>1, <1>2, <1>3 DEF Init, SystemInv, OpenedOnce, OpensAhead, Place

LEMMA NextKeeps == SystemInv /\ [Next]_vars => SystemInv' /\ NoneTakenUp /\ NoneReturns
  <1> SUFFICES ASSUME SystemInv, [Next]_vars PROVE SystemInv' /\ NoneTakenUp /\ NoneReturns OBVIOUS
  <1>1. CASE UNCHANGED vars
    <2>1. UNCHANGED AtWork /\ UNCHANGED client /\ LinesOK'
      BY <1>1 DEF vars, companion, AtWork, SystemInv, LinesOK
    <2>2. Fewer BY <1>1, SameFewer DEF vars, gateway, SystemInv
    <2> QED BY <2>1, <2>2, AsideKeeps
  <1>2. CASE CompanionReads BY <1>2, ReadsKeep
  <1>3. CASE CompanionWorks BY <1>3, WorksKeep
  <1>4. CASE \/ Connects \/ Attaches \/ NetworkBreaks \/ EpochFails \/ GivesUp
             \/ ShutsDown \/ Quits \/ Crashes \/ CompanionStarts
    BY <1>4, EpochsKeep
  <1>5. CASE \/ GatewayReads \/ GatewayReadsLate \/ RestIsLost
             \/ DeadLegCloses \/ LegIsCut \/ TimerFires \/ GatewayRestarts
    BY <1>5, GatewayKeeps
  <1>6. CASE \E s \in SessionId : ClientOpens(s) \/ ClientSpeaks(s) \/ ClientEnds(s)
    BY <1>6, ClientsKeep
  <1> QED BY <1>1, <1>2, <1>3, <1>4, <1>5, <1>6 DEF Next

LEMMA SystemInvariant == Spec => []SystemInv
  <1>1. SystemInv /\ [Next]_vars => SystemInv' BY NextKeeps
  <1> QED BY <1>1, InitHolds, PTL DEF Spec

\* What openSession, endSession and shutdown leave on disk: the workspace and the
\* home of a session are there exactly while its git or its agent may write to
\* them, whatever was lost or late on the way to the companion.
THEOREM SystemFiles == Spec => []FilesOutliveWriters
  <1>1. SystemInv => FilesOutliveWriters BY DEF SystemInv, Parts
  <1> QED BY <1>1, SystemInvariant, PTL

\* The check after the clone in openSession: no agent is spawned for an open that
\* was cancelled while git ran, by that handler or by a later one of the same id.
THEOREM SystemCancels == Spec => CancelledNeverSpawn
  <1>1. SystemInv /\ [Next]_vars => [\A s \in agents' \ agents : s \notin clones \ pending]_vars
    BY NextKeeps DEF NoneTakenUp
  <1> QED BY <1>1, SystemInvariant, PTL DEF Spec, CancelledNeverSpawn

\* openSession compares an id with those it holds and not with those it has held.  The
\* one that remote.ts drew for a prompt is still taken up once: when the git and the
\* agent of it are gone, through crashes and restarts of either end, nothing brings it
\* back.
THEOREM SystemRetires == Spec => [][NoneReturns]_vars
  <1>1. SystemInv /\ [Next]_vars => [NoneReturns]_vars BY NextKeeps
  <1> QED BY <1>1, SystemInvariant, PTL DEF Spec

-----------------------------------------------------------------------------
\* Where in a leg's lines session s is closed, and in a body's its end is told.
ClosesOf(q, s) == {i \in DOMAIN q : q[i].kind = "close" /\ q[i].session = s}
EndsOf(q, s)   == {i \in DOMAIN q : q[i].kind \in {"refused", "close"} /\ s \in q[i].ids}

\* The relay's two maps name the same sessions, which are all the laptop's.
Pairs == /\ sessions \in [SessionId -> R!Session \cup {None}]
         /\ endpoints \in [{Laptop} -> R!Attachment \cup {None}]
         /\ attachments \in Nat
         /\ R!Held(Laptop) = R!Live

-----------------------------------------------------------------------------
(* What the relay makes of its sessions. *)

CloseDown(s) == [to |-> Laptop, kind |-> "close", session |-> s]

LEMMA LiveHere ==
    ASSUME Pairs
    PROVE  /\ R!Live \subseteq SessionId /\ R!On(Laptop) = R!Live
           /\ \A s \in R!Live : sessions[s] \in R!Session /\ sessions[s].endpoint = Laptop
  BY DEF Pairs, R!Live, R!On, R!Session

LEMMA HeldIs ==
    ASSUME Pairs
    PROVE  IF Laptop \in R!Attached
             THEN endpoints[Laptop] \in R!Attachment /\ endpoints[Laptop].sessions = R!Live
             ELSE endpoints[Laptop] = None /\ R!Live = {}
  BY DEF Pairs, R!Held, R!Attached

LEMMA NoneApart == None \notin R!Attachment /\ None \notin R!Session
  BY SystemAssumption DEF R!RelayAssumption

LEMMA FreedKeeps ==
    ASSUME Pairs, NEW S \in SUBSET SessionId,
           sessions' = R!Ended(S), endpoints' = R!Freed(S), attachments' = attachments
    PROVE  Pairs' /\ R!Live' = R!Live \ S
  <1>1. \A s \in SessionId : sessions'[s] = IF s \in S THEN None ELSE sessions[s] BY DEF R!Ended
  <1>2. R!Live' = R!Live \ S BY <1>1 DEF R!Live
  <1>3. sessions' \in [SessionId -> R!Session \cup {None}] BY DEF Pairs, R!Ended
  <1>4. CASE Laptop \in R!Attached
    <2>1. endpoints[Laptop] \in R!Attachment /\ endpoints[Laptop].sessions = R!Live
      BY <1>4, HeldIs
    <2>2. endpoints' = [e \in {Laptop} |-> [endpoints[e] EXCEPT !.sessions = @ \ (S \cap R!On(e))]]
      BY <1>4 DEF R!Freed
    <2>3. endpoints'[Laptop] = [endpoints[Laptop] EXCEPT !.sessions = @ \ (S \cap R!Live)]
      BY <2>2, LiveHere
    <2>4. /\ endpoints'[Laptop] \in R!Attachment
          /\ endpoints'[Laptop].sessions = R!Live \ S
      BY <2>1, <2>3 DEF R!Attachment
    <2>5. endpoints' \in [{Laptop} -> R!Attachment \cup {None}] BY <2>2, <2>4
    <2>6. R!Held(Laptop)' = R!Live' BY <1>2, <2>4, NoneApart DEF R!Held
    <2> QED BY <1>2, <1>3, <2>5, <2>6 DEF Pairs
  <1>5. CASE Laptop \notin R!Attached
    <2>1. endpoints' = [e \in {Laptop} |-> None] /\ R!Live = {} BY <1>5, HeldIs DEF R!Freed
    <2>2. R!Held(Laptop)' = R!Live' BY <1>2, <2>1 DEF R!Held
    <2>3. endpoints' \in [{Laptop} -> R!Attachment \cup {None}] BY <2>1
    <2> QED BY <1>2, <1>3, <2>3, <2>2 DEF Pairs
  <1> QED BY <1>2, <1>4, <1>5

LEMMA FailKeeps ==
    ASSUME Pairs, NEW S \in SUBSET SessionId, R!Fail(S), attachments' = attachments
    PROVE  /\ Pairs' /\ R!Live' = R!Live \ S
           /\ \A s \in S \cap R!Live : CloseDown(s) \in sent'
           /\ \A m \in sent' : m.kind = "close" /\ m.session \in S \cap R!Live
  <1>1. Pairs' /\ R!Live' = R!Live \ S BY FreedKeeps DEF R!Fail
  <1>2. sent' = R!CloseLines(S) BY DEF R!Fail
  <1>3. \A s \in S \cap R!Live : CloseDown(s) \in sent'
    BY <1>2, LiveHere DEF R!CloseLines, R!ToEndpoint, CloseDown
  <1>4. \A m \in sent' : m.kind = "close" /\ m.session \in S \cap R!Live
    BY <1>2 DEF R!CloseLines, R!ToEndpoint, R!ToClient
  <1> QED BY <1>1, <1>3, <1>4

LEMMA TimersKeep ==
    ASSUME Pairs, NEW S, NEW l \in R!Leg,
           sessions' = R!Arm(S, l) \/ sessions' = R!Disarm(S, l)
    PROVE  /\ sessions' \in [SessionId -> R!Session \cup {None}]
           /\ R!Live' = R!Live
  <1>1. ASSUME NEW s \in SessionId
        PROVE  /\ sessions'[s] \in R!Session \cup {None}
               /\ sessions'[s] = None <=> sessions[s] = None
    <2>1. CASE s \in S \cap R!Live
      <3>1. sessions[s] \in R!Session BY <2>1, LiveHere
      <3>2. \/ sessions'[s] = [sessions[s] EXCEPT !.timers = @ \cup {l}]
            \/ sessions'[s] = [sessions[s] EXCEPT !.timers = @ \ {l}]
        BY <2>1 DEF R!Arm, R!Disarm
      <3>3. sessions'[s] \in R!Session BY <3>1, <3>2 DEF R!Session
      <3> QED BY <3>1, <3>3, NoneApart
    <2>2. CASE s \notin S \cap R!Live
      <3>1. sessions'[s] = sessions[s] BY <2>2 DEF R!Arm, R!Disarm
      <3> QED BY <3>1 DEF Pairs
    <2> QED BY <2>1, <2>2
  <1>2. sessions' = [s \in SessionId |-> sessions'[s]] BY DEF R!Arm, R!Disarm
  <1>3. R!Live' = R!Live BY <1>1 DEF R!Live
  <1> QED BY <1>1, <1>2, <1>3

\* A hello keeps what it declares of the relay's sessions, and the companion is
\* told of every other id on either side.
LEMMA HelloKeeps ==
    ASSUME Pairs, NEW ids \in SUBSET SessionId,
           R!AttachEndpoint(Laptop, ids, MaxSessions, {Codex})
    PROVE  /\ Pairs' /\ R!Live' = R!Live \cap ids
           /\ \A s \in (R!Live \ ids) \cup (ids \ R!Live) : CloseDown(s) \in sent'
           /\ \A m \in sent' : /\ m.kind = "close"
                               /\ m.session \in (R!Live \ ids) \cup (ids \ R!Live)
  <1> DEFINE dropped == R!Live \ ids
             kept == R!Disarm(R!Live \cap ids, "endpointResume")
  <1>1. sessions' = [s \in SessionId |-> IF s \in dropped THEN None ELSE kept[s]]
    BY DEF R!AttachEndpoint, Pairs
  <1>2. ASSUME NEW s \in SessionId
        PROVE  /\ kept[s] \in R!Session \cup {None}
               /\ kept[s] = None <=> sessions[s] = None
    <2>1. CASE s \in R!Live \cap ids
      <3>1. sessions[s] \in R!Session BY <2>1, LiveHere
      <3>2. kept[s] = [sessions[s] EXCEPT !.timers = @ \ {"endpointResume"}]
        BY <2>1 DEF R!Disarm
      <3>3. kept[s] \in R!Session BY <3>1, <3>2 DEF R!Session
      <3> QED BY <3>1, <3>3, NoneApart
    <2>2. CASE s \notin R!Live \cap ids
      <3>1. kept[s] = sessions[s] BY <2>2 DEF R!Disarm
      <3> QED BY <3>1 DEF Pairs
    <2> QED BY <2>1, <2>2
  <1> HIDE DEF kept
  <1>3. sessions' \in [SessionId -> R!Session \cup {None}] BY <1>1, <1>2
  <1>4. R!Live' = R!Live \cap ids BY <1>1, <1>2 DEF R!Live
  <1>5. endpoints' = [R!Freed(dropped) EXCEPT ![Laptop] =
              [owner |-> Ann, sessions |-> R!Live \cap ids, online |-> TRUE, quit |-> FALSE,
               generation |-> attachments + 1, maxSessions |-> MaxSessions, agents |-> {Codex}]]
    BY DEF R!AttachEndpoint, Pairs
  <1>6. endpoints' = [e \in {Laptop} |->
              [owner |-> Ann, sessions |-> R!Live \cap ids, online |-> TRUE, quit |-> FALSE,
               generation |-> attachments + 1, maxSessions |-> MaxSessions, agents |-> {Codex}]]
    BY <1>5 DEF R!Freed
  <1>7. MaxSessions \in Nat BY SystemAssumption DEF SystemAssumption, C!CompanionAssumption
  <1>8. endpoints'[Laptop] \in R!Attachment /\ endpoints'[Laptop].sessions = R!Live \cap ids
    <2>1. attachments + 1 \in Nat BY DEF Pairs
    <2> QED BY <1>6, <1>7, <2>1 DEF R!Attachment
  <1>9. Pairs'
    <2>1. endpoints' \in [{Laptop} -> R!Attachment \cup {None}] BY <1>6, <1>8
    <2>2. R!Held(Laptop)' = R!Live' BY <1>4, <1>8, NoneApart DEF R!Held
    <2>3. attachments' \in Nat BY DEF Pairs, R!AttachEndpoint
    <2> QED BY <1>3, <2>1, <2>2, <2>3 DEF Pairs
  <1>10. sent' = R!CloseLines(dropped) \cup {R!ToEndpoint(Laptop, "close", s) : s \in ids \ R!Live}
    BY DEF R!AttachEndpoint, Pairs
  <1>11. \A s \in dropped : sessions[s].endpoint = Laptop BY LiveHere
  <1>12. \A s \in dropped \cup (ids \ R!Live) : CloseDown(s) \in sent'
    BY <1>10, <1>11 DEF R!CloseLines, R!ToEndpoint, CloseDown
  <1>13. \A m \in sent' : m.kind = "close" /\ m.session \in dropped \cup (ids \ R!Live)
    BY <1>10 DEF R!CloseLines, R!ToEndpoint, R!ToClient
  <1> QED BY <1>4, <1>9, <1>12, <1>13

LEMMA OnlineKeeps ==
    ASSUME Pairs, Laptop \in R!Attached, NEW b \in BOOLEAN,
           \/ endpoints' = [endpoints EXCEPT ![Laptop].online = b]
           \/ endpoints' = [endpoints EXCEPT ![Laptop].quit = b],
           sessions' \in [SessionId -> R!Session \cup {None}], R!Live' = R!Live,
           attachments' = attachments
    PROVE  Pairs'
  <1>1. endpoints[Laptop] \in R!Attachment /\ endpoints[Laptop].sessions = R!Live BY HeldIs
  <1>2. \/ endpoints'[Laptop] = [endpoints[Laptop] EXCEPT !.online = b]
        \/ endpoints'[Laptop] = [endpoints[Laptop] EXCEPT !.quit = b]
    BY DEF Pairs
  <1>3. endpoints'[Laptop] \in R!Attachment /\ endpoints'[Laptop].sessions = R!Live
    BY <1>1, <1>2 DEF R!Attachment
  <1>4. endpoints' \in [{Laptop} -> R!Attachment \cup {None}] BY <1>3 DEF Pairs
  <1>5. R!Held(Laptop)' = R!Live' BY <1>3, NoneApart DEF R!Held
  <1> QED BY <1>4, <1>5 DEF Pairs

LEMMA AcceptKeeps ==
    ASSUME Pairs, NEW s \in SessionId, R!AcceptOpen(Laptop, s, Run, Codex, Ann)
    PROVE  Pairs' /\ R!Live' = R!Live \cup {s}
  <1> DEFINE is == [run |-> Run, endpoint |-> Laptop, owner |-> Ann, timers |-> {}]
  <1>1. is \in R!Session BY DEF R!Session
  <1>2. sessions' = [sessions EXCEPT ![s] = is] BY DEF R!AcceptOpen
  <1>3. sessions' \in [SessionId -> R!Session \cup {None}] BY <1>1, <1>2 DEF Pairs
  <1>4. is # None BY <1>1, NoneApart
  <1> HIDE DEF is
  <1>5. R!Live' = R!Live \cup {s} BY <1>2, <1>4 DEF R!Live, Pairs
  <1>6. endpoints[Laptop] \in R!Attachment /\ endpoints[Laptop].sessions = R!Live
    BY HeldIs DEF R!AcceptOpen, R!Accepts
  <1>7. endpoints'[Laptop] = [endpoints[Laptop] EXCEPT !.sessions = @ \cup {s}]
    BY DEF R!AcceptOpen, Pairs
  <1>8. endpoints'[Laptop] \in R!Attachment /\ endpoints'[Laptop].sessions = R!Live \cup {s}
    BY <1>6, <1>7 DEF R!Attachment
  <1>9. endpoints' \in [{Laptop} -> R!Attachment \cup {None}] BY <1>8 DEF Pairs, R!AcceptOpen
  <1>10. R!Held(Laptop)' = R!Live' BY <1>5, <1>8, NoneApart DEF R!Held
  <1>11. attachments' \in Nat BY DEF Pairs, R!AcceptOpen
  <1> QED BY <1>3, <1>5, <1>9, <1>10, <1>11 DEF Pairs

-----------------------------------------------------------------------------
(* The lines between the two ends. *)

\* What a line of the companion's stands for: ids that were asked for; of a refusal,
\* one that the companion is not and will not be at work on.  A refusal or a close
\* names one session.
Sound(line) ==
    /\ \A s \in line.ids : client[s] # "idle"
    /\ line.kind = "refused" => \A s \in line.ids : s \notin C!Working /\ OpensOf(down, s) = {}
    /\ line.kind \in {"refused", "close"} => \E s \in SessionId : line.ids = {s}
Unsent(q) == \A i \in DOMAIN q : Sound(q[i]) /\ q[i].kind # "hello"
Posted(q) == \A i \in DOMAIN q : Sound(q[i]) /\ (q[i].kind = "hello" => i = 1)
Late(q)   == \A i \in DOMAIN q : Sound(q[i])
SoundLines == Unsent(outbox) /\ Posted(body) /\ Late(draining)

\* What a line of the relay's stands for: a session that is closed is not live again,
\* and one that is opened is live unless its close follows.
LiveAsked  == \A s \in R!Live : client[s] # "idle"
ClosedGone == \A s \in SessionId :
    ClosesOf(down, s) # {} => s \notin R!Live /\ client[s] # "idle"
Told == leg = "companion" =>
    \A s \in SessionId : \A i \in OpensOf(down, s) :
        s \in R!Live \/ \E j \in ClosesOf(down, s) : i < j

\* The companion's own leg is registered by an epoch of its.
Legs == leg = "companion" => link \in {"connecting", "attached"}

\* What the relay keeps once it has read the hello, if it still has to.
Declares == body # <<>> /\ body[1].kind = "hello"
Kept(s)  == s \in R!Live /\ (Declares => s \in body[1].ids)

\* While both ends have the connection: what the relay keeps the companion works on, or
\* has yet to read of, or has said it ended; and what the companion works on the relay
\* has, or has said it closed, or will close when it reads the hello.
Joined == link = "attached" /\ leg = "companion" /\ ~shuttingDown =>
    \A s \in SessionId :
      /\ Kept(s) => s \in C!Working \/ OpensOf(down, s) # {} \/ EndsOf(body, s) # {}
      /\ s \in C!Working =>
           s \in R!Live \/ ClosesOf(down, s) # {} \/ (Declares /\ s \in body[1].ids)

AgreeInv == /\ SystemInv /\ Pairs /\ SoundLines
            /\ LiveAsked /\ ClosedGone /\ Told /\ Legs /\ Joined

LEMMA Agrees == AgreeInv => Agreement
  <1> SUFFICES ASSUME AgreeInv, link = "attached", leg = "companion", body = <<>>, down = <<>>,
                      ~shuttingDown
               PROVE  R!Held(Laptop) = C!Working
    BY DEF Agreement
  <1>1. DOMAIN <<>> = {} OBVIOUS
  <1>2. \A s : OpensOf(down, s) = {} /\ ClosesOf(down, s) = {} /\ EndsOf(body, s) = {}
    BY <1>1 DEF OpensOf, ClosesOf, EndsOf
  <1>3. ~Declares BY DEF Declares
  <1>4. \A s \in SessionId : s \in R!Live <=> s \in C!Working
    BY <1>2, <1>3 DEF AgreeInv, Joined, Kept
  <1>5. R!Live \subseteq SessionId /\ C!Working \subseteq SessionId
    BY LiveHere DEF AgreeInv, SystemInv, Parts, Known, C!Working
  <1>6. R!Held(Laptop) = R!Live BY DEF AgreeInv, Pairs
  <1> QED BY <1>4, <1>5, <1>6

LEMMA Placed ==
    ASSUME NEW T, NEW p \in Seq(T), NEW q \in Seq(T)
    PROVE  /\ Len(p) \in Nat
           /\ \A i \in DOMAIN p : /\ i \in DOMAIN (p \o q) /\ (p \o q)[i] = p[i]
                                  /\ i \in Nat /\ i <= Len(p)
           /\ \A i \in DOMAIN q : /\ i \in Nat \ {0} /\ Len(p) + i \in DOMAIN (p \o q)
                                  /\ (p \o q)[Len(p) + i] = q[i]
           /\ \A i \in DOMAIN (p \o q) :
                 \/ i \in DOMAIN p /\ (p \o q)[i] = p[i]
                 \/ \E j \in DOMAIN q : i = Len(p) + j /\ (p \o q)[i] = q[j]
  <1>1. /\ Len(p) \in Nat /\ Len(q) \in Nat
        /\ DOMAIN p = 1..Len(p) /\ DOMAIN q = 1..Len(q)
        /\ DOMAIN (p \o q) = 1..Len(p) + Len(q)
    BY LenProperties, ConcatProperties
  <1>2. \A i \in 1..Len(p) + Len(q) : (p \o q)[i] = IF i <= Len(p) THEN p[i] ELSE q[i - Len(p)]
    BY <1>1, ConcatProperties
  <1>3. \A i \in DOMAIN (p \o q) : i > Len(p) => i - Len(p) \in DOMAIN q /\ i = Len(p) + (i - Len(p))
    BY <1>1
  <1> QED BY <1>1, <1>2, <1>3

LEMMA Shifted ==
    ASSUME NEW T, NEW q \in Seq(T), q # <<>>
    PROVE  /\ Tail(q) \in Seq(T) /\ 1 \in DOMAIN q /\ Head(q) = q[1] /\ q[1] \in T
           /\ \A i \in DOMAIN Tail(q) : i \in Nat \ {0} /\ i + 1 \in DOMAIN q /\ Tail(q)[i] = q[i + 1]
           /\ \A i \in DOMAIN q : i # 1 => /\ i - 1 \in DOMAIN Tail(q) /\ Tail(q)[i - 1] = q[i]
                                           /\ i \in Nat
  <1>1. Len(q) \in Nat \ {0} /\ DOMAIN q = 1..Len(q) BY EmptySeq, LenProperties
  <1>2. Tail(q) \in Seq(T) /\ DOMAIN Tail(q) = 1..Len(q) - 1
    BY <1>1, HeadTailProperties, LenProperties
  <1>3. \A i \in 1..Len(q) - 1 : Tail(q)[i] = q[i + 1] BY <1>1
  <1> QED BY <1>1, <1>2, <1>3, HeadTailProperties

LEMMA Appended ==
    ASSUME NEW T, NEW q \in Seq(T), NEW l \in T
    PROVE  /\ Append(q, l) \in Seq(T) /\ Append(q, l) # <<>>
           /\ \A i \in DOMAIN q : i \in DOMAIN Append(q, l) /\ Append(q, l)[i] = q[i]
           /\ \E i \in DOMAIN Append(q, l) : Append(q, l)[i] = l
           /\ \A i \in DOMAIN Append(q, l) : \/ i \in DOMAIN q /\ Append(q, l)[i] = q[i]
                                             \/ Append(q, l)[i] = l
           /\ Append(q, l)[1] = IF q = <<>> THEN l ELSE q[1]
  <1>1. Len(q) \in Nat /\ DOMAIN q = 1..Len(q) /\ (q = <<>> <=> Len(q) = 0)
    BY LenProperties, EmptySeq
  <1>2. /\ Append(q, l) \in Seq(T) /\ Append(q, l) # <<>>
        /\ Len(Append(q, l)) = Len(q) + 1
        /\ \A i \in 1..Len(q) : Append(q, l)[i] = q[i]
        /\ Append(q, l)[Len(q) + 1] = l
    BY AppendProperties
  <1>3. DOMAIN Append(q, l) = 1..Len(q) + 1 BY <1>2, LenProperties
  <1> QED BY <1>1, <1>2, <1>3

\* An order of a finite set has every member of it.
LEMMA OrderHasAll ==
    ASSUME NEW S, IsFiniteSet(S), NEW q \in SetToSeqs(S), NEW l \in S
    PROVE  \E i \in DOMAIN q : q[i] = l
  <1> DEFINE D == 1..Cardinality(S)
  <1>1. Cardinality(S) \in Nat BY FS_CardinalityType
  <1>2. q \in [D -> S] /\ \A i, j \in D : q[i] = q[j] => i = j BY DEF SetToSeqs
  <1>3. q \in Injection(D, S) BY <1>2, Fun_IsInj
  <1>4. Cardinality(D) = Cardinality(S) BY <1>1, FS_Interval
  <1>5. q \in Surjection(D, S) BY <1>3, <1>4, FS_Injection
  <1>6. \A m \in S : \E i \in D : q[i] = m BY <1>5 DEF Surjection
  <1> QED BY <1>2, <1>6

LEMMA RelayedAll ==
    ASSUME Relayed, SentOK, down \in Seq(DownLine)
    PROVE  \E q \in Seq(DownLine) :
               /\ down' = down \o q
               /\ \A i \in DOMAIN q : q[i] \in LinesDown
               /\ leg = "companion" => \A l \in LinesDown : \E i \in DOMAIN q : q[i] = l
  <1>1. CASE leg = "companion"
    <2>1. PICK q \in SetToSeqs(LinesDown) : down' = down \o q BY <1>1 DEF Relayed
    <2>2. LinesDown \subseteq DownLine BY DEF LinesDown, SentOK, DownLine
    <2>3. IsFiniteSet(LinesDown) /\ Cardinality(LinesDown) \in Nat
      BY <2>2, DownLineFinite, FS_Subset, FS_CardinalityType
    <2>4. q \in [1..Cardinality(LinesDown) -> LinesDown] BY <2>1 DEF SetToSeqs
    <2>5. q \in Seq(DownLine) BY <2>2, <2>3, <2>4
    <2> QED BY <2>1, <2>3, <2>4, <2>5, OrderHasAll
  <1>2. CASE leg # "companion" BY <1>2, RelayedAdds
  <1> QED BY <1>1, <1>2

OpenDown(s) == [to |-> Laptop, kind |-> "open", session |-> s]

\* What the leg carries after a step of the relay.
LEMMA LegCarries ==
    ASSUME Relayed, SentOK, down \in Seq(DownLine), NEW s \in SessionId
    PROVE  /\ OpensOf(down, s) \subseteq OpensOf(down', s)
           /\ ClosesOf(down, s) \subseteq ClosesOf(down', s)
           /\ (\A m \in sent' : m.kind = "open" => m.session # s) =>
                OpensOf(down', s) = OpensOf(down, s)
           /\ (\A m \in sent' : m.kind = "close" => m.session # s) =>
                ClosesOf(down', s) = ClosesOf(down, s)
           /\ leg = "companion" /\ CloseDown(s) \in sent' =>
                \E j \in ClosesOf(down', s) : \A i \in OpensOf(down, s) : i < j
           /\ leg = "companion" /\ OpenDown(s) \in sent' => OpensOf(down', s) # {}
  <1>1. PICK q \in Seq(DownLine) :
               /\ down' = down \o q
               /\ \A i \in DOMAIN q : q[i] \in LinesDown
               /\ leg = "companion" => \A l \in LinesDown : \E i \in DOMAIN q : q[i] = l
    BY RelayedAll
  <1>2. /\ Len(down) \in Nat
        /\ \A i \in DOMAIN down : /\ i \in DOMAIN down' /\ down'[i] = down[i]
                                  /\ i \in Nat /\ i <= Len(down)
        /\ \A i \in DOMAIN q : /\ i \in Nat \ {0} /\ Len(down) + i \in DOMAIN down'
                               /\ down'[Len(down) + i] = q[i]
        /\ \A i \in DOMAIN down' :
              \/ i \in DOMAIN down /\ down'[i] = down[i]
              \/ \E j \in DOMAIN q : i = Len(down) + j /\ down'[i] = q[j]
    BY <1>1, Placed
  <1>3. OpensOf(down, s) \subseteq OpensOf(down', s) /\ ClosesOf(down, s) \subseteq ClosesOf(down', s)
    BY <1>2 DEF OpensOf, ClosesOf
  <1>4. \A j \in DOMAIN q : \E m \in sent' : m.kind = q[j].kind /\ m.session = q[j].session
    BY <1>1 DEF LinesDown
  <1>5. (\A m \in sent' : m.kind = "open" => m.session # s) =>
                OpensOf(down', s) = OpensOf(down, s)
    <2> SUFFICES ASSUME \A m \in sent' : m.kind = "open" => m.session # s, NEW i \in OpensOf(down', s)
                 PROVE  i \in OpensOf(down, s)
      BY <1>3
    <2>1. i \in DOMAIN down' /\ down'[i].kind = "open" /\ down'[i].session = s BY DEF OpensOf
    <2>2. ASSUME NEW j \in DOMAIN q, down'[i] = q[j] PROVE FALSE BY <1>4, <2>1, <2>2
    <2> QED BY <1>2, <2>1, <2>2 DEF OpensOf
  <1>6. (\A m \in sent' : m.kind = "close" => m.session # s) =>
                ClosesOf(down', s) = ClosesOf(down, s)
    <2> SUFFICES ASSUME \A m \in sent' : m.kind = "close" => m.session # s, NEW i \in ClosesOf(down', s)
                 PROVE  i \in ClosesOf(down, s)
      BY <1>3
    <2>1. i \in DOMAIN down' /\ down'[i].kind = "close" /\ down'[i].session = s BY DEF ClosesOf
    <2>2. ASSUME NEW j \in DOMAIN q, down'[i] = q[j] PROVE FALSE BY <1>4, <2>1, <2>2
    <2> QED BY <1>2, <2>1, <2>2 DEF ClosesOf
  <1>7. ASSUME leg = "companion", CloseDown(s) \in sent'
        PROVE  \E j \in ClosesOf(down', s) : \A i \in OpensOf(down, s) : i < j
    <2>1. [kind |-> "close", session |-> s] \in LinesDown
      BY <1>7 DEF LinesDown, CloseDown
    <2>2. PICK j \in DOMAIN q : q[j] = [kind |-> "close", session |-> s] BY <1>1, <1>7, <2>1
    <2>3. Len(down) + j \in ClosesOf(down', s) BY <1>2, <2>2 DEF ClosesOf
    <2>4. \A i \in OpensOf(down, s) : i < Len(down) + j BY <1>2 DEF OpensOf
    <2> QED BY <2>3, <2>4
  <1>8. ASSUME leg = "companion", OpenDown(s) \in sent'
        PROVE  OpensOf(down', s) # {}
    <2>1. [kind |-> "open", session |-> s] \in LinesDown
      BY <1>8 DEF LinesDown, OpenDown
    <2>2. PICK j \in DOMAIN q : q[j] = [kind |-> "open", session |-> s] BY <1>1, <1>8, <2>1
    <2> QED BY <1>2, <2>2 DEF OpensOf
  <1> QED BY <1>3, <1>5, <1>6, <1>7, <1>8

-----------------------------------------------------------------------------
(* The relay's steps. *)

\* Sessions end, and the companion is told of each that it may be at work on.
Ends == /\ R!Live' \subseteq R!Live
        /\ \A s \in R!Live \ R!Live' :
              CloseDown(s) \in sent' \/ (s \notin C!Working /\ OpensOf(down, s) = {})
        /\ \A m \in sent' : m.kind = "close" =>
              m.session \notin R!Live' /\ client[m.session] # "idle"

LEMMA IgnoredEnds ==
    ASSUME AgreeInv, UNCHANGED <<endpoints, sessions, attachments>>,
           \A m \in sent' : m.kind # "close"
    PROVE  Pairs' /\ Ends /\ R!Live' = R!Live
  BY DEF AgreeInv, Pairs, Ends, R!Live, R!Held

LEMMA FailEnds ==
    ASSUME AgreeInv, NEW S \in SUBSET SessionId, R!Fail(S), attachments' = attachments
    PROVE  Pairs' /\ Ends /\ R!Live' = R!Live \ S
  <1>1. /\ Pairs' /\ R!Live' = R!Live \ S
        /\ \A s \in S \cap R!Live : CloseDown(s) \in sent'
        /\ \A m \in sent' : m.kind = "close" /\ m.session \in S \cap R!Live
    BY FailKeeps DEF AgreeInv
  <1> QED BY <1>1 DEF Ends, AgreeInv, LiveAsked

LEMMA ApplyEnds ==
    ASSUME AgreeInv, NEW line \in C!Line, Sound(line), NEW g, Apply(line, g)
    PROVE  /\ Pairs' /\ Ends
           /\ line.kind = "hello" =>
                /\ \A s \in R!Live' : s \in line.ids
                /\ \A s \in line.ids \ R!Live : CloseDown(s) \in sent'
                /\ \A s \in R!Live \cap line.ids : s \in R!Live'
           /\ line.kind \in {"refused", "close"} => \A s \in line.ids : s \notin R!Live'
  <1>1. line.ids \in SUBSET SessionId BY DEF C!Line
  <1>2. ASSUME R!Ignored PROVE Pairs' /\ Ends /\ R!Live' = R!Live
    BY <1>2, IgnoredEnds DEF R!Ignored, R!relayState
  <1>3. CASE line.kind = "hello"
    <2>1. R!AttachEndpoint(Laptop, line.ids, MaxSessions, {Codex}) BY <1>3 DEF Apply
    <2>2. /\ Pairs' /\ R!Live' = R!Live \cap line.ids
          /\ \A s \in (R!Live \ line.ids) \cup (line.ids \ R!Live) : CloseDown(s) \in sent'
          /\ \A m \in sent' : /\ m.kind = "close"
                              /\ m.session \in (R!Live \ line.ids) \cup (line.ids \ R!Live)
      BY <1>1, <2>1, HelloKeeps DEF AgreeInv
    <2>3. Ends BY <2>2 DEF Ends, AgreeInv, LiveAsked, Sound
    <2> QED BY <1>3, <2>2, <2>3
  <1>4. CASE line.kind = "goodbye"
    <2>1. CASE R!Ignored BY <1>2, <1>4, <2>1
    <2>2. CASE R!SayGoodbye(Laptop, g)
      <3>1. /\ Laptop \in R!Attached /\ sent' = {} /\ sessions' = sessions
            /\ attachments' = attachments
            /\ \/ endpoints' = [endpoints EXCEPT ![Laptop].quit = TRUE]
               \/ endpoints' = endpoints
        BY <2>2 DEF R!SayGoodbye
      <3>2. R!Live' = R!Live BY <3>1 DEF R!Live
      <3>3. CASE endpoints' = endpoints BY <1>4, <3>1, <3>3, IgnoredEnds
      <3>4. CASE endpoints' = [endpoints EXCEPT ![Laptop].quit = TRUE]
        <4>1. Pairs' BY <3>1, <3>2, <3>4, OnlineKeeps DEF AgreeInv, Pairs
        <4> QED BY <1>4, <3>1, <3>2, <4>1 DEF Ends
      <3> QED BY <3>1, <3>3, <3>4
    <2> QED BY <1>4, <2>1, <2>2 DEF Apply
  <1>5. CASE line.kind \notin {"hello", "goodbye"}
    <2>1. PICK s \in line.ids :
             \/ ~R!Speaks(Laptop, s) /\ R!Ignored
             \/ line.kind = "opened"  /\ R!AckOpened(Laptop, s)
             \/ line.kind = "refused" /\ R!AckRefused(Laptop, s)
             \/ line.kind = "close"   /\ R!EndpointClose(Laptop, s)
             \/ line.kind = "frame"   /\ R!EndpointLine(Laptop, s)
      BY <1>5 DEF Apply
    <2>2. s \in SessionId /\ (line.kind \in {"refused", "close"} => line.ids = {s})
      BY <1>1, <2>1 DEF Sound
    <2>3. ~R!Speaks(Laptop, s) => s \notin R!Live BY LiveHere DEF R!Speaks, AgreeInv
    <2>4. CASE ~R!Speaks(Laptop, s) /\ R!Ignored BY <1>2, <1>5, <2>2, <2>3, <2>4
    <2>5. CASE line.kind = "opened" /\ R!AckOpened(Laptop, s)
      BY <2>5, IgnoredEnds DEF R!AckOpened, R!ToClient, R!relayState
    <2>6. CASE line.kind = "refused" /\ R!AckRefused(Laptop, s)
      <3>1. /\ sent' = {R!ToClient(s, "refused")} /\ attachments' = attachments
            /\ sessions' = R!Ended({s}) /\ endpoints' = R!Freed({s})
        BY <2>6 DEF R!AckRefused
      <3>2. Pairs' /\ R!Live' = R!Live \ {s} BY <2>2, <3>1, FreedKeeps DEF AgreeInv
      <3>3. s \notin C!Working /\ OpensOf(down, s) = {} BY <2>1, <2>6 DEF Sound
      <3>4. Ends BY <3>1, <3>2, <3>3 DEF Ends, R!ToClient
      <3> QED BY <2>2, <2>6, <3>2, <3>4
    <2>7. CASE line.kind = "close" /\ R!EndpointClose(Laptop, s)
      <3>1. CASE ~R!Speaks(Laptop, s) /\ R!Ignored BY <2>4, <3>1
      <3>2. CASE R!Fail({s}) /\ attachments' = attachments
        <4>1. Pairs' /\ Ends /\ R!Live' = R!Live \ {s} BY <2>2, <3>2, FailEnds
        <4> QED BY <2>2, <2>7, <4>1
      <3> QED BY <2>7, <3>1, <3>2 DEF R!EndpointClose
    <2>8. CASE line.kind = "frame" /\ R!EndpointLine(Laptop, s)
      <3>1. CASE R!Ignored BY <1>2, <2>8, <3>1
      <3>2. CASE sent' = {R!ToClient(s, "frame")} /\ UNCHANGED R!relayState
        BY <2>8, <3>2, IgnoredEnds DEF R!ToClient, R!relayState
      <3> QED BY <2>8, <3>1, <3>2 DEF R!EndpointLine
    <2> QED BY <2>1, <2>4, <2>5, <2>6, <2>7, <2>8
  <1> QED BY <1>3, <1>4, <1>5

-----------------------------------------------------------------------------
(* What the invariant says of the lines, over a step. *)

\* Nothing that a line stands for is taken back.
Steady == \A s \in SessionId :
    /\ client[s] # "idle" => client'[s] # "idle"
    /\ client[s] # "idle" /\ s \notin C!Working /\ OpensOf(down, s) = {} =>
          s \notin C!Working' /\ OpensOf(down', s) = {}

LEMMA SoundStays ==
    ASSUME Steady, NEW line \in C!Line, Sound(line)
    PROVE  Sound(line)'
  <1>1. line.ids \subseteq SessionId BY DEF C!Line
  <1> QED BY <1>1 DEF Sound, Steady, OpensOf, C!Working

LEMMA QueuesStay ==
    ASSUME Steady, NEW q \in Seq(C!Line)
    PROVE  /\ Unsent(q) => Unsent(q)'
           /\ Posted(q) => Posted(q)'
           /\ Late(q) => Late(q)'
  <1>1. \A i \in DOMAIN q : q[i] \in C!Line BY ElementOfSeq
  <1>2. \A i \in DOMAIN q : Sound(q[i]) => Sound(q[i])' BY <1>1, SoundStays
  <1> QED BY <1>2 DEF Unsent, Posted, Late

LEMMA QueuesTail ==
    ASSUME NEW q \in Seq(C!Line), q # <<>>
    PROVE  /\ Posted(q)' => Posted(Tail(q))'
           /\ Late(q)' => Late(Tail(q))'
  <1>1. \A i \in DOMAIN Tail(q) : i \in Nat \ {0} /\ i + 1 \in DOMAIN q /\ Tail(q)[i] = q[i + 1]
    BY Shifted
  <1>2. \A i \in Nat \ {0} : i + 1 # 1 OBVIOUS
  <1> QED BY <1>1, <1>2 DEF Posted, Late

LEMMA QueuesAppend ==
    ASSUME NEW q \in Seq(C!Line), NEW l \in C!Line, Sound(l)', l.kind # "hello"
    PROVE  /\ Unsent(q)' => Unsent(Append(q, l))'
           /\ Posted(q)' => Posted(Append(q, l))'
  <1>1. \A i \in DOMAIN Append(q, l) : \/ i \in DOMAIN q /\ Append(q, l)[i] = q[i]
                                       \/ Append(q, l)[i] = l
    BY Appended
  <1> QED BY <1>1 DEF Unsent, Posted

LEMMA QueuesNone == Unsent(<<>>)' /\ Posted(<<>>)' /\ Late(<<>>)'
  <1>1. DOMAIN <<>> = {} OBVIOUS
  <1> QED BY <1>1 DEF Unsent, Posted, Late

LEMMA LinesAre ==
    ASSUME NEW o, NEW b, NEW d, o = outbox', b = body', d = draining',
           Unsent(o)', Posted(b)', Late(d)'
    PROVE  SoundLines'
  <1>1. Unsent(outbox)' BY DEF Unsent, Sound
  <1>2. Posted(body)' BY DEF Posted, Sound
  <1>3. Late(draining)' BY DEF Late, Sound
  <1> QED BY <1>1, <1>2, <1>3 DEF SoundLines

LEMMA LinesSame ==
    ASSUME Steady, LinesOK, SoundLines, UNCHANGED <<outbox, body, draining>>
    PROVE  SoundLines'
  <1>1. /\ Unsent(outbox) /\ Posted(body) /\ Late(draining)
        /\ outbox \in Seq(C!Line) /\ body \in Seq(C!Line) /\ draining \in Seq(C!Line)
    BY DEF SoundLines, LinesOK
  <1>2. PICK p, q, r : p = outbox /\ q = body /\ r = draining OBVIOUS
  <1>3. Unsent(p)' /\ Posted(q)' /\ Late(r)' BY <1>1, <1>2, QueuesStay
  <1> QED BY <1>2, <1>3, LinesAre

-----------------------------------------------------------------------------
(* The relay's steps, with what they leave on the leg. *)

LEMMA RelaySteady ==
    ASSUME AgreeInv, Quiet, Relayed, UNCHANGED AtWork,
           \A s \in SessionId : client[s] # "idle" => client'[s] # "idle"
    PROVE  Steady
  <1>1. ASSUME NEW s \in SessionId PROVE OpensOf(down', s) = OpensOf(down, s)
    BY LegCarries DEF AgreeInv, SystemInv, Quiet
  <1> QED BY <1>1 DEF Steady, AtWork, C!Working

LEMMA RelayTold ==
    ASSUME AgreeInv, Quiet, Relayed, Ends, leg' = leg,
           \A s \in SessionId : client[s] # "idle" => client'[s] # "idle"
    PROVE  Told' /\ ClosedGone' /\ LiveAsked'
  <1>1. R!Live \subseteq SessionId BY LiveHere DEF AgreeInv
  <1>2. LiveAsked' BY <1>1 DEF AgreeInv, LiveAsked, Ends
  <1>3. ASSUME NEW s \in SessionId
        PROVE  /\ ClosesOf(down, s) \subseteq ClosesOf(down', s)
               /\ OpensOf(down', s) = OpensOf(down, s)
               /\ (\A m \in sent' : m.kind = "close" => m.session # s) =>
                    ClosesOf(down', s) = ClosesOf(down, s)
               /\ leg = "companion" /\ CloseDown(s) \in sent' =>
                    \E j \in ClosesOf(down', s) : \A i \in OpensOf(down, s) : i < j
    BY LegCarries DEF AgreeInv, SystemInv, Quiet
  <1>4. Told'
    <2> SUFFICES ASSUME leg = "companion", NEW s \in SessionId, NEW i \in OpensOf(down', s)
                 PROVE  s \in R!Live' \/ \E j \in ClosesOf(down', s) : i < j
      BY DEF Told, OpensOf, ClosesOf
    <2>1. i \in OpensOf(down, s) BY <1>3
    <2>2. s \in R!Live \/ \E j \in ClosesOf(down, s) : i < j BY <2>1 DEF AgreeInv, Told
    <2>3. CASE s \in R!Live \ R!Live'
      <3>1. CloseDown(s) \in sent' BY <2>1, <2>3 DEF Ends
      <3> QED BY <1>3, <2>1, <3>1
    <2> QED BY <1>3, <2>2, <2>3
  <1>5. ClosedGone'
    <2> SUFFICES ASSUME NEW s \in SessionId, ClosesOf(down', s) # {}
                 PROVE  s \notin R!Live' /\ client'[s] # "idle"
      BY DEF ClosedGone, ClosesOf
    <2>1. CASE \E m \in sent' : m.kind = "close" /\ m.session = s BY <2>1 DEF Ends
    <2>2. CASE \A m \in sent' : m.kind = "close" => m.session # s
      <3>1. ClosesOf(down, s) # {} BY <1>3, <2>2
      <3> QED BY <3>1 DEF AgreeInv, ClosedGone, Ends
    <2> QED BY <2>1, <2>2
  <1> QED BY <1>2, <1>4, <1>5

LEMMA RelayJoins ==
    ASSUME AgreeInv, Quiet, Relayed, Ends, UNCHANGED <<leg, link, shuttingDown>>, UNCHANGED AtWork,
           \A s \in SessionId : Kept(s)' =>
               Kept(s) /\ (EndsOf(body, s) # {} => EndsOf(body', s) # {}),
           \A s \in SessionId : Declares /\ s \in body[1].ids =>
               \/ Declares' /\ s \in body'[1].ids
               \/ s \in R!Live' \/ CloseDown(s) \in sent'
    PROVE  Joined'
  <1> SUFFICES ASSUME link = "attached", leg = "companion", ~shuttingDown, NEW s \in SessionId
               PROVE  /\ Kept(s)' => s \in C!Working' \/ OpensOf(down', s) # {} \/ EndsOf(body', s) # {}
                      /\ s \in C!Working' =>
                           \/ s \in R!Live' \/ ClosesOf(down', s) # {}
                           \/ (Declares' /\ s \in body'[1].ids)
    BY DEF Joined, OpensOf, ClosesOf, EndsOf, C!Working
  <1>1. C!Working' = C!Working BY DEF AtWork, C!Working
  <1>2. /\ OpensOf(down, s) \subseteq OpensOf(down', s)
        /\ ClosesOf(down, s) \subseteq ClosesOf(down', s)
        /\ CloseDown(s) \in sent' => ClosesOf(down', s) # {}
    <2>1. CloseDown(s) \in sent' => \E j \in ClosesOf(down', s) : TRUE
      BY LegCarries DEF AgreeInv, SystemInv, Quiet
    <2> QED BY <2>1, LegCarries DEF AgreeInv, SystemInv, Quiet
  <1>3. /\ Kept(s) => s \in C!Working \/ OpensOf(down, s) # {} \/ EndsOf(body, s) # {}
        /\ s \in C!Working =>
             s \in R!Live \/ ClosesOf(down, s) # {} \/ (Declares /\ s \in body[1].ids)
    BY DEF AgreeInv, Joined
  <1>4. s \in R!Live \ R!Live' /\ s \in C!Working => CloseDown(s) \in sent' BY DEF Ends
  <1> QED BY <1>1, <1>2, <1>3, <1>4

-----------------------------------------------------------------------------
(* The gateway's side keeps it. *)

LEMMA BodyReadAgrees ==
    ASSUME AgreeInv, SystemInv', GatewayReads
    PROVE  AgreeInv'
  <1> DEFINE l == Head(body)
  <1>1. /\ body \in Seq(C!Line) /\ body # <<>> /\ outbox \in Seq(C!Line) /\ draining \in Seq(C!Line)
        /\ Apply(l, generation) /\ body' = Tail(body) /\ Relayed
        /\ UNCHANGED AtWork /\ UNCHANGED <<leg, link, shuttingDown, outbox, draining, client>>
    BY DEF GatewayReads, AgreeInv, SystemInv, LinesOK, AtWork
  <1>2. /\ 1 \in DOMAIN body /\ l = body[1] /\ l \in C!Line
        /\ \A i \in DOMAIN Tail(body) : /\ i \in Nat \ {0} /\ i + 1 \in DOMAIN body
                                        /\ Tail(body)[i] = body[i + 1]
        /\ \A i \in DOMAIN body : i # 1 => i - 1 \in DOMAIN Tail(body) /\ Tail(body)[i - 1] = body[i]
    BY <1>1, Shifted
  <1>3. Sound(l) BY <1>2 DEF AgreeInv, SoundLines, Posted
  <1> HIDE DEF l
  <1>4. /\ Pairs' /\ Ends
        /\ l.kind = "hello" =>
             /\ \A s \in R!Live' : s \in l.ids
             /\ \A s \in l.ids \ R!Live : CloseDown(s) \in sent'
             /\ \A s \in R!Live \cap l.ids : s \in R!Live'
        /\ l.kind \in {"refused", "close"} => \A s \in l.ids : s \notin R!Live'
    BY <1>1, <1>2, <1>3, ApplyEnds
  <1>5. Quiet BY <1>1, <1>2, ApplyQuiet
  <1>6. \A s \in SessionId : client[s] # "idle" => client'[s] # "idle" BY <1>1
  <1>7. Steady BY <1>1, <1>5, <1>6, RelaySteady
  <1>8. Told' /\ ClosedGone' /\ LiveAsked' BY <1>1, <1>4, <1>5, <1>6, RelayTold
  <1>9. SoundLines'
    <2>1. Unsent(outbox) /\ Posted(body) /\ Late(draining) BY DEF AgreeInv, SoundLines
    <2> DEFINE o == outbox
               b == body
               d == draining
    <2>2. o \in Seq(C!Line) /\ b \in Seq(C!Line) /\ d \in Seq(C!Line) /\ b # <<>> BY <1>1
    <2>3. PICK p, q, r : p = o /\ q = b /\ r = d OBVIOUS
    <2>4. Unsent(p)' /\ Posted(q)' /\ Late(r)' BY <1>7, <2>1, <2>2, <2>3, QueuesStay
    <2>5. Posted(Tail(q))' BY <2>2, <2>3, <2>4, QueuesTail
    <2> QED BY <1>1, <2>3, <2>4, <2>5, LinesAre
  <1>10. ASSUME NEW s \in SessionId, Kept(s)'
         PROVE  Kept(s) /\ (EndsOf(body, s) # {} => EndsOf(body', s) # {})
    <2>1. s \in R!Live' BY <1>10 DEF Kept
    <2>2. Kept(s) BY <1>2, <1>4, <2>1 DEF Kept, Declares, Ends
    <2>3. ASSUME NEW i \in EndsOf(body, s) PROVE i - 1 \in EndsOf(body', s)
      <3>1. i # 1 BY <1>2, <1>4, <2>1, <2>3 DEF EndsOf
      <3> QED BY <1>1, <1>2, <2>3, <3>1 DEF EndsOf
    <2> QED BY <2>2, <2>3
  <1>11. ASSUME NEW s \in SessionId, Declares, s \in body[1].ids
         PROVE  s \in R!Live' \/ CloseDown(s) \in sent'
    BY <1>2, <1>4, <1>11 DEF Declares
  <1>12. Joined' BY <1>1, <1>4, <1>5, <1>10, <1>11, RelayJoins
  <1>13. Legs' BY <1>1 DEF AgreeInv, Legs
  <1> QED BY <1>4, <1>8, <1>9, <1>12, <1>13 DEF AgreeInv

\* A step of the relay that takes nothing off the body.
LEMMA AsideAgrees ==
    ASSUME AgreeInv, SystemInv', Pairs', Ends, Quiet, Relayed,
           UNCHANGED AtWork, UNCHANGED <<leg, link, shuttingDown, outbox, body>>,
           \A s \in SessionId : client[s] # "idle" => client'[s] # "idle",
           (draining # <<>> /\ draining' = Tail(draining)) \/ draining' = draining
    PROVE  AgreeInv'
  <1>1. Steady BY RelaySteady
  <1>2. Told' /\ ClosedGone' /\ LiveAsked' BY RelayTold
  <1>3. SoundLines'
    <2>1. /\ Unsent(outbox) /\ Posted(body) /\ Late(draining)
          /\ outbox \in Seq(C!Line) /\ body \in Seq(C!Line) /\ draining \in Seq(C!Line)
      BY DEF AgreeInv, SoundLines, SystemInv, LinesOK
    <2>2. PICK p, q, r : p = outbox /\ q = body /\ r = draining OBVIOUS
    <2>3. Unsent(p)' /\ Posted(q)' /\ Late(r)' BY <1>1, <2>1, <2>2, QueuesStay
    <2>4. CASE draining' = draining BY <2>2, <2>3, <2>4, LinesAre
    <2>5. CASE draining # <<>> /\ draining' = Tail(draining)
      <3>1. Late(Tail(r))' BY <2>1, <2>2, <2>3, <2>5, QueuesTail
      <3> QED BY <2>2, <2>3, <2>5, <3>1, LinesAre
    <2> QED BY <2>4, <2>5
  <1>4. \A s \in SessionId : Kept(s)' =>
               Kept(s) /\ (EndsOf(body, s) # {} => EndsOf(body', s) # {})
    BY DEF Kept, Declares, Ends
  <1>5. \A s \in SessionId : Declares /\ s \in body[1].ids => Declares' /\ s \in body'[1].ids
    BY DEF Declares
  <1>6. Joined' BY <1>4, <1>5, RelayJoins
  <1>7. Legs' BY DEF AgreeInv, Legs
  <1> QED BY <1>2, <1>3, <1>6, <1>7 DEF AgreeInv

LEMMA LateReadAgrees ==
    ASSUME AgreeInv, SystemInv', GatewayReadsLate
    PROVE  AgreeInv'
  <1> DEFINE l == Head(draining)
  <1>1. /\ draining \in Seq(C!Line) /\ draining # <<>>
        /\ Apply(l, lateGeneration) /\ draining' = Tail(draining) /\ Relayed
        /\ UNCHANGED AtWork /\ UNCHANGED <<leg, link, shuttingDown, outbox, body, client>>
    BY DEF GatewayReadsLate, AgreeInv, SystemInv, LinesOK, AtWork
  <1>2. 1 \in DOMAIN draining /\ l = draining[1] /\ l \in C!Line BY <1>1, Shifted
  <1>3. Sound(l) BY <1>2 DEF AgreeInv, SoundLines, Late
  <1> HIDE DEF l
  <1>4. Pairs' /\ Ends BY <1>1, <1>2, <1>3, ApplyEnds
  <1>5. Quiet BY <1>1, <1>2, ApplyQuiet
  <1> QED BY <1>1, <1>4, <1>5, AsideAgrees

\* A step that neither the relay nor the companion's lines are in.
LEMMA RelayStill ==
    ASSUME AgreeInv, R!Ignored
    PROVE  Pairs' /\ R!Live' = R!Live
  BY DEF AgreeInv, R!Ignored, R!relayState, Pairs, R!Live, R!Held

LEMMA RestLostAgrees ==
    ASSUME AgreeInv, SystemInv', RestIsLost
    PROVE  AgreeInv'
  <1>1. /\ R!Ignored /\ draining' = <<>>
        /\ UNCHANGED AtWork /\ UNCHANGED <<leg, link, shuttingDown, outbox, body, client, down>>
    BY DEF RestIsLost, AtWork, gateway
  <1>2. Pairs' /\ R!Live' = R!Live BY <1>1, RelayStill
  <1>3. Steady BY <1>1 DEF Steady, AtWork, C!Working
  <1>4. SoundLines'
    <2>1. /\ Unsent(outbox) /\ Posted(body)
          /\ outbox \in Seq(C!Line) /\ body \in Seq(C!Line)
      BY DEF AgreeInv, SoundLines, SystemInv, LinesOK
    <2>2. PICK p, q : p = outbox /\ q = body OBVIOUS
    <2>3. Unsent(p)' /\ Posted(q)' BY <1>3, <2>1, <2>2, QueuesStay
    <2> QED BY <1>1, <2>2, <2>3, QueuesNone, LinesAre
  <1>5. LiveAsked' BY <1>1, <1>2 DEF AgreeInv, LiveAsked
  <1>6. ClosedGone' BY <1>1, <1>2 DEF AgreeInv, ClosedGone
  <1>7. Told' BY <1>1, <1>2 DEF AgreeInv, Told
  <1>8. Joined' BY <1>1, <1>2 DEF AgreeInv, Joined, Kept, Declares, AtWork, C!Working
  <1>9. Legs' BY <1>1 DEF AgreeInv, Legs
  <1> QED BY <1>2, <1>4, <1>5, <1>6, <1>7, <1>8, <1>9 DEF AgreeInv

LEMMA LegClosesAgrees ==
    ASSUME AgreeInv, SystemInv', LegCloses
    PROVE  AgreeInv'
  <1>1. leg' = "none" /\ UNCHANGED <<down, client>> /\ UNCHANGED AtWork
        /\ UNCHANGED <<outbox, body, draining>>
    BY DEF LegCloses, companion, AtWork
  <1>2. Pairs' /\ R!Live' = R!Live
    <2>1. CASE R!Ignored BY <2>1, RelayStill
    <2>2. CASE R!DetachEndpoint(Laptop)
      <3>1. /\ Laptop \in R!Attached /\ attachments' = attachments
            /\ endpoints' = [endpoints EXCEPT ![Laptop].online = FALSE]
            /\ sessions' = R!Arm(R!Held(Laptop), "endpointResume")
        BY <2>2 DEF R!DetachEndpoint
      <3>2. sessions' \in [SessionId -> R!Session \cup {None}] /\ R!Live' = R!Live
        BY <3>1, TimersKeep DEF AgreeInv, R!Leg
      <3> QED BY <3>1, <3>2, OnlineKeeps DEF AgreeInv
    <2> QED BY <2>1, <2>2 DEF LegCloses
  <1>3. Steady BY <1>1 DEF Steady, AtWork, C!Working
  <1>4. SoundLines' BY <1>1, <1>3, LinesSame DEF AgreeInv, SystemInv
  <1>5. LiveAsked' BY <1>1, <1>2 DEF AgreeInv, LiveAsked
  <1>6. ClosedGone' BY <1>1, <1>2 DEF AgreeInv, ClosedGone
  <1> QED BY <1>1, <1>2, <1>4, <1>5, <1>6 DEF AgreeInv, Told, Joined, Legs

LEMMA RestartAgrees ==
    ASSUME AgreeInv, SystemInv', GatewayRestarts
    PROVE  AgreeInv'
  <1>1. /\ endpoints' = [e \in {Laptop} |-> None] /\ sessions' = [s \in SessionId |-> None]
        /\ attachments' = 0 /\ leg' = "none" /\ down' = <<>> /\ draining' = <<>>
        /\ body' = body \/ body' = <<>>
        /\ UNCHANGED AtWork /\ UNCHANGED <<outbox, client>>
    BY DEF GatewayRestarts, AtWork
  <1>2. R!Live' = {} BY <1>1 DEF R!Live
  <1>3. R!Held(Laptop)' = {} BY <1>1 DEF R!Held
  <1>4. Pairs' BY <1>1, <1>2, <1>3 DEF Pairs
  <1>5. \A s : OpensOf(down', s) = {} /\ ClosesOf(down', s) = {}
    <2>1. DOMAIN <<>> = {} OBVIOUS
    <2> QED BY <1>1, <2>1 DEF OpensOf, ClosesOf
  <1>6. Steady BY <1>1, <1>5 DEF Steady, AtWork, C!Working
  <1>7. SoundLines'
    <2>1. /\ Unsent(outbox) /\ Posted(body)
          /\ outbox \in Seq(C!Line) /\ body \in Seq(C!Line)
      BY DEF AgreeInv, SoundLines, SystemInv, LinesOK
    <2>2. PICK p, q : p = outbox /\ q = body OBVIOUS
    <2>3. Unsent(p)' /\ Posted(q)' BY <1>6, <2>1, <2>2, QueuesStay
    <2> QED BY <1>1, <2>2, <2>3, QueuesNone, LinesAre
  <1>8. LiveAsked' /\ ClosedGone' BY <1>2, <1>5 DEF LiveAsked, ClosedGone, ClosesOf
  <1> QED BY <1>1, <1>4, <1>7, <1>8 DEF AgreeInv, Told, Joined, Legs

LEMMA TimerAgrees ==
    ASSUME AgreeInv, SystemInv', TimerFires
    PROVE  AgreeInv'
  <1>1. /\ Relayed /\ UNCHANGED AtWork
        /\ UNCHANGED <<leg, link, shuttingDown, outbox, body, draining, client>>
    BY DEF TimerFires, companion, AtWork
  <1>2. PICK s \in SessionId : R!Fail({s}) /\ attachments' = attachments
    BY DEF TimerFires, R!TimerFires, R!StrayFires
  <1>3. Pairs' /\ Ends BY <1>2, FailEnds
  <1>4. Quiet BY <1>2, FailQuiet
  <1> QED BY <1>1, <1>3, <1>4, AsideAgrees

-----------------------------------------------------------------------------
(* The clients keep it. *)

LEMMA ClientAsideAgrees ==
    ASSUME AgreeInv, SystemInv', NEW s \in SessionId, ClientSpeaks(s) \/ ClientEnds(s)
    PROVE  AgreeInv'
  <1>1. /\ Relayed /\ UNCHANGED AtWork
        /\ UNCHANGED <<leg, link, shuttingDown, outbox, body, draining>>
    BY DEF ClientSpeaks, ClientEnds, companion, AtWork
  <1>2. \A p \in SessionId : client[p] # "idle" => client'[p] # "idle"
    BY DEF ClientSpeaks, ClientEnds, AgreeInv, SystemInv
  <1>3. CASE ClientSpeaks(s)
    <2>1. /\ UNCHANGED <<endpoints, sessions, attachments>>
          /\ \A m \in sent' : m.kind = "frame" /\ m.session = s
      BY <1>3 DEF ClientSpeaks, R!ClientLine, R!Ignored, R!relayState, R!ToEndpoint
    <2>2. Pairs' /\ Ends BY <2>1, IgnoredEnds
    <2>3. Quiet BY <2>1 DEF Quiet, SentOK, Kinds
    <2> QED BY <1>1, <1>2, <2>2, <2>3, AsideAgrees
  <1>4. CASE R!CloseSession(s)
    <2>1. R!Fail({s}) /\ attachments' = attachments BY <1>4 DEF R!CloseSession
    <2>2. Pairs' /\ Ends BY <2>1, FailEnds
    <2>3. Quiet BY <2>1, FailQuiet
    <2> QED BY <1>1, <1>2, <2>2, <2>3, AsideAgrees
  <1>5. CASE R!DetachClient(s)
    <2>1. /\ sent' = {} /\ endpoints' = endpoints /\ attachments' = attachments
          /\ sessions' = R!Arm({s}, "clientResume")
      BY <1>5 DEF R!DetachClient
    <2>2. sessions' \in [SessionId -> R!Session \cup {None}] /\ R!Live' = R!Live
      BY <2>1, TimersKeep DEF AgreeInv, R!Leg
    <2>3. Pairs' BY <2>1, <2>2 DEF AgreeInv, Pairs, R!Held
    <2>4. Ends BY <2>1, <2>2 DEF Ends
    <2>5. Quiet BY <2>1 DEF Quiet, SentOK
    <2> QED BY <1>1, <1>2, <2>3, <2>4, <2>5, AsideAgrees
  <1> QED BY <1>3, <1>4, <1>5 DEF ClientEnds

\* A fresh id: nothing on its way names it.
LEMMA OpenAgrees ==
    ASSUME AgreeInv, SystemInv', NEW s \in SessionId, ClientOpens(s)
    PROVE  AgreeInv'
  <1>1. /\ Relayed /\ UNCHANGED AtWork /\ client[s] = "idle"
        /\ UNCHANGED <<leg, link, shuttingDown, outbox, body, draining>>
    BY DEF ClientOpens, companion, AtWork
  <1>2. \A p \in SessionId : client[p] # "idle" => client'[p] # "idle" /\ p # s
    BY DEF ClientOpens, AgreeInv, SystemInv
  <1>3. CASE R!RefuseOpen(Laptop, s, Codex, Ann)
    <2>1. /\ UNCHANGED <<endpoints, sessions, attachments>>
          /\ sent' = {R!ToClient(s, "refused")}
      BY <1>3 DEF R!RefuseOpen, R!relayState
    <2>2. Pairs' /\ Ends BY <2>1, IgnoredEnds DEF R!ToClient
    <2>3. Quiet BY <2>1 DEF Quiet, SentOK, Kinds, R!ToClient
    <2> QED BY <1>1, <1>2, <2>2, <2>3, AsideAgrees
  <1>4. CASE R!AcceptOpen(Laptop, s, Run, Codex, Ann) /\ client' = [client EXCEPT ![s] = "open"]
    <2>1. sent' = {OpenDown(s)} BY <1>4 DEF R!AcceptOpen, R!ToEndpoint, OpenDown
    <2>2. SentOK BY <2>1 DEF SentOK, Kinds, OpenDown
    <2>3. Pairs' /\ R!Live' = R!Live \cup {s} BY <1>4, AcceptKeeps DEF AgreeInv
    <2>4. client'[s] = "open" BY <1>4 DEF AgreeInv, SystemInv
    <2>5. ASSUME NEW p \in SessionId
          PROVE  /\ ClosesOf(down', p) = ClosesOf(down, p)
                 /\ p # s => OpensOf(down', p) = OpensOf(down, p)
                 /\ leg = "companion" => OpensOf(down', s) # {}
      <3>1. down \in Seq(DownLine) BY DEF AgreeInv, SystemInv
      <3>2. ASSUME NEW r \in SessionId
            PROVE  /\ (\A m \in sent' : m.kind = "open" => m.session # r) =>
                         OpensOf(down', r) = OpensOf(down, r)
                   /\ (\A m \in sent' : m.kind = "close" => m.session # r) =>
                         ClosesOf(down', r) = ClosesOf(down, r)
                   /\ leg = "companion" /\ OpenDown(r) \in sent' => OpensOf(down', r) # {}
        BY <1>1, <2>2, <3>1, LegCarries
      <3>3. \A m \in sent' : m.kind = "open" /\ m.session = s BY <2>1 DEF OpenDown
      <3> QED BY <2>1, <3>2, <3>3
    <2>6. ClosesOf(down, s) = {} /\ s \notin C!Working
      BY <1>1 DEF AgreeInv, ClosedGone, SystemInv, IdsFresh, Parts, Known, C!Working
    <2>7. Steady BY <1>1, <1>2, <2>5 DEF Steady, AtWork, C!Working
    <2>8. SoundLines' BY <1>1, <2>7, LinesSame DEF AgreeInv, SystemInv
    <2>9. LiveAsked'
      <3>1. R!Live \subseteq SessionId BY LiveHere DEF AgreeInv
      <3> QED BY <1>2, <2>3, <2>4, <3>1 DEF AgreeInv, LiveAsked
    <2>10. ClosedGone'
      <3> SUFFICES ASSUME NEW p \in SessionId, ClosesOf(down', p) # {}
                   PROVE  p \notin R!Live' /\ client'[p] # "idle"
        BY DEF ClosedGone, ClosesOf
      <3>1. ClosesOf(down, p) # {} BY <2>5
      <3> QED BY <1>2, <2>3, <3>1 DEF AgreeInv, ClosedGone
    <2>11. Told'
      <3> SUFFICES ASSUME leg = "companion", NEW p \in SessionId, NEW i \in OpensOf(down', p)
                   PROVE  p \in R!Live' \/ \E j \in ClosesOf(down', p) : i < j
        BY <1>1 DEF Told, OpensOf, ClosesOf
      <3>1. CASE p = s BY <2>3, <3>1
      <3>2. CASE p # s
        <4>1. i \in OpensOf(down, p) BY <2>5, <3>2
        <4> QED BY <2>3, <2>5, <4>1 DEF AgreeInv, Told
      <3> QED BY <3>1, <3>2
    <2>12. Joined'
      <3> SUFFICES ASSUME link = "attached", leg = "companion", ~shuttingDown, NEW p \in SessionId
                   PROVE  /\ Kept(p)' => p \in C!Working' \/ OpensOf(down', p) # {} \/ EndsOf(body', p) # {}
                          /\ p \in C!Working' =>
                               \/ p \in R!Live' \/ ClosesOf(down', p) # {}
                               \/ (Declares' /\ p \in body'[1].ids)
        BY <1>1 DEF Joined, OpensOf, ClosesOf, EndsOf, C!Working
      <3>1. C!Working' = C!Working /\ body' = body BY <1>1 DEF AtWork, C!Working
      <3>2. EndsOf(body', p) = EndsOf(body, p) /\ Declares' = Declares
        BY <3>1 DEF EndsOf, Declares
      <3>3. /\ Kept(p) => p \in C!Working \/ OpensOf(down, p) # {} \/ EndsOf(body, p) # {}
            /\ p \in C!Working =>
                 p \in R!Live \/ ClosesOf(down, p) # {} \/ (Declares /\ p \in body[1].ids)
        BY DEF AgreeInv, Joined
      <3>4. CASE p = s BY <2>5, <2>6, <3>1, <3>4
      <3>5. CASE p # s
        <4>1. Kept(p)' => Kept(p) BY <2>3, <3>1, <3>2, <3>5 DEF Kept
        <4> QED BY <2>3, <2>5, <3>1, <3>2, <3>3, <3>5, <4>1
      <3> QED BY <3>4, <3>5
    <2>13. Legs' BY <1>1 DEF AgreeInv, Legs
    <2> QED BY <2>3, <2>8, <2>9, <2>10, <2>11, <2>12, <2>13 DEF AgreeInv
  <1> QED BY <1>3, <1>4 DEF ClientOpens

-----------------------------------------------------------------------------
(* The companion's handlers: what they report, and to which end of the leg. *)

\* A handler of session s says nothing, reports one line, or fails every session.
Reports(s, line) ==
    /\ line \in C!Line /\ line.ids = {s} /\ line.kind \in {"opened", "refused", "frame", "close"}
    /\ \/ UNCHANGED C!lines /\ link' = link /\ C!Working \subseteq C!Working'
       \/ /\ C!Enqueue(line, served', pending')
          /\ C!Working \subseteq C!Working' \cup {s}
          /\ line.kind \in {"opened", "frame"} => C!Working \subseteq C!Working'
       \/ C!Overflow
    /\ line.kind = "refused" => s \notin C!Working'

LEMMA SendReports ==
    ASSUME NEW s \in SessionId, NEW kind \in {"opened", "refused", "frame", "close"},
           NEW ss, NEW pp, C!SendLine(C!Says(kind, s), ss, pp),
           C!Working \subseteq ss \cup pp \cup {s},
           kind \in {"opened", "frame"} => C!Working \subseteq ss \cup pp,
           kind = "refused" => s \notin ss \cup pp
    PROVE  /\ Reports(s, C!Says(kind, s))
           /\ C!Working' \subseteq ss \cup pp
           /\ (C!Enqueue(C!Says(kind, s), served', pending') /\ C!Working' = ss \cup pp) \/ C!Overflow
  <1>1. /\ C!Says(kind, s) \in C!Line /\ C!Says(kind, s).ids = {s}
        /\ C!Says(kind, s).kind = kind
    BY SaysLine DEF C!Says
  <1>2. CASE C!Enqueue(C!Says(kind, s), ss, pp)
    <2>1. served' = ss /\ pending' = pp BY <1>2 DEF C!Enqueue
    <2>2. C!Working' = ss \cup pp BY <2>1 DEF C!Working
    <2> QED BY <1>1, <1>2, <2>1, <2>2 DEF Reports
  <1>3. CASE C!Overflow
    <2>1. C!Working' = {} BY <1>3 DEF C!Overflow, C!Working
    <2> QED BY <1>1, <1>3, <2>1 DEF Reports
  <1> QED BY <1>2, <1>3 DEF C!SendLine

LEMMA OpenReports ==
    ASSUME Parts, NEW s \in SessionId \ Known, C!OpenSession(s)
    PROVE  \E line : /\ Reports(s, line) /\ C!Working' \subseteq C!Working \cup {s}
                     /\ \/ s \in C!Working' \/ C!Overflow
                        \/ line.kind = "refused" /\ C!Enqueue(line, served', pending')
  <1>1. s \notin C!Working BY DEF Parts, Known, C!Working
  <1>2. CASE C!RefuseOpen(s)
    <2>1. C!SendLine(C!Says("refused", s), served, pending) BY <1>2 DEF C!RefuseOpen
    <2>2. C!Says("refused", s).kind = "refused" BY DEF C!Says
    <2> QED BY <1>1, <2>1, <2>2, SendReports DEF C!Working
  <1>3. CASE C!Spawn(s)
    <2>1. C!SendLine(C!Says("opened", s), served \cup {s}, pending) BY <1>3 DEF C!Spawn
    <2>2. /\ Reports(s, C!Says("opened", s))
          /\ C!Working' \subseteq (served \cup {s}) \cup pending
          /\ s \in C!Working' \/ C!Overflow
      BY <2>1, SendReports DEF C!Working
    <2> QED BY <2>2 DEF C!Working
  <1>4. CASE C!BeginClone(s)
    <2>1. /\ served' = served /\ pending' = pending \cup {s} /\ link' = link
          /\ UNCHANGED C!lines
      BY <1>4 DEF C!BeginClone, C!Leaves
    <2>2. C!Working' = C!Working \cup {s} BY <2>1 DEF C!Working
    <2>3. /\ C!Says("opened", s) \in C!Line /\ C!Says("opened", s).ids = {s}
          /\ C!Says("opened", s).kind = "opened"
      BY SaysLine DEF C!Says
    <2> QED BY <2>1, <2>2, <2>3 DEF Reports
  <1> QED BY <1>2, <1>3, <1>4 DEF C!OpenSession

LEMMA WorkReports ==
    ASSUME Parts, NEW s \in SessionId,
           C!CloneEnds(s) \/ C!AgentSpeaks(s) \/ C!AgentOverruns(s) \/ C!AgentExits(s)
    PROVE  /\ s \in Known
           /\ \E line : Reports(s, line) /\ C!Working' \subseteq C!Working
  <1> USE DEF Parts, Known, C!Working
  <1>1. ASSUME C!Leaves(served, pending)
        PROVE  \E line : Reports(s, line) /\ C!Working' \subseteq C!Working
    <2>1. UNCHANGED C!lines /\ link' = link /\ C!Working' = C!Working BY <1>1 DEF C!Leaves
    <2>2. /\ C!Says("frame", s) \in C!Line /\ C!Says("frame", s).ids = {s}
          /\ C!Says("frame", s).kind = "frame"
      BY SaysLine DEF C!Says
    <2> QED BY <2>1, <2>2 DEF Reports
  <1>2. CASE C!CloneEnds(s)
    <2>1. s \in Known BY <1>2 DEF C!CloneEnds
    <2>2. CASE C!Leaves(served, pending) BY <1>1, <2>1, <2>2
    <2>3. CASE s \in pending /\ C!SendLine(C!Says("refused", s), served, pending \ {s})
      <3>1. s \notin served BY <2>3
      <3>2. Reports(s, C!Says("refused", s)) /\ C!Working' \subseteq served \cup (pending \ {s})
        BY <2>3, <3>1, SendReports
      <3> QED BY <2>1, <3>2
    <2>4. CASE s \in pending /\ C!SendLine(C!Says("opened", s), served \cup {s}, pending \ {s})
      <3>1. Reports(s, C!Says("opened", s)) /\ C!Working' \subseteq (served \cup {s}) \cup (pending \ {s})
        BY <2>4, SendReports
      <3> QED BY <2>1, <2>4, <3>1
    <2> QED BY <1>2, <2>2, <2>3, <2>4 DEF C!CloneEnds
  <1>3. CASE C!AgentSpeaks(s)
    <2>1. s \in Known /\ C!SendLine(C!Says("frame", s), served, pending)
      BY <1>3 DEF C!AgentSpeaks
    <2>2. Reports(s, C!Says("frame", s)) /\ C!Working' \subseteq served \cup pending
      BY <2>1, SendReports
    <2> QED BY <2>1, <2>2
  <1>4. ASSUME s \in agents, C!SendLine(C!Says("close", s), served \ {s}, pending)
        PROVE  \E line : Reports(s, line) /\ C!Working' \subseteq C!Working
    <2>1. Reports(s, C!Says("close", s)) /\ C!Working' \subseteq (served \ {s}) \cup pending
      BY <1>4, SendReports
    <2> QED BY <2>1
  <1>5. CASE C!AgentOverruns(s) BY <1>4, <1>5 DEF C!AgentOverruns
  <1>6. CASE C!AgentExits(s) BY <1>1, <1>4, <1>6 DEF C!AgentExits
  <1> QED BY <1>2, <1>3, <1>5, <1>6

-----------------------------------------------------------------------------
(* What the companion posts stays sound. *)

\* An epoch that ends leaves its body to be read late.
LEMMA DrainsSound ==
    ASSUME AgreeInv, Steady, body' = <<>>, outbox' = outbox \/ outbox' = <<>>, C!Drains
    PROVE  SoundLines'
  <1>1. /\ Unsent(outbox) /\ Posted(body) /\ Late(draining)
        /\ outbox \in Seq(C!Line) /\ body \in Seq(C!Line) /\ draining \in Seq(C!Line)
    BY DEF AgreeInv, SoundLines, SystemInv, LinesOK
  <1>2. PICK p, q, r : p = outbox /\ q = body /\ r = draining OBVIOUS
  <1>3. Unsent(p)' /\ Late(q)' /\ Late(r)'
    <2>1. Late(q) BY <1>1, <1>2 DEF Posted, Late
    <2> QED BY <1>1, <1>2, <2>1, QueuesStay
  <1>4. outbox' = p \/ outbox' = <<>> BY <1>2
  <1>5. draining' = q \/ draining' = r BY <1>2 DEF C!Drains
  <1> QED BY <1>3, <1>4, <1>5, QueuesNone, LinesAre

LEMMA ReportSounds ==
    ASSUME AgreeInv, Steady, NEW s, NEW line, Reports(s, line), Sound(line)'
    PROVE  SoundLines'
  <1>1. /\ Unsent(outbox) /\ Posted(body) /\ Late(draining)
        /\ outbox \in Seq(C!Line) /\ body \in Seq(C!Line) /\ draining \in Seq(C!Line)
    BY DEF AgreeInv, SoundLines, SystemInv, LinesOK
  <1>2. CASE UNCHANGED C!lines BY <1>2, LinesSame DEF AgreeInv, SystemInv, C!lines
  <1>3. CASE C!Enqueue(line, served', pending')
    <2>1. PICK p, q, r : p = outbox /\ q = body /\ r = draining OBVIOUS
    <2>2. Unsent(p)' /\ Posted(q)' /\ Late(r)' BY <1>1, <2>1, QueuesStay
    <2>3. Unsent(Append(p, line))' /\ Posted(Append(q, line))'
      BY <1>1, <2>1, <2>2, QueuesAppend DEF Reports
    <2>4. /\ draining' = r
          /\ body' = q \/ body' = Append(q, line)
          /\ outbox' = p \/ outbox' = Append(p, line)
      BY <1>3, <2>1 DEF C!Enqueue
    <2> QED BY <2>2, <2>3, <2>4, LinesAre
  <1>4. CASE C!Overflow BY <1>4, DrainsSound DEF C!Overflow
  <1> QED BY <1>2, <1>3, <1>4 DEF Reports

-----------------------------------------------------------------------------
(* Steps that end the leg, and steps that leave it. *)

LEMMA DeadAgrees ==
    ASSUME AgreeInv, SystemInv', R!Ignored, UNCHANGED client, leg' # "companion",
           down' = down \/ down' = <<>>, SoundLines'
    PROVE  AgreeInv'
  <1>1. Pairs' /\ R!Live' = R!Live BY RelayStill
  <1>2. LiveAsked' BY <1>1 DEF AgreeInv, LiveAsked
  <1>3. ClosedGone'
    <2>1. DOMAIN <<>> = {} OBVIOUS
    <2>2. \A s : ClosesOf(down', s) # {} => ClosesOf(down, s) # {} BY <2>1 DEF ClosesOf
    <2> QED BY <1>1, <2>2 DEF AgreeInv, ClosedGone, ClosesOf
  <1> QED BY <1>1, <1>2, <1>3 DEF AgreeInv, Told, Joined, Legs

LEMMA BodyGrows ==
    ASSUME body \in Seq(C!Line), NEW line \in C!Line, line.kind # "hello",
           body' = body \/ body' = Append(body, line)
    PROVE  /\ Declares' <=> Declares
           /\ Declares => body'[1] = body[1]
           /\ \A p : EndsOf(body, p) \subseteq EndsOf(body', p)
           /\ body' = Append(body, line) /\ line.kind \in {"refused", "close"} =>
                \A p \in line.ids : EndsOf(body', p) # {}
  <1>1. CASE body' = Append(body, line)
    <2>1. /\ Append(body, line) # <<>>
          /\ \A i \in DOMAIN body : i \in DOMAIN Append(body, line) /\ Append(body, line)[i] = body[i]
          /\ \E i \in DOMAIN Append(body, line) : Append(body, line)[i] = line
          /\ Append(body, line)[1] = IF body = <<>> THEN line ELSE body[1]
      BY Appended
    <2> QED BY <1>1, <2>1 DEF Declares, EndsOf
  <1>2. CASE body' = body /\ body' # Append(body, line) BY <1>2 DEF Declares, EndsOf
  <1> QED BY <1>1, <1>2

LEMMA HandlerJoins ==
    ASSUME AgreeInv, R!Ignored, UNCHANGED <<leg, link, shuttingDown>>,
           NEW line \in C!Line, line.kind # "hello",
           body' = body \/ body' = Append(body, line),
           \A p \in R!Live : p \in C!Working \/ OpensOf(down, p) # {} =>
               p \in C!Working' \/ OpensOf(down', p) # {} \/ EndsOf(body', p) # {},
           \A p \in SessionId : p \in C!Working' =>
               /\ p \in C!Working \/ p \in R!Live \/ ClosesOf(down', p) # {}
               /\ ClosesOf(down, p) # {} => ClosesOf(down', p) # {}
    PROVE  Joined'
  <1> SUFFICES ASSUME link = "attached", leg = "companion", ~shuttingDown, NEW p \in SessionId
               PROVE  /\ Kept(p)' => p \in C!Working' \/ OpensOf(down', p) # {} \/ EndsOf(body', p) # {}
                      /\ p \in C!Working' =>
                           \/ p \in R!Live' \/ ClosesOf(down', p) # {}
                           \/ (Declares' /\ p \in body'[1].ids)
    BY DEF Joined, OpensOf, ClosesOf, EndsOf, C!Working
  <1>1. R!Live' = R!Live BY RelayStill
  <1>2. /\ Declares' <=> Declares
        /\ Declares => body'[1] = body[1]
        /\ EndsOf(body, p) \subseteq EndsOf(body', p)
    BY BodyGrows DEF AgreeInv, SystemInv, LinesOK
  <1>3. Kept(p)' => Kept(p) /\ p \in R!Live BY <1>1, <1>2 DEF Kept
  <1>4. /\ Kept(p) => p \in C!Working \/ OpensOf(down, p) # {} \/ EndsOf(body, p) # {}
        /\ p \in C!Working =>
             p \in R!Live \/ ClosesOf(down, p) # {} \/ (Declares /\ p \in body[1].ids)
    BY DEF AgreeInv, Joined
  <1> QED BY <1>1, <1>2, <1>3, <1>4

-----------------------------------------------------------------------------
(* The companion keeps it. *)

LEMMA WorksAgree ==
    ASSUME AgreeInv, SystemInv', CompanionWorks
    PROVE  AgreeInv'
  <1>1. /\ R!Ignored /\ UNCHANGED <<client, shuttingDown>> /\ Handled
        /\ Parts /\ IdsFresh /\ OpensAhead
    BY DEF CompanionWorks, C!CloneEnds, C!AgentSpeaks, C!AgentOverruns, C!AgentExits, C!process,
       AgreeInv, SystemInv
  <1>2. PICK s \in SessionId :
            C!CloneEnds(s) \/ C!AgentSpeaks(s) \/ C!AgentOverruns(s) \/ C!AgentExits(s)
    BY DEF CompanionWorks
  <1>3. s \in Known BY <1>1, <1>2, WorkReports
  <1>4. PICK line : Reports(s, line) /\ C!Working' \subseteq C!Working
    BY <1>1, <1>2, WorkReports
  <1>5. client[s] # "idle" /\ OpensOf(down, s) = {} BY <1>1, <1>3 DEF IdsFresh, OpensAhead
  <1>6. down' = down \/ down' = <<>> BY <1>1 DEF Handled, LegDies, gateway
  <1>7. \A p \in SessionId : OpensOf(down, p) = {} => OpensOf(down', p) = {}
    <2>1. DOMAIN <<>> = {} OBVIOUS
    <2> QED BY <1>6, <2>1 DEF OpensOf
  <1>8. Steady BY <1>1, <1>4, <1>7 DEF Steady, C!Working
  <1>9. Sound(line)'
    <2>1. line.ids = {s} /\ (line.kind = "refused" => s \notin C!Working') BY <1>4 DEF Reports
    <2>2. client'[s] # "idle" /\ OpensOf(down', s) = {} BY <1>1, <1>5, <1>7
    <2> QED BY <2>1, <2>2 DEF Sound, OpensOf, C!Working
  <1>10. SoundLines' BY <1>4, <1>8, <1>9, ReportSounds
  <1>11. CASE leg' # "companion" BY <1>1, <1>6, <1>10, <1>11, DeadAgrees
  <1>12. CASE leg' = "companion"
    <2>1. link' = link /\ UNCHANGED gateway BY <1>1, <1>12 DEF Handled, LegDies
    <2>2. link # "off" BY <1>12, <2>1 DEF AgreeInv, Legs, gateway
    <2>3. Pairs' /\ R!Live' = R!Live BY <1>1, RelayStill
    <2>4. /\ down' = down /\ leg' = leg BY <2>1 DEF gateway
    <2>5. LiveAsked' BY <1>1, <2>3 DEF AgreeInv, LiveAsked
    <2>6. ClosedGone' BY <1>1, <2>3, <2>4 DEF AgreeInv, ClosedGone
    <2>7. Told' BY <2>3, <2>4 DEF AgreeInv, Told
    <2>8. Legs' BY <2>1, <2>4 DEF AgreeInv, Legs
    <2>9. ~C!Overflow BY <2>1, <2>2 DEF C!Overflow
    <2>10. CASE link # "attached" BY <1>12, <2>1, <2>3, <2>5, <2>6, <2>7, <2>8, <2>10, <1>10 DEF AgreeInv, Joined
    <2>11. CASE link = "attached"
      <3>1. /\ line \in C!Line /\ line.kind # "hello" /\ line.ids = {s}
            /\ body' = body \/ body' = Append(body, line)
            /\ \A p \in C!Working \ C!Working' :
                  p = s /\ line.kind \in {"refused", "close"} /\ body' = Append(body, line)
        BY <1>4, <2>9, <2>11 DEF Reports, C!Enqueue, C!HasUpstream, C!lines
      <3>2. \A p \in C!Working \ C!Working' : EndsOf(body', p) # {}
        BY <3>1, BodyGrows DEF AgreeInv, SystemInv, LinesOK
      <3>3. Joined' BY <1>1, <1>4, <2>1, <2>4, <3>1, <3>2, HandlerJoins
      <3> QED BY <1>10, <2>3, <2>5, <2>6, <2>7, <2>8, <3>3 DEF AgreeInv
    <2> QED BY <2>10, <2>11
  <1> QED BY <1>11, <1>12

\* A line less on the leg.
LEMMA TailLegs ==
    ASSUME down \in Seq(DownLine), down # <<>>, down' = Tail(down), NEW p
    PROVE  /\ \A i \in OpensOf(down', p) : i \in Nat \ {0} /\ i + 1 \in OpensOf(down, p)
           /\ \A i \in ClosesOf(down', p) : i \in Nat \ {0} /\ i + 1 \in ClosesOf(down, p)
           /\ \A i \in OpensOf(down, p) : i \in Nat /\ (i # 1 => i - 1 \in OpensOf(down', p))
           /\ \A i \in ClosesOf(down, p) : i \in Nat /\ (i # 1 => i - 1 \in ClosesOf(down', p))
           /\ 1 \in OpensOf(down, p) <=> Head(down).kind = "open" /\ Head(down).session = p
           /\ 1 \in ClosesOf(down, p) <=> Head(down).kind = "close" /\ Head(down).session = p
  <1>1. /\ 1 \in DOMAIN down /\ Head(down) = down[1]
        /\ \A i \in DOMAIN down' : i \in Nat \ {0} /\ i + 1 \in DOMAIN down /\ down'[i] = down[i + 1]
        /\ \A i \in DOMAIN down : i # 1 => /\ i - 1 \in DOMAIN down' /\ down'[i - 1] = down[i]
                                           /\ i \in Nat
    BY Shifted
  <1> QED BY <1>1 DEF OpensOf, ClosesOf

LEMMA TailTold ==
    ASSUME AgreeInv, R!Ignored, UNCHANGED <<client, leg>>, down # <<>>, down' = Tail(down)
    PROVE  Told' /\ ClosedGone' /\ LiveAsked'
  <1>1. R!Live' = R!Live BY RelayStill
  <1>2. LiveAsked' BY <1>1 DEF AgreeInv, LiveAsked
  <1>3. ASSUME NEW p
        PROVE  /\ \A i \in OpensOf(down', p) : i \in Nat \ {0} /\ i + 1 \in OpensOf(down, p)
               /\ \A i \in ClosesOf(down', p) : i \in Nat \ {0} /\ i + 1 \in ClosesOf(down, p)
               /\ \A i \in ClosesOf(down, p) : i \in Nat /\ (i # 1 => i - 1 \in ClosesOf(down', p))
    BY TailLegs DEF AgreeInv, SystemInv
  <1>4. ClosedGone'
    <2> SUFFICES ASSUME NEW p \in SessionId, ClosesOf(down', p) # {}
                 PROVE  p \notin R!Live' /\ client'[p] # "idle"
      BY DEF ClosedGone, ClosesOf
    <2>1. ClosesOf(down, p) # {} BY <1>3
    <2> QED BY <1>1, <2>1 DEF AgreeInv, ClosedGone
  <1>5. Told'
    <2> SUFFICES ASSUME leg = "companion", NEW p \in SessionId, NEW i \in OpensOf(down', p),
                        p \notin R!Live
                 PROVE  \E j \in ClosesOf(down', p) : i < j
      BY <1>1 DEF Told, OpensOf, ClosesOf
    <2>1. i \in Nat \ {0} /\ i + 1 \in OpensOf(down, p) BY <1>3
    <2>2. PICK j \in ClosesOf(down, p) : i + 1 < j BY <2>1 DEF AgreeInv, Told
    <2>3. j \in Nat /\ j # 1 BY <1>3, <2>1, <2>2
    <2>4. j - 1 \in ClosesOf(down', p) /\ i < j - 1 BY <1>3, <2>1, <2>2, <2>3
    <2> QED BY <2>4
  <1> QED BY <1>2, <1>4, <1>5

LEMMA ReadsAgree ==
    ASSUME AgreeInv, SystemInv', CompanionReads
    PROVE  AgreeInv'
  <1> DEFINE s == Head(down).session
             kind == Head(down).kind
  <1>1. /\ R!Ignored /\ client' = client /\ link = "attached" /\ down # <<>>
        /\ C!Receive(kind, s)
        /\ \/ link' = link /\ down' = Tail(down) /\ leg' = leg
           \/ link' # link /\ down' = <<>> /\ leg' # "companion"
        /\ Parts /\ LinesOK /\ OpenedOnce /\ OpensAhead /\ down \in Seq(DownLine)
    BY DEF CompanionReads, LegDies, AgreeInv, SystemInv
  <1>2. s \in SessionId
    <2>1. Head(down) \in DownLine BY <1>1, Shifted
    <2> QED BY <2>1 DEF DownLine
  <1>3. R!Live' = R!Live /\ Pairs' BY <1>1, RelayStill
  <1>4. ASSUME NEW p, down' = Tail(down)
        PROVE  /\ \A i \in OpensOf(down', p) : i \in Nat \ {0} /\ i + 1 \in OpensOf(down, p)
               /\ \A i \in OpensOf(down, p) : i # 1 => i - 1 \in OpensOf(down', p)
               /\ \A i \in ClosesOf(down, p) : i \in Nat /\ (i # 1 => i - 1 \in ClosesOf(down', p))
               /\ 1 \in OpensOf(down, p) <=> kind = "open" /\ s = p
               /\ 1 \in ClosesOf(down, p) <=> kind = "close" /\ s = p
    BY <1>1, <1>4, TailLegs
  <1>5. \A p : OpensOf(down, p) = {} => OpensOf(down', p) = {}
    <2>1. DOMAIN <<>> = {} OBVIOUS
    <2>2. CASE down' = <<>> BY <2>1, <2>2 DEF OpensOf
    <2> QED BY <1>1, <1>4, <2>2
  <1>6. 1 \in DOMAIN down /\ Head(down) = down[1] BY <1>1, Shifted
  <1>7. /\ kind = "open" => 1 \in OpensOf(down, s)
        /\ kind = "close" => 1 \in ClosesOf(down, s)
    BY <1>6 DEF OpensOf, ClosesOf
  <1> HIDE DEF s, kind
  <1>8. CASE UNCHANGED C!vars /\ (shuttingDown \/ kind = "frame")
    <2>1. /\ down' = Tail(down) /\ leg' = leg /\ UNCHANGED AtWork /\ UNCHANGED C!lines
          /\ UNCHANGED <<link, shuttingDown>>
      BY <1>1, <1>8 DEF C!vars, C!work, C!process, AtWork
    <2>2. Told' /\ ClosedGone' /\ LiveAsked' BY <1>1, <2>1, TailTold
    <2>3. Steady BY <1>1, <1>5, <2>1 DEF Steady, AtWork, C!Working
    <2>4. SoundLines' BY <1>1, <2>1, <2>3, LinesSame DEF AgreeInv, C!lines
    <2>5. Legs' BY <2>1 DEF AgreeInv, Legs
    <2>6. Joined'
      <3>1. CASE shuttingDown BY <2>1, <3>1 DEF Joined
      <3>2. CASE kind = "frame"
        <4>1. C!Working' = C!Working BY <2>1 DEF AtWork, C!Working
        <4>2. C!Says("frame", s) \in C!Line /\ C!Says("frame", s).kind # "hello"
          BY <1>2, SaysLine DEF C!Says
        <4>3. \A p : /\ OpensOf(down, p) # {} => OpensOf(down', p) # {}
                     /\ ClosesOf(down, p) # {} => ClosesOf(down', p) # {}
          BY <1>4, <2>1, <3>2
        <4> QED BY <1>1, <2>1, <4>1, <4>2, <4>3, HandlerJoins DEF C!lines
      <3> QED BY <1>8, <3>1, <3>2
    <2> QED BY <1>3, <2>2, <2>4, <2>5, <2>6 DEF AgreeInv
  <1>9. CASE kind = "close" /\ C!CloseSession(s)
    <2>1. /\ UNCHANGED <<link, shuttingDown>> /\ UNCHANGED C!lines
          /\ C!Working' = C!Working \ {s}
      BY <1>9 DEF C!CloseSession, C!Leaves, C!process, C!Working
    <2>2. down' = Tail(down) /\ leg' = leg BY <1>1, <2>1
    <2>3. Told' /\ ClosedGone' /\ LiveAsked' BY <1>1, <2>2, TailTold
    <2>4. Steady BY <1>1, <1>5, <2>1 DEF Steady
    <2>5. SoundLines' BY <1>1, <2>1, <2>4, LinesSame DEF AgreeInv, C!lines
    <2>6. Legs' BY <2>1, <2>2 DEF AgreeInv, Legs
    <2>7. Joined'
      <3>1. s \notin R!Live BY <1>2, <1>7, <1>9 DEF AgreeInv, ClosedGone
      <3>2. C!Says("close", s) \in C!Line /\ C!Says("close", s).kind # "hello"
        BY <1>2, SaysLine DEF C!Says
      <3>3. \A p : /\ OpensOf(down, p) # {} => OpensOf(down', p) # {}
                   /\ ClosesOf(down, p) # {} /\ p # s => ClosesOf(down', p) # {}
        BY <1>4, <1>9, <2>2
      <3> QED BY <1>1, <2>1, <2>2, <3>1, <3>2, <3>3, HandlerJoins DEF C!lines
    <2> QED BY <1>3, <2>3, <2>5, <2>6, <2>7 DEF AgreeInv
  <1>10. CASE kind = "open" /\ C!OpenSession(s)
    <2>1. 1 \in OpensOf(down, s) /\ s \notin Known /\ client[s] # "idle"
      BY <1>1, <1>2, <1>7, <1>10 DEF OpensAhead
    <2>2. s \notin C!Working BY <1>1, <2>1 DEF Parts, Known, C!Working
    <2>3. PICK line : /\ Reports(s, line) /\ C!Working' \subseteq C!Working \cup {s}
                      /\ \/ s \in C!Working' \/ C!Overflow
                         \/ line.kind = "refused" /\ C!Enqueue(line, served', pending')
      BY <1>1, <1>2, <1>10, <2>1, OpenReports
    <2>4. OpensOf(down', s) = {}
      <3>1. DOMAIN <<>> = {} OBVIOUS
      <3>2. CASE down' = <<>> BY <3>1, <3>2 DEF OpensOf
      <3>3. CASE down' = Tail(down) BY <1>1, <1>2, <2>1, <3>3, TailFewer
      <3> QED BY <1>1, <3>2, <3>3
    <2>5. Steady BY <1>1, <1>5, <2>1, <2>3 DEF Steady
    <2>6. Sound(line)'
      <3>1. line.ids = {s} /\ (line.kind = "refused" => s \notin C!Working') BY <2>3 DEF Reports
      <3>2. client'[s] # "idle" BY <1>1, <2>1
      <3> QED BY <1>2, <2>4, <3>1, <3>2 DEF Sound, OpensOf, C!Working
    <2>7. SoundLines' BY <2>3, <2>5, <2>6, ReportSounds
    <2>8. CASE link' # link BY <1>1, <2>7, <2>8, DeadAgrees
    <2>9. CASE link' = link
      <3>1. down' = Tail(down) /\ leg' = leg /\ ~C!Overflow BY <1>1, <2>9 DEF C!Overflow
      <3>2. Told' /\ ClosedGone' /\ LiveAsked' BY <1>1, <3>1, TailTold
      <3>3. Legs' BY <2>9, <3>1 DEF AgreeInv, Legs
      <3>4. /\ line \in C!Line /\ line.kind # "hello" /\ line.ids = {s}
            /\ body' = body \/ body' = Append(body, line)
            /\ C!Working \subseteq C!Working' \cup {s}
            /\ s \in C!Working' \/ (line.kind = "refused" /\ body' = Append(body, line))
        BY <1>1, <2>3, <3>1 DEF Reports, C!Enqueue, C!HasUpstream, C!lines
      <3>5. s \in C!Working' \/ EndsOf(body', s) # {}
        BY <1>1, <3>4, BodyGrows DEF LinesOK
      <3>6. \A p : /\ OpensOf(down, p) # {} /\ p # s => OpensOf(down', p) # {}
                   /\ ClosesOf(down, p) # {} => ClosesOf(down', p) # {}
        BY <1>4, <1>10, <3>1
      <3>7. leg = "companion" => s \in R!Live \/ ClosesOf(down', s) # {}
        <4>1. leg = "companion" => s \in R!Live \/ ClosesOf(down, s) # {}
          BY <1>2, <2>1 DEF AgreeInv, Told
        <4> QED BY <3>6, <4>1
      <3>8. shuttingDown' = shuttingDown
        BY <1>10 DEF C!OpenSession, C!RefuseOpen, C!Spawn, C!BeginClone, C!process
      <3>9. Joined'
        <4>1. CASE leg # "companion" BY <3>1, <4>1 DEF Joined
        <4>2. CASE leg = "companion"
          BY <1>1, <2>2, <2>3, <2>9, <3>1, <3>4, <3>5, <3>6, <3>7, <3>8, <4>2, HandlerJoins
        <4> QED BY <4>1, <4>2
      <3> QED BY <1>3, <2>7, <3>2, <3>3, <3>9 DEF AgreeInv
    <2> QED BY <2>8, <2>9
  <1> QED BY <1>1, <1>8, <1>9, <1>10 DEF C!Receive

\* Nothing that the invariant speaks of changes.
LEMMA StillAgrees ==
    ASSUME AgreeInv, SystemInv', UNCHANGED AtWork,
           UNCHANGED <<endpoints, sessions, attachments, leg, down, client, outbox, body, draining,
                       link, shuttingDown>>
    PROVE  AgreeInv'
  <1>1. Pairs' /\ R!Live' = R!Live BY DEF AgreeInv, Pairs, R!Live, R!Held
  <1>2. Steady BY DEF Steady, AtWork, C!Working
  <1>3. SoundLines' BY <1>2, LinesSame DEF AgreeInv, SystemInv
  <1>4. LiveAsked' /\ ClosedGone' /\ Told' /\ Legs'
    BY <1>1 DEF AgreeInv, LiveAsked, ClosedGone, Told, Legs
  <1>5. Joined' BY <1>1 DEF AgreeInv, Joined, Kept, Declares, AtWork, C!Working
  <1> QED BY <1>1, <1>3, <1>4, <1>5 DEF AgreeInv

\* The hello and what waited behind it.
LEMMA QueuesJoin ==
    ASSUME NEW p \in Seq(C!Line), NEW q \in Seq(C!Line), Unsent(q)'
    PROVE  /\ Unsent(p)' => Unsent(p \o q)'
           /\ Posted(p)' => Posted(p \o q)'
  <1>1. /\ \A i \in DOMAIN (p \o q) :
             \/ i \in DOMAIN p /\ (p \o q)[i] = p[i]
             \/ \E j \in DOMAIN q : (p \o q)[i] = q[j]
    BY Placed
  <1> QED BY <1>1 DEF Unsent, Posted

LEMMA ConnectsAgree ==
    ASSUME AgreeInv, SystemInv', Connects
    PROVE  AgreeInv'
  <1>1. /\ R!Ignored /\ down' = <<>> /\ link' = "connecting"
        /\ UNCHANGED AtWork /\ UNCHANGED <<client, outbox, body, draining>>
    BY DEF Connects, C!Connect, C!work, C!lines, AtWork
  <1>2. Pairs' /\ R!Live' = R!Live BY <1>1, RelayStill
  <1>3. \A s : OpensOf(down', s) = {} /\ ClosesOf(down', s) = {}
    <2>1. DOMAIN <<>> = {} OBVIOUS
    <2> QED BY <1>1, <2>1 DEF OpensOf, ClosesOf
  <1>4. Steady BY <1>1, <1>3 DEF Steady, AtWork, C!Working
  <1>5. SoundLines' BY <1>1, <1>4, LinesSame DEF AgreeInv, SystemInv
  <1>6. LiveAsked' BY <1>1, <1>2 DEF AgreeInv, LiveAsked
  <1>7. ClosedGone' /\ Told' BY <1>3 DEF ClosedGone, Told, OpensOf, ClosesOf
  <1>8. Legs' /\ Joined' BY <1>1 DEF Legs, Joined
  <1> QED BY <1>2, <1>5, <1>6, <1>7, <1>8 DEF AgreeInv

LEMMA AttachesAgree ==
    ASSUME AgreeInv, SystemInv', Attaches
    PROVE  AgreeInv'
  <1> DEFINE hello == [kind |-> "hello", ids |-> C!Working]
  <1>1. /\ R!Ignored /\ link' = "attached" /\ body' = <<hello>> \o outbox /\ outbox' = <<>>
        /\ UNCHANGED AtWork /\ UNCHANGED <<client, draining, down, leg>>
    BY DEF Attaches, C!Attach, C!work, AtWork
  <1>2. Pairs' /\ R!Live' = R!Live BY <1>1, RelayStill
  <1>3. hello \in C!Line /\ <<hello>> \in Seq(C!Line) /\ outbox \in Seq(C!Line)
    BY DEF AgreeInv, SystemInv, Parts, LinesOK, Known, C!Working, C!Line
  <1>4. Steady BY <1>1 DEF Steady, AtWork, C!Working
  <1>5. PICK h : h = hello OBVIOUS
  <1>6. body' # <<>> /\ body'[1] = hello
    <2>1. 1 \in DOMAIN <<hello>> /\ <<hello>>[1] = hello OBVIOUS
    <2>2. 1 \in DOMAIN (<<hello>> \o outbox) /\ (<<hello>> \o outbox)[1] = hello
      BY <1>3, <2>1, Placed
    <2> QED BY <1>1, <2>2
  <1>7. SoundLines'
    <2>1. /\ Unsent(outbox) /\ Late(draining) /\ draining \in Seq(C!Line)
      BY DEF AgreeInv, SoundLines, SystemInv, LinesOK
    <2>2. PICK p, q : p = outbox /\ q = draining OBVIOUS
    <2>3. Unsent(p)' /\ Late(q)' BY <1>3, <1>4, <2>1, <2>2, QueuesStay
    <2>4. Sound(h)'
      <3>1. \A s \in C!Working : client[s] # "idle"
        BY DEF AgreeInv, SystemInv, IdsFresh, Parts, Known, C!Working
      <3>2. h.kind = "hello" /\ \A s \in h.ids : client'[s] # "idle" BY <1>1, <1>5, <3>1
      <3> QED BY <3>2 DEF Sound
    <2>5. Posted(<<h>>)' BY <2>4 DEF Posted, Sound
    <2>6. Posted(<<h>> \o p)' BY <1>3, <1>5, <2>2, <2>3, <2>5, QueuesJoin
    <2> QED BY <1>1, <1>5, <2>2, <2>3, <2>6, QueuesNone, LinesAre
  <1>8. LiveAsked' /\ ClosedGone' /\ Told'
    BY <1>1, <1>2 DEF AgreeInv, LiveAsked, ClosedGone, Told
  <1>9. Legs' BY <1>1 DEF Legs
  <1>10. Joined'
    <2>1. C!Working' = C!Working BY <1>1 DEF AtWork, C!Working
    <2>2. Declares' /\ body'[1].ids = C!Working BY <1>6 DEF Declares
    <2> QED BY <2>1, <2>2 DEF Joined, Kept
  <1> QED BY <1>2, <1>7, <1>8, <1>9, <1>10 DEF AgreeInv

\* An epoch, or the process, is over.
LEMMA EndsAgree ==
    ASSUME AgreeInv, SystemInv', NetworkBreaks \/ EpochFails \/ GivesUp \/ Quits \/ Crashes
    PROVE  AgreeInv'
  <1>1. /\ R!Ignored /\ client' = client /\ down' = <<>> /\ leg' # "companion"
        /\ body' = <<>> /\ C!Drains /\ (outbox' = outbox \/ outbox' = <<>>)
        /\ UNCHANGED AtWork \/ C!Working' = {}
    BY DEF NetworkBreaks, EpochFails, GivesUp, Quits, Crashes, EpochEnds, CompanionExits, LegDies,
           C!Break, C!EpochEnds, C!Exit, C!work, AtWork, C!Working
  <1>2. \A s : OpensOf(down', s) = {}
    <2>1. DOMAIN <<>> = {} OBVIOUS
    <2> QED BY <1>1, <2>1 DEF OpensOf
  <1>3. Steady BY <1>1, <1>2 DEF Steady, AtWork, C!Working
  <1>4. SoundLines' BY <1>1, <1>3, DrainsSound
  <1> QED BY <1>1, <1>4, DeadAgrees

LEMMA ShutsDownAgrees ==
    ASSUME AgreeInv, SystemInv', ShutsDown
    PROVE  AgreeInv'
  <1>1. PICK q \in SetToSeqs(served), r \in SetToSeqs(pending) : C!Shutdown(q \o r)
    BY DEF ShutsDown
  <1> DEFINE last == C!Closes(q \o r) \o <<[kind |-> "goodbye", ids |-> {}]>>
  <1>2. /\ R!Ignored /\ UNCHANGED gateway /\ client' = client
        /\ shuttingDown' = TRUE /\ served' = {} /\ pending' = {}
        /\ body' = body \o last \/ body' = body
        /\ outbox' = outbox \/ outbox' = outbox \o last
        /\ UNCHANGED <<link, draining>>
    BY <1>1 DEF ShutsDown, C!Shutdown
  <1>3. Pairs' /\ R!Live' = R!Live BY <1>2, RelayStill
  <1>4. Steady BY <1>2 DEF Steady, C!Working, gateway, OpensOf
  <1>5. Parts /\ IdsFresh BY DEF AgreeInv, SystemInv
  <1>6. q \in Seq(SessionId) /\ r \in Seq(SessionId) BY <1>5, OrderOf DEF Parts, Known
  <1>7. \A i \in DOMAIN (q \o r) : (q \o r)[i] \in C!Working
    <2>1. \A i \in DOMAIN q : q[i] \in served
      <3>1. q \in [1..Cardinality(served) -> served] BY DEF SetToSeqs
      <3> QED BY <3>1
    <2>2. \A i \in DOMAIN r : r[i] \in pending
      <3>1. r \in [1..Cardinality(pending) -> pending] BY DEF SetToSeqs
      <3> QED BY <3>1
    <2>3. \A i \in DOMAIN (q \o r) :
             \/ i \in DOMAIN q /\ (q \o r)[i] = q[i]
             \/ \E j \in DOMAIN r : (q \o r)[i] = r[j]
      BY <1>6, Placed
    <2> QED BY <2>1, <2>2, <2>3 DEF C!Working
  <1>8. \A s \in C!Working : s \in SessionId /\ client'[s] # "idle"
    BY <1>2, <1>5 DEF IdsFresh, Parts, Known, C!Working
  <1>9. last \in Seq(C!Line) /\ Unsent(last)'
    <2> DEFINE cs == C!Closes(q \o r)
               bye == [kind |-> "goodbye", ids |-> {}]
    <2>1. q \o r \in Seq(SessionId) BY <1>6, ConcatProperties
    <2>2. /\ DOMAIN cs = DOMAIN (q \o r)
          /\ \A i \in DOMAIN cs : cs[i] = C!Says("close", (q \o r)[i])
      BY DEF C!Closes
    <2>3. cs \in Seq(C!Line)
      <3>1. \A i \in DOMAIN (q \o r) : cs[i] \in C!Line BY <1>7, <1>8, <2>2, SaysLine
      <3>2. cs \in [DOMAIN (q \o r) -> C!Line] BY <3>1 DEF C!Closes
      <3>3. DOMAIN (q \o r) = 1..Len(q \o r) /\ Len(q \o r) \in Nat BY <2>1, LenProperties
      <3> QED BY <3>2, <3>3
    <2> HIDE DEF cs
    <2>4. Unsent(cs)'
      <3>1. \A s \in C!Working : Sound(C!Says("close", s))'
        <4>1. ASSUME NEW s \in SessionId, client'[s] # "idle"
              PROVE  Sound(C!Says("close", s))'
          BY <4>1 DEF Sound, C!Says
        <4> QED BY <1>8, <4>1
      <3>2. \A s : C!Says("close", s).kind # "hello" BY DEF C!Says
      <3> QED BY <1>7, <2>2, <3>1, <3>2 DEF Unsent, Sound
    <2>5. bye \in C!Line /\ <<bye>> \in Seq(C!Line) BY DEF C!Line
    <2>6. Unsent(<<bye>>)' BY DEF Unsent, Sound
    <2>7. PICK p, t : p = cs /\ t = <<bye>> OBVIOUS
    <2>8. p \in Seq(C!Line) /\ t \in Seq(C!Line) /\ p \o t = last BY <2>3, <2>5, <2>7 DEF cs
    <2>9. Unsent(p)' /\ Unsent(t)' BY <2>4, <2>6, <2>7 DEF Unsent, Sound
    <2>10. Unsent(p \o t)' BY <2>8, <2>9, QueuesJoin
    <2>11. p \o t \in Seq(C!Line) BY <2>8, ConcatProperties
    <2> QED BY <2>8, <2>10, <2>11 DEF Unsent, Sound
  <1> HIDE DEF last
  <1>10. SoundLines'
    <2>1. /\ Unsent(outbox) /\ Posted(body) /\ Late(draining)
          /\ outbox \in Seq(C!Line) /\ body \in Seq(C!Line) /\ draining \in Seq(C!Line)
      BY DEF AgreeInv, SoundLines, SystemInv, LinesOK
    <2>2. PICK o, b, d, t : o = outbox /\ b = body /\ d = draining /\ t = last OBVIOUS
    <2>3. Unsent(o)' /\ Posted(b)' /\ Late(d)' BY <1>4, <2>1, <2>2, QueuesStay
    <2>4. t \in Seq(C!Line) /\ Unsent(t)' BY <1>9, <2>2 DEF Unsent, Sound
    <2>5. Unsent(o \o t)' /\ Posted(b \o t)' BY <2>1, <2>2, <2>3, <2>4, QueuesJoin
    <2>6. /\ outbox' = o \/ outbox' = o \o t
          /\ body' = b \/ body' = b \o t
          /\ draining' = d
      BY <1>2, <2>2
    <2> QED BY <2>3, <2>5, <2>6, LinesAre
  <1>11. LiveAsked' /\ ClosedGone' /\ Told' /\ Legs'
    BY <1>2, <1>3 DEF AgreeInv, LiveAsked, ClosedGone, Told, Legs, gateway
  <1>12. Joined' BY <1>2 DEF Joined
  <1> QED BY <1>3, <1>10, <1>11, <1>12 DEF AgreeInv

-----------------------------------------------------------------------------
LEMMA InitAgrees == Init => AgreeInv
  <1> SUFFICES ASSUME Init PROVE AgreeInv OBVIOUS
  <1>1. SystemInv BY InitHolds
  <1>2. R!Live = {} /\ R!Held(Laptop) = {} BY DEF Init, R!Init, R!Live, R!Held
  <1>3. Pairs BY <1>2 DEF Init, R!Init, Pairs
  <1>4. DOMAIN <<>> = {} OBVIOUS
  <1>5. \A s : OpensOf(down, s) = {} /\ ClosesOf(down, s) = {}
    BY <1>4 DEF Init, OpensOf, ClosesOf
  <1>6. SoundLines BY <1>4 DEF Init, C!Init, SoundLines, Unsent, Posted, Late
  <1>7. LiveAsked /\ ClosedGone /\ Told BY <1>2, <1>5 DEF LiveAsked, ClosedGone, Told
  <1>8. Legs /\ Joined BY DEF Init, C!Init, Legs, Joined
  <1> QED BY <1>1, <1>3, <1>6, <1>7, <1>8 DEF AgreeInv

LEMMA NextAgrees == AgreeInv /\ [Next]_vars => AgreeInv'
  <1> SUFFICES ASSUME AgreeInv, [Next]_vars PROVE AgreeInv' OBVIOUS
  <1>1. SystemInv' BY NextKeeps DEF AgreeInv
  <1>2. CASE UNCHANGED vars
    BY <1>1, <1>2, StillAgrees DEF vars, relayState, companion, gateway, AtWork
  <1>3. CASE CompanionReads BY <1>1, <1>3, ReadsAgree
  <1>4. CASE CompanionWorks BY <1>1, <1>4, WorksAgree
  <1>5. CASE Connects BY <1>1, <1>5, ConnectsAgree
  <1>6. CASE Attaches BY <1>1, <1>6, AttachesAgree
  <1>7. CASE NetworkBreaks \/ EpochFails \/ GivesUp \/ Quits \/ Crashes
    BY <1>1, <1>7, EndsAgree
  <1>8. CASE ShutsDown BY <1>1, <1>8, ShutsDownAgrees
  <1>9. CASE CompanionStarts
    BY <1>1, <1>9, StillAgrees DEF CompanionStarts, C!Start, C!work, C!lines, AtWork, gateway,
       R!Ignored, R!relayState
  <1>10. CASE GatewayReads BY <1>1, <1>10, BodyReadAgrees
  <1>11. CASE GatewayReadsLate BY <1>1, <1>11, LateReadAgrees
  <1>12. CASE RestIsLost BY <1>1, <1>12, RestLostAgrees
  <1>13. CASE DeadLegCloses \/ LegIsCut
    BY <1>1, <1>13, LegClosesAgrees DEF DeadLegCloses, LegIsCut
  <1>14. CASE TimerFires BY <1>1, <1>14, TimerAgrees
  <1>15. CASE GatewayRestarts BY <1>1, <1>15, RestartAgrees
  <1>16. CASE \E s \in SessionId : ClientOpens(s) \/ ClientSpeaks(s) \/ ClientEnds(s)
    BY <1>1, <1>16, OpenAgrees, ClientAsideAgrees
  <1> QED BY <1>2, <1>3, <1>4, <1>5, <1>6, <1>7, <1>8, <1>9, <1>10, <1>11, <1>12, <1>13, <1>14,
             <1>15, <1>16 DEF Next

\* relay.ts and the companion's index.ts, with every hello, close, refusal and loss
\* between them: whenever the connection is quiet, the ids that the relay counts
\* against the companion's limit are those the companion is at work on.
THEOREM SystemAgrees == Spec => []Agreement
  <1>1. AgreeInv /\ [Next]_vars => AgreeInv' BY NextAgrees
  <1> QED BY <1>1, InitAgrees, Agrees, PTL DEF Spec

\* attachEndpoint, failSession and the acks of relay.ts, as the companion and the
\* network drive them: the sessions that count against the companion's limit are the
\* live ones routed to it, after any hello, refusal, loss and restart.
THEOREM SystemSlots == Spec => []R!SlotAccounting
  <1>1. AgreeInv => R!SlotAccounting
    <2> SUFFICES ASSUME AgreeInv PROVE R!SlotAccounting OBVIOUS
    <2>1. Pairs BY DEF AgreeInv
    <2>2. R!On(Laptop) = R!Live /\ \A s \in R!Live : sessions[s].endpoint = Laptop
      BY <2>1, LiveHere
    <2>3. R!Live # {} => Laptop \in R!Attached BY <2>1, HeldIs
    <2> QED BY <2>1, <2>2, <2>3 DEF R!SlotAccounting, Pairs
  <1>2. AgreeInv /\ [Next]_vars => AgreeInv' BY NextAgrees
  <1> QED BY <1>1, <1>2, InitAgrees, PTL DEF Spec

-----------------------------------------------------------------------------
(***************************************************************************)
(* The relay between the two ends is Relay, so that what RelayProofs       *)
(* proves of a relay in use is true of it.                                 *)
(***************************************************************************)

LEMMA ApplyUsesRelay ==
  ASSUME NEW line \in C!Line, NEW g, Apply(line, g)
  PROVE  R!Next \/ R!Ignored
  <1>0. line.ids \in SUBSET SessionId /\ MaxSessions \in 1..MaxSessions /\ {Codex} \in {{Codex}}
    BY SystemAssumption DEF C!Line, C!CompanionAssumption
  <1>1. CASE line.kind = "hello"
    <2>1. R!AttachEndpoint(Laptop, line.ids, MaxSessions, {Codex}) BY <1>1 DEF Apply
    <2>2. R!EndpointStep(Laptop) BY <1>0, <2>1 DEF R!EndpointStep
    <2> QED BY <2>2 DEF R!Next
  <1>2. CASE line.kind = "goodbye"
    <2>1. R!Ignored \/ R!SayGoodbye(Laptop, g) BY <1>2 DEF Apply
    <2>2. R!SayGoodbye(Laptop, g) => R!EndpointStep(Laptop)
      BY DEF R!SayGoodbye, R!EndpointStep
    <2> QED BY <2>1, <2>2 DEF R!Next
  <1>3. CASE line.kind \notin {"hello", "goodbye"}
    <2>1. PICK s \in line.ids :
             \/ R!Ignored
             \/ R!AckOpened(Laptop, s)
             \/ R!AckRefused(Laptop, s)
             \/ R!EndpointClose(Laptop, s)
             \/ R!EndpointLine(Laptop, s)
      BY <1>3 DEF Apply
    <2>2. R!Ignored \/ R!EndpointStep(Laptop)
      BY <1>0, <2>1 DEF R!EndpointStep, R!EndpointAck
    <2> QED BY <2>2 DEF R!Next
  <1> QED BY <1>1, <1>2, <1>3

LEMMA NextUsesRelay ==
  ASSUME LinesOK, Next
  PROVE  R!Next \/ R!Ignored \/ R!Init'
  <1>1. CASE CompanionReads \/ CompanionWorks \/ Connects \/ Attaches \/ NetworkBreaks
             \/ EpochFails \/ GivesUp \/ ShutsDown \/ Quits \/ Crashes \/ CompanionStarts
             \/ RestIsLost
    BY <1>1 DEF CompanionReads, CompanionWorks, Connects, Attaches, NetworkBreaks,
                EpochFails, GivesUp, EpochEnds, ShutsDown, Quits, Crashes, CompanionExits,
                CompanionStarts, RestIsLost
  <1>2. CASE GatewayReads
    <2>1. Head(body) \in C!Line BY <1>2, HeadTailProperties DEF GatewayReads, LinesOK
    <2> QED BY <1>2, <2>1, ApplyUsesRelay DEF GatewayReads
  <1>3. CASE GatewayReadsLate
    <2>1. Head(draining) \in C!Line BY <1>3, HeadTailProperties DEF GatewayReadsLate, LinesOK
    <2> QED BY <1>3, <2>1, ApplyUsesRelay DEF GatewayReadsLate
  <1>4. CASE DeadLegCloses \/ LegIsCut
    BY <1>4 DEF DeadLegCloses, LegIsCut, LegCloses, R!Next, R!EndpointStep
  <1>5. CASE TimerFires
    BY <1>5 DEF TimerFires, R!Next
  <1>6. CASE GatewayRestarts
    BY <1>6 DEF GatewayRestarts, R!Init
  <1>7. ASSUME NEW s \in SessionId, ClientOpens(s) PROVE R!ClientStep(s)
    <2>1. R!OpenSession(Laptop, s, Run, Codex, Ann)
      BY <1>7 DEF ClientOpens, R!OpenSession
    <2> QED BY <2>1 DEF R!ClientStep
  <1>8. ASSUME NEW s \in SessionId, ClientSpeaks(s) \/ ClientEnds(s) PROVE R!ClientStep(s)
    BY <1>8 DEF ClientSpeaks, ClientEnds, R!ClientStep
  <1> QED BY <1>1, <1>2, <1>3, <1>4, <1>5, <1>6, <1>7, <1>8 DEF Next, R!Next

\* Whatever the two ends and the network do, the relay only ever takes one of the steps
\* of relay.ts, as the one companion and its clients may ask for, or none, or starts
\* over with its process.
THEOREM SystemUsesRelay ==
    Spec => R!Init /\ [][R!Next \/ R!Ignored \/ R!Init']_R!vars
  <1>1. Init => R!Init BY DEF Init
  <1>2. SystemInv /\ [Next]_vars => [R!Next \/ R!Ignored \/ R!Init']_R!vars
    BY NextUsesRelay DEF SystemInv, vars, relayState, R!vars, R!relayState
  <1> QED BY <1>1, <1>2, SystemInvariant, PTL DEF Spec

RP == INSTANCE RelayProofs WITH
        Endpoint <- {Laptop}, Owner <- {Ann}, RunId <- {Run}, Agent <- {Codex},
        Offers <- {{Codex}}, OwnerOf <- [e \in {Laptop} |-> Ann],
        MaxSlots <- MaxSessions, MaxAttachments <- MaxFailures + 1

\* The relay that is used here and the one that is proved about are one.
LEMMA SameRelay ==
  /\ R!RelayAssumption <=> RP!RelayAssumption
  /\ R!Init <=> RP!Init
  /\ R!Init' <=> RP!Init'
  /\ R!vars = RP!vars /\ R!vars' = RP!vars'
  /\ R!Next <=> RP!Next
  <1>1. R!RelayAssumption <=> RP!RelayAssumption
    BY DEF R!RelayAssumption, RP!RelayAssumption, R!Attachment, RP!Attachment, R!Session,
           RP!Session, R!Leg, RP!Leg, R!IsFiniteSet, RP!IsFiniteSet
  <1>2. (R!Init <=> RP!Init) /\ (R!Init' <=> RP!Init')
        /\ R!vars = RP!vars /\ R!vars' = RP!vars'
    BY DEF R!Init, RP!Init, R!vars, RP!vars
  <1>3. \A e \in {Laptop} : R!EndpointStep(e) <=> RP!EndpointStep(e)
    BY DEF R!EndpointStep, RP!EndpointStep, R!AttachEndpoint, RP!AttachEndpoint, R!SayGoodbye,
           RP!SayGoodbye, R!DetachEndpoint, RP!DetachEndpoint, R!EndpointAck, RP!EndpointAck,
           R!AckOpened, RP!AckOpened, R!AckRefused, RP!AckRefused, R!EndpointLine,
           RP!EndpointLine, R!EndpointClose, RP!EndpointClose, R!Speaks, RP!Speaks, R!Ignored,
           RP!Ignored, R!Held, RP!Held, R!Arm, RP!Arm, R!Disarm, RP!Disarm, R!relayState,
           RP!relayState, R!Fail, RP!Fail, R!Ended, RP!Ended, R!Freed, RP!Freed, R!CloseLines,
           RP!CloseLines, R!On, RP!On, R!Live, RP!Live, R!Attached, RP!Attached, R!ToClient,
           RP!ToClient, R!ToEndpoint, RP!ToEndpoint
  <1>4. \A s \in SessionId : R!ClientStep(s) <=> RP!ClientStep(s)
    BY DEF R!ClientStep, RP!ClientStep, R!OpenSession, RP!OpenSession, R!RefuseOpen,
           RP!RefuseOpen, R!AcceptOpen, RP!AcceptOpen, R!Accepts, RP!Accepts, R!DetachClient,
           RP!DetachClient, R!AttachClient, RP!AttachClient, R!ClientLine, RP!ClientLine,
           R!CloseSession, RP!CloseSession, R!Ignored, RP!Ignored, R!Arm, RP!Arm, R!Disarm,
           RP!Disarm, R!relayState, RP!relayState, R!Cardinality, RP!Cardinality, R!Fail,
           RP!Fail, R!Ended, RP!Ended, R!Freed, RP!Freed, R!CloseLines, RP!CloseLines, R!On,
           RP!On, R!Live, RP!Live, R!Attached, RP!Attached, R!ToClient, RP!ToClient,
           R!ToEndpoint, RP!ToEndpoint
  <1>5. \A s, l : /\ R!TimerFires(s, l) <=> RP!TimerFires(s, l)
                  /\ R!StrayFires(s, l) <=> RP!StrayFires(s, l)
    BY DEF R!TimerFires, RP!TimerFires, R!StrayFires, RP!StrayFires, R!Fail, RP!Fail, R!Ended,
           RP!Ended, R!Freed, RP!Freed, R!CloseLines, RP!CloseLines, R!On, RP!On, R!Live,
           RP!Live, R!Attached, RP!Attached, R!ToClient, RP!ToClient, R!ToEndpoint,
           RP!ToEndpoint
  <1>6. R!Next <=> RP!Next
    BY <1>3, <1>4, <1>5 DEF R!Next, RP!Next, R!Leg, RP!Leg
  <1>7. QED  BY <1>1, <1>2, <1>6

LEMMA SameInvariant ==
  RP!IInv => /\ R!TypeOK /\ R!SlotAccounting /\ R!ResumeTimerIffOffline
             /\ R!SameTenant /\ R!QuitIsOwn
  BY DEF RP!IInv, R!TypeOK, RP!TypeOK, R!SlotAccounting, RP!SlotAccounting,
         R!ResumeTimerIffOffline, RP!ResumeTimerIffOffline, R!SameTenant, RP!SameTenant,
         R!QuitIsOwn, RP!QuitIsOwn, R!Attachment, RP!Attachment, R!Session, RP!Session,
         R!Leg, RP!Leg, R!Held, RP!Held, R!On, RP!On, R!Live, RP!Live, R!Attached,
         RP!Attached

LEMMA SameCapacity == RP!WithinCapacity <=> R!WithinCapacity
  BY DEF R!WithinCapacity, RP!WithinCapacity, R!On, RP!On, R!Live, RP!Live, R!Cardinality,
         RP!Cardinality

LEMMA SameBroker ==
  /\ R!Promise!Init <=> RP!Promise!Init
  /\ R!Promise!Init' <=> RP!Promise!Init'
  /\ R!Promise!vars = RP!Promise!vars /\ R!Promise!vars' = RP!Promise!vars'
  /\ R!Promise!Next <=> RP!Promise!Next
  BY DEF R!Promise!Init, RP!Promise!Init, R!Promise!vars, RP!Promise!vars, R!Promise!Next,
         RP!Promise!Next, R!Promise!Quiet, RP!Promise!Quiet, R!Promise!TurnAway,
         RP!Promise!TurnAway, R!Promise!Carry, RP!Promise!Carry, R!Promise!Accept,
         RP!Promise!Accept, R!Promise!Finish, RP!Promise!Finish, R!Promise!ToClient,
         RP!Promise!ToClient, R!Promise!ToEndpoint, RP!Promise!ToEndpoint,
         R!Promise!Pairing, RP!Promise!Pairing, R!Pair, RP!Pair

\* The system is one that uses the relay as RelayInUse has it.
LEMMA SystemUsed == Spec => RP!UsedSpec
  <1>1. R!Init => RP!Init BY SameRelay
  <1>2. R!Ignored => RP!Aside
    BY DEF R!Ignored, R!relayState, RP!Aside, RP!relayState
  <1>3. [R!Next \/ R!Ignored \/ R!Init']_R!vars => [RP!Next \/ RP!Aside \/ RP!Init']_RP!vars
    BY <1>2, SameRelay, Zenon
  <1> QED BY <1>1, <1>3, SystemUsesRelay, PTL DEF RP!UsedSpec

LEMMA RelayServes ==
  RP!UsedSpec => /\ []RP!IInv
                 /\ RP!NeverOverbooked
                 /\ RP!Promise!SpecWithRestarts
  <1>1. RP!RelayAssumption BY SameRelay, SystemAssumption DEF SystemAssumption
  <1> QED BY <1>1, RP!RelayInUse, PTL

\* relay.ts between index.ts of the companion and remote.ts: whatever the two ends lose,
\* repeat or start over, its timers, tenants and limits are what they are by itself.
THEOREM SystemRelay ==
    Spec => /\ [](/\ R!TypeOK /\ R!SlotAccounting /\ R!ResumeTimerIffOffline
                  /\ R!SameTenant /\ R!QuitIsOwn)
            /\ R!NeverOverbooked
  <1>1. [RP!WithinCapacity]_RP!vars => [R!WithinCapacity]_R!vars
    BY SameRelay, SameCapacity, Zenon
  <1> QED
    BY <1>1, SystemUsed, RelayServes, SameInvariant, PTL
       DEF RP!NeverOverbooked, R!NeverOverbooked

\* A prompt and the companion that serves it see a broker that may start over: an id is
\* one session from accept to end, no end but a restart goes untold to its client, and no
\* line comes from or goes to an end that the session does not have.
THEOREM SystemImplementsBroker == Spec => R!Promise!SpecWithRestarts
  <1>1. /\ RP!Promise!Init => R!Promise!Init
        /\ [RP!Promise!Next \/ RP!Promise!Init']_(RP!Promise!vars)
              => [R!Promise!Next \/ R!Promise!Init']_(R!Promise!vars)
    BY SameBroker, Zenon
  <1> QED
    BY <1>1, SystemUsed, RelayServes, PTL
       DEF R!Promise!SpecWithRestarts, RP!Promise!SpecWithRestarts
=============================================================================
