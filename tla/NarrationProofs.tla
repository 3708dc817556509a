-------------------------- MODULE NarrationProofs --------------------------
(***************************************************************************)
(* What TLAPS proves of the narration of turns, for any number of turns of *)
(* a process, any ceiling and window of the budget, and however late,      *)
(* lost or refused the calls to Slack are.                                 *)
(*                                                                         *)
(* But for the budget a turn's properties are its own, so the invariant is *)
(* a predicate of one turn, Narrating: where in its queue a stream is asked *)
(* for and closed, and the acknowledgement written and put to rest.        *)
(***************************************************************************)
EXTENDS Narration, FiniteSetTheorems, TLAPS

Asks     == {"open step", "open thought"}
In(x, q) == \E i \in 1..Len(q) : q[i] = x
TidyLast(q) ==
    \A i, j \in 1..Len(q) :
        q[i] = "tidy" => /\ q[j] = "tidy" => i = j
                         /\ q[j] = "write" => j < i

\* The turn's end: it settles from where its run ended, and its button is the run's.
Ending(r) ==
    /\ r.settling <=> r.phase \in {"answered", "posted", "settled"}
    /\ r.route => r.phase \in {"running", "failed"}
    /\ r.phase = "idle" => r.steps = None

\* A stream is asked for once, before anything else, and closed by a turn that settled.
Streaming(r) ==
    /\ r.steps = "asked" => Len(r.queue) > 0 /\ r.queue[1] \in Asks
    /\ \A i \in 1..Len(r.queue) : r.queue[i] \in Asks => i = 1 /\ r.steps = "asked"
    /\ r.steps = None /\ r.phase # "settled" => r.queue = <<>>
    /\ r.card = "going" => r.steps = "open" \/ "open" \in r.lost
    /\ r.card = "closed" => r.steps = "open"
    /\ In("stop", r.queue) => r.phase = "settled"
    /\ r.phase = "settled" /\ r.steps \in {"asked", "open"} =>
         In("stop", r.queue) \/ r.card = "closed" \/ "stop" \in r.lost

\* What is written on the acknowledgement is put to rest behind the last write.
Tidying(r) ==
    /\ r.ackWritten <=> r.reserved # None
    /\ In("write", r.queue) \/ r.ack = "step" => r.ackWritten
    /\ In("tidy", r.queue) => r.phase = "settled"
    /\ TidyLast(r.queue)
    /\ r.phase = "settled" => \/ In("tidy", r.queue) \/ "tidy" \in r.lost
                              \/ r.ack = "rest" /\ ~In("write", r.queue)

\* A press is tried once there is a session, and reaches a run that is out or failed.
Stopping(r) ==
    /\ r.pressed => r.tried \/ (r.stopWanted /\ ~r.cancelRun)
    /\ r.stopped /\ ~r.left => r.phase \in {"failed", "settled"}
    /\ r.label => r.left

\* What is left alone by the button, but what it knows.
Alike(r, s) ==
    /\ s.phase = r.phase /\ s.settling = r.settling /\ s.route = r.route
    /\ s.steps = r.steps /\ s.queue = r.queue /\ s.card = r.card /\ s.lost = r.lost
    /\ s.ackWritten = r.ackWritten /\ s.reserved = r.reserved /\ s.ack = r.ack

Narrating(r) == Ending(r) /\ Streaming(r) /\ Tidying(r) /\ Stopping(r)

\* The turns that paid for a cleanup at a tick and have it before them.
Tidied(r) == r.phase = "settled" /\ ~In("tidy", r.queue)
Outstanding(tick) == {t \in Turn : turns[t].reserved = tick /\ ~Tidied(turns[t])}

\* Every update has its stamp, and every cleanup that is to come; what was not forced
\* is within the ceiling; and no stamp is of a tick to come.
Paid ==
    \A tick \in Time :
        /\ IsFiniteSet(Outstanding(tick))
        /\ charged[tick] + Cardinality(Outstanding(tick)) <= spent[tick]
Unforced == Stamps(spent) \ Stamps(forced)
Bounded  == IsFiniteSet(Unforced) /\ Cardinality(Unforced) <= Ceiling
Ahead    == \A tick \in Time : tick > now => spent[tick] = 0

IInv == /\ TypeOK
        /\ \A t \in Turn : Narrating(turns[t])
        /\ Paid /\ Bounded /\ Ahead
-----------------------------------------------------------------------------
(* Queues. *)

LEMMA Behind == ASSUME NEW q \in Seq(Links), q # <<>>
                PROVE  /\ Tail(q) \in Seq(Links) /\ Head(q) = q[1]
                       /\ Len(q) \in Nat /\ Len(q) > 0 /\ Len(Tail(q)) = Len(q) - 1
                       /\ \A i \in 1..Len(Tail(q)) : Tail(q)[i] = q[i + 1]
  OBVIOUS

LEMMA Longer == ASSUME NEW q \in Seq(Links), NEW x \in Links
                PROVE  /\ Append(q, x) \in Seq(Links) /\ Len(q) \in Nat
                       /\ Len(Append(q, x)) = Len(q) + 1
                       /\ Append(q, x)[Len(q) + 1] = x
                       /\ \A i \in 1..Len(q) : Append(q, x)[i] = q[i]
  OBVIOUS

LEMMA Closing == ASSUME NEW q \in Seq(Links), NEW c \in Seq(Links)
                 PROVE  /\ q \o c \in Seq(Links) /\ Len(q) \in Nat /\ Len(c) \in Nat
                        /\ Len(q \o c) = Len(q) + Len(c)
                        /\ \A i \in 1..Len(q) : (q \o c)[i] = q[i]
                        /\ \A i \in 1..Len(c) : (q \o c)[Len(q) + i] = c[i]
  OBVIOUS
-----------------------------------------------------------------------------
(* One turn. *)

LEMMA Narrated1 == ASSUME NEW r \in Narrated
                   PROVE  /\ r.queue \in Seq(Links) /\ Len(r.queue) \in Nat
                          /\ r.phase \in Phases /\ r.steps \in {None, "asked", "open", "refused"}
                          /\ r.card \in {None, "going", "closed"}
                          /\ r.reserved \in Time \cup {None}
  <1>1. r.queue \in Seq(Links) BY DEF Narrated
  <1>2. Len(r.queue) \in Nat BY <1>1
  <1>3. r.phase \in Phases /\ r.reserved \in Time \cup {None} BY DEF Narrated
  <1>4. r.steps \in {None, "asked", "open", "refused"} /\ r.card \in {None, "going", "closed"}
    BY DEF Narrated
  <1> QED BY <1>1, <1>2, <1>3, <1>4

\* Nothing of the queue changes, or nothing but what the button knows.
LEMMA SpokenTo ==
    ASSUME NEW r \in Narrated, NEW s \in Narrated, Ending(r), Streaming(r), Tidying(r),
           Alike(r, s)
    PROVE  Ending(s) /\ Streaming(s) /\ Tidying(s) /\ (Tidied(s) <=> Tidied(r))
  BY DEF Ending, Streaming, Tidying, Tidied, Alike

\* A link of the chain is passed: what it leaves of the queue is as it was, one earlier.
LEMMA Passed ==
    ASSUME NEW r \in Narrated, r.queue # <<>>, Streaming(r), Tidying(r),
           NEW q, q = Tail(r.queue)
    PROVE  /\ q \in Seq(Links)
           /\ \A x : In(x, q) => In(x, r.queue)
           /\ \A x : In(x, r.queue) => In(x, q) \/ x = Head(r.queue)
           /\ \A i \in 1..Len(q) : q[i] \notin Asks
           /\ TidyLast(q)
           /\ Head(r.queue) = "tidy" => ~In("tidy", q) /\ ~In("write", q)
           /\ Head(r.queue) \in Asks <=> r.steps = "asked"
  <1>1. r.queue \in Seq(Links) BY DEF Narrated
  <1>2. /\ q \in Seq(Links) /\ Head(r.queue) = r.queue[1]
        /\ Len(r.queue) \in Nat /\ Len(r.queue) > 0 /\ Len(q) = Len(r.queue) - 1
        /\ \A i \in 1..Len(q) : q[i] = r.queue[i + 1]
    BY <1>1, Behind
  <1>3. \A i \in 1..Len(q) : i + 1 \in 1..Len(r.queue) BY <1>2
  <1>4. \A x : In(x, q) => In(x, r.queue) BY <1>2, <1>3 DEF In
  <1>5. \A x : In(x, r.queue) => In(x, q) \/ x = Head(r.queue)
    <2> TAKE x
    <2> HAVE In(x, r.queue)
    <2>1. PICK i \in 1..Len(r.queue) : r.queue[i] = x BY DEF In
    <2>2. CASE i = 1 BY <1>2, <2>1, <2>2
    <2>3. CASE i # 1
      <3>1. i - 1 \in 1..Len(q) /\ (i - 1) + 1 = i BY <1>2, <2>1, <2>3
      <3> QED BY <1>2, <2>1, <3>1 DEF In
    <2> QED BY <2>2, <2>3
  <1>6. \A i \in 1..Len(q) : q[i] \notin Asks
    <2> TAKE i \in 1..Len(q)
    <2>1. i + 1 # 1 BY <1>2
    <2> QED BY <1>2, <1>3, <2>1 DEF Streaming
  <1>7. TidyLast(q)
    <2> SUFFICES ASSUME NEW i \in 1..Len(q), NEW j \in 1..Len(q)
                 PROVE  q[i] = "tidy" => /\ q[j] = "tidy" => i = j
                                         /\ q[j] = "write" => j < i
      BY DEF TidyLast
    <2>1. q[i] = r.queue[i + 1] /\ q[j] = r.queue[j + 1] BY <1>2
    <2>2. i + 1 \in 1..Len(r.queue) /\ j + 1 \in 1..Len(r.queue) BY <1>3
    <2>3. r.queue[i + 1] = "tidy" => /\ r.queue[j + 1] = "tidy" => i + 1 = j + 1
                                     /\ r.queue[j + 1] = "write" => j + 1 < i + 1
      BY <2>2 DEF Tidying, TidyLast
    <2> QED BY <1>2, <2>1, <2>3
  <1>8. Head(r.queue) = "tidy" => ~In("tidy", q) /\ ~In("write", q)
    <2> SUFFICES ASSUME r.queue[1] = "tidy", NEW i \in 1..Len(q), q[i] \in {"tidy", "write"}
                 PROVE  FALSE
      BY <1>2 DEF In
    <2>1. r.queue[i + 1] \in {"tidy", "write"} /\ i + 1 \in 1..Len(r.queue) /\ 1 \in 1..Len(r.queue)
      BY <1>2, <1>3
    <2>2. i + 1 = 1 \/ i + 1 < 1 BY <2>1 DEF Tidying, TidyLast
    <2> QED BY <1>2, <2>2
  <1>9. Head(r.queue) \in Asks <=> r.steps = "asked"
    <2>1. 1 \in 1..Len(r.queue) BY <1>2
    <2> QED BY <1>2, <2>1 DEF Streaming
  <1> QED BY <1>2, <1>4, <1>5, <1>6, <1>7, <1>8, <1>9

\* A call is chained by a turn that has not settled.
LEMMA Chains ==
    ASSUME NEW r \in Narrated, Streaming(r), Tidying(r), r.phase # "settled",
           NEW x \in {"append", "write"}, NEW q, q = Append(r.queue, x)
    PROVE  /\ q \in Seq(Links) /\ Len(q) > 0 /\ q # <<>>
           /\ \A y : In(y, q) <=> In(y, r.queue) \/ y = x
           /\ \A i \in 1..Len(q) : q[i] \in Asks => i = 1 /\ r.steps = "asked"
           /\ r.steps = "asked" => q[1] \in Asks
  <1>1. r.queue \in Seq(Links) /\ x \in Links BY DEF Narrated, Links
  <1>2. /\ q \in Seq(Links) /\ Len(r.queue) \in Nat /\ Len(q) = Len(r.queue) + 1
        /\ q[Len(r.queue) + 1] = x /\ \A i \in 1..Len(r.queue) : q[i] = r.queue[i]
    BY <1>1, Longer
  <1>3. \A y : In(y, q) => In(y, r.queue) \/ y = x
    <2> TAKE y
    <2> HAVE In(y, q)
    <2>1. PICK i \in 1..Len(q) : q[i] = y BY DEF In
    <2>2. i = Len(r.queue) + 1 \/ i \in 1..Len(r.queue) BY <1>2, <2>1
    <2> QED BY <1>2, <2>1, <2>2 DEF In
  <1>4. \A y : In(y, r.queue) \/ y = x => In(y, q)
    <2>1. \A i \in 1..Len(r.queue) : i \in 1..Len(q) BY <1>2
    <2>2. Len(r.queue) + 1 \in 1..Len(q) BY <1>2
    <2> QED BY <1>2, <2>1, <2>2 DEF In
  <1>5. \A i \in 1..Len(q) : q[i] \in Asks => i = 1 /\ r.steps = "asked"
    <2> TAKE i \in 1..Len(q)
    <2>1. i = Len(r.queue) + 1 \/ i \in 1..Len(r.queue) BY <1>2
    <2>2. x \notin Asks BY DEF Asks
    <2> QED BY <1>2, <2>1, <2>2 DEF Streaming
  <1>6. r.steps = "asked" => q[1] \in Asks
    <2> HAVE r.steps = "asked"
    <2>1. Len(r.queue) > 0 /\ r.queue[1] \in Asks BY DEF Streaming
    <2> QED BY <1>2, <2>1
  <1>7. Len(q) > 0 /\ q # <<>> BY <1>2
  <1> QED BY <1>2, <1>3, <1>4, <1>5, <1>6, <1>7

\* onProgress and onThought while a stream is asked for or open.
LEMMA Appends ==
    ASSUME NEW r \in Narrated, Narrating(r), r.phase \in {"running", "failed", "answered", "posted"},
           r.steps \in {"asked", "open"}, r.says < MaxSays,
           NEW s, s = Chained([r EXCEPT !.says = @ + 1], "append")
    PROVE  s \in Narrated /\ Narrating(s) /\ s.reserved = r.reserved /\ (Tidied(s) <=> Tidied(r))
  <1> DEFINE q == Append(r.queue, "append")
  <1>1. s = [r EXCEPT !.says = r.says + 1, !.queue = q] BY DEF Chained, Narrated
  <1>2. /\ q \in Seq(Links) /\ Len(q) > 0 /\ q # <<>>
        /\ \A y : In(y, q) <=> In(y, r.queue) \/ y = "append"
        /\ \A i \in 1..Len(q) : q[i] \in Asks => i = 1 /\ r.steps = "asked"
        /\ r.steps = "asked" => q[1] \in Asks
    BY Chains DEF Narrating
  <1> HIDE DEF q
  <1>3. r.says + 1 \in 0..MaxSays
    <2>1. r.says \in 0..MaxSays BY DEF Narrated
    <2> QED BY <2>1, NarrationAssumption DEF NarrationAssumption
  <1>4. s \in Narrated BY <1>1, <1>2, <1>3 DEF Narrated
  <1>5. /\ s.phase = r.phase /\ s.settling = r.settling /\ s.route = r.route /\ s.steps = r.steps
        /\ s.queue = q /\ s.card = r.card /\ s.lost = r.lost /\ s.ackWritten = r.ackWritten
        /\ s.reserved = r.reserved /\ s.ack = r.ack
    BY <1>1 DEF Narrated
  <1>6. Ending(s) BY <1>5 DEF Narrating, Ending
  <1>7. Streaming(s)
    BY <1>2, <1>5, NarrationAssumption DEF Narrating, Streaming, NarrationAssumption
  <1>8. ~In("tidy", q) BY <1>2 DEF Narrating, Tidying
  <1>9. Tidying(s)
    <2>1. TidyLast(q) BY <1>8 DEF In, TidyLast
    <2> QED BY <1>2, <1>5, <2>1 DEF Narrating, Tidying
  <1>10. Stopping(s) BY <1>1 DEF Narrating, Stopping, Narrated
  <1>11. ~Tidied(s) /\ ~Tidied(r) BY <1>5 DEF Tidied
  <1> QED BY <1>4, <1>5, <1>6, <1>7, <1>9, <1>10, <1>11 DEF Narrating

\* They ask for the stream.
AskedAs(r, x) == [r EXCEPT !.says = @ + 1, !.steps = "asked", !.queue = <<x>>]

LEMMA AsksFor ==
    ASSUME NEW r \in Narrated, Narrating(r), r.phase \in {"running", "failed", "answered", "posted"},
           r.steps = None, r.says < MaxSays, NEW x \in Asks,
           NEW s, s = AskedAs(r, x)
    PROVE  s \in Narrated /\ Narrating(s) /\ s.reserved = r.reserved /\ (Tidied(s) <=> Tidied(r))
  <1> DEFINE q == <<x>>
  <1>1. s = [r EXCEPT !.says = r.says + 1, !.steps = "asked", !.queue = q]
    BY DEF Narrated, AskedAs
  <1>2. q \in Seq(Links) /\ Len(q) = 1 /\ q[1] = x /\ x \notin {"stop", "tidy", "write"}
    <2>1. x \in Links /\ x \notin {"stop", "tidy", "write"} BY DEF Links, Asks
    <2> QED BY <2>1
  <1> HIDE DEF q
  <1>3. r.says + 1 \in 0..MaxSays
    <2>1. r.says \in 0..MaxSays BY DEF Narrated
    <2> QED BY <2>1, NarrationAssumption DEF NarrationAssumption
  <1>4. s \in Narrated BY <1>1, <1>2, <1>3 DEF Narrated
  <1>5. /\ s.phase = r.phase /\ s.settling = r.settling /\ s.route = r.route /\ s.steps = "asked"
        /\ s.queue = q /\ s.card = r.card /\ s.lost = r.lost /\ s.ackWritten = r.ackWritten
        /\ s.reserved = r.reserved /\ s.ack = r.ack
    BY <1>1 DEF Narrated
  <1>6. ~In("stop", q) /\ ~In("tidy", q) /\ ~In("write", q) BY <1>2 DEF In
  <1>12. \A i \in 1..Len(q) : i = 1 /\ q[i] = x BY <1>2
  <1>7. Ending(s) BY <1>5 DEF Narrating, Ending
  <1>8. Streaming(s)
    <2>1. r.card # "closed" BY NarrationAssumption DEF Narrating, Streaming, NarrationAssumption
    <2>2. r.card = "going" => "open" \in r.lost
      BY NarrationAssumption DEF Narrating, Streaming, NarrationAssumption
    <2>3. "asked" # None BY NarrationAssumption DEF NarrationAssumption
    <2>4. Len(s.queue) > 0 /\ s.queue[1] \in Asks
      <3>1. Len(q) > 0 /\ q[1] \in Asks BY <1>2
      <3>2. s.queue = q BY <1>5
      <3> QED BY <3>1, <3>2
    <2>5. \A i \in 1..Len(s.queue) : i = 1 BY <1>5, <1>12
    <2>6. ~In("stop", s.queue) /\ s.phase # "settled" BY <1>5, <1>6
    <2>7. s.card # "closed" /\ (s.card = "going" => "open" \in s.lost) BY <1>5, <2>1, <2>2
    <2> QED BY <1>5, <2>3, <2>4, <2>5, <2>6, <2>7 DEF Streaming
  <1>9. Tidying(s)
    <2>1. TidyLast(q) BY <1>2, <1>12 DEF TidyLast
    <2>2. Tidying(r) BY DEF Narrating
    <2> QED BY <1>5, <1>6, <2>1, <2>2 DEF Tidying
  <1>10. Stopping(s) BY <1>1 DEF Narrating, Stopping, Narrated
  <1>11. ~Tidied(s) /\ ~Tidied(r) BY <1>5 DEF Tidied
  <1> QED BY <1>4, <1>5, <1>7, <1>8, <1>9, <1>10, <1>11 DEF Narrating

\* A step that goes on the acknowledgement, and is paid for.
LEMMA Writes ==
    ASSUME NEW r \in Narrated, Narrating(r), r.phase \in {"running", "failed", "answered", "posted"},
           r.steps = "refused", NEW tick \in Time,
           NEW s, s = Chained([r EXCEPT !.ackWritten = TRUE,
                                        !.reserved = IF @ = None THEN tick ELSE @], "write")
    PROVE  /\ s \in Narrated /\ Narrating(s) /\ ~Tidied(s) /\ ~Tidied(r)
           /\ r.ackWritten <=> r.reserved # None
           /\ s.reserved = IF r.ackWritten THEN r.reserved ELSE tick
  <1> DEFINE q == Append(r.queue, "write")
             m == IF r.reserved = None THEN tick ELSE r.reserved
  <1>1. s = [r EXCEPT !.ackWritten = TRUE, !.reserved = m, !.queue = q] BY DEF Chained, Narrated
  <1>2. /\ q \in Seq(Links) /\ Len(q) > 0 /\ q # <<>>
        /\ \A y : In(y, q) <=> In(y, r.queue) \/ y = "write"
        /\ \A i \in 1..Len(q) : q[i] \in Asks => i = 1 /\ r.steps = "asked"
    BY Chains DEF Narrating
  <1>3. r.ackWritten <=> r.reserved # None BY DEF Narrating, Tidying
  <1>4. m \in Time /\ m # None BY NarrationAssumption DEF Narrated, NarrationAssumption
  <1>5. m = IF r.ackWritten THEN r.reserved ELSE tick BY <1>3
  <1> HIDE DEF q, m
  <1>6. s \in Narrated BY <1>1, <1>2, <1>4 DEF Narrated
  <1>7. /\ s.phase = r.phase /\ s.settling = r.settling /\ s.route = r.route /\ s.steps = "refused"
        /\ s.queue = q /\ s.card = r.card /\ s.lost = r.lost /\ s.ackWritten = TRUE
        /\ s.reserved = m /\ s.ack = r.ack
    BY <1>1 DEF Narrated
  <1>8. Ending(s) BY <1>7 DEF Narrating, Ending
  <1>9. Streaming(s)
    BY <1>2, <1>7, NarrationAssumption DEF Narrating, Streaming, NarrationAssumption
  <1>10. Tidying(s)
    <2>1. ~In("tidy", q) BY <1>2 DEF Narrating, Tidying
    <2>2. TidyLast(q) BY <2>1 DEF In, TidyLast
    <2> QED BY <1>4, <1>7, <2>1, <2>2 DEF Tidying
  <1>11. Stopping(s) BY <1>1 DEF Narrating, Stopping, Narrated
  <1>12. ~Tidied(s) /\ ~Tidied(r) BY <1>7 DEF Tidied
  <1> QED BY <1>3, <1>5, <1>6, <1>7, <1>8, <1>9, <1>10, <1>11, <1>12 DEF Narrating

LEMMA AtHead == ASSUME NEW r \in Narrated, r.queue # <<>>
                PROVE  In(Head(r.queue), r.queue)
  <1>1. r.queue \in Seq(Links) BY DEF Narrated
  <1>2. Head(r.queue) = r.queue[1] /\ 1 \in 1..Len(r.queue) BY <1>1, Behind
  <1> QED BY <1>2 DEF In

LEMMA StillTidying ==
    ASSUME NEW r, NEW s, NEW q, Tidying(r), s.queue = q, s.phase = r.phase,
           s.ackWritten = r.ackWritten, s.reserved = r.reserved,
           NEW gone, s.lost = gone, r.lost \subseteq gone, NEW says, s.ack = says,
           In("tidy", q) <=> In("tidy", r.queue), In("write", q) => In("write", r.queue),
           TidyLast(q),
           says = r.ack \/ (says = "step" /\ In("write", r.queue))
    PROVE  Tidying(s)
  <1>1. s.ackWritten <=> s.reserved # None BY DEF Tidying
  <1>2. In("write", q) \/ s.ack = "step" => s.ackWritten BY DEF Tidying
  <1>3. In("tidy", q) => s.phase = "settled" BY DEF Tidying
  <1>4. s.phase = "settled" => \/ In("tidy", q) \/ "tidy" \in s.lost
                               \/ s.ack = "rest" /\ ~In("write", q)
    BY DEF Tidying
  <1> QED BY <1>1, <1>2, <1>3, <1>4 DEF Tidying

\* The stream opens.
OpenedAs(r) == [r EXCEPT !.queue = Tail(@), !.steps = "open", !.card = "going",
                         !.route = ~r.settling]

LEMMA Opens ==
    ASSUME NEW r \in Narrated, Narrating(r), r.queue # <<>>, Head(r.queue) \in Asks,
           NEW s, s = OpenedAs(r)
    PROVE  s \in Narrated /\ Narrating(s) /\ s.reserved = r.reserved /\ (Tidied(s) <=> Tidied(r))
  <1> DEFINE q == Tail(r.queue)
  <1>1. s = [r EXCEPT !.queue = q, !.steps = "open", !.card = "going", !.route = ~r.settling]
    BY DEF Narrated, OpenedAs
  <1>2. /\ q \in Seq(Links)
        /\ \A x : In(x, q) => In(x, r.queue)
        /\ \A x : In(x, r.queue) => In(x, q) \/ x = Head(r.queue)
        /\ \A i \in 1..Len(q) : q[i] \notin Asks
        /\ TidyLast(q)
        /\ r.steps = "asked"
    BY Passed DEF Narrating
  <1>3. Head(r.queue) \notin {"stop", "tidy", "write"} BY DEF Asks
  <1> HIDE DEF q
  <1>4. s \in Narrated BY <1>1, <1>2 DEF Narrated
  <1>5. /\ s.phase = r.phase /\ s.settling = r.settling /\ s.route = ~r.settling /\ s.steps = "open"
        /\ s.queue = q /\ s.card = "going" /\ s.lost = r.lost /\ s.ackWritten = r.ackWritten
        /\ s.reserved = r.reserved /\ s.ack = r.ack
    BY <1>1 DEF Narrated
  <1>6. Ending(s)
    <2>1. r.phase # "idle" BY <1>2, NarrationAssumption DEF Narrating, Ending, NarrationAssumption
    <2>2. r.phase \in Phases BY DEF Narrated
    <2> QED BY <1>5, <2>1, <2>2 DEF Narrating, Ending, Phases
  <1>7. Streaming(s)
    <2>1. r.card # "closed" BY <1>2 DEF Narrating, Streaming
    <2>2. r.phase = "settled" => In("stop", q) \/ "stop" \in r.lost
      BY <1>2, <1>3, <2>1 DEF Narrating, Streaming
    <2>3. In("stop", q) => r.phase = "settled" BY <1>2 DEF Narrating, Streaming
    <2>4. \A i \in 1..Len(q) : q[i] \notin Asks BY <1>2
    <2> QED BY <1>5, <2>2, <2>3, <2>4, NarrationAssumption DEF Streaming, NarrationAssumption
  <1>8. Tidying(s)
    <2>1. In("write", q) <=> In("write", r.queue) BY <1>2, <1>3
    <2>2. In("tidy", q) <=> In("tidy", r.queue) BY <1>2, <1>3
    <2>9. Tidying(r) BY DEF Narrating
    <2> QED BY StillTidying, <1>2, <1>5, <2>1, <2>2, <2>9
  <1>9. Stopping(s)
    <2>1. /\ s.pressed = r.pressed /\ s.tried = r.tried /\ s.stopWanted = r.stopWanted
          /\ s.cancelRun = r.cancelRun /\ s.stopped = r.stopped /\ s.left = r.left
          /\ s.label = r.label
      BY <1>1 DEF Narrated
    <2> QED BY <1>5, <2>1 DEF Narrating, Stopping
  <1>10. Tidied(s) <=> Tidied(r) BY <1>2, <1>3, <1>5 DEF Tidied
  <1> QED BY <1>4, <1>5, <1>6, <1>7, <1>8, <1>9, <1>10 DEF Narrating

\* It is refused, or only its answer is lost.
RefusedAs(r, unheard) == [r EXCEPT !.queue = Tail(@), !.steps = "refused",
                                   !.card = IF unheard THEN "going" ELSE @,
                                   !.lost = IF unheard THEN @ \cup {"open"} ELSE @]

LEMMA Refuses ==
    ASSUME NEW r \in Narrated, Narrating(r), r.queue # <<>>, Head(r.queue) \in Asks,
           NEW unheard \in BOOLEAN, NEW s, s = RefusedAs(r, unheard)
    PROVE  /\ s \in Narrated /\ Narrating(s) /\ s.reserved = r.reserved /\ (Tidied(s) <=> Tidied(r))
           /\ s.steps = "refused" /\ s.phase = r.phase /\ s.settling = r.settling
           /\ r.phase # "idle"
  <1> DEFINE q == Tail(r.queue)
             card == IF unheard THEN "going" ELSE r.card
             gone == IF unheard THEN r.lost \cup {"open"} ELSE r.lost
  <1>1. s = [r EXCEPT !.queue = q, !.steps = "refused", !.card = card, !.lost = gone]
    BY DEF Narrated, RefusedAs
  <1>2. /\ q \in Seq(Links)
        /\ \A x : In(x, q) => In(x, r.queue)
        /\ \A x : In(x, r.queue) => In(x, q) \/ x = Head(r.queue)
        /\ \A i \in 1..Len(q) : q[i] \notin Asks
        /\ TidyLast(q)
        /\ r.steps = "asked"
    BY Passed DEF Narrating
  <1>3. Head(r.queue) \notin {"stop", "tidy", "write"} BY DEF Asks
  <1>4. /\ card \in {None, "going", "closed"} /\ gone \in SUBSET {"open", "stop", "tidy"}
        /\ r.lost \subseteq gone
        /\ card = "going" => "open" \in gone
        /\ card # "closed"
    <2>1. r.card # "closed" /\ (r.card = "going" => "open" \in r.lost)
      BY <1>2 DEF Narrating, Streaming
    <2>2. r.card \in {None, "going", "closed"} /\ r.lost \in SUBSET {"open", "stop", "tidy"}
      BY DEF Narrated
    <2> QED BY <2>1, <2>2
  <1> HIDE DEF q, card, gone
  <1>5. s \in Narrated
    <2>1. q \in Seq(Links) /\ card \in {None, "going", "closed"} /\ gone \in SUBSET {"open", "stop", "tidy"}
      BY <1>2, <1>4
    <2>2. PICK m : m = [r EXCEPT !.queue = q, !.steps = "refused"] OBVIOUS
    <2>3. m \in Narrated BY <2>1, <2>2 DEF Narrated
    <2>4. s = [m EXCEPT !.card = card, !.lost = gone] BY <1>1, <2>2 DEF Narrated
    <2> QED BY <2>1, <2>3, <2>4 DEF Narrated
  <1>6. /\ s.phase = r.phase /\ s.settling = r.settling /\ s.route = r.route /\ s.steps = "refused"
        /\ s.queue = q /\ s.card = card /\ s.lost = gone /\ s.ackWritten = r.ackWritten
        /\ s.reserved = r.reserved /\ s.ack = r.ack
    BY <1>1 DEF Narrated
  <1>7. r.phase # "idle" BY <1>2, NarrationAssumption DEF Narrating, Ending, NarrationAssumption
  <1>8. Ending(s) BY <1>6, <1>7 DEF Narrating, Ending
  <1>9. Streaming(s)
    <2>1. In("stop", q) => r.phase = "settled" BY <1>2 DEF Narrating, Streaming
    <2>2. \A i \in 1..Len(q) : q[i] \notin Asks BY <1>2
    <2> QED BY <1>4, <1>6, <2>1, <2>2, NarrationAssumption DEF Streaming, NarrationAssumption
  <1>10. Tidying(s)
    <2>1. In("write", q) <=> In("write", r.queue) BY <1>2, <1>3
    <2>2. In("tidy", q) <=> In("tidy", r.queue) BY <1>2, <1>3
    <2>9. Tidying(r) BY DEF Narrating
    <2> QED BY StillTidying, <1>2, <1>4, <1>6, <2>1, <2>2, <2>9
  <1>11. Stopping(s) BY <1>1 DEF Narrating, Stopping, Narrated
  <1>12. Tidied(s) <=> Tidied(r) BY <1>2, <1>3, <1>6 DEF Tidied
  <1> QED BY <1>5, <1>6, <1>7, <1>8, <1>9, <1>10, <1>11, <1>12 DEF Narrating

\* A call of the narration settles, one that wrote on the acknowledgement or another.
LandedAs(r, ack) == [r EXCEPT !.queue = Tail(@), !.ack = ack]
Written(r, ack)  == ack = r.ack \/ (ack = "step" /\ Head(r.queue) = "write")

LEMMA Lands ==
    ASSUME NEW r \in Narrated, Narrating(r), r.queue # <<>>, Head(r.queue) \in {"append", "write"},
           NEW ack, Written(r, ack), NEW s, s = LandedAs(r, ack)
    PROVE  s \in Narrated /\ Narrating(s) /\ s.reserved = r.reserved /\ (Tidied(s) <=> Tidied(r))
  <1> DEFINE q == Tail(r.queue)
  <1>1. s = [r EXCEPT !.queue = q, !.ack = ack] BY DEF Narrated, LandedAs
  <1>2. /\ q \in Seq(Links)
        /\ \A x : In(x, q) => In(x, r.queue)
        /\ \A x : In(x, r.queue) => In(x, q) \/ x = Head(r.queue)
        /\ \A i \in 1..Len(q) : q[i] \notin Asks
        /\ TidyLast(q)
        /\ r.steps # "asked"
    BY Passed DEF Narrating, Asks
  <1>3. Head(r.queue) \notin {"stop", "tidy"} OBVIOUS
  <1>4. ack \in {"in flight", "step", "rest"} BY DEF Narrated, Written
  <1>5. In(Head(r.queue), r.queue)
    BY AtHead
  <1> HIDE DEF q
  <1>6. s \in Narrated BY <1>1, <1>2, <1>4 DEF Narrated
  <1>7. /\ s.phase = r.phase /\ s.settling = r.settling /\ s.route = r.route /\ s.steps = r.steps
        /\ s.queue = q /\ s.card = r.card /\ s.lost = r.lost /\ s.ackWritten = r.ackWritten
        /\ s.reserved = r.reserved /\ s.ack = ack
    BY <1>1 DEF Narrated
  <1>8. Ending(s) BY <1>7 DEF Narrating, Ending
  <1>9. Streaming(s)
    <2>1. In("stop", q) <=> In("stop", r.queue) BY <1>2, <1>3
    <2>2. r.steps = None => r.phase = "settled" BY DEF Narrating, Streaming
    <2>3. \A i \in 1..Len(q) : q[i] \notin Asks BY <1>2
    <2> QED BY <1>2, <1>7, <2>1, <2>2, <2>3 DEF Narrating, Streaming
  <1>10. Tidying(s)
    <2>1. In("tidy", q) <=> In("tidy", r.queue) BY <1>2, <1>3
    <2>2. In("write", q) => In("write", r.queue) BY <1>2
    <2>3. ack = r.ack \/ (ack = "step" /\ In("write", r.queue)) BY <1>5 DEF Written
    <2>9. Tidying(r) BY DEF Narrating
    <2> QED BY StillTidying, <1>2, <1>7, <2>1, <2>2, <2>3, <2>9
  <1>11. Stopping(s) BY <1>1 DEF Narrating, Stopping, Narrated
  <1>12. Tidied(s) <=> Tidied(r) BY <1>2, <1>3, <1>7 DEF Tidied
  <1> QED BY <1>6, <1>7, <1>8, <1>9, <1>10, <1>11, <1>12 DEF Narrating

\* The cards are folded away.
LEMMA Folds ==
    ASSUME NEW r \in Narrated, Narrating(r), r.queue # <<>>, Head(r.queue) = "stop",
           NEW s, \/ r.steps = "open" /\ s = [r EXCEPT !.queue = Tail(@), !.card = "closed"]
                  \/ s = [r EXCEPT !.queue = Tail(@),
                                   !.lost = IF r.steps = "open" THEN @ \cup {"stop"} ELSE @]
    PROVE  s \in Narrated /\ Narrating(s) /\ s.reserved = r.reserved /\ (Tidied(s) <=> Tidied(r))
  <1> DEFINE q == Tail(r.queue)
  <1>1. PICK card \in {None, "going", "closed"}, gone \in SUBSET {"open", "stop", "tidy"} :
          /\ s = [r EXCEPT !.queue = q, !.card = card, !.lost = gone]
          /\ r.lost \subseteq gone
          /\ card = r.card \/ (card = "closed" /\ r.steps = "open")
          /\ r.steps = "open" => card = "closed" \/ "stop" \in gone
    <2>1. r.card \in {None, "going", "closed"} /\ r.lost \in SUBSET {"open", "stop", "tidy"}
      BY DEF Narrated
    <2>2. CASE r.steps = "open" /\ s = [r EXCEPT !.queue = Tail(@), !.card = "closed"]
      <3>1. s = [r EXCEPT !.queue = q, !.card = "closed", !.lost = r.lost] BY <2>2 DEF Narrated
      <3> QED BY <2>1, <2>2, <3>1
    <2>3. CASE s = [r EXCEPT !.queue = Tail(@),
                             !.lost = IF r.steps = "open" THEN @ \cup {"stop"} ELSE @]
      <3> DEFINE gone == IF r.steps = "open" THEN r.lost \cup {"stop"} ELSE r.lost
      <3>1. s = [r EXCEPT !.queue = q, !.card = r.card, !.lost = gone] BY <2>3 DEF Narrated
      <3>2. gone \in SUBSET {"open", "stop", "tidy"} /\ r.lost \subseteq gone BY <2>1
      <3>3. r.steps = "open" => "stop" \in gone OBVIOUS
      <3> HIDE DEF gone
      <3>4. r.card = r.card \/ (r.card = "closed" /\ r.steps = "open") OBVIOUS
      <3> QED BY <2>1, <3>1, <3>2, <3>3, <3>4, Zenon
    <2> QED BY <2>2, <2>3
  <1>2. /\ q \in Seq(Links)
        /\ \A x : In(x, q) => In(x, r.queue)
        /\ \A x : In(x, r.queue) => In(x, q) \/ x = Head(r.queue)
        /\ \A i \in 1..Len(q) : q[i] \notin Asks
        /\ TidyLast(q)
        /\ r.steps # "asked"
    BY Passed DEF Narrating, Asks
  <1>3. r.phase = "settled"
    <2>1. In("stop", r.queue) BY AtHead
    <2> QED BY <2>1 DEF Narrating, Streaming
  <1> HIDE DEF q
  <1>4. s \in Narrated BY <1>1, <1>2 DEF Narrated
  <1>5. /\ s.phase = r.phase /\ s.settling = r.settling /\ s.route = r.route /\ s.steps = r.steps
        /\ s.queue = q /\ s.card = card /\ s.lost = gone /\ s.ackWritten = r.ackWritten
        /\ s.reserved = r.reserved /\ s.ack = r.ack
    BY <1>1 DEF Narrated
  <1>6. Ending(s) BY <1>5 DEF Narrating, Ending
  <1>7. Streaming(s)
    <2>1. \A i \in 1..Len(q) : q[i] \notin Asks BY <1>2
    <2>2. card = "going" => r.steps = "open" \/ "open" \in gone
      BY <1>1 DEF Narrating, Streaming
    <2>3. card = "closed" => r.steps = "open" BY <1>1 DEF Narrating, Streaming
    <2> QED BY <1>1, <1>2, <1>3, <1>5, <2>1, <2>2, <2>3 DEF Streaming
  <1>8. Tidying(s)
    <2>1. In("write", q) <=> In("write", r.queue) BY <1>2
    <2>2. In("tidy", q) <=> In("tidy", r.queue) BY <1>2
    <2>9. Tidying(r) BY DEF Narrating
    <2> QED BY StillTidying, <1>1, <1>2, <1>5, <2>1, <2>2, <2>9
  <1>9. Stopping(s) BY <1>1 DEF Narrating, Stopping, Narrated
  <1>10. Tidied(s) <=> Tidied(r) BY <1>2, <1>5 DEF Tidied
  <1> QED BY <1>4, <1>5, <1>6, <1>7, <1>8, <1>9, <1>10 DEF Narrating

\* The acknowledgement is put to rest, or that call fails.
LEMMA Rests ==
    ASSUME NEW r \in Narrated, Narrating(r), r.queue # <<>>, Head(r.queue) = "tidy",
           NEW s, \/ s = [r EXCEPT !.queue = Tail(@), !.ack = "rest"]
                  \/ s = [r EXCEPT !.queue = Tail(@), !.lost = @ \cup {"tidy"}]
    PROVE  s \in Narrated /\ Narrating(s) /\ s.reserved = r.reserved /\ Tidied(s) /\ ~Tidied(r)
  <1> DEFINE q == Tail(r.queue)
  <1>1. PICK ack \in {"in flight", "step", "rest"}, gone \in SUBSET {"open", "stop", "tidy"} :
          /\ s = [r EXCEPT !.queue = q, !.ack = ack, !.lost = gone]
          /\ r.lost \subseteq gone
          /\ ack = "rest" \/ (ack = r.ack /\ "tidy" \in gone)
    <2>1. r.ack \in {"in flight", "step", "rest"} /\ r.lost \in SUBSET {"open", "stop", "tidy"}
      BY DEF Narrated
    <2>2. CASE s = [r EXCEPT !.queue = Tail(@), !.ack = "rest"]
      <3>1. s = [r EXCEPT !.queue = q, !.ack = "rest", !.lost = r.lost] BY <2>2 DEF Narrated
      <3> QED BY <2>1, <3>1
    <2>3. CASE s = [r EXCEPT !.queue = Tail(@), !.lost = @ \cup {"tidy"}]
      <3> DEFINE gone == r.lost \cup {"tidy"}
      <3>1. s = [r EXCEPT !.queue = q, !.ack = r.ack, !.lost = gone] BY <2>3 DEF Narrated
      <3>2. gone \in SUBSET {"open", "stop", "tidy"} /\ r.lost \subseteq gone /\ "tidy" \in gone
        BY <2>1
      <3> HIDE DEF gone
      <3>3. r.ack = "rest" \/ (r.ack = r.ack /\ "tidy" \in gone) BY <3>2
      <3> QED BY <2>1, <3>1, <3>2, <3>3, Zenon
    <2> QED BY <2>2, <2>3
  <1>2. /\ q \in Seq(Links)
        /\ \A x : In(x, q) => In(x, r.queue)
        /\ \A x : In(x, r.queue) => In(x, q) \/ x = Head(r.queue)
        /\ \A i \in 1..Len(q) : q[i] \notin Asks
        /\ TidyLast(q) /\ ~In("tidy", q) /\ ~In("write", q)
        /\ r.steps # "asked"
    BY Passed DEF Narrating, Asks
  <1>3. In("tidy", r.queue)
    BY AtHead
  <1>4. r.phase = "settled" BY <1>3 DEF Narrating, Tidying
  <1>5. In("stop", q) <=> In("stop", r.queue) BY <1>2
  <1> HIDE DEF q
  <1>6. s \in Narrated BY <1>1, <1>2 DEF Narrated
  <1>7. /\ s.phase = r.phase /\ s.settling = r.settling /\ s.route = r.route /\ s.steps = r.steps
        /\ s.queue = q /\ s.card = r.card /\ s.lost = gone /\ s.ackWritten = r.ackWritten
        /\ s.reserved = r.reserved /\ s.ack = ack
    BY <1>1 DEF Narrated
  <1>8. Ending(s) BY <1>7 DEF Narrating, Ending
  <1>9. Streaming(s)
    <2>1. \A i \in 1..Len(q) : q[i] \notin Asks BY <1>2
    <2>2. r.card = "going" => r.steps = "open" \/ "open" \in gone
      BY <1>1 DEF Narrating, Streaming
    <2>3. r.card = "closed" => r.steps = "open" BY DEF Narrating, Streaming
    <2>4. r.steps \in {"asked", "open"} => In("stop", q) \/ r.card = "closed" \/ "stop" \in gone
      BY <1>1, <1>4, <1>5 DEF Narrating, Streaming
    <2> QED BY <1>2, <1>4, <1>7, <2>1, <2>2, <2>3, <2>4 DEF Streaming
  <1>10. Tidying(s)
    <2>1. r.ack = "step" => r.ackWritten BY DEF Narrating, Tidying
    <2>2. r.ackWritten <=> r.reserved # None BY DEF Narrating, Tidying
    <2>3. ack = "step" => r.ackWritten BY <1>1, <2>1
    <2> QED BY <1>1, <1>2, <1>7, <2>2, <2>3 DEF Tidying
  <1>11. Stopping(s) BY <1>1 DEF Narrating, Stopping, Narrated
  <1>12. Tidied(s) BY <1>2, <1>4, <1>7 DEF Tidied
  <1>13. ~Tidied(r) BY <1>3 DEF Tidied
  <1> QED BY <1>6, <1>7, <1>8, <1>9, <1>10, <1>11, <1>12, <1>13 DEF Narrating

\* A press or a session, and a cancel that is tried or has to wait for the other.
Heard(r, s) ==
    /\ s.label = r.label /\ (r.left => s.left)
    /\ s.stopped /\ ~s.left => (r.stopped /\ ~r.left) \/ r.phase = "failed"
    /\ \/ s.tried
       \/ s.stopWanted /\ ~s.cancelRun
       \/ ~r.stopWanted /\ (s.pressed => r.pressed) /\ (r.tried => s.tried)

LEMMA Pressed ==
    ASSUME NEW r \in Narrated, Narrating(r), r.phase \in {"running", "failed"},
           NEW s \in Narrated, Alike(r, s), Heard(r, s)
    PROVE  Narrating(s) /\ s.reserved = r.reserved /\ (Tidied(s) <=> Tidied(r))
  <1>1. Ending(s) /\ Streaming(s) /\ Tidying(s) /\ (Tidied(s) <=> Tidied(r))
    BY SpokenTo DEF Narrating
  <1>2. s.reserved = r.reserved /\ s.phase = r.phase BY DEF Alike
  <1>3. Stopping(s)
    <2>1. Stopping(r) BY DEF Narrating
    <2>2. s.pressed => s.tried \/ (s.stopWanted /\ ~s.cancelRun) BY <2>1 DEF Stopping, Heard
    <2>3. s.stopped /\ ~s.left => s.phase \in {"failed", "settled"} BY <1>2, <2>1 DEF Stopping, Heard
    <2>4. s.label => s.left BY <2>1 DEF Stopping, Heard
    <2> QED BY <2>2, <2>3, <2>4 DEF Stopping
  <1> QED BY <1>1, <1>2, <1>3 DEF Narrating

\* The phases before a turn settles.
Moves(r, s) ==
    /\ s.steps = r.steps /\ s.queue = r.queue /\ s.card = r.card /\ s.lost = r.lost
    /\ s.ackWritten = r.ackWritten /\ s.reserved = r.reserved
    /\ s.pressed = r.pressed /\ s.tried = r.tried /\ s.stopWanted = r.stopWanted
    /\ s.cancelRun = r.cancelRun /\ s.stopped = r.stopped /\ s.left = r.left

LEMMA Goes ==
    ASSUME NEW r \in Narrated, Narrating(r), NEW s, Moves(r, s),
           s.ack = "step" => r.ack = "step", s.label => r.label \/ r.stopped,
           \/ /\ r.phase = "idle" /\ s.phase = "running"
              /\ s.settling = r.settling /\ s.route = r.route
           \/ /\ r.phase = "running" /\ s.phase = "answered"
              /\ s.settling = TRUE /\ s.route = FALSE
           \/ /\ r.phase = "running" /\ s.phase = "failed"
              /\ s.settling = r.settling /\ s.route = r.route
           \/ /\ r.phase = "answered" /\ s.phase = "posted"
              /\ s.settling = r.settling /\ s.route = r.route
    PROVE  Narrating(s) /\ s.reserved = r.reserved /\ (Tidied(s) <=> Tidied(r))
  <1>1. /\ r.phase \in {"idle", "running", "answered"}
        /\ s.phase \in {"running", "failed", "answered", "posted"}
    OBVIOUS
  <1>2. Ending(s) BY DEF Narrating, Ending, Moves
  <1>3. Streaming(s) BY <1>1 DEF Narrating, Streaming, Moves
  <1>4. Tidying(s) BY <1>1 DEF Narrating, Tidying, Moves
  <1>5. Stopping(s)
    <2>1. r.stopped => r.left BY <1>1 DEF Narrating, Stopping
    <2>2. Stopping(r) BY DEF Narrating
    <2> QED BY <2>1, <2>2 DEF Stopping, Moves
  <1>6. ~Tidied(s) /\ ~Tidied(r) BY <1>1 DEF Tidied
  <1>7. s.reserved = r.reserved BY DEF Moves
  <1> QED BY <1>2, <1>3, <1>4, <1>5, <1>6, <1>7 DEF Narrating

\* The closes of a turn, each of them once.
OnceEach(c) ==
    /\ \A i \in 1..Len(c) : c[i] \in {"stop", "tidy"}
    /\ \A i, j \in 1..Len(c) : c[i] = c[j] => i = j

\* They are behind the chain.
Closed(p, c, q) ==
    /\ q \in Seq(Links)
    /\ \A x : In(x, q) => In(x, p) \/ In(x, c)
    /\ \A x : In(x, p) \/ In(x, c) => In(x, q)
    /\ \A i \in 1..Len(q) : q[i] \in Asks => i \in 1..Len(p) /\ q[i] = p[i]
    /\ Len(p) > 0 => Len(q) > 0 /\ q[1] = p[1]
    /\ ~In("write", c)
    /\ ~In("tidy", p) => TidyLast(q)

LEMMA ClosesBehind ==
    ASSUME NEW p \in Seq(Links), NEW c \in Seq(Links), OnceEach(c)
    PROVE  Closed(p, c, p \o c)
  <1> DEFINE q == p \o c
  <1>4. /\ q \in Seq(Links) /\ Len(p) \in Nat /\ Len(c) \in Nat
        /\ Len(q) = Len(p) + Len(c)
        /\ \A i \in 1..Len(p) : q[i] = p[i]
        /\ \A i \in 1..Len(c) : q[Len(p) + i] = c[i]
    BY Closing
  <1> HIDE DEF q
  <1>3. /\ \A i \in 1..Len(c) : c[i] \in {"stop", "tidy"}
        /\ \A i, j \in 1..Len(c) : c[i] = c[j] => i = j
    BY DEF OnceEach
  <1>5. \A i \in 1..Len(q) :
           \/ i \in 1..Len(p) /\ q[i] = p[i]
           \/ \E k \in 1..Len(c) : i = Len(p) + k /\ q[i] = c[k]
    <2> TAKE i \in 1..Len(q)
    <2>1. CASE i <= Len(p) BY <1>4, <2>1
    <2>2. CASE i > Len(p)
      <3>1. i - Len(p) \in 1..Len(c) /\ i = Len(p) + (i - Len(p))
        BY <1>4, <2>2
      <3> QED BY <1>4, <3>1
    <2> QED BY <1>4, <2>1, <2>2
  <1>6. \A x : In(x, q) <=> In(x, p) \/ In(x, c)
    <2> TAKE x
    <2>1. In(x, q) => In(x, p) \/ In(x, c) BY <1>5 DEF In
    <2>2. In(x, p) => In(x, q)
      <3>1. \A i \in 1..Len(p) : i \in 1..Len(q) BY <1>4
      <3> QED BY <1>4, <3>1 DEF In
    <2>3. In(x, c) => In(x, q)
      <3>1. \A i \in 1..Len(c) : Len(p) + i \in 1..Len(q) BY <1>4
      <3> QED BY <1>4, <3>1 DEF In
    <2> QED BY <2>1, <2>2, <2>3
  <1>7. \A i \in 1..Len(q) : q[i] \in Asks => i \in 1..Len(p) /\ q[i] = p[i]
    BY <1>3, <1>5 DEF Asks
  <1>8. ~In("write", c) BY <1>3 DEF In
  <1>9. ASSUME ~In("tidy", p) PROVE TidyLast(q)
    <2> SUFFICES ASSUME NEW i \in 1..Len(q), NEW j \in 1..Len(q), q[i] = "tidy"
                 PROVE  /\ q[j] = "tidy" => i = j
                        /\ q[j] = "write" => j < i
      BY DEF TidyLast
    <2>1. \A k \in 1..Len(p) : p[k] # "tidy" BY <1>9 DEF In
    <2>2. PICK k \in 1..Len(c) : i = Len(p) + k /\ c[k] = "tidy" BY <1>5, <2>1
    <2>3. q[j] = "tidy" => i = j
      <3> HAVE q[j] = "tidy"
      <3>1. PICK m \in 1..Len(c) : j = Len(p) + m /\ c[m] = "tidy" BY <1>5, <2>1
      <3> QED BY <1>3, <2>2, <3>1
    <2>4. q[j] = "write" => j < i
      <3> HAVE q[j] = "write"
      <3>1. j \in 1..Len(p) BY <1>3, <1>5
      <3> QED BY <1>4, <2>2, <3>1
    <2> QED BY <2>3, <2>4
  <1>10. Len(p) > 0 => Len(q) > 0 /\ q[1] = p[1] BY <1>4
  <1>11. Closed(p, c, q) BY <1>4, <1>6, <1>7, <1>8, <1>9, <1>10 DEF Closed
  <1> QED BY <1>11 DEF q

Closes(r, c) ==
    /\ r.steps # None => In("stop", c)
    /\ r.ackWritten \/ r.ack = "in flight" => In("tidy", c)

\* A turn settles: what it opened and what it wrote have their closes queued.
LEMMA Settles ==
    ASSUME NEW r \in Narrated, Narrating(r), r.phase \in {"failed", "posted"},
           NEW c \in Seq(Links), OnceEach(c), Closes(r, c),
           NEW s, s = [r EXCEPT !.phase = "settled", !.settling = TRUE, !.route = FALSE,
                                !.queue = @ \o c]
    PROVE  /\ s \in Narrated /\ Narrating(s) /\ s.reserved = r.reserved
           /\ s.reserved # None => ~Tidied(s)
           /\ ~Tidied(r)
  <1> DEFINE q == r.queue \o c
  <1>1. s = [r EXCEPT !.phase = "settled", !.settling = TRUE, !.route = FALSE, !.queue = q]
    BY DEF Narrated
  <1>2. r.queue \in Seq(Links) BY DEF Narrated
  <1>3. /\ q \in Seq(Links)
        /\ \A x : In(x, q) => In(x, r.queue) \/ In(x, c)
        /\ \A x : In(x, r.queue) \/ In(x, c) => In(x, q)
        /\ \A i \in 1..Len(q) : q[i] \in Asks => i \in 1..Len(r.queue) /\ q[i] = r.queue[i]
        /\ Len(r.queue) > 0 => Len(q) > 0 /\ q[1] = r.queue[1]
        /\ ~In("write", c)
        /\ ~In("tidy", r.queue) => TidyLast(q)
    <2>1. Closed(r.queue, c, q) BY <1>2, ClosesBehind
    <2> HIDE DEF q
    <2> QED BY <2>1 DEF Closed
  <1> HIDE DEF q
  <1>7. ~In("tidy", r.queue) /\ ~In("stop", r.queue) BY DEF Narrating, Tidying, Streaming
  <1>9. s \in Narrated BY <1>1, <1>3 DEF Narrated, Phases
  <1>10. /\ s.phase = "settled" /\ s.settling = TRUE /\ s.route = FALSE /\ s.steps = r.steps
         /\ s.queue = q /\ s.card = r.card /\ s.lost = r.lost /\ s.ackWritten = r.ackWritten
         /\ s.reserved = r.reserved /\ s.ack = r.ack
    BY <1>1 DEF Narrated
  <1>11. Ending(s) BY <1>10 DEF Ending
  <1>12. Streaming(s)
    <2>1. r.steps = "asked" => Len(q) > 0 /\ q[1] \in Asks
      <3> HAVE r.steps = "asked"
      <3>1. Len(r.queue) > 0 /\ r.queue[1] \in Asks BY DEF Narrating, Streaming
      <3> QED BY <1>3, <3>1
    <2>2. \A i \in 1..Len(q) : q[i] \in Asks => i = 1 /\ r.steps = "asked"
      <3> SUFFICES ASSUME NEW i \in 1..Len(q), q[i] \in Asks PROVE i = 1 /\ r.steps = "asked"
        OBVIOUS
      <3>1. i \in 1..Len(r.queue) /\ q[i] = r.queue[i] BY <1>3
      <3> QED BY <3>1 DEF Narrating, Streaming
    <2>3. r.card = "going" => r.steps = "open" \/ "open" \in r.lost BY DEF Narrating, Streaming
    <2>4. r.card = "closed" => r.steps = "open" BY DEF Narrating, Streaming
    <2>5. r.steps \in {"asked", "open"} => In("stop", q)
      BY <1>3, NarrationAssumption DEF NarrationAssumption, Closes
    <2> QED BY <1>10, <2>1, <2>2, <2>3, <2>4, <2>5 DEF Streaming
  <1>13. TidyLast(q) BY <1>3, <1>7
  <1>14. Tidying(s)
    <2>1. r.ackWritten <=> r.reserved # None BY DEF Narrating, Tidying
    <2>2. In("write", q) \/ r.ack = "step" => r.ackWritten BY <1>3 DEF Narrating, Tidying
    <2>3. In("tidy", q) \/ (r.ack = "rest" /\ ~In("write", q))
      <3>1. r.ack \in {"in flight", "step", "rest"} BY DEF Narrated
      <3>2. CASE r.ackWritten \/ r.ack = "in flight" BY <1>3, <3>2 DEF Closes
      <3>3. CASE ~r.ackWritten /\ r.ack # "in flight" BY <2>2, <3>1, <3>3
      <3> QED BY <3>2, <3>3
    <2> QED BY <1>10, <1>13, <2>1, <2>2, <2>3 DEF Tidying
  <1>15. Stopping(s)
    <2>1. /\ s.pressed = r.pressed /\ s.tried = r.tried /\ s.stopWanted = r.stopWanted
          /\ s.cancelRun = r.cancelRun /\ s.left = r.left /\ s.label = r.label
      BY <1>1 DEF Narrated
    <2> QED BY <1>10, <2>1 DEF Narrating, Stopping
  <1>16. s.reserved # None => ~Tidied(s)
    <2>1. r.ackWritten <=> r.reserved # None BY DEF Narrating, Tidying
    <2> QED BY <1>3, <1>10, <2>1 DEF Tidied, Closes
  <1>17. ~Tidied(r) BY DEF Tidied
  <1> QED BY <1>9, <1>10, <1>11, <1>12, <1>14, <1>15, <1>16, <1>17 DEF Narrating
-----------------------------------------------------------------------------
(* Stamps. *)

StampsIn(W, f) == UNION {{tick} \X (1..f[tick]) : tick \in W}

LEMMA StampsAre ==
    ASSUME NEW W, NEW f, NEW x
    PROVE  x \in StampsIn(W, f) <=> \E tick \in W : \E k \in 1..f[tick] : x = <<tick, k>>
  BY DEF StampsIn

\* There are finitely many in a window.
LEMMA StampsFinite ==
    ASSUME NEW W \in SUBSET Time, NEW f \in [Time -> Nat]
    PROVE  IsFiniteSet(StampsIn(W, f))
  <1> DEFINE T == {{tick} \X (1..f[tick]) : tick \in W}
             g == [tick \in W |-> {tick} \X (1..f[tick])]
  <1>1. IsFiniteSet(W)
    <2>1. IsFiniteSet(Time) BY FS_Interval, NarrationAssumption DEF Time, NarrationAssumption
    <2> QED BY <2>1, FS_Subset
  <1>2. g \in Surjection(W, T) BY DEF Surjection
  <1>3. IsFiniteSet(T) BY <1>1, <1>2, FS_Surjection
  <1>4. \A S \in T : IsFiniteSet(S)
    <2> TAKE S \in T
    <2>1. PICK tick \in W : S = {tick} \X (1..f[tick]) OBVIOUS
    <2>2. IsFiniteSet({tick}) BY FS_Singleton
    <2>3. f[tick] \in Int OBVIOUS
    <2>4. IsFiniteSet(1..f[tick]) BY <2>3, FS_Interval
    <2> QED BY <2>1, <2>2, <2>4, FS_Product
  <1>5. IsFiniteSet(UNION T) BY <1>3, <1>4, FS_UNION
  <1> QED BY <1>5 DEF StampsIn

\* A stamp more of a tick of the window is one more.
LEMMA StampsMore ==
    ASSUME NEW W \in SUBSET Time, NEW f \in [Time -> Nat], NEW tick \in W
    PROVE  /\ Adds(f, tick, 1) \in [Time -> Nat]
           /\ StampsIn(W, Adds(f, tick, 1)) = StampsIn(W, f) \cup {<<tick, f[tick] + 1>>}
           /\ <<tick, f[tick] + 1>> \notin StampsIn(W, f)
           /\ Cardinality(StampsIn(W, Adds(f, tick, 1))) = Cardinality(StampsIn(W, f)) + 1
  <1> DEFINE g == Adds(f, tick, 1)
  <1>1. g \in [Time -> Nat] /\ g = [f EXCEPT ![tick] = f[tick] + 1] BY DEF Adds
  <1>2. /\ f[tick] \in Nat /\ g[tick] = f[tick] + 1
        /\ \A other \in W : other # tick => g[other] = f[other]
        /\ \A other \in W : f[other] \in Nat /\ g[other] \in Nat
    BY <1>1
  <1> HIDE DEF g
  <1>3. <<tick, f[tick] + 1>> \notin StampsIn(W, f)
    <2> SUFFICES ASSUME NEW u \in W, NEW k \in 1..f[u], <<tick, f[tick] + 1>> = <<u, k>>
                 PROVE  FALSE
      BY StampsAre
    <2>1. u = tick /\ k = f[tick] + 1 OBVIOUS
    <2> QED BY <1>2, <2>1
  <1>4. StampsIn(W, g) = StampsIn(W, f) \cup {<<tick, f[tick] + 1>>}
    <2>1. ASSUME NEW x \in StampsIn(W, g)
          PROVE  x \in StampsIn(W, f) \cup {<<tick, f[tick] + 1>>}
      <3>0. PICK u \in W : \E k \in 1..g[u] : x = <<u, k>> BY <2>1, StampsAre
      <3>1. PICK k \in 1..g[u] : x = <<u, k>> BY <3>0
      <3>2. CASE u = tick /\ k = f[tick] + 1 BY <3>1, <3>2
      <3>3. CASE ~(u = tick /\ k = f[tick] + 1)
        <4>1. k \in 1..f[u] BY <1>2, <3>1, <3>3
        <4> QED BY <3>1, <4>1, StampsAre
      <3> QED BY <3>2, <3>3
    <2>2. ASSUME NEW x \in StampsIn(W, f) PROVE x \in StampsIn(W, g)
      <3>0. PICK u \in W : \E k \in 1..f[u] : x = <<u, k>> BY <2>2, StampsAre
      <3>1. PICK k \in 1..f[u] : x = <<u, k>> BY <3>0
      <3>2. k \in 1..g[u] BY <1>2, <3>1
      <3> QED BY <3>1, <3>2, StampsAre
    <2>3. <<tick, f[tick] + 1>> \in StampsIn(W, g)
      <3>1. f[tick] + 1 \in 1..g[tick] BY <1>2
      <3> QED BY <3>1, StampsAre
    <2> QED BY <2>1, <2>2, <2>3
  <1>5. Cardinality(StampsIn(W, g)) = Cardinality(StampsIn(W, f)) + 1
    BY <1>3, <1>4, StampsFinite, FS_AddElement
  <1> QED BY <1>1, <1>3, <1>4, <1>5 DEF g

\* The window ends with now.
LEMMA NowInWindow == ASSUME TypeOK PROVE now \in Window /\ Window \in SUBSET Time
  <1>1. now \in Time BY DEF TypeOK
  <1>2. now <= now /\ now < now + Minute
    BY <1>1, NarrationAssumption DEF Time, NarrationAssumption
  <1> QED BY <1>1, <1>2 DEF Window

LEMMA Counts == ASSUME TypeOK
                PROVE  /\ spent \in [Time -> Nat] /\ charged \in [Time -> Nat]
                       /\ forced \in [Time -> Nat] /\ now \in Time
  BY DEF TypeOK

\* What there is room for keeps within the ceiling.
LEMMA RoomBounds ==
    ASSUME TypeOK, NEW n \in {1, 2}, room(n)
    PROVE  /\ Adds(spent, now, n) \in [Time -> Nat]
           /\ LET new == StampsIn(Window, Adds(spent, now, n)) \ StampsIn(Window, forced)
              IN IsFiniteSet(new) /\ Cardinality(new) <= Ceiling
  <1> DEFINE f == Adds(spent, now, 1)
             g == Adds(spent, now, n)
             S == StampsIn(Window, g)
             F == StampsIn(Window, forced)
  <1>1. spent \in [Time -> Nat] /\ now \in Window /\ Window \in SUBSET Time
    BY Counts, NowInWindow
  <1>2. Cardinality(StampsIn(Window, spent)) + n <= Ceiling BY DEF room, Recent, Stamps, StampsIn
  <1>3. f \in [Time -> Nat] /\ Cardinality(StampsIn(Window, f)) = Cardinality(StampsIn(Window, spent)) + 1
    BY <1>1, StampsMore
  <1>4. Cardinality(StampsIn(Window, spent)) \in Nat
    BY <1>1, StampsFinite, FS_CardinalityType
  <1>5. g \in [Time -> Nat] /\ Cardinality(S) = Cardinality(StampsIn(Window, spent)) + n
    <2>1. CASE n = 1 BY <1>3, <2>1
    <2>2. CASE n = 2
      <3>1. now \in Time /\ spent[now] \in Nat BY <1>1
      <3>2. g = Adds(f, now, 1) BY <1>1, <2>2, <3>1 DEF Adds
      <3> HIDE DEF f, g
      <3>3. g \in [Time -> Nat] /\ Cardinality(S) = Cardinality(StampsIn(Window, f)) + 1
        BY <1>1, <1>3, <3>2, StampsMore
      <3> QED BY <1>3, <1>4, <2>2, <3>3
    <2> QED BY <2>1, <2>2
  <1>6. IsFiniteSet(S) BY <1>1, <1>5, StampsFinite
  <1>7. IsFiniteSet(S \ F) /\ Cardinality(S \ F) <= Cardinality(S)
    BY <1>6, FS_Subset
  <1>8. Cardinality(S \ F) \in Nat /\ Cardinality(S) \in Nat BY <1>6, <1>7, FS_CardinalityType
  <1>9. Cardinality(S \ F) <= Ceiling
    BY <1>2, <1>4, <1>5, <1>7, <1>8, NarrationAssumption DEF NarrationAssumption
  <1> QED BY <1>5, <1>7, <1>9

\* A stamp that is forced is no more of those that were not.
LEMMA ForcedBounds ==
    ASSUME TypeOK, Bounded
    PROVE  LET new == StampsIn(Window, Adds(spent, now, 1)) \ StampsIn(Window, Adds(forced, now, 1))
           IN IsFiniteSet(new) /\ Cardinality(new) <= Ceiling
  <1> DEFINE S == StampsIn(Window, spent)
             F == StampsIn(Window, forced)
             s == <<now, spent[now] + 1>>
             x == <<now, forced[now] + 1>>
             new == StampsIn(Window, Adds(spent, now, 1)) \ StampsIn(Window, Adds(forced, now, 1))
  <1>1. /\ spent \in [Time -> Nat] /\ forced \in [Time -> Nat] /\ now \in Window
        /\ Window \in SUBSET Time /\ spent[now] \in Nat /\ forced[now] \in Nat
    BY Counts, NowInWindow
  <1>2. StampsIn(Window, Adds(spent, now, 1)) = S \cup {s} BY <1>1, StampsMore
  <1>3. StampsIn(Window, Adds(forced, now, 1)) = F \cup {x} BY <1>1, StampsMore
  <1>4. IsFiniteSet(S \ F) /\ Cardinality(S \ F) <= Ceiling
    BY DEF Bounded, Unforced, Stamps, StampsIn
  <1>5. Cardinality(S \ F) \in Nat BY <1>4, FS_CardinalityType
  <1>6. CASE spent[now] > forced[now]
    <2>1. x \in S \ F
      <3>1. forced[now] + 1 \in 1..spent[now] BY <1>1, <1>6
      <3>2. x \in S BY <1>1, <3>1, StampsAre
      <3>3. x \notin F BY <1>1, StampsMore
      <3> QED BY <3>2, <3>3
    <2>2. s \notin S BY <1>1, StampsMore
    <2>3. IsFiniteSet((S \ F) \ {x}) /\ Cardinality((S \ F) \ {x}) = Cardinality(S \ F) - 1
      BY <1>4, <2>1, FS_RemoveElement
    <2> DEFINE A == (S \ F) \ {x}
    <2>4. s \notin A /\ new \in SUBSET (A \cup {s}) BY <1>2, <1>3, <2>2
    <2> HIDE DEF A, S, F, s, x, new
    <2>5. IsFiniteSet(A \cup {s}) /\ Cardinality(A \cup {s}) = Cardinality(A) + 1
      BY <2>3, <2>4, FS_AddElement DEF A
    <2>8. Cardinality(A) + 1 = Cardinality(S \ F) BY <1>5, <2>3 DEF A
    <2>6. IsFiniteSet(new) /\ Cardinality(new) <= Cardinality(S \ F)
      BY <2>4, <2>5, <2>8, FS_Subset
    <2>7. Cardinality(new) \in Nat BY <2>6, FS_CardinalityType
    <2>9. Cardinality(new) <= Ceiling
      BY <1>4, <1>5, <2>6, <2>7, NarrationAssumption DEF NarrationAssumption
    <2> QED BY <2>6, <2>9 DEF new
  <1>7. CASE ~(spent[now] > forced[now])
    <2>1. s \in F \cup {x}
      <3>1. spent[now] + 1 \in 1..forced[now] \/ spent[now] + 1 = forced[now] + 1 BY <1>1, <1>7
      <3>2. CASE spent[now] + 1 \in 1..forced[now] BY <1>1, <3>2, StampsAre
      <3> QED BY <3>1, <3>2
    <2>2. new \in SUBSET (S \ F) BY <1>2, <1>3, <2>1
    <2>3. IsFiniteSet(new) /\ Cardinality(new) <= Cardinality(S \ F) BY <1>4, <2>2, FS_Subset
    <2>4. Cardinality(new) \in Nat BY <2>3, FS_CardinalityType
    <2> QED BY <1>4, <1>5, <2>3, <2>4, NarrationAssumption DEF NarrationAssumption
  <1> QED BY <1>6, <1>7
-----------------------------------------------------------------------------
(* The steps. *)

\* Who is outstanding when one turn becomes another.
LEMMA OutstandingAre ==
    ASSUME TypeOK, NEW t \in Turn, NEW s \in Narrated, Becomes(t, s), NEW tick \in Time
    PROVE  /\ turns' \in [Turn -> Narrated] /\ turns'[t] = s
           /\ \A u \in Turn : u # t => turns'[u] = turns[u]
           /\ Outstanding(tick)' = (Outstanding(tick) \ {t})
                                   \cup (IF s.reserved = tick /\ ~Tidied(s) THEN {t} ELSE {})
  <1>1. turns \in [Turn -> Narrated] BY DEF TypeOK
  <1>2. /\ turns' \in [Turn -> Narrated] /\ turns'[t] = s
        /\ \A u \in Turn : u # t => turns'[u] = turns[u]
    BY <1>1 DEF Becomes
  <1>3. Outstanding(tick)' = {u \in Turn : turns'[u].reserved = tick /\ ~Tidied(turns'[u])}
    BY DEF Outstanding, Tidied
  <1> QED BY <1>2, <1>3 DEF Outstanding

\* The turn pays for nothing, and owes a cleanup as before.
LEMMA TurnKeeps ==
    ASSUME IInv, NEW t \in Turn, NEW s \in Narrated, Narrating(s), Becomes(t, s),
           s.reserved = turns[t].reserved,
           s.reserved # None => (Tidied(s) <=> Tidied(turns[t])),
           UNCHANGED <<now, budget>>
    PROVE  IInv'
  <1>1. TypeOK /\ \A u \in Turn : Narrating(turns[u]) BY DEF IInv
  <1>2. now' = now /\ spent' = spent /\ charged' = charged /\ forced' = forced BY DEF budget
  <1>3. /\ turns' \in [Turn -> Narrated] /\ turns'[t] = s
        /\ \A u \in Turn : u # t => turns'[u] = turns[u]
    <2>1. turns \in [Turn -> Narrated] BY <1>1 DEF TypeOK
    <2> QED BY <2>1 DEF Becomes
  <1>4. TypeOK' BY <1>1, <1>2, <1>3 DEF TypeOK
  <1>5. \A u \in Turn : Narrating(turns'[u]) BY <1>1, <1>3
  <1>6. \A tick \in Time : Outstanding(tick)' = Outstanding(tick)
    <2> TAKE tick \in Time
    <2>1. tick # None BY NarrationAssumption DEF NarrationAssumption
    <2>2. Outstanding(tick)' = (Outstanding(tick) \ {t})
                               \cup (IF s.reserved = tick /\ ~Tidied(s) THEN {t} ELSE {})
      BY <1>1, OutstandingAre
    <2>3. t \in Outstanding(tick) <=> s.reserved = tick /\ ~Tidied(s)
      BY <2>1 DEF Outstanding
    <2> QED BY <2>2, <2>3
  <1>7. Paid'
    <2>1. Paid BY DEF IInv
    <2> QED BY <1>2, <1>6, <2>1 DEF Paid
  <1>8. Bounded' BY <1>2 DEF IInv, Bounded, Unforced, Stamps, Window
  <1>9. Ahead' BY <1>2 DEF IInv, Ahead
  <1> QED BY <1>4, <1>5, <1>7, <1>8, <1>9 DEF IInv

\* A step on the acknowledgement, or none.
LEMMA RewriteKeeps ==
    ASSUME IInv, NEW t \in Turn, NEW r \in Narrated, Narrating(r),
           r.phase \in {"running", "failed", "answered", "posted"}, r.steps = "refused",
           r.reserved = turns[t].reserved, Tidied(r) <=> Tidied(turns[t]),
           Rewrites(t, r), UNCHANGED <<now, forced>>
    PROVE  IInv'
  <1>1. TypeOK /\ \A u \in Turn : Narrating(turns[u]) BY DEF IInv
  <1>2. CASE Becomes(t, r) /\ UNCHANGED <<spent, charged>>
    BY <1>2, TurnKeeps DEF budget
  <1>3. CASE ~(Becomes(t, r) /\ UNCHANGED <<spent, charged>>)
    <2> DEFINE n == IF r.ackWritten THEN 1 ELSE 2
    <2>1. PICK s : s = Chained([r EXCEPT !.ackWritten = TRUE,
                                         !.reserved = IF @ = None THEN now ELSE @], "write")
      OBVIOUS
    <2>2. /\ room(n) /\ Becomes(t, s) /\ spent' = Adds(spent, now, n)
          /\ charged' = Adds(charged, now, 1)
      BY <1>3, <2>1 DEF Rewrites
    <2>3. /\ spent \in [Time -> Nat] /\ charged \in [Time -> Nat]
          /\ forced \in [Time -> Nat] /\ now \in Time /\ now' = now /\ forced' = forced
      BY <1>1, Counts
    <2>4. /\ s \in Narrated /\ Narrating(s) /\ ~Tidied(s) /\ ~Tidied(r)
          /\ r.ackWritten <=> r.reserved # None
          /\ s.reserved = IF r.ackWritten THEN r.reserved ELSE now
      BY <2>1, <2>3, Writes
    <2>5. n \in {1, 2} OBVIOUS
    <2>6. /\ spent' \in [Time -> Nat] /\ charged' \in [Time -> Nat]
          /\ IsFiniteSet(StampsIn(Window, spent') \ StampsIn(Window, forced))
          /\ Cardinality(StampsIn(Window, spent') \ StampsIn(Window, forced)) <= Ceiling
      <3>1. spent' \in [Time -> Nat] BY <1>1, <2>2, <2>5, RoomBounds
      <3>2. charged' \in [Time -> Nat]
        <4>1. now \in Window /\ Window \in SUBSET Time BY <1>1, NowInWindow
        <4> QED BY <2>2, <2>3, <4>1, StampsMore
      <3>3. /\ IsFiniteSet(StampsIn(Window, Adds(spent, now, n)) \ StampsIn(Window, forced))
            /\ Cardinality(StampsIn(Window, Adds(spent, now, n)) \ StampsIn(Window, forced)) <= Ceiling
        BY <1>1, <2>2, <2>5, RoomBounds
      <3> QED BY <2>2, <3>1, <3>2, <3>3
    <2>7. TypeOK'
      <3>1. turns' \in [Turn -> Narrated] BY <1>1, <2>2, <2>3, <2>4, OutstandingAre
      <3> QED BY <2>3, <2>6, <3>1 DEF TypeOK
    <2>8. \A u \in Turn : Narrating(turns'[u]) BY <1>1, <2>2, <2>3, <2>4, OutstandingAre
    <2>9. Paid'
      <3> SUFFICES ASSUME NEW tick \in Time
                   PROVE  /\ IsFiniteSet(Outstanding(tick)')
                          /\ charged'[tick] + Cardinality(Outstanding(tick)') <= spent'[tick]
        BY DEF Paid
      <3>1. /\ IsFiniteSet(Outstanding(tick))
            /\ charged[tick] + Cardinality(Outstanding(tick)) <= spent[tick]
        BY DEF IInv, Paid
      <3>2. Cardinality(Outstanding(tick)) \in Nat BY <3>1, FS_CardinalityType
      <3>3. charged[tick] \in Nat /\ spent[tick] \in Nat BY <2>3
      <3>4. Outstanding(tick)' = (Outstanding(tick) \ {t})
                                 \cup (IF s.reserved = tick THEN {t} ELSE {})
        BY <1>1, <2>2, <2>4, OutstandingAre
      <3>5. t \in Outstanding(tick) <=> r.reserved = tick BY <2>4 DEF Outstanding
      <3>6. CASE r.ackWritten \/ tick # now
        <4>1. s.reserved = tick <=> r.reserved = tick
          BY <2>4, <3>6, NarrationAssumption DEF NarrationAssumption
        <4>2. Outstanding(tick)' = Outstanding(tick) BY <3>4, <3>5, <4>1
        <4>3. CASE tick = now
          <5>1. charged'[tick] = charged[tick] + 1 /\ spent'[tick] = spent[tick] + 1
            BY <2>2, <2>3, <3>6, <4>3 DEF Adds
          <5> QED BY <3>1, <3>2, <3>3, <4>2, <5>1
        <4>4. CASE tick # now
          <5>1. charged'[tick] = charged[tick] /\ spent'[tick] = spent[tick]
            BY <2>2, <2>3, <4>4 DEF Adds
          <5> QED BY <3>1, <3>2, <3>3, <4>2, <5>1
        <4> QED BY <4>3, <4>4
      <3>7. CASE ~r.ackWritten /\ tick = now
        <4>1. charged'[tick] = charged[tick] + 1 /\ spent'[tick] = spent[tick] + 2
          BY <2>2, <2>3, <3>7 DEF Adds
        <4>2. Outstanding(tick)' = Outstanding(tick) \cup {t} BY <2>4, <3>4, <3>7
        <4>3. IsFiniteSet(Outstanding(tick)')
              /\ Cardinality(Outstanding(tick)') <= Cardinality(Outstanding(tick)) + 1
          <5> PICK O : O = Outstanding(tick) OBVIOUS
          <5>1. /\ IsFiniteSet(O \cup {t})
                /\ Cardinality(O \cup {t}) = IF t \in O THEN Cardinality(O) ELSE Cardinality(O) + 1
            BY <3>1, FS_AddElement
          <5>2. Cardinality(O \cup {t}) <= Cardinality(O) + 1 BY <3>2, <5>1
          <5> QED BY <4>2, <5>1, <5>2
        <4>4. Cardinality(Outstanding(tick)') \in Nat BY <4>3, FS_CardinalityType
        <4> QED BY <3>1, <3>2, <3>3, <4>1, <4>3, <4>4
      <3> QED BY <3>6, <3>7
    <2>10. Bounded'
      <3>1. Unforced' = StampsIn(Window, spent') \ StampsIn(Window, forced)
        BY <2>3 DEF Unforced, Stamps, StampsIn, Window
      <3> QED BY <2>6, <3>1 DEF Bounded
    <2>11. Ahead'
      <3> SUFFICES ASSUME NEW tick \in Time, tick > now PROVE spent'[tick] = 0
        BY <2>3 DEF Ahead
      <3>1. tick # now BY <2>3, NarrationAssumption DEF Time, NarrationAssumption
      <3>2. spent'[tick] = spent[tick] BY <2>2, <2>3, <3>1 DEF Adds
      <3> QED BY <3>2 DEF IInv, Ahead
    <2> QED BY <2>7, <2>8, <2>9, <2>10, <2>11 DEF IInv
  <1> QED BY <1>2, <1>3

\* The cleanup: paid for by what was reserved, or by force.
LEMMA TidiesKeeps ==
    ASSUME IInv, NEW t \in Turn, Tidies(t)
    PROVE  IInv'
  <1> DEFINE r == turns[t]
             fresh == r.reserved # None /\ now < r.reserved + Minute
             paid == IF fresh THEN r.reserved ELSE now
  <1>1. TypeOK /\ \A u \in Turn : Narrating(turns[u]) BY DEF IInv
  <1>2. /\ spent \in [Time -> Nat] /\ charged \in [Time -> Nat]
        /\ forced \in [Time -> Nat] /\ now \in Time /\ now' = now
    BY <1>1, Counts DEF Tidies
  <1>3. r \in Narrated /\ Narrating(r) BY <1>1 DEF TypeOK
  <1>4. r.queue # <<>> /\ Head(r.queue) = "tidy" BY DEF Tidies, Link
  <1>5. PICK s : Becomes(t, s) /\ (\/ s = [r EXCEPT !.queue = Tail(@), !.ack = "rest"]
                                   \/ s = [r EXCEPT !.queue = Tail(@), !.lost = @ \cup {"tidy"}])
    BY DEF Tidies, Rest
  <1>6. s \in Narrated /\ Narrating(s) /\ s.reserved = r.reserved /\ Tidied(s) /\ ~Tidied(r)
    BY <1>3, <1>4, <1>5, Rests
  <1>7. /\ charged' = Adds(charged, paid, 1)
        /\ spent' = IF fresh THEN spent ELSE Adds(spent, now, 1)
        /\ forced' = IF fresh THEN forced ELSE Adds(forced, now, 1)
    BY DEF Tidies, take
  <1>8. /\ turns' \in [Turn -> Narrated] /\ turns'[t] = s
        /\ \A u \in Turn : u # t => turns'[u] = turns[u]
    BY <1>1, <1>2, <1>5, <1>6, OutstandingAre
  <1>9. paid \in Time /\ (fresh => paid = r.reserved) /\ (~fresh => paid = now)
    BY <1>2, <1>3 DEF Narrated
  <1> HIDE DEF r, fresh, paid
  <1>10. TypeOK'
    <2>1. charged' \in [Time -> Nat]
      <3>1. charged[paid] + 1 \in Nat BY <1>2, <1>9
      <3> QED BY <1>2, <1>7, <3>1 DEF Adds
    <2>2. spent' \in [Time -> Nat] /\ forced' \in [Time -> Nat]
      <3>1. spent[now] + 1 \in Nat /\ forced[now] + 1 \in Nat BY <1>2
      <3> QED BY <1>2, <1>7, <3>1 DEF Adds
    <2> QED BY <1>2, <1>8, <2>1, <2>2 DEF TypeOK
  <1>11. \A u \in Turn : Narrating(turns'[u]) BY <1>1, <1>6, <1>8
  <1>12. Paid'
    <2> SUFFICES ASSUME NEW tick \in Time
                 PROVE  /\ IsFiniteSet(Outstanding(tick)')
                        /\ charged'[tick] + Cardinality(Outstanding(tick)') <= spent'[tick]
      BY DEF Paid
    <2> PICK O : O = Outstanding(tick) OBVIOUS
    <2>1. IsFiniteSet(O) /\ charged[tick] + Cardinality(O) <= spent[tick]
      BY DEF IInv, Paid
    <2>2. Cardinality(O) \in Nat BY <2>1, FS_CardinalityType
    <2>3. charged[tick] \in Nat /\ spent[tick] \in Nat BY <1>2
    <2>4. Outstanding(tick)' = O \ {t}
      BY <1>1, <1>5, <1>6, OutstandingAre
    <2>5. /\ IsFiniteSet(O \ {t})
          /\ Cardinality(O \ {t}) = IF t \in O THEN Cardinality(O) - 1 ELSE Cardinality(O)
      BY <2>1, FS_RemoveElement
    <2>6. Cardinality(O \ {t}) \in Nat /\ Cardinality(O \ {t}) <= Cardinality(O)
      BY <2>2, <2>5, FS_CardinalityType
    <2>7. CASE tick # paid
      <3>1. charged'[tick] = charged[tick] BY <1>2, <1>7, <2>7 DEF Adds
      <3>2. spent'[tick] = spent[tick] \/ spent'[tick] = spent[tick] + 1
        BY <1>2, <1>7 DEF Adds
      <3> QED BY <2>1, <2>2, <2>3, <2>4, <2>5, <2>6, <3>1, <3>2
    <2>8. CASE tick = paid /\ fresh
      <3>1. charged'[tick] = charged[tick] + 1 /\ spent'[tick] = spent[tick]
        BY <1>2, <1>7, <2>8 DEF Adds
      <3>2. t \in O BY <1>6, <1>9, <2>8 DEF Outstanding, r
      <3> QED BY <2>1, <2>2, <2>3, <2>4, <2>5, <2>6, <3>1, <3>2
    <2>9. CASE tick = paid /\ ~fresh
      <3>1. charged'[tick] = charged[tick] + 1 /\ spent'[tick] = spent[tick] + 1
        BY <1>2, <1>7, <1>9, <2>9 DEF Adds
      <3> QED BY <2>1, <2>2, <2>3, <2>4, <2>5, <2>6, <3>1
    <2> QED BY <2>7, <2>8, <2>9
  <1>13. Bounded'
    <2>1. Unforced' = StampsIn(Window, spent') \ StampsIn(Window, forced')
      BY <1>2 DEF Unforced, Stamps, StampsIn, Window
    <2>2. Bounded BY DEF IInv
    <2>3. CASE fresh
      <3>1. Unforced' = Unforced BY <1>7, <2>1, <2>3 DEF Unforced, Stamps, StampsIn
      <3> QED BY <2>2, <3>1 DEF Bounded
    <2>4. CASE ~fresh
      <3>1. Unforced' = StampsIn(Window, Adds(spent, now, 1)) \ StampsIn(Window, Adds(forced, now, 1))
        BY <1>7, <2>1, <2>4
      <3> QED BY <1>1, <2>2, <3>1, ForcedBounds DEF Bounded
    <2> QED BY <2>3, <2>4
  <1>14. Ahead'
    <2> SUFFICES ASSUME NEW tick \in Time, tick > now PROVE spent'[tick] = 0
      BY <1>2 DEF Ahead
    <2>1. tick # now BY <1>2, NarrationAssumption DEF Time, NarrationAssumption
    <2>2. spent'[tick] = spent[tick] BY <1>2, <1>7, <2>1 DEF Adds
    <2> QED BY <2>2 DEF IInv, Ahead
  <1> QED BY <1>10, <1>11, <1>12, <1>13, <1>14 DEF IInv

\* What ages out had been paid for.
LEMMA TickKeeps == ASSUME IInv, Tick PROVE IInv'
  <1>1. /\ TypeOK /\ now < MaxTime /\ now' = now + 1 /\ turns' = turns
        /\ spent' = spent /\ charged' = charged /\ forced' = forced
    BY DEF IInv, Tick, budget
  <1>2. spent \in [Time -> Nat] /\ forced \in [Time -> Nat] /\ now \in Time BY <1>1, Counts
  <1>3. now' \in Time
    BY <1>1, <1>2, NarrationAssumption DEF Time, NarrationAssumption
  <1>4. TypeOK' BY <1>1, <1>3 DEF TypeOK
  <1>5. (\A t \in Turn : Narrating(turns[t]))'
    <2>1. \A t \in Turn : Narrating(turns[t]) BY DEF IInv
    <2> QED BY <1>1, <2>1
  <1>6. Paid'
    <2>1. \A tick \in Time : Outstanding(tick)' = Outstanding(tick) BY <1>1 DEF Outstanding
    <2> QED BY <1>1, <2>1 DEF IInv, Paid
  <1>7. Bounded'
    <2>1. \A tick \in Window' : tick \in Time /\ (tick \in Window \/ spent[tick] = 0)
      <3> SUFFICES ASSUME NEW tick \in Time, tick <= now + 1, now + 1 < tick + Minute,
                          tick \notin Window
                   PROVE  spent[tick] = 0
        BY <1>1 DEF Window
      <3>1. tick \in Nat /\ now \in Nat /\ Minute \in Nat
        BY <1>2, NarrationAssumption DEF Time, NarrationAssumption
      <3>2. now < tick + Minute BY <3>1
      <3>3. ~(tick <= now) BY <3>2 DEF Window
      <3>4. tick > now BY <3>1, <3>3
      <3> QED BY <3>4 DEF IInv, Ahead
    <2>2. Unforced' = StampsIn(Window', spent) \ StampsIn(Window', forced)
      BY <1>1 DEF Unforced, Stamps, StampsIn
    <2>3. Unforced = StampsIn(Window, spent) \ StampsIn(Window, forced)
      BY DEF Unforced, Stamps, StampsIn
    <2> PICK W : W = Window' OBVIOUS
    <2>4. StampsIn(W, spent) \ StampsIn(W, forced) \in SUBSET Unforced
      <3> SUFFICES ASSUME NEW x, x \in StampsIn(W, spent), x \notin StampsIn(W, forced)
                   PROVE  x \in StampsIn(Window, spent) \ StampsIn(Window, forced)
        BY <2>3
      <3>0. PICK tick \in W : \E k \in 1..spent[tick] : x = <<tick, k>> BY StampsAre
      <3>1. PICK k \in 1..spent[tick] : x = <<tick, k>> BY <3>0
      <3>2. spent[tick] # 0 BY <3>1
      <3>3. tick \in Window BY <2>1, <3>0, <3>2
      <3>4. x \in StampsIn(Window, spent) BY <3>1, <3>3, StampsAre
      <3>5. ASSUME x \in StampsIn(Window, forced) PROVE FALSE
        <4>1. PICK u \in Window : \E m \in 1..forced[u] : x = <<u, m>> BY <3>5, StampsAre
        <4>2. PICK m \in 1..forced[u] : x = <<u, m>> BY <4>1
        <4>3. u = tick /\ m = k BY <3>1, <4>2
        <4>4. x \in StampsIn(W, forced) BY <3>0, <4>2, <4>3, StampsAre
        <4> QED BY <4>4
      <3> QED BY <3>4, <3>5
    <2>5. Bounded BY DEF IInv
    <2>6. IsFiniteSet(Unforced') /\ Cardinality(Unforced') <= Cardinality(Unforced)
      BY <2>2, <2>4, <2>5, FS_Subset DEF Bounded
    <2>7. Cardinality(Unforced') \in Nat /\ Cardinality(Unforced) \in Nat
      BY <2>5, <2>6, FS_CardinalityType DEF Bounded
    <2>8. Cardinality(Unforced') <= Ceiling
      BY <2>5, <2>6, <2>7, NarrationAssumption DEF Bounded, NarrationAssumption
    <2> QED BY <2>6, <2>8 DEF Bounded
  <1>8. Ahead'
    <2> SUFFICES ASSUME NEW tick \in Time, tick > now + 1 PROVE spent[tick] = 0
      BY <1>1 DEF Ahead
    <2>1. tick > now BY <1>2, NarrationAssumption DEF Time, NarrationAssumption
    <2> QED BY <2>1 DEF IInv, Ahead
  <1> QED BY <1>4, <1>5, <1>6, <1>7, <1>8 DEF IInv

LEMMA TurnOf == ASSUME IInv, NEW t \in Turn
                PROVE  turns[t] \in Narrated /\ Narrating(turns[t])
  BY DEF IInv, TypeOK

LEMMA NarrateKeeps == ASSUME IInv, NEW t \in Turn, narrate(t) \/ think(t) PROVE IInv'
  <1> DEFINE r == turns[t]
             spoke == [r EXCEPT !.says = @ + 1]
  <1>1. r \in Narrated /\ Narrating(r) BY TurnOf
  <1>2. Speaks(t) BY DEF narrate, think
  <1>3. r.phase \in {"running", "failed", "answered", "posted"} /\ r.says < MaxSays
    BY <1>2 DEF Speaks, Is
  <1>4. Said(t) = spoke BY DEF Said
  <1>5. CASE r.steps = "refused" /\ Rewrites(t, spoke) /\ UNCHANGED <<now, forced>>
    <2>1. r.says + 1 \in 0..MaxSays
      <3>1. r.says \in 0..MaxSays BY <1>1 DEF Narrated
      <3> QED BY <1>3, <3>1, NarrationAssumption DEF NarrationAssumption
    <2>2. spoke \in Narrated BY <1>1, <2>1 DEF Narrated
    <2>3. Alike(r, spoke) BY <1>1 DEF Narrated, Alike
    <2>4. Stopping(spoke) BY <1>1 DEF Narrating, Stopping, Narrated
    <2>5. Narrating(spoke) /\ (Tidied(spoke) <=> Tidied(r))
      BY <1>1, <2>2, <2>3, <2>4, SpokenTo DEF Narrating
    <2> HIDE DEF spoke
    <2>6. spoke.phase = r.phase /\ spoke.steps = r.steps /\ spoke.reserved = r.reserved
      BY <2>3 DEF Alike
    <2> QED BY <1>3, <1>5, <2>2, <2>5, <2>6, RewriteKeeps
  <1>6. CASE r.steps \in {"asked", "open"} /\ Becomes(t, Chained(spoke, "append"))
             /\ UNCHANGED <<now, budget>>
    <2>1. PICK s : s = Chained(spoke, "append") OBVIOUS
    <2>2. s \in Narrated /\ Narrating(s) /\ s.reserved = r.reserved /\ (Tidied(s) <=> Tidied(r))
      BY <1>1, <1>3, <1>6, <2>1, Appends
    <2> QED BY <1>6, <2>1, <2>2, TurnKeeps
  <1>7. CASE r.steps = None /\ (\E x \in Asks :
                 Becomes(t, [spoke EXCEPT !.steps = "asked", !.queue = <<x>>]))
             /\ UNCHANGED <<now, budget>>
    <2>1. PICK x \in Asks : Becomes(t, [spoke EXCEPT !.steps = "asked", !.queue = <<x>>])
      BY <1>7
    <2>2. PICK s : s = [spoke EXCEPT !.steps = "asked", !.queue = <<x>>] OBVIOUS
    <2>3. s = AskedAs(r, x) BY <2>2 DEF AskedAs
    <2>4. s \in Narrated /\ Narrating(s) /\ s.reserved = r.reserved /\ (Tidied(s) <=> Tidied(r))
      BY <1>1, <1>3, <1>7, <2>3, AsksFor
    <2> QED BY <1>7, <2>1, <2>2, <2>4, TurnKeeps
  <1>8. "open step" \in Asks /\ "open thought" \in Asks BY DEF Asks
  <1>9. CASE narrate(t)
    <2>1. CASE r.steps = "refused" /\ Rewrites(t, spoke)
      <3>1. UNCHANGED <<now, forced>> BY <1>9 DEF narrate
      <3> QED BY <1>5, <2>1, <3>1
    <2>2. CASE r.steps = None /\ Becomes(t, [spoke EXCEPT !.steps = "asked", !.queue = <<"open step">>])
               /\ UNCHANGED <<spent, charged>>
      <3>1. UNCHANGED <<now, budget>> BY <1>9, <2>2 DEF narrate, budget
      <3> QED BY <1>7, <1>8, <2>2, <3>1
    <2>3. CASE r.steps \in {"asked", "open"} /\ Becomes(t, Chained(spoke, "append"))
               /\ UNCHANGED <<spent, charged>>
      <3>1. UNCHANGED <<now, budget>> BY <1>9, <2>3 DEF narrate, budget
      <3> QED BY <1>6, <2>3, <3>1
    <2> QED BY <1>4, <1>9, <2>1, <2>2, <2>3 DEF narrate
  <1>10. CASE think(t)
    <2>1. r.steps \in {None, "asked", "open"} /\ UNCHANGED <<now, budget>>
      BY <1>1, <1>10 DEF think, Narrated
    <2>2. CASE r.steps = None
      <3>1. Becomes(t, [spoke EXCEPT !.steps = "asked", !.queue = <<"open thought">>])
        BY <1>4, <1>10, <2>2 DEF think
      <3> QED BY <1>7, <1>8, <2>1, <2>2, <3>1
    <2>3. CASE r.steps # None
      <3>1. Becomes(t, Chained(spoke, "append")) BY <1>4, <1>10, <2>3 DEF think
      <3> QED BY <1>6, <2>1, <2>3, <3>1
    <2> QED BY <2>2, <2>3
  <1> QED BY <1>9, <1>10

LEMMA StreamKeeps ==
    ASSUME IInv, NEW t \in Turn, Opened(t) \/ Refused(t) \/ Narrates(t) \/ StopsStream(t)
    PROVE  IInv'
  <1> DEFINE r == turns[t]
  <1>1. r \in Narrated /\ Narrating(r) BY TurnOf
  <1>2. CASE Opened(t)
    <2>1. r.queue # <<>> /\ Head(r.queue) \in Asks BY <1>2 DEF Opened, Link, Asks
    <2>2. PICK s : s = OpenedAs(r) OBVIOUS
    <2>3. Becomes(t, s) /\ UNCHANGED <<now, budget>> BY <1>2, <2>2 DEF Opened, Rest, OpenedAs
    <2>4. s \in Narrated /\ Narrating(s) /\ s.reserved = r.reserved /\ (Tidied(s) <=> Tidied(r))
      BY <1>1, <2>1, <2>2, Opens
    <2> QED BY <2>3, <2>4, TurnKeeps
  <1>3. CASE Refused(t)
    <2>1. r.queue # <<>> /\ Head(r.queue) \in Asks /\ UNCHANGED <<now, forced>>
      BY <1>3 DEF Refused, Link, Asks
    <2>2. PICK lost \in BOOLEAN :
            LET m == [Rest(t) EXCEPT !.steps = "refused",
                                     !.card = IF lost THEN "going" ELSE @,
                                     !.lost = IF lost THEN @ \cup {"open"} ELSE @]
            IN IF Link(t, {"open step"}) /\ ~m.settling
               THEN Rewrites(t, m) ELSE Becomes(t, m) /\ UNCHANGED <<spent, charged>>
      BY <1>3 DEF Refused
    <2>3. PICK m : m = RefusedAs(r, lost) OBVIOUS
    <2>4. IF Link(t, {"open step"}) /\ ~m.settling
          THEN Rewrites(t, m) ELSE Becomes(t, m) /\ UNCHANGED <<spent, charged>>
      BY <2>2, <2>3 DEF Rest, RefusedAs
    <2>5. /\ m \in Narrated /\ Narrating(m) /\ m.reserved = r.reserved /\ (Tidied(m) <=> Tidied(r))
          /\ m.steps = "refused" /\ m.phase = r.phase /\ m.settling = r.settling
          /\ r.phase # "idle"
      BY <1>1, <2>1, <2>3, Refuses
    <2>6. CASE Rewrites(t, m) /\ ~m.settling
      <3>1. m.phase \in {"running", "failed", "answered", "posted"}
        <4>1. m.phase \in Phases BY <2>5 DEF Narrated
        <4>2. m.phase # "settled" BY <2>5, <2>6 DEF Narrating, Ending
        <4> QED BY <2>5, <4>1, <4>2 DEF Phases
      <3> QED BY <2>1, <2>5, <2>6, <3>1, RewriteKeeps
    <2>7. CASE Becomes(t, m) /\ UNCHANGED <<spent, charged>>
      <3>1. UNCHANGED <<now, budget>> BY <2>1, <2>7 DEF budget
      <3> QED BY <2>5, <2>7, <3>1, TurnKeeps
    <2> QED BY <2>4, <2>6, <2>7
  <1>4. CASE Narrates(t)
    <2>1. r.queue # <<>> /\ Head(r.queue) \in {"append", "write"} /\ UNCHANGED <<now, budget>>
      BY <1>4 DEF Narrates, Link
    <2>2. CASE Becomes(t, Rest(t))
      <3>1. PICK s : s = LandedAs(r, r.ack) OBVIOUS
      <3>4. Written(r, r.ack) BY DEF Written
      <3>2. s \in Narrated /\ Narrating(s) /\ s.reserved = r.reserved /\ (Tidied(s) <=> Tidied(r))
        BY <1>1, <2>1, <3>1, <3>4, Lands
      <3>3. s = Rest(t) BY <1>1, <3>1 DEF Rest, Narrated, LandedAs
      <3> QED BY <2>1, <2>2, <3>2, <3>3, TurnKeeps
    <2>3. CASE Link(t, {"write"}) /\ Becomes(t, [Rest(t) EXCEPT !.ack = "step"])
      <3>1. PICK s : s = LandedAs(r, "step") OBVIOUS
      <3>2. Written(r, "step") BY <2>3 DEF Link, Written
      <3>3. s \in Narrated /\ Narrating(s) /\ s.reserved = r.reserved /\ (Tidied(s) <=> Tidied(r))
        BY <1>1, <2>1, <3>1, <3>2, Lands
      <3>4. Becomes(t, s) BY <2>3, <3>1 DEF Rest, LandedAs
      <3> QED BY <2>1, <3>3, <3>4, TurnKeeps
    <2> QED BY <1>4, <2>2, <2>3 DEF Narrates
  <1>5. CASE StopsStream(t)
    <2>1. r.queue # <<>> /\ Head(r.queue) = "stop" /\ UNCHANGED <<now, budget>>
      BY <1>5 DEF StopsStream, Link
    <2>2. PICK s : Becomes(t, s) /\
                   (\/ r.steps = "open" /\ s = [r EXCEPT !.queue = Tail(@), !.card = "closed"]
                    \/ s = [r EXCEPT !.queue = Tail(@),
                                     !.lost = IF r.steps = "open" THEN @ \cup {"stop"} ELSE @])
      BY <1>5 DEF StopsStream, Rest
    <2>3. s \in Narrated /\ Narrating(s) /\ s.reserved = r.reserved /\ (Tidied(s) <=> Tidied(r))
      BY <1>1, <2>1, <2>2, Folds
    <2> QED BY <2>1, <2>2, <2>3, TurnKeeps
  <1> QED BY <1>2, <1>3, <1>4, <1>5

LEMMA CancelTyped ==
    ASSUME NEW m \in Narrated, NEW stopped \in BOOLEAN, NEW left \in BOOLEAN
    PROVE  [m EXCEPT !.stopped = stopped, !.tried = TRUE, !.left = left] \in Narrated
  BY DEF Narrated

LEMMA ButtonKeeps == ASSUME IInv, NEW t \in Turn, Cancelable(t) \/ Press(t) PROVE IInv'
  <1> DEFINE r == turns[t]
  <1>1. r \in Narrated /\ Narrating(r) BY TurnOf
  <1>2. r.phase \in {"running", "failed"} /\ (Cancelable(t) => r.phase = "running")
    BY <1>1 DEF Cancelable, Press, Is, Narrating, Ending
  <1>3. UNCHANGED <<now, budget>> BY DEF Cancelable, Press
  <1>4. ASSUME NEW run \in BOOLEAN, NEW press \in BOOLEAN,
               Cancels(t, [r EXCEPT !.cancelRun = run, !.pressed = press])
        PROVE  IInv'
    <2> PICK m : m = [r EXCEPT !.cancelRun = run, !.pressed = press] OBVIOUS
    <2>0. m \in Narrated BY <1>1 DEF Narrated
    <2>1. Alike(r, m)
      <3>1. /\ m.phase = r.phase /\ m.settling = r.settling /\ m.route = r.route
            /\ m.steps = r.steps /\ m.queue = r.queue /\ m.card = r.card
        BY <1>1 DEF Narrated
      <3>2. /\ m.lost = r.lost /\ m.ackWritten = r.ackWritten
            /\ m.reserved = r.reserved /\ m.ack = r.ack
        BY <1>1 DEF Narrated
      <3> QED BY <3>1, <3>2 DEF Alike
    <2>2. m.stopped = r.stopped /\ m.left = r.left /\ m.label = r.label BY <1>1 DEF Narrated
    <2>3. PICK gone \in BOOLEAN :
            Becomes(t, [m EXCEPT !.stopped = @ \/ gone, !.tried = TRUE,
                                 !.left = @ \/ (gone /\ m.phase = "running")])
      BY <1>4 DEF Cancels
    <2> PICK stopped \in BOOLEAN : stopped <=> m.stopped \/ gone OBVIOUS
    <2> PICK left \in BOOLEAN : left <=> m.left \/ (gone /\ m.phase = "running") OBVIOUS
    <2> PICK s : s = [m EXCEPT !.stopped = stopped, !.tried = TRUE, !.left = left] OBVIOUS
    <2>4. Becomes(t, s) BY <2>3
    <2>5. s \in Narrated BY <2>0, CancelTyped
    <2>6. Alike(m, s) BY <2>0 DEF Narrated, Alike
    <2>7. Alike(r, s) BY <2>1, <2>6 DEF Alike
    <2>8. s.label = r.label /\ s.stopped = stopped /\ s.left = left /\ s.tried = TRUE
      BY <2>0, <2>2 DEF Narrated
    <2>9. r.left => s.left BY <2>2, <2>8
    <2>10. s.stopped /\ ~s.left => (r.stopped /\ ~r.left) \/ r.phase = "failed"
      <3>1. m.phase = r.phase BY <2>1 DEF Alike
      <3> QED BY <1>2, <2>2, <2>8, <3>1
    <2>12. Heard(r, s) BY <2>8, <2>9, <2>10 DEF Heard
    <2>11. Narrating(s) /\ s.reserved = r.reserved /\ (Tidied(s) <=> Tidied(r))
      BY <1>1, <1>2, <2>5, <2>7, <2>12, Pressed
    <2> QED BY <1>3, <2>4, <2>5, <2>11, TurnKeeps
  <1>5. CASE Cancelable(t)
    <2>1. CASE r.stopWanted
      <3>1. [r EXCEPT !.cancelRun = TRUE].stopWanted BY <1>1, <2>1 DEF Narrated
      <3>2. Cancels(t, [r EXCEPT !.cancelRun = TRUE]) BY <1>5, <3>1 DEF Cancelable
      <3>3. [r EXCEPT !.cancelRun = TRUE] = [r EXCEPT !.cancelRun = TRUE, !.pressed = r.pressed]
        BY <1>1 DEF Narrated
      <3>4. r.pressed \in BOOLEAN BY <1>1 DEF Narrated
      <3> QED BY <1>4, <3>2, <3>3, <3>4
    <2>2. CASE ~r.stopWanted
      <3>1. PICK s : s = [r EXCEPT !.cancelRun = TRUE] OBVIOUS
      <3>2. s \in Narrated /\ Alike(r, s) BY <1>1, <3>1 DEF Narrated, Alike
      <3>3. /\ s.stopWanted = r.stopWanted /\ s.label = r.label /\ s.left = r.left
            /\ s.stopped = r.stopped /\ s.pressed = r.pressed /\ s.tried = r.tried
        BY <1>1, <3>1 DEF Narrated
      <3>4. Becomes(t, s) BY <1>5, <2>2, <3>1, <3>3 DEF Cancelable
      <3>6. s.stopped /\ ~s.left => (r.stopped /\ ~r.left) \/ r.phase = "failed" BY <3>3
      <3>7. Heard(r, s) BY <2>2, <3>3, <3>6 DEF Heard
      <3>5. Narrating(s) /\ s.reserved = r.reserved /\ (Tidied(s) <=> Tidied(r))
        BY <1>1, <1>2, <3>2, <3>7, Pressed
      <3> QED BY <1>3, <3>2, <3>4, <3>5, TurnKeeps
    <2> QED BY <2>1, <2>2
  <1>6. CASE Press(t)
    <2>1. CASE r.cancelRun
      <3>1. [r EXCEPT !.pressed = TRUE].cancelRun BY <1>1, <2>1 DEF Narrated
      <3>2. Cancels(t, [r EXCEPT !.pressed = TRUE]) BY <1>6, <3>1 DEF Press
      <3>3. [r EXCEPT !.pressed = TRUE] = [r EXCEPT !.cancelRun = r.cancelRun, !.pressed = TRUE]
        BY <1>1 DEF Narrated
      <3>4. r.cancelRun \in BOOLEAN BY <1>1 DEF Narrated
      <3> QED BY <1>4, <3>2, <3>3, <3>4
    <2>2. CASE ~r.cancelRun
      <3>1. PICK s : s = [[r EXCEPT !.pressed = TRUE] EXCEPT !.stopWanted = TRUE] OBVIOUS
      <3>2. s \in Narrated /\ Alike(r, s) BY <1>1, <3>1 DEF Narrated, Alike
      <3>3. /\ s.stopWanted = TRUE /\ s.label = r.label /\ s.left = r.left
            /\ s.stopped = r.stopped /\ s.cancelRun = r.cancelRun
        BY <1>1, <3>1 DEF Narrated
      <3>4. Becomes(t, s)
        <4>1. ~[r EXCEPT !.pressed = TRUE].cancelRun BY <1>1, <2>2 DEF Narrated
        <4> QED BY <1>6, <3>1, <4>1 DEF Press
      <3>6. s.stopped /\ ~s.left => (r.stopped /\ ~r.left) \/ r.phase = "failed" BY <3>3
      <3>7. Heard(r, s) BY <2>2, <3>3, <3>6 DEF Heard
      <3>5. Narrating(s) /\ s.reserved = r.reserved /\ (Tidied(s) <=> Tidied(r))
        BY <1>1, <1>2, <3>2, <3>7, Pressed
      <3> QED BY <1>3, <3>2, <3>4, <3>5, TurnKeeps
    <2> QED BY <2>1, <2>2
  <1> QED BY <1>5, <1>6

\* The two calls a turn that settles may still owe, in either order: a sequence of calls,
\* none of them twice.
LEMMA InEitherOrder ==
    ASSUME NEW stop, NEW tidy, stop = <<>> \/ stop = <<"stop">>, tidy = <<>> \/ tidy = <<"tidy">>,
           NEW c, c = stop \o tidy \/ c = tidy \o stop
    PROVE  /\ c \in Seq(Links) /\ OnceEach(c)
           /\ stop = <<"stop">> => In("stop", c)
           /\ tidy = <<"tidy">> => In("tidy", c)
  <1>1. /\ <<>> \in Seq(Links) /\ <<"stop">> \in Seq(Links) /\ <<"tidy">> \in Seq(Links)
        /\ Len(<<>>) = 0 /\ Len(<<"stop">>) = 1 /\ Len(<<"tidy">>) = 1
        /\ <<"stop">>[1] = "stop" /\ <<"tidy">>[1] = "tidy"
    BY DEF Links
  <1>2. /\ stop \in Seq(Links) /\ tidy \in Seq(Links)
        /\ \A i \in 1..Len(stop) : stop[i] = "stop" /\ i = 1
        /\ \A i \in 1..Len(tidy) : tidy[i] = "tidy" /\ i = 1
        /\ stop = <<"stop">> => 1 \in 1..Len(stop) /\ stop[1] = "stop"
        /\ tidy = <<"tidy">> => 1 \in 1..Len(tidy) /\ tidy[1] = "tidy"
    <2>1. CASE stop = <<>> /\ tidy = <<>> BY <1>1, <2>1
    <2>2. CASE stop = <<>> /\ tidy = <<"tidy">> BY <1>1, <2>2
    <2>3. CASE stop = <<"stop">> /\ tidy = <<>> BY <1>1, <2>3
    <2>4. CASE stop = <<"stop">> /\ tidy = <<"tidy">> BY <1>1, <2>4
    <2> QED BY <2>1, <2>2, <2>3, <2>4
  <1>3. ASSUME NEW p \in Seq(Links), NEW q \in Seq(Links), NEW x \in {"stop", "tidy"},
               NEW y \in {"stop", "tidy"}, x # y,
               \A i \in 1..Len(p) : p[i] = x /\ i = 1,
               \A i \in 1..Len(q) : q[i] = y /\ i = 1
        PROVE  /\ p \o q \in Seq(Links) /\ OnceEach(p \o q)
               /\ 1 \in 1..Len(p) => In(x, p \o q)
               /\ 1 \in 1..Len(q) => In(y, p \o q)
    <2>1. PICK d : d = p \o q OBVIOUS
    <2>2. /\ d \in Seq(Links) /\ Len(p) \in Nat /\ Len(q) \in Nat /\ Len(d) = Len(p) + Len(q)
          /\ \A i \in 1..Len(p) : d[i] = p[i]
          /\ \A i \in (Len(p) + 1)..Len(d) : d[i] = q[i - Len(p)]
      BY <2>1
    <2>3. ASSUME NEW i \in 1..Len(d)
          PROVE  (i \in 1..Len(p) /\ d[i] = x) \/ (i - Len(p) \in 1..Len(q) /\ d[i] = y)
      BY <2>2, <1>3
    <2>4. ASSUME NEW i \in 1..Len(d), NEW j \in 1..Len(d), d[i] = d[j] PROVE i = j
      <3>1. CASE i \in 1..Len(p) /\ d[i] = x
        <4>1. j \in 1..Len(p) BY <2>3, <2>4, <3>1, <1>3
        <4> QED BY <4>1, <3>1, <1>3
      <3>2. CASE i - Len(p) \in 1..Len(q) /\ d[i] = y
        <4>1. j - Len(p) \in 1..Len(q) BY <2>3, <2>4, <3>2, <1>3
        <4>2. i - Len(p) = 1 /\ j - Len(p) = 1 BY <4>1, <3>2, <1>3
        <4> QED BY <4>2, <2>2
      <3> QED BY <2>3, <3>1, <3>2
    <2>5. ASSUME 1 \in 1..Len(p) PROVE In(x, d)
      <3>1. 1 \in 1..Len(d) /\ d[1] = x BY <2>2, <2>5, <1>3
      <3> QED BY <3>1 DEF In
    <2>6. ASSUME 1 \in 1..Len(q) PROVE In(y, d)
      <3>1. /\ Len(p) + 1 \in 1..Len(d) /\ Len(p) + 1 \in (Len(p) + 1)..Len(d)
            /\ (Len(p) + 1) - Len(p) = 1
        BY <2>2, <2>6
      <3>2. d[Len(p) + 1] = y BY <3>1, <2>2, <2>6, <1>3
      <3> QED BY <3>1, <3>2 DEF In
    <2>7. OnceEach(d)
      <3>1. \A i \in 1..Len(d) : d[i] \in {"stop", "tidy"} BY <2>3
      <3> QED BY <2>4, <3>1 DEF OnceEach
    <2> QED BY <2>1, <2>2, <2>5, <2>6, <2>7
  <1>4. CASE c = stop \o tidy
    <2>1. /\ stop \o tidy \in Seq(Links) /\ OnceEach(stop \o tidy)
          /\ 1 \in 1..Len(stop) => In("stop", stop \o tidy)
          /\ 1 \in 1..Len(tidy) => In("tidy", stop \o tidy)
      BY <1>2, <1>3
    <2> QED BY <2>1, <1>2, <1>4
  <1>5. CASE c = tidy \o stop
    <2>1. /\ tidy \o stop \in Seq(Links) /\ OnceEach(tidy \o stop)
          /\ 1 \in 1..Len(tidy) => In("tidy", tidy \o stop)
          /\ 1 \in 1..Len(stop) => In("stop", tidy \o stop)
      BY <1>2, <1>3
    <2> QED BY <2>1, <1>2, <1>5
  <1> QED BY <1>4, <1>5

LEMMA PhaseKeeps ==
    ASSUME IInv, NEW t \in Turn, Acknowledges(t) \/ RunAnswers(t) \/ RunFails(t) \/ Posts(t)
    PROVE  IInv'
  <1> DEFINE r == turns[t]
  <1>1. r \in Narrated /\ Narrating(r) BY TurnOf
  <1>2. UNCHANGED <<now, budget>> BY DEF Acknowledges, RunAnswers, RunFails, Posts
  <1>3. ASSUME NEW s \in Narrated, Narrating(s), s.reserved = r.reserved, Tidied(s) <=> Tidied(r),
               Becomes(t, s)
        PROVE  IInv'
    BY <1>2, <1>3, TurnKeeps
  <1>4. CASE Acknowledges(t)
    <2>1. PICK ack \in {"in flight", "rest"} :
            Becomes(t, [r EXCEPT !.phase = "running", !.ack = ack])
      BY <1>4 DEF Acknowledges
    <2>2. PICK s : s = [r EXCEPT !.phase = "running", !.ack = ack] OBVIOUS
    <2>3. r.phase = "idle" BY <1>4 DEF Acknowledges, Is
    <2>4. s \in Narrated BY <1>1, <2>2 DEF Narrated, Phases
    <2>5. Moves(r, s) BY <1>1, <2>2 DEF Narrated, Moves
    <2>6. /\ s.phase = "running" /\ s.settling = r.settling /\ s.route = r.route
          /\ s.ack # "step" /\ s.label = r.label
      BY <1>1, <2>2 DEF Narrated
    <2>7. Narrating(s) /\ s.reserved = r.reserved /\ (Tidied(s) <=> Tidied(r))
      BY <1>1, <2>3, <2>5, <2>6, Goes
    <2> QED BY <1>3, <2>1, <2>2, <2>4, <2>7
  <1>5. CASE RunAnswers(t)
    <2>1. PICK s : s = [r EXCEPT !.phase = "answered", !.settling = TRUE, !.route = FALSE] OBVIOUS
    <2>2. r.phase = "running" /\ Becomes(t, s) BY <1>5, <2>1 DEF RunAnswers, Is
    <2>3. s \in Narrated BY <1>1, <2>1 DEF Narrated, Phases
    <2>4. Moves(r, s) BY <1>1, <2>1 DEF Narrated, Moves
    <2>5. /\ s.phase = "answered" /\ s.settling = TRUE /\ s.route = FALSE
          /\ s.ack = r.ack /\ s.label = r.label
      BY <1>1, <2>1 DEF Narrated
    <2>6. Narrating(s) /\ s.reserved = r.reserved /\ (Tidied(s) <=> Tidied(r))
      BY <1>1, <2>2, <2>4, <2>5, Goes
    <2> QED BY <1>3, <2>2, <2>3, <2>6
  <1>6. CASE RunFails(t)
    <2>1. PICK s : s = [r EXCEPT !.phase = "failed"] OBVIOUS
    <2>2. r.phase = "running" /\ Becomes(t, s) BY <1>6, <2>1 DEF RunFails, Is
    <2>3. s \in Narrated BY <1>1, <2>1 DEF Narrated, Phases
    <2>4. Moves(r, s) BY <1>1, <2>1 DEF Narrated, Moves
    <2>5. /\ s.phase = "failed" /\ s.settling = r.settling /\ s.route = r.route
          /\ s.ack = r.ack /\ s.label = r.label
      BY <1>1, <2>1 DEF Narrated
    <2>6. Narrating(s) /\ s.reserved = r.reserved /\ (Tidied(s) <=> Tidied(r))
      BY <1>1, <2>2, <2>4, <2>5, Goes
    <2> QED BY <1>3, <2>2, <2>3, <2>6
  <1>7. CASE Posts(t)
    <2>1. PICK posted \in BOOLEAN :
            Becomes(t, [r EXCEPT !.phase = "posted", !.label = posted /\ r.stopped])
      BY <1>7 DEF Posts
    <2> PICK label \in BOOLEAN : label <=> posted /\ r.stopped OBVIOUS
    <2>2. PICK s : s = [r EXCEPT !.phase = "posted", !.label = label] OBVIOUS
    <2>3. r.phase = "answered" /\ Becomes(t, s) BY <1>7, <2>1, <2>2 DEF Posts, Is
    <2>4. s \in Narrated BY <1>1, <2>2 DEF Narrated, Phases
    <2>5. Moves(r, s) BY <1>1, <2>2 DEF Narrated, Moves
    <2>6. /\ s.phase = "posted" /\ s.settling = r.settling /\ s.route = r.route
          /\ s.ack = r.ack /\ s.label = label
      BY <1>1, <2>2 DEF Narrated
    <2>7. Narrating(s) /\ s.reserved = r.reserved /\ (Tidied(s) <=> Tidied(r))
      BY <1>1, <2>3, <2>5, <2>6, Goes
    <2> QED BY <1>3, <2>3, <2>4, <2>7
  <1> QED BY <1>4, <1>5, <1>6, <1>7

LEMMA SettleKeeps == ASSUME IInv, NEW t \in Turn, settle(t) PROVE IInv'
  <1> DEFINE r == turns[t]
             stop == IF r.steps # None THEN <<"stop">> ELSE <<>>
             tidy == IF r.ackWritten \/ r.ack = "in flight" THEN <<"tidy">> ELSE <<>>
  <1>1. r \in Narrated /\ Narrating(r) BY TurnOf
  <1>2. r.phase \in {"failed", "posted"} /\ UNCHANGED <<now, budget>> BY DEF settle, Is
  <1>3. PICK c \in {stop \o tidy, tidy \o stop} :
          Becomes(t, [r EXCEPT !.phase = "settled", !.settling = TRUE, !.route = FALSE,
                               !.queue = @ \o c])
    BY DEF settle
  <1>4. PICK s : s = [r EXCEPT !.phase = "settled", !.settling = TRUE, !.route = FALSE,
                               !.queue = @ \o c]
    OBVIOUS
  <1>5. stop = <<>> \/ stop = <<"stop">> OBVIOUS
  <1>6. tidy = <<>> \/ tidy = <<"tidy">> OBVIOUS
  <1>7. r.steps # None => stop = <<"stop">> OBVIOUS
  <1>8. r.ackWritten \/ r.ack = "in flight" => tidy = <<"tidy">> OBVIOUS
  <1> HIDE DEF stop, tidy
  <1>9. /\ c \in Seq(Links) /\ OnceEach(c)
        /\ stop = <<"stop">> => In("stop", c)
        /\ tidy = <<"tidy">> => In("tidy", c)
    <2>1. c = stop \o tidy \/ c = tidy \o stop BY <1>3
    <2> QED BY <1>5, <1>6, <2>1, InEitherOrder
  <1>10. Closes(r, c) BY <1>7, <1>8, <1>9 DEF Closes
  <1>11. s \in Narrated /\ Narrating(s) /\ s.reserved = r.reserved
         /\ (s.reserved # None => ~Tidied(s)) /\ ~Tidied(r)
    BY <1>1, <1>2, <1>4, <1>9, <1>10, Settles
  <1>12. Becomes(t, s) BY <1>3, <1>4
  <1> QED BY <1>2, <1>11, <1>12, TurnKeeps

LEMMA NextKeeps == ASSUME IInv, [Next]_vars PROVE IInv'
  <1>1. CASE Tick BY <1>1, TickKeeps
  <1>2. ASSUME NEW t \in Turn, Agent(t) \/ Slack(t) \/ Handler(t) PROVE IInv'
    BY <1>2, NarrateKeeps, StreamKeeps, TidiesKeeps, ButtonKeeps, PhaseKeeps, SettleKeeps
    DEF Agent, Slack, Handler
  <1>3. CASE UNCHANGED vars
    <2>1. turns' = turns /\ now' = now /\ spent' = spent /\ charged' = charged /\ forced' = forced
      BY <1>3 DEF vars, budget
    <2>2. \A tick \in Time : Outstanding(tick)' = Outstanding(tick) BY <2>1 DEF Outstanding
    <2>3. TypeOK' BY <2>1 DEF IInv, TypeOK
    <2>4. (\A t \in Turn : Narrating(turns[t]))' BY <2>1 DEF IInv
    <2>5. Paid' BY <2>1, <2>2 DEF IInv, Paid
    <2>6. Bounded' BY <2>1 DEF IInv, Bounded, Unforced, Stamps, Window
    <2>7. Ahead' BY <2>1 DEF IInv, Ahead
    <2> QED BY <2>3, <2>4, <2>5, <2>6, <2>7 DEF IInv
  <1> QED BY <1>1, <1>2, <1>3 DEF Next

LEMMA InitHolds == ASSUME Init PROVE IInv
  <1> DEFINE r == [phase |-> "idle", ack |-> "rest", steps |-> None, card |-> None, queue |-> <<>>,
           ackWritten |-> FALSE, reserved |-> None, settling |-> FALSE, route |-> FALSE,
           cancelRun |-> FALSE, stopWanted |-> FALSE, stopped |-> FALSE, says |-> 0,
           pressed |-> FALSE, tried |-> FALSE, left |-> FALSE, label |-> FALSE, lost |-> {}]
  <1>1. /\ turns = [t \in Turn |-> r] /\ now = 0
        /\ spent = [tick \in Time |-> 0] /\ charged = spent /\ forced = spent
    BY DEF Init
  <1>2. /\ r.phase = "idle" /\ r.ack = "rest" /\ r.steps = None /\ r.card = None
        /\ r.queue = <<>> /\ ~r.ackWritten /\ r.reserved = None /\ ~r.settling /\ ~r.route
        /\ ~r.stopped /\ ~r.pressed /\ ~r.label
    OBVIOUS
  <1>3. r \in Narrated
    <2>1. <<>> \in Seq(Links) OBVIOUS
    <2>2. 0 \in 0..MaxSays BY NarrationAssumption DEF NarrationAssumption
    <2> QED BY <2>1, <2>2 DEF Narrated, Phases
  <1> HIDE DEF r
  <1>4. Len(r.queue) = 0 /\ \A i \in 1..Len(r.queue) : FALSE BY <1>2
  <1>5. \A x : ~In(x, r.queue) BY <1>4 DEF In
  <1>6. None \notin {"asked", "open", "refused", "going", "closed"} /\ None \notin Time
    BY NarrationAssumption DEF NarrationAssumption
  <1>7. Narrating(r)
    <2>1. Ending(r) BY <1>2 DEF Ending
    <2>2. Streaming(r) BY <1>2, <1>4, <1>5, <1>6 DEF Streaming
    <2>3. TidyLast(r.queue) BY <1>4 DEF TidyLast
    <2>4. Tidying(r) BY <1>2, <1>5, <2>3 DEF Tidying
    <2>5. Stopping(r) BY <1>2 DEF Stopping
    <2> QED BY <2>1, <2>2, <2>4, <2>5 DEF Narrating
  <1>8. 0 \in Time BY NarrationAssumption DEF Time, NarrationAssumption
  <1>9. TypeOK BY <1>1, <1>3, <1>8 DEF TypeOK
  <1>10. Paid
    <2> SUFFICES ASSUME NEW tick \in Time
                 PROVE  /\ IsFiniteSet(Outstanding(tick))
                        /\ charged[tick] + Cardinality(Outstanding(tick)) <= spent[tick]
      BY DEF Paid
    <2>1. Outstanding(tick) = {} BY <1>1, <1>2, <1>6 DEF Outstanding
    <2>2. IsFiniteSet(Outstanding(tick)) /\ Cardinality(Outstanding(tick)) = 0
      BY <2>1, FS_EmptySet
    <2>3. charged[tick] = 0 /\ spent[tick] = 0 BY <1>1
    <2> QED BY <2>2, <2>3
  <1>11. Bounded
    <2>1. Unforced = {} BY <1>1 DEF Unforced
    <2> QED BY <2>1, FS_EmptySet, NarrationAssumption DEF Bounded, NarrationAssumption
  <1>12. Ahead BY <1>1 DEF Ahead
  <1>13. \A t \in Turn : Narrating(turns[t]) BY <1>1, <1>7
  <1> QED BY <1>9, <1>10, <1>11, <1>12, <1>13 DEF IInv
-----------------------------------------------------------------------------
\* The inductive invariant: of each turn, where its stream and its acknowledgement are,
\* and of the budget, what its stamps stand for.
THEOREM NarrationInvariant == Spec => []IInv
  <1>1. Init => IInv BY InitHolds
  <1>2. IInv /\ [Next]_vars => IInv' BY NextKeeps
  <1> QED BY <1>1, <1>2, PTL DEF Spec

\* Once a turn has settled and its calls were made, its acknowledgement says what rests,
\* no card of it spins and no press reaches it, but for the call of its own that failed,
\* for any number of turns and whatever they narrate.
THEOREM NarrationStandsAlone == Spec => []AnswerStandsAlone
  <1>1. IInv => AnswerStandsAlone
    <2> SUFFICES ASSUME IInv, NEW t \in Turn, Is(t, {"settled"}), turns[t].queue = <<>>
                 PROVE  /\ turns[t].ack = "rest" \/ "tidy" \in turns[t].lost
                        /\ turns[t].card # "going" \/ turns[t].lost \cap {"open", "stop"} # {}
                        /\ ~turns[t].route
      BY DEF AnswerStandsAlone
    <2>1. turns[t] \in Narrated /\ Narrating(turns[t]) BY TurnOf
    <2> PICK r : r = turns[t] OBVIOUS
    <2>2. r.phase = "settled" /\ r.queue = <<>> BY DEF Is
    <2>3. \A x : ~In(x, r.queue) BY <2>2 DEF In
    <2>4. r.ack = "rest" \/ "tidy" \in r.lost BY <2>1, <2>2, <2>3 DEF Narrating, Tidying
    <2>5. r.card = "going" => "open" \in r.lost \/ "stop" \in r.lost
      BY <2>1, <2>2, <2>3 DEF Narrating, Streaming
    <2>6. ~r.route BY <2>1, <2>2 DEF Narrating, Ending
    <2> QED BY <2>4, <2>5, <2>6
  <1> QED BY <1>1, NarrationInvariant, PTL

\* A press that reached a turn has been tried on its session as soon as there is one,
\* whichever of the two came first.
THEOREM NarrationPresses == Spec => []PressesCount
  <1>1. IInv => PressesCount
    <2> SUFFICES ASSUME IInv, NEW t \in Turn, turns[t].pressed, turns[t].cancelRun
                 PROVE  turns[t].tried
      BY DEF PressesCount
    <2>1. Stopping(turns[t]) BY TurnOf DEF Narrating
    <2> QED BY <2>1 DEF Stopping
  <1> QED BY <1>1, NarrationInvariant, PTL

\* No answer is said to be cut short unless a cancel left for its run while that was out.
THEOREM NarrationLabels == Spec => []LabelIsTrue
  <1>1. IInv => LabelIsTrue
    <2> SUFFICES ASSUME IInv, NEW t \in Turn, turns[t].label PROVE turns[t].left
      BY DEF LabelIsTrue
    <2>1. Stopping(turns[t]) BY TurnOf DEF Narrating
    <2> QED BY <2>1 DEF Stopping
  <1> QED BY <1>1, NarrationInvariant, PTL

\* In no window of a minute are more updates made than the ceiling, but for cleanups that
\* nothing was reserved for or whose reservation had aged out, however many turns share
\* the budget.
THEOREM NarrationBudget == Spec => []PaidWithinBudget
  <1>1. IInv => PaidWithinBudget
    <2> SUFFICES ASSUME IInv PROVE PaidWithinBudget OBVIOUS
    <2> DEFINE S == StampsIn(Window, spent)
               C == StampsIn(Window, charged)
               F == StampsIn(Window, forced)
    <2>1. /\ spent \in [Time -> Nat] /\ charged \in [Time -> Nat] /\ forced \in [Time -> Nat]
          /\ Window \in SUBSET Time
      BY Counts, NowInWindow DEF IInv
    <2>2. IsFiniteSet(S) /\ IsFiniteSet(C) /\ IsFiniteSet(F) BY <2>1, StampsFinite
    <2>3. C \in SUBSET S
      <3>1. \A tick \in Time : charged[tick] <= spent[tick]
        <4> TAKE tick \in Time
        <4>1. /\ IsFiniteSet(Outstanding(tick))
              /\ charged[tick] + Cardinality(Outstanding(tick)) <= spent[tick]
          BY DEF IInv, Paid
        <4>2. Cardinality(Outstanding(tick)) \in Nat BY <4>1, FS_CardinalityType
        <4>3. charged[tick] \in Nat /\ spent[tick] \in Nat BY <2>1
        <4> QED BY <4>1, <4>2, <4>3
      <3> SUFFICES ASSUME NEW x \in C PROVE x \in S OBVIOUS
      <3>2. PICK tick \in Window : \E k \in 1..charged[tick] : x = <<tick, k>> BY StampsAre
      <3>3. PICK k \in 1..charged[tick] : x = <<tick, k>> BY <3>2
      <3>4. charged[tick] \in Nat /\ spent[tick] \in Nat /\ charged[tick] <= spent[tick]
        BY <2>1, <3>1
      <3>5. k \in 1..spent[tick] BY <3>4
      <3> QED BY <3>3, <3>5, StampsAre
    <2>4. Cardinality(C) <= Cardinality(S) BY <2>2, <2>3, FS_Subset
    <2>5. IsFiniteSet(S \ F) /\ Cardinality(S \ F) <= Ceiling
      BY DEF IInv, Bounded, Unforced, Stamps, StampsIn
    <2>6. Recent(charged) = Cardinality(C) /\ Recent(forced) = Cardinality(F)
      BY DEF Recent, Stamps, StampsIn
    <2> HIDE DEF S, C, F
    <2>7. Cardinality(S \ F) = Cardinality(S) - Cardinality(S \cap F) BY <2>2, FS_Difference
    <2>8. Cardinality(S \cap F) <= Cardinality(F)
      BY <2>2, FS_Intersection
    <2>9. /\ Cardinality(S) \in Nat /\ Cardinality(C) \in Nat /\ Cardinality(F) \in Nat
          /\ Cardinality(S \cap F) \in Nat
      BY <2>2, FS_Intersection, FS_CardinalityType
    <2> QED BY <2>4, <2>5, <2>6, <2>7, <2>8, <2>9, NarrationAssumption
        DEF PaidWithinBudget, NarrationAssumption
  <1> QED BY <1>1, NarrationInvariant, PTL
=============================================================================
