----------------------------- MODULE TurnsProofs -----------------------------
(***************************************************************************)
(* The turns of a member, for every value of Turns's constants: any number *)
(* of deliveries, events, threads and crashes, and calls that fail.  Only  *)
(* that runs of one thread do not overlap needs a turn to be worked on for *)
(* less than TURN_STALE_MINUTES, as dm.ts and store.ts mean it to be.      *)
(***************************************************************************)
EXTENDS Turns, TLAPS

HeldPhases  == {"held", "ready", "running"}
GivenPhases == {"retire", "insert", "busy", "closing", "recording", "correct"} \cup HeldPhases
AskedPhases == {"lookup", "open", "relookup"} \cup GivenPhases

Running(e) == turns[e] # None /\ turns[e].status = "running"

\* What the properties say of handlers that run is not inductive: it has to be
\* known of a handler from its delivery on.  First where it stands: the root it
\* asks with is its own opening or the conversation of its thread, and the
\* conversation it was given is the one of its thread.
Placed(d) ==
    LET h == handlers[d]
        source == SourceOf[EventOf[d]] IN
    /\ ~InMention(d) => h.root \in Root
    /\ h.phase \in AskedPhases => h.root \in Root
    /\ h.phase \in GivenPhases => h.conversation \in Root /\ conversations[h.conversation] # None
    /\ InMention(d) /\ h.phase \in {"idle", "find", "post"} => h.root = None
    /\ InMention(d) /\ h.phase \in AskedPhases =>
           h.root \in posted \/ conversations[h.root] = source
    /\ InMention(d) /\ h.phase \in GivenPhases => conversations[h.conversation] = source
    /\ h.phase = "post" => InMention(d)
    /\ h.phase = "recording" => ~InMention(d)
    /\ h.phase = "correct" => InMention(d) /\ h.conversation # h.root

\* Then what it has of a turn.  Rows decide: an event has one turn, and the
\* handler that was given it has it for good, though the turn may end under it;
\* a handler about to insert stands before rows that are not stale.
Turned(d) ==
    LET h == handlers[d] IN
    /\ h.turn => turns[EventOf[d]] # None
    /\ h.phase \in HeldPhases \cup {"closing"} => h.turn
    /\ d \in ran => h.turn
    /\ h.phase = "closing" => h.status \in Status
    /\ h.phase = "insert" => \A e \in aged : ~(Running(e) /\ turns[e].conversation = h.conversation)

\* A handler at work has a turn that is running and that nobody may retire.
HoldsIts(d) ==
    ~Overruns /\ handlers[d].alive /\ handlers[d].phase \in HeldPhases =>
        /\ Running(EventOf[d])
        /\ turns[EventOf[d]].conversation = handlers[d].conversation
        /\ EventOf[d] \notin aged

OneTurnEach ==
    \A d, p \in Delivery : handlers[d].turn /\ handlers[p].turn /\ EventOf[d] = EventOf[p] => d = p

OneRunning ==
    \A e, f \in Event :
        Running(e) /\ Running(f) /\ turns[e].conversation = turns[f].conversation => e = f

AgedHaveTurns == \A e \in aged : turns[e] # None

\* A channel thread has one conversation.
SourcesOnce ==
    \A r, q \in Root : conversations[r] \in Source /\ conversations[q] = conversations[r] => r = q

TurnsInv == /\ TypeOK
            /\ \A d \in Delivery : Placed(d) /\ Turned(d) /\ HoldsIts(d)
            /\ OneTurnEach
            /\ OneRunning
            /\ AgedHaveTurns
            /\ SourcesOnce
            /\ StraysCorrected

-----------------------------------------------------------------------------
(* How handlers move. *)

\* Handler d moved and no other did.
Moved(d) == /\ handlers' \in [Delivery -> Handler]
            /\ \A p \in Delivery \ {d} : handlers'[p] = handlers[p]

\* What a handler keeps from one await to the next.
Keeps(d) == handlers'[d].turn <=> handlers[d].turn

LEMMA GoesMoves ==
    ASSUME TypeOK, NEW d \in Delivery, NEW phase \in Phase, Goes(d, phase)
    PROVE  /\ Moved(d) /\ Keeps(d)
           /\ handlers'[d].phase = phase
           /\ handlers'[d].root = handlers[d].root
           /\ handlers'[d].conversation = handlers[d].conversation
           /\ handlers'[d].status = handlers[d].status
           /\ handlers'[d].alive = handlers[d].alive
  <1>1. handlers'[d] = [handlers[d] EXCEPT !.phase = phase] BY DEF TypeOK, Goes
  <1>2. handlers[d] \in Handler BY DEF TypeOK
  <1>3. handlers'[d] \in Handler /\ Keeps(d) BY <1>1, <1>2 DEF Handler, Keeps
  <1> QED BY <1>1, <1>2, <1>3 DEF TypeOK, Goes, Moved, Handler

LEMMA GivenMoves ==
    ASSUME TypeOK, NEW d \in Delivery, NEW r \in Root, Given(d, r)
    PROVE  /\ Moved(d) /\ Keeps(d)
           /\ handlers'[d].phase = "retire"
           /\ handlers'[d].root = handlers[d].root
           /\ handlers'[d].conversation = r
           /\ handlers'[d].status = handlers[d].status
  <1>1. handlers'[d] = [handlers[d] EXCEPT !.phase = "retire", !.conversation = r]
    BY DEF TypeOK, Given
  <1>2. handlers[d] \in Handler BY DEF TypeOK
  <1>3. handlers'[d] \in Handler /\ Keeps(d) BY <1>1, <1>2 DEF Handler, Keeps, Phase
  <1> QED BY <1>1, <1>2, <1>3 DEF TypeOK, Given, Moved, Handler

LEMMA CloseMoves ==
    ASSUME TypeOK, NEW d \in Delivery, NEW status \in Status, CloseWith(d, status)
    PROVE  /\ Moved(d) /\ Keeps(d)
           /\ handlers'[d].phase = "closing"
           /\ handlers'[d].root = handlers[d].root
           /\ handlers'[d].conversation = handlers[d].conversation
           /\ handlers'[d].status = status
  <1>1. handlers'[d] = [handlers[d] EXCEPT !.phase = "closing", !.status = status]
    BY DEF TypeOK, CloseWith
  <1>2. handlers[d] \in Handler BY DEF TypeOK
  <1>3. handlers'[d] \in Handler /\ Keeps(d) BY <1>1, <1>2 DEF Handler, Keeps, Phase
  <1> QED BY <1>1, <1>2, <1>3 DEF TypeOK, CloseWith, Moved, Handler

-----------------------------------------------------------------------------
(* What a move of one handler leaves alone. *)

Grows == \A r \in Root : conversations[r] # None => conversations'[r] = conversations[r]

\* Handler d goes on answering for the opening it posted, or need not.
Stands(d) ==
    InMention(d) /\ handlers[d].root \in posted /\ handlers[d].phase \notin {"done", "silent"} =>
        \/ conversations'[handlers[d].root] # None
        \/ handlers[d].root \in corrected'
        \/ /\ handlers'[d].root = handlers[d].root
           /\ handlers'[d].phase \notin {"done", "silent"}

LEMMA SourceIsThere ==
    ASSUME NEW d \in Delivery, InMention(d)
    PROVE  SourceOf[EventOf[d]] \in Source /\ SourceOf[EventOf[d]] # None
  BY TurnsAssumption DEF InMention

\* Of the other handlers, while the rows of turns stay as they are.
LEMMA OthersKeep ==
    ASSUME TurnsInv, NEW d \in Delivery, Moved(d), Grows, TypeOK',
           posted \subseteq posted', ran' \subseteq ran \cup {d}, turns' = turns, aged' = aged,
           NEW p \in Delivery \ {d}
    PROVE  Placed(p)' /\ Turned(p)' /\ HoldsIts(p)'
  <1>1. handlers'[p] = handlers[p] BY DEF Moved
  <1>2. Placed(p) /\ Turned(p) /\ HoldsIts(p) BY DEF TurnsInv
  <1>3. Placed(p)'
    <2>1. InMention(p) => SourceOf[EventOf[p]] # None BY SourceIsThere
    <2> QED BY <1>1, <1>2, <2>1 DEF Placed, Grows, InMention, GivenPhases, HeldPhases, AskedPhases
  <1>4. Turned(p)' BY <1>1, <1>2 DEF Turned, Running
  <1>5. HoldsIts(p)' BY <1>1, <1>2 DEF HoldsIts, Running
  <1> QED BY <1>3, <1>4, <1>5

LEMMA StraysKept ==
    ASSUME TurnsInv, NEW d \in Delivery, Moved(d), Grows, Stands(d),
           posted' = posted, corrected \subseteq corrected'
    PROVE  StraysCorrected'
  <1> SUFFICES ASSUME NEW r \in posted, r \notin corrected', conversations'[r] = None
               PROVE  \E p \in Delivery : /\ handlers'[p].root = r
                                          /\ InMention(p)
                                          /\ handlers'[p].phase \notin {"done", "silent"}
    BY DEF StraysCorrected, InMention
  <1>1. r \in Root /\ conversations[r] = None /\ r \notin corrected
    BY TurnsAssumption DEF TurnsInv, TypeOK, Grows
  <1>2. PICK p \in Delivery : /\ handlers[p].root = r
                              /\ InMention(p)
                              /\ handlers[p].phase \notin {"done", "silent"}
    BY <1>1 DEF TurnsInv, StraysCorrected
  <1>3. CASE p = d BY <1>2, <1>3 DEF Stands
  <1>4. CASE p # d BY <1>2, <1>4 DEF Moved
  <1> QED BY <1>3, <1>4

\* A step of one handler that changes no row of a turn.
LEMMA MoveKeeps ==
    ASSUME TurnsInv, NEW d \in Delivery, Moved(d), Keeps(d), Grows, TypeOK', SourcesOnce',
           posted \subseteq posted', ran' \subseteq ran \cup {d}, turns' = turns, aged' = aged,
           Placed(d)', Turned(d)', HoldsIts(d)', StraysCorrected'
    PROVE  TurnsInv'
  <1>1. \A p \in Delivery : Placed(p)' /\ Turned(p)' /\ HoldsIts(p)' BY OthersKeep
  <1>2. \A p \in Delivery : handlers'[p].turn <=> handlers[p].turn BY DEF Moved, Keeps
  <1>3. OneTurnEach' BY <1>2 DEF TurnsInv, OneTurnEach
  <1>4. OneRunning' BY DEF TurnsInv, OneRunning, Running
  <1>5. AgedHaveTurns' BY DEF TurnsInv, AgedHaveTurns
  <1> QED BY <1>1, <1>3, <1>4, <1>5 DEF TurnsInv

\* And no other row either: the next await of a handler.
LEMMA WalkKeeps ==
    ASSUME TurnsInv, NEW d \in Delivery, Moved(d), Keeps(d), UNCHANGED <<store, slack, crashes>>,
           Placed(d)', Turned(d)', HoldsIts(d)', Stands(d)
    PROVE  TurnsInv'
  <1> USE DEF store, slack
  <1>0. TypeOK /\ handlers' \in [Delivery -> Handler] BY DEF TurnsInv, Moved
  <1>1. TypeOK' BY <1>0 DEF TypeOK
  <1>2. SourcesOnce' BY DEF TurnsInv, SourcesOnce
  <1>3. Grows BY DEF Grows
  <1>4. StraysCorrected' BY <1>3, StraysKept
  <1> QED BY <1>1, <1>2, <1>3, <1>4, MoveKeeps

-----------------------------------------------------------------------------
(* The steps of a handler that ask. *)

LEMMA AsksKeep ==
    ASSUME TurnsInv, NEW d \in Delivery, Deliver(d) \/ Asks(d)
    PROVE  TurnsInv'
  <1> USE DEF HeldPhases, GivenPhases, AskedPhases, Phase
  <1>1. TypeOK /\ Placed(d) /\ Turned(d) /\ HoldsIts(d) BY DEF TurnsInv
  <1>2. CASE Deliver(d)
    <2>1. /\ Moved(d) /\ Keeps(d) /\ handlers'[d].phase = "find"
          /\ handlers'[d].root = handlers[d].root
      <3>1. handlers[d] \in Handler BY <1>1 DEF TypeOK
      <3>2. handlers'[d] = [handlers[d] EXCEPT !.phase = "find", !.alive = TRUE]
        BY <1>1, <1>2 DEF Deliver, TypeOK
      <3>3. handlers'[d] \in Handler /\ Keeps(d) BY <3>1, <3>2 DEF Handler, Keeps
      <3> QED BY <1>1, <1>2, <3>1, <3>2, <3>3 DEF Deliver, TypeOK, Handler, Moved
    <2>2. handlers[d].phase = "idle" /\ UNCHANGED <<store, slack, crashes>> BY <1>2 DEF Deliver
    <2>3. Placed(d)' BY <1>1, <2>1, <2>2 DEF Placed, InMention, store, slack
    <2>4. Turned(d)' /\ HoldsIts(d)' BY <1>1, <2>1, <2>2 DEF Turned, HoldsIts, Keeps, store, slack
    <2>5. Stands(d) BY <2>1, <2>2 DEF Stands
    <2> QED BY <2>1, <2>2, <2>3, <2>4, <2>5, WalkKeeps
  <1>3. CASE FindMessage(d)
    <2>1. /\ Moved(d) /\ Keeps(d) /\ handlers'[d].phase = "lookup"
          /\ handlers'[d].root = handlers[d].root /\ handlers'[d].conversation = handlers[d].conversation
      BY <1>1, <1>3, GoesMoves DEF FindMessage
    <2>2. Placed(d)' BY <1>1, <1>3, <2>1 DEF Placed, FindMessage, InMention, store, slack
    <2>3. Turned(d)' /\ HoldsIts(d)'
      BY <1>1, <1>3, <2>1 DEF Turned, HoldsIts, Running, Keeps, FindMessage, store, slack
    <2>4. Stands(d) BY <1>3, <2>1 DEF Stands, FindMessage
    <2> QED BY <1>3, <2>1, <2>2, <2>3, <2>4, WalkKeeps DEF FindMessage
  <1>4. CASE FindMention(d)
    <2>1. PICK phase \in {"told", "post", "lookup"} :
              /\ Moved(d) /\ Keeps(d) /\ handlers'[d].phase = phase
              /\ handlers'[d].conversation = handlers[d].conversation
              /\ phase # "lookup" => handlers'[d].root = handlers[d].root
              /\ phase = "lookup" => handlers'[d].root \in Matching(d)
      <3>1. CASE Goes(d, "told") BY <1>1, <3>1, GoesMoves
      <3>2. CASE Goes(d, "post") BY <1>1, <3>2, GoesMoves
      <3>3. CASE \E r \in Matching(d) :
                    handlers' = [handlers EXCEPT ![d].phase = "lookup", ![d].root = r]
        <4>1. PICK r \in Matching(d) :
                  handlers' = [handlers EXCEPT ![d].phase = "lookup", ![d].root = r]
          BY <3>3
        <4>2. r \in Root /\ handlers[d] \in Handler BY <1>1 DEF TypeOK, Matching
        <4>3. handlers'[d] = [handlers[d] EXCEPT !.phase = "lookup", !.root = r]
          BY <1>1, <4>1 DEF TypeOK
        <4>4. handlers'[d] \in Handler /\ Keeps(d) BY <4>2, <4>3 DEF Handler, Keeps
        <4> QED BY <1>1, <4>1, <4>2, <4>3, <4>4 DEF TypeOK, Handler, Moved
      <3> QED BY <1>4, <3>1, <3>2, <3>3 DEF FindMention
    <2>2. Bot(d, "find") /\ InMention(d) /\ UNCHANGED <<store, slack, crashes>>
      BY <1>4 DEF FindMention
    <2>3. Placed(d)' BY <1>1, <2>1, <2>2 DEF Placed, Bot, Matching, InMention, store, slack
    <2>4. Turned(d)' /\ HoldsIts(d)'
      BY <1>1, <2>1, <2>2 DEF Turned, HoldsIts, Running, Keeps, Bot, store, slack
    <2>5. Stands(d) BY <1>1, <2>1, <2>2, TurnsAssumption DEF Stands, Placed, Bot, TypeOK
    <2> QED BY <2>1, <2>2, <2>3, <2>4, <2>5, WalkKeeps
  <1>5. CASE PostOpening(d)
    <2>1. PICK r \in BotRoot \ posted :
              /\ posted' = posted \cup {r}
              /\ handlers' = [handlers EXCEPT ![d].phase = "lookup", ![d].root = r]
      BY <1>5 DEF PostOpening
    <2>2. /\ Bot(d, "post") /\ UNCHANGED <<store, corrected, ran, crashes>>
          /\ InMention(d) /\ handlers[d].root = None /\ r \in Root /\ None \notin Root
      BY <1>1, <1>5, TurnsAssumption DEF PostOpening, Placed, Bot
    <2>3. handlers'[d] = [handlers[d] EXCEPT !.phase = "lookup", !.root = r]
      BY <1>1, <2>1 DEF TypeOK
    <2>4. handlers[d] \in Handler BY <1>1 DEF TypeOK
    <2>5. handlers'[d] \in Handler /\ Keeps(d) BY <2>2, <2>3, <2>4 DEF Handler, Keeps
    <2>6. /\ Moved(d) /\ handlers'[d].phase = "lookup" /\ handlers'[d].root = r
          /\ r \in posted' /\ posted \subseteq posted'
      BY <1>1, <2>1, <2>3, <2>4, <2>5 DEF TypeOK, Handler, Moved
    <2>7. TypeOK' BY <1>1, <2>1, <2>2, <2>6 DEF TypeOK, Moved, store
    <2>8. Placed(d)' BY <2>2, <2>6 DEF Placed, InMention
    <2>9. Turned(d)' /\ HoldsIts(d)'
      BY <1>1, <2>2, <2>6, <2>5 DEF Turned, HoldsIts, Keeps, store
    <2>10. StraysCorrected'
      <3>1. ASSUME NEW q \in posted
            PROVE  \/ conversations[q] # None \/ q \in corrected
                   \/ \E p \in Delivery : /\ handlers'[p].root = q /\ InMention(p)
                                          /\ handlers'[p].phase \notin {"done", "silent"}
        <4>1. q # None BY <1>1, <2>2, TurnsAssumption DEF TypeOK
        <4>2. CASE \E p \in Delivery : /\ handlers[p].root = q /\ InMention(p)
                                       /\ handlers[p].phase \notin {"done", "silent"}
          BY <2>2, <2>6, <4>1, <4>2 DEF Moved
        <4> QED BY <4>2 DEF TurnsInv, StraysCorrected
      <3> QED BY <2>1, <2>2, <2>6, <3>1 DEF StraysCorrected, InMention, store
    <2>11. SourcesOnce' /\ Grows BY <2>2 DEF TurnsInv, SourcesOnce, Grows, store
    <2> QED BY <2>2, <2>5, <2>6, <2>7, <2>8, <2>9, <2>10, <2>11, MoveKeeps DEF store
  <1> QED BY <1>2, <1>3, <1>4, <1>5 DEF Asks

-----------------------------------------------------------------------------
(* The steps of a turn's route that change no row of a turn. *)

LEMMA FoundKeeps ==
    ASSUME TurnsInv, NEW d \in Delivery, NEW r \in Matching(d), Given(d, r),
           handlers[d].phase \in {"lookup", "open", "relookup"}, UNCHANGED <<store, slack, crashes>>
    PROVE  TurnsInv'
  <1> USE DEF HeldPhases, GivenPhases, AskedPhases, Phase
  <1>1. TypeOK /\ Placed(d) /\ Turned(d) /\ r \in Root BY DEF TurnsInv, Matching
  <1>2. /\ Moved(d) /\ Keeps(d) /\ handlers'[d].phase = "retire"
        /\ handlers'[d].root = handlers[d].root /\ handlers'[d].conversation = r
    BY <1>1, GivenMoves
  <1>3. Placed(d)'
    <2>1. InMention(d) => SourceOf[EventOf[d]] # None BY SourceIsThere
    <2> QED BY <1>1, <1>2, <2>1 DEF Placed, Matching, InMention, store, slack
  <1>4. Turned(d)' /\ HoldsIts(d)' BY <1>1, <1>2 DEF Turned, HoldsIts, Keeps, store, slack
  <1>5. Stands(d) BY <1>2 DEF Stands
  <1> QED BY <1>2, <1>3, <1>4, <1>5, WalkKeeps

LEMMA LookupKeeps ==
    ASSUME TurnsInv, NEW d \in Delivery, Lookup(d) \/ Relookup(d)
    PROVE  TurnsInv'
  <1> USE DEF HeldPhases, GivenPhases, AskedPhases, Phase
  <1>1. /\ handlers[d].phase \in {"lookup", "relookup"} /\ UNCHANGED <<store, slack, crashes>>
        /\ TypeOK /\ Placed(d) /\ Turned(d)
    BY DEF Lookup, Relookup, Gateway, TurnsInv
  <1>2. CASE \E r \in Matching(d) : Given(d, r) BY <1>1, <1>2, FoundKeeps
  <1>3. ASSUME NEW phase \in {"open", "failed"}, Goes(d, phase)
        PROVE  TurnsInv'
    <2>1. /\ Moved(d) /\ Keeps(d) /\ handlers'[d].phase = phase
          /\ handlers'[d].root = handlers[d].root
      BY <1>1, <1>3, GoesMoves
    <2>2. Placed(d)' BY <1>1, <2>1 DEF Placed, InMention, store, slack
    <2>3. Turned(d)' /\ HoldsIts(d)' BY <1>1, <2>1 DEF Turned, HoldsIts, Keeps, store, slack
    <2>4. Stands(d) BY <2>1 DEF Stands
    <2> QED BY <1>1, <2>1, <2>2, <2>3, <2>4, WalkKeeps
  <1> QED BY <1>2, <1>3 DEF Lookup, Relookup

LEMMA OpenKeeps ==
    ASSUME TurnsInv, NEW d \in Delivery, OpenConversation(d)
    PROVE  TurnsInv'
  <1> USE DEF HeldPhases, GivenPhases, AskedPhases, Phase
  <1> DEFINE r == handlers[d].root
             source == IF InMention(d) THEN SourceOf[EventOf[d]] ELSE "dm"
             taken == conversations[r] # None \/ (InMention(d) /\ Matching(d) # {})
  <1>1. /\ handlers[d].phase = "open" /\ UNCHANGED <<turns, aged, resume, slack, crashes>>
        /\ TypeOK /\ Placed(d) /\ Turned(d) /\ r \in Root
    BY DEF OpenConversation, Gateway, TurnsInv, Placed
  <1>2. CASE taken /\ Goes(d, "relookup") /\ UNCHANGED conversations
    <2>1. /\ Moved(d) /\ Keeps(d) /\ handlers'[d].phase = "relookup"
          /\ handlers'[d].root = handlers[d].root
      BY <1>1, <1>2, GoesMoves
    <2>2. Placed(d)' BY <1>1, <1>2, <2>1 DEF Placed, InMention, slack
    <2>3. Turned(d)' /\ HoldsIts(d)' BY <1>1, <2>1 DEF Turned, HoldsIts, Keeps, slack
    <2>4. Stands(d) BY <2>1 DEF Stands
    <2> QED BY <1>1, <1>2, <2>1, <2>2, <2>3, <2>4, WalkKeeps DEF store
  <1>3. CASE /\ ~taken
             /\ conversations' = [conversations EXCEPT ![r] = source]
             /\ Given(d, r)
    <2>1. /\ Moved(d) /\ Keeps(d) /\ handlers'[d].phase = "retire"
          /\ handlers'[d].root = r /\ handlers'[d].conversation = r
      BY <1>1, <1>3, GivenMoves
    <2>2. source \in Source \cup {"dm"} /\ source # None /\ "dm" \notin Source
      BY SourceIsThere, TurnsAssumption
    <2>3. TypeOK' BY <1>1, <1>3, <2>1, <2>2 DEF TypeOK, Moved, slack
    <2>4. Grows BY <1>1, <1>3 DEF Grows, TypeOK
    <2>5. conversations'[r] = source BY <1>1, <1>3 DEF TypeOK
    <2>6. Placed(d)' BY <1>1, <2>1, <2>2, <2>5 DEF Placed, InMention, slack
    <2>7. Turned(d)' /\ HoldsIts(d)' BY <1>1, <2>1 DEF Turned, HoldsIts, Keeps, slack
    <2>8. Stands(d) BY <2>1 DEF Stands
    <2>9. StraysCorrected' BY <1>1, <2>1, <2>4, <2>8, StraysKept DEF slack
    <2>10. SourcesOnce'
      <3>1. \A q \in Root : source \in Source => conversations[q] # source
        BY <1>3, <2>2 DEF Matching
      <3> QED BY <1>1, <1>3, <2>2, <2>5, <3>1 DEF TurnsInv, SourcesOnce, TypeOK
    <2> QED BY <1>1, <2>1, <2>3, <2>4, <2>6, <2>7, <2>9, <2>10, MoveKeeps DEF slack
  <1> QED BY <1>2, <1>3 DEF OpenConversation

LEMMA RefuseKeeps ==
    ASSUME TurnsInv, NEW d \in Delivery, RefuseDuplicate(d) \/ RefuseBusy(d)
    PROVE  TurnsInv'
  <1> USE DEF HeldPhases, GivenPhases, AskedPhases, Phase
  <1>1. /\ handlers[d].phase = "insert" /\ UNCHANGED <<store, slack, crashes>>
        /\ TypeOK /\ Placed(d) /\ Turned(d)
    BY DEF RefuseDuplicate, RefuseBusy, Gateway, TurnsInv
  <1>2. PICK phase \in {"correct", "silent", "busy"} :
            /\ Goes(d, phase)
            /\ InMention(d) => phase = AfterRefusal(d)
            /\ ~InMention(d) => phase # "correct"
    BY DEF RefuseDuplicate, RefuseBusy, AfterRefusal
  <1>3. /\ Moved(d) /\ Keeps(d) /\ handlers'[d].phase = phase
        /\ handlers'[d].root = handlers[d].root /\ handlers'[d].conversation = handlers[d].conversation
    BY <1>1, <1>2, GoesMoves
  <1>4. Placed(d)' BY <1>1, <1>2, <1>3 DEF Placed, AfterRefusal, InMention, store, slack
  <1>5. Turned(d)' /\ HoldsIts(d)' BY <1>1, <1>3 DEF Turned, HoldsIts, Keeps, store, slack
  <1>6. Stands(d) BY <1>1, <1>2, <1>3 DEF Stands, Placed, AfterRefusal, store
  <1> QED BY <1>1, <1>3, <1>4, <1>5, <1>6, WalkKeeps

-----------------------------------------------------------------------------
(* The steps that change rows of turns. *)

\* While the conversations and openings stay as they are.
LEMMA RowsKeep ==
    ASSUME TurnsInv, NEW d \in Delivery, Moved(d),
           UNCHANGED <<conversations, aged, posted, corrected, ran>>, TypeOK',
           Placed(d)', Turned(d)', Stands(d),
           \A e \in Event : turns[e] # None => turns'[e] # None,
           \A p \in Delivery \ {d}, e \in aged :
               handlers[p].phase = "insert" /\ Running(e)' =>
                   Running(e) /\ turns'[e].conversation = turns[e].conversation,
           \A p \in Delivery : HoldsIts(p)', OneTurnEach', OneRunning'
    PROVE  TurnsInv'
  <1>1. ASSUME NEW p \in Delivery \ {d}
        PROVE  Placed(p)' /\ Turned(p)'
    <2>1. handlers'[p] = handlers[p] BY DEF Moved
    <2>2. Placed(p) /\ Turned(p) /\ EventOf[p] \in Event BY TurnsAssumption DEF TurnsInv
    <2>3. Placed(p)' BY <2>1, <2>2 DEF Placed, InMention
    <2>4. Turned(p)' BY <2>1, <2>2 DEF Turned
    <2> QED BY <2>3, <2>4
  <1>2. AgedHaveTurns' BY DEF TurnsInv, AgedHaveTurns, TypeOK
  <1>3. SourcesOnce' BY DEF TurnsInv, SourcesOnce
  <1>4. StraysCorrected' BY StraysKept DEF Grows
  <1> QED BY <1>1, <1>2, <1>3, <1>4 DEF TurnsInv

LEMMA RetireKeeps ==
    ASSUME TurnsInv, NEW d \in Delivery, Retire(d)
    PROVE  TurnsInv'
  <1> USE DEF HeldPhases, GivenPhases, AskedPhases, Phase
  <1> DEFINE r == handlers[d].conversation
  <1>1. /\ handlers[d].phase = "retire" /\ UNCHANGED <<conversations, aged, resume, slack, crashes>>
        /\ TypeOK /\ Placed(d) /\ Turned(d) /\ r \in Root
    BY DEF Retire, Gateway, TurnsInv, Placed
  <1>2. /\ Moved(d) /\ Keeps(d) /\ handlers'[d].phase = "insert"
        /\ handlers'[d].root = handlers[d].root /\ handlers'[d].conversation = r
    BY <1>1, GoesMoves DEF Retire
  <1>3. \A e \in Event :
            /\ e \in aged \cap RunningIn(r) => turns'[e] = [turns[e] EXCEPT !.status = "cancelled"]
            /\ e \notin aged \cap RunningIn(r) => turns'[e] = turns[e]
    BY DEF Retire
  <1>4. ASSUME NEW e \in Event, turns[e] # None
        PROVE  /\ turns'[e] \in Turn /\ turns'[e] # None
               /\ turns'[e].conversation = turns[e].conversation
               /\ Running(e)' => Running(e) /\ e \notin aged \cap RunningIn(r)
    <2>1. turns[e] \in Turn BY <1>1, <1>4 DEF TypeOK
    <2>2. CASE e \in aged \cap RunningIn(r)
      <3>1. turns'[e] = [turns[e] EXCEPT !.status = "cancelled"] BY <1>3, <2>2
      <3>2. /\ turns'[e] \in Turn /\ turns'[e].status = "cancelled"
            /\ turns'[e].conversation = turns[e].conversation
        BY <2>1, <3>1 DEF Turn, Status
      <3> QED BY <3>2, TurnsAssumption DEF Running
    <2>3. CASE e \notin aged \cap RunningIn(r) BY <1>3, <1>4, <2>1, <2>3 DEF Running
    <2> QED BY <2>2, <2>3
  <1>5. ASSUME NEW e \in Event, turns[e] = None
        PROVE  turns'[e] = None
    BY <1>3, <1>5 DEF RunningIn
  <1>6. TypeOK'
    <2>1. turns' \in [Event -> Turn \cup {None}] BY <1>1, <1>4, <1>5 DEF Retire
    <2> QED BY <1>1, <1>2, <2>1 DEF TypeOK, Moved, slack
  <1>7. Placed(d)' BY <1>1, <1>2 DEF Placed, InMention, slack
  <1>8. Turned(d)'
    <2>1. \A e \in aged : ~(Running(e)' /\ turns'[e].conversation = r)
      BY <1>1, <1>4, <1>5 DEF Running, RunningIn, TypeOK
    <2>2. EventOf[d] \in Event BY TurnsAssumption
    <2> QED BY <1>1, <1>2, <1>4, <2>1, <2>2 DEF Turned, Keeps, Running, slack
  <1>9. Stands(d) BY <1>2 DEF Stands
  <1>10. ASSUME NEW p \in Delivery
         PROVE  HoldsIts(p)'
    <2>1. CASE p = d BY <1>2, <2>1 DEF HoldsIts
    <2>2. CASE p # d
      <3>1. handlers'[p] = handlers[p] /\ HoldsIts(p) /\ EventOf[p] \in Event
        BY <1>2, <2>2, TurnsAssumption DEF Moved, TurnsInv
      <3>2. EventOf[p] \notin aged => turns'[EventOf[p]] = turns[EventOf[p]] BY <1>3, <3>1
      <3> QED BY <1>1, <3>1, <3>2 DEF HoldsIts, Running
    <2> QED BY <2>1, <2>2
  <1>11. OneTurnEach' BY <1>2 DEF TurnsInv, OneTurnEach, Moved, Keeps
  <1>12. OneRunning' BY <1>4, <1>5 DEF TurnsInv, OneRunning, Running
  <1>13. \A e \in aged : Running(e)' => Running(e) /\ turns'[e].conversation = turns[e].conversation
    BY <1>1, <1>4, <1>5 DEF Running, TypeOK
  <1> QED BY <1>1, <1>2, <1>4, <1>6, <1>7, <1>8, <1>9, <1>10, <1>11, <1>12, <1>13, RowsKeep DEF slack

LEMMA InsertKeeps ==
    ASSUME TurnsInv, NEW d \in Delivery, Insert(d)
    PROVE  TurnsInv'
  <1> USE DEF HeldPhases, GivenPhases, AskedPhases, Phase
  <1> DEFINE r == handlers[d].conversation
             f == EventOf[d]
  <1>1. /\ handlers[d].phase = "insert" /\ UNCHANGED <<conversations, aged, resume, slack, crashes>>
        /\ TypeOK /\ Placed(d) /\ Turned(d) /\ r \in Root
        /\ f \in Event /\ turns[f] = None /\ RunningIn(r) = {}
        /\ turns' = [turns EXCEPT ![f] = [conversation |-> r, status |-> "running"]]
    BY TurnsAssumption DEF Insert, Gateway, TurnsInv, Placed
  <1>2. /\ turns'[f] \in Turn /\ turns'[f] # None
        /\ turns'[f].conversation = r /\ turns'[f].status = "running"
        /\ \A e \in Event \ {f} : turns'[e] = turns[e]
    BY <1>1, TurnsAssumption DEF TypeOK, Turn
  <1>3. f \notin aged BY <1>1 DEF TurnsInv, AgedHaveTurns
  <1>4. handlers[d].turn = FALSE BY <1>1 DEF Turned, TypeOK, Handler
  <1>5. /\ Moved(d) /\ handlers'[d].root = handlers[d].root /\ handlers'[d].conversation = r
        /\ handlers'[d].status = handlers[d].status
        /\ \/ handlers'[d].phase = "held" /\ handlers'[d].turn = TRUE
           \/ handlers'[d].phase = "failed" /\ handlers'[d].turn = FALSE
    <2>1. CASE Goes(d, "failed") BY <1>1, <1>4, <2>1, GoesMoves DEF Keeps
    <2>2. CASE handlers' = [handlers EXCEPT ![d].phase = "held", ![d].turn = TRUE]
      <3>1. handlers[d] \in Handler BY <1>1 DEF TypeOK
      <3>2. handlers'[d] = [handlers[d] EXCEPT !.phase = "held", !.turn = TRUE]
        BY <1>1, <2>2 DEF TypeOK
      <3>3. handlers'[d] \in Handler BY <3>1, <3>2 DEF Handler
      <3> QED BY <1>1, <2>2, <3>1, <3>2, <3>3 DEF TypeOK, Handler, Moved
    <2> QED BY <2>1, <2>2 DEF Insert
  <1>6. TypeOK'
    <2>1. turns' \in [Event -> Turn \cup {None}] BY <1>1, <1>2 DEF TypeOK
    <2> QED BY <1>1, <1>5, <2>1 DEF TypeOK, Moved, slack
  <1>7. Placed(d)' BY <1>1, <1>5 DEF Placed, InMention, slack
  <1>8. Turned(d)' BY <1>1, <1>2, <1>4, <1>5 DEF Turned, slack
  <1>9. Stands(d) BY <1>5 DEF Stands
  <1>10. ASSUME NEW p \in Delivery
         PROVE  HoldsIts(p)'
    <2>1. CASE p = d BY <1>1, <1>2, <1>3, <1>5, <2>1 DEF HoldsIts, Running
    <2>2. CASE p # d
      <3>1. /\ handlers'[p] = handlers[p] /\ HoldsIts(p) /\ EventOf[p] \in Event /\ Turned(p)
        BY <1>5, <2>2, TurnsAssumption DEF Moved, TurnsInv
      <3>2. handlers[p].phase \in HeldPhases => EventOf[p] # f BY <1>1, <3>1 DEF Turned
      <3> QED BY <1>1, <1>2, <3>1, <3>2 DEF HoldsIts, Running
    <2> QED BY <2>1, <2>2
  <1>11. OneTurnEach'
    <2>1. \A p \in Delivery : handlers[p].turn => EventOf[p] # f BY <1>1 DEF TurnsInv, Turned
    <2> QED BY <1>5, <2>1 DEF TurnsInv, OneTurnEach, Moved
  <1>12. OneRunning'
    <2>1. \A e \in Event \ {f} : Running(e)' => Running(e) /\ turns[e].conversation # r
      BY <1>1, <1>2 DEF Running, RunningIn
    <2> QED BY <1>2, <2>1 DEF TurnsInv, OneRunning, Running
  <1>13. \A e \in aged : Running(e)' => Running(e) /\ turns'[e].conversation = turns[e].conversation
    BY <1>1, <1>2, <1>3 DEF Running, TypeOK
  <1>14. \A e \in Event : turns[e] # None => turns'[e] # None BY <1>2
  <1> QED BY <1>1, <1>5, <1>6, <1>7, <1>8, <1>9, <1>10, <1>11, <1>12, <1>13, <1>14, RowsKeep DEF slack

LEMMA CloseKeeps ==
    ASSUME TurnsInv, NEW d \in Delivery, CloseTurn(d)
    PROVE  TurnsInv'
  <1> USE DEF HeldPhases, GivenPhases, AskedPhases, Phase
  <1> DEFINE f == EventOf[d]
  <1>1. /\ handlers[d].phase = "closing" /\ UNCHANGED <<conversations, aged, resume, slack, crashes>>
        /\ TypeOK /\ Placed(d) /\ Turned(d) /\ f \in Event /\ turns[f] # None
        /\ handlers[d].turn /\ handlers[d].status \in Status
    BY TurnsAssumption DEF CloseTurn, Gateway, TurnsInv, Turned
  <1>2. PICK phase \in {"correct", "recording", "done"} :
            /\ Goes(d, phase)
            /\ InMention(d) => phase = IF handlers[d].conversation # handlers[d].root
                                       THEN "correct" ELSE "done"
            /\ ~InMention(d) => phase # "correct"
    BY DEF CloseTurn
  <1>3. /\ Moved(d) /\ Keeps(d) /\ handlers'[d].phase = phase
        /\ handlers'[d].root = handlers[d].root /\ handlers'[d].conversation = handlers[d].conversation
    BY <1>1, <1>2, GoesMoves
  <1>4. Placed(d)' BY <1>1, <1>2, <1>3 DEF Placed, InMention, slack
  <1>5. Stands(d) BY <1>1, <1>2, <1>3 DEF Stands, Placed
  <1>6. CASE UNCHANGED turns
    <2>1. Turned(d)' /\ HoldsIts(d)' BY <1>1, <1>3, <1>6 DEF Turned, HoldsIts, Keeps, slack
    <2> QED BY <1>1, <1>3, <1>4, <1>5, <1>6, <2>1, WalkKeeps DEF store
  <1>7. CASE turns' = [turns EXCEPT ![f].status = handlers[d].status]
    <2>1. turns[f] \in Turn BY <1>1 DEF TypeOK
    <2>2. turns'[f] = [turns[f] EXCEPT !.status = handlers[d].status] BY <1>1, <1>7 DEF TypeOK
    <2>3. /\ turns'[f] \in Turn /\ turns'[f] # None
          /\ turns'[f].status \in Status /\ turns'[f].status # "running"
      BY <1>1, <2>1, <2>2, TurnsAssumption DEF Turn, Status
    <2>4. \A e \in Event \ {f} : turns'[e] = turns[e] BY <1>1, <1>7 DEF TypeOK
    <2>5. \A e \in Event : Running(e)' => e # f /\ Running(e) /\ turns'[e] = turns[e]
      BY <2>3, <2>4 DEF Running
    <2>6. TypeOK'
      <3>1. turns' \in [Event -> Turn \cup {None}] BY <1>1, <1>7, <2>3, <2>4 DEF TypeOK
      <3> QED BY <1>1, <1>3, <3>1 DEF TypeOK, Moved, slack
    <2>7. Turned(d)' BY <1>1, <1>3, <2>3 DEF Turned, Keeps, slack
    <2>8. ASSUME NEW p \in Delivery
          PROVE  HoldsIts(p)'
      <3>1. CASE p = d BY <1>3, <3>1 DEF HoldsIts
      <3>2. CASE p # d
        <4>1. /\ handlers'[p] = handlers[p] /\ HoldsIts(p) /\ EventOf[p] \in Event /\ Turned(p)
          BY <1>3, <3>2, TurnsAssumption DEF Moved, TurnsInv
        <4>2. handlers[p].turn => EventOf[p] # f BY <1>1, <3>2 DEF TurnsInv, OneTurnEach
        <4> QED BY <1>1, <2>4, <4>1, <4>2 DEF HoldsIts, Running, Turned
      <3> QED BY <3>1, <3>2
    <2>9. OneTurnEach' BY <1>3 DEF TurnsInv, OneTurnEach, Moved, Keeps
    <2>10. OneRunning' BY <2>5 DEF TurnsInv, OneRunning
    <2>11. \A e \in Event : turns[e] # None => turns'[e] # None BY <2>3, <2>4
    <2>12. \A e \in aged : Running(e)' => Running(e) /\ turns'[e].conversation = turns[e].conversation
      BY <1>1, <2>5 DEF TypeOK
    <2> QED BY <1>1, <1>3, <1>4, <1>5, <2>6, <2>7, <2>8, <2>9, <2>10, <2>11, <2>12, RowsKeep DEF slack
  <1> QED BY <1>6, <1>7 DEF CloseTurn

-----------------------------------------------------------------------------
(* The rest: a turn that is worked on, and what goes wrong. *)

LEMMA RecordKeeps ==
    ASSUME TurnsInv, NEW d \in Delivery, RecordResume(d)
    PROVE  TurnsInv'
  <1> USE DEF HeldPhases, GivenPhases, AskedPhases, Phase
  <1>1. /\ handlers[d].phase = "recording" /\ UNCHANGED <<conversations, turns, aged, slack, crashes>>
        /\ Goes(d, "done") /\ TypeOK /\ Placed(d) /\ Turned(d) /\ ~InMention(d)
        /\ EventOf[d] \in Event
    BY TurnsAssumption DEF RecordResume, Gateway, TurnsInv, Placed
  <1>2. /\ Moved(d) /\ Keeps(d) /\ handlers'[d].phase = "done"
        /\ handlers'[d].root = handlers[d].root
    BY <1>1, GoesMoves
  <1>3. TypeOK'
    <2>1. handlers[d].base \cup {EventOf[d]} \in SUBSET Event BY <1>1 DEF TypeOK, Handler
    <2>2. resume' \in [Root -> SUBSET Event] BY <1>1, <2>1 DEF RecordResume, TypeOK
    <2> QED BY <1>1, <1>2, <2>2 DEF TypeOK, Moved, slack
  <1>4. Placed(d)' BY <1>1, <1>2 DEF Placed, InMention, slack
  <1>5. Turned(d)' /\ HoldsIts(d)' BY <1>1, <1>2 DEF Turned, HoldsIts, Keeps, slack
  <1>6. Grows /\ SourcesOnce' BY <1>1 DEF Grows, SourcesOnce, TurnsInv
  <1>7. StraysCorrected' BY <1>1, <1>2, <1>6, StraysKept DEF Stands, slack
  <1> QED BY <1>1, <1>2, <1>3, <1>4, <1>5, <1>6, <1>7, MoveKeeps DEF slack

LEMMA EndKeeps ==
    ASSUME TurnsInv, NEW d \in Delivery,
           FinishMention(d) \/ Decline(d) \/ Answer(d) \/ RunFails(d)
    PROVE  TurnsInv'
  <1> USE DEF HeldPhases, GivenPhases, AskedPhases, Phase
  <1>1. /\ handlers[d].phase \in HeldPhases /\ UNCHANGED <<store, slack, crashes>>
        /\ TypeOK /\ Placed(d) /\ Turned(d)
    BY DEF FinishMention, Decline, Answer, RunFails, Bot, TurnsInv
  <1>2. PICK status \in Status : CloseWith(d, status)
    BY DEF FinishMention, Decline, Answer, RunFails, Status
  <1>3. /\ Moved(d) /\ Keeps(d) /\ handlers'[d].phase = "closing" /\ handlers'[d].status \in Status
        /\ handlers'[d].root = handlers[d].root /\ handlers'[d].conversation = handlers[d].conversation
    BY <1>1, <1>2, CloseMoves
  <1>4. Placed(d)' BY <1>1, <1>3 DEF Placed, InMention, store, slack
  <1>5. Turned(d)' /\ HoldsIts(d)' BY <1>1, <1>3 DEF Turned, HoldsIts, Keeps, store, slack
  <1>6. Stands(d) BY <1>3 DEF Stands
  <1> QED BY <1>1, <1>3, <1>4, <1>5, <1>6, WalkKeeps

LEMMA ProceedKeeps ==
    ASSUME TurnsInv, NEW d \in Delivery, Decide(d) \/ Run(d)
    PROVE  TurnsInv'
  <1> USE DEF HeldPhases, GivenPhases, AskedPhases, Phase
  <1>1. /\ handlers[d].phase \in {"held", "ready"} /\ UNCHANGED <<store, posted, corrected, crashes>>
        /\ ran' \in {ran, ran \cup {d}}
        /\ TypeOK /\ Placed(d) /\ Turned(d) /\ HoldsIts(d) /\ handlers[d] \in Handler
    BY DEF Decide, Run, Bot, TurnsInv, TypeOK, slack
  <1>2. /\ Moved(d) /\ Keeps(d) /\ handlers'[d].phase \in {"ready", "running"}
        /\ handlers'[d].root = handlers[d].root /\ handlers'[d].conversation = handlers[d].conversation
        /\ handlers'[d].alive = handlers[d].alive
    <2>1. CASE Run(d)
      <3>1. Moved(d) /\ Keeps(d) BY <1>1, <2>1, GoesMoves DEF Run
      <3>2. handlers'[d].phase = "running" BY <1>1, <2>1, GoesMoves DEF Run
      <3> QED BY <1>1, <2>1, <3>1, <3>2, GoesMoves DEF Run
    <2>2. CASE Decide(d)
      <3>1. resume[handlers[d].conversation] \in SUBSET Event BY <1>1 DEF TypeOK, Placed
      <3>2. handlers'[d] = [handlers[d] EXCEPT !.phase = "ready",
                                               !.base = resume[handlers[d].conversation]]
        BY <1>1, <2>2 DEF Decide, TypeOK
      <3>3. handlers'[d] \in Handler BY <1>1, <3>1, <3>2 DEF Handler
      <3>4. Moved(d) BY <1>1, <2>2, <3>2, <3>3 DEF Decide, TypeOK, Moved
      <3>5. Keeps(d) BY <1>1, <3>2 DEF Handler, Keeps
      <3> QED BY <1>1, <2>2, <3>2, <3>4, <3>5 DEF Handler
    <2> QED BY <2>1, <2>2
  <1>3. TypeOK' BY <1>1, <1>2 DEF TypeOK, Moved, store
  <1>4. Placed(d)' BY <1>1, <1>2 DEF Placed, InMention, store
  <1>5. Turned(d)' BY <1>1, <1>2 DEF Turned, Keeps, store
  <1>6. HoldsIts(d)' BY <1>1, <1>2 DEF HoldsIts, Running, store
  <1>7. Grows /\ SourcesOnce' BY <1>1 DEF Grows, SourcesOnce, TurnsInv, store
  <1>8. StraysCorrected' BY <1>1, <1>2, <1>7, StraysKept DEF Stands
  <1> QED BY <1>1, <1>2, <1>3, <1>4, <1>5, <1>6, <1>7, <1>8, MoveKeeps DEF store

LEMMA TellKeeps ==
    ASSUME TurnsInv, NEW d \in Delivery, TellBusy(d) \/ Throws(d)
    PROVE  TurnsInv'
  <1> USE DEF HeldPhases, GivenPhases, AskedPhases, Phase
  <1>1. /\ handlers[d].phase \notin {"done", "silent"} /\ UNCHANGED <<store, slack, crashes>>
        /\ TypeOK /\ Placed(d) /\ Turned(d)
    BY DEF TellBusy, Throws, Bot, TurnsInv
  <1>2. PICK phase \in {"told", "failed"} : Goes(d, phase) BY DEF TellBusy, Throws
  <1>3. /\ Moved(d) /\ Keeps(d) /\ handlers'[d].phase = phase
        /\ handlers'[d].root = handlers[d].root
    BY <1>1, <1>2, GoesMoves
  <1>4. Placed(d)' BY <1>1, <1>3 DEF Placed, InMention, store, slack
  <1>5. Turned(d)' /\ HoldsIts(d)' BY <1>1, <1>3 DEF Turned, HoldsIts, Keeps, store, slack
  <1>6. Stands(d) BY <1>3 DEF Stands
  <1> QED BY <1>1, <1>3, <1>4, <1>5, <1>6, WalkKeeps

LEMMA CorrectKeeps ==
    ASSUME TurnsInv, NEW d \in Delivery, Correct(d)
    PROVE  TurnsInv'
  <1> USE DEF HeldPhases, GivenPhases, AskedPhases, Phase
  <1>1. /\ handlers[d].phase = "correct" /\ UNCHANGED <<store, posted, ran, crashes>>
        /\ corrected' = corrected \cup {handlers[d].root}
        /\ TypeOK /\ Placed(d) /\ Turned(d)
    BY DEF Correct, Bot, TurnsInv
  <1>2. PICK phase \in {"done", "told"} : Goes(d, phase) BY DEF Correct
  <1>3. /\ Moved(d) /\ Keeps(d) /\ handlers'[d].phase = phase
        /\ handlers'[d].root = handlers[d].root
    BY <1>1, <1>2, GoesMoves
  <1>4. handlers[d].root \in posted
    <2>1. /\ InMention(d) /\ handlers[d].root \in Root /\ handlers[d].conversation \in Root
          /\ handlers[d].conversation # handlers[d].root
          /\ conversations[handlers[d].conversation] = SourceOf[EventOf[d]]
          /\ \/ handlers[d].root \in posted
             \/ conversations[handlers[d].root] = SourceOf[EventOf[d]]
      BY <1>1 DEF Placed
    <2> QED BY <2>1, SourceIsThere DEF TurnsInv, SourcesOnce
  <1>5. TypeOK' BY <1>1, <1>3, <1>4 DEF TypeOK, Moved, store
  <1>6. Placed(d)' BY <1>1, <1>3 DEF Placed, InMention, store
  <1>7. Turned(d)' /\ HoldsIts(d)' BY <1>1, <1>3 DEF Turned, HoldsIts, Keeps, store
  <1>8. Grows /\ SourcesOnce' BY <1>1 DEF Grows, SourcesOnce, TurnsInv, store
  <1>9. StraysCorrected' BY <1>1, <1>3, <1>8, StraysKept DEF Stands
  <1> QED BY <1>1, <1>3, <1>5, <1>6, <1>7, <1>8, <1>9, MoveKeeps DEF store

LEMMA AgeKeeps ==
    ASSUME TurnsInv, NEW e \in Event, Age(e)
    PROVE  TurnsInv'
  <1> USE DEF HeldPhases
  <1>1. /\ Running(e) /\ aged' = aged \cup {e} /\ TypeOK
        /\ UNCHANGED <<conversations, turns, resume, handlers, slack, crashes>>
        /\ Overruns \/ \A d \in Working : EventOf[d] = e => ~handlers[d].alive
        /\ \A d \in Delivery : handlers[d].phase = "insert" =>
                                   handlers[d].conversation # turns[e].conversation
    BY DEF Age, Running, TurnsInv
  <1>2. TypeOK' BY <1>1 DEF TypeOK, slack
  <1>3. ASSUME NEW d \in Delivery
        PROVE  Placed(d)' /\ Turned(d)' /\ HoldsIts(d)'
    <2>1. Placed(d) /\ Turned(d) /\ HoldsIts(d) BY DEF TurnsInv
    <2>2. Placed(d)' BY <1>1, <2>1 DEF Placed, InMention, slack
    <2>3. Turned(d)' BY <1>1, <2>1 DEF Turned, Running, slack
    <2>4. handlers[d].phase \in HeldPhases => d \in Working BY <2>1 DEF Working, Turned
    <2>5. HoldsIts(d)' BY <1>1, <2>1, <2>4 DEF HoldsIts, Running
    <2> QED BY <2>2, <2>3, <2>5
  <1>4. OneTurnEach' /\ OneRunning' /\ AgedHaveTurns' /\ SourcesOnce'
    BY <1>1 DEF TurnsInv, OneTurnEach, OneRunning, AgedHaveTurns, SourcesOnce, Running
  <1>5. StraysCorrected' BY <1>1 DEF TurnsInv, StraysCorrected, InMention, slack
  <1> QED BY <1>2, <1>3, <1>4, <1>5 DEF TurnsInv

LEMMA CrashKeeps ==
    ASSUME TurnsInv, Crash
    PROVE  TurnsInv'
  <1> USE DEF HeldPhases, GivenPhases, AskedPhases
  <1>1. TypeOK /\ UNCHANGED <<store, slack>> /\ crashes < MaxCrashes /\ crashes' = crashes + 1
    BY DEF TurnsInv, Crash
  <1>2. ASSUME NEW d \in Delivery
        PROVE  /\ handlers'[d] \in Handler
               /\ handlers'[d].phase = handlers[d].phase /\ handlers'[d].root = handlers[d].root
               /\ handlers'[d].conversation = handlers[d].conversation
               /\ handlers'[d].status = handlers[d].status
               /\ handlers'[d].turn <=> handlers[d].turn
               /\ ~handlers'[d].alive
    <2>1. handlers[d] \in Handler BY <1>1 DEF TypeOK
    <2>2. handlers'[d] = [handlers[d] EXCEPT !.alive = FALSE] BY DEF Crash
    <2>3. handlers'[d] \in Handler /\ (handlers'[d].turn <=> handlers[d].turn) BY <2>1, <2>2 DEF Handler
    <2> QED BY <2>1, <2>2, <2>3 DEF Handler
  <1>3. TypeOK'
    <2>1. handlers' \in [Delivery -> Handler] BY <1>2 DEF Crash
    <2>2. crashes' \in 0..MaxCrashes BY <1>1, TurnsAssumption DEF TypeOK
    <2> QED BY <1>1, <2>1, <2>2 DEF TypeOK, store, slack
  <1>4. ASSUME NEW d \in Delivery
        PROVE  Placed(d)' /\ Turned(d)' /\ HoldsIts(d)'
    <2>1. Placed(d) /\ Turned(d) BY DEF TurnsInv
    <2>2. Placed(d)' BY <1>1, <1>2, <2>1 DEF Placed, InMention, store, slack
    <2>3. Turned(d)' BY <1>1, <1>2, <2>1 DEF Turned, Running, store, slack
    <2>4. HoldsIts(d)' BY <1>2 DEF HoldsIts
    <2> QED BY <2>2, <2>3, <2>4
  <1>5. OneTurnEach' BY <1>2 DEF TurnsInv, OneTurnEach
  <1>6. OneRunning' /\ AgedHaveTurns' /\ SourcesOnce'
    BY <1>1 DEF TurnsInv, OneRunning, AgedHaveTurns, SourcesOnce, Running, store
  <1>7. StraysCorrected' BY <1>1, <1>2 DEF TurnsInv, StraysCorrected, InMention, store, slack
  <1> QED BY <1>3, <1>4, <1>5, <1>6, <1>7 DEF TurnsInv

-----------------------------------------------------------------------------
LEMMA InitHolds == Init => TurnsInv
  <1> SUFFICES ASSUME Init PROVE TurnsInv OBVIOUS
  <1> USE DEF HeldPhases, GivenPhases, AskedPhases
  <1>1. ASSUME NEW d \in Delivery
        PROVE  /\ handlers[d] \in Handler /\ handlers[d].phase = "idle"
               /\ ~handlers[d].turn
               /\ handlers[d].root = IF InMention(d) THEN None ELSE RootOf[EventOf[d]]
    BY TurnsAssumption DEF Init, Idle, Handler, Phase, InMention
  <1>2. TypeOK
    <2>1. handlers \in [Delivery -> Handler] BY <1>1 DEF Init
    <2> QED BY <2>1, TurnsAssumption DEF Init, TypeOK
  <1>3. ASSUME NEW d \in Delivery
        PROVE  Placed(d) /\ Turned(d) /\ HoldsIts(d)
    BY <1>1, TurnsAssumption DEF Init, Placed, Turned, HoldsIts, InMention
  <1>4. OneTurnEach BY <1>1 DEF OneTurnEach
  <1>5. OneRunning /\ AgedHaveTurns BY DEF Init, OneRunning, AgedHaveTurns, Running
  <1>6. SourcesOnce BY TurnsAssumption DEF Init, SourcesOnce
  <1>7. StraysCorrected BY DEF Init, StraysCorrected
  <1> QED BY <1>2, <1>3, <1>4, <1>5, <1>6, <1>7 DEF TurnsInv

LEMMA StutterKeeps == TurnsInv /\ UNCHANGED vars => TurnsInv'
  <1> SUFFICES ASSUME TurnsInv, UNCHANGED vars PROVE TurnsInv' OBVIOUS
  <1>1. TypeOK' BY DEF TurnsInv, TypeOK, vars, store, slack
  <1>2. \A d \in Delivery : Placed(d)' /\ Turned(d)' /\ HoldsIts(d)'
    BY DEF TurnsInv, Placed, Turned, HoldsIts, Running, InMention, vars, store, slack
  <1>3. OneTurnEach' /\ OneRunning' /\ AgedHaveTurns' /\ SourcesOnce'
    BY DEF TurnsInv, OneTurnEach, OneRunning, AgedHaveTurns, SourcesOnce, Running, vars, store
  <1>4. StraysCorrected' BY DEF TurnsInv, StraysCorrected, InMention, vars, store, slack
  <1> QED BY <1>1, <1>2, <1>3, <1>4 DEF TurnsInv

LEMMA NextKeeps == TurnsInv /\ [Next]_vars => TurnsInv'
  <1> SUFFICES ASSUME TurnsInv, [Next]_vars PROVE TurnsInv' OBVIOUS
  <1>1. CASE UNCHANGED vars BY <1>1, StutterKeeps
  <1>2. ASSUME NEW d \in Delivery, Deliver(d) \/ Asks(d) PROVE TurnsInv' BY <1>2, AsksKeep
  <1>3. ASSUME NEW d \in Delivery, Routes(d) PROVE TurnsInv'
    BY <1>3, LookupKeeps, OpenKeeps, RetireKeeps, InsertKeeps, RefuseKeeps DEF Routes
  <1>4. ASSUME NEW d \in Delivery, Works(d) PROVE TurnsInv'
    BY <1>4, EndKeeps, CorrectKeeps, TellKeeps, ProceedKeeps DEF Works
  <1>5. ASSUME NEW d \in Delivery, Closes(d) PROVE TurnsInv' BY <1>5, CloseKeeps, RecordKeeps DEF Closes
  <1>6. ASSUME NEW d \in Delivery, Throws(d) PROVE TurnsInv' BY <1>6, TellKeeps
  <1>7. ASSUME NEW e \in Event, Age(e) PROVE TurnsInv' BY <1>7, AgeKeeps
  <1>8. CASE Crash BY <1>8, CrashKeeps
  <1> QED BY <1>1, <1>2, <1>3, <1>4, <1>5, <1>6, <1>7, <1>8 DEF Next

LEMMA TurnsInvariant == Spec => []TurnsInv
  BY InitHolds, NextKeeps, PTL DEF Spec

-----------------------------------------------------------------------------
\* The variables are what Turns says they are: no opening is called a second
\* start that was never posted, and every row has a conversation.
THEOREM TurnsTypes == Spec => []TypeOK
  <1>1. TurnsInv => TypeOK BY DEF TurnsInv
  <1> QED BY <1>1, TurnsInvariant, PTL

\* recordTurn, one row per event: however often Slack delivers an event, and
\* though the bot dies or the answer is lost on its way, its prompt is run once.
THEOREM TurnsOnce == Spec => []RunOnce
  <1>1. ASSUME TurnsInv, NEW d1 \in ran, NEW d2 \in ran, EventOf[d1] = EventOf[d2]
        PROVE  d1 = d2
    <2>1. d1 \in Delivery /\ d2 \in Delivery BY <1>1 DEF TurnsInv, TypeOK
    <2>2. handlers[d1].turn /\ handlers[d2].turn BY <1>1, <2>1 DEF TurnsInv, Turned
    <2> QED BY <1>1, <2>1, <2>2 DEF TurnsInv, OneTurnEach
  <1>2. TurnsInv => RunOnce BY <1>1 DEF RunOnce
  <1> QED BY <1>2, TurnsInvariant, PTL

\* recordTurn, one running row per conversation: a thread is a sequence, provided
\* that no turn that is worked on is taken for one that a crash left.
THEOREM TurnsAlone == ASSUME ~Overruns PROVE Spec => []OneRunPerThread
  <1>1. ASSUME TurnsInv, NEW d1 \in Delivery, NEW d2 \in Delivery,
               Bot(d1, "running"), Bot(d2, "running"),
               handlers[d1].conversation = handlers[d2].conversation
        PROVE  d1 = d2
    <2>1. ASSUME NEW d \in Delivery, Bot(d, "running")
          PROVE  /\ handlers[d].turn /\ Running(EventOf[d]) /\ EventOf[d] \in Event
                 /\ turns[EventOf[d]].conversation = handlers[d].conversation
      BY <1>1, <2>1, TurnsAssumption DEF TurnsInv, Turned, HoldsIts, HeldPhases, Bot
    <2>2. EventOf[d1] = EventOf[d2] BY <1>1, <2>1 DEF TurnsInv, OneRunning
    <2> QED BY <1>1, <2>1, <2>2 DEF TurnsInv, OneTurnEach
  <1>2. TurnsInv => OneRunPerThread BY <1>1 DEF OneRunPerThread
  <1> QED BY <1>2, TurnsInvariant, PTL

\* handleMention: whatever is lost, an opening that no conversation hangs from is
\* called a second start or its handler has yet to, unless the handler failed.
THEOREM TurnsStrays == Spec => []StraysCorrected
  <1>1. TurnsInv => StraysCorrected BY DEF TurnsInv
  <1> QED BY <1>1, TurnsInvariant, PTL

\* recordTurn retires what went stale before it inserts: a member is only told to
\* wait for a turn that has not been running for TURN_STALE_MINUTES.
THEOREM TurnsGiveWay == Spec => LeftTurnsGiveWay
  <1> DEFINE Waits == \A d \in Delivery :
                 handlers[d].phase = "insert" /\ handlers'[d].phase = "busy" =>
                     \E e \in RunningIn(handlers[d].conversation) : e \notin aged
  <1>1. ASSUME TurnsInv, [Next]_vars, NEW d \in Delivery,
               handlers[d].phase = "insert", handlers'[d].phase = "busy"
        PROVE  \E e \in RunningIn(handlers[d].conversation) : e \notin aged
    <2>1. TypeOK /\ Turned(d) /\ handlers[d] \in Handler BY <1>1 DEF TurnsInv, TypeOK
    <2>2. handlers' # handlers BY <1>1
    <2>3. ASSUME NEW p \in Delivery, NEW h, handlers' = [handlers EXCEPT ![p] = h]
          PROVE  p = d /\ h.phase = "busy"
      BY <1>1, <2>1, <2>3 DEF TypeOK
    <2>4. ASSUME NEW p \in Delivery, Deliver(p) \/ Asks(p) PROVE FALSE
      BY <1>1, <2>3, <2>4 DEF Deliver, Asks, FindMessage, FindMention, PostOpening, Goes, Bot
    <2>5. ASSUME NEW p \in Delivery, Works(p) \/ Closes(p) \/ Throws(p) PROVE FALSE
      <3>1. handlers[p].phase # "insert"
        BY <2>5 DEF Works, FinishMention, Correct, TellBusy, Decline, Decide, Run, Answer,
           RunFails, Closes, CloseTurn, RecordResume, Throws, Bot, Gateway
      <3>2. \E h : handlers' = [handlers EXCEPT ![p] = h]
        <4>1. CASE Works(p)
          BY <4>1 DEF Works, FinishMention, Correct, TellBusy, Decline, Decide, Run, Answer,
             RunFails, CloseWith, Goes
        <4>2. CASE Closes(p) \/ Throws(p)
          <5>1. ASSUME NEW phase, Goes(p, phase)
                PROVE  \E h : handlers' = [handlers EXCEPT ![p] = h]
            BY <5>1 DEF Goes
          <5> QED BY <4>2, <5>1 DEF Closes, CloseTurn, RecordResume, Throws
        <4> QED BY <2>5, <4>1, <4>2
      <3> QED BY <1>1, <2>3, <3>1, <3>2
    <2>6. ASSUME NEW p \in Delivery, Routes(p) PROVE RefuseBusy(d)
      <3>1. CASE Lookup(p) \/ OpenConversation(p) \/ Relookup(p) \/ Retire(p)
        BY <1>1, <2>3, <3>1 DEF Lookup, OpenConversation, Relookup, Retire, Given, Goes, Gateway
      <3>2. CASE Insert(p)
        BY <2>1, <2>3, <3>2 DEF Insert, Goes, TypeOK, Handler
      <3>3. CASE RefuseDuplicate(p)
        <4>1. PICK phase \in {"correct", "silent"} : Goes(p, phase)
          BY <3>3 DEF RefuseDuplicate, AfterRefusal
        <4>2. p = d /\ handlers'[p].phase = phase
          BY <1>1, <2>1, <4>1, GoesMoves DEF Moved, Phase
        <4> QED BY <1>1, <4>2
      <3>4. CASE RefuseBusy(p)
        <4>1. \E h : handlers' = [handlers EXCEPT ![p] = h] BY <3>4 DEF RefuseBusy, Goes
        <4> QED BY <2>3, <3>4, <4>1
      <3> QED BY <2>6, <3>1, <3>2, <3>3, <3>4 DEF Routes
    <2>7. CASE Crash BY <1>1, <2>1, <2>7 DEF Crash, Handler
    <2>8. CASE RefuseBusy(d)
      <3>1. PICK e \in RunningIn(handlers[d].conversation) : TRUE BY <2>8 DEF RefuseBusy
      <3>2. e \in Event /\ Running(e) /\ turns[e].conversation = handlers[d].conversation
        BY <3>1 DEF RunningIn, Running
      <3> QED BY <1>1, <2>1, <3>1, <3>2 DEF Turned
    <2> QED BY <1>1, <2>2, <2>4, <2>5, <2>6, <2>7, <2>8 DEF Next, Age, vars
  <1>2. TurnsInv /\ [Next]_vars => Waits BY <1>1 DEF Waits
  <1>3. TurnsInv /\ [Next]_vars => [Waits]_vars BY <1>2
  <1> QED BY <1>3, TurnsInvariant, PTL DEF Spec, LeftTurnsGiveWay
=============================================================================
