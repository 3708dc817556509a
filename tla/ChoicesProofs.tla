--------------------------- MODULE ChoicesProofs ----------------------------
(***************************************************************************)
(* What TLAPS proves of Choices, for any number of threads, agents,        *)
(* projects, machines and sessions: where the model in a row comes from    *)
(* and where a session is picked up, however routes overlap and fail; and, *)
(* while none does, that what a turn is given was picked for its project   *)
(* and that a route overwrites nothing.                                    *)
(*                                                                         *)
(* None is inductive alone.  A route carries what it read across its       *)
(* awaits, so what is true of a row has to be true of every copy of one; a *)
(* session is offered to a turn off a row that may change under it; and a  *)
(* thread that moves into a project holds, until its route has stored what *)
(* goes with the move, what was picked in the one it left.                 *)
(***************************************************************************)
EXTENDS Choices, FiniteSetTheorems, SequenceTheorems, TLAPS

\* The member picked this model from this agent's roster.
PickedFrom(model, agent) ==
    \E p \in picks : p.choice = "model" /\ p.value = model /\ p.agent = agent

Sound(row) ==
    /\ row.model = None <=> row.under = None
    /\ row.model # None => PickedFrom(row.model, row.under)

\* A row as it is, a row as a route read it, and the model it will serve.
RowsSound == \A c \in Conv : Sound(rows[c])
JobsSound ==
    \A c \in Conv : jobs[c] # None =>
        /\ Sound(jobs[c].row)
        /\ jobs[c].model # None => PickedFrom(jobs[c].model, jobs[c].key.agent)

BegunAt(s, c, key) == s \in 1..Len(begun) /\ begun[s] = [conv |-> c, key |-> key]

ResumesSound ==
    \A c \in Conv : resumes[c] # None => BegunAt(resumes[c].session, c, resumes[c].key)
TurnsSound ==
    \A c \in Conv : jobs[c] # None /\ jobs[c].resume # None =>
        BegunAt(jobs[c].resume, c, jobs[c].key)

IInv == TypeOK /\ RowsSound /\ JobsSound /\ ResumesSound /\ TurnsSound

LEMMA NoneIsNothing ==
    /\ None \notin Conv /\ None \notin Agent /\ None \notin Root /\ None \notin Mode
    /\ None \notin Model /\ None \notin Session
  BY ChoicesAssumption DEF ChoicesAssumption

\* Before the first turn no row holds anything.
LEMMA InitIInv == Init => IInv
<1> SUFFICES ASSUME Init PROVE IInv
  OBVIOUS
<1>1. recent \in Seq(Conv)
  BY ChoicesAssumption, FS_CardinalityType DEF Init, Orders, ChoicesAssumption
<1>2. TypeOK
  <2>1. offers \in [Agent -> SUBSET (Mode \cup Model)]
    BY ChoicesAssumption DEF Init, ChoicesAssumption
  <2>2. rows \in [Conv -> Row]
    BY DEF Init, Row
  <2>3. deeds \in 0..MaxDeeds
    BY ChoicesAssumption DEF Init, ChoicesAssumption
  <2>4. /\ resumes \in [Conv -> Resume \cup {None}] /\ jobs \in [Conv -> Job \cup {None}]
        /\ begun \in Seq(Began)
    BY DEF Init
  <2>5. /\ rosters \in [Agent -> SUBSET Model] /\ chosen \in [Agent -> Model \cup {None}]
        /\ preferred \in Agent \cup {None}
    BY DEF Init
  <2>6. /\ machines \in Situation /\ picks \subseteq Pick /\ cleared \subseteq Pick
        /\ torn \in BOOLEAN
    BY DEF Init
  <2>7. QED  BY <1>1, <2>1, <2>2, <2>3, <2>4, <2>5, <2>6 DEF TypeOK
<1>3. QED
  BY <1>2 DEF Init, IInv, RowsSound, Sound, JobsSound, ResumesSound, TurnsSound

-----------------------------------------------------------------------------
(* What the statements of store.ts do to a row. *)

LEMMA TouchedType ==
  ASSUME TypeOK, NEW c \in Conv
  PROVE  Touched(c) \in Seq(Conv)
<1>1. recent \in Seq(Conv) /\ DOMAIN recent = 1..Len(recent) /\ Len(recent) \in Nat
  BY DEF TypeOK
<1>2. ASSUME NEW i \in 1..Len(recent)
      PROVE  Touched(c)[i] \in Conv
  <2>1. recent[i] \in Conv /\ (i # Len(recent) => recent[i + 1] \in Conv)
    <3>1. recent \in Seq(Conv)
      BY <1>1
    <3>2. Len(recent) \in Nat
      BY <1>1
    <3>3. i # Len(recent) => i + 1 \in 1..Len(recent)
      BY <3>2
    <3>4. \A k \in 1..Len(recent) : recent[k] \in Conv
      BY <3>1, ElementOfSeq
    <3>5. QED  BY <3>3, <3>4
  <2>2. \/ Touched(c)[i] = c \/ Touched(c)[i] = recent[i]
        \/ i # Len(recent) /\ Touched(c)[i] = recent[i + 1]
    <3> DEFINE seen == c \in {recent[j] : j \in 1..i}
    <3>1. Touched(c)[i] = IF i = Len(recent) THEN c
                          ELSE IF seen THEN recent[i + 1] ELSE recent[i]
      BY <1>1, Zenon DEF Touched
    <3> HIDE DEF seen
    <3>2. QED  BY <3>1
  <2>3. QED  BY <2>1, <2>2
<1>3. Touched(c) = [i \in 1..Len(recent) |-> Touched(c)[i]]
  BY <1>1 DEF Touched
<1>4. QED  BY <1>1, <1>2, <1>3

\* What is inherited was held, in this project and off this roster.
LEMMA LastChoice ==
  ASSUME TypeOK, NEW root, NEW choice, NEW agent,
         lastChoiceFor(root, choice, agent) # None
  PROVE  \E d \in Conv : /\ Holds(d, root, choice, agent)
                         /\ lastChoiceFor(root, choice, agent) = rows[d][choice]
<1> DEFINE Latest(i) == /\ Holds(recent[i], root, choice, agent)
                        /\ \A j \in DOMAIN recent :
                              Holds(recent[j], root, choice, agent) => j <= i
<1> DEFINE last == CHOOSE i \in DOMAIN recent : Latest(i)
<1>1. \E i \in DOMAIN recent : Latest(i)
  BY DEF lastChoiceFor
<1> HIDE DEF Latest
<1>2. last \in DOMAIN recent /\ Latest(last)
  BY <1>1
<1>3. recent[last] \in Conv
  BY <1>2 DEF TypeOK
<1>4. lastChoiceFor(root, choice, agent) = rows[recent[last]][choice]
  BY <1>1 DEF lastChoiceFor, Latest
<1>5. QED  BY <1>2, <1>3, <1>4 DEF Latest

\* A choice is written into one row, which stays a row.
LEMMA Bound ==
  ASSUME TypeOK, NEW c \in Conv, NEW choice \in Choice, NEW agent \in Agent,
         NEW value \in (IF choice = "mode" THEN Mode ELSE Model) \cup {None},
         bindConversationChoice(c, choice, value, agent)
  PROVE  /\ rows' \in [Conv -> Row] /\ recent' \in Seq(Conv)
         /\ \A d \in Conv : d # c \/ choice = "mode" =>
               rows'[d].model = rows[d].model /\ rows'[d].under = rows[d].under
         /\ choice = "model" => /\ rows'[c].model = value
                                /\ rows'[c].under = IF value = None THEN None ELSE agent
<1>1. recent' \in Seq(Conv)
  BY TouchedType DEF bindConversationChoice, TypeOK
<1>2. rows \in [Conv -> Row] /\ rows[c] \in Row
  BY DEF TypeOK
<1>3. CASE choice = "mode"
  <2>1. value \in Mode \cup {None}
    BY <1>3
  <2>2. rows' = [rows EXCEPT ![c] = [rows[c] EXCEPT !.mode = value]]
    BY <1>2, <1>3 DEF bindConversationChoice
  <2>3. /\ [rows[c] EXCEPT !.mode = value] \in Row
        /\ [rows[c] EXCEPT !.mode = value].model = rows[c].model
        /\ [rows[c] EXCEPT !.mode = value].under = rows[c].under
    BY <1>2, <2>1 DEF Row
  <2>4. QED  BY <1>1, <1>2, <1>3, <2>2, <2>3
<1>4. CASE choice = "model"
  <2> DEFINE under == IF value = None THEN None ELSE agent
  <2>1. value \in Model \cup {None} /\ under \in Agent \cup {None}
    BY <1>4
  <2>2. rows' = [rows EXCEPT ![c] = [rows[c] EXCEPT !.model = value, !.under = under]]
    BY <1>2, <1>4 DEF bindConversationChoice
  <2> HIDE DEF under
  <2>3. /\ [rows[c] EXCEPT !.model = value, !.under = under] \in Row
        /\ [rows[c] EXCEPT !.model = value, !.under = under].model = value
        /\ [rows[c] EXCEPT !.model = value, !.under = under].under = under
    BY <1>2, <2>1 DEF Row
  <2>4. QED  BY <1>1, <1>2, <1>4, <2>2, <2>3 DEF under
<1>5. QED  BY <1>3, <1>4 DEF Choice

\* A choice is cleared in some rows and in no row half.
LEMMA Shed ==
  ASSUME TypeOK, NEW c \in Conv, NEW choice, shedWorkspaceChoice(c, choice)
  PROVE  /\ rows' \in [Conv -> Row]
         /\ \A d \in Conv : \/ rows'[d].model = rows[d].model /\ rows'[d].under = rows[d].under
                            \/ rows'[d].model = None /\ rows'[d].under = None
<1>1. rows \in [Conv -> Row]
  BY DEF TypeOK
<1>2. \A r \in Row : /\ [r EXCEPT !.mode = None] \in Row
                     /\ [r EXCEPT !.mode = None].model = r.model
                     /\ [r EXCEPT !.mode = None].under = r.under
                     /\ [r EXCEPT !.model = None, !.under = None] \in Row
                     /\ [r EXCEPT !.model = None, !.under = None].model = None
                     /\ [r EXCEPT !.model = None, !.under = None].under = None
  BY DEF Row
<1>3. QED  BY <1>1, <1>2 DEF shedWorkspaceChoice
-----------------------------------------------------------------------------
(* What a route carries. *)

\* What it reads first is an agent of that machine and the row as it is.
LEMMA AskedJob ==
  ASSUME TypeOK, NEW c \in Conv, NEW e \in DOMAIN machines, machines[e].agents # <<>>
  PROVE  /\ Asked(c, e) \in Job
         /\ Asked(c, e).row = rows[c]
         /\ Asked(c, e).model = None /\ Asked(c, e).resume = None
<1> DEFINE m == machines[e]
<1> DEFINE agent == IF preferred \in Range(m.agents) THEN preferred ELSE Head(m.agents)
<1> DEFINE root == IF rows[c].root \in Range(m.roots) THEN rows[c].root
                   ELSE IF m.roots # <<>> THEN Head(m.roots) ELSE None
<1> DEFINE floor == IF chosen[agent] \in rosters[agent] THEN chosen[agent] ELSE None
<1>1. e \in Nat /\ m \in Machine
  <2>1. machines \in Seq(Machine)
    BY ChoicesAssumption DEF TypeOK, ChoicesAssumption
  <2>2. e \in 1..Len(machines) /\ Len(machines) \in Nat
    BY <2>1
  <2>3. QED  BY <2>1, <2>2, ElementOfSeq
<1>2. m.agents \in Seq(Agent) /\ m.roots \in Seq(Root)
  BY <1>1 DEF Machine
<1>3. agent \in Agent
  <2>1. Range(m.agents) \subseteq Agent
    BY <1>2, ElementOfSeq DEF Range
  <2>2. Head(m.agents) \in Agent
    BY <1>2
  <2>3. QED  BY <2>1, <2>2
<1>4. root \in Root \cup {None}
  <2>1. Range(m.roots) \subseteq Root
    BY <1>2, ElementOfSeq DEF Range
  <2>2. m.roots # <<>> => Head(m.roots) \in Root
    BY <1>2
  <2>3. QED  BY <2>1, <2>2
<1> HIDE DEF agent, root
<1>5. floor \in Model \cup {None} /\ rows[c] \in Row
  BY <1>3 DEF TypeOK
<1> HIDE DEF floor
<1>6. Asked(c, e) = [at |-> "inherit", key |-> [endpoint |-> e, agent |-> agent, root |-> root],
                     row |-> rows[c], modes |-> agent \in m.modes, mode |-> None,
                     model |-> None, floor |-> floor, resume |-> None]
  BY DEF Asked, agent, root, floor
<1>7. [endpoint |-> e, agent |-> agent, root |-> root] \in Key
  BY <1>1, <1>3, <1>4 DEF Key
<1> DEFINE takes == agent \in m.modes
<1>8. takes \in BOOLEAN
  OBVIOUS
<1> HIDE DEF takes
<1>9. Asked(c, e) = [at |-> "inherit", key |-> [endpoint |-> e, agent |-> agent, root |-> root],
                     row |-> rows[c], modes |-> takes, mode |-> None,
                     model |-> None, floor |-> floor, resume |-> None]
  BY <1>6, Zenon DEF takes
<1>10. QED  BY <1>5, <1>7, <1>8, <1>9 DEF Job, Phases

LEMMA JobFields ==
  ASSUME NEW job \in Job
  PROVE  /\ job.key \in Key /\ job.key.agent \in Agent /\ job.key.root \in Root \cup {None}
         /\ job.row \in Row /\ job.mode \in Mode \cup {None} /\ job.model \in Model \cup {None}
         /\ job.floor \in Model \cup {None} /\ job.resume \in Session \cup {None}
  BY DEF Job, Key

\* What is inherited is a choice of its kind, and a model that the member picked.
LEMMA InheritedSound ==
  ASSUME TypeOK, RowsSound, NEW job \in Job, Sound(job.row)
  PROVE  /\ Inherited(job, "mode") \in Mode \cup {None}
         /\ Inherited(job, "model") \in Model \cup {None}
         /\ Inherited(job, "model") # None => PickedFrom(Inherited(job, "model"), job.key.agent)
<1>1. job.row \in Row /\ job.key.agent \in Agent
  BY JobFields
<1>2. /\ usable(job, "mode") \in Mode \cup {None}
      /\ usable(job, "model") \in Model \cup {None}
      /\ usable(job, "model") # None => PickedFrom(usable(job, "model"), job.key.agent)
  BY <1>1 DEF usable, Row, Sound
<1> DEFINE mode == lastChoiceFor(job.key.root, "mode", job.key.agent)
<1> DEFINE model == lastChoiceFor(job.key.root, "model", job.key.agent)
<1>3. mode \in Mode \cup {None}
  <2>1. CASE mode # None
    <3>1. PICK d \in Conv : mode = rows[d]["mode"]
      BY <2>1, LastChoice
    <3>2. QED  BY <3>1 DEF TypeOK, Row
  <2>2. QED  BY <2>1
<1>4. model \in Model \cup {None} /\ (model # None => PickedFrom(model, job.key.agent))
  <2>1. CASE model # None
    <3>1. PICK d \in Conv : Holds(d, job.key.root, "model", job.key.agent)
                            /\ model = rows[d]["model"]
      BY <2>1, LastChoice
    <3>2. rows[d] \in Row
      BY DEF TypeOK
    <3>3. rows[d].under = job.key.agent /\ model = rows[d].model
      BY <3>1 DEF Holds
    <3>4. QED  BY <2>1, <3>2, <3>3 DEF RowsSound, Sound, Row
  <2>2. QED  BY <2>1
<1> HIDE DEF mode, model
<1>5. /\ Inherited(job, "mode") \in {usable(job, "mode"), mode, None}
      /\ Inherited(job, "model") \in {usable(job, "model"), model, None}
  BY DEF Inherited, First, mode, model
<1>6. QED  BY <1>2, <1>3, <1>4, <1>5
-----------------------------------------------------------------------------
(* The steps.  Most change one part of the state: what the others say stays. *)

\* Nothing is said of the defaults, the machines and what is told the member.
LEMMA Elsewhere ==
  ASSUME IInv, TypeOK', UNCHANGED <<rows, resumes, jobs, begun, picks>>
  PROVE  IInv'
  BY DEF IInv, RowsSound, Sound, PickedFrom, JobsSound, ResumesSound, TurnsSound, BegunAt

\* A route or a turn that ends carries nothing, whatever it did to the rows.
LEMMA Ends ==
  ASSUME IInv, TypeOK', RowsSound', NEW c \in Conv, jobs' = [jobs EXCEPT ![c] = None],
         UNCHANGED <<resumes, begun, picks>>
  PROVE  IInv'
<1>1. \A d \in Conv : jobs'[d] # None => d # c /\ jobs'[d] = jobs[d]
  BY DEF IInv, TypeOK
<1>2. JobsSound'
  BY <1>1 DEF IInv, JobsSound, Sound, PickedFrom
<1>3. TurnsSound' /\ ResumesSound'
  BY <1>1 DEF IInv, TurnsSound, ResumesSound, BegunAt
<1>4. QED  BY <1>2, <1>3 DEF IInv

\* A route that goes on carries what is sound.
LEMMA GoesOn ==
  ASSUME IInv, TypeOK', RowsSound', NEW c \in Conv, NEW job \in Job,
         jobs' = [jobs EXCEPT ![c] = job],
         Sound(job.row), job.model # None => PickedFrom(job.model, job.key.agent),
         job.resume # None => BegunAt(job.resume, c, job.key),
         UNCHANGED <<resumes, begun, picks>>
  PROVE  IInv'
<1>1. \A d \in Conv : jobs'[d] = IF d = c THEN job ELSE jobs[d]
  BY DEF IInv, TypeOK
<1>2. JobsSound'
  BY <1>1 DEF IInv, JobsSound, Sound, PickedFrom
<1>3. TurnsSound' /\ ResumesSound'
  BY <1>1 DEF IInv, TurnsSound, ResumesSound, BegunAt
<1>4. QED  BY <1>2, <1>3 DEF IInv

LEMMA RowsKept ==
  ASSUME RowsSound, UNCHANGED <<rows, picks>>
  PROVE  RowsSound'
  BY DEF RowsSound, Sound, PickedFrom

LEMMA AsksStep ==
  ASSUME IInv, NEW c \in Conv, Asks(c)
  PROVE  IInv'
<1>1. TypeOK /\ RowsSound /\ RowsSound'
  BY RowsKept DEF IInv, Asks
<1>2. recent' \in Seq(Conv) /\ torn' \in BOOLEAN
  BY <1>1, TouchedType DEF Asks, Between, TypeOK, Routing
<1>3. CASE UNCHANGED jobs
  <2>1. TypeOK'
    BY <1>1, <1>2, <1>3 DEF TypeOK, Asks, defaults
  <2>2. QED  BY <1>3, <2>1, Elsewhere DEF Asks
<1>4. ASSUME NEW e \in selectEndpoint(machines), machines[e].agents # <<>>,
             jobs' = [jobs EXCEPT ![c] = Asked(c, e)]
      PROVE  IInv'
  <2>1. e \in DOMAIN machines
    BY DEF selectEndpoint
  <2>2. Asked(c, e) \in Job /\ Asked(c, e).row = rows[c]
        /\ Asked(c, e).model = None /\ Asked(c, e).resume = None
    BY <1>1, <1>4, <2>1, AskedJob
  <2>3. TypeOK'
    <3>1. jobs' \in [Conv -> Job \cup {None}]
      BY <1>1, <1>4, <2>2 DEF TypeOK
    <3>2. QED  BY <1>1, <1>2, <3>1 DEF TypeOK, Asks, defaults
  <2>4. Sound(Asked(c, e).row)
    BY <1>1, <2>2 DEF RowsSound
  <2>5. QED  BY <1>1, <1>4, <2>2, <2>3, <2>4, GoesOn DEF Asks
<1>5. QED  BY <1>3, <1>4 DEF Asks

\* The statements of a route between its first read and its answer.
LEMMA RouteStep ==
  ASSUME IInv, NEW c \in Conv, Inherit(c) \/ Rebind(c) \/ Answer(c) \/ RouteFails(c)
  PROVE  IInv'
<1>1. TypeOK /\ RowsSound /\ JobsSound /\ TurnsSound /\ ResumesSound
  BY DEF IInv
<1>2. jobs[c] # None /\ jobs[c] \in Job
  BY <1>1 DEF TypeOK, Inherit, Rebind, Answer, RouteFails, At
<1> DEFINE job == jobs[c]
<1>3. /\ Sound(job.row) /\ (job.model # None => PickedFrom(job.model, job.key.agent))
      /\ (job.resume # None => BegunAt(job.resume, c, job.key))
  BY <1>1, <1>2 DEF JobsSound, TurnsSound
<1>4. CASE Inherit(c)
  <2> DEFINE mode == Inherited(job, "mode")
  <2> DEFINE model == Inherited(job, "model")
  <2> DEFINE next == [job EXCEPT !.at = "rebind", !.mode = mode, !.model = model]
  <2>1. mode \in Mode \cup {None} /\ model \in Model \cup {None}
        /\ (model # None => PickedFrom(model, job.key.agent))
    BY <1>1, <1>2, <1>3, InheritedSound
  <2>2. jobs' = [jobs EXCEPT ![c] = next]
    BY <1>4 DEF Inherit
  <2> HIDE DEF mode, model
  <2>3. next \in Job /\ next.row = job.row /\ next.key = job.key /\ next.model = model
        /\ next.resume = job.resume
    BY <1>2, <2>1 DEF Job, Phases
  <2> HIDE DEF next
  <2>4. TypeOK'
    <3>1. jobs' \in [Conv -> Job \cup {None}]
      BY <1>1, <2>2, <2>3 DEF TypeOK
    <3>2. QED  BY <1>1, <1>4, <3>1 DEF TypeOK, Inherit, tables, defaults, history
  <2>5. UNCHANGED <<rows, resumes, begun, picks>>
    BY <1>4 DEF Inherit, tables, history
  <2>6. QED  BY <1>1, <1>3, <2>1, <2>2, <2>3, <2>4, <2>5, RowsKept, GoesOn
<1>5. CASE Rebind(c)
  <2> DEFINE next == [job EXCEPT !.at = "store mode"]
  <2>1. jobs' = [jobs EXCEPT ![c] = next]
    BY <1>5 DEF Rebind
  <2>2. next \in Job /\ next.row = job.row /\ next.key = job.key /\ next.model = job.model
        /\ next.resume = job.resume
    BY <1>2 DEF Job, Phases
  <2> HIDE DEF next
  <2>3. job.key.root \in Root \cup {None}
    BY <1>2, JobFields
  <2>4. /\ rows' \in [Conv -> Row]
        /\ \A d \in Conv : rows'[d].model = rows[d].model /\ rows'[d].under = rows[d].under
    <3>1. rows \in [Conv -> Row]
      BY <1>1 DEF TypeOK
    <3>2. \/ rows' = rows
          \/ rows' = [rows EXCEPT ![c] = [rows[c] EXCEPT !.root = job.key.root]]
      BY <1>5, <3>1 DEF Rebind
    <3>3. /\ [rows[c] EXCEPT !.root = job.key.root] \in Row
          /\ [rows[c] EXCEPT !.root = job.key.root].model = rows[c].model
          /\ [rows[c] EXCEPT !.root = job.key.root].under = rows[c].under
      BY <2>3, <3>1 DEF Row
    <3>4. QED  BY <3>1, <3>2, <3>3
  <2>5. UNCHANGED <<recent, resumes, defaults, machines, offers, deeds, history>>
    BY <1>5 DEF Rebind
  <2>6. TypeOK'
    <3>1. jobs' \in [Conv -> Job \cup {None}]
      BY <1>1, <2>1, <2>2 DEF TypeOK
    <3>2. QED  BY <1>1, <2>4, <2>5, <3>1 DEF TypeOK, defaults, history
  <2>7. RowsSound'
    BY <1>1, <2>4, <2>5 DEF RowsSound, Sound, PickedFrom, history
  <2>8. UNCHANGED <<resumes, begun, picks>>
    BY <2>5 DEF history
  <2>9. QED  BY <1>3, <2>1, <2>2, <2>6, <2>7, <2>8, GoesOn
<1>6. CASE Answer(c)
  <2> DEFINE resume == resumeFor(c, job.key)
  <2> DEFINE next == [job EXCEPT !.at = "turn", !.resume = resume]
  <2>1. resume \in Session \cup {None} /\ (resume # None => BegunAt(resume, c, job.key))
    <3>1. resumes[c] # None => resumes[c] \in Resume
      BY <1>1 DEF TypeOK
    <3>2. QED  BY <1>1, <3>1 DEF resumeFor, ResumesSound, Resume
  <2>2. jobs' = [jobs EXCEPT ![c] = next]
    BY <1>6 DEF Answer
  <2> HIDE DEF resume
  <2>3. next \in Job /\ next.row = job.row /\ next.key = job.key /\ next.model = job.model
        /\ next.resume = resume
    BY <1>2, <2>1 DEF Job, Phases
  <2> HIDE DEF next
  <2>4. TypeOK'
    <3>1. jobs' \in [Conv -> Job \cup {None}]
      BY <1>1, <2>2, <2>3 DEF TypeOK
    <3>2. QED  BY <1>1, <1>6, <3>1 DEF TypeOK, Answer, tables, defaults, history
  <2>5. UNCHANGED <<rows, resumes, begun, picks>>
    BY <1>6 DEF Answer, tables, history
  <2>6. QED  BY <1>1, <1>3, <2>1, <2>2, <2>3, <2>4, <2>5, RowsKept, GoesOn
<1>7. CASE RouteFails(c)
  <2>1. jobs' = [jobs EXCEPT ![c] = None] /\ UNCHANGED <<rows, recent, resumes, begun, picks>>
    BY <1>7 DEF RouteFails, tables
  <2>2. TypeOK'
    <3>1. jobs' \in [Conv -> Job \cup {None}] /\ torn' \in BOOLEAN
      BY <1>1, <1>7 DEF RouteFails, TypeOK
    <3>2. QED  BY <1>1, <1>7, <3>1 DEF TypeOK, RouteFails, tables, defaults
  <2>3. QED  BY <1>1, <2>1, <2>2, RowsKept, Ends
<1>8. QED  BY <1>4, <1>5, <1>6, <1>7

\* A route writes what it serves or clears what it left, and nothing else.
LEMMA StoreStep ==
  ASSUME IInv, NEW c \in Conv, NEW choice \in Choice, NEW phase, NEW next \in Phases,
         Store(c, choice, phase, next)
  PROVE  IInv'
<1>1. TypeOK /\ RowsSound /\ JobsSound /\ TurnsSound
  BY DEF IInv
<1>2. jobs[c] # None /\ jobs[c] \in Job
  BY <1>1 DEF TypeOK, Store, At
<1> DEFINE job == jobs[c]
<1> DEFINE after == [job EXCEPT !.at = next]
<1> DEFINE value == First(job[choice], IF Kept(job) THEN job.row[choice] ELSE None)
<1>3. /\ Sound(job.row) /\ (job.model # None => PickedFrom(job.model, job.key.agent))
      /\ (job.resume # None => BegunAt(job.resume, c, job.key))
  BY <1>1, <1>2 DEF JobsSound, TurnsSound
<1>4. jobs' = [jobs EXCEPT ![c] = after]
  BY DEF Store
<1>5. after \in Job /\ after.row = job.row /\ after.key = job.key /\ after.model = job.model
      /\ after.resume = job.resume
  BY <1>2 DEF Job
<1> HIDE DEF after
<1>6. /\ rows' \in [Conv -> Row] /\ recent' \in Seq(Conv)
      /\ \A d \in Conv : \/ rows'[d].model = rows[d].model /\ rows'[d].under = rows[d].under
                         \/ rows'[d].model = None /\ rows'[d].under = None
                         \/ /\ rows'[d].model # None /\ rows'[d].under \in Agent
                            /\ PickedFrom(rows'[d].model, rows'[d].under)
  <2>1. CASE ~Writes(job, choice)
    BY <1>1, <2>1 DEF Store, TypeOK
  <2>2. CASE Writes(job, choice)
    <3>1. value = job[choice] \/ value = None
      BY <2>2 DEF Writes, First
    <3>2. job[choice] \in (IF choice = "mode" THEN Mode ELSE Model) \cup {None}
      BY <1>2 DEF Choice, Job
    <3>3. bindConversationChoice(c, choice, value, job.key.agent)
      BY <2>2 DEF Store
    <3>4. job.key.agent \in Agent
      BY <1>2, JobFields
    <3>5. choice = "model" => job[choice] = job.model
      OBVIOUS
    <3> HIDE DEF value
    <3>6. value \in (IF choice = "mode" THEN Mode ELSE Model) \cup {None}
      BY <3>1, <3>2
    <3>7. /\ rows' \in [Conv -> Row] /\ recent' \in Seq(Conv)
          /\ \A d \in Conv : d # c \/ choice = "mode" =>
                rows'[d].model = rows[d].model /\ rows'[d].under = rows[d].under
          /\ choice = "model" =>
                /\ rows'[c].model = value
                /\ rows'[c].under = IF value = None THEN None ELSE job.key.agent
      BY <1>1, <3>3, <3>4, <3>6, Bound
    <3>8. QED  BY <1>3, <3>1, <3>4, <3>5, <3>7 DEF Choice
  <2>3. QED  BY <2>1, <2>2
<1>7. UNCHANGED <<resumes, defaults, machines, offers, deeds, history>>
  BY DEF Store
<1>8. TypeOK'
  <2>1. jobs' \in [Conv -> Job \cup {None}]
    BY <1>1, <1>4, <1>5 DEF TypeOK
  <2>2. QED  BY <1>1, <1>6, <1>7, <2>1 DEF TypeOK, defaults, history
<1>9. RowsSound'
  BY <1>1, <1>6, <1>7, NoneIsNothing DEF RowsSound, Sound, PickedFrom, history
<1>10. UNCHANGED <<resumes, begun, picks>>
  BY <1>7 DEF history
<1>11. QED  BY <1>3, <1>4, <1>5, <1>8, <1>9, <1>10, GoesOn

\* A session that a turn begins has a number of its own; one that it picked up
\* is where its key says.
LEMMA TurnDoneStep ==
  ASSUME IInv, NEW c \in Conv, TurnDone(c)
  PROVE  IInv'
<1>1. TypeOK /\ RowsSound /\ JobsSound /\ TurnsSound /\ ResumesSound
  BY DEF IInv
<1>2. jobs[c] # None /\ jobs[c] \in Job
  BY <1>1 DEF TypeOK, TurnDone, At
<1> DEFINE job == jobs[c]
<1>3. job.key \in Key /\ job.key.agent \in Agent
  BY <1>2, JobFields
<1>4. jobs' = [jobs EXCEPT ![c] = None] /\ UNCHANGED <<rows, picks>>
  BY DEF TurnDone
<1>5. PICK s \in Session :
         /\ \/ s = job.resume /\ UNCHANGED begun
            \/ s = Len(begun) + 1 /\ begun' = Append(begun, [conv |-> c, key |-> job.key])
         /\ resumes' = [resumes EXCEPT ![c] = [key |-> job.key, session |-> s]]
  BY DEF TurnDone
<1> DEFINE begins == [conv |-> c, key |-> job.key]
<1>6. begins \in Began /\ begun \in Seq(Began) /\ Len(begun) \in Nat
  BY <1>1, <1>3 DEF Began, TypeOK
<1>7. /\ begun' \in Seq(Began)
      /\ \A t, d, key : BegunAt(t, d, key) => BegunAt(t, d, key)'
  BY <1>5, <1>6 DEF BegunAt
<1>8. s \in 1..Len(begun') /\ begun'[s] = begins
  <2>1. CASE s = job.resume /\ UNCHANGED begun
    <3>1. job.resume # None
      BY <2>1, NoneIsNothing
    <3>2. QED  BY <1>1, <1>2, <2>1, <3>1 DEF TurnsSound, BegunAt
  <2>2. CASE s = Len(begun) + 1 /\ begun' = Append(begun, begins)
    BY <1>6, <2>2
  <2>3. QED  BY <1>5, <2>1, <2>2
<1>9. TypeOK'
  <2>1. jobs' \in [Conv -> Job \cup {None}]
    BY <1>1, <1>4 DEF TypeOK
  <2>2. resumes' \in [Conv -> Resume \cup {None}]
    BY <1>1, <1>3, <1>5 DEF TypeOK, Resume
  <2>3. rosters' \in [Agent -> SUBSET Model]
    BY <1>1, <1>3 DEF TypeOK, TurnDone
  <2>4. cleared' \subseteq Pick
    BY <1>1 DEF TypeOK, TurnDone
  <2>5. QED  BY <1>1, <1>4, <1>7, <2>1, <2>2, <2>3, <2>4 DEF TypeOK, TurnDone
<1>10. \A d \in Conv : jobs'[d] # None => d # c /\ jobs'[d] = jobs[d]
  BY <1>1, <1>4 DEF TypeOK
<1>11. JobsSound' /\ RowsSound'
  BY <1>1, <1>4, <1>10 DEF JobsSound, RowsSound, Sound, PickedFrom
<1>12. ResumesSound'
  <2>1. \A d \in Conv : \/ d # c /\ resumes'[d] = resumes[d]
                        \/ d = c /\ resumes'[d] = [key |-> job.key, session |-> s]
    BY <1>1, <1>5 DEF TypeOK
  <2>2. ASSUME NEW d \in Conv, d # c, resumes[d] # None
        PROVE  BegunAt(resumes[d].session, d, resumes[d].key)'
               \/ resumes'[d] # resumes[d]
    BY <1>1, <1>7, <2>2 DEF ResumesSound, BegunAt
  <2>3. QED  BY <1>8, <2>1, <2>2 DEF ResumesSound, BegunAt
<1>13. TurnsSound'
  BY <1>1, <1>7, <1>10 DEF TurnsSound, BegunAt
<1>14. QED  BY <1>9, <1>11, <1>12, <1>13 DEF IInv

LEMMA TurnEndsStep ==
  ASSUME IInv, NEW c \in Conv, TurnRefused(c) \/ TurnFails(c)
  PROVE  IInv'
<1>1. TypeOK /\ RowsSound
  BY DEF IInv
<1>2. CASE TurnRefused(c)
  <2> DEFINE job == jobs[c]
  <2> DEFINE choice == IF RefusesModel(job) THEN "model" ELSE "mode"
  <2> DEFINE value == IF choice = "mode" THEN job.mode ELSE modelOf(job)
  <2> DEFINE told == [choice |-> choice, value |-> value, agent |-> job.key.agent,
                      root |-> job.key.root]
  <2>1. job \in Job
    BY <1>1, <1>2 DEF TypeOK, TurnRefused, At
  <2>2. /\ ~Takes(job, value) /\ shedWorkspaceChoice(c, choice)
        /\ cleared' = cleared \cup {told}
        /\ jobs' = [jobs EXCEPT ![c] = None] /\ torn' \in BOOLEAN
    BY <1>1, <1>2 DEF TurnRefused, Between, Routing, TypeOK
  <2>3. UNCHANGED <<recent, resumes, defaults, machines, offers, deeds, begun, picks>>
    BY <1>2 DEF TurnRefused
  <2>4. choice \in Choice /\ value \in Mode \cup Model
    BY <2>1, <2>2, JobFields DEF Takes, modelOf, First, Choice
  <2> HIDE DEF choice, value
  <2>5. told \in Pick
    BY <2>1, <2>4, JobFields DEF Pick
  <2>6. /\ rows' \in [Conv -> Row]
        /\ \A d \in Conv : \/ rows'[d].model = rows[d].model /\ rows'[d].under = rows[d].under
                           \/ rows'[d].model = None /\ rows'[d].under = None
    BY <1>1, <2>2, Shed
  <2>7. TypeOK'
    <3>1. jobs' \in [Conv -> Job \cup {None}]
      BY <1>1, <2>2 DEF TypeOK
    <3>2. QED  BY <1>1, <2>2, <2>3, <2>5, <2>6, <3>1 DEF TypeOK, defaults
  <2>8. RowsSound'
    BY <1>1, <2>3, <2>6 DEF RowsSound, Sound, PickedFrom
  <2>9. QED  BY <2>2, <2>3, <2>7, <2>8, Ends
<1>3. CASE TurnFails(c)
  <2>1. jobs' = [jobs EXCEPT ![c] = None] /\ UNCHANGED <<rows, resumes, begun, picks>>
    BY <1>3 DEF TurnFails, tables, history
  <2>2. TypeOK'
    <3>1. jobs' \in [Conv -> Job \cup {None}]
      BY <1>1, <2>1 DEF TypeOK
    <3>2. QED  BY <1>1, <1>3, <3>1 DEF TypeOK, TurnFails, tables, defaults, history
  <2>3. QED  BY <1>1, <2>1, <2>2, RowsKept, Ends
<1>4. QED  BY <1>2, <1>3

\* A pick is remembered with what it is written with.
LEMMA PicksStep ==
  ASSUME IInv, NEW c \in Conv, NEW choice \in Choice, NEW agent \in Agent,
         NEW value \in IF choice = "mode" THEN Mode ELSE Model, Picks(c, choice, value, agent)
  PROVE  IInv'
<1>1. TypeOK /\ RowsSound /\ JobsSound /\ TurnsSound /\ ResumesSound
  BY DEF IInv
<1> DEFINE pick == [choice |-> choice, value |-> value, root |-> rows[c].root,
                    agent |-> IF choice = "model" THEN agent ELSE None]
<1>2. /\ bindConversationChoice(c, choice, value, agent)
      /\ picks' = picks \cup {pick} /\ torn' \in BOOLEAN /\ deeds' \in 0..MaxDeeds
      /\ UNCHANGED <<resumes, defaults, machines, offers, jobs, begun>>
  BY <1>1, ChoicesAssumption
  DEF Picks, Deed, Between, Routing, TypeOK, ChoicesAssumption
<1>3. pick \in Pick
  BY <1>1 DEF Pick, TypeOK, Row, Choice
<1>4. value \in (IF choice = "mode" THEN Mode ELSE Model) \cup {None} /\ value # None
  BY NoneIsNothing
<1>5. /\ rows' \in [Conv -> Row] /\ recent' \in Seq(Conv)
      /\ \A d \in Conv : d # c \/ choice = "mode" =>
            rows'[d].model = rows[d].model /\ rows'[d].under = rows[d].under
      /\ choice = "model" => rows'[c].model = value /\ rows'[c].under = agent
  BY <1>1, <1>2, <1>4, Bound
<1>6. cleared' \subseteq cleared
  BY DEF Picks
<1>7. TypeOK'
  BY <1>1, <1>2, <1>3, <1>5, <1>6 DEF TypeOK, defaults
<1>8. /\ picks \subseteq picks'
      /\ choice = "model" => \E p \in picks' : /\ p.choice = "model" /\ p.value = value
                                              /\ p.agent = agent
  <2>1. pick \in picks' /\ pick.choice = choice /\ pick.value = value
    BY <1>2
  <2>2. choice = "model" => pick.agent = agent
    OBVIOUS
  <2>3. QED  BY <1>2, <2>1, <2>2
<1> HIDE DEF pick
<1>9. RowsSound'
  BY <1>1, <1>4, <1>5, <1>8, NoneIsNothing DEF RowsSound, Sound, PickedFrom, Choice
<1>10. JobsSound'
  BY <1>1, <1>2, <1>8 DEF JobsSound, Sound, PickedFrom
<1>11. TurnsSound' /\ ResumesSound'
  BY <1>1, <1>2 DEF TurnsSound, ResumesSound, BegunAt
<1>12. QED  BY <1>7, <1>9, <1>10, <1>11 DEF IInv

LEMMA DeedsStep ==
  ASSUME IInv, Deeds
  PROVE  IInv'
<1>1. TypeOK
  BY DEF IInv
<1>2. ASSUME NEW c \in Conv, NEW agent \in Agent, NEW mode \in Mode,
             Picks(c, "mode", mode, agent)
      PROVE  IInv'
  BY <1>2, PicksStep DEF Choice
<1>3. ASSUME NEW c \in Conv, NEW agent \in Agent, NEW model \in offers[agent] \cap Model,
             Picks(c, "model", model, agent)
      PROVE  IInv'
  BY <1>3, PicksStep DEF Choice
<1>4. ASSUME Deed PROVE deeds' \in 0..MaxDeeds
  BY <1>1, <1>4, ChoicesAssumption DEF Deed, TypeOK, ChoicesAssumption
<1>5. ASSUME NEW agent \in Agent \cup {None}, setDefaultAgent(agent)
      PROVE  IInv'
  <2>1. TypeOK'
    BY <1>1, <1>4, <1>5 DEF setDefaultAgent, TypeOK, tables, history
  <2>2. QED  BY <1>5, <2>1, Elsewhere DEF setDefaultAgent, tables, history
<1>6. ASSUME NEW agent \in Agent, NEW model \in rosters[agent] \cup {None},
             setDefaultModel(agent, model)
      PROVE  IInv'
  <2>1. model \in Model \cup {None}
    BY <1>1 DEF TypeOK
  <2>2. chosen' \in [Agent -> Model \cup {None}] /\ cleared' \subseteq cleared
    BY <1>1, <1>6, <2>1 DEF setDefaultModel, TypeOK
  <2>3. TypeOK'
    BY <1>1, <1>4, <1>6, <2>2 DEF setDefaultModel, TypeOK, tables
  <2>4. QED  BY <1>6, <2>3, Elsewhere DEF setDefaultModel, tables
<1>7. ASSUME NEW now \in Situation, MachinesChange(now)
      PROVE  IInv'
  <2>1. TypeOK'
    BY <1>1, <1>4, <1>7 DEF MachinesChange, TypeOK, tables, defaults, history
  <2>2. QED  BY <1>7, <2>1, Elsewhere DEF MachinesChange, tables, history
<1>8. ASSUME NEW agent \in Agent, NEW value \in offers[agent], AgentDrops(agent, value)
      PROVE  IInv'
  <2>1. offers' \in [Agent -> SUBSET (Mode \cup Model)]
    BY <1>1, <1>8 DEF AgentDrops, TypeOK
  <2>2. TypeOK'
    BY <1>1, <1>4, <1>8, <2>1 DEF AgentDrops, TypeOK, tables, defaults, history
  <2>3. QED  BY <1>8, <2>2, Elsewhere DEF AgentDrops, tables, history
<1>9. QED  BY <1>2, <1>3, <1>5, <1>6, <1>7, <1>8 DEF Deeds

\* Every step keeps the invariant.
LEMMA Inductive == IInv /\ [Next]_vars => IInv'
<1> SUFFICES ASSUME IInv, [Next]_vars PROVE IInv'
  OBVIOUS
<1>1. ASSUME Deeds PROVE IInv'
  BY <1>1, DeedsStep
<1>2. ASSUME NEW c \in Conv, Route(c) PROVE IInv'
  <2>1. CASE Asks(c)
    BY <2>1, AsksStep
  <2>2. CASE Inherit(c) \/ Rebind(c) \/ Answer(c) \/ RouteFails(c)
    BY <2>2, RouteStep
  <2>3. CASE StoreMode(c)
    BY <2>3, StoreStep DEF StoreMode, Choice, Phases
  <2>4. CASE StoreModel(c)
    BY <2>4, StoreStep DEF StoreModel, Choice, Phases
  <2>5. QED  BY <1>2, <2>1, <2>2, <2>3, <2>4 DEF Route
<1>3. ASSUME NEW c \in Conv, Turn(c) PROVE IInv'
  BY <1>3, TurnDoneStep, TurnEndsStep DEF Turn
<1>4. CASE UNCHANGED vars
  <2>1. TypeOK'
    BY <1>4 DEF IInv, TypeOK, vars, tables, defaults, history
  <2>2. QED  BY <1>4, <2>1, Elsewhere DEF vars, tables, history
<1>5. QED  BY <1>1, <1>2, <1>3, <1>4 DEF Next

-----------------------------------------------------------------------------
(* Where a choice was picked.  Nothing of this survives a route that is     *)
(* interrupted or overlapped, so all of it is said of states that are not   *)
(* torn; and a thread on its way into another project is between two rows.  *)

\* The member picked it for this project, and it was not refused there since.
ModePicked(mode, root) ==
    /\ [choice |-> "mode", value |-> mode, agent |-> None, root |-> root] \in picks
    /\ \A agent \in Agent :
          [choice |-> "mode", value |-> mode, agent |-> agent, root |-> root] \notin cleared
ModelPicked(model, agent, root) ==
    LET pick == [choice |-> "model", value |-> model, agent |-> agent, root |-> root]
    IN pick \in picks /\ pick \notin cleared

Stays(row) ==
    row.root # None => /\ row.mode # None => ModePicked(row.mode, row.root)
                       /\ row.model # None => ModelPicked(row.model, row.under, row.root)
Serves(job) ==
    job.key.root # None => /\ job.mode # None => ModePicked(job.mode, job.key.root)
                           /\ job.model # None => ModelPicked(job.model, job.key.agent, job.key.root)

\* The route has moved its thread and not yet stored what goes with the move.
Moves(job) == /\ job.at \in {"store mode", "store model"}
              /\ job.key.root # None /\ ~Kept(job)

\* What a route of a thread finds in the row: what it read, but for what it wrote.
AsRead(row, job) ==
    /\ job.at \in {"inherit", "rebind"} => row = job.row
    /\ job.at \notin {"inherit", "rebind"} /\ job.key.root # None => row.root = job.key.root
    /\ job.at = "store mode" => row.mode = job.row.mode
    /\ job.at \in {"store mode", "store model"} =>
          row.model = job.row.model /\ row.under = job.row.under
    /\ job.at = "store model" /\ Moves(job) => row.mode = job.mode

Routes(job) == job # None /\ job.at # "turn"
OneRoutes == \A c, d \in Conv : Routes(jobs[c]) /\ Routes(jobs[d]) => c = d
RowsStay  == \A c \in Conv : (jobs[c] # None /\ Moves(jobs[c])) \/ Stays(rows[c])
JobsServe == \A c \in Conv : jobs[c] # None /\ jobs[c].at \notin {"inherit", "turn"} => Serves(jobs[c])
JobsRead  == \A c \in Conv : jobs[c] # None => AsRead(rows[c], jobs[c])

\* What a route keeps of a row that stays where it is.
Keeps(job) ==
    job.at # "inherit" /\ Kept(job) =>
        /\ job.row.mode # None => job.mode \in {None, job.row.mode}
        /\ job.row.model # None /\ job.row.under = job.key.agent => job.model = job.row.model
JobsKeep == \A c \in Conv : jobs[c] # None => Keeps(jobs[c])

\* Models are picked off a roster.
Offered == /\ \A agent \in Agent : offers[agent] \cap Model \subseteq Roster[agent]
           /\ \A p \in picks : p.choice = "model" => p.value \in Roster[p.agent]

\* While no route was cut short or overlapped, routes take turns and find what they read,
\* and what the rows hold and the routes serve was picked where it is.
Alone  == OneRoutes /\ JobsRead
Placed == RowsStay /\ JobsServe

RouteInv == IInv /\ JobsKeep /\ (~torn => Alone)
PickInv  == RouteInv /\ Offered /\ (~torn => Placed)

\* No model is on the rosters of two agents.  Where one is, a thread may take it from one
\* agent into a project in which it was picked for the other, for what a route compares
\* before it writes is the value and not whose it is (Writes).
RostersDiffer == \A a, b \in Agent : a # b => Roster[a] \cap Roster[b] = {}

\* The member's picks and what was cleared of them only move one way in a step of a route.
LEMMA Carried ==
  ASSUME picks \subseteq picks', cleared' \subseteq cleared
  PROVE  /\ \A row : Stays(row) => Stays(row)'
         /\ \A job : Serves(job) => Serves(job)'
<1>1. ASSUME NEW mode, NEW root, ModePicked(mode, root) PROVE ModePicked(mode, root)'
  BY <1>1 DEF ModePicked
<1>2. ASSUME NEW model, NEW agent, NEW root, ModelPicked(model, agent, root)
      PROVE  ModelPicked(model, agent, root)'
  BY <1>2 DEF ModelPicked
<1>3. ASSUME NEW row, Stays(row) PROVE Stays(row)'
  BY <1>1, <1>2, <1>3, Zenon DEF Stays
<1>4. ASSUME NEW job, Serves(job) PROVE Serves(job)'
  BY <1>1, <1>2, <1>4, Zenon DEF Serves
<1>5. QED  BY <1>3, <1>4

\* A step of one thread leaves the others to take turns, and to find what they read.
LEMMA AloneStep ==
  ASSUME TypeOK, Alone, NEW c \in Conv, NEW row, NEW job,
         rows' = [rows EXCEPT ![c] = row], jobs' = [jobs EXCEPT ![c] = job],
         Routes(job) => Routes(jobs[c]) \/ \A d \in Conv : ~Routes(jobs[d]),
         job # None => AsRead(row, job)
  PROVE  Alone'
<1>1. \A d \in Conv : /\ d # c => rows'[d] = rows[d] /\ jobs'[d] = jobs[d]
                      /\ d = c => rows'[d] = row /\ jobs'[d] = job
  BY DEF TypeOK
<1>2. OneRoutes'
  <2> SUFFICES ASSUME NEW d \in Conv, NEW e \in Conv, Routes(jobs'[d]), Routes(jobs'[e])
               PROVE  d = e
    BY DEF OneRoutes, Routes
  <2>1. \A f, g \in Conv : Routes(jobs[f]) /\ Routes(jobs[g]) => f = g
    BY DEF Alone, OneRoutes
  <2>2. QED  BY <1>1, <2>1
<1>3. JobsRead'
  <2>1. \A d \in Conv : jobs[d] # None => AsRead(rows[d], jobs[d])
    BY DEF Alone, JobsRead
  <2>2. \A d \in Conv : jobs'[d] # None => AsRead(rows'[d], jobs'[d])
    BY <1>1, <2>1
  <2>3. QED  BY <2>2 DEF JobsRead, AsRead, Moves, Kept
<1>4. QED  BY <1>2, <1>3 DEF Alone

\* A step of one thread leaves every choice where it was picked if it leaves its own there.
LEMMA PlacedStep ==
  ASSUME TypeOK, Placed, NEW c \in Conv, NEW row, NEW job,
         rows' = [rows EXCEPT ![c] = row], jobs' = [jobs EXCEPT ![c] = job],
         picks \subseteq picks', cleared' \subseteq cleared,
         (job # None /\ Moves(job)) \/ Stays(row)',
         job # None /\ job.at \notin {"inherit", "turn"} => Serves(job)'
  PROVE  Placed'
<1>1. \A d \in Conv : /\ d # c => rows'[d] = rows[d] /\ jobs'[d] = jobs[d]
                      /\ d = c => rows'[d] = row /\ jobs'[d] = job
  BY DEF TypeOK
<1>2. RowsStay'
  <2> SUFFICES ASSUME NEW d \in Conv
               PROVE  ((jobs[d] # None /\ Moves(jobs[d])) \/ Stays(rows[d]))'
    BY DEF RowsStay
  <2>1. CASE d = c
    BY <1>1, <2>1 DEF Stays, ModePicked, ModelPicked, Moves, Kept
  <2>2. CASE d # c
    <3>1. (jobs[d] # None /\ Moves(jobs[d])) \/ Stays(rows[d])
      BY DEF Placed, RowsStay
    <3>2. Stays(rows[d]) => Stays(rows[d])'
      <4>1. PICK r : r = rows[d]
        OBVIOUS
      <4>2. Stays(r) => Stays(r)'
        BY Carried
      <4>3. rows'[d] = r
        BY <1>1, <2>2, <4>1
      <4>4. QED  BY <4>1, <4>2, <4>3 DEF Stays, ModePicked, ModelPicked
    <3>3. QED  BY <1>1, <2>2, <3>1, <3>2 DEF Moves, Kept
  <2>3. QED  BY <2>1, <2>2
<1>3. JobsServe'
  <2> SUFFICES ASSUME NEW d \in Conv, jobs'[d] # None, jobs'[d].at \notin {"inherit", "turn"}
               PROVE  Serves(jobs[d])'
    BY DEF JobsServe
  <2>1. PICK j : j = jobs'[d]
    OBVIOUS
  <2>2. CASE d = c
    BY <1>1, <2>1, <2>2 DEF Serves, ModePicked, ModelPicked
  <2>3. CASE d # c
    <3>1. Serves(j)
      BY <1>1, <2>1, <2>3 DEF Placed, JobsServe
    <3>2. Serves(j)'
      BY <3>1, Carried
    <3>3. QED  BY <2>1, <3>2 DEF Serves, ModePicked, ModelPicked
  <2>4. QED  BY <2>2, <2>3
<1>4. QED  BY <1>2, <1>3 DEF Placed

\* Where no thread is on the move, every row holds what was picked for its project.
LEMMA AllStay ==
  ASSUME Placed, NEW c \in Conv, \A d \in Conv \ {c} : ~Routes(jobs[d]),
         jobs[c] = None \/ ~Moves(jobs[c])
  PROVE  \A d \in Conv : Stays(rows[d])
<1> SUFFICES ASSUME NEW d \in Conv PROVE Stays(rows[d])
  OBVIOUS
<1>1. jobs[d] = None \/ ~Moves(jobs[d])
  <2>1. CASE d = c
    BY <2>1
  <2>2. CASE d # c
    BY <2>2 DEF Routes, Moves
  <2>3. QED  BY <2>1, <2>2
<1>2. QED  BY <1>1 DEF Placed, RowsStay

\* What a route serves in a project was picked there, and is its row's own if it stays.
LEMMA InheritedPicked ==
  ASSUME TypeOK, \A d \in Conv : Stays(rows[d]), NEW c \in Conv,
         NEW job \in Job, job.row = rows[c], job.key.root # None
  PROVE  /\ Inherited(job, "mode") # None => ModePicked(Inherited(job, "mode"), job.key.root)
         /\ Inherited(job, "model") # None =>
               ModelPicked(Inherited(job, "model"), job.key.agent, job.key.root)
<1> DEFINE root == job.key.root
<1> DEFINE agent == job.key.agent
<1> DEFINE mode == lastChoiceFor(root, "mode", agent)
<1> DEFINE model == lastChoiceFor(root, "model", agent)
<1>1. mode # None => ModePicked(mode, root)
  <2> HAVE mode # None
  <2>1. PICK d \in Conv : Holds(d, root, "mode", agent) /\ mode = rows[d]["mode"]
    BY LastChoice
  <2>2. rows[d].root = root /\ rows[d].mode = mode
    BY <2>1 DEF Holds
  <2>3. QED  BY <2>2 DEF Stays
<1>2. model # None => ModelPicked(model, agent, root)
  <2> HAVE model # None
  <2>1. PICK d \in Conv : Holds(d, root, "model", agent) /\ model = rows[d]["model"]
    BY LastChoice
  <2>2. rows[d].root = root /\ rows[d].model = model /\ rows[d].under = agent
    BY <2>1 DEF Holds
  <2>3. QED  BY <2>2 DEF Stays
<1>3. Kept(job) /\ usable(job, "mode") # None => ModePicked(usable(job, "mode"), root)
  <2> HAVE Kept(job) /\ usable(job, "mode") # None
  <2>1. rows[c].root = root /\ usable(job, "mode") = rows[c].mode
    BY DEF Kept, usable
  <2>2. QED  BY <2>1 DEF Stays
<1>4. Kept(job) /\ usable(job, "model") # None => ModelPicked(usable(job, "model"), agent, root)
  <2> HAVE Kept(job) /\ usable(job, "model") # None
  <2>1. rows[c].root = root /\ usable(job, "model") = rows[c].model /\ rows[c].under = agent
    BY DEF Kept, usable
  <2>2. QED  BY <2>1 DEF Stays
<1>5. Inherited(job, "mode") # None =>
         \/ Inherited(job, "mode") = mode
         \/ Kept(job) /\ Inherited(job, "mode") = usable(job, "mode")
  BY DEF Inherited, First
<1>6. Inherited(job, "model") # None =>
         \/ Inherited(job, "model") = model
         \/ Kept(job) /\ Inherited(job, "model") = usable(job, "model")
  BY DEF Inherited, First
<1> HIDE DEF mode, model, root, agent
<1>7. QED  BY <1>1, <1>2, <1>3, <1>4, <1>5, <1>6 DEF root, agent

LEMMA KeepStep ==
  ASSUME TypeOK, JobsKeep, NEW c \in Conv, NEW job, jobs' = [jobs EXCEPT ![c] = job],
         job # None => Keeps(job)
  PROVE  JobsKeep'
<1>1. \A d \in Conv : jobs'[d] = IF d = c THEN job ELSE jobs[d]
  BY DEF TypeOK
<1>2. \A d \in Conv : jobs'[d] # None => Keeps(jobs'[d])
  BY <1>1 DEF JobsKeep
<1>3. QED  BY <1>2 DEF JobsKeep, Keeps, Kept

\* The next statement of a route carries what the one before did.
LEMMA Onward ==
  ASSUME NEW job, NEW next, next.row = job.row, next.key = job.key,
         next.mode = job.mode, next.model = job.model
  PROVE  (Kept(next) <=> Kept(job)) /\ (Serves(next) <=> Serves(job))
<1>1. Kept(next) <=> Kept(job)
  BY Zenon DEF Kept
<1>2. Serves(next) <=> Serves(job)
  BY Zenon DEF Serves
<1>3. QED  BY <1>1, <1>2

\* A job is a record: it is not None.
LEMMA JobIsJob ==
  ASSUME TypeOK, NEW c \in Conv, jobs[c] # None
  PROVE  jobs[c] \in Job
  BY DEF TypeOK

LEMMA NoJob == None \notin Job
  BY ChoicesAssumption DEF ChoicesAssumption

\* A row put back as it is.
LEMMA SameRow ==
  ASSUME TypeOK, NEW c \in Conv
  PROVE  rows = [rows EXCEPT ![c] = rows[c]] /\ jobs = [jobs EXCEPT ![c] = jobs[c]]
  BY DEF TypeOK

\* A route begins alone, on the row as it is.
LEMMA AsksOrder ==
  ASSUME TypeOK, JobsKeep, NEW c \in Conv, Asks(c), ~torn => Alone
  PROVE  /\ JobsKeep' /\ (~torn' => ~torn /\ Alone')
         /\ ~torn' /\ Placed => Placed'
<1>1. /\ jobs[c] = None /\ UNCHANGED <<rows, picks, cleared>>
      /\ ~torn' => ~torn /\ \A d \in Conv : ~Routes(jobs[d])
  BY DEF Asks, Between, Routing, Routes, TypeOK
<1>2. PICK job : /\ jobs' = [jobs EXCEPT ![c] = job]
                 /\ job = None \/ (job.at = "inherit" /\ job.row = rows[c])
  <2>1. CASE UNCHANGED jobs
    <3>1. jobs' = [jobs EXCEPT ![c] = None]
      BY <1>1, <2>1, SameRow
    <3>2. QED  BY <3>1
  <2>2. ASSUME NEW e, jobs' = [jobs EXCEPT ![c] = Asked(c, e)]
        PROVE  \E job : /\ jobs' = [jobs EXCEPT ![c] = job]
                        /\ job = None \/ (job.at = "inherit" /\ job.row = rows[c])
    <3>1. Asked(c, e).at = "inherit" /\ Asked(c, e).row = rows[c]
      BY DEF Asked
    <3>2. QED  BY <2>2, <3>1
  <2>3. QED  BY <2>1, <2>2 DEF Asks
<1>3. JobsKeep'
  BY <1>2, KeepStep DEF Keeps
<1>4. rows' = [rows EXCEPT ![c] = rows[c]]
  BY <1>1, SameRow
<1>5. ASSUME ~torn' PROVE ~torn /\ Alone'
  <2>1. job # None => AsRead(rows[c], job)
    BY <1>2 DEF AsRead
  <2>2. QED  BY <1>1, <1>2, <1>4, <1>5, <2>1, AloneStep
<1>6. ASSUME ~torn', Placed PROVE Placed'
  <2>1. Stays(rows[c])
    BY <1>1, <1>6 DEF Placed, RowsStay
  <2>2. PICK row : row = rows[c]
    OBVIOUS
  <2>3. Stays(row)'
    BY <1>1, <2>1, <2>2, Carried
  <2>4. job # None => job.at = "inherit"
    BY <1>2
  <2>5. QED  BY <1>1, <1>2, <1>4, <1>6, <2>2, <2>3, <2>4, PlacedStep
<1>7. QED  BY <1>3, <1>5, <1>6

LEMMA InheritOrder ==
  ASSUME TypeOK, RowsSound, JobsSound, JobsKeep, NEW c \in Conv, Inherit(c), ~torn => Alone
  PROVE  /\ JobsKeep' /\ (~torn' => ~torn /\ Alone')
         /\ ~torn' /\ Placed => Placed'
<1> DEFINE job == jobs[c]
           mode == Inherited(job, "mode")
           model == Inherited(job, "model")
<1>1. /\ job # None /\ job.at = "inherit" /\ UNCHANGED <<rows, picks, cleared, torn>>
      /\ jobs' = [jobs EXCEPT ![c] = [job EXCEPT !.at = "rebind", !.mode = mode, !.model = model]]
  BY DEF Inherit, At, tables, history
<1>2. PICK next : next = [job EXCEPT !.at = "rebind", !.mode = mode, !.model = model]
  OBVIOUS
<1>3. job \in Job
  BY <1>1, JobIsJob
<1>4. /\ next.at = "rebind" /\ next.row = job.row /\ next.key = job.key
      /\ next.mode = mode /\ next.model = model
  BY <1>2, <1>3 DEF Job
<1>5. jobs' = [jobs EXCEPT ![c] = next] /\ rows' = [rows EXCEPT ![c] = rows[c]]
  BY <1>1, <1>2, SameRow
<1>6. Keeps(next)
  <2> SUFFICES ASSUME Kept(job)
               PROVE  /\ job.row.mode # None => mode \in {None, job.row.mode}
                      /\ job.row.model # None /\ job.row.under = job.key.agent =>
                            model = job.row.model
    BY <1>4 DEF Keeps, Kept
  <2>1. job.key.root # None
    BY DEF Kept
  <2>2. ASSUME job.row.mode # None PROVE mode \in {None, job.row.mode}
    BY <2>1, <2>2 DEF Inherited, usable, First
  <2>3. ASSUME job.row.model # None, job.row.under = job.key.agent PROVE model = job.row.model
    BY <2>1, <2>3 DEF Inherited, usable, First
  <2>4. QED  BY <2>2, <2>3
<1>7. JobsKeep'
  BY <1>5, <1>6, KeepStep
<1>8. ASSUME ~torn' PROVE ~torn /\ Alone'
  <2>1. ~torn /\ Alone /\ Routes(job)
    BY <1>1, <1>8 DEF Routes
  <2>2. rows[c] = job.row
    BY <1>1, <2>1 DEF Alone, JobsRead, AsRead
  <2>3. AsRead(rows[c], next)
    BY <1>4, <2>2 DEF AsRead, Moves
  <2> HIDE DEF job, mode, model
  <2>4. Routes(jobs[c])
    BY <2>1 DEF job
  <2>5. QED  BY <1>5, <2>1, <2>3, <2>4, AloneStep
<1>9. ASSUME ~torn', Placed PROVE Placed'
  <2>1. Alone /\ Routes(job)
    BY <1>1, <1>9 DEF Routes
  <2>2. rows[c] = job.row
    BY <1>1, <2>1 DEF Alone, JobsRead, AsRead
  <2>3. \A d \in Conv : Stays(rows[d])
    <3>1. \A d \in Conv \ {c} : ~Routes(jobs[d])
      BY <2>1 DEF Alone, OneRoutes
    <3>2. ~Moves(jobs[c])
      BY <1>1 DEF Moves
    <3>3. QED  BY <1>9, <3>1, <3>2, AllStay
  <2>4. Serves(next)
    <3>1. CASE job.key.root = None
      BY <1>4, <3>1 DEF Serves
    <3>2. CASE job.key.root # None
      <4>1. /\ mode # None => ModePicked(mode, job.key.root)
            /\ model # None => ModelPicked(model, job.key.agent, job.key.root)
        BY <1>3, <2>2, <2>3, <3>2, InheritedPicked
      <4> HIDE DEF mode, model
      <4>2. QED  BY <1>4, <4>1 DEF Serves
    <3>3. QED  BY <3>1, <3>2
  <2>5. PICK row : row = rows[c]
    OBVIOUS
  <2>6. Stays(row)' /\ Serves(next)'
    BY <1>1, <2>3, <2>4, <2>5, Carried
  <2> HIDE DEF job, mode, model
  <2>7. QED  BY <1>1, <1>5, <1>9, <2>5, <2>6, PlacedStep
<1>10. QED  BY <1>7, <1>8, <1>9

\* A thread moves into the project it is to run in, and is on its way until the route
\* has stored what goes with it.
LEMMA RebindOrder ==
  ASSUME TypeOK, JobsKeep, NEW c \in Conv, Rebind(c), ~torn => Alone
  PROVE  /\ JobsKeep' /\ (~torn' => ~torn /\ Alone')
         /\ ~torn' /\ Placed => Placed'
<1> DEFINE job == jobs[c]
<1>1. /\ job # None /\ job.at = "rebind" /\ UNCHANGED <<picks, cleared, torn>>
      /\ jobs' = [jobs EXCEPT ![c] = [job EXCEPT !.at = "store mode"]]
  BY DEF Rebind, At, history
<1>2. PICK next : next = [job EXCEPT !.at = "store mode"]
  OBVIOUS
<1>3. job \in Job /\ rows[c] \in Row
  BY <1>1, JobIsJob DEF TypeOK
<1>4. /\ next.at = "store mode" /\ next.row = job.row /\ next.key = job.key
      /\ next.mode = job.mode /\ next.model = job.model
      /\ (Serves(job) <=> Serves(next)) /\ next # None
  <2>1. /\ next.row = job.row /\ next.key = job.key /\ next.mode = job.mode
        /\ next.model = job.model /\ next \in Job
    BY <1>2, <1>3 DEF Job, Phases
  <2>2. next.at = "store mode"
    BY <1>2, <1>3 DEF Job
  <2>3. QED  BY <2>1, <2>2, Onward, NoJob
<1>5. PICK row : row = IF job.key.root # None /\ ~Kept(job)
                       THEN [rows[c] EXCEPT !.root = job.key.root] ELSE rows[c]
  OBVIOUS
<1>6. jobs' = [jobs EXCEPT ![c] = next] /\ rows' = [rows EXCEPT ![c] = row]
  <2>1. rows' = IF job.key.root # None /\ ~Kept(job)
                THEN [rows EXCEPT ![c].root = job.key.root] ELSE rows
    BY DEF Rebind
  <2>2. QED  BY <1>1, <1>2, <1>5, <2>1, SameRow
<1>7. /\ row.mode = rows[c].mode /\ row.model = rows[c].model /\ row.under = rows[c].under
      /\ job.key.root # None /\ ~Kept(job) => row.root = job.key.root
  BY <1>3, <1>5 DEF Row
<1>8. JobsKeep'
  <2>1. Keeps(next)
    BY <1>1, <1>4 DEF JobsKeep, Keeps, Kept
  <2>2. QED  BY <1>6, <2>1, KeepStep
<1>9. ASSUME ~torn' PROVE ~torn /\ Alone'
  <2>1. ~torn /\ Alone /\ Routes(jobs[c])
    BY <1>1, <1>9 DEF Routes
  <2>2. rows[c] = job.row
    BY <1>1, <2>1 DEF Alone, JobsRead, AsRead
  <2>3. job.key.root # None => row.root = job.key.root
    <3>1. Kept(job) => row.root = job.key.root
      BY <1>5, <2>2 DEF Kept
    <3>2. QED  BY <1>7, <3>1
  <2>4. AsRead(row, next)
    BY <1>4, <1>7, <2>2, <2>3 DEF AsRead, Moves
  <2>5. QED  BY <1>6, <2>1, <2>4, AloneStep
<1>10. ASSUME ~torn', Placed PROVE Placed'
  <2>1. Serves(job)
    BY <1>1, <1>10 DEF Placed, JobsServe
  <2>2. Moves(next) \/ (row = rows[c] /\ Stays(rows[c]))
    <3>1. Stays(rows[c])
      BY <1>1, <1>10 DEF Placed, RowsStay, Moves
    <3>2. job.key.root # None /\ ~Kept(job) => Moves(next)
      BY <1>4 DEF Moves, Kept
    <3>3. QED  BY <1>5, <3>1, <3>2
  <2>3. Serves(next)' /\ (Moves(next) \/ Stays(row)')
    <3>1. Moves(next) \/ Stays(row)
      BY <2>2
    <3>2. QED  BY <1>1, <1>4, <2>1, <3>1, Carried
  <2>4. next # None => (next # None /\ Moves(next)) \/ Stays(row)'
    BY <2>3
  <2>5. (next # None /\ Moves(next)) \/ Stays(row)'
    <3>1. next # None
      BY <1>4
    <3>2. QED  BY <2>4, <3>1
  <2>6. QED  BY <1>1, <1>6, <1>10, <2>3, <2>5, PlacedStep
<1>11. QED  BY <1>8, <1>9, <1>10

\* A mode is stored where the route's own row has another, and none over one that stays.
LEMMA StoreModeOrder ==
  ASSUME TypeOK, JobsKeep, NEW c \in Conv, StoreMode(c), ~torn => Alone
  PROVE  /\ JobsKeep' /\ (~torn' => ~torn /\ Alone')
         /\ ~torn' /\ Placed => Placed'
         /\ ~torn /\ Kept(jobs[c]) => /\ rows[c].mode # None => rows'[c].mode = rows[c].mode
                                      /\ rows'[c].model = rows[c].model
<1> DEFINE job == jobs[c]
           value == First(job.mode, IF Kept(job) THEN job.row.mode ELSE None)
<1>1. /\ job # None /\ job.at = "store mode" /\ UNCHANGED <<picks, cleared, torn>>
      /\ jobs' = [jobs EXCEPT ![c] = [job EXCEPT !.at = "store model"]]
  BY DEF StoreMode, Store, At, history
<1>2. PICK next : next = [job EXCEPT !.at = "store model"]
  OBVIOUS
<1>3. job \in Job /\ rows[c] \in Row
  BY <1>1, JobIsJob DEF TypeOK
<1>4. /\ next.at = "store model" /\ next.row = job.row /\ next.key = job.key
      /\ next.mode = job.mode /\ next.model = job.model
      /\ (Serves(job) <=> Serves(next)) /\ next # None /\ (Kept(next) <=> Kept(job))
  <2>1. /\ next.row = job.row /\ next.key = job.key /\ next.mode = job.mode
        /\ next.model = job.model /\ next \in Job
    BY <1>2, <1>3 DEF Job, Phases
  <2>2. next.at = "store model"
    BY <1>2, <1>3 DEF Job
  <2>3. QED  BY <2>1, <2>2, Onward, NoJob
<1>5. PICK row : row = IF Writes(job, "mode") THEN [rows[c] EXCEPT !.mode = value] ELSE rows[c]
  OBVIOUS
<1>6. rows' = [rows EXCEPT ![c] = row]
  <2>1. CASE Writes(job, "mode")
    <3>1. bindConversationChoice(c, "mode", value, job.key.agent)
      BY <2>1 DEF StoreMode, Store
    <3>2. rows' = [rows EXCEPT ![c] = [rows[c] EXCEPT !.mode = value]]
      BY <3>1 DEF bindConversationChoice, TypeOK
    <3>3. QED  BY <1>5, <2>1, <3>2
  <2>2. CASE ~Writes(job, "mode")
    <3>1. rows' = rows
      BY <2>2 DEF StoreMode, Store
    <3>2. QED  BY <1>5, <2>2, <3>1, SameRow
  <2>3. QED  BY <2>1, <2>2
<1>7. /\ row.root = rows[c].root /\ row.model = rows[c].model /\ row.under = rows[c].under
      /\ row.mode = IF Writes(job, "mode") THEN value ELSE rows[c].mode
  BY <1>3, <1>5 DEF Row
<1>8. Writes(job, "mode") <=> job.key.root # None /\ value # job.row.mode
  BY DEF Writes
<1>9. value = IF job.mode # None THEN job.mode ELSE IF Kept(job) THEN job.row.mode ELSE None
  BY DEF First
<1> HIDE DEF value
<1>10. Kept(job) /\ job.row.mode # None => ~Writes(job, "mode")
  <2>1. Kept(job) /\ job.row.mode # None => job.mode \in {None, job.row.mode}
    BY <1>1 DEF JobsKeep, Keeps
  <2>2. QED  BY <1>8, <1>9, <2>1
<1>11. JobsKeep'
  <2>1. Keeps(next)
    BY <1>1, <1>4 DEF JobsKeep, Keeps
  <2>2. QED  BY <1>1, <1>2, <2>1, KeepStep
<1>12. ASSUME ~torn
       PROVE  /\ Alone /\ Routes(jobs[c]) /\ rows[c].mode = job.row.mode
              /\ rows[c].model = job.row.model /\ rows[c].under = job.row.under
              /\ job.key.root # None => rows[c].root = job.key.root
  BY <1>1, <1>12 DEF Alone, JobsRead, AsRead, Routes
<1>13. ASSUME ~torn' PROVE ~torn /\ Alone'
  <2>1. ~torn
    BY <1>1, <1>13
  <2>2. Moves(next) => row.mode = job.mode
    <3> HAVE Moves(next)
    <3>1. job.key.root # None /\ ~Kept(job)
      BY <1>4 DEF Moves
    <3>2. value = job.mode
      BY <1>9, <3>1
    <3>3. QED  BY <1>7, <1>8, <1>12, <2>1, <3>1, <3>2
  <2>3. AsRead(row, next)
    BY <1>4, <1>7, <1>12, <2>1, <2>2 DEF AsRead
  <2>4. Routes(jobs[c])
    BY <1>12, <2>1
  <2>5. QED  BY <1>1, <1>2, <1>6, <1>12, <2>1, <2>3, <2>4, AloneStep
<1>14. ASSUME ~torn', Placed PROVE Placed'
  <2>1. ~torn /\ Serves(job)
    BY <1>1, <1>14 DEF Placed, JobsServe
  <2>2. Moves(next) \/ Stays(row)
    <3>1. SUFFICES ASSUME ~Moves(next) PROVE Stays(row)
      OBVIOUS
    <3>2. job.key.root = None \/ Kept(job)
      BY <1>4, <3>1 DEF Moves
    <3>3. Stays(rows[c])
      BY <1>14, <3>2 DEF Placed, RowsStay, Moves
    <3>4. CASE ~Writes(job, "mode")
      BY <1>5, <3>3, <3>4
    <3>5. CASE Writes(job, "mode")
      <4>1. job.key.root # None /\ Kept(job) /\ row.mode = job.mode /\ row.mode # None
        BY <1>7, <1>8, <1>9, <3>2, <3>5
      <4>2. row.root = job.key.root
        BY <1>7, <1>12, <2>1, <4>1
      <4>3. ModePicked(row.mode, row.root)
        BY <2>1, <4>1, <4>2 DEF Serves
      <4>4. row.root # None /\ row.model # None => ModelPicked(row.model, row.under, row.root)
        BY <1>7, <3>3 DEF Stays
      <4>5. QED  BY <4>3, <4>4 DEF Stays
    <3>6. QED  BY <3>4, <3>5
  <2>3. Serves(next)' /\ (Moves(next) \/ Stays(row)')
    BY <1>1, <1>4, <2>1, <2>2, Carried
  <2>4. (next # None /\ Moves(next)) \/ Stays(row)'
    BY <1>4, <2>3
  <2>5. jobs' = [jobs EXCEPT ![c] = next]
    BY <1>1, <1>2
  <2>6. QED  BY <1>1, <1>6, <1>14, <2>3, <2>4, <2>5, PlacedStep
<1>15. ASSUME ~torn, Kept(jobs[c])
       PROVE  /\ rows[c].mode # None => rows'[c].mode = rows[c].mode
              /\ rows'[c].model = rows[c].model
  <2>1. rows'[c] = row
    BY <1>6 DEF TypeOK
  <2>2. QED  BY <1>7, <1>10, <1>12, <1>15, <2>1
<1>16. QED  BY <1>11, <1>13, <1>14, <1>15

\* A model is stored with the agent whose it is.  Two agents of one thread never meant the
\* same model, so one that is left as it is, on the way into another project, is the
\* right one's.
LEMMA StoreModelOrder ==
  ASSUME TypeOK, JobsKeep, NEW c \in Conv, StoreModel(c), ~torn => Alone
  PROVE  /\ JobsKeep' /\ (~torn' => ~torn /\ Alone')
         /\ RostersDiffer /\ Offered /\ JobsSound /\ ~torn' /\ Placed => Placed'
         /\ ~torn /\ Kept(jobs[c]) => /\ rows[c].model # None => rows'[c].model = rows[c].model
                                      /\ rows'[c].mode = rows[c].mode
<1> DEFINE job == jobs[c]
           value == First(job.model, IF Kept(job) THEN job.row.model ELSE None)
           under == IF value = None THEN None ELSE job.key.agent
<1>1. /\ job # None /\ job.at = "store model" /\ UNCHANGED <<picks, cleared, torn>>
      /\ jobs' = [jobs EXCEPT ![c] = [job EXCEPT !.at = "answer"]]
  BY DEF StoreModel, Store, At, history
<1>2. PICK next : next = [job EXCEPT !.at = "answer"]
  OBVIOUS
<1>3. job \in Job /\ rows[c] \in Row
  BY <1>1, JobIsJob DEF TypeOK
<1>4. /\ next.at = "answer" /\ next.row = job.row /\ next.key = job.key
      /\ next.mode = job.mode /\ next.model = job.model
      /\ (Serves(job) <=> Serves(next)) /\ next # None /\ (Kept(next) <=> Kept(job))
  <2>1. /\ next.row = job.row /\ next.key = job.key /\ next.mode = job.mode
        /\ next.model = job.model /\ next \in Job
    BY <1>2, <1>3 DEF Job, Phases
  <2>2. next.at = "answer"
    BY <1>2, <1>3 DEF Job
  <2>3. QED  BY <2>1, <2>2, Onward, NoJob
<1>5. PICK row : row = IF Writes(job, "model")
                       THEN [rows[c] EXCEPT !.model = value, !.under = under] ELSE rows[c]
  OBVIOUS
<1>6. rows' = [rows EXCEPT ![c] = row]
  <2>1. CASE Writes(job, "model")
    <3>1. bindConversationChoice(c, "model", value, job.key.agent)
      BY <2>1 DEF StoreModel, Store
    <3>2. rows' = [rows EXCEPT ![c] = [rows[c] EXCEPT !.model = value, !.under = under]]
      BY <3>1 DEF bindConversationChoice, TypeOK
    <3>3. QED  BY <1>5, <2>1, <3>2
  <2>2. CASE ~Writes(job, "model")
    <3>1. rows' = rows
      BY <2>2 DEF StoreModel, Store
    <3>2. QED  BY <1>5, <2>2, <3>1, SameRow
  <2>3. QED  BY <2>1, <2>2
<1>7. /\ row.root = rows[c].root /\ row.mode = rows[c].mode
      /\ row.model = IF Writes(job, "model") THEN value ELSE rows[c].model
      /\ row.under = IF Writes(job, "model") THEN under ELSE rows[c].under
  <2> HIDE DEF value, under
  <2>1. QED  BY <1>3, <1>5 DEF Row
<1>8. Writes(job, "model") <=> /\ job.key.root # None /\ value # job.row.model
                               /\ Kept(job) /\ job.row.model # None => job.row.under = job.key.agent
  BY DEF Writes
<1>9. value = IF job.model # None THEN job.model ELSE IF Kept(job) THEN job.row.model ELSE None
  BY DEF First
<1>10. under = IF value = None THEN None ELSE job.key.agent
  OBVIOUS
<1> HIDE DEF value, under
<1>11. Kept(job) /\ job.row.model # None => ~Writes(job, "model")
  <2>1. Kept(job) /\ job.row.model # None /\ job.row.under = job.key.agent =>
           job.model = job.row.model
    BY <1>1 DEF JobsKeep, Keeps
  <2>2. QED  BY <1>8, <1>9, <2>1
<1>12. JobsKeep'
  <2>1. Keeps(next)
    BY <1>1, <1>4 DEF JobsKeep, Keeps
  <2>2. QED  BY <1>1, <1>2, <2>1, KeepStep
<1>13. ASSUME ~torn
       PROVE  /\ Alone /\ Routes(jobs[c])
              /\ rows[c].model = job.row.model /\ rows[c].under = job.row.under
              /\ job.key.root # None => rows[c].root = job.key.root
              /\ Moves(job) => rows[c].mode = job.mode
  BY <1>1, <1>13 DEF Alone, JobsRead, AsRead, Routes
<1>14. ASSUME ~torn' PROVE ~torn /\ Alone'
  <2>1. ~torn
    BY <1>1, <1>14
  <2>2. AsRead(row, next)
    BY <1>4, <1>7, <1>13, <2>1 DEF AsRead
  <2>3. QED  BY <1>1, <1>2, <1>6, <1>13, <2>1, <2>2, AloneStep
<1>15. ASSUME RostersDiffer, Offered, JobsSound, ~torn', Placed PROVE Placed'
  <2>1. ~torn /\ Serves(job)
    BY <1>1, <1>15 DEF Placed, JobsServe
  <2>2. ASSUME job.key.root # None, job.model # None
        PROVE  ModelPicked(job.model, job.key.agent, job.key.root)
    BY <2>1, <2>2 DEF Serves
  <2>3. CASE ~Moves(job)
    <3>1. Stays(rows[c])
      BY <1>15, <2>3 DEF Placed, RowsStay
    <3>2. Stays(row)
      <4>1. CASE ~Writes(job, "model")
        BY <1>5, <3>1, <4>1
      <4>2. CASE Writes(job, "model")
        <5>1. job.key.root # None /\ Kept(job)
          BY <1>1, <1>8, <2>3, <4>2 DEF Moves
        <5>2. /\ row.model = job.model /\ row.model # None /\ row.under = job.key.agent
          BY <1>7, <1>8, <1>9, <1>10, <4>2, <5>1
        <5>3. row.root = job.key.root
          BY <1>7, <1>13, <2>1, <5>1
        <5>4. row.mode # None => ModePicked(row.mode, row.root)
          BY <1>7, <3>1, <5>1, <5>3 DEF Stays
        <5>5. ModelPicked(row.model, row.under, row.root)
          BY <2>2, <5>1, <5>2, <5>3
        <5>6. QED  BY <5>4, <5>5 DEF Stays
      <4>3. QED  BY <4>1, <4>2
    <3>3. QED
      <4>1. Serves(next)' /\ Stays(row)'
        BY <1>1, <1>4, <2>1, <3>2, Carried
      <4>2. QED  BY <1>1, <1>2, <1>6, <1>15, <4>1, PlacedStep
  <2>4. CASE Moves(job)
    <3>1. job.key.root # None /\ ~Kept(job)
      BY <2>4 DEF Moves
    <3>2. /\ row.root = job.key.root /\ row.mode = job.mode /\ value = job.model
      BY <1>7, <1>9, <1>13, <2>1, <2>4, <3>1
    <3>3. row.mode # None => ModePicked(row.mode, row.root)
      BY <2>1, <3>1, <3>2 DEF Serves
    <3>4. row.model # None => ModelPicked(row.model, row.under, row.root)
      <4> HAVE row.model # None
      <4>1. CASE Writes(job, "model")
        <5>1. row.model = job.model /\ row.under = job.key.agent
          BY <1>7, <1>10, <3>2, <4>1
        <5>2. QED  BY <2>2, <3>1, <3>2, <5>1
      <4>2. CASE ~Writes(job, "model")
        <5>1. row.model = job.model /\ job.model = job.row.model /\ row.under = job.row.under
          BY <1>7, <1>8, <1>13, <2>1, <3>1, <3>2, <4>2
        <5>2. /\ PickedFrom(job.model, job.key.agent)
              /\ PickedFrom(job.model, job.row.under)
              /\ job.row.under # None
          BY <1>1, <1>15, <5>1 DEF JobsSound, Sound
        <5>3. job.key.agent \in Agent /\ job.row.under \in Agent
          BY <1>3, <5>2, JobFields DEF Row
        <5>4. job.model \in Roster[job.key.agent] /\ job.model \in Roster[job.row.under]
          BY <1>15, <5>2 DEF PickedFrom, Offered
        <5>5. job.row.under = job.key.agent
          BY <1>15, <5>3, <5>4 DEF RostersDiffer
        <5>6. QED  BY <2>2, <3>1, <3>2, <5>1, <5>5
      <4>3. QED  BY <4>1, <4>2
    <3>5. Stays(row)
      BY <3>3, <3>4 DEF Stays
    <3>6. QED
      <4>1. Serves(next)' /\ Stays(row)'
        BY <1>1, <1>4, <2>1, <3>5, Carried
      <4>2. QED  BY <1>1, <1>2, <1>6, <1>15, <4>1, PlacedStep
  <2>5. QED  BY <2>3, <2>4
<1>16. ASSUME ~torn, Kept(jobs[c])
       PROVE  /\ rows[c].model # None => rows'[c].model = rows[c].model
              /\ rows'[c].mode = rows[c].mode
  <2>1. rows'[c] = row
    BY <1>6 DEF TypeOK
  <2>2. QED  BY <1>7, <1>11, <1>13, <1>16, <2>1
<1>17. QED  BY <1>12, <1>14, <1>15, <1>16

\* The answer, and a turn that ends: the row stays as it is.
LEMMA EndsOrder ==
  ASSUME TypeOK, JobsKeep, NEW c \in Conv,
         Answer(c) \/ RouteFails(c) \/ TurnDone(c) \/ TurnFails(c), ~torn => Alone
  PROVE  /\ JobsKeep' /\ (~torn' => ~torn /\ Alone')
         /\ ~torn' /\ Placed => Placed'
<1> DEFINE job == jobs[c]
<1>1. job # None /\ UNCHANGED <<rows, picks>> /\ cleared' \subseteq cleared
  BY DEF Answer, RouteFails, TurnDone, TurnFails, At, tables, history
<1>2. job \in Job /\ rows' = [rows EXCEPT ![c] = rows[c]]
  BY <1>1, JobIsJob, SameRow
<1>3. PICK next :
        /\ jobs' = [jobs EXCEPT ![c] = next]
        /\ \/ next = None
           \/ /\ next.at = "turn" /\ job.at = "answer" /\ next.row = job.row
              /\ next.key = job.key /\ next.mode = job.mode /\ next.model = job.model
  <2>1. CASE Answer(c)
    <3>1. PICK next : next = [job EXCEPT !.at = "turn", !.resume = resumeFor(c, job.key)]
      OBVIOUS
    <3>2. jobs' = [jobs EXCEPT ![c] = next] /\ job.at = "answer"
      BY <2>1, <3>1 DEF Answer, At
    <3>3. /\ next.at = "turn" /\ next.row = job.row /\ next.key = job.key
          /\ next.mode = job.mode /\ next.model = job.model
      BY <1>2, <3>1 DEF Job
    <3>4. QED  BY <3>2, <3>3
  <2>2. CASE RouteFails(c) \/ TurnDone(c) \/ TurnFails(c)
    <3>1. jobs' = [jobs EXCEPT ![c] = None]
      BY <2>2 DEF RouteFails, TurnDone, TurnFails
    <3>2. QED  BY <3>1
  <2>3. QED  BY <2>1, <2>2
<1>4. next # None => (Kept(next) <=> Kept(job))
  BY <1>3 DEF Kept
<1>5. JobsKeep'
  <2>1. next # None => Keeps(next)
    BY <1>1, <1>3, <1>4 DEF JobsKeep, Keeps
  <2>2. QED  BY <1>3, <2>1, KeepStep
<1>6. ~torn' => ~torn /\ (job.at = "turn" \/ job.at = "answer")
  BY DEF Answer, RouteFails, TurnDone, TurnFails, At, history
<1>7. ASSUME ~torn' PROVE ~torn /\ Alone'
  <2>1. AsRead(rows[c], job)
    BY <1>1, <1>6, <1>7 DEF Alone, JobsRead
  <2>2. next # None => AsRead(rows[c], next)
    BY <1>3, <1>6, <1>7, <2>1 DEF AsRead, Moves
  <2>3. ~Routes(next)
    BY <1>3 DEF Routes
  <2>4. QED  BY <1>2, <1>3, <1>6, <1>7, <2>2, <2>3, AloneStep
<1>8. ASSUME ~torn', Placed PROVE Placed'
  <2>1. Stays(rows[c])
    BY <1>6, <1>8 DEF Placed, RowsStay, Moves
  <2>2. PICK row : row = rows[c]
    OBVIOUS
  <2>3. Stays(row)'
    BY <1>1, <2>1, <2>2, Carried
  <2>4. rows' = [rows EXCEPT ![c] = row] /\ (next # None => next.at = "turn")
    BY <1>2, <1>3, <2>2
  <2>5. QED  BY <1>1, <1>3, <1>8, <2>3, <2>4, PlacedStep
<1>9. QED  BY <1>5, <1>7, <1>8

\* A choice that was refused goes from every row of the project, and from nothing else.
LEMMA RefusedOrder ==
  ASSUME TypeOK, JobsKeep, NEW c \in Conv, TurnRefused(c), ~torn => Alone
  PROVE  /\ JobsKeep' /\ (~torn' => ~torn /\ Alone')
         /\ ~torn' /\ Placed => Placed'
<1> DEFINE job == jobs[c]
           choice == IF RefusesModel(job) THEN "model" ELSE "mode"
           value == IF choice = "mode" THEN job.mode ELSE modelOf(job)
<1>1. /\ job # None /\ job.at = "turn" /\ shedWorkspaceChoice(c, choice)
      /\ cleared' = cleared \cup {[choice |-> choice, value |-> value, agent |-> job.key.agent,
                                   root |-> job.key.root]}
      /\ jobs' = [jobs EXCEPT ![c] = None] /\ picks' = picks
      /\ ~torn' => ~torn /\ \A d \in Conv : ~Routes(jobs[d])
  BY DEF TurnRefused, At, Between, Routing, Routes, TypeOK
<1>2. choice \in {"mode", "model"}
  OBVIOUS
<1> HIDE DEF choice, value
<1>3. JobsKeep'
  BY <1>1, KeepStep
<1>4. \A d \in Conv : jobs'[d] = IF d = c THEN None ELSE jobs[d]
  BY <1>1 DEF TypeOK
\* What becomes of a row.
<1>5. ASSUME NEW d \in Conv
      PROVE  /\ rows'[d].root = rows[d].root
             /\ \/ rows'[d] = rows[d] /\ d # c /\ (rows[d].root = None \/ rows[d].root # rows[c].root)
                \/ /\ choice = "mode" /\ rows'[d].mode = None
                   /\ rows'[d].model = rows[d].model /\ rows'[d].under = rows[d].under
                \/ /\ choice = "model" /\ rows'[d].model = None /\ rows'[d].mode = rows[d].mode
  <2>1. rows[d] \in Row
    BY DEF TypeOK
  <2>2. \/ rows'[d] = rows[d] /\ d # c /\ (rows[d].root = None \/ rows[d].root # rows[c].root)
        \/ choice = "mode" /\ rows'[d] = [rows[d] EXCEPT !.mode = None]
        \/ choice = "model" /\ rows'[d] = [rows[d] EXCEPT !.model = None, !.under = None]
    BY <1>1, <1>2 DEF shedWorkspaceChoice
  <2>3. QED  BY <2>1, <2>2 DEF Row
<1>6. ASSUME ~torn' PROVE ~torn /\ Alone'
  <2>1. ~torn /\ Alone /\ \A d \in Conv : ~Routes(jobs[d])
    BY <1>1, <1>6
  <2>2. OneRoutes'
    <3>1. \A d \in Conv : ~Routes(jobs'[d])
      BY <1>4, <2>1 DEF Routes
    <3>2. QED  BY <3>1 DEF OneRoutes, Routes
  <2>3. \A d \in Conv : jobs'[d] # None => AsRead(rows'[d], jobs'[d])
    <3> SUFFICES ASSUME NEW d \in Conv, jobs'[d] # None PROVE AsRead(rows'[d], jobs'[d])
      OBVIOUS
    <3>1. jobs'[d] = jobs[d] /\ jobs[d] # None /\ jobs[d].at = "turn"
      BY <1>4, <2>1 DEF Routes
    <3>2. AsRead(rows[d], jobs[d])
      BY <2>1, <3>1 DEF Alone, JobsRead
    <3>3. QED  BY <1>5, <3>1, <3>2 DEF AsRead, Moves
  <2>4. QED  BY <2>1, <2>2, <2>3 DEF Alone, JobsRead, AsRead, Moves, Kept
<1>7. ASSUME ~torn', Placed PROVE Placed'
  <2>1. ~torn /\ Alone /\ \A d \in Conv : ~Routes(jobs[d])
    BY <1>1, <1>7
  <2>2. \A d \in Conv : Stays(rows[d])
    BY <1>7, <2>1 DEF Placed, RowsStay, Routes, Moves
  <2>3. job.key.root # None => rows[c].root = job.key.root
    BY <1>1, <2>1 DEF Alone, JobsRead, AsRead
  <2>4. ASSUME NEW d \in Conv PROVE Stays(rows[d])'
    <3>1. PICK row : row = rows'[d]
      OBVIOUS
    <3>2. row.root = rows[d].root
      BY <1>5, <3>1
    <3>3. choice = "mode" /\ row.mode # None /\ row.root # None => row.root # job.key.root
      BY <1>5, <2>3, <3>1
    <3>4. choice = "model" /\ row.model # None /\ row.root # None => row.root # job.key.root
      BY <1>5, <2>3, <3>1
    <3>5. ASSUME row.mode # None, row.root # None PROVE ModePicked(row.mode, row.root)'
      <4>1. ModePicked(row.mode, row.root)
        <5>1. row.mode = rows[d].mode
          BY <1>5, <3>1, <3>5
        <5>2. QED  BY <2>2, <3>2, <3>5, <5>1 DEF Stays
      <4>2. QED  BY <1>1, <1>2, <3>3, <3>5, <4>1 DEF ModePicked
    <3>6. ASSUME row.model # None, row.root # None
          PROVE  ModelPicked(row.model, row.under, row.root)'
      <4>1. ModelPicked(row.model, row.under, row.root)
        <5>1. row.model = rows[d].model /\ row.under = rows[d].under
          BY <1>5, <3>1, <3>6
        <5>2. QED  BY <2>2, <3>2, <3>6, <5>1 DEF Stays
      <4>2. QED  BY <1>1, <1>2, <3>4, <3>6, <4>1 DEF ModelPicked
    <3>7. Stays(row)'
      BY <3>5, <3>6 DEF Stays
    <3>8. QED  BY <3>1, <3>7 DEF Stays, ModePicked, ModelPicked
  <2>5. RowsStay'
    BY <2>4 DEF RowsStay
  <2>6. JobsServe'
    <3>1. \A d \in Conv : jobs'[d] = None \/ jobs'[d].at \in {"inherit", "turn"}
      BY <1>4, <2>1 DEF Routes
    <3>2. QED  BY <3>1 DEF JobsServe
  <2>7. QED  BY <2>5, <2>6 DEF Placed
<1>8. QED  BY <1>3, <1>6, <1>7

\* The member picks while no route is under way: what a row is given was picked there.
LEMMA PicksOrder ==
  ASSUME TypeOK, JobsKeep, NEW c \in Conv, NEW choice \in Choice, NEW agent \in Agent,
         NEW value \in IF choice = "mode" THEN Mode ELSE Model,
         Picks(c, choice, value, agent), ~torn => Alone
  PROVE  /\ JobsKeep' /\ (~torn' => ~torn /\ Alone')
         /\ ~torn' /\ Placed => Placed'
         /\ Offered /\ (choice = "model" => value \in offers[agent]) => Offered'
<1> DEFINE pick == [choice |-> choice, value |-> value, root |-> rows[c].root,
                    agent |-> IF choice = "model" THEN agent ELSE None]
<1>1. /\ bindConversationChoice(c, choice, value, agent)
      /\ picks' = picks \cup {pick}
      /\ cleared' = {p \in cleared : \/ p.choice # choice \/ p.value # value
                                     \/ p.root # pick.root}
      /\ UNCHANGED <<jobs, offers>>
      /\ ~torn' => ~torn /\ \A d \in Conv : ~Routes(jobs[d])
  BY DEF Picks, Between, Routing, Routes, TypeOK
<1>2. /\ pick.choice = choice /\ pick.value = value /\ pick.root = rows[c].root
      /\ pick.agent = IF choice = "model" THEN agent ELSE None
  OBVIOUS
<1>3. picks \subseteq picks' /\ cleared' \subseteq cleared
  BY <1>1
<1>4. value # None /\ rows[c] \in Row
  BY NoneIsNothing DEF TypeOK
<1>5. PICK row : row = IF choice = "mode" THEN [rows[c] EXCEPT !.mode = value]
                       ELSE [rows[c] EXCEPT !.model = value, !.under = agent]
  OBVIOUS
<1>6. rows' = [rows EXCEPT ![c] = row]
  BY <1>1, <1>4, <1>5 DEF bindConversationChoice, TypeOK
<1>7. /\ row.root = rows[c].root
      /\ choice = "mode" => /\ row.mode = value /\ row.model = rows[c].model
                            /\ row.under = rows[c].under
      /\ choice = "model" => /\ row.model = value /\ row.under = agent
                             /\ row.mode = rows[c].mode
  BY <1>4, <1>5 DEF Row
<1>8. JobsKeep' /\ jobs' = [jobs EXCEPT ![c] = jobs[c]]
  BY <1>1, SameRow DEF JobsKeep, Keeps, Kept
<1>9. ASSUME ~torn' PROVE ~torn /\ Alone'
  <2>1. ~torn /\ Alone /\ ~Routes(jobs[c])
    BY <1>1, <1>9
  <2>2. jobs[c] # None => AsRead(rows[c], jobs[c]) /\ jobs[c].at = "turn"
    BY <2>1 DEF Alone, JobsRead, Routes
  <2>3. jobs[c] # None => AsRead(row, jobs[c])
    BY <1>7, <2>2 DEF AsRead, Moves
  <2>4. PICK job : job = jobs[c]
    OBVIOUS
  <2>5. QED  BY <1>6, <1>8, <2>1, <2>3, <2>4, AloneStep
<1>10. ASSUME ~torn', Placed PROVE Placed'
  <2>1. ~Routes(jobs[c]) /\ Stays(rows[c])
    BY <1>1, <1>10 DEF Placed, RowsStay, Routes, Moves
  <2>2. PICK old : old = rows[c]
    OBVIOUS
  <2>3. Stays(old)'
    BY <1>3, <2>1, <2>2, Carried
  <2>4. Stays(row)'
    <3>1. CASE choice = "mode"
      <4>1. ModePicked(row.mode, row.root)'
        <5>1. pick = [choice |-> "mode", value |-> row.mode, agent |-> None, root |-> row.root]
          BY <1>7, <3>1
        <5>2. \A a \in Agent : [choice |-> "mode", value |-> row.mode, agent |-> a,
                                root |-> row.root] \notin cleared'
          BY <1>1, <1>2, <1>7, <3>1
        <5> HIDE DEF pick
        <5>3. QED  BY <1>1, <5>1, <5>2 DEF ModePicked
      <4>2. row.root # None /\ row.model # None => ModelPicked(row.model, row.under, row.root)'
        BY <1>7, <2>2, <2>3, <3>1 DEF Stays
      <4>3. QED  BY <4>1, <4>2 DEF Stays
    <3>2. CASE choice = "model"
      <4>1. ModelPicked(row.model, row.under, row.root)'
        <5>1. pick = [choice |-> "model", value |-> row.model, agent |-> row.under,
                      root |-> row.root]
          BY <1>7, <3>2
        <5>2. [choice |-> "model", value |-> row.model, agent |-> row.under,
               root |-> row.root] \notin cleared'
          BY <1>1, <1>2, <1>7, <3>2
        <5> HIDE DEF pick
        <5>3. QED  BY <1>1, <5>1, <5>2 DEF ModelPicked
      <4>2. row.root # None /\ row.mode # None => ModePicked(row.mode, row.root)'
        BY <1>7, <2>2, <2>3, <3>2 DEF Stays
      <4>3. QED  BY <4>1, <4>2 DEF Stays
    <3>3. QED  BY <3>1, <3>2 DEF Choice
  <2>5. PICK job : job = jobs[c]
    OBVIOUS
  <2>6. job # None => job.at = "turn"
    BY <2>1, <2>5 DEF Routes
  <2> HIDE DEF pick
  <2>7. QED  BY <1>3, <1>6, <1>8, <1>10, <2>4, <2>5, <2>6, PlacedStep
<1>11. ASSUME Offered, choice = "model" => value \in offers[agent] PROVE Offered'
  <2>1. choice = "model" => value \in Roster[agent]
    BY <1>11 DEF Offered
  <2>2. \A p \in picks' : p.choice = "model" => p.value \in Roster[p.agent]
    BY <1>1, <1>2, <1>11, <2>1 DEF Offered
  <2>3. QED  BY <1>1, <1>11, <2>2 DEF Offered
<1>12. QED  BY <1>8, <1>9, <1>10, <1>11

\* Defaults, machines and agents change beside the rows and the routes.
LEMMA BesideOrder ==
  ASSUME TypeOK, JobsKeep, UNCHANGED <<rows, jobs, picks>>, cleared' \subseteq cleared,
         torn' = torn, ~torn => Alone
  PROVE  /\ JobsKeep' /\ (~torn' => ~torn /\ Alone')
         /\ ~torn' /\ Placed => Placed'
<1>1. JobsKeep'
  BY DEF JobsKeep, Keeps, Kept
<1>2. ASSUME ~torn' PROVE ~torn /\ Alone'
  BY <1>2 DEF Alone, OneRoutes, JobsRead, Routes, AsRead, Moves, Kept
<1>3. ASSUME Placed PROVE Placed'
  <2>1. ASSUME NEW row, Stays(row) PROVE Stays(row)'
    BY <2>1, Carried
  <2>2. ASSUME NEW job, Serves(job) PROVE Serves(job)'
    BY <2>2, Carried
  <2>3. RowsStay'
    <3> SUFFICES ASSUME NEW d \in Conv PROVE ((jobs[d] # None /\ Moves(jobs[d])) \/ Stays(rows[d]))'
      BY DEF RowsStay
    <3>1. PICK row : row = rows[d]
      OBVIOUS
    <3>2. (jobs[d] # None /\ Moves(jobs[d])) \/ Stays(row)'
      BY <1>3, <2>1, <3>1 DEF Placed, RowsStay
    <3>3. QED  BY <3>1, <3>2 DEF Stays, ModePicked, ModelPicked, Moves, Kept
  <2>4. JobsServe'
    <3> SUFFICES ASSUME NEW d \in Conv, jobs'[d] # None, jobs'[d].at \notin {"inherit", "turn"}
                 PROVE  Serves(jobs[d])'
      BY DEF JobsServe
    <3>1. PICK job : job = jobs[d]
      OBVIOUS
    <3>2. Serves(job)'
      BY <1>3, <2>2, <3>1 DEF Placed, JobsServe
    <3>3. QED  BY <3>1, <3>2 DEF Serves, ModePicked, ModelPicked
  <2>5. QED  BY <2>3, <2>4 DEF Placed
<1>4. QED  BY <1>1, <1>2, <1>3

LEMMA DeedsOrder ==
  ASSUME TypeOK, JobsKeep, Deeds \/ UNCHANGED vars, ~torn => Alone
  PROVE  /\ JobsKeep' /\ (~torn' => ~torn /\ Alone')
         /\ ~torn' /\ Placed => Placed'
         /\ Offered => Offered'
<1>1. ASSUME NEW c \in Conv, NEW agent \in Agent, NEW mode \in Mode, Picks(c, "mode", mode, agent)
      PROVE  /\ JobsKeep' /\ (~torn' => ~torn /\ Alone')
             /\ (~torn' /\ Placed => Placed') /\ (Offered => Offered')
  BY <1>1, PicksOrder DEF Choice
<1>2. ASSUME NEW c \in Conv, NEW agent \in Agent, NEW model \in offers[agent] \cap Model,
             Picks(c, "model", model, agent)
      PROVE  /\ JobsKeep' /\ (~torn' => ~torn /\ Alone')
             /\ (~torn' /\ Placed => Placed') /\ (Offered => Offered')
  BY <1>2, PicksOrder DEF Choice
<1>3. ASSUME UNCHANGED <<rows, jobs, picks, torn>>, cleared' \subseteq cleared,
             \A agent \in Agent : offers'[agent] \subseteq offers[agent]
      PROVE  /\ JobsKeep' /\ (~torn' => ~torn /\ Alone')
             /\ (~torn' /\ Placed => Placed') /\ (Offered => Offered')
  <2>1. Offered => Offered'
    BY <1>3 DEF Offered
  <2>2. QED  BY <1>3, <2>1, BesideOrder
<1>4. ASSUME NEW agent, setDefaultAgent(agent)
      PROVE  /\ JobsKeep' /\ (~torn' => ~torn /\ Alone')
             /\ (~torn' /\ Placed => Placed') /\ (Offered => Offered')
  BY <1>3, <1>4 DEF setDefaultAgent, tables, history
<1>5. ASSUME NEW agent, NEW model, setDefaultModel(agent, model)
      PROVE  /\ JobsKeep' /\ (~torn' => ~torn /\ Alone')
             /\ (~torn' /\ Placed => Placed') /\ (Offered => Offered')
  BY <1>3, <1>5 DEF setDefaultModel, tables
<1>6. ASSUME NEW now, MachinesChange(now)
      PROVE  /\ JobsKeep' /\ (~torn' => ~torn /\ Alone')
             /\ (~torn' /\ Placed => Placed') /\ (Offered => Offered')
  BY <1>3, <1>6 DEF MachinesChange, tables, history
<1>7. ASSUME NEW agent \in Agent, NEW value, AgentDrops(agent, value)
      PROVE  /\ JobsKeep' /\ (~torn' => ~torn /\ Alone')
             /\ (~torn' /\ Placed => Placed') /\ (Offered => Offered')
  <2>1. \A a \in Agent : offers'[a] \subseteq offers[a]
    BY <1>7 DEF AgentDrops, TypeOK
  <2>2. QED  BY <1>3, <1>7, <2>1 DEF AgentDrops, tables, history
<1>8. CASE UNCHANGED vars
  BY <1>3, <1>8 DEF vars, tables, history
<1>9. QED  BY <1>1, <1>2, <1>4, <1>5, <1>6, <1>7, <1>8 DEF Deeds

\* Every step keeps what a route reads and keeps, and where rosters differ what it serves.
LEMMA NextOrder ==
  ASSUME RouteInv, [Next]_vars
  PROVE  /\ RouteInv'
         /\ RostersDiffer /\ PickInv => PickInv'
<1>1. /\ TypeOK /\ RowsSound /\ JobsSound /\ JobsKeep /\ (~torn => Alone)
      /\ IInv' /\ torn \in BOOLEAN
  BY Inductive DEF RouteInv, IInv, TypeOK
<1> DEFINE Ordered == /\ JobsKeep' /\ (~torn' => ~torn /\ Alone')
                      /\ (RostersDiffer /\ Offered /\ ~torn' /\ Placed => Placed')
                      /\ (Offered => Offered')
<1>2. ASSUME Ordered
      PROVE  RouteInv' /\ (RostersDiffer /\ PickInv => PickInv')
  <2>1. RouteInv'
    BY <1>1, <1>2 DEF RouteInv
  <2>2. RostersDiffer /\ PickInv => PickInv'
    BY <1>2, <2>1 DEF PickInv
  <2>3. QED  BY <2>1, <2>2
<1>3. CASE Deeds \/ UNCHANGED vars
  <2>1. Ordered
    BY <1>1, <1>3, DeedsOrder
  <2>2. QED  BY <1>2, <2>1
<1>4. ASSUME NEW c \in Conv, Route(c) \/ Turn(c)
      PROVE  RouteInv' /\ (RostersDiffer /\ PickInv => PickInv')
  <2>1. UNCHANGED <<offers, picks>>
    BY <1>4 DEF Route, Turn, Asks, Inherit, Rebind, StoreMode, StoreModel, Store, Answer,
                RouteFails, TurnDone, TurnRefused, TurnFails, history
  <2>2. Offered => Offered'
    BY <2>1 DEF Offered
  <2>3. /\ JobsKeep' /\ (~torn' => ~torn /\ Alone')
        /\ (RostersDiffer /\ Offered /\ ~torn' /\ Placed => Placed')
    <3>1. CASE Asks(c)
      BY <1>1, <3>1, AsksOrder
    <3>2. CASE Inherit(c)
      BY <1>1, <3>2, InheritOrder
    <3>3. CASE Rebind(c)
      BY <1>1, <3>3, RebindOrder
    <3>4. CASE StoreMode(c)
      BY <1>1, <3>4, StoreModeOrder
    <3>5. CASE StoreModel(c)
      BY <1>1, <3>5, StoreModelOrder
    <3>6. CASE Answer(c) \/ RouteFails(c) \/ TurnDone(c) \/ TurnFails(c)
      BY <1>1, <3>6, EndsOrder
    <3>7. CASE TurnRefused(c)
      BY <1>1, <3>7, RefusedOrder
    <3>8. QED  BY <1>4, <3>1, <3>2, <3>3, <3>4, <3>5, <3>6, <3>7 DEF Route, Turn
  <2>4. QED  BY <1>2, <2>2, <2>3
<1>5. QED  BY <1>3, <1>4 DEF Next

LEMMA InitOrder == ASSUME Init PROVE RouteInv /\ PickInv
<1>1. IInv /\ \A c \in Conv : jobs[c] = None /\ rows[c].mode = None /\ rows[c].model = None
  BY InitIInv DEF Init
<1>2. JobsKeep /\ Alone /\ Placed
  <2>1. \A c \in Conv : ~Routes(jobs[c]) /\ Stays(rows[c])
    BY <1>1 DEF Routes, Stays
  <2>2. QED  BY <1>1, <2>1 DEF JobsKeep, Alone, OneRoutes, JobsRead, Placed, RowsStay, JobsServe
<1>3. Offered
  <2>1. picks = {} /\ offers = [a \in Agent |-> Mode \cup Roster[a]]
    BY DEF Init
  <2>2. Mode \cap Model = {}
    BY ChoicesAssumption DEF ChoicesAssumption
  <2>3. QED  BY <2>1, <2>2 DEF Offered
<1>4. QED  BY <1>1, <1>2, <1>3 DEF RouteInv, PickInv

\* A step of a route that stays in its project changes no choice that its row holds.
LEMMA NothingOverwritten ==
  ASSUME RouteInv, [Next]_vars, NEW c \in Conv, NEW choice \in Choice,
         ~torn, jobs[c] # None, jobs'[c] # jobs[c], jobs'[c] # None,
         Kept(jobs[c]), rows[c][choice] # None
  PROVE  rows'[c][choice] = rows[c][choice]
<1>1. TypeOK /\ JobsKeep /\ Alone
  BY DEF RouteInv, IInv
<1>2. CASE Deeds \/ UNCHANGED vars
  <2>1. jobs' = jobs
    BY <1>2 DEF Deeds, Picks, setDefaultAgent, setDefaultModel, MachinesChange, AgentDrops, vars
  <2>2. QED  BY <2>1
<1>3. ASSUME NEW d \in Conv, Route(d) \/ Turn(d)
      PROVE  rows'[c][choice] = rows[c][choice]
  <2>1. d = c
    <3>1. \/ jobs' = jobs
          \/ \E job : jobs' = [jobs EXCEPT ![d] = job]
      <4>1. CASE Asks(d)
        BY <4>1 DEF Asks
      <4>2. CASE Inherit(d) \/ Rebind(d) \/ StoreMode(d) \/ StoreModel(d) \/ Answer(d)
        BY <4>2 DEF Inherit, Rebind, StoreMode, StoreModel, Store, Answer
      <4>3. CASE RouteFails(d) \/ Turn(d)
        BY <4>3 DEF RouteFails, Turn, TurnDone, TurnRefused, TurnFails
      <4>4. QED  BY <1>3, <4>1, <4>2, <4>3 DEF Route
    <3>2. QED  BY <1>1, <3>1 DEF TypeOK
  <2>2. CASE RouteFails(c) \/ Turn(c)
    <3>1. jobs'[c] = None
      BY <1>1, <2>2 DEF RouteFails, Turn, TurnDone, TurnRefused, TurnFails, TypeOK
    <3>2. QED  BY <3>1
  <2>3. CASE Asks(c)
    BY <2>3 DEF Asks
  <2>4. CASE Inherit(c) \/ Answer(c)
    BY <2>4 DEF Inherit, Answer, tables
  <2>5. CASE Rebind(c)
    BY <2>5 DEF Rebind
  <2>6. CASE StoreMode(c)
    <3>1. (rows[c].mode # None => rows'[c].mode = rows[c].mode) /\ rows'[c].model = rows[c].model
      BY <1>1, <2>6, StoreModeOrder
    <3>2. QED  BY <3>1 DEF Choice
  <2>7. CASE StoreModel(c)
    <3>1. (rows[c].model # None => rows'[c].model = rows[c].model) /\ rows'[c].mode = rows[c].mode
      BY <1>1, <2>7, StoreModelOrder
    <3>2. QED  BY <3>1 DEF Choice
  <2>8. QED  BY <1>3, <2>1, <2>2, <2>3, <2>4, <2>5, <2>6, <2>7 DEF Route
<1>4. QED  BY <1>2, <1>3 DEF Next
-----------------------------------------------------------------------------
\* Every reachable state is well typed: no route or turn carries anything else
\* than what the rows, the machine and the agent can hold.
THEOREM ChoicesTypes == Spec => []TypeOK
<1>1. IInv => TypeOK
  BY DEF IInv
<1>2. QED  BY <1>1, InitIInv, Inductive, PTL DEF Spec

\* Whatever fails or overlaps, a row that holds a model says whose roster the
\* member picked it from, and the member did pick it.
THEOREM ChoicesRows == Spec => []RowsHoldPicks
<1>1. IInv => RowsHoldPicks
  BY DEF IInv, RowsSound, Sound, PickedFrom, RowsHoldPicks
<1>2. QED  BY <1>1, InitIInv, Inductive, PTL DEF Spec

\* A turn picks up a session only in the thread and on the machine, by the agent
\* and in the project where it was begun.
THEOREM ChoicesResume == Spec => []ResumesWhereBegun
<1>1. IInv => ResumesWhereBegun
  BY DEF IInv, TurnsSound, BegunAt, ResumesWhereBegun
<1>2. QED  BY <1>1, InitIInv, Inductive, PTL DEF Spec

\* What a turn is given was picked for the project it runs in, off the roster of the agent
\* that runs it, and not refused there since: wherever the thread and its siblings went, as
\* long as no two agents offer the same model and no route was cut short or overlapped.
THEOREM ChoicesProjects ==
  ASSUME RostersDiffer
  PROVE  Spec => []ChoicesStayInTheirProject
<1>1. Init => PickInv
  BY InitOrder
<1>2. PickInv /\ [Next]_vars => PickInv'
  BY NextOrder DEF PickInv
<1>3. PickInv => ChoicesStayInTheirProject
  <2> SUFFICES ASSUME PickInv, ~torn, NEW c \in Conv, At(c, "answer"), jobs[c].key.root # None,
                      NEW choice \in Choice, jobs[c][choice] # None
               PROVE  LET where(agent) == [choice |-> choice, value |-> jobs[c][choice],
                                           agent |-> agent, root |-> jobs[c].key.root]
                      IN /\ where(IF choice = "model" THEN jobs[c].key.agent ELSE None) \in picks
                         /\ where(jobs[c].key.agent) \notin cleared
    BY DEF ChoicesStayInTheirProject
  <2>1. jobs[c] \in Job
    BY DEF PickInv, RouteInv, IInv, TypeOK, At
  <2>2. jobs[c].key.agent \in Agent
    BY <2>1, JobFields
  <2>3. Serves(jobs[c])
    BY DEF PickInv, Placed, JobsServe, At
  <2>4. CASE choice = "mode"
    <3>1. ModePicked(jobs[c].mode, jobs[c].key.root)
      BY <2>3, <2>4 DEF Serves
    <3>2. QED  BY <2>2, <2>4, <3>1 DEF ModePicked
  <2>5. CASE choice = "model"
    <3>1. ModelPicked(jobs[c].model, jobs[c].key.agent, jobs[c].key.root)
      BY <2>3, <2>5 DEF Serves
    <3>2. QED  BY <2>5, <3>1 DEF ModelPicked
  <2>6. QED  BY <2>4, <2>5 DEF Choice
<1>4. QED  BY <1>1, <1>2, <1>3, PTL DEF Spec

\* A route fills an empty choice of a thread that stays in its project, and overwrites none.
THEOREM ChoicesKept == Spec => RoutesOverwriteNothing
<1>1. Init => RouteInv
  BY InitOrder
<1>2. RouteInv /\ [Next]_vars => RouteInv'
  BY NextOrder
<1>3. RouteInv /\ [Next]_vars =>
         [\A c \in Conv, choice \in Choice :
             ~torn /\ jobs[c] # None /\ jobs'[c] # jobs[c] /\ jobs'[c] # None
                /\ Kept(jobs[c]) /\ rows[c][choice] # None
                   => rows'[c][choice] = rows[c][choice]]_vars
  BY NothingOverwritten
<1>4. QED  BY <1>1, <1>2, <1>3, PTL DEF Spec, RoutesOverwriteNothing
=============================================================================
