------------------------------ MODULE Choices -------------------------------
(***************************************************************************)
(* What a turn runs on: which machine, which agent of it, which project,   *)
(* in which mode, on which model, and which agent session it picks up.     *)
(* POST /api/slack/endpoint and the pickers of gateway/src/server.ts over  *)
(* the conversation rows of store.ts, and the part of handleDm that clears *)
(* a choice the agent no longer takes.  One member.                        *)
(*                                                                         *)
(* The route is a sequence of statements with an await between any two,    *)
(* and no transaction around them.  Its reads are two steps, what the member *)
(* and the machine are and what other threads hold; its writes are three.  *)
(***************************************************************************)
EXTENDS Naturals, Sequences, FiniteSets, Functions

CONSTANTS Conv, Agent, Root, Mode, Model,
          Roster,      \* agent -> the models it offers
          Strict,      \* agents whose specification selects the model as an option
          Situation,   \* what the member's machines may say of themselves at once
          MaxDeeds,    \* bound: picks of the member, and changes of machine and agent
          MaxSessions, \* bound: agent sessions that are begun
          Overlap,     \* TRUE: a statement may fail, and others run between two
          None

VARIABLES rows,      \* conversation -> its row
          recent,    \* conversations by last_activity_at, the latest at the end
          preferred, \* users.default_agent
          rosters,   \* agent_models.roster: what a turn last learned
          chosen,    \* agent_models.chosen: the member's default model
          resumes,   \* conversation -> the agent session it can pick up, or None
          machines,  \* the situation now
          offers,    \* agent -> the modes and models it takes now
          jobs,      \* conversation -> its turn, from the route to its end, or None
          deeds,
          begun,     \* the agent sessions there were, and where each runs (history)
          picks,     \* what the member picked where (history)
          cleared,   \* what the member was told was cleared where (history)
          torn       \* a route was interrupted or overlapped (history)

tables  == <<rows, recent, resumes>>
defaults == <<preferred, rosters, chosen>>
history == <<begun, picks, cleared, torn>>
vars == <<tables, defaults, machines, offers, jobs, deeds, history>>

Choice  == {"mode", "model"}
State   == {"ready", "busy", "quit", "dropped", "asleep", "unstarted"}
Session == 1..MaxSessions
Row == [root: Root \cup {None}, mode: Mode \cup {None}, model: Model \cup {None},
        under: Agent \cup {None}]   \* whose roster the model came from
Key == [endpoint: Nat, agent: Agent, root: Root \cup {None}]
Resume == [key: Key, session: Session]
Phases == {"inherit", "rebind", "store mode", "store model", "answer", "turn"}
\* What the route has read and decided so far, and the turn it leads to.
Job == [at: Phases, key: Key, row: Row, modes: BOOLEAN,   \* the machine takes a mode
        mode: Mode \cup {None}, model: Model \cup {None}, \* to be served
        floor: Model \cup {None},                         \* the default, where offered
        resume: Session \cup {None}]
Began == [conv: Conv, key: Key]
Machine == [state: State, seen: Nat, agents: Seq(Agent), roots: Seq(Root),
            modes: SUBSET Agent]   \* the agents that take a mode there
Pick == [choice: Choice, value: Mode \cup Model, agent: Agent \cup {None},
         root: Root \cup {None}]

ASSUME ChoicesAssumption ==
    /\ IsFiniteSet(Conv) /\ None \notin Conv \cup Agent \cup Root \cup Mode \cup Model \cup Session
    /\ None \notin Job
    /\ Roster \in [Agent -> SUBSET Model] /\ Strict \subseteq Agent
    /\ Mode \cap Model = {} /\ MaxDeeds \in Nat /\ MaxSessions \in Nat /\ Overlap \in BOOLEAN
    /\ Situation \subseteq Seq(Machine)

TypeOK ==
    /\ rows \in [Conv -> Row]
    /\ recent \in Seq(Conv)
    /\ preferred \in Agent \cup {None}
    /\ rosters \in [Agent -> SUBSET Model] /\ chosen \in [Agent -> Model \cup {None}]
    /\ resumes \in [Conv -> Resume \cup {None}]
    /\ machines \in Situation /\ offers \in [Agent -> SUBSET (Mode \cup Model)]
    /\ jobs \in [Conv -> Job \cup {None}]
    /\ deeds \in 0..MaxDeeds /\ begun \in Seq(Began) /\ picks \subseteq Pick /\ cleared \subseteq Pick
    /\ torn \in BOOLEAN
-----------------------------------------------------------------------------
(* select-endpoint.ts. *)

rank(state) == CASE state = "ready" -> 0 [] state = "busy" -> 1 [] OTHER -> 2

\* Those that can take the turn, else are here, else were seen last; of equals
\* the one that the rows, which have no order, happen to name first.
selectEndpoint(now) ==
    {e \in DOMAIN now : \A other \in DOMAIN now :
        \/ rank(now[e].state) < rank(now[other].state)
        \/ rank(now[e].state) = rank(now[other].state) /\ now[e].seen >= now[other].seen}
-----------------------------------------------------------------------------
(* store.ts. *)

First(v, w) == IF v # None THEN v ELSE w
At(c, phase) == jobs[c] # None /\ jobs[c].at = phase

\* last_activity_at = now().
Touched(c) ==
    [i \in DOMAIN recent |-> IF i = Len(recent) THEN c
                            ELSE IF c \in {recent[j] : j \in 1..i} THEN recent[i + 1]
                            ELSE recent[i]]

\* lastChoiceFor: of the thread that was active last, among those that hold one.
Holds(c, root, choice, agent) ==
    /\ rows[c].root = root /\ rows[c][choice] # None
    /\ choice = "model" => rows[c].under = agent

lastChoiceFor(root, choice, agent) ==
    LET Latest(i) == /\ Holds(recent[i], root, choice, agent)
                     /\ \A j \in DOMAIN recent :
                            Holds(recent[j], root, choice, agent) => j <= i
    IN IF \E i \in DOMAIN recent : Latest(i)
       THEN rows[recent[CHOOSE i \in DOMAIN recent : Latest(i)]][choice] ELSE None

\* bindConversationChoice: a model and whose roster it is from in one statement,
\* and a pick is activity where a clear is not.
bindConversationChoice(c, choice, value, agent) ==
    /\ rows' = [rows EXCEPT ![c] =
                  IF choice = "mode" THEN [@ EXCEPT !.mode = value]
                  ELSE [@ EXCEPT !.model = value,
                                 !.under = IF value = None THEN None ELSE agent]]
    /\ recent' = IF value = None THEN recent ELSE Touched(c)

\* Mutant: the value goes and whose it was stays.
ShedValues(c, choice) ==
    rows' = [d \in Conv |->
               IF d # c /\ (rows[d].root = None \/ rows[d].root # rows[c].root) THEN rows[d]
               ELSE IF choice = "mode" THEN [rows[d] EXCEPT !.mode = None]
               ELSE [rows[d] EXCEPT !.model = None]]

\* shedWorkspaceChoice: in every thread of the project, whatever value it holds.
shedWorkspaceChoice(c, choice) ==
    rows' = [d \in Conv |->
               IF d # c /\ (rows[d].root = None \/ rows[d].root # rows[c].root) THEN rows[d]
               ELSE IF choice = "mode" THEN [rows[d] EXCEPT !.mode = None]
               ELSE [rows[d] EXCEPT !.model = None, !.under = None]]

\* However the threads were active before.
Orders == {f \in [1..Cardinality(Conv) -> Conv] : Range(f) = Conv}

Init ==
    /\ rows = [c \in Conv |-> [root |-> None, mode |-> None, model |-> None, under |-> None]]
    /\ recent \in Orders /\ resumes = [c \in Conv |-> None]
    /\ preferred = None /\ rosters = [a \in Agent |-> {}] /\ chosen = [a \in Agent |-> None]
    /\ machines \in Situation /\ offers = [a \in Agent |-> Mode \cup Roster[a]]
    /\ jobs = [c \in Conv |-> None] /\ deeds = 0
    /\ begun = <<>> /\ picks = {} /\ cleared = {} /\ torn = FALSE
-----------------------------------------------------------------------------
(* POST /api/slack/endpoint, for a turn. *)

Routing == \E c \in Conv : jobs[c] # None /\ jobs[c].at # "turn"
Between == /\ Overlap \/ ~Routing
           /\ torn' = (torn \/ Routing)

Kept(job) == job.key.root # None /\ job.row.root = job.key.root

\* What the route reads first: the machine, the agent, the project and the
\* default.
Asked(c, e) ==
    LET m == machines[e]
        agent == IF preferred \in Range(m.agents) THEN preferred ELSE Head(m.agents)
        root == IF rows[c].root \in Range(m.roots) THEN rows[c].root
                ELSE IF m.roots # <<>> THEN Head(m.roots) ELSE None
    IN [at |-> "inherit", key |-> [endpoint |-> e, agent |-> agent, root |-> root],
        row |-> rows[c], modes |-> agent \in m.modes, mode |-> None, model |-> None,
        floor |-> IF chosen[agent] \in rosters[agent] THEN chosen[agent] ELSE None,
        resume |-> None]

\* recordTurn, which is activity, and then the route.  A machine that is not
\* ready or has no agent is answered at once and no turn runs, nor where nothing
\* is paired.
Asks(c) ==
    /\ jobs[c] = None
    /\ Between
    /\ recent' = Touched(c)
    /\ \/ \E e \in selectEndpoint(machines) :
             /\ machines[e].state = "ready" /\ machines[e].agents # <<>>
             /\ jobs' = [jobs EXCEPT ![c] = Asked(c, e)]
       \/ /\ \A e \in selectEndpoint(machines) :
                machines[e].state # "ready" \/ machines[e].agents = <<>>
          /\ UNCHANGED jobs
    /\ UNCHANGED <<rows, resumes, defaults, machines, offers, deeds, begun, picks, cleared>>

\* What of its own the row holds that this turn can use.
usable(job, choice) ==
    CASE choice = "mode" -> IF job.modes THEN job.row.mode ELSE None
      [] choice = "model" -> IF job.row.under = job.key.agent THEN job.row.model ELSE None

\* Mutant: what the thread holds goes with it.
InheritedCarrying(job, choice) ==
    IF job.key.root = None THEN IF choice = "model" THEN usable(job, choice) ELSE None
    ELSE IF choice = "mode" /\ ~job.modes THEN None
    ELSE First(usable(job, choice), lastChoiceFor(job.key.root, choice, job.key.agent))

\* Its own where it stays in its project, else what was last picked for the
\* project.  Without a project there is nothing to inherit and no mode.
Inherited(job, choice) ==
    IF job.key.root = None THEN IF choice = "model" THEN usable(job, choice) ELSE None
    ELSE IF choice = "mode" /\ ~job.modes THEN None
    ELSE First(IF Kept(job) THEN usable(job, choice) ELSE None,
               lastChoiceFor(job.key.root, choice, job.key.agent))

Inherit(c) ==
    /\ At(c, "inherit")
    /\ LET job == jobs[c]
       IN jobs' = [jobs EXCEPT ![c] = [job EXCEPT !.at = "rebind",
                                                  !.mode = Inherited(job, "mode"),
                                                  !.model = Inherited(job, "model")]]
    /\ UNCHANGED <<tables, defaults, machines, offers, deeds, history>>

\* bindConversation, where the project changed.
Rebind(c) ==
    /\ At(c, "rebind")
    /\ LET job == jobs[c]
       IN rows' = IF job.key.root # None /\ ~Kept(job)
                  THEN [rows EXCEPT ![c].root = job.key.root] ELSE rows
    /\ jobs' = [jobs EXCEPT ![c] = [@ EXCEPT !.at = "store mode"]]
    /\ UNCHANGED <<recent, resumes, defaults, machines, offers, deeds, history>>

\* Mutant: a row takes the model of the agent it is on now.
WritesAnyModel(job, choice) ==
    /\ job.key.root # None
    /\ First(job[choice], IF Kept(job) THEN job.row[choice] ELSE None) # job.row[choice]

\* Only what changes the row, and nothing into a row that keeps a model for
\* another agent.  What is compared is the value and not whose it is.
Writes(job, choice) ==
    /\ job.key.root # None
    /\ First(job[choice], IF Kept(job) THEN job.row[choice] ELSE None) # job.row[choice]
    /\ choice = "model" /\ Kept(job) /\ job.row.model # None => job.row.under = job.key.agent

Store(c, choice, phase, next) ==
    /\ At(c, phase)
    /\ LET job == jobs[c]
       IN IF Writes(job, choice)
          THEN bindConversationChoice(c, choice, First(job[choice],
                   IF Kept(job) THEN job.row[choice] ELSE None), job.key.agent)
          ELSE UNCHANGED <<rows, recent>>
    /\ jobs' = [jobs EXCEPT ![c] = [@ EXCEPT !.at = next]]
    /\ UNCHANGED <<resumes, defaults, machines, offers, deeds, history>>

StoreMode(c)  == Store(c, "mode", "store mode", "store model")
StoreModel(c) == Store(c, "model", "store model", "answer")

\* resumeFor: only where the session was begun.
resumeFor(c, key) ==
    IF resumes[c] # None /\ resumes[c].key = key THEN resumes[c].session ELSE None

\* The answer; the default is under everything and in no row.
Answer(c) ==
    /\ At(c, "answer")
    /\ jobs' = [jobs EXCEPT ![c] = [@ EXCEPT !.at = "turn", !.resume = resumeFor(c, jobs[c].key)]]
    /\ UNCHANGED <<tables, defaults, machines, offers, deeds, history>>

\* A statement fails, or the gateway ends: the message fails and no turn runs.
RouteFails(c) ==
    /\ Overlap /\ jobs[c] # None /\ jobs[c].at # "turn"
    /\ jobs' = [jobs EXCEPT ![c] = None] /\ torn' = TRUE
    /\ UNCHANGED <<tables, defaults, machines, offers, deeds, begun, picks, cleared>>
-----------------------------------------------------------------------------
(* The turn, in handleDm, on what was answered. *)

modelOf(job) == First(job.model, job.floor)
Takes(job, value) == value = None \/ value \in offers[job.key.agent]

\* Other agents run on their own default when they do not offer the model.
RefusesModel(job) == job.key.agent \in Strict /\ ~Takes(job, modelOf(job))

\* The run ends well.  Its roster is kept where there is one, and then the
\* session it ran in: the one it picked up, or one it began.
TurnDone(c) ==
    LET job == jobs[c]
        models == offers[job.key.agent] \cap Model
    IN
    /\ At(c, "turn") /\ Takes(job, job.mode) /\ ~RefusesModel(job)
    /\ rosters' = IF models = {} THEN rosters ELSE [rosters EXCEPT ![job.key.agent] = models]
    /\ \E s \in Session :
          /\ \/ s = job.resume /\ UNCHANGED begun
             \/ s = Len(begun) + 1 /\ begun' = Append(begun, [conv |-> c, key |-> job.key])
          /\ resumes' = [resumes EXCEPT ![c] = [key |-> job.key, session |-> s]]
    /\ cleared' = {p \in cleared : p.agent # job.key.agent \/ p.value \notin models}
    /\ jobs' = [jobs EXCEPT ![c] = None]
    /\ UNCHANGED <<rows, recent, preferred, chosen, machines, offers, deeds, picks, torn>>

\* The agent refuses the model, or then the mode: it is cleared, the member is
\* told so, and the message can be sent again.
TurnRefused(c) ==
    LET job == jobs[c]
        choice == IF RefusesModel(job) THEN "model" ELSE "mode"
        value == IF choice = "mode" THEN job.mode ELSE modelOf(job)
    IN
    /\ At(c, "turn") /\ ~Takes(job, value)
    /\ Between
    /\ shedWorkspaceChoice(c, choice)
    /\ cleared' = cleared \cup {[choice |-> choice, value |-> value, agent |-> job.key.agent,
                                 root |-> job.key.root]}
    /\ jobs' = [jobs EXCEPT ![c] = None]
    /\ UNCHANGED <<recent, resumes, defaults, machines, offers, deeds, begun, picks>>

\* It fails otherwise, or the choice could not be cleared and the member is told that.
TurnFails(c) ==
    /\ At(c, "turn")
    /\ jobs' = [jobs EXCEPT ![c] = None]
    /\ UNCHANGED <<tables, defaults, machines, offers, deeds, history>>
-----------------------------------------------------------------------------
(* The pickers, and what the member's machines and agents do meanwhile. *)

Deed == deeds < MaxDeeds /\ deeds' = deeds + 1

\* POST /api/slack/mode and /model, with the agent whose roster was shown.
Picks(c, choice, value, agent) ==
    /\ Deed /\ Between
    /\ bindConversationChoice(c, choice, value, agent)
    /\ LET pick == [choice |-> choice, value |-> value, root |-> rows[c].root,
                    agent |-> IF choice = "model" THEN agent ELSE None]
       IN /\ picks' = picks \cup {pick}
          /\ cleared' = {p \in cleared : \/ p.choice # choice \/ p.value # value
                                         \/ p.root # pick.root}
    /\ UNCHANGED <<resumes, defaults, machines, offers, jobs, begun>>

setDefaultAgent(agent) ==
    /\ Deed
    /\ preferred' = agent /\ preferred # agent
    /\ UNCHANGED <<tables, rosters, chosen, machines, offers, jobs, history>>

setDefaultModel(agent, model) ==
    /\ Deed
    /\ chosen[agent] # model /\ chosen' = [chosen EXCEPT ![agent] = model]
    /\ cleared' = {p \in cleared : p.agent # agent \/ p.value # model}
    /\ UNCHANGED <<tables, preferred, rosters, machines, offers, jobs, begun, picks, torn>>

\* Machines come and go, and list other projects and agents than they did.
MachinesChange(now) ==
    /\ Deed
    /\ machines # now /\ machines' = now
    /\ UNCHANGED <<tables, defaults, offers, jobs, history>>

\* An agent stops taking a mode or a model.
AgentDrops(agent, value) ==
    /\ Deed
    /\ value \in offers[agent] /\ offers' = [offers EXCEPT ![agent] = @ \ {value}]
    /\ UNCHANGED <<tables, defaults, machines, jobs, history>>

Route(c) == Asks(c) \/ Inherit(c) \/ Rebind(c) \/ StoreMode(c)
            \/ StoreModel(c) \/ Answer(c) \/ RouteFails(c)
Turn(c) == TurnDone(c) \/ TurnRefused(c) \/ TurnFails(c)

Deeds ==
    \/ \E c \in Conv, agent \in Agent :
          \/ \E mode \in Mode : Picks(c, "mode", mode, agent)
          \/ \E model \in offers[agent] \cap Model : Picks(c, "model", model, agent)
    \/ \E agent \in Agent \cup {None} : setDefaultAgent(agent)
    \/ \E agent \in Agent : \E model \in rosters[agent] \cup {None} : setDefaultModel(agent, model)
    \/ \E now \in Situation : MachinesChange(now)
    \/ \E agent \in Agent : \E value \in offers[agent] : AgentDrops(agent, value)

Next == Deeds \/ \E c \in Conv : Route(c) \/ Turn(c)

Spec == Init /\ [][Next]_vars
-----------------------------------------------------------------------------
\* A turn is given a mode and a model that the member picked for the project it
\* runs in, the model off that agent's roster, and that was not cleared there since for
\* being refused: over any moves of the thread between projects and whatever its
\* siblings hold (the route of /api/slack/endpoint, lastChoiceFor,
\* shedWorkspaceChoice).  As long as no route was cut short or overlapped: see torn.
ChoicesStayInTheirProject ==
    ~torn => \A c \in Conv : At(c, "answer") /\ jobs[c].key.root # None =>
        \A choice \in Choice : jobs[c][choice] # None =>
            LET where(agent) == [choice |-> choice, value |-> jobs[c][choice],
                                 agent |-> agent, root |-> jobs[c].key.root]
            IN /\ where(IF choice = "model" THEN jobs[c].key.agent ELSE None) \in picks
               /\ where(jobs[c].key.agent) \notin cleared

\* Whatever fails or overlaps, a row that holds a model says whose roster the
\* member picked it from, and the member did pick it: never the default, and
\* never another agent's (bindConversationChoice, Answer).
RowsHoldPicks ==
    \A c \in Conv :
        /\ rows[c].model = None <=> rows[c].under = None
        /\ rows[c].model # None => \E p \in picks : /\ p.choice = "model"
                                                    /\ p.value = rows[c].model
                                                    /\ p.agent = rows[c].under

\* The session a turn picks up was begun in this thread, on this machine, by
\* this agent and in this project, whatever changed since (resumeFor).
ResumesWhereBegun ==
    \A c \in Conv : jobs[c] # None /\ jobs[c].resume # None =>
        begun[jobs[c].resume] = [conv |-> c, key |-> jobs[c].key]

\* A thread that stays in its project keeps what it holds: a route fills an
\* empty choice and overwrites none, not even with what another agent of the
\* thread would inherit.
RoutesOverwriteNothing ==
    [][\A c \in Conv, choice \in Choice :
          ~torn /\ jobs[c] # None /\ jobs'[c] # jobs[c] /\ jobs'[c] # None
             /\ Kept(jobs[c]) /\ rows[c][choice] # None
                => rows'[c][choice] = rows[c][choice]]_vars

\* "I cleared it.  Send it again and I will retry with its default" (dm.ts).
ClearedStaysCleared ==
    \A c \in Conv : At(c, "answer") =>
        \A p \in cleared : p.agent = jobs[c].key.agent /\ p.root = jobs[c].key.root =>
            IF p.choice = "mode" THEN jobs[c].mode # p.value
                                 ELSE modelOf(jobs[c]) # p.value
=============================================================================
