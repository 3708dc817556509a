# Symma: TLA+ models

Symma lets a team use the coding agents that run on its members' own machines. A *companion* on
each machine keeps an outbound connection to a *gateway*; a *client* (the Slack bot, or a program
that uses the client library) opens a *session* on an endpoint through the gateway, and the two
speak ACP over the lines that the gateway carries. The gateway keeps who owns what in Postgres and
a journal of each session's lines on disk. The Slack bot turns direct messages and mentions into
*turns*: one prompt each, in a conversation that a DM thread carries.

These modules state what that system promises, check it with TLC and prove much of it with TLAPS.
Every definition is a translation of the code under `packages/`; `PROJECT.json` maps each one to its
lines.

## The parts

| part | state | operations | what is hard | module |
| --- | --- | --- | --- | --- |
| Relay (`gateway/relay.ts`) | `endpoints`, `sessions`, resume timers, generations | attach, detach, goodbye, open, ack, line, close, timer | reattaches that declare some sessions and omit others, timers on two legs, late goodbyes | Relay |
| Transports and rows (`gateway/server.ts`, `store.ts`, `journal.ts`) | SSE legs and their claims, session rows, journals | connect, drop, ingest, open with its reservation, DELETE, retention | every `await` on the store: a leg, a DELETE, a sweep or a restart may come in between; rows and journals are two stores | Gateway |
| Membership (`store.ts`, `server.ts`) | users, pairing codes, endpoints, tokens, held legs | pair, redeem, claim, mint, deactivate, uninstall, revocation sweep | removals of several statements, whose locks cover less than they read | Members |
| Choices (`server.ts`, `store.ts`, `select-endpoint.ts`, `dm.ts`) | a conversation's machine, agent, project, mode, model and session; defaults and rosters | route a turn, pick, clear what was refused | a route of several statements with no transaction; siblings, defaults and rosters as other sources | Choices |
| Turns (`slack/dm.ts`, `mention.ts`, `index.ts`; turn routes of `server.ts`, rows of `store.ts`) | conversations, turns, the session to resume; one handler per delivery | find, turn, endpoint, run, finish | redelivery, crashes of the bot, calls that fail halfway, two messages at once, stale turns | Turns |
| Narration (`dm.ts`, `slack-api.ts`) | the acknowledgement, the stream of cards, the stop route, the update budget | narrate, open a stream, fall back, press stop, settle | calls chained behind a turn that goes on; one budget for all turns | Narration |
| Companion (`companion/index.ts`) | pending opens, live sessions, outbound queue, generation of the connection | open, close, agent line, agent exit, reconnect, shutdown | a close while an open is preparing; the connection ends with work under way | Companion, System |
| Client (`client/remote.ts`) | one prompt: its open, its deadline, its stream | open, acknowledge, drive, time out, close | deadline against answer, a stream that ends first | System |
| ACP driver (`protocol/acp-protocol.ts`) | request table, session options, approvals, answer | initialize, new or resumed session, mode, model, prompt, drain | agents that refuse, ignore, gate, replay or die at any point | AcpSession |
| Slack connection (`slack/socket-mode.ts`) | window of remembered envelopes | acknowledge, remember, handle | acknowledged before it is handled | its effect in Turns |
| Slack calls and rendering | none | posts, snapshots, links, attachments | byte budgets | the calls of Narration |
| Login service, local client, viewer, demo, agent specifications, wire formats, signatures | files | formats | not concurrent | none |

They interact by messages (companion, client and gateway: lines over SSE legs and ingest bodies),
by calls over HTTP (the bot to the gateway), and by shared rows (everything that ends in `store.ts`).

What makes each part correct: Relay's two maps describe one set of pairs; a tenant's lines and rows
are the tenant's at every await; a removal takes away what it found and what arrived meanwhile; what
a turn runs on is what its member chose for that project and agent; a message is run once and one at
a time; an answer is this turn's; both ends of a connection come to agree.

## The modules

* **Broker** is the abstract specification: sessions that join one client and one endpoint, each
  live from its accepted open until the client is told it ended. No timers, no attachments.
  `SpecWithRestarts` is a broker whose process may also start over, which ends all sessions untold.
* **Relay** is `createRelay`: every method is one action that may be called at any time with any
  argument, as the relay's tests call it. `endpoints`, `sessions` and the generation counter are the
  code's; a session's two `NodeJS.Timeout`s are the set of legs whose timer is armed; `sent` is what
  the latest call handed to the peers. `stray` holds timers that the code leaves armed for a session
  it has deleted. Clocks are not modelled: an armed timer may fire at any time.
* **Gateway** composes an instance of Relay with what `server.ts` puts around it: the legs
  (`endpointStreams`, `sessionStreams` and the claims on them), opens in flight with one step per
  `await`, the rows of `sessions` in Postgres and the journals on disk. A step of Gateway is what
  runs between two awaits. A companion's ingest bodies are independent of its leg, as the two HTTP
  requests are.
* **Members** is who may do all that. A statement of `store.ts` is a step; `deactivateUser` and
  `deleteWorkspace` are a step for each of their statements, and `locked` says which rows they hold,
  so that what read committed lets in between comes in between. Codes and tokens are drawn and never
  repeat. `minted`, `late` and `reported` are history.
* **Choices** is the route that decides what a turn runs on: two reads, up to three writes and the
  answer, a step each, over the conversation rows, with the pickers and defaults of the member, the
  machines as they come and go, and what `handleDm` clears after a refusal. `selectEndpoint` and the
  precedences are operators.
* **Turns** is the Slack side: one handler per delivery, a phase per `await`, over the rows of
  `conversations`, `turns` and `conversation_resume`. The gateway's part of a call goes on when the
  bot is gone. A conversation is known by its root message. Text, links, catch-up, attachments and
  narration change no row and are left out.
* **Narration** is what a member sees of a running turn. `queue` is the promise `updating`, on which
  `handleDm` chains its Slack calls; `steps` is the stream as the bot knows it, `card` as Slack shows
  it; `spent` is the budget's stamps by tick.
* **Companion** is the process on a member's machine: `sessions` and `pending` are the code's maps;
  `clones` are the opens whose `git` has not exited, which a cancelled open leaves `pending` before;
  `agents` and `temp` say whose child runs and whose files are on disk. `link` is the connection
  epoch of `connectOnce`; `outbox` and `body` are the two queues of `sendLine`, and `draining` is
  what the network had of an epoch that ended. Each handler is an action, with the overflow of a
  queue as an alternative of every one that sends a line.
* **System** joins an instance of Relay and one of Companion by a leg down and a body up, with the
  clients of `remote.ts`. Either end may lose the connection before the other notices, lines of an
  ended epoch arrive late or never, and both processes may restart. Tenancy, reservations and
  journals are Gateway's: here an open reaches the relay at once.
* **AcpSession** is one call of `driveAcpSession` with the agent at the other end. The driver is a
  chain of awaited requests; `at` is the one it awaits, `pending` the connection's table, `outcome`
  how the request was settled until the continuation runs, which is after the rest of the chunk that
  settled it. `given` holds the call's options and how the agent serves modes and models. The
  permission floor answers here or in the companion (`upstream`, `floorUpstream` in the code: only
  `remote.ts` sets it). The same option tells the transport: a local agent's stdout ends, the driver
  runs, and it closes; the `PassThrough` of `remote.ts` ends and closes before the driver runs.
* **MCRelay**, **MCGateway**, **MCMembers**, **MCChoices**, **MCTurns**, **MCNarration**,
  **MCSystem** and **MCAcpSession** give the constants their values for TLC.
* **RelayProofs**, **GatewayProofs**, **MembersProofs**, **ChoicesProofs**, **TurnsProofs**,
  **NarrationProofs**, **SystemProofs** and **AcpProofs** hold the theorems.

Definitions that a comment calls a mutant are the same operation with a plausible bug. They are not
part of any specification; each shows that a property can be violated by the bug it names.

## The runs

Constants are model values; every instance has two tenants where tenancy is at stake. Every bound
is a constant of the module.

| run | instance | properties | what it shows |
| --- | --- | --- | --- |
| MCRelaySafe | 2 endpoints of 2 owners, 2 sessions, up to 2 slots, 2 attachments | `SlotAccounting`, `ResumeTimerIffOffline`, `SameTenant`, `QuitIsOwn`, `NeverOverbooked`, `BrokerSpec` | slots are exactly the live sessions, a timer runs exactly while its endpoint is away, no session crosses tenants, only a leg's own goodbye counts, no step but an accepted open takes a slot and none beyond the limit, Relay implements Broker |
| MCGatewayRows | 1 endpoint, 2 owners and 2 session ids, 2 opens at once, retention, DELETE, one restart | `LegBelongsToOwner`, `LiveHasRow`, `JournalReachable`, `OnlyServedLeaveRows` | a live session's lines reach its owner's leg and nobody else's, and it has its row; a journal has a row or code that will delete it; refused opens leave no row |
| MCGatewayLive | 1 session, 2 attachments, queries that fail, fairness | `ForgottenForGood`, `AbandonedSessionsEnd` | when a row is gone for good its journal goes for good; sessions of a companion that stays away end |
| MCMembers | a member who may come back under a second id, 2 codes, machines and tokens, 1 session, 1 leg, 2 calls at once, fairness of the sweep | `CodePairsOnce`, `RemovedKeepNothing`, `RemovalReports`, `RemovedLegsDrop` | a code pairs one machine; a member who was removed keeps no machine, code or token; their sessions are reported; their legs are dropped |
| MCChoices | 2 threads, 2 agents, 2 projects, 3 situations of the machines, 2 deeds, routes that overlap and fail | `ChoicesStayInTheirProject`, `RowsHoldPicks`, `RoutesOverwriteNothing` | a mode or model is served in the project and by the agent it was picked for; rows hold what was picked; a route overwrites nothing of a thread that stays |
| MCChoicesCleared | the same, one route at a time | `ClearedStaysCleared` is violated | see below |
| MCTurnsThreads | an event delivered twice and another, one thread, failing calls and a crash | `OneRunPerThread`, `RunOnce`, `LeftTurnsGiveWay` | one prompt of a thread at a time, every event once, a turn that was left gives way |
| MCTurnsMentions | a mention delivered twice, another on the same thread, a reply under an opening, fairness | `StraysCorrected`, `EveryTurnEnds` | every opening that lost its race is corrected; every turn is closed |
| MCNarration | 2 turns, a budget of 2 updates in a minute of 2 ticks, 2 narrations each | `AnswerStandsAlone`, `PressesCount`, `LabelIsTrue`, `PaidWithinBudget` | no step or card outlives the answer; a press that arrived is acted on; an answer says it was cut short only when it was; every update is paid for |
| MCSystemCrowd | 2 prompts on a companion that takes 2, queues of 1 line, one failure | `Agreement`, `FilesOutliveWriters`, `CancelledNeverSpawn` | when the lines have drained both ends name the same sessions; no agent for a cancelled open; files stay while something writes to them |
| MCSystemLive | 1 prompt, queues of 2 lines, two failures, fairness | `ZombiesEnd`, `GhostsEnd` | a session that one end has given up does not stay with the other |
| MCAcpSession | 13 combinations of options and agent, 3 updates, 3 frames unread, fairness of the driver | `PromptAsChosen`, `ReadOnlyNeverWrites`, `HistoryOnce`, `ReportIsTrue`, `NarratesThisTurn`, `AnswerIsLastMessage`, `Settles` | the prompt runs in the mode and model that were chosen or the call fails; a read-only call never writes; the conversation is sent exactly to a session without it; approvals, narration and answer are this turn's; a call ends when its transport does, or is stranded in one of two places after its caller has gone |

Two owners are what a stranger needs to interfere; two sessions are what it takes
to drop one and carry the other at a reattach, and to fill the second of two slots; the second
attachment is the one that a late goodbye or a reattach needs. Two deliveries of one event and one
of another are the smallest case in which a redelivery and a follow-up race. Two sessions on one
companion are what it takes for one to overflow the queue that the other's line is in; a second
failure is what ends the epoch that followed the first while lines of the first still drain. A
second id, machine, code and token are what a member needs to come back beside what was left; two
calls are a redemption or a mint beside another, each beside a removal, and one removal runs at a
time. Two threads are a thread and the sibling it inherits from, two agents with different rosters
are what a switch needs, two deeds are a pick and the change that makes it stale. Two turns are what
shares a budget, and a ceiling of two is one step and the cleanup it will owe. Three
updates are a message, a notice in its midst and its rest.

In System, `MaxFailures` bounds the drops, cut legs, overflows, crashes and shutdowns of a behaviour
together, `MaxOutbox` stands for `MAX_OUTBOX_LINES`, an agent has at most one frame on its way
(`FrameRoom`) and a client adds a line only while fewer than `MaxDown` are on the leg. With the
shortest queue every handler's line is one that may overflow. The closes and the goodbye of a
shutdown are not counted against the queue: the process is about to end.

Some constants name an environment rather than a bound. In Gateway, `Orderly` has companions and
clients do things in the order today's companion and client do; `Reopens` allows a session id to be
opened again; `EagerDelete` lets an owner's DELETE come between an open's reservation and its
acceptance; `Outages` lets queries fail, `Retention` switches the retention sweep. In Turns,
`Failures` lets calls to the gateway or to Slack fail, and `Overruns` lets a handler hold its turn
longer than `TURN_STALE_MINUTES`. In Choices, `Overlap` lets a statement of a route fail and others
run between two, and `Strict` are the agents whose specification selects the model as an option. In
AcpSession, `LateReplay` lets the replay of a load trail its answer. `MaxRestarts` and `MaxCrashes`
bound restarts of the gateway and crashes of the bot. `JournalReachable` and `OnlyServedLeaveRows`
speak of a process that has not restarted; the passing runs keep `EagerDelete`, `Overruns` and
`LateReplay` FALSE: what happens otherwise is listed below.

The views of MCGatewayRows, MCSystemCrowd, MCSystemLive and MCNarration leave out history and what
can no longer decide a step or a property.

**Fairness.** Gateway: timers that are armed fire (`setTimeout`), a store query is answered and the
code after it runs (`storeWrite` bounds them). Turns: every await of a handler settles: a
gateway call within its ten seconds, a prompt within its deadline, a Slack call when its client
stops retrying. System: each event loop does what it has to do next: `main` reconnects, an epoch
that broke is given up (`STREAM_IDLE_MS`), lines of a connection that holds are read, a leg that
died is noticed, timers fire, and a companion that was told to stop exits. One weak fairness for
each loop, not one for each action. AcpSession: the driver goes on when its request was settled, its
drain ends, and a transport that ended closes; nothing of the agent. Members: the sweep asks about every held leg
on every tick, and a store that answers in the end says which are revoked. No fairness is assumed of
clients, agents, `git`, members or Slack, nor that a companion that ended is started again;
`GhostsEnd` is about behaviours in which it connects again and again.

### Where the code and its comments part

**MCChoicesCleared** is a run in which TLC finds the stated promise violated; `PROJECT.json` quotes
the lines. When an agent refuses the model of a turn, the bot clears the conversation's pick and
tells the member to send the message again, for the agent's default. If the model came from the
member's default it is not cleared, and the retry is served the same model.

Four promises are stated in the modules and belong to no run, for each takes an instance of its own
to be seen violated. Each is violated when it is added to the run that stands beside it:

* `ClientWatched` (MCGatewayRows): a client's leg that drops while its open waits for the store is
  never timed.
* `TurnHasWorker` (MCTurnsThreads): a call that throws between `recordTurn` and the run leaves the
  turn open.
* `SessionsAreASequence` (MCTurnsThreads): a turn is closed before its session is recorded, and the
  next one may start in between.
* `QuitsAlone` (MCSystemCrowd, as a property): a companion that is stopped within the kill grace of
  an ended session leaves that session's agent running and its home on disk.

With another value of a constant a property that holds fails, and shows what the code leaves as it is:

* `OneRunPerThread` with `Overruns`: a turn held for longer than the time after which it is retired
  runs beside the next (`store.ts`, 47).
* `LiveHasRow` with `EagerDelete`: a DELETE between an open's reservation and its acceptance leaves
  a session live without a row (`server.ts`, 1246).
* `AnswerIsLastMessage` with `LateReplay` and `Given <- Late`: the replay of a load that trails its
  answer is taken for this turn's (`acp-protocol.ts`, 706).
* `NarratesThisTurn` with the same: narration is held until the prompt is sent, and the drain of a
  prompt is not one of a load, so a replay that is still on its way then is shown. The comment at
  `acp-protocol.ts` 690-695 says that it cannot be.
* `ChoicesStayInTheirProject` with `Roster <- Common`, `MaxDeeds` = 5 and no `Overlap`: a model that
  both agents offer may be served by the one it was not picked for (`server.ts`, 977).

The models have more that the code leaves as it is, and their properties allow for:

* The comment at `acp-protocol.ts` 251-258 has the end of a transport reject what is pending, so that
  a consumer without a deadline gets a rejection instead of a hang. The request that answers such a
  rejection, a new session for a load or the prompt after a plan hint, is registered after it. A
  child's stdout closes later, and the close rejects that one too. The `PassThrough` of a remote call
  (`remote.ts`, 171) has closed by then: the request waits for good (`Stranded`, which `Settles`
  allows for). `remote.ts` ends its output when its own race has settled, so what is left behind is a
  promise that nobody awaits.
* A companion's refusal deletes a session without disarming its timers (`stray`, `StrayFires`;
  `relay.ts`, 283).
* A hello read after its leg closed attaches an endpoint that nothing serves (`server.ts`, 283).
* Sessions live in memory: no peer resumes over a deploy (`Restart`; `server.ts`, 1318). A process
  that ends between deleting rows and deleting their journals leaves files (`server.ts`, 1411).
* A response that closes during its admission stays in `heldLegs`, and a dead leg can be registered
  (`server.ts`, 436-441).
* The comment at `store.ts` 700-703 has `lastChoiceFor` mean the latest pick, but `recordTurn` bumps
  the same `last_activity_at` (`recent`).
* A route that fails after it moved a thread to another project and before it stored the mode leaves
  the old project's mode on the row (`torn`).
* An uninstall takes no lock that a claim waits for: a machine may be claimed beside it (`late`;
  `store.ts`, 857-862). It goes with its workspace's rows; its sessions are not among those reported.
* An answer to a claim that is lost leaves an endpoint whose token nobody holds. A mint that was past
  `ensureMember` when its member was removed leaves an unrevoked token, which admits nobody
  (`MintClientToken`).
* A reply under an opening that is recorded before the mention leaves the conversation of that
  opening without its source, and the mention is answered 409 (`Relookup`; `server.ts`, 855). A
  mention refused because its thread is busy is taken for a redelivery (`AfterRefusal`;
  `mention.ts`, 112).
* What a companion queues on the body of an epoch that is ending is lost without a word
  (`EpochEnds`); the hello of the next makes up for sessions, not for frames. A session opened
  between the companion's reconnect and its hello is failed by that hello (`Attaches`).
* A press on stop before the answer to `startStream` finds no route, and a stream whose answer was
  lost is closed by nobody (`lost`, `tried`; `slack-api.ts`, 780). A cleanup that nothing was reserved
  for, or whose reservation aged out, is made over the ceiling (`forced`, which `PaidWithinBudget`
  allows for).

## The proofs

Eight modules hold proofs, each for all values of its constants under the assumption that the
component's module states (`RelayAssumption`, `GatewayAssumption` and so on: the constants have the
types their comments state, ids that have to be finite are finite in number, and `None` is none of
the values it stands beside). TLC evaluates each assumption in the runs.

| module | theorems | under |
| --- | --- | --- |
| RelayProofs | `RelayTypes`, `RelaySlots`, `RelayTimers`, `RelayTenants`, `RelayQuits`, `RelayCapacity`: `NeverOverbooked`; `RelayImplementsBroker`; `RelayInUse` | |
| GatewayProofs | `GatewayIsolation`: `LegBelongsToOwner`; `GatewayRows`: `LiveHasRow`; `GatewayJournals`: `JournalReachable`; `GatewayServed`: `OnlyServedLeaveRows`; `GatewayUsesRelay`, `GatewayRelay`; `GatewayImplementsBroker` | the three about rows `~Reopens`, `~EagerDelete`; `GatewayServed` also `~Outages` |
| MembersProofs | `MembersTypes`, `MembersCodes`, `MembersRemoved`, `MembersReports` | |
| ChoicesProofs | `ChoicesTypes`; `ChoicesRows`: `RowsHoldPicks`; `ChoicesResume`: a session is picked up only with the machine, agent and project it was begun with; `ChoicesKept`: `RoutesOverwriteNothing`; `ChoicesProjects`: `ChoicesStayInTheirProject` | the last `RostersDiffer`: no two agents offer one model |
| TurnsProofs | `TurnsTypes`, `TurnsOnce`: `RunOnce`, `TurnsAlone`: `OneRunPerThread`, `TurnsStrays`, `TurnsGiveWay` | `TurnsAlone`: `~Overruns` |
| NarrationProofs | `NarrationStandsAlone`: `AnswerStandsAlone`; `NarrationPresses`: `PressesCount`; `NarrationLabels`: `LabelIsTrue`; `NarrationBudget`: `PaidWithinBudget` | |
| SystemProofs | `SystemAgrees`: `Agreement`; `SystemFiles`: `FilesOutliveWriters`; `SystemCancels`: `CancelledNeverSpawn`; `SystemRetires`, `SystemSlots`; `SystemUsesRelay`, `SystemRelay`; `SystemImplementsBroker` | |
| AcpProofs | `AcpTypes`, `AcpPromptsAsChosen`: `PromptAsChosen`, `AcpReadOnly`: `ReadOnlyNeverWrites`, `AcpHistory`: `HistoryOnce`, `AcpReports`: `ReportIsTrue`, `AcpNarrates`: `NarratesThisTurn`, `AcpTellsLast`, `AcpAnswers`: `AnswerIsLastMessage` | `AcpNarrates`, `AcpAnswers`: `~LateReplay` |

Each states an invariant that is inductive and proves it for the initial state and for each action,
one lemma for an action or for a group of actions with one effect. None of the properties is
inductive as it stands; what each needs beside it is the argument why the code is right.

* **Relay.** `SlotAccounting` says that an attachment lists exactly the live sessions routed to it; a
  reattach needs it to know which sessions it drops, and the timers need it because a detach arms
  what the attachment lists. `SameTenant` needs that an attachment's owner is the one that the
  endpoint's token names. `QuitIsOwn` needs that generations do not exceed the counter, so that a
  new attachment's is fresh. `NeverOverbooked` is a property of steps: only `AcceptOpen` grows a list.
* **Broker.** The mapping keeps a session's run, endpoint and owner: the initial states map to
  initial states, and each action maps to `Accept`, `Finish`, `Carry`, `TurnAway`, `Quiet` or a
  stutter.
* **Gateway.** A leg is only ever registered by the claimant of its session id
  (`LegsAreClaimed`), and the claim is asked for again when an open is accepted. For the rows, an
  id's open, its live session and the code that gives its row back never meet: this takes an id that
  is opened once, which `remote.ts` provides by drawing a fresh one, and an owner who does not
  delete a session that is still being opened. Without either, the release of one open takes the
  row of another, or a DELETE the row of an open that is then accepted. `OnlyServedLeaveRows` needs
  queries that succeed, since a release whose query failed leaves the row it was to take.
* **Members.** What a removal's statement saw is still all there is, for the rows it locked cannot
  change and the rows that a claim would add wait for the member's lock (`Deactivating`,
  `Uninstalling`); and a code between its redemption and its claim has bought nothing (`Paying`).
* **Choices.** What is true of a row is true of every copy a route carries across its awaits, and a
  session that is offered was begun with the key it is offered under, though the row it was read off
  may have changed (`ResumesSound`, `TurnsSound`). As long as no route was cut short or overlapped
  (`~torn`), routes take turns and each finds the row as it read it but for what it wrote itself
  (`Alone`), so that every choice on a row or with a route was picked in that project (`Placed`),
  but for a thread on its way into another project: it holds the choices of the one it left until
  the route's last write (`Moves`). `RostersDiffer` is needed because what a route compares before
  it writes is a model's name and not whose it is; the instance in which that matters is among
  those listed above.
* **Turns.** Rows decide: an event has one turn, which the handler that was given it has for good; a
  handler at work has a turn that is running and not stale; and each handler's conversation is the
  one of its thread (`Placed`, `Turned`, `HoldsIts`, `OneRunning`, `SourcesOnce`).
* **Narration.** But for the budget a turn's properties are its own, and the invariant is a predicate
  of one turn (`Narrating`): a stream is asked for once and before anything else in its queue, the
  settle queues its stop or has seen it made or lost, and the acknowledgement is put to rest behind
  the last write to it. The budget is an argument about counting: every update has its stamp and so
  has the cleanup that each written acknowledgement still owes (`Paid`, `Outstanding`), the stamps of
  a window that were not forced are within the ceiling (`Bounded`), and none is of a tick to come.
* **System.** The companion never compares an id with those it has seen. That a cancelled clone is
  not taken up again, nor its files another's, rests on the client drawing a fresh id for every
  prompt, the relay opening it once, and its open being once on one leg (`OpenedOnce`, `OpensAhead`,
  `IdsFresh`). `Agreement` speaks of a quiet connection, so the invariant says of every line on its
  way what it will make of the two ends. A refusal names an id that the companion neither works on
  nor is about to be asked for, now or later (`Sound`): read late, off the body of an epoch long
  over, it ends nothing that still has an agent. An id whose close is on the leg is not live again
  (`ClosedGone`), and one whose open is there is live unless its close follows (`Told`). While both
  ends have the connection (`Joined`), what the relay will keep once it has read the hello is worked
  on, or its open is still to be read, or a line on the body ends it; and what the companion works on
  is live, or its close is on the leg, or the hello that names it is still to be read and will be
  answered with a close. No acknowledgement is needed for any of this: only the hello is. Two more
  follow from the same invariants: an id whose git and agent are gone never comes back
  (`SystemRetires`), and the relay's list of a companion's sessions is exact through hellos, losses
  and restarts (`SystemSlots`).
* **The relay in its surroundings.** `SystemUsesRelay` and `GatewayUsesRelay` say that each step of
  System and of Gateway is one of Relay's, with an id, endpoint and caller that Relay allows, or
  leaves the relay alone and at most turns a caller down (`Aside`), or is a restart, which is Relay's
  `Init` again. `RelayInUse` is about any relay that is used so (`UsedSpec`). GatewayProofs and
  SystemProofs instantiate RelayProofs as they instantiate Relay and cite it: the relay's invariants,
  and its limit on opens hold there (`GatewayRelay`, `SystemRelay`), and both implement Broker with restarts (`GatewayImplementsBroker`, `SystemImplementsBroker`). That Relay's
  assumption holds of what they put for its constants is part of theirs.
* **AcpSession.** The properties speak of the prompt, and the driver knows of the agent's session
  only what the answers before it said. So the invariant follows the one request under way: what the
  agent has of it (`InFlight`), what an answer to it may say (`Truth`), and what is settled of the
  session when the next is sent (`Stage`). A reader that overflowed is the hard case: its requests
  fail while the agent still has them, so that two may be under way. That nothing of an earlier turn
  is narrated takes a replay that ends before its answer (`~LateReplay`).
* **The answer.** `AnswerIsLastMessage` is about what `Assemble` makes of all the updates of a turn,
  however many. The invariant (`Heard`) relates the text that is being put together to the updates
  read so far, as if the turn ended there: of an agent that labels its messages, the last message
  that its segments make is the last one labelled, and one segment is open; of one that does not,
  every segment is a message, and one is open exactly when the last update was a chunk. A chunk that
  labels is the step from the second to the first: it closes what was open, which becomes a notice.
  `Answered` is a recursive function of the number of segments. What it is of one segment more
  (`AnsweredMore`) is shown from the existence and the uniqueness of such a function, by an induction
  over the natural numbers (`Inductive`) that is itself proved from the library's theorem on minimal
  elements of a well-founded order. All of this holds of any agent (`AcpTellsLast`). That the updates
  are the turn's own takes `~LateReplay` again: what is replayed comes before a grant, and the driver
  that goes on with that grant forgets what it heard (`Anew`). A refused load, or one that ends
  while authentication is missing, has replayed nothing.

Only model-checked: what holds under fairness, which is out of the prover's reach
(`ForgottenForGood`, `AbandonedSessionsEnd`, `EveryTurnEnds`, `ZombiesEnd`, `GhostsEnd`,
`RemovedLegsDrop`, `Settles`). Every other property of the passing runs is a theorem, `BrokerSpec`
for its safety.

## The plan

1. `session/cancel` and attachments in AcpSession, the deadlines of `remote.ts` over them.
2. **SocketMode** as a small machine in front of Turns; NDJSON and snapshot budgets as functions
   over lengths.

Two prompts under fairness are beyond what TLC does in minutes, so System's liveness is checked for
one.

## What is not modelled, and why

Text, formats, signatures, unit files, rendering and the viewer are left out: they keep no state
that an order of events could break. The local client spawns one agent and ends it; what it drives
is AcpSession. `session/cancel` before its prompt is lost in the driver (`acp-protocol.ts`, 731-740)
and is not an action yet. A chunk of the models always has text: an agent that labels only an empty
chunk, for which the driver takes the asides back as the answer (`acp-protocol.ts`, 885-888), is left
to the tests. `deactivateUser` and `deleteWorkspace` are modelled from `store.ts`: no
package calls them. Throttling of pairing attempts and the hashing of codes and tokens are
abstracted, and the appends' own budget in Narration.

Postgres is external: a statement is one atomic step, and so is a transaction of one statement.
Slack is external: a call succeeds, fails, or loses its answer, and an event may be delivered again.
Time is only order: timers fire when armed, rows and turns age when nothing forbids it; Narration
alone counts ticks, for the window of its budget. Processes of the operating system are the
environment's.
