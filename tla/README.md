# Verification of the DevFlow daemon

DevFlow is a daemon (`apps/daemon`, one Node.js process over SQLite documents) that
turns a request into task contracts, lets coding agents work on them through CLI
runtimes, passes every tool action through a gateway with human approvals, and
declares a task DONE only on evidence and reviews. This directory holds TLA+ models of
its core, the TLC runs that check them and TLAPS proofs about them.

Everything between two `await`s of the daemon is one atomic step of a model;
everything an `await` separates is two. A `put` of a document is durable at once
(better-sqlite3 is synchronous); coroutines, maps and timers vanish with the process.
Most hazards come from one idiom: a coroutine reads a document, awaits, and then stores
`{...copy, status: X}`.

## Inventory

Paths are under `src/apps/daemon/src` unless they say otherwise.

| component | state it keeps | operations | what makes it correct |
|---|---|---|---|
| orchestrator (`application/orchestration/agent-orchestrator.ts`) | documents `agent_run`, `task`, `agent_session`; suspended `executeLoop` calls | `startTaskRun`, `executeLoop`, `resumeRun`, `cancelRun`, `stopAllActive`, `sweepLiveness` | one driver per run, no lost run, bounded attempts, steps and retries, settled runs are final |
| crash recovery (`crash-recovery.ts`, boot and `shutdown` in `main.ts`) | none | `recoverOrphanedRuns`, `expireUnresolvedApprovals`, drain | every orphan and nothing else is finalized |
| project service (`application/project/project-service.ts`) | documents `task`, `evidence`, `review` | `executeTask`, `rerunVerification`, `reviewAndMaybeComplete`, decision and approval hooks, planning | dependencies before start; DONE is earned |
| governance (`application/governance`) | documents `decision`, `approval` | `createDecision`, `resolve` of both | each is resolved once and wakes what waits for it |
| action gateway and policy (`application/gateway`, `domain/policy`) | documents `action`, `approval`; map `pendingExecutors` | `executeAction`, `executeApprovedAction`, `expireUnresolvedApprovals`, `evaluate` | no action twice, none without the grant it needs, none after a restart |
| verification and completion (`application/verification`, `application/reviews`) | documents `evidence`, `review` | `runVerification`, `invalidateStale`, `evaluate`, `runReview` | evidence is bound to a commit; STALE is for good; the predicate holds when DONE is written |
| CLI runtimes (`plugins/runtimes/cli-runtime-adapter.ts`, `runtime-registry.ts`) | child processes, the adapter's sessions and timers | `start`, `nextAction`, `stop`, `killTree` | a run starts its CLI once, every call ends, nothing of a stopped CLI's group is left |
| circuit breaker (`plugins/runtimes/circuit-breaker.ts`) | three maps in memory | `isOpen`, `recordFailure`, `recordSuccess` | out of routing after enough failures in a row; one probe after the cooldown |
| team composer (`application/team`) | documents `team_binding`, `team_task_override` | `setBinding`, `setOrgDefault`, `applyPreset`, `autoCompose`, `resolveDetailed` | a composed team fits the runtimes there are; resolution ends |
| intake and discovery (`application/discovery`, `application/intent`, `domain/risk`, `plugins/models`) | documents `mission`, `question`, `requirement`, `coverage` | `submitMission`, `discoverOnce`, `answerQuestion`, `skipWithAssumption` | one question per category, a way on until ready, readiness that answers reach |
| specification and contract (`application/specification`, `pre-code-contract-service.ts`) | documents `specification`, the contract | `generateSpec`, `refresh` | a plan nobody forced rests on what was asked |
| planning (`application/planning`) | documents `task` | `planTasks`, `executionOrder` | dependencies as decomposed, nothing half-stored |
| workflow composer (`application/workflow`) | documents `workflow_definition`, `workflow_preset` | `create`, `update`, `archive`, `applyToProject`, `validate` | the composed order is enforced; a binding in force can be planned from |
| workflow engine (`domain/workflow`) | workflow instances | `start`, `advance` | only `start` has a caller |
| conversation (`application/conversation`) | messages | intents, requirement change | a change blocks and stales what it affects |
| terminals (`application/terminal`) and their panel (`apps/desktop`, `DevelopmentWorkspace.tsx`) | sessions, rings of output, timers; the session the panel shows and its `latestSeq` | `create`, `kill`, `outputSince`, exits; starts and polls | legal transitions only, killed shells die, no output passed over |
| HTTP API (`api/routes.ts`, hooks in `main.ts`) | table `idempotency_keys`, `shuttingDown` | onRequest and onSend hooks | a retry does not repeat what was answered |
| mobile control (`services/mobile`) | documents `mobile_device`; pending tokens in memory | pairing, exchange, revocation, messages | roles, revocation for good |
| safe editing (`application/editing`) | documents `edit_lease` | `acquireLease`, `checkAndApply`, `release` | no lost update of a file |
| canon, conflicts, capacity, drift, memory, readiness; persistence; desktop UI | documents | projections; storage; display | mostly data, little control |

They interact by direct calls in one process and by shared documents. `executeTask`
awaits `startTaskRun`, which awaits the whole loop; the loop awaits the runtime and the
gateway; the gateway parks an action until `ApprovalService.resolve` executes it and
calls `approvalUnblockHook`, which resumes the run; `decisions.resolve` (and, over the
phone, `resolveDecisionHook`) does the same for decisions. Cancellation, shutdown,
pause and review write the documents the loop also writes.

Hard behaviours: awaits of several coroutines over one document; cancellation and drain
racing the loop; crash at any await; approvals that outlive or do not outlive the
process; two requests of the same kind at once; verification overlapping with commits.
`PROJECT.json` lists them as hazards, each at its line, with the properties that cover
it.

## Modules

| module | what it models | state and actions |
|---|---|---|
| `AgentOrchestrator` | the orchestrator and recovery | `task`, `run`, `approval`, `decisions` are the documents; `loops` is the set of suspended `executeLoop` calls, each a record with the await it is at (`pc`), its `step` and its consecutive provider `fails`; `stopping` and `drainQueue` are `cancelRun` and `stopAllActive` behind `runtime.stop`. One action per await that completes: `SessionStarted`, `ProviderFatal`, `ProviderDegraded`, `BackoffOver`, `ProposesFinish`, `RaisesDecision`, `ActionAllowed`, `ActionOver`, `ActionNeedsApproval` |
| `ProjectService` | composes it with the requests that start, review, pause, answer and approve, with shutdown and with a restart after a crash at any point | `requests`, `reviews` count the suspended `executeTask` and `reviewAndMaybeComplete` calls of a task |
| `RunLifecycle` | the abstract contract of a run: driven by one coroutine at a time with a fixed number of answers, parked and taken on again, over for good, or stranded by a restart | `phase[r]`, and `left[r]`, the answers its driver may still get. `ProjectService` maps its documents and `loops` to them (`runPhase`, `awaitsLeft`) |
| `OneShotAction` | the abstract contract of the gateway | a phase per action: none, held, running, over, refused |
| `ActionGateway` | gateway, policy and approvals in detail, for every kind of request the callers build | documents `action`, `approval`; `pendingExecutors`, `executing` in memory; the counters `executions`, `unblocked` and `born` are history |
| `TaskCompletion` | evidence, freshness, reviews and the completion predicate of one task, under commits, pauses and requirement changes | `collections` and `reviewers` are the suspended calls with what they copied; `runner` the blockers a run copied |
| `RuntimeRouting` | bindings, presets, overrides, auto-composition and resolution of the team composer; discovery and registry; the breaker; what runs report to it | `binding` and `override` are documents; `discovered` is the catalog, which every discovery replaces, `registered` the registry, which only the boot's discovery fills; `openedAt` is `closed`, `hot` during the cooldown and `cool` after it; `probes` (history) counts the starts let through since the breaker opened |
| `Discovery` | a mission from its submission to its plan: intent gate, coverage, questions, answers, specification, contract and planning gate | one record per suspended call in `calls`, with what it read before its await; one action per await that completes |
| `TaskPlanning` | composed workflows, their bindings, plans from them or from a decomposition, and `executeTask`'s gate | `defs`, `binding`, `tasks` are documents; `calls` the suspended `planDeliveryTasks`; `plans` (history) the order each plan was to enforce. The depth-first searches of the code are constants, `Valid` and `Order`, of which `PlanningConstants` says all that is assumed: `Order` lists steps once and upstream first |
| `Workflows`, `WorkflowSearch` | what a workflow, its order and its cycles are; the searches of `validate` and `planTasksFromWorkflow` as recursive operators, kept apart because no prover here expands one | `MCTaskPlanning` gives them to `TaskPlanning` as its constants |
| `CliSession` | one run on a CLI: spawn, stream, outcome, timeout, stop, the kill of the process group, the loop that polls, and the shutdown, whose `process.exit` takes loop and timers with it | `s` is the adapter's session, `child`, `exit` and `kin` the processes, `timers` what is pending, `loop` where `executeLoop` is, `host` the daemon's process |
| `Terminals` | shells, their ends, kills and SIGKILL timers, and the shutdown | `terminals` is the service's map, `daemon` the process, `illegal` (history) that a transition was refused, a kill's included |
| `TerminalPanel` | the rings of the terminals and the desktop's panel, which shows one terminal after the other and keeps one `latestSeq` for all of them | `shells` are the terminals as a poll sees them, `panel` the component's state with the answers on their way; `strayed` (history) says that another terminal's output was taken for that of the one shown |
| `DaemonApi` | what a mutating request goes through: shutdown guard, recorded responses, device credentials, body, handler, response; the handlers of the mobile companion | `calls` are the requests past the hooks, `recorded` the table, `tokens` the pending pairings; `use`, `heard` and `again` (history) are the clients' side, `closed` says who resolved an item |
| `MC*` | TLC instances | constants, symmetry |
| `*_proofs` | theorems | |

`run[r].gen`, `swept`, `started`, the three counters of the gateway and what the table
calls history are not in the code: they name coroutines apart or remember the past for a property. In
`TaskCompletion` evidence is a set of records: two equal ones are one, which neither
the predicate nor the sweep can tell apart.

Definitions named as mutants in a comment are not part of any specification. Each is a
plausible bug; replacing the definition it stands before makes a property fail, which
shows that the property can.

Abstractions: a failure reason is one of five; a decision is counted by task and kind;
of an action's request only risk, preset, reversibility, the path guard's answer and
whether a run waits remain; runtime selection in `startTaskRun` ends in a runtime or in
`StartLockedOut`; sessions (read by the stall watchdog only) are left out.
`runtime.start` of both adapters does not fail, so there is no action for it. In
`RuntimeRouting` a start is one step (resolution and the put of the run are in one turn
of the event loop), and PREFERRED degrades as AUTO does. In `Discovery` a mission is the
set of keywords it matches and scores are in hundredths. In `CliSession` a stream is a
sequence of kinds of lines. In `TerminalPanel` a chunk is its number and a poll is
answered when it is sent: an answer made later would only lack chunks the ring lost. In `DaemonApi` a key
stands for (key, method, url), an item is an approval or a decision, and the work of
routes modelled elsewhere is `work`; that the table itself refuses a write, which the
hook swallows, is left out.

## Runs

| run | bounds | what it shows |
|---|---|---|
| `project_service` | 1 task, 2 runs, 2 steps, 1 provider failure, 1 park per run, 1 restart | `SingleDriver`, `NoOrphanRun`, `LoopsMatchRuns`, `SettledIsFinal`, the refinement `RunLifecycleSpec`, types. Two runs are the smallest number that meet over one task; the properties speak of one run and its task, and one park suffices for a second loop of a run. Runs are interchangeable, so they are a symmetry set (no liveness there) |
| `run_liveness` | 1 task, budget 1 with a spare run identity, 2 concurrent requests, 3 steps, 2 provider failures, 2 parks, no restart | `RunLeavesRunning`, `AttemptsBounded`, and `ParkedRunHasWaker` while the daemon stays up. Three steps and two failures let failures and successes alternate |
| `action_gateway` | 2 actions, 2 restarts | the safety properties of the gateway, `RunHearsOfOutcome`, and the refinement `OneShotSpec`. Actions do not share state, so two show that they do not |
| `evidence_freshness` | HIGH risk (three reviewers), 2 overlapping verification passes, 2 commits, 1 review | `SweptEvidenceIsCurrent`, `StaleStaysStale`, `DoneIsEarned`. Two passes and a return to an old commit are what the first two are about; that several reviews at once change nothing for the third is the theorem `DoneIsAlwaysEarned` |
| `runtime_routing` | 1 project, 1 role that needs a workspace and the network (the mock has only the first, the API runtime only the second), 1 CLI besides the mock and the API runtime, threshold 3, 3 runs, 1 fallback | `BreakerAgrees`, `OneProbe`, `AutoComposedTeamFits`. Breakers of different runtimes share nothing; three runs are enough for a probe, an older run that still reports, and a third start. The role is served when the CLI is found and by nothing when it is not, so the composer takes both ways |
| `discovery` | the 22 categories, scores and 8 templates of the code, 1 mission of HIGH risk, 2 concurrent calls, 1 skip, 1 further request | `OneQuestionPerCategory`, `AnswersSuffice`, `InterviewNeverStalls`, `UnforcedPlanIsGrounded`. Two calls are what overlaps; calls are interchangeable (symmetry, no liveness there) |
| `task_planning` | 2 projects, 1 definition edited among 3 flows (a chain listed backwards, a cycle, a cycle the entry does not reach), 3 decompositions (one sound, one that aborts, one with an unknown role), 2 plans | `ComposedOrderEnforced`, `ComposedPlanIsRunnable`, `ActiveBindingUsable`. Before it starts, TLC evaluates the assumptions of `MCTaskPlanning` on the searches, for all workflows of three steps and up to four edges, against definitions by sets: `OrderIsUpstreamFirst` (what `TaskPlanning` assumes of `Order`), `OrderIsComplete`, `ValidIsAcyclicFromEntry` |
| `cli_session` | 5 streams, 4 texts of stderr, a buffer of 3 lines, Codex, no leftovers, a shutdown at any time | `NeverRerun`, `SuccessIsReal`, `StopKeepsItsReason`, `RunSettles`, `StopKillsGroup` |
| `terminals` | 2 terminals, piped or pseudo-terminals | `TransitionsLegal`, `KilledShellDies`. Terminals share nothing but the shutdown |
| `terminal_panel` | 2 terminals one after the other, 3 chunks, a ring of 2, 2 polls in flight | `PanelMissesNothing`. Three chunks overflow the ring, two polls overtake each other, and a poll about the first terminal can be answered while the second is shown |
| `daemon_api` | 1 key, 3 requests in flight, 1 phone, a dangerous and an ordinary item, 1 restart | `RetryNeverRepeats`, `RevocationIsFinal`, `SilencedForGood`. A key concerns one request, a token one device |

Bounds named in the modules: `MaxParks`, `MaxRequests`, `MaxRestarts`, `MaxRevision`,
`MaxCollections`, `MaxReviews`, `MaxFallbacks`, `MaxRuns`, `MaxMissions`, `MaxSkips`,
`Slots`, `MaxWorkflows`, `MaxTasks`, `MaxPlans`, `Capacity`, `MaxTerms`, `MaxStarts`,
`MaxOutput`, `MaxPolls`, `MaxDevices`, `MaxInFlight`; `StepBound` is the 50 of the loop,
`ProviderFailureLimit` its 3 and `RingLimit` the 2000 of a terminal, scaled down. The
proofs hold for all values of them. `MCProjectService`, `MCActionGateway`, `MCDiscovery`,
`MCDaemonApi` and `MCTerminalPanel` allow deadlock: a drained daemon exits, and when every
action is over, or every request of the bound was made, there is nothing left to do.

The run `cancel_resurrects` states what the comments of `agent-orchestrator.ts:355` and
`:382` say and the code does not do: a cancelled run comes back when its loop stores its
copy (a finding in `PROJECT.json`).

### Divergences seen while modelling

The models follow the code; these are places where it departs from what the repository
says. Those in the models can be replayed by stating the sentence as a property.

- `agent-orchestrator.ts:534` counts cancellations towards the escalation, against
  `:525-526`; with the defaults of `lib/config.ts:75-76` the escalation offers an attempt
  (`:549`) that `startTaskRun` refuses (`:86`), which leaves the task RUNNING.
- `recoverOrphanedRuns` skips RUNNING runs without a session (`crash-recovery.ts:17`), so a
  run whose daemon crashes before `runtime.start` returns stays RUNNING without a loop and
  counts against `maxConcurrentRuns` until somebody cancels it; `:6-7` says every RUNNING
  run is an orphan. `NoOrphanRun` is about runs with a session for this reason; `RunLifecycle` calls
  the others stranded.
- After a restart a WAITING_APPROVAL run keeps an approval the boot expired
  (`main.ts:73`), or one that was granted and whose execution the restart cut off;
  `crash-recovery.ts:7-8` says it stays resumable.
- A late review, pause, answer or loop moves a DONE task (`project-service.ts:503`,
  `main.ts:252`), though `state-machines.ts:41` lists no move out of DONE.
- A commit after a verification pass stales nothing (`project-service.ts:491`), against
  `README.md:98-99`.
- A breaker whose probe fails stays half-open with `probing` set (`circuit-breaker.ts:45-56`).
- A LOCKED runtime without an adapter is executed on the mock (`runtime-registry.ts:23-24`),
  against `agent-orchestrator.ts:110`: `model-api-only`, or a CLI whose parked run is resumed
  after a restart before discovery answers.
- `team_binding` is keyed by the role alone (`team-composer-service.ts:160-166`,
  `document-repository.ts:60-66`): a project's binding replaces every other project's and
  the organisation's default. `main.ts:208` passes no context, so no routing rule applies.
- When the provider throws, a HIGH-risk mission may be classified for direct
  implementation (`intent-gate-service.ts:83-85`, against `:79`).
- `validate` accepts a cycle that its entry does not lead to
  (`workflow-composer-service.ts:93` says the graph is acyclic); the plan made of it breaks
  off at the cycle, after the tasks before it were stored.
- A decomposition that aborts leaves READY tasks without dependencies
  (`task-planning-service.ts:96`, against `:26`).
- A CLI that exits while children hold its output open never closes, and a stop then
  kills nothing (`cli-runtime-adapter.ts:405,:472`, against `:513`): `Leftovers = TRUE`
  refutes `StopKillsGroup` and `RunSettles`. A missing CLI is retried, against `:480`.
- The shutdown stops runs and kills shells, closes the server and calls `process.exit`
  (`main.ts:535-556`); nothing in it waits for the SIGKILL timers, and the server only for
  clients that still wait for an answer. A CLI, or what it started, that ignores SIGTERM
  therefore survives its stop, against `agent-orchestrator.ts:216-217` ("so no CLI child
  outlives the daemon"), `main.ts:533` and `cli-runtime-adapter.ts:473`: stating
  `host = "exited" ~> child # "alive"` of `CliSession` is refuted.
- In the same way a shell that ignores SIGTERM survives its kill, against `main.ts:544` ("no
  shell outlives the daemon"); and since terminals are killed before the server closes, a
  terminal request already admitted opens a shell nobody kills. `StopKillsGroup`,
  `RunSettles` and `KilledShellDies` excuse the exit for these reasons, and the last one
  pseudo-terminals because they get no SIGKILL.
- A run that is stopped during a backoff may be given another reason: its next polls fail
  without being fatal, and the failure of the third in a row is written without a look at the
  run (`agent-orchestrator.ts:372`, against `:355`). `StopKeepsItsReason` is about the fatal
  failure the comment stands at.
- The panel does not look which terminal an answer is about (`DevelopmentWorkspace.tsx:270-281`):
  a late answer about an earlier one prints its chunks into the terminal shown, sets its
  status, and sets `latestSeq`, after which chunks of the shown one up to that number are
  never asked for although the ring holds them. `PanelMissesNothing` excepts such answers.
- A user's role may require `network` (`routes.ts:455`). With no runtime that has its tools,
  `autoCompose` binds it to the mock and `validate` reports the mismatch
  (`team-composer-service.ts:261,280`); `AutoComposedTeamFits` says that there is no other way
  to one.
- `GET /api/runtimes/discover` replaces the catalog and leaves the registry alone
  (`main.ts:469-472`): a CLI installed meanwhile is offered, bound and resolved to, and runs
  on the mock.
- A message of a phone that passed `authenticate` and waits for its body is acted on after the
  phone was revoked (`routes.ts:92-107`). `SilencedForGood` says what holds after those.
- A retry that overlaps the first request, or follows a crash between effect and record,
  executes twice (`main.ts:417,:437`, against `:411-412`), and so does one that follows an error
  answer, which is never recorded (`heard` counts recorded answers alone); requests past the hooks run
  their handlers during the drain (against `:395-396`).

### Fairness

(`ProjectService`, `ActionGateway`) Weak fairness is assumed of what the process does by itself: a pending adapter call
answers (the CLI adapter kills its child after a timeout, `cli-runtime-adapter.ts:404`),
sleeps end, `runtime.stop` returns, an executor answers (`ShellTool` runs under a
timeout), the capability probe returns. It is stated per loop (`Drives(r, g)`), so one
busy run does not excuse another. No request, approval, answer, crash or restart is
ever assumed to come.

`CliSession`: the loop goes on polling, a closed child is told, backoffs and the
adapter's two timers expire, all of it while the daemon's process lives; nobody promises
that it lives until a timer expires. The CLI itself is never assumed to answer or to exit.
`Terminals`: the daemon handles what it admitted and finishes its shutdown, its SIGKILL
timers expire and the end of a process is told; a shell may ignore every other signal.


## Proofs

All theorems hold for every set of tasks and runs (runs finite), every value of the limits
and every dependency graph, from the named assumptions of the modules.

`ProjectService_proofs` (`Inv == Core /\ Rest`). That a run has one driver is not
inductive: `resumeRun` would start a second loop if a parked run could still have one.
`Core` therefore joins `SingleDriver` with `LoopsMatchRuns` (a driven run is not stored as
parked, and its loop is its last one), `NoOrphanRun` and `RunsWellFormed` (a run has a
task exactly when it exists; a parked run can be resumed once more within the bound). One
lemma per way a step changes runs and loops (`LeaveCore`, `LeaveSettledCore`, `GotoCore`,
`FailCore`, `ResumeCore`, `StartCore`, `RestartCore`) shows that `Core` is kept; one lemma
per group of actions adds the types. Theorems: `TypeCorrect`, `OneDriver`, `NoRunIsLost`,
`LoopsAgree`; from the list of ways a step changes a run (`RunSteps`), `SettledStays` (an
action property) and `AttemptBudget` (cardinalities of finite sets).

`WakerUntilRestart`: a run parks in the step that requests its approval (`LoopParks`,
`OthersPark`), and until a restart the approval of a parked run only moves on in the steps
that wake it (`WakerStays`, `WakerStep`). The restart is what breaks it, and is excluded
by hypothesis (see the divergences).

`RunsKeepLifecycle`: the daemon implements `RunLifecycle`. A driven run maps to `driven`
whatever its document says, since a loop may still overwrite it; a run nobody drives maps to
what is stored. `AwaitsLeft` is the variant of the loop: two awaits for each step that
remains, one or two for the current one, and three before the first, 2 * `StepBound` + 1 in all;
`LoopAdvances` shows that each completed await lowers it, a backoff after a provider failure included,
because `NextPass` counts failed steps too. With `Core` a step changes one run's phase only
(`OneRunChanges`, `SameForRun`), and there is one lemma per action of the contract
(`DriveRefines`, `WorkRefines`, `LeaveRefines`, `FailRefines`, `RestartRefines`). This is the
safety half of `RunLeavesRunning`: a loop whose awaits all complete ends.

`ActionGateway_proofs` (`Inv == TypeOK /\ Consistent`). `Consistent` says, by the state of
an action's approval, how often it ran, whether it runs, and whether its run was told: a
grant is safe because an open approval implies an action that has not run, a direct
execution because nothing with an approval is executed directly. Theorems: the safety
properties of the run, `NoZombies` (an action property), and `ImplementsOneShot`: each
action maps to the action of the contract with the same name, via the phase that
`executing`, `executions` and the approval determine. `OutcomeIsTold` is the safety half of
`RunHearsOfOutcome`: a refusal tells the run in its own step, and a granted action of this
process has told it unless its executor is still at work (`Told`).

`RuntimeRouting_proofs`. `BreakerAgrees` is inductive only together with what `probing`
and `probes` say of each other (`BreakerInv`: a start was let through exactly while a
probe is remembered), and a report reaches the breaker of the runtime the run recorded
(`ReportsOfItself`), also after a resume has put the run on the stand-in.

`ComposedTeamFits`: a composed role is bound to a member of its pool, which fits the role
unless no available runtime does, and then it is the mock (`PoolFits`,
`ComposedMismatches`). Nothing is assumed of the tools: built-in roles need what the mock
has, a role that a user adds may ask for `network`, which it lacks.

`Discovery_proofs`. `QuestionsInv`: the coverage analysis may be old when the question is
written, but the categories asked are read in the same turn as the put. `InterviewInv`:
while a mission is neither ready nor out of questions and none is open, some coroutine is
on its way to ask (`GoesOn`). `GroundedInv`: what the gate counts as answered is a
requirement already, and requirements only grow, so the plan, which reads them after
another await, has them; that a ready mission has no critical category left is
`ReadyNeedsCritical`.

`ChildProcesses_proofs` is about `CliSession`, `Terminals` and `TerminalPanel`, whose
definitions have names of their own so that one module can extend them all. `Answered`: once the CLI was
started, a loop that is not waiting for it finds an outcome in the session, so no poll
starts another. `SuccessInv`: once a result is recorded the loop is over, so the session
of a run that succeeded is neither timed out nor stopped afterwards; the result itself
came of a clean exit and of what was kept of the stream. `TerminalInv`: a shell that is
gone has ended somehow, so its end always maps to a status. `PanelInv`: the panel `Covers`
the terminal it shows when it has seen what it passed over and would have after each of the
answers about it still under way - which is what makes the order of their arrival
irrelevant; a terminal that was not yet shown has no answers under way (`Known`), so a start
begins with nothing to cover, whatever was polled before.

Two more invariants are the safety halves of liveness properties: they name who owes the next
step, and fairness only has to let it happen. `EndIsOwedAlways` (for `RunSettles` and
`StopKillsGroup`): while the loop waits, the child has closed, or lives under its time limit,
or has a SIGKILL coming; a stop that finds anything of the group alive leaves a SIGKILL
pending; both while the daemon's process lives, and but for what outlives a CLI that exited
by itself (`Leftovers`). It is inductive with
`GroupInv`, which knows that a live child has no exit code - what `stop` looks at.
`KillIsPendingAlways` (for `KilledShellDies`): a piped shell that survived its kill has its
SIGKILL timer, through shutdown, late output and ends that are told late.

`TaskPlanning_proofs` (`PlanningInv`). A planning call is the only one of its plan, which
has no tasks before it is over (`CallsPlanNothingYet`); the tasks of a composed plan wait
for earlier tasks of the same plan, one for each step that was upstream (`TasksOrdered`).
The second part needs that the search lists every step once, after all it waits for. Then
the first task of a plan that is not DONE waits for none (`ComposedPlansRun`), and the
gate of `executeTask` asks for all upstream steps (`ComposedOrderHolds`, an action
property). `BindingsLead` joins definitions and bindings for `BindingsUsable`.

`DaemonApi_proofs`. `HeardIsRecorded`: no client has heard an answer that is not recorded,
because the hook writes before it sends; `Documents` carries the shapes and what the items
were resolved by. A revoked device is left alone by each handler (`HandlerEffect`).
`SilencedForGood` follows from the two ways a message could still act: being let in, which
`authenticate` refuses, and having been let in, of which there is none (`SilenceLasts`).

`TaskCompletion_proofs` (`CompletionInv`). `SweptEvidenceIsCurrent` speaks of the current
commit and is not inductive: the code may move away and back. `SweptIsLast` speaks of the
last sweep instead: a pass that stores evidence still has its own sweep to come, so when
none is under way FRESH evidence is about the commit swept last. `PassesInBounds`: a pass
that is not at its sweep is at one of the required types. `DoneIsEarned` needs that the
predicate reads evidence and reviews after the last await of the review.

Model-checked only: liveness under fairness (`RunLeavesRunning`, `RunHearsOfOutcome`,
`RunSettles`, `StopKillsGroup`, `KilledShellDies`), which this prover does not do beyond the
safety halves above; `AnswersSuffice`, which is a fact about the scores and thresholds of
the code, data that the run `discovery` has; and the depth-first searches (`OrderIsUpstreamFirst`,
`OrderIsComplete`, `ValidIsAcyclicFromEntry`), since what a recursive operator returns for
every graph needs an induction over data that no prover here can do.

## Not modelled

- Creation and deletion of roles: the set of roles is a constant, with any requirements.
- The workflow engine: production code calls `start` only, so no instance ever moves.
- Safe editing: a demonstration route acquires leases, the shutdown releases them, and no
  caller applies an edit under one.
- `executionOrder` of planning and `snapshot` of the breaker have no callers.
- Persistence: synchronous, one atomic step of whatever action contains it.
- Advisory services, canon, research results, the contract's sections, the conversation's
  other intents, projections for the UI, and the desktop beyond its terminal panel: data
  and display with little control of their own.
- Model providers and CLIs are external: what they may answer is an input.

What a next stage could add: the composition of `ProjectService` with two dependent tasks
and with `TaskCompletion`'s predicate in place of `EndReview`'s free choice.
