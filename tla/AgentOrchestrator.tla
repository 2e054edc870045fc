------------------------- MODULE AgentOrchestrator -------------------------
(***************************************************************************)
(* The goal-directed execution loop of the daemon: agent runs, the         *)
(* coroutine that drives each of them, and the operations that stop or     *)
(* revive them.                                                            *)
(*                                                                         *)
(* The daemon is one Node.js process, so a piece of code between two       *)
(* awaits is one step here and everything an await separates is two.       *)
(* task, run, approval and decisions are documents: each put is durable.   *)
(* loops, stopping and drainQueue are suspended coroutines and vanish with *)
(* the process.  A coroutine that resumes writes `{...copy, status: X}`,   *)
(* where copy was read before the await: its writes are blind.             *)
(***************************************************************************)
EXTENDS Naturals, FiniteSets

CONSTANTS
  Tasks,                \* task contracts of one project
  Runs,                 \* identities available to newId("run")
  NoTask,               \* the task of a run that has not been created
  MaxRunAttempts,       \* config.maxRunAttempts
  EscalationAfter,      \* config.escalationAfterConsecutiveFailures
  MaxConcurrentRuns,    \* config.maxConcurrentRuns (0: unlimited)
  StepBound,            \* the 50 steps of the loop, scaled down
  ProviderFailureLimit, \* the 3 consecutive provider failures, scaled down
  MaxParks              \* bound: how often one run may park and be resumed

ASSUME OrchestratorConstants ==
  /\ NoTask \notin Tasks /\ IsFiniteSet(Runs)
  /\ MaxRunAttempts \in Nat /\ EscalationAfter \in Nat
  /\ MaxConcurrentRuns \in Nat /\ MaxParks \in Nat
  /\ StepBound \in Nat \ {0} /\ ProviderFailureLimit \in Nat \ {0}

VARIABLES
  task,       \* docs "task": status of each task contract
  run,        \* docs "agent_run"
  approval,   \* docs "approval": the latest approval an action of the run needed
  decisions,  \* docs "decision": number of OPEN decisions, by task and kind
  loops,      \* suspended executeLoop coroutines
  stopping,   \* runs whose cancelRun awaits runtime.stop
  drainQueue  \* runs stopAllActive listed and has not finalized yet

orchestratorVars == <<task, run, approval, decisions, loops, stopping, drainQueue>>

TaskStatus == {"READY", "QUEUED", "RUNNING", "BLOCKED", "VERIFYING", "REVIEW", "DONE"}
Settled == {"FAILED", "SUCCEEDED"}
Parked == {"WAITING_APPROVAL", "WAITING_DECISION"}
RunStatus == {"NONE", "RUNNING"} \cup Settled \cup Parked
Reasons == {"none", "CANCELLED", "SYSTEM_SHUTDOWN", "ORPHANED_BY_RESTART", "IMPLEMENTATION"}
DecisionKinds == {"IMPLEMENTATION_AMBIGUITY", "REVIEW_ESCALATION"}

\* session says that run.sessionId is set.  gen counts the loops started for
\* the run; it is not in the document, it tells the coroutines apart.
Run == [task: Tasks \cup {NoTask}, status: RunStatus, session: BOOLEAN,
        reason: Reasons, gen: 0..(MaxParks + 1)]
NoRun == [task |-> NoTask, status |-> "NONE", session |-> FALSE, reason |-> "none", gen |-> 0]

\* pc: what the coroutine awaits.  start: runtime.start (and the handoff),
\* next: runtime.nextAction, exec: the gateway, backoff: the sleep.
Loop == [run: Runs, gen: 1..(MaxParks + 1), pc: {"start", "next", "exec", "backoff"},
         step: 0..(StepBound - 1), fails: 0..ProviderFailureLimit]

RunsOf(t) == {r \in Runs : run[r].task = t}
Running == {r \in Runs : run[r].status = "RUNNING"}
Driven(r) == \E l \in loops : l.run = r

\* runtime.stop may have been issued for the current session of r: the adapter
\* can reject the pending nextAction with a "/CANCELLED]" failure.
StopIssued(r) == r \in stopping \cup drainQueue

OrchestratorInit ==
  /\ task = [t \in Tasks |-> "READY"]
  /\ run = [r \in Runs |-> NoRun]
  /\ approval = [r \in Runs |-> "NONE"]
  /\ decisions = [t \in Tasks |-> [k \in DecisionKinds |-> 0]]
  /\ loops = {}
  /\ stopping = {}
  /\ drainQueue = {}

-----------------------------------------------------------------------------
(* Starting and resuming a run. *)

NewLoop(r, g) == [run |-> r, gen |-> g, pc |-> "start", step |-> 0, fails |-> 0]

AtConcurrencyLimit ==
  MaxConcurrentRuns > 0 /\ Cardinality(Running) >= MaxConcurrentRuns
LateAttemptsExhausted(t) == Cardinality(RunsOf(t)) > MaxRunAttempts   \* mutant: off by one
AttemptsExhausted(t) == Cardinality(RunsOf(t)) >= MaxRunAttempts

\* startTaskRun up to its first await; status is what its caller just wrote to
\* the task.  The two limits throw and leave that status behind.
StartRefused(t, status) ==
  /\ AtConcurrencyLimit \/ AttemptsExhausted(t)
  /\ task' = [task EXCEPT ![t] = status]
  /\ UNCHANGED <<run, loops>>

StartLockedOut(t) ==
  /\ ~AtConcurrencyLimit /\ ~AttemptsExhausted(t)
  /\ task' = [task EXCEPT ![t] = "BLOCKED"]
  /\ UNCHANGED <<run, loops>>

StartCreatesRun(t, status) ==
  /\ ~AtConcurrencyLimit /\ ~AttemptsExhausted(t)
  /\ task' = [task EXCEPT ![t] = status]
  /\ \E r \in Runs :
       /\ run[r].status = "NONE"
       /\ run' = [run EXCEPT ![r] = [task |-> t, status |-> "RUNNING", session |-> FALSE,
                                     reason |-> "none", gen |-> 1]]
       /\ loops' = loops \cup {NewLoop(r, 1)}

\* { ...run, status: "RUNNING", failureReason: null }
Revived(r) == [run[r] EXCEPT !.status = "RUNNING", !.reason = "none", !.gen = @ + 1]

\* mutant: resumes whatever the run has become.
UncheckedResume(r) ==
  /\ run' = [run EXCEPT ![r] = Revived(r)]
  /\ loops' = loops \cup {NewLoop(r, run[r].gen + 1)}

\* resumeRun: ignored unless the stored run may legally move to RUNNING.
resumeRun(r) ==
  IF run[r].status \in Parked
  THEN /\ run' = [run EXCEPT ![r] = Revived(r)]
       /\ loops' = loops \cup {NewLoop(r, run[r].gen + 1)}
  ELSE UNCHANGED <<run, loops>>

-----------------------------------------------------------------------------
(* What the loop writes when it resumes.  Its copy of the run has sessionId *)
(* set and no failure reason.                                               *)

Stored(r, status, why) ==
  [run EXCEPT ![r] = [@ EXCEPT !.status = status, !.session = TRUE, !.reason = why]]

finishSuccess(l) ==
  /\ run' = Stored(l.run, "SUCCEEDED", "none")
  /\ task' = [task EXCEPT ![run[l.run].task] = "VERIFYING"]
  /\ UNCHANGED decisions

FailuresOf(t, runs) == {r \in Runs : runs[r].task = t /\ runs[r].status = "FAILED"}

finishFailed(l, why) ==
  LET t == run[l.run].task
      failed == Stored(l.run, "FAILED", why)
      escalate == /\ why # "CANCELLED"
                  /\ Cardinality(FailuresOf(t, failed)) >= EscalationAfter
  IN /\ run' = failed
     /\ task' = [task EXCEPT ![t] = IF escalate THEN "BLOCKED" ELSE "READY"]
     /\ decisions' = IF escalate
                     THEN [decisions EXCEPT ![t]["REVIEW_ESCALATION"] = @ + 1]
                     ELSE decisions

Leave(l) == loops' = loops \ {l}
Goto(l, m) == loops' = (loops \ {l}) \cup {m}

\* mutants: a loop that takes one step too many, and one that never counts.
LateBoundPass(l, fails) ==
  /\ l.step + 1 <= StepBound
  /\ Goto(l, [l EXCEPT !.pc = "next", !.step = @ + 1, !.fails = fails])
  /\ UNCHANGED <<task, run, decisions>>
UnboundedPass(l, fails) ==
  /\ Goto(l, [l EXCEPT !.pc = "next", !.fails = fails])
  /\ UNCHANGED <<task, run, decisions>>

\* The end of one pass: the next nextAction, or the step bound.
NextPass(l, fails) ==
  \/ /\ l.step + 1 < StepBound
     /\ Goto(l, [l EXCEPT !.pc = "next", !.step = @ + 1, !.fails = fails])
     /\ UNCHANGED <<task, run, decisions>>
  \/ /\ l.step + 1 = StepBound
     /\ Leave(l)
     /\ finishFailed(l, "IMPLEMENTATION")

-----------------------------------------------------------------------------
(* executeLoop: one action per await that completes. *)

\* runtime.start answered: the run is stored again, with its session handle.
SessionStarted(l) ==
  /\ l.pc = "start"
  /\ Goto(l, [l EXCEPT !.pc = "next"])
  /\ run' = Stored(l.run, "RUNNING", "none")
  /\ UNCHANGED <<task, approval, decisions, stopping, drainQueue>>

\* nextAction threw a providerFatal error.
ProviderFatal(l) ==
  /\ l.pc = "next"
  /\ Leave(l)
  /\ \/ /\ run[l.run].status \in Settled
        /\ UNCHANGED <<task, run, decisions>>
     \/ /\ run[l.run].status \notin Settled
        /\ \/ finishFailed(l, "IMPLEMENTATION")
           \/ StopIssued(l.run) /\ finishFailed(l, "CANCELLED")
  /\ UNCHANGED <<approval, stopping, drainQueue>>

\* nextAction threw any other error: back off before the verdict.
ProviderDegraded(l) ==
  /\ l.pc = "next"
  /\ Goto(l, [l EXCEPT !.pc = "backoff", !.fails = @ + 1])
  /\ UNCHANGED <<task, run, approval, decisions, stopping, drainQueue>>

BackoffOver(l) ==
  /\ l.pc = "backoff"
  /\ \/ /\ l.fails >= ProviderFailureLimit
        /\ Leave(l)
        /\ finishFailed(l, "IMPLEMENTATION")
     \/ /\ l.fails < ProviderFailureLimit
        /\ NextPass(l, l.fails)
  /\ UNCHANGED <<approval, stopping, drainQueue>>

\* The runtime proposed FINISH.
ProposesFinish(l) ==
  /\ l.pc = "next"
  /\ Leave(l)
  /\ \/ /\ run[l.run].status \in Settled
        /\ UNCHANGED <<task, run, decisions>>
     \/ /\ run[l.run].status \notin Settled
        /\ finishSuccess(l)
  /\ UNCHANGED <<approval, stopping, drainQueue>>

\* mutant: raises the decision and stores the run, but asks the runtime again.
RaisesAndContinues(l) ==
  /\ l.pc = "next" /\ l.gen <= MaxParks
  /\ Goto(l, [l EXCEPT !.pc = "next", !.fails = 0])
  /\ run' = Stored(l.run, "WAITING_DECISION", "none")
  /\ task' = [task EXCEPT ![run[l.run].task] = "BLOCKED"]
  /\ decisions' = [decisions EXCEPT ![run[l.run].task]["IMPLEMENTATION_AMBIGUITY"] = 1]
  /\ UNCHANGED <<approval, stopping, drainQueue>>

\* The runtime proposed RAISE_DECISION.
RaisesDecision(l) ==
  /\ l.pc = "next" /\ l.gen <= MaxParks
  /\ Leave(l)
  /\ run' = Stored(l.run, "WAITING_DECISION", "none")
  /\ task' = [task EXCEPT ![run[l.run].task] = "BLOCKED"]
  /\ decisions' = [decisions EXCEPT ![run[l.run].task]["IMPLEMENTATION_AMBIGUITY"] = @ + 1]
  /\ UNCHANGED <<approval, stopping, drainQueue>>

\* WRITE_FILE or RUN_COMMAND, allowed by policy: the gateway executes it.
ActionAllowed(l) ==
  /\ l.pc = "next"
  /\ Goto(l, [l EXCEPT !.pc = "exec", !.fails = 0])
  /\ UNCHANGED <<task, run, approval, decisions, stopping, drainQueue>>

\* ... executed (or denied by policy, which costs the loop no other await).
ActionOver(l) ==
  /\ l.pc = "exec" \/ l.pc = "next"
  /\ NextPass(l, 0)
  /\ UNCHANGED <<approval, stopping, drainQueue>>

\* mutant: parks the run and goes on with the loop.
ParksWithoutReturning(l) ==
  /\ l.pc = "next" /\ l.gen <= MaxParks
  /\ run' = Stored(l.run, "WAITING_APPROVAL", "none")
  /\ approval' = [approval EXCEPT ![l.run] = "REQUESTED"]
  /\ UNCHANGED <<task, decisions, loops, stopping, drainQueue>>

\* ... held for approval: the run parks.
ActionNeedsApproval(l) ==
  /\ l.pc = "next" /\ l.gen <= MaxParks
  /\ Leave(l)
  /\ run' = Stored(l.run, "WAITING_APPROVAL", "none")
  /\ approval' = [approval EXCEPT ![l.run] = "REQUESTED"]
  /\ UNCHANGED <<task, decisions, stopping, drainQueue>>

LoopStep(l) ==
  \/ SessionStarted(l) \/ ProviderFatal(l) \/ ProviderDegraded(l) \/ BackoffOver(l)
  \/ ProposesFinish(l) \/ RaisesDecision(l)
  \/ ActionAllowed(l) \/ ActionOver(l) \/ ActionNeedsApproval(l)

-----------------------------------------------------------------------------
(* Cancellation, shutdown drain, crash recovery. *)

Cancelled(r) ==
  /\ run' = [run EXCEPT ![r] = [@ EXCEPT !.status = "FAILED", !.reason = "CANCELLED"]]
  /\ task' = [task EXCEPT ![run[r].task] = "READY"]

\* cancelRun up to `await runtime.stop`, which a run without a session skips.  The
\* stop of either adapter returns within its turn, so no second cancelRun of the run
\* can meet the first there: one element of stopping is enough.
CancelRun(r) ==
  /\ run[r].status \in Parked \cup {"RUNNING"}
  /\ \/ /\ run[r].session
        /\ stopping' = stopping \cup {r}
        /\ UNCHANGED <<task, run>>
     \/ /\ ~run[r].session
        /\ Cancelled(r)
        /\ UNCHANGED stopping
  /\ UNCHANGED <<approval, decisions, loops, drainQueue>>

\* ... and after it: the copies of run and task read before the await win.
CancelFinishes(r) ==
  /\ r \in stopping
  /\ stopping' = stopping \ {r}
  /\ Cancelled(r)
  /\ UNCHANGED <<approval, decisions, loops, drainQueue>>

\* stopAllActive lists the active runs once ...
stopAllActive ==
  /\ drainQueue' = {r \in Running : run[r].session}
  /\ UNCHANGED <<task, run, approval, decisions, loops, stopping>>

\* ... and finalizes each of them when its runtime.stop has answered.
Drained(r) ==
  /\ r \in drainQueue
  /\ drainQueue' = drainQueue \ {r}
  /\ run' = [run EXCEPT ![r] = [@ EXCEPT !.status = "FAILED", !.reason = "SYSTEM_SHUTDOWN"]]
  /\ task' = [task EXCEPT ![run[r].task] = IF @ = "RUNNING" THEN "READY" ELSE @]
  /\ UNCHANGED <<approval, decisions, loops, stopping>>

\* recoverOrphanedRuns, at boot.
ClaimedOrphans == {r \in Running : run[r].session /\ task[run[r].task] = "RUNNING"}   \* mutant
Orphans == {r \in Running : run[r].session}
recoverOrphanedRuns ==
  /\ run' = [r \in Runs |-> IF r \in Orphans
                            THEN [run[r] EXCEPT !.status = "FAILED", !.reason = "ORPHANED_BY_RESTART"]
                            ELSE run[r]]
  /\ task' = [t \in Tasks |-> IF task[t] = "RUNNING" /\ RunsOf(t) \cap Orphans # {}
                              THEN "READY" ELSE task[t]]
=============================================================================
