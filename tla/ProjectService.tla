-------------------------- MODULE ProjectService --------------------------
(***************************************************************************)
(* The daemon around the orchestrator: the requests that start, review,    *)
(* pause and unblock tasks (project-service.ts, decision-service.ts,       *)
(* approval-service.ts and the hooks main.ts installs), graceful shutdown, *)
(* and a restart after a crash or an exit.                                 *)
(***************************************************************************)
EXTENDS AgentOrchestrator

CONSTANTS
  dependencyTaskIds,  \* [Tasks -> SUBSET Tasks], from planning
  MaxRequests,        \* bound: concurrent requests of one kind on one task
  MaxRestarts         \* bound: restarts of the daemon

ASSUME ServiceConstants ==
  /\ dependencyTaskIds \in [Tasks -> SUBSET Tasks]
  /\ MaxRequests \in Nat \ {0} /\ MaxRestarts \in Nat

VARIABLES
  requests,  \* executeTask calls past their guards, awaiting the capability probe
  reviews,   \* reviewAndMaybeComplete calls awaiting the reviewers
  phase,     \* "up", or "draining" once shutdown has begun
  restarts

serviceVars == <<requests, reviews, phase, restarts>>
vars == <<orchestratorVars, serviceVars>>

Init ==
  /\ OrchestratorInit
  /\ requests = [t \in Tasks |-> 0]
  /\ reviews = [t \in Tasks |-> 0]
  /\ phase = "up"
  /\ restarts = 0

-----------------------------------------------------------------------------
(* executeTask. *)

\* Its guards, up to the await of requiredCapabilitiesMissing.
ExecuteTask(t) ==
  /\ phase = "up" /\ requests[t] < MaxRequests
  /\ task[t] \in {"READY", "QUEUED", "BLOCKED"}
  /\ \A d \in dependencyTaskIds[t] : task[d] = "DONE"
  /\ requests' = [requests EXCEPT ![t] = @ + 1]
  /\ UNCHANGED <<orchestratorVars, reviews, phase, restarts>>

\* The rest of it, through startTaskRun up to runtime.start.
CapabilityProbed(t) ==
  /\ requests[t] > 0
  /\ requests' = [requests EXCEPT ![t] = @ - 1]
  /\ \/ /\ task' = [task EXCEPT ![t] = "BLOCKED"]   \* a capability is missing
        /\ UNCHANGED <<run, loops>>
     \/ StartRefused(t, "RUNNING")
     \/ StartLockedOut(t)
     \/ StartCreatesRun(t, "RUNNING")
  /\ UNCHANGED <<approval, decisions, stopping, drainQueue, reviews, phase, restarts>>

-----------------------------------------------------------------------------
(* reviewAndMaybeComplete: nothing looks at the status the task has. *)

BeginReview(t) ==
  /\ phase = "up" /\ reviews[t] < MaxRequests
  /\ task' = [task EXCEPT ![t] = "REVIEW"]
  /\ reviews' = [reviews EXCEPT ![t] = @ + 1]
  /\ UNCHANGED <<run, approval, decisions, loops, stopping, drainQueue, requests, phase, restarts>>

\* The reviewers answered; the completion predicate decides (or one threw).
EndReview(t) ==
  /\ reviews[t] > 0
  /\ reviews' = [reviews EXCEPT ![t] = @ - 1]
  /\ \E canComplete \in BOOLEAN :
       task' = [task EXCEPT ![t] = IF canComplete THEN "DONE" ELSE @]
  /\ UNCHANGED <<run, approval, decisions, loops, stopping, drainQueue, requests, phase, restarts>>

-----------------------------------------------------------------------------
(* Governance. *)

\* decisions.resolve: the answer queues the task, whatever its status.
Answer(t, k) ==
  /\ decisions[t][k] > 0
  /\ decisions' = [decisions EXCEPT ![t][k] = @ - 1]
  /\ task' = [task EXCEPT ![t] = "QUEUED"]

\* POST /api/decisions/:id/resolve.
AnswerByRest(t, k) ==
  /\ phase = "up"
  /\ Answer(t, k)
  /\ UNCHANGED <<run, approval, loops, stopping, drainQueue, serviceVars>>

\* The mobile command, which goes on to resolveDecisionHook.
AnswerByMobile(t, k) ==
  /\ phase = "up"
  /\ Answer(t, k)
  /\ LET waiting == {r \in RunsOf(t) : run[r].status = "WAITING_DECISION"}
     IN \/ waiting = {} /\ UNCHANGED <<run, loops>>
        \/ \E r \in waiting : resumeRun(r)
  /\ UNCHANGED <<approval, stopping, drainQueue, serviceVars>>

\* approvals.resolve with ALLOW_ONCE or APPROVED, up to the approved execution ...
Approve(r) ==
  /\ phase = "up" /\ approval[r] = "REQUESTED"
  /\ approval' = [approval EXCEPT ![r] = "GRANTED"]
  /\ UNCHANGED <<task, run, decisions, loops, stopping, drainQueue, serviceVars>>

\* ... and after it: the run is unblocked with the result.
ApprovedActionOver(r) ==
  /\ approval[r] = "GRANTED"
  /\ approval' = [approval EXCEPT ![r] = "RESOLVED"]
  /\ resumeRun(r)
  /\ UNCHANGED <<task, decisions, stopping, drainQueue, serviceVars>>

\* mutant: a rejection that forgets the run.
RejectsSilently(r) ==
  /\ phase = "up" /\ approval[r] = "REQUESTED"
  /\ approval' = [approval EXCEPT ![r] = "RESOLVED"]
  /\ UNCHANGED <<task, run, decisions, loops, stopping, drainQueue, serviceVars>>

\* approvals.resolve with REJECTED or CANCELLED awaits nothing.
Reject(r) ==
  /\ phase = "up" /\ approval[r] = "REQUESTED"
  /\ approval' = [approval EXCEPT ![r] = "RESOLVED"]
  /\ resumeRun(r)
  /\ UNCHANGED <<task, decisions, stopping, drainQueue, serviceVars>>

\* The mobile pauseTask and resumeTask hooks.
pauseTask(t) ==
  /\ phase = "up"
  /\ task' = [task EXCEPT ![t] = "BLOCKED"]
  /\ UNCHANGED <<run, approval, decisions, loops, stopping, drainQueue, serviceVars>>

resumeTask(t) ==
  /\ phase = "up"
  /\ \A k \in DecisionKinds : decisions[t][k] = 0
  /\ task' = [task EXCEPT ![t] = "READY"]
  /\ UNCHANGED <<run, approval, decisions, loops, stopping, drainQueue, serviceVars>>

-----------------------------------------------------------------------------
(* Shutdown, and a restart after the exit or after a crash. *)

shutdown ==
  /\ phase = "up"
  /\ phase' = "draining"
  /\ stopAllActive
  /\ UNCHANGED <<requests, reviews, restarts>>

\* The process is gone with its coroutines; main() expires unresolved
\* approvals and finalizes orphaned runs before it accepts work.
Restart ==
  /\ restarts < MaxRestarts
  /\ restarts' = restarts + 1
  /\ phase' = "up"
  /\ loops' = {} /\ stopping' = {} /\ drainQueue' = {}
  /\ requests' = [t \in Tasks |-> 0]
  /\ reviews' = [t \in Tasks |-> 0]
  /\ approval' = [r \in Runs |-> CASE approval[r] = "REQUESTED" -> "EXPIRED"
                                  [] approval[r] = "GRANTED" -> "RESOLVED"
                                  [] OTHER -> approval[r]]
  /\ recoverOrphanedRuns
  /\ UNCHANGED decisions

-----------------------------------------------------------------------------

Orchestration ==
  /\ \/ \E l \in loops : LoopStep(l)
     \/ \E r \in Runs : CancelFinishes(r) \/ Drained(r)
     \/ phase = "up" /\ \E r \in Runs : CancelRun(r)
  /\ UNCHANGED serviceVars

Requests ==
  \/ \E t \in Tasks : ExecuteTask(t) \/ CapabilityProbed(t) \/ BeginReview(t) \/ EndReview(t)
  \/ \E t \in Tasks : pauseTask(t) \/ resumeTask(t)
  \/ \E t \in Tasks, k \in DecisionKinds : AnswerByRest(t, k) \/ AnswerByMobile(t, k)
  \/ \E r \in Runs : Approve(r) \/ ApprovedActionOver(r) \/ Reject(r)

Next == Orchestration \/ Requests \/ shutdown \/ Restart

Spec == Init /\ [][Next]_vars

\* What the process does by itself: an adapter answers (the CLI adapter kills
\* its child at a timeout), a sleep ends, a stopped session is finalized, an
\* approved action and a probe return.  No request is ever owed.
Drives(r, g) == (\E l \in loops : l.run = r /\ l.gen = g /\ LoopStep(l)) /\ UNCHANGED serviceVars
Stops(r) == (CancelFinishes(r) \/ Drained(r)) /\ UNCHANGED serviceVars
Fairness ==
  /\ \A r \in Runs, g \in 1..(MaxParks + 1) : WF_vars(Drives(r, g))
  /\ \A r \in Runs : WF_vars(Stops(r)) /\ WF_vars(ApprovedActionOver(r))
  /\ \A t \in Tasks : WF_vars(CapabilityProbed(t))
FairSpec == Spec /\ Fairness
-----------------------------------------------------------------------------

TypeOK ==
  /\ task \in [Tasks -> TaskStatus]
  /\ run \in [Runs -> Run]
  /\ approval \in [Runs -> {"NONE", "REQUESTED", "GRANTED", "RESOLVED", "EXPIRED"}]
  /\ decisions \in [Tasks -> [DecisionKinds -> Nat]]
  /\ loops \subseteq Loop
  /\ stopping \subseteq Runs /\ drainQueue \subseteq Runs
  /\ requests \in [Tasks -> 0..MaxRequests] /\ reviews \in [Tasks -> 0..MaxRequests]
  /\ phase \in {"up", "draining"} /\ restarts \in 0..MaxRestarts

\* A run never has two coroutines driving it, whatever order cancellation,
\* approval, decision and restart come in: each of them would issue actions
\* for the run and store its own copy of it.
SingleDriver == \A l, m \in loops : l.run = m.run => l = m

\* A stored run that claims to be RUNNING with a runtime session has a
\* coroutine driving it; otherwise nothing would ever finish it.
NoOrphanRun == \A r \in Runs : run[r].status = "RUNNING" /\ run[r].session => Driven(r)

\* A coroutine and the document of its run tell the same story: a run somebody
\* drives is not stored as parked, where an answer would start a second driver,
\* and only the last loop started for a run is alive.
LoopsMatchRuns ==
  \A l \in loops :
    /\ run[l.run].status \notin Parked \cup {"NONE"}
    /\ l.gen = run[l.run].gen
    /\ l.pc # "backoff" => l.fails < ProviderFailureLimit

\* The attempt budget holds across concurrent executeTask calls.
AttemptsBounded == \A t \in Tasks : Cardinality(RunsOf(t)) <= MaxRunAttempts

\* Once no coroutine can still write it, a settled run never changes again.
SettledIsFinal ==
  [][\A r \in Runs :
       /\ run[r].status \in Settled
       /\ ~Driven(r) /\ r \notin stopping \cup drainQueue
       => run'[r] = run[r]]_vars

\* A run parked on an approval has somebody left to wake it: its approval is
\* open, or the approved action is executing.  It holds as long as the daemon
\* does not restart; with a restart it is what crash-recovery.ts:7-8 promises
\* ("stay resumable untouched") and the code does not keep.
ParkedRunHasWaker ==
  \A r \in Runs :
    run[r].status = "WAITING_APPROVAL" => approval[r] \in {"REQUESTED", "GRANTED"}

\* Every run that reached its session leaves RUNNING: the step bound and the
\* provider-failure limit end each loop, and a restart finalizes the rest.
RunLeavesRunning ==
  \A r \in Runs : (run[r].status = "RUNNING" /\ run[r].session) ~> run[r].status # "RUNNING"

-----------------------------------------------------------------------------
(* The runs keep the contract of RunLifecycle. *)

\* How many awaits of the loop can still complete: two for a step, and the start.
AwaitsLeft(l) ==
  2 * (StepBound - 1 - l.step) + (CASE l.pc = "start" -> 3 [] l.pc = "next" -> 2 [] OTHER -> 1)

PhaseOf(r) == CASE Driven(r) -> "driven"
                [] ~Driven(r) /\ run[r].status = "NONE" -> "none"
                [] ~Driven(r) /\ run[r].status \in Parked -> "parked"
                [] ~Driven(r) /\ run[r].status \in Settled -> "over"
                [] OTHER -> "stranded"
LeftOf(r) == IF Driven(r) THEN AwaitsLeft(CHOOSE l \in loops : l.run = r) ELSE 0

runPhase == [r \in Runs |-> PhaseOf(r)]
awaitsLeft == [r \in Runs |-> LeftOf(r)]

Lifecycle == INSTANCE RunLifecycle
             WITH phase <- runPhase, left <- awaitsLeft, Answers <- 2 * StepBound + 1

\* Every run keeps the lifecycle, whoever cancels, answers, approves, drains or
\* restarts between the awaits of its loop: one driver, at most 2 * StepBound + 1
\* answers before it parks the run or settles it, only parked runs resumed, and
\* nothing that is over driven again (executeLoop, resumeRun, cancelRun,
\* stopAllActive, recoverOrphanedRuns).
RunLifecycleSpec == Lifecycle!Spec

-----------------------------------------------------------------------------
(* A claim of the repository that the code does not keep. *)

\* "A concurrent user cancel may have already finalized this run - never
\* overwrite it" (agent-orchestrator.ts:355), "must not be resurrected" (:382).
CancelledStaysCancelled ==
  [][\A r \in Runs : run[r].reason = "CANCELLED" => run'[r].status = "FAILED"]_vars

=============================================================================
