--------------------------- MODULE ActionGateway ---------------------------
(***************************************************************************)
(* The gateway every tool action flows through (action-gateway.ts), the    *)
(* policy it asks (preset-policy-engine.ts) and the human approvals it     *)
(* waits for (approval-service.ts).                                        *)
(*                                                                         *)
(* action and approval are documents and survive the process;              *)
(* pendingExecutors is a Map of the gateway and executing stands for the   *)
(* coroutines that await an executor: both are lost with the process.      *)
(* executions and unblocked count, for the properties, how often the       *)
(* executor of an action was called and its run was told of an outcome;    *)
(* born is the process (the restarts before it) that was asked for it.     *)
(***************************************************************************)
EXTENDS Naturals

CONSTANTS
  Actions,      \* identities available to newId("act")
  MaxRestarts   \* bound: restarts of the daemon

ASSUME MaxRestartsIsNat == MaxRestarts \in Nat

VARIABLES action, approval, pendingExecutors, executing, restarts,
          executions, unblocked, born
vars == <<action, approval, pendingExecutors, executing, restarts, executions, unblocked, born>>

Risks == {"READ_ONLY", "WORKSPACE_WRITE", "ELEVATED", "DANGEROUS"}
Presets == {"READ_ONLY", "WORKSPACE", "ELEVATED_ALLOWED"}
Verdicts == {"ALLOW", "DENY", "REQUIRE_APPROVAL"}
ActionStatus == {"NONE", "AWAITING_APPROVAL", "EXECUTING", "SUCCEEDED", "FAILED", "DENIED"}
Granted == {"ALLOWED_ONCE", "APPROVED"}
Refused == {"REJECTED", "CANCELLED"}
ApprovalStatus == {"NONE", "REQUESTED", "EXPIRED"} \cup Granted \cup Refused

\* inside: the target passes assertPathInsideWorkspace; run: input.runId is set.
Request == [risk: Risks, preset: Presets, reversible: BOOLEAN, inside: BOOLEAN, run: BOOLEAN]

\* The requests the callers of executeAction build.
FileWrites == [risk: {"WORKSPACE_WRITE"}, preset: Presets, reversible: {TRUE},
               inside: BOOLEAN, run: {TRUE}]
AgentCommands == [risk: {"READ_ONLY", "ELEVATED", "DANGEROUS"}, preset: Presets,
                  reversible: {FALSE}, inside: {TRUE}, run: {TRUE}]
UserCommands == [risk: {"READ_ONLY", "ELEVATED", "DANGEROUS"}, preset: {"ELEVATED_ALLOWED"},
                 reversible: {FALSE}, inside: {TRUE}, run: {FALSE}]
Verifications == [risk: {"ELEVATED"}, preset: {"ELEVATED_ALLOWED"}, reversible: {TRUE},
                  inside: {TRUE}, run: {FALSE}]
Requests == FileWrites \cup AgentCommands \cup UserCommands \cup Verifications

NoRequest == [risk |-> "READ_ONLY", preset |-> "READ_ONLY", reversible |-> TRUE,
              inside |-> TRUE, run |-> FALSE]
Action == [request: Request, status: ActionStatus]

Init ==
  /\ action = [a \in Actions |-> [request |-> NoRequest, status |-> "NONE"]]
  /\ approval = [a \in Actions |-> "NONE"]
  /\ pendingExecutors = {}
  /\ executing = {}
  /\ executions = [a \in Actions |-> 0]
  /\ unblocked = [a \in Actions |-> 0]
  /\ born = [a \in Actions |-> 0]
  /\ restarts = 0

-----------------------------------------------------------------------------

\* mutant: an elevated preset is trusted with everything.
TrustingEvaluate(q) ==
  CASE q.preset = "ELEVATED_ALLOWED" -> "ALLOW"
    [] q.risk = "DANGEROUS" -> "REQUIRE_APPROVAL"
    [] OTHER -> "DENY"

\* PresetPolicyEngine.evaluate.
Evaluate(q) ==
  CASE q.risk = "DANGEROUS" -> "REQUIRE_APPROVAL"
    [] q.risk # "DANGEROUS" /\ q.preset = "READ_ONLY" ->
         IF q.risk = "READ_ONLY" THEN "ALLOW" ELSE "DENY"
    [] q.risk # "DANGEROUS" /\ q.preset = "WORKSPACE" ->
         IF q.risk = "READ_ONLY" \/ (q.risk = "WORKSPACE_WRITE" /\ q.reversible)
         THEN "ALLOW" ELSE "REQUIRE_APPROVAL"
    [] q.risk # "DANGEROUS" /\ q.preset = "ELEVATED_ALLOWED" -> "ALLOW"
    [] OTHER -> "DENY"

\* The three ways executeAction(q) goes, up to its await.
Deny(a, q) ==
  /\ ~q.inside \/ Evaluate(q) = "DENY"
  /\ action' = [action EXCEPT ![a] = [request |-> q, status |-> "DENIED"]]
  /\ UNCHANGED <<approval, pendingExecutors, executing, executions>>

Hold(a, q) ==
  /\ q.inside /\ Evaluate(q) = "REQUIRE_APPROVAL"
  /\ action' = [action EXCEPT ![a] = [request |-> q, status |-> "AWAITING_APPROVAL"]]
  /\ approval' = [approval EXCEPT ![a] = "REQUESTED"]
  /\ pendingExecutors' = pendingExecutors \cup {a}
  /\ UNCHANGED <<executing, executions>>

\* executor.execute is called; its answer is awaited.
Call(a) ==
  /\ executing' = executing \cup {a}
  /\ executions' = [executions EXCEPT ![a] = @ + 1]

Execute(a, q) ==
  /\ q.inside /\ Evaluate(q) = "ALLOW"
  /\ action' = [action EXCEPT ![a] = [request |-> q, status |-> "EXECUTING"]]
  /\ Call(a)
  /\ UNCHANGED <<approval, pendingExecutors>>

executeAction(a, q) ==
  /\ action[a].status = "NONE"
  /\ Deny(a, q) \/ Hold(a, q) \/ Execute(a, q)
  /\ born' = [born EXCEPT ![a] = restarts]
  /\ UNCHANGED <<unblocked, restarts>>

Unblock(a) == unblocked' = [unblocked EXCEPT ![a] = IF action[a].request.run THEN @ + 1 ELSE @]

\* mutant: the run hears of an approved action only when it succeeded.
UnblockOnSuccess(a, status) ==
  /\ IF approval[a] \in Granted /\ status = "SUCCEEDED" THEN Unblock(a) ELSE UNCHANGED unblocked
  /\ UNCHANGED <<approval, executions, restarts, born>>

\* What resolve does once the approved execution has a result.
UnblockAfter(a, status) ==
  /\ IF approval[a] \in Granted THEN Unblock(a) ELSE UNCHANGED unblocked
  /\ UNCHANGED <<approval, executions, restarts, born>>

\* The executor answered ok or not, or threw.
Executed(a) ==
  /\ a \in executing
  /\ executing' = executing \ {a}
  /\ \E status \in {"SUCCEEDED", "FAILED"} :
       /\ action' = [action EXCEPT ![a].status = status]
       /\ UnblockAfter(a, status)
  /\ pendingExecutors' = IF approval[a] \in Granted THEN pendingExecutors \ {a} ELSE pendingExecutors

-----------------------------------------------------------------------------
(* ApprovalService.resolve. *)

\* mutant: the approval is marked only when the action has run.
GrantMarkedLate(a, outcome) ==
  /\ approval[a] = "REQUESTED"
  /\ approval' = [approval EXCEPT ![a] = IF a \in executing THEN outcome ELSE @]
  /\ Call(a)
  /\ UNCHANGED <<action, pendingExecutors, unblocked, restarts, born>>

\* ALLOW_ONCE or APPROVED: executeApprovedAction up to its await.  Without an
\* executor the action fails at once, and its run hears of that.
Grant(a, outcome) ==
  /\ approval[a] = "REQUESTED"
  /\ approval' = [approval EXCEPT ![a] = outcome]
  /\ IF action[a].status = "AWAITING_APPROVAL"
     THEN IF a \in pendingExecutors
          THEN Call(a) /\ UNCHANGED <<action, unblocked>>
          ELSE /\ action' = [action EXCEPT ![a].status = "FAILED"]
               /\ Unblock(a)
               /\ UNCHANGED <<executing, executions>>
     ELSE UNCHANGED <<action, executing, executions, unblocked>>   \* throws
  /\ UNCHANGED <<pendingExecutors, restarts, born>>

\* mutants: a refusal that looks at the action instead of the approval, and one
\* that forgets the double-resolution check.
RefuseLate(a, outcome) ==
  /\ action[a].status = "AWAITING_APPROVAL"
  /\ approval' = [approval EXCEPT ![a] = outcome]
  /\ action' = [action EXCEPT ![a].status = "DENIED"]
  /\ Unblock(a)
  /\ UNCHANGED <<pendingExecutors, executing, executions, restarts, born>>
RefuseAgain(a, outcome) ==
  /\ approval[a] \in {"REQUESTED"} \cup Refused
  /\ approval' = [approval EXCEPT ![a] = outcome]
  /\ action' = [action EXCEPT ![a].status = "DENIED"]
  /\ Unblock(a)
  /\ UNCHANGED <<pendingExecutors, executing, executions, restarts, born>>

\* REJECTED or CANCELLED.  The executor stays in pendingExecutors.
Refuse(a, outcome) ==
  /\ approval[a] = "REQUESTED"
  /\ approval' = [approval EXCEPT ![a] = outcome]
  /\ action' = [action EXCEPT ![a].status = "DENIED"]
  /\ Unblock(a)
  /\ UNCHANGED <<pendingExecutors, executing, executions, restarts, born>>

resolve(a) == (\E o \in Granted : Grant(a, o)) \/ (\E o \in Refused : Refuse(a, o))

-----------------------------------------------------------------------------

\* mutants: approvals that outlive their executors, and executors that outlive
\* the process.
KeepApprovals == approval
DurableExecutors == UNCHANGED <<pendingExecutors, approval>>

\* expireUnresolvedApprovals.
expireUnresolvedApprovals ==
  [a \in Actions |-> IF approval[a] = "REQUESTED" THEN "EXPIRED" ELSE approval[a]]

\* The documents a new process finds, and the memory it does not.
Forget ==
  /\ pendingExecutors' = {}
  /\ approval' = expireUnresolvedApprovals

Restart ==
  /\ restarts < MaxRestarts
  /\ restarts' = restarts + 1
  /\ Forget
  /\ executing' = {}
  /\ UNCHANGED <<action, executions, unblocked, born>>

-----------------------------------------------------------------------------

Next ==
  \/ \E a \in Actions : (\E q \in Requests : executeAction(a, q)) \/ resolve(a) \/ Executed(a)
  \/ Restart

Spec == Init /\ [][Next]_vars

\* An executor answers: every tool runs its command under a timeout.
Fairness == \A a \in Actions : WF_vars(Executed(a))
FairSpec == Spec /\ Fairness
-----------------------------------------------------------------------------

TypeOK ==
  /\ action \in [Actions -> Action]
  /\ approval \in [Actions -> ApprovalStatus]
  /\ pendingExecutors \subseteq Actions /\ executing \subseteq Actions
  /\ executions \in [Actions -> Nat] /\ unblocked \in [Actions -> Nat]
  /\ restarts \in 0..MaxRestarts /\ born \in [Actions -> 0..MaxRestarts]

\* No action runs twice, whatever resolutions of its approval compete.
ExecutedAtMostOnce == \A a \in Actions : executions[a] <= 1

\* "DANGEROUS always requires approval regardless of preset"
\* (preset-policy-engine.ts:6), and a read-only role changes nothing by itself:
\* such an action was executed only if a human granted it.
NoUnapprovedExecution ==
  \A a \in Actions :
    /\ executions[a] > 0
    /\ \/ action[a].request.risk = "DANGEROUS"
       \/ action[a].request.preset = "READ_ONLY" /\ action[a].request.risk # "READ_ONLY"
       \/ action[a].request.preset = "WORKSPACE" /\ action[a].request.risk = "ELEVATED"
    => approval[a] \in Granted

\* An action somebody refused, or the policy or the path guard denied, did not
\* run: a refusal never races an execution that is under way.
RefusedNeverRuns ==
  \A a \in Actions :
    approval[a] \in Refused \cup {"EXPIRED"} \/ action[a].status = "DENIED" => executions[a] = 0

\* Whoever grants an open approval finds its executor: "approval executor lost"
\* (action-gateway.ts:183) is never the answer, before or after a restart.
ApprovalHasExecutor == \A a \in Actions : approval[a] = "REQUESTED" => a \in pendingExecutors

\* "so no zombie action can execute after restart" (action-gateway.ts:44): a
\* process calls the executor only of actions it was itself asked for.
NoZombieExecution ==
  [][\A a \in Actions : executions'[a] > executions[a] => born'[a] = restarts']_vars

\* The run behind an action is resumed at most once: each resumption would
\* start one more loop for it.
ResumedAtMostOnce == \A a \in Actions : unblocked[a] <= 1

\* The run behind an approval hears of its outcome, whether the action succeeded,
\* failed or was refused, unless the process goes down first.
RunHearsOfOutcome ==
  \A a \in Actions :
    (approval[a] \in Granted \cup Refused /\ action[a].request.run /\ born[a] = restarts)
      ~> (unblocked[a] > 0 \/ born[a] # restarts)

\* What an observer of the executors sees of an action.
Phase ==
  [a \in Actions |->
     CASE a \in executing -> "running"
       [] a \notin executing /\ executions[a] > 0 -> "over"
       [] a \notin executing /\ executions[a] = 0 /\ approval[a] = "REQUESTED" -> "held"
       [] a \notin executing /\ executions[a] = 0 /\ approval[a] # "REQUESTED"
            /\ action[a].status # "NONE" -> "refused"
       [] OTHER -> "none"]

OneShot == INSTANCE OneShotAction WITH phase <- Phase

\* The gateway implements the one-shot contract.
OneShotSpec == OneShot!Spec
=============================================================================
