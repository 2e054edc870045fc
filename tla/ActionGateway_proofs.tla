------------------------ MODULE ActionGateway_proofs ------------------------
(***************************************************************************)
(* Proofs about ActionGateway, for every set of actions and any number of  *)
(* restarts.                                                               *)
(***************************************************************************)
EXTENDS ActionGateway, TLAPS

\* How the document of an action, its approval and its executor go together.
\* That an action runs at most once is inductive only with all of them: a grant
\* is safe because an open approval implies an action that has not run, and a
\* direct execution because nothing with an approval is ever executed directly.
Fresh(a) == action[a].status = "NONE" =>
  approval[a] = "NONE" /\ executions[a] = 0 /\ unblocked[a] = 0 /\ a \notin executing
Direct(a) == approval[a] = "NONE" =>
  /\ executions[a] <= 1 /\ unblocked[a] = 0
  /\ a \in executing => executions[a] = 1 /\ action[a].status = "EXECUTING"
  /\ executions[a] > 0 => Evaluate(action[a].request) = "ALLOW" /\ action[a].status # "DENIED"
Held(a) == approval[a] = "REQUESTED" =>
  /\ action[a].status = "AWAITING_APPROVAL" /\ a \in pendingExecutors
  /\ executions[a] = 0 /\ unblocked[a] = 0 /\ a \notin executing /\ born[a] = restarts
Allowed(a) == approval[a] \in Granted =>
  /\ executions[a] = 1 /\ unblocked[a] <= 1 /\ action[a].status # "DENIED"
  /\ a \in executing => unblocked[a] = 0
Stopped(a) == approval[a] \in Refused \cup {"EXPIRED"} =>
  executions[a] = 0 /\ unblocked[a] <= 1 /\ a \notin executing

Consistent == \A a \in Actions : Fresh(a) /\ Direct(a) /\ Held(a) /\ Allowed(a) /\ Stopped(a)
Inv == TypeOK /\ Consistent

USE MaxRestartsIsNat

LEMMA RequestsAreTyped == Requests \subseteq Request
BY DEF Requests, Request, FileWrites, AgentCommands, UserCommands, Verifications, Risks, Presets

\* What the policy engine lets through without asking anybody.
LEMMA WhatPolicyAllows ==
  ASSUME NEW q \in Request, Evaluate(q) = "ALLOW"
  PROVE  /\ q.risk # "DANGEROUS"
         /\ q.preset = "READ_ONLY" => q.risk = "READ_ONLY"
         /\ q.preset = "WORKSPACE" => q.risk # "ELEVATED"
BY DEF Evaluate, Request, Risks, Presets

LEMMA InitInv == Init => Inv
<1> SUFFICES ASSUME Init PROVE Inv
  OBVIOUS
<1>1. TypeOK
  BY DEF Init, TypeOK, Action, ActionStatus, ApprovalStatus, Request, NoRequest, Risks, Presets
<1>2. Consistent
  <2>1. \A a \in Actions : /\ approval[a] = "NONE" /\ executions[a] = 0
                          /\ unblocked[a] = 0 /\ a \notin executing
    BY DEF Init
  <2> SUFFICES ASSUME NEW a \in Actions PROVE Fresh(a) /\ Direct(a) /\ Held(a) /\ Allowed(a) /\ Stopped(a)
    BY DEF Consistent
  <2>2. Fresh(a) /\ Direct(a)
    BY <2>1 DEF Fresh, Direct
  <2>3. Held(a) /\ Allowed(a) /\ Stopped(a)
    BY <2>1 DEF Held, Allowed, Stopped, Granted, Refused
  <2> QED BY <2>2, <2>3
<1> QED BY <1>1, <1>2 DEF Inv

\* A step on one action leaves what is known of the others as it was.
SameFor(b) ==
  /\ action'[b] = action[b] /\ approval'[b] = approval[b]
  /\ executions'[b] = executions[b] /\ unblocked'[b] = unblocked[b]
  /\ b \in executing' <=> b \in executing
  /\ b \in pendingExecutors' <=> b \in pendingExecutors
  /\ born'[b] = born[b]

LEMMA OneActionSteps ==
  ASSUME Inv, NEW a \in Actions, restarts' = restarts,
         \A b \in Actions \ {a} : SameFor(b),
         Fresh(a)', Direct(a)', Held(a)', Allowed(a)', Stopped(a)'
  PROVE  Consistent'
<1> SUFFICES ASSUME NEW b \in Actions \ {a}
             PROVE  Fresh(b)' /\ Direct(b)' /\ Held(b)' /\ Allowed(b)' /\ Stopped(b)'
  BY DEF Consistent
<1>1. Fresh(b) /\ Direct(b) /\ Held(b) /\ Allowed(b) /\ Stopped(b) /\ SameFor(b)
  BY DEF Inv, Consistent
<1> QED BY <1>1 DEF SameFor, Fresh, Direct, Held, Allowed, Stopped

-----------------------------------------------------------------------------

LEMMA SubmitInv ==
  ASSUME Inv, NEW a \in Actions, NEW q \in Requests, executeAction(a, q)
  PROVE  Inv'
<1>0. q \in Request
  BY RequestsAreTyped
<1>1. /\ action[a].status = "NONE" /\ approval[a] = "NONE" /\ executions[a] = 0
      /\ unblocked[a] = 0 /\ a \notin executing
  BY DEF executeAction, Inv, Consistent, Fresh
<1>2. \A b \in Actions \ {a} : SameFor(b)
  BY DEF executeAction, Deny, Hold, Execute, Call, SameFor, Inv, TypeOK
<1>3. CASE Deny(a, q)
  <2>1. TypeOK'
    BY <1>0, <1>3 DEF executeAction, Deny, Inv, TypeOK, Action, ActionStatus
  <2>2. Fresh(a)' /\ Direct(a)' /\ Held(a)' /\ Allowed(a)' /\ Stopped(a)'
    BY <1>1, <1>3 DEF executeAction, Deny, Inv, TypeOK, Fresh, Direct, Held, Allowed, Stopped, Granted, Refused
  <2> QED BY <1>2, <2>1, <2>2, OneActionSteps DEF Inv, executeAction
<1>4. CASE Hold(a, q)
  <2>1. TypeOK'
    BY <1>0, <1>4 DEF executeAction, Hold, Inv, TypeOK, Action, ActionStatus, ApprovalStatus
  <2>2. Fresh(a)' /\ Direct(a)' /\ Held(a)' /\ Allowed(a)' /\ Stopped(a)'
    BY <1>1, <1>4 DEF executeAction, Hold, Inv, TypeOK, Fresh, Direct, Held, Allowed, Stopped, Granted, Refused
  <2> QED BY <1>2, <2>1, <2>2, OneActionSteps DEF Inv, executeAction
<1>5. CASE Execute(a, q)
  <2>1. TypeOK'
    BY <1>0, <1>5 DEF executeAction, Execute, Call, Inv, TypeOK, Action, ActionStatus
  <2>2. Fresh(a)' /\ Direct(a)' /\ Held(a)' /\ Allowed(a)' /\ Stopped(a)'
    BY <1>1, <1>5 DEF executeAction, Execute, Call, Inv, TypeOK, Fresh, Direct, Held, Allowed, Stopped, Granted, Refused
  <2> QED BY <1>2, <2>1, <2>2, OneActionSteps DEF Inv, executeAction
<1> QED BY <1>3, <1>4, <1>5 DEF executeAction

LEMMA GrantInv ==
  ASSUME Inv, NEW a \in Actions, NEW o \in Granted, Grant(a, o)
  PROVE  Inv'
<1>1. /\ action[a].status = "AWAITING_APPROVAL" /\ a \in pendingExecutors
      /\ executions[a] = 0 /\ unblocked[a] = 0 /\ a \notin executing
  BY DEF Grant, Inv, Consistent, Held
<1>2. Call(a) /\ UNCHANGED <<action, unblocked, pendingExecutors, restarts, born>>
      /\ approval' = [approval EXCEPT ![a] = o]
  BY <1>1 DEF Grant
<1>3. TypeOK'
  BY <1>2 DEF Call, Inv, TypeOK, ApprovalStatus
<1>4. \A b \in Actions \ {a} : SameFor(b)
  BY <1>2 DEF Call, SameFor, Inv, TypeOK
<1>5. Fresh(a)' /\ Direct(a)' /\ Held(a)' /\ Allowed(a)' /\ Stopped(a)'
  BY <1>1, <1>2 DEF Call, Inv, TypeOK, Fresh, Direct, Held, Allowed, Stopped, Granted, Refused
<1> QED BY <1>2, <1>3, <1>4, <1>5, OneActionSteps DEF Inv

LEMMA RefuseInv ==
  ASSUME Inv, NEW a \in Actions, NEW o \in Refused, Refuse(a, o)
  PROVE  Inv'
<1>1. executions[a] = 0 /\ unblocked[a] = 0 /\ a \notin executing
  BY DEF Refuse, Inv, Consistent, Held
<1>2. unblocked' \in [Actions -> Nat] /\ unblocked'[a] <= 1
  BY <1>1 DEF Refuse, Unblock, Inv, TypeOK
<1>3. TypeOK'
  BY <1>2 DEF Refuse, Inv, TypeOK, ApprovalStatus, Action, ActionStatus
<1>4. \A b \in Actions \ {a} : SameFor(b)
  BY DEF Refuse, Unblock, SameFor, Inv, TypeOK
<1>5. Fresh(a)' /\ Direct(a)' /\ Held(a)' /\ Allowed(a)' /\ Stopped(a)'
  BY <1>1, <1>2 DEF Refuse, Inv, TypeOK, Fresh, Direct, Held, Allowed, Stopped, Granted, Refused, Action
<1> QED BY <1>3, <1>4, <1>5, OneActionSteps DEF Inv, Refuse

LEMMA ExecutedInv ==
  ASSUME Inv, NEW a \in Actions, Executed(a)
  PROVE  Inv'
<1>1. PICK status \in {"SUCCEEDED", "FAILED"} :
        action' = [action EXCEPT ![a].status = status] /\ UnblockAfter(a, status)
  BY DEF Executed
<1>2. approval[a] = "NONE" \/ approval[a] \in Granted
  BY DEF Executed, Inv, TypeOK, ApprovalStatus, Consistent, Held, Stopped
<1>3. approval[a] \in Granted => unblocked[a] = 0
  BY DEF Executed, Inv, Consistent, Allowed
<1>4. /\ unblocked' \in [Actions -> Nat]
      /\ unblocked'[a] = unblocked[a] \/ (approval[a] \in Granted /\ unblocked'[a] <= 1)
  BY <1>1, <1>3 DEF UnblockAfter, Unblock, Inv, TypeOK
<1>5. action' \in [Actions -> Action] /\ action'[a].status = status
      /\ action'[a].request = action[a].request
  BY <1>1 DEF Inv, TypeOK, Action, ActionStatus
<1>6. TypeOK'
  BY <1>1, <1>4, <1>5 DEF Executed, UnblockAfter, Inv, TypeOK
<1>7. \A b \in Actions \ {a} : SameFor(b)
  BY <1>1 DEF Executed, UnblockAfter, Unblock, SameFor, Inv, TypeOK
<1>8. UNCHANGED <<approval, executions, restarts, born>> /\ executing' = executing \ {a}
  BY <1>1 DEF Executed, UnblockAfter
<1>9. Direct(a) /\ Allowed(a)
  BY DEF Inv, Consistent
<1>10. Fresh(a)' /\ Direct(a)' /\ Held(a)' /\ Allowed(a)' /\ Stopped(a)'
  BY <1>2, <1>4, <1>5, <1>8, <1>9 DEF Fresh, Direct, Held, Allowed, Stopped, Granted, Refused
<1> QED BY <1>6, <1>7, <1>8, <1>10, OneActionSteps DEF Inv

LEMMA RestartInv == ASSUME Inv, Restart PROVE Inv'
<1>1. /\ approval' \in [Actions -> ApprovalStatus]
      /\ \A a \in Actions : /\ approval'[a] # "REQUESTED"
                            /\ \/ approval'[a] = approval[a]
                               \/ approval[a] = "REQUESTED" /\ approval'[a] = "EXPIRED"
  BY DEF Restart, Forget, expireUnresolvedApprovals, Inv, TypeOK, ApprovalStatus
<1>2. TypeOK'
  BY <1>1 DEF Restart, Forget, Inv, TypeOK
<1>3. Consistent'
  BY <1>1 DEF Restart, Inv, Consistent, Fresh, Direct, Held, Allowed, Stopped, Granted, Refused
<1> QED BY <1>2, <1>3 DEF Inv

LEMMA NextInv == Inv /\ [Next]_vars => Inv'
<1> SUFFICES ASSUME Inv, [Next]_vars PROVE Inv'
  OBVIOUS
<1>1. CASE UNCHANGED vars
  BY <1>1 DEF vars, Inv, TypeOK, Consistent, Fresh, Direct, Held, Allowed, Stopped
<1> QED BY <1>1, SubmitInv, GrantInv, RefuseInv, ExecutedInv, RestartInv DEF Next, resolve

LEMMA InvHolds == Spec => []Inv
BY InitInv, NextInv, PTL DEF Spec

-----------------------------------------------------------------------------
(* Safety. *)

\* Type correctness: the documents of the gateway stay well formed.
THEOREM TypeCorrect == Spec => []TypeOK
BY InvHolds, PTL DEF Inv

\* No tool action runs twice, whatever resolutions of its approval compete and
\* however often the daemon restarts in between.
THEOREM RunsOnce == Spec => []ExecutedAtMostOnce
<1>1. Inv => ExecutedAtMostOnce
  <2> SUFFICES ASSUME Inv, NEW a \in Actions PROVE executions[a] <= 1
    BY DEF ExecutedAtMostOnce
  <2> QED BY DEF Inv, TypeOK, Consistent, Direct, Held, Allowed, Stopped, ApprovalStatus
<1> QED BY <1>1, InvHolds, PTL

\* A dangerous action, and one its preset does not cover, ran only if a human
\* granted it.
THEOREM ApprovedFirst == Spec => []NoUnapprovedExecution
<1>1. Inv => NoUnapprovedExecution
  <2> SUFFICES ASSUME Inv, NEW a \in Actions, executions[a] > 0, approval[a] \notin Granted
               PROVE  /\ action[a].request.risk # "DANGEROUS"
                      /\ action[a].request.preset = "READ_ONLY" => action[a].request.risk = "READ_ONLY"
                      /\ action[a].request.preset = "WORKSPACE" => action[a].request.risk # "ELEVATED"
    BY DEF NoUnapprovedExecution
  <2>1. action[a].request \in Request /\ approval[a] = "NONE"
    BY DEF Inv, TypeOK, Action, Consistent, Held, Stopped, ApprovalStatus
  <2>2. Evaluate(action[a].request) = "ALLOW"
    BY <2>1 DEF Inv, Consistent, Direct
  <2> QED BY <2>1, <2>2, WhatPolicyAllows
<1> QED BY <1>1, InvHolds, PTL

\* What was refused, expired or denied has not run.
THEOREM RefusalHolds == Spec => []RefusedNeverRuns
<1>1. Inv => RefusedNeverRuns
  <2> SUFFICES ASSUME Inv, NEW a \in Actions,
                      approval[a] \in Refused \cup {"EXPIRED"} \/ action[a].status = "DENIED"
               PROVE  executions[a] = 0
    BY DEF RefusedNeverRuns
  <2> QED BY DEF Inv, TypeOK, Consistent, Direct, Held, Allowed, Stopped, ApprovalStatus
<1> QED BY <1>1, InvHolds, PTL

\* Every open approval has its executor: a grant never answers "executor lost".
THEOREM ExecutorIsThere == Spec => []ApprovalHasExecutor
<1>1. Inv => ApprovalHasExecutor
  BY DEF Inv, Consistent, Held, ApprovalHasExecutor
<1> QED BY <1>1, InvHolds, PTL

\* An action resumes its run at most once.
THEOREM ResumesOnce == Spec => []ResumedAtMostOnce
<1>1. Inv => ResumedAtMostOnce
  <2> SUFFICES ASSUME Inv, NEW a \in Actions PROVE unblocked[a] <= 1
    BY DEF ResumedAtMostOnce
  <2> QED BY DEF Inv, TypeOK, Consistent, Direct, Held, Allowed, Stopped, ApprovalStatus
<1> QED BY <1>1, InvHolds, PTL

\* A process executes only what it was itself asked for: an approval granted
\* after a restart executes nothing of the process before.
THEOREM NoZombies == Spec => NoZombieExecution
<1>1. Inv /\ [Next]_vars
      => [\A a \in Actions : executions'[a] > executions[a] => born'[a] = restarts']_vars
  <2> SUFFICES ASSUME Inv, Next, NEW a \in Actions, executions'[a] > executions[a]
               PROVE  born'[a] = restarts'
    OBVIOUS
  <2>1. CASE \E b \in Actions, q \in Requests : executeAction(b, q)
    BY <2>1 DEF executeAction, Deny, Hold, Execute, Call, Inv, TypeOK
  <2>2. CASE \E b \in Actions, o \in Granted : Grant(b, o)
    BY <2>2 DEF Grant, Call, Inv, TypeOK, Consistent, Held
  <2>3. CASE (\E b \in Actions, o \in Refused : Refuse(b, o)) \/ (\E b \in Actions : Executed(b)) \/ Restart
    BY <2>3 DEF Refuse, Executed, UnblockAfter, Restart, Inv, TypeOK
  <2> QED BY <2>1, <2>2, <2>3 DEF Next, resolve
<1> QED BY <1>1, InvHolds, PTL DEF Spec, NoZombieExecution

-----------------------------------------------------------------------------
(* The gateway implements the one-shot contract. *)

PhaseOf(a) == Phase[a]

LEMMA PhaseChange ==
  ASSUME NEW a \in Actions, NEW p, PhaseOf(a)' = p,
         \A b \in Actions \ {a} : PhaseOf(b)' = PhaseOf(b)
  PROVE  Phase' = [Phase EXCEPT ![a] = p]
<1>1. Phase = [b \in Actions |-> PhaseOf(b)] /\ Phase' = [b \in Actions |-> PhaseOf(b)']
  BY DEF Phase, PhaseOf
<1> QED BY <1>1

LEMMA PhaseOfOthers ==
  ASSUME NEW b \in Actions, SameFor(b) PROVE PhaseOf(b)' = PhaseOf(b)
BY DEF SameFor, Phase, PhaseOf

\* The phase of an action, from the parts of the state that decide it.
LEMMA PhaseCases ==
  ASSUME TypeOK, NEW a \in Actions
  PROVE  /\ a \in executing => PhaseOf(a) = "running"
         /\ a \notin executing /\ executions[a] > 0 => PhaseOf(a) = "over"
         /\ a \notin executing /\ executions[a] = 0 =>
              PhaseOf(a) = IF approval[a] = "REQUESTED" THEN "held"
                           ELSE IF action[a].status = "NONE" THEN "none" ELSE "refused"
BY DEF TypeOK, Phase, PhaseOf

LEMMA PhaseCasesNext ==
  ASSUME TypeOK', NEW a \in Actions
  PROVE  /\ a \in executing' => PhaseOf(a)' = "running"
         /\ a \notin executing' /\ executions'[a] > 0 => PhaseOf(a)' = "over"
         /\ a \notin executing' /\ executions'[a] = 0 =>
              PhaseOf(a)' = IF approval'[a] = "REQUESTED" THEN "held"
                            ELSE IF action'[a].status = "NONE" THEN "none" ELSE "refused"
BY DEF TypeOK, Phase, PhaseOf

LEMMA SubmitRefines ==
  ASSUME Inv, Inv', NEW a \in Actions, NEW q \in Requests, executeAction(a, q)
  PROVE  OneShot!Submit(a)
<1>1. PhaseOf(a) = "none"
  BY PhaseCases DEF executeAction, Inv, Consistent, Fresh
<1>2. PhaseOf(a)' \in {"held", "running", "refused"}
  BY PhaseCasesNext DEF executeAction, Deny, Hold, Execute, Call, Inv, TypeOK, Consistent, Fresh
<1>3. \A b \in Actions \ {a} : SameFor(b)
  BY DEF executeAction, Deny, Hold, Execute, Call, SameFor, Inv, TypeOK
<1>4. Phase' = [Phase EXCEPT ![a] = PhaseOf(a)']
  BY <1>3, PhaseOfOthers, PhaseChange
<1> QED BY <1>1, <1>2, <1>4 DEF OneShot!Submit, PhaseOf

LEMMA GrantRefines ==
  ASSUME Inv, Inv', NEW a \in Actions, NEW o \in Granted, Grant(a, o)
  PROVE  OneShot!Grant(a)
<1>1. PhaseOf(a) = "held" /\ Call(a)
  BY PhaseCases DEF Grant, Inv, Consistent, Held
<1>2. PhaseOf(a)' = "running"
  BY <1>1, PhaseCasesNext DEF Call, Inv
<1>3. \A b \in Actions \ {a} : SameFor(b)
  BY <1>1 DEF Grant, Call, SameFor, Inv, TypeOK, Consistent, Held
<1>4. Phase' = [Phase EXCEPT ![a] = "running"]
  BY <1>2, <1>3, PhaseOfOthers, PhaseChange
<1> QED BY <1>1, <1>4 DEF OneShot!Grant, PhaseOf

LEMMA RefuseRefines ==
  ASSUME Inv, Inv', NEW a \in Actions, NEW o \in Refused, Refuse(a, o)
  PROVE  OneShot!Refuse(a)
<1>1. PhaseOf(a) = "held"
  BY PhaseCases DEF Refuse, Inv, Consistent, Held
<1>2. PhaseOf(a)' = "refused"
  <2>1. a \notin executing' /\ executions'[a] = 0
    BY DEF Refuse, Inv, Consistent, Held
  <2>2. approval'[a] # "REQUESTED" /\ action'[a].status = "DENIED"
    BY DEF Refuse, Refused, Inv, TypeOK, Action
  <2> QED BY <2>1, <2>2, PhaseCasesNext DEF Inv
<1>3. \A b \in Actions \ {a} : SameFor(b)
  BY DEF Refuse, Unblock, SameFor, Inv, TypeOK
<1>4. Phase' = [Phase EXCEPT ![a] = "refused"]
  BY <1>2, <1>3, PhaseOfOthers, PhaseChange
<1> QED BY <1>1, <1>4 DEF OneShot!Refuse, PhaseOf

LEMMA ExecutedRefines ==
  ASSUME Inv, Inv', NEW a \in Actions, Executed(a)
  PROVE  OneShot!Finish(a)
<1>1. PhaseOf(a) = "running" /\ a \in executing /\ a \notin executing' /\ executions' = executions
  BY PhaseCases DEF Executed, UnblockAfter, Inv
<1>2. executions[a] > 0
  BY <1>1 DEF Inv, TypeOK, ApprovalStatus, Consistent, Direct, Held, Allowed, Stopped
<1>3. PhaseOf(a)' = "over"
  BY <1>1, <1>2, PhaseCasesNext DEF Inv
<1>4. \A b \in Actions \ {a} : SameFor(b)
  BY DEF Executed, UnblockAfter, Unblock, SameFor, Inv, TypeOK
<1>5. Phase' = [Phase EXCEPT ![a] = "over"]
  BY <1>3, <1>4, PhaseOfOthers, PhaseChange
<1> QED BY <1>1, <1>5 DEF OneShot!Finish, PhaseOf

LEMMA RestartRefines ==
  ASSUME Inv, Inv', Restart
  PROVE  OneShot!Restart
<1> DEFINE after(a) == CASE Phase[a] = "held" -> "refused"
                         [] Phase[a] = "running" -> "over"
                         [] OTHER -> Phase[a]
<1>1. ASSUME NEW a \in Actions PROVE PhaseOf(a)' = after(a)
  <2>1. /\ a \notin executing' /\ executions' = executions /\ action' = action
        /\ approval'[a] = IF approval[a] = "REQUESTED" THEN "EXPIRED" ELSE approval[a]
    BY DEF Restart, Forget, expireUnresolvedApprovals
  <2>2. executions[a] \in Nat /\ (a \in executing => executions[a] > 0)
    BY DEF Inv, TypeOK, ApprovalStatus, Consistent, Direct, Held, Allowed, Stopped
  <2>3. approval[a] = "REQUESTED" => action[a].status # "NONE"
    BY DEF Inv, Consistent, Held
  <2>4. CASE a \in executing
    BY <2>1, <2>2, <2>4, PhaseCases, PhaseCasesNext DEF Inv, PhaseOf
  <2>5. CASE a \notin executing /\ executions[a] > 0
    BY <2>1, <2>5, PhaseCases, PhaseCasesNext DEF Inv, PhaseOf
  <2>6. CASE a \notin executing /\ executions[a] = 0
    BY <2>1, <2>3, <2>6, PhaseCases, PhaseCasesNext DEF Inv, PhaseOf
  <2> QED BY <2>2, <2>4, <2>5, <2>6
<1>2. Phase' = [a \in Actions |-> after(a)]
  BY <1>1 DEF Phase, PhaseOf
<1> QED BY <1>2 DEF OneShot!Restart

\* Every behaviour of the gateway is one of the one-shot contract: an action is
\* submitted once, held until somebody decides, runs at most once, and neither
\* a held nor a running one survives the process.
THEOREM ImplementsOneShot == Spec => OneShotSpec
<1>1. Init => OneShot!Init
  BY DEF Init, Phase, OneShot!Init
<1>2. Inv /\ Inv' /\ [Next]_vars => [OneShot!Next]_Phase
  <2> SUFFICES ASSUME Inv, Inv', [Next]_vars PROVE [OneShot!Next]_Phase
    OBVIOUS
  <2>1. CASE UNCHANGED vars
    BY <2>1 DEF vars, Phase
  <2>2. CASE Next
    BY <2>2, SubmitRefines, GrantRefines, RefuseRefines, ExecutedRefines, RestartRefines
       DEF Next, resolve, OneShot!Next
  <2> QED BY <2>1, <2>2
<1> QED BY <1>1, <1>2, InvHolds, PTL DEF Spec, OneShotSpec, OneShot!Spec
-----------------------------------------------------------------------------
(* The run hears of the outcome: the part of RunHearsOfOutcome that is safety. *)

\* What a run was told of its action: of a refusal at once, of a granted action when
\* it is no longer executing, unless the process that executed it went down; and of
\* nothing else.
Told(a) ==
  /\ action[a].request.run =>
       /\ approval[a] \in Refused => unblocked[a] = 1
       /\ approval[a] \in Granted /\ born[a] = restarts
            => unblocked[a] = IF a \in executing THEN 0 ELSE 1
  /\ unblocked[a] > 0 => action[a].request.run /\ approval[a] \in Granted \cup Refused
  /\ born[a] <= restarts
RunsAreTold == \A a \in Actions : Told(a)

LEMMA OneActionTold ==
  ASSUME RunsAreTold, NEW a \in Actions, restarts' = restarts,
         \A b \in Actions \ {a} : SameFor(b), Told(a)'
  PROVE  RunsAreTold'
<1> SUFFICES ASSUME NEW b \in Actions \ {a} PROVE Told(b)'
  BY DEF RunsAreTold
<1>1. Told(b) /\ SameFor(b)
  BY DEF RunsAreTold
<1> QED BY <1>1 DEF SameFor, Told

LEMMA SubmitTells ==
  ASSUME Inv, RunsAreTold, NEW a \in Actions, NEW q \in Requests, executeAction(a, q)
  PROVE  RunsAreTold'
<1>1. \A b \in Actions \ {a} : SameFor(b)
  BY DEF executeAction, Deny, Hold, Execute, Call, SameFor, Inv, TypeOK
<1>2. approval[a] = "NONE" /\ unblocked[a] = 0
  BY DEF executeAction, Inv, Consistent, Fresh
<1>3. approval'[a] \in {"NONE", "REQUESTED"} /\ unblocked'[a] = 0 /\ born'[a] = restarts
  BY <1>2 DEF executeAction, Deny, Hold, Execute, Inv, TypeOK
<1>4. Told(a)' /\ restarts' = restarts
  BY <1>3 DEF executeAction, Told, Granted, Refused, Inv, TypeOK
<1> QED BY <1>1, <1>4, OneActionTold

LEMMA GrantTells ==
  ASSUME Inv, RunsAreTold, NEW a \in Actions, NEW o \in Granted, Grant(a, o)
  PROVE  RunsAreTold'
<1>1. action[a].status = "AWAITING_APPROVAL" /\ a \in pendingExecutors /\ unblocked[a] = 0
  BY DEF Grant, Inv, Consistent, Held
<1>2. Call(a) /\ UNCHANGED <<action, unblocked, pendingExecutors, restarts, born>>
      /\ approval' = [approval EXCEPT ![a] = o]
  BY <1>1 DEF Grant
<1>3. \A b \in Actions \ {a} : SameFor(b)
  BY <1>2 DEF Call, SameFor, Inv, TypeOK
<1>4. Told(a)'
  BY <1>1, <1>2 DEF Told, RunsAreTold, Call, Granted, Refused, Inv, TypeOK
<1> QED BY <1>2, <1>3, <1>4, OneActionTold

LEMMA RefuseTells ==
  ASSUME Inv, RunsAreTold, NEW a \in Actions, NEW o \in Refused, Refuse(a, o)
  PROVE  RunsAreTold'
<1>1. unblocked[a] = 0 /\ approval'[a] = o /\ born' = born /\ restarts' = restarts
  BY DEF Refuse, Inv, TypeOK, Consistent, Held
<1>2. \A b \in Actions \ {a} : SameFor(b)
  BY DEF Refuse, Unblock, SameFor, Inv, TypeOK
<1>3. unblocked'[a] = IF action[a].request.run THEN 1 ELSE 0
  BY <1>1 DEF Refuse, Unblock, Inv, TypeOK
<1>4. action'[a].request = action[a].request
  BY DEF Refuse, Inv, TypeOK, Action
<1>5. Told(a)'
  BY <1>1, <1>3, <1>4 DEF Told, RunsAreTold, Granted, Refused
<1> QED BY <1>1, <1>2, <1>5, OneActionTold

LEMMA ExecutedTells ==
  ASSUME Inv, RunsAreTold, NEW a \in Actions, Executed(a)
  PROVE  RunsAreTold'
<1>1. PICK status \in {"SUCCEEDED", "FAILED"} :
        action' = [action EXCEPT ![a].status = status] /\ UnblockAfter(a, status)
  BY DEF Executed
<1>2. \A b \in Actions \ {a} : SameFor(b)
  BY <1>1 DEF Executed, UnblockAfter, Unblock, SameFor, Inv, TypeOK
<1>3. /\ action'[a].request = action[a].request /\ a \notin executing'
      /\ UNCHANGED <<approval, restarts, born>>
  BY <1>1 DEF Executed, UnblockAfter, Inv, TypeOK, Action
<1>4. approval[a] = "NONE" \/ approval[a] \in Granted
  BY DEF Executed, Inv, TypeOK, ApprovalStatus, Consistent, Held, Stopped
<1>5. CASE approval[a] = "NONE"
  <2>1. approval[a] \notin Granted \cup Refused /\ unblocked' = unblocked
    BY <1>1, <1>5 DEF UnblockAfter, Granted, Refused
  <2>2. Told(a)'
    BY <1>3, <2>1 DEF Told, RunsAreTold
  <2> QED BY <1>2, <1>3, <2>2, OneActionTold
<1>6. CASE approval[a] \in Granted
  <2>1. unblocked[a] = 0
    BY <1>6 DEF Executed, Inv, Consistent, Allowed
  <2>2. unblocked'[a] = IF action[a].request.run THEN 1 ELSE 0
    BY <1>1, <1>6, <2>1 DEF UnblockAfter, Unblock, Inv, TypeOK
  <2>3. Told(a)'
    BY <1>3, <1>6, <2>2 DEF Told, RunsAreTold, Granted, Refused
  <2> QED BY <1>2, <1>3, <2>3, OneActionTold
<1> QED BY <1>4, <1>5, <1>6

\* No action of an earlier process is owed anything; what was told stays told.
LEMMA RestartTells ==
  ASSUME Inv, RunsAreTold, Restart
  PROVE  RunsAreTold'
<1> SUFFICES ASSUME NEW a \in Actions PROVE Told(a)'
  BY DEF RunsAreTold
<1>1. Told(a) /\ approval[a] \in ApprovalStatus /\ born[a] \in Nat /\ restarts \in Nat
  BY DEF RunsAreTold, Inv, TypeOK
<1>2. /\ UNCHANGED <<action, unblocked, born>> /\ restarts' = restarts + 1
      /\ approval'[a] = IF approval[a] = "REQUESTED" THEN "EXPIRED" ELSE approval[a]
  BY DEF Restart, Forget, expireUnresolvedApprovals
<1> QED BY <1>1, <1>2 DEF Told, Granted, Refused

LEMMA NextTells == Inv /\ RunsAreTold /\ [Next]_vars => RunsAreTold'
<1> SUFFICES ASSUME Inv, RunsAreTold, [Next]_vars PROVE RunsAreTold'
  OBVIOUS
<1>1. CASE UNCHANGED vars
  BY <1>1 DEF vars, RunsAreTold, Told
<1> QED BY <1>1, SubmitTells, GrantTells, RefuseTells, ExecutedTells, RestartTells DEF Next, resolve

\* The run behind an approval is told of the outcome exactly once: in the step that
\* refuses the action, or in the one that ends its execution, succeeded or failed.
\* The only run that is never told is one whose process went down while the granted
\* action executed (ApprovalService.resolve, executeApprovedAction).
THEOREM OutcomeIsTold == Spec => []RunsAreTold
<1>1. Init => RunsAreTold
  <2> SUFFICES ASSUME Init, NEW a \in Actions PROVE Told(a)
    BY DEF RunsAreTold
  <2>1. approval[a] = "NONE" /\ unblocked[a] = 0 /\ born[a] = 0 /\ restarts = 0
    BY DEF Init
  <2> QED BY <2>1 DEF Told, Granted, Refused
<1> QED BY <1>1, NextTells, InvHolds, PTL DEF Spec
=============================================================================
