----------------------- MODULE ProjectService_proofs -----------------------
(***************************************************************************)
(* Proofs about ProjectService, for every set of tasks and runs, every     *)
(* budget and every dependency graph.                                      *)
(***************************************************************************)
EXTENDS ProjectService, FiniteSetTheorems, TLAPS

\* What the documents of the runs satisfy besides their types.
RunsWellFormed ==
  \A r \in Runs :
    /\ run[r].status = "NONE" <=> run[r].task = NoTask
    /\ run[r].status \in Parked => run[r].gen <= MaxParks

\* The part of the invariant that is about runs and their loops.  SingleDriver
\* alone is not inductive: that a parked run has no driver (LoopsMatchRuns) is
\* what keeps an answer from starting a second one, and that in turn needs that
\* there was only one driver to park it.
Core ==
  /\ run \in [Runs -> Run] /\ loops \subseteq Loop
  /\ SingleDriver /\ NoOrphanRun /\ LoopsMatchRuns /\ RunsWellFormed

\* The types of the other variables, and what is stopped exists.
Rest ==
  /\ task \in [Tasks -> TaskStatus]
  /\ approval \in [Runs -> {"NONE", "REQUESTED", "GRANTED", "RESOLVED", "EXPIRED"}]
  /\ decisions \in [Tasks -> [DecisionKinds -> Nat]]
  /\ stopping \subseteq Runs /\ drainQueue \subseteq Runs
  /\ requests \in [Tasks -> 0..MaxRequests] /\ reviews \in [Tasks -> 0..MaxRequests]
  /\ phase \in {"up", "draining"} /\ restarts \in 0..MaxRestarts
  /\ \A r \in stopping \cup drainQueue : run[r].status # "NONE"

Inv == Core /\ Rest

\* No step uncreates a run.
KeepsRuns == \A r \in Runs : run[r].status # "NONE" => run'[r].status # "NONE"

USE OrchestratorConstants, ServiceConstants DEF OrchestratorConstants, ServiceConstants

LEMMA InitInv == Init => Inv
BY DEF Init, OrchestratorInit, Inv, Core, Rest, SingleDriver, NoOrphanRun, LoopsMatchRuns,
       RunsWellFormed, NoRun, Run, RunStatus, Reasons, DecisionKinds, TaskStatus, Settled, Parked,
       Loop, Driven

-----------------------------------------------------------------------------
(* The ways a step changes runs and loops. *)

\* What a loop stores: the fields of its run, and nothing of the others.
LEMMA StoredFields ==
  ASSUME run \in [Runs -> Run], NEW r \in Runs, NEW status \in RunStatus, NEW why \in Reasons
  PROVE  /\ Stored(r, status, why) \in [Runs -> Run]
         /\ Stored(r, status, why)[r].status = status
         /\ Stored(r, status, why)[r].task = run[r].task
         /\ Stored(r, status, why)[r].gen = run[r].gen
         /\ \A q \in Runs \ {r} : Stored(r, status, why)[q] = run[q]
BY DEF Stored, Run

\* A loop ends and leaves its run settled or parked.
LEMMA LeaveCore ==
  ASSUME Core, NEW l \in loops, NEW status \in Settled \cup Parked, NEW why \in Reasons,
         status \in Parked => l.gen <= MaxParks,
         loops' = loops \ {l}, run' = Stored(l.run, status, why)
  PROVE  Core' /\ KeepsRuns
<1>1. run \in [Runs -> Run] /\ l \in Loop /\ l.run \in Runs /\ status \in RunStatus
  BY DEF Core, Loop, RunStatus
<1>2. /\ run' \in [Runs -> Run]
      /\ run'[l.run].status = status /\ run'[l.run].task = run[l.run].task
      /\ run'[l.run].gen = run[l.run].gen
      /\ \A q \in Runs \ {l.run} : run'[q] = run[q]
  BY <1>1, StoredFields
<1>3. \A m \in loops' : m.run \in Runs /\ m.run # l.run
  BY <1>1 DEF Core, SingleDriver, Loop
<1>4. SingleDriver' /\ LoopsMatchRuns'
  BY <1>2, <1>3 DEF Core, SingleDriver, LoopsMatchRuns
<1>5. NoOrphanRun'
  BY <1>2 DEF Core, NoOrphanRun, Driven, Settled, Parked
<1>6. RunsWellFormed'
  BY <1>1, <1>2 DEF Core, RunsWellFormed, LoopsMatchRuns, Settled, Parked
<1>7. KeepsRuns
  BY <1>2 DEF KeepsRuns, Settled, Parked
<1> QED BY <1>2, <1>4, <1>5, <1>6, <1>7 DEF Core

\* A loop finds its run settled and ends.
LEMMA LeaveSettledCore ==
  ASSUME Core, NEW l \in loops, run[l.run].status \in Settled, loops' = loops \ {l}, run' = run
  PROVE  Core' /\ KeepsRuns
BY DEF KeepsRuns, Core, SingleDriver, NoOrphanRun, LoopsMatchRuns, RunsWellFormed, Settled, Driven, Loop

\* A loop goes on, and may store its run as RUNNING.
LEMMA GotoCore ==
  ASSUME Core, NEW l \in loops, NEW m \in Loop, m.run = l.run, m.gen = l.gen,
         m.pc # "backoff" => m.fails < ProviderFailureLimit,
         Goto(l, m), run' = run \/ run' = Stored(l.run, "RUNNING", "none")
  PROVE  Core' /\ KeepsRuns
<1>1. /\ run \in [Runs -> Run] /\ l \in Loop /\ l.run \in Runs
      /\ "RUNNING" \in RunStatus /\ "none" \in Reasons
  BY DEF Core, Loop, RunStatus, Reasons
<1>2. /\ run' \in [Runs -> Run]
      /\ run'[l.run].status \in {"RUNNING", run[l.run].status}
      /\ run'[l.run].task = run[l.run].task /\ run'[l.run].gen = run[l.run].gen
      /\ \A q \in Runs \ {l.run} : run'[q] = run[q]
  BY <1>1, StoredFields
<1>3. loops' = (loops \ {l}) \cup {m}
  BY DEF Goto
<1>4. SingleDriver'
  BY <1>3 DEF Core, SingleDriver
<1>5. LoopsMatchRuns'
  BY <1>1, <1>2, <1>3 DEF Core, SingleDriver, LoopsMatchRuns, Loop, Parked
<1>6. NoOrphanRun'
  BY <1>2, <1>3 DEF Core, NoOrphanRun, Driven
<1>7. RunsWellFormed'
  BY <1>1, <1>2 DEF Core, RunsWellFormed, LoopsMatchRuns, Parked
<1>8. KeepsRuns
  BY <1>2 DEF KeepsRuns
<1> QED BY <1>2, <1>3, <1>4, <1>5, <1>6, <1>7, <1>8 DEF Core

\* Somebody else declares a run failed, whether or not a loop drives it.
LEMMA FailCore ==
  ASSUME Core, NEW r \in Runs, run[r].status # "NONE", NEW why \in Reasons, loops' = loops,
         run' = [run EXCEPT ![r] = [@ EXCEPT !.status = "FAILED", !.reason = why]]
  PROVE  Core' /\ KeepsRuns
<1>1. /\ run' \in [Runs -> Run]
      /\ run'[r].status = "FAILED" /\ run'[r].task = run[r].task /\ run'[r].gen = run[r].gen
      /\ \A q \in Runs \ {r} : run'[q] = run[q]
  BY DEF Core, Run, RunStatus, Settled
<1>2. SingleDriver'
  BY DEF Core, SingleDriver
<1>3. LoopsMatchRuns' /\ NoOrphanRun' /\ RunsWellFormed'
  BY <1>1 DEF Core, LoopsMatchRuns, NoOrphanRun, RunsWellFormed, Driven, Loop, Parked
<1>4. KeepsRuns
  BY <1>1 DEF KeepsRuns
<1> QED BY <1>1, <1>2, <1>3, <1>4 DEF Core

\* A parked run is resumed, or the resumption is ignored.
LEMMA ResumeCore ==
  ASSUME Core, NEW r \in Runs, resumeRun(r)
  PROVE  Core' /\ KeepsRuns
<1>1. CASE run[r].status \notin Parked
  BY <1>1 DEF resumeRun, KeepsRuns, Core, SingleDriver, NoOrphanRun, LoopsMatchRuns, RunsWellFormed, Driven
<1>2. CASE run[r].status \in Parked
  <2> DEFINE m == NewLoop(r, run[r].gen + 1)
  <2>1. run[r].gen \in 0..MaxParks
    BY <1>2 DEF Core, RunsWellFormed, Run
  <2>2. m \in Loop /\ m.run = r /\ m.gen = run[r].gen + 1 /\ m.pc = "start" /\ m.fails = 0
    BY <2>1 DEF NewLoop, Loop
  <2>3. loops' = loops \cup {m}
    BY <1>2 DEF resumeRun
  <2>4. run[r] \in Run /\ run[r].gen + 1 \in 0..(MaxParks + 1)
    BY <2>1 DEF Core
  <2>5. /\ Revived(r) \in Run /\ Revived(r).status = "RUNNING" /\ Revived(r).task = run[r].task
        /\ Revived(r).gen = run[r].gen + 1
    BY <2>4 DEF Revived, Run, RunStatus, Reasons
  <2>6. /\ run' \in [Runs -> Run]
        /\ run'[r].status = "RUNNING" /\ run'[r].task = run[r].task
        /\ run'[r].gen = run[r].gen + 1
        /\ \A q \in Runs \ {r} : run'[q] = run[q]
    BY <1>2, <2>5 DEF resumeRun, Core
  <2>7. \A l \in loops : l.run \in Runs \ {r}
    BY <1>2 DEF Core, LoopsMatchRuns, Loop
  <2> HIDE DEF m
  <2>8. SingleDriver' /\ LoopsMatchRuns'
    BY <2>2, <2>3, <2>6, <2>7 DEF Core, SingleDriver, LoopsMatchRuns, Parked
  <2>9. NoOrphanRun' /\ RunsWellFormed'
    BY <1>2, <2>2, <2>3, <2>6 DEF Core, NoOrphanRun, RunsWellFormed, Driven, Parked
  <2>10. KeepsRuns
    BY <2>6 DEF KeepsRuns
  <2> QED BY <2>2, <2>3, <2>6, <2>8, <2>9, <2>10 DEF Core
<1> QED BY <1>1, <1>2

\* A run is created with the loop that drives it.
LEMMA StartCore ==
  ASSUME Core, NEW t \in Tasks, NEW status, StartCreatesRun(t, status)
  PROVE  Core' /\ KeepsRuns
<1>1. PICK r \in Runs :
        /\ run[r].status = "NONE"
        /\ run' = [run EXCEPT ![r] = [task |-> t, status |-> "RUNNING", session |-> FALSE,
                                      reason |-> "none", gen |-> 1]]
        /\ loops' = loops \cup {NewLoop(r, 1)}
  BY DEF StartCreatesRun
<1> DEFINE m == NewLoop(r, 1)
<1>2. m \in Loop /\ m.run = r /\ m.gen = 1 /\ m.pc = "start" /\ m.fails = 0
  BY DEF NewLoop, Loop
<1>3. loops' = loops \cup {m}
  BY <1>1
<1>4. /\ run' \in [Runs -> Run]
      /\ run'[r].status = "RUNNING" /\ run'[r].task = t /\ run'[r].gen = 1
      /\ \A q \in Runs \ {r} : run'[q] = run[q]
  BY <1>1 DEF Core, Run, RunStatus, Reasons
<1>5. \A l \in loops : l.run \in Runs \ {r}
  BY <1>1 DEF Core, LoopsMatchRuns, Loop
<1> HIDE DEF m
<1>6. SingleDriver' /\ LoopsMatchRuns'
  BY <1>2, <1>3, <1>4, <1>5 DEF Core, SingleDriver, LoopsMatchRuns, Parked
<1>7. NoOrphanRun' /\ RunsWellFormed'
  BY <1>2, <1>3, <1>4 DEF Core, NoOrphanRun, RunsWellFormed, Driven, Parked
<1>8. KeepsRuns
  BY <1>4 DEF KeepsRuns
<1> QED BY <1>2, <1>3, <1>4, <1>6, <1>7, <1>8 DEF Core

\* The process restarts: no loop is left, and no run that needs one.
LEMMA RestartCore ==
  ASSUME Core, recoverOrphanedRuns, loops' = {}
  PROVE  Core' /\ KeepsRuns
<1>0. /\ run \in [Runs -> Run]
      /\ run' = [r \in Runs |-> IF r \in Orphans
                                THEN [run[r] EXCEPT !.status = "FAILED", !.reason = "ORPHANED_BY_RESTART"]
                                ELSE run[r]]
  BY DEF recoverOrphanedRuns, Core
<1>1. /\ run' \in [Runs -> Run]
      /\ \A r \in Runs : /\ run'[r].task = run[r].task /\ run'[r].gen = run[r].gen
                         /\ run'[r].session = run[r].session
                         /\ run'[r].status = IF r \in Orphans THEN "FAILED" ELSE run[r].status
  <2>1. ASSUME NEW r \in Runs
        PROVE  /\ run'[r] \in Run
               /\ run'[r].task = run[r].task /\ run'[r].gen = run[r].gen
               /\ run'[r].session = run[r].session
               /\ run'[r].status = IF r \in Orphans THEN "FAILED" ELSE run[r].status
    <3>1. run[r] \in Run
      BY <1>0
    <3>2. CASE r \in Orphans
      <4>1. run'[r] = [run[r] EXCEPT !.status = "FAILED", !.reason = "ORPHANED_BY_RESTART"]
        BY <1>0, <3>2
      <4> QED BY <3>1, <3>2, <4>1 DEF Run, RunStatus, Settled, Reasons
    <3>3. CASE r \notin Orphans
      <4>1. run'[r] = run[r]
        BY <1>0, <3>3
      <4> QED BY <3>1, <3>3, <4>1
    <3> QED BY <3>2, <3>3
  <2>2. run' \in [Runs -> Run]
    <3>1. run' = [r \in Runs |-> run'[r]]
      BY <1>0
    <3> QED BY <2>1, <3>1
  <2> QED BY <2>1, <2>2
<1>2. NoOrphanRun' /\ RunsWellFormed'
  BY <1>1 DEF Core, NoOrphanRun, RunsWellFormed, Orphans, Running, Parked
<1>3. SingleDriver' /\ LoopsMatchRuns'
  BY DEF SingleDriver, LoopsMatchRuns
<1>4. KeepsRuns
  BY <1>1 DEF KeepsRuns
<1> QED BY <1>1, <1>2, <1>3, <1>4 DEF Core

LEMMA SameCore == ASSUME Core, run' = run, loops' = loops PROVE Core' /\ KeepsRuns
BY DEF KeepsRuns, Core, SingleDriver, NoOrphanRun, LoopsMatchRuns, RunsWellFormed, Driven

-----------------------------------------------------------------------------
(* The steps of a loop. *)

LEMMA LoopRest ==
  ASSUME Rest, KeepsRuns, UNCHANGED <<stopping, drainQueue, serviceVars>>,
         task' \in [Tasks -> TaskStatus], decisions' \in [Tasks -> [DecisionKinds -> Nat]],
         approval' \in [Runs -> {"NONE", "REQUESTED", "GRANTED", "RESOLVED", "EXPIRED"}]
  PROVE  Rest'
BY DEF Rest, KeepsRuns, serviceVars

LEMMA FinishFailedInv ==
  ASSUME Inv, NEW l \in loops, NEW why \in Reasons, Leave(l), finishFailed(l, why),
         UNCHANGED <<approval, stopping, drainQueue, serviceVars>>
  PROVE  Inv'
<1>1. Core' /\ KeepsRuns
  BY LeaveCore DEF Inv, Leave, finishFailed, Settled, Parked
<1>2. task' \in [Tasks -> TaskStatus]
  BY DEF finishFailed, Inv, Rest, TaskStatus
<1>3. decisions' \in [Tasks -> [DecisionKinds -> Nat]]
  <2> DEFINE t == run[l.run].task
             k == "REVIEW_ESCALATION"
  <2>1. decisions' = decisions \/ decisions' = [decisions EXCEPT ![t][k] = @ + 1]
    BY DEF finishFailed
  <2>2. CASE t \in Tasks
    BY <2>1, <2>2 DEF Inv, Rest, DecisionKinds
  <2>3. CASE t \notin Tasks
    BY <2>1, <2>3 DEF Inv, Rest
  <2> QED BY <2>2, <2>3
<1>4. Rest'
  BY <1>1, <1>2, <1>3, LoopRest DEF Inv, Rest, serviceVars
<1> QED BY <1>1, <1>4 DEF Inv

\* Where a loop can move: the next pass, or another await of this one.
LEMMA MovedLoop ==
  ASSUME NEW l \in Loop, NEW pc \in {"start", "next", "exec", "backoff"},
         NEW fails \in 0..ProviderFailureLimit
  PROVE  /\ [l EXCEPT !.pc = pc, !.fails = fails] \in Loop
         /\ [l EXCEPT !.pc = pc, !.fails = fails].run = l.run
         /\ [l EXCEPT !.pc = pc, !.fails = fails].gen = l.gen
         /\ [l EXCEPT !.pc = pc, !.fails = fails].pc = pc
         /\ [l EXCEPT !.pc = pc, !.fails = fails].fails = fails
BY DEF Loop

LEMMA PassedLoop ==
  ASSUME NEW l \in Loop, l.step + 1 \in 0..(StepBound - 1), NEW fails \in 0..ProviderFailureLimit
  PROVE  /\ [l EXCEPT !.pc = "next", !.step = @ + 1, !.fails = fails] \in Loop
         /\ [l EXCEPT !.pc = "next", !.step = @ + 1, !.fails = fails].run = l.run
         /\ [l EXCEPT !.pc = "next", !.step = @ + 1, !.fails = fails].gen = l.gen
         /\ [l EXCEPT !.pc = "next", !.step = @ + 1, !.fails = fails].fails = fails
BY DEF Loop

LEMMA NextPassInv ==
  ASSUME Inv, NEW l \in loops, NEW fails \in 0..(ProviderFailureLimit - 1), NextPass(l, fails),
         UNCHANGED <<approval, stopping, drainQueue, serviceVars>>
  PROVE  Inv'
<1> DEFINE m == [l EXCEPT !.pc = "next", !.step = @ + 1, !.fails = fails]
<1>1. CASE l.step + 1 < StepBound /\ Goto(l, m) /\ UNCHANGED <<task, run, decisions>>
  <2>1. l \in Loop /\ l.step + 1 \in 0..(StepBound - 1) /\ fails \in 0..ProviderFailureLimit
    BY <1>1 DEF Inv, Core, Loop
  <2>2. m \in Loop /\ m.run = l.run /\ m.gen = l.gen /\ m.fails = fails
    BY <2>1, PassedLoop
  <2> HIDE DEF m
  <2>3. Core' /\ KeepsRuns
    BY <1>1, <2>2, GotoCore DEF Inv
  <2>4. Rest'
    BY <1>1, <2>3, LoopRest DEF Inv, Rest
  <2> QED BY <2>3, <2>4 DEF Inv
<1>2. CASE Leave(l) /\ finishFailed(l, "IMPLEMENTATION")
  BY <1>2, FinishFailedInv DEF Reasons
<1> QED BY <1>1, <1>2 DEF NextPass

\* A loop moves on without writing a task, a decision or an approval.
LEMMA GotoInv ==
  ASSUME Inv, NEW l \in loops, NEW m \in Loop, m.run = l.run, m.gen = l.gen,
         m.pc # "backoff" => m.fails < ProviderFailureLimit,
         Goto(l, m), run' = run \/ run' = Stored(l.run, "RUNNING", "none"),
         UNCHANGED <<task, decisions, approval, stopping, drainQueue, serviceVars>>
  PROVE  Inv'
<1>1. Core' /\ KeepsRuns
  BY GotoCore DEF Inv
<1>2. Rest'
  BY <1>1, LoopRest DEF Inv, Rest
<1> QED BY <1>1, <1>2 DEF Inv

\* A loop parks its run.
LEMMA ParkInv ==
  ASSUME Inv, NEW l \in loops, NEW status \in Parked, l.gen <= MaxParks, Leave(l),
         run' = Stored(l.run, status, "none"), UNCHANGED <<stopping, drainQueue, serviceVars>>,
         task' \in [Tasks -> TaskStatus], decisions' \in [Tasks -> [DecisionKinds -> Nat]],
         approval' \in [Runs -> {"NONE", "REQUESTED", "GRANTED", "RESOLVED", "EXPIRED"}]
  PROVE  Inv'
<1>1. Core' /\ KeepsRuns
  BY LeaveCore DEF Inv, Leave, Reasons
<1>2. Rest'
  BY <1>1, LoopRest DEF Inv
<1> QED BY <1>1, <1>2 DEF Inv

LEMMA LoopStepInv ==
  ASSUME Inv, NEW l \in loops, LoopStep(l), UNCHANGED serviceVars
  PROVE  Inv'
<1>1. l \in Loop /\ (l.pc # "backoff" => l.fails < ProviderFailureLimit)
  BY DEF Inv, Core, LoopsMatchRuns
<1>2. CASE SessionStarted(l)
  <2> DEFINE m == [l EXCEPT !.pc = "next"]
  <2>1. m \in Loop /\ m.run = l.run /\ m.gen = l.gen /\ m.fails < ProviderFailureLimit
    BY <1>1, <1>2 DEF Loop, SessionStarted
  <2>2. Goto(l, m) /\ UNCHANGED <<task, approval, decisions, stopping, drainQueue>>
        /\ run' = Stored(l.run, "RUNNING", "none")
    BY <1>2 DEF SessionStarted
  <2> HIDE DEF m
  <2> QED BY <2>1, <2>2, GotoInv
<1>3. CASE ProviderFatal(l)
  <2>1. CASE run[l.run].status \in Settled /\ UNCHANGED <<task, run, decisions>>
    <3>1. Core' /\ KeepsRuns
      BY <1>3, <2>1, LeaveSettledCore DEF Inv, ProviderFatal, Leave
    <3>2. Rest'
      BY <1>3, <2>1, <3>1, LoopRest DEF Inv, Rest, ProviderFatal
    <3> QED BY <3>1, <3>2 DEF Inv
  <2>2. CASE finishFailed(l, "IMPLEMENTATION") \/ finishFailed(l, "CANCELLED")
    BY <1>3, <2>2, FinishFailedInv DEF ProviderFatal, Reasons
  <2> QED BY <1>3, <2>1, <2>2 DEF ProviderFatal
<1>4. CASE ProviderDegraded(l)
  <2> DEFINE m == [l EXCEPT !.pc = "backoff", !.fails = @ + 1]
  <2>0. l.fails + 1 \in 0..ProviderFailureLimit
    BY <1>1, <1>4 DEF Loop, ProviderDegraded
  <2>1. m \in Loop /\ m.run = l.run /\ m.gen = l.gen /\ m.pc = "backoff"
    BY <1>1, <2>0, MovedLoop DEF Loop
  <2>2. Goto(l, m) /\ UNCHANGED <<task, run, approval, decisions, stopping, drainQueue>>
    BY <1>4 DEF ProviderDegraded
  <2> HIDE DEF m
  <2> QED BY <2>1, <2>2, GotoInv
<1>5. CASE BackoffOver(l)
  <2>1. CASE Leave(l) /\ finishFailed(l, "IMPLEMENTATION")
    BY <1>5, <2>1, FinishFailedInv DEF BackoffOver, Reasons
  <2>2. CASE l.fails < ProviderFailureLimit /\ NextPass(l, l.fails)
    <3>1. l.fails \in 0..(ProviderFailureLimit - 1)
      BY <1>1, <2>2 DEF Loop
    <3> QED BY <1>5, <2>2, <3>1, NextPassInv DEF BackoffOver
  <2> QED BY <1>5, <2>1, <2>2 DEF BackoffOver
<1>6. CASE ProposesFinish(l)
  <2>1. CASE run[l.run].status \in Settled /\ UNCHANGED <<task, run, decisions>>
    <3>1. Core' /\ KeepsRuns
      BY <1>6, <2>1, LeaveSettledCore DEF Inv, ProposesFinish, Leave
    <3>2. Rest'
      BY <1>6, <2>1, <3>1, LoopRest DEF Inv, Rest, ProposesFinish
    <3> QED BY <3>1, <3>2 DEF Inv
  <2>2. CASE finishSuccess(l)
    <3>1. Core' /\ KeepsRuns
      BY <1>6, <2>2, LeaveCore DEF Inv, ProposesFinish, Leave, finishSuccess, Settled, Parked, Reasons
    <3>2. task' \in [Tasks -> TaskStatus] /\ decisions' = decisions
      BY <2>2 DEF finishSuccess, Inv, Rest, TaskStatus
    <3>3. Rest'
      BY <1>6, <3>1, <3>2, LoopRest DEF Inv, Rest, ProposesFinish
    <3> QED BY <3>1, <3>3 DEF Inv
  <2> QED BY <1>6, <2>1, <2>2 DEF ProposesFinish
<1>7. CASE RaisesDecision(l)
  <2> DEFINE t == run[l.run].task
             k == "IMPLEMENTATION_AMBIGUITY"
  <2>1. decisions' \in [Tasks -> [DecisionKinds -> Nat]]
    <3>1. CASE t \in Tasks
      BY <1>7, <3>1 DEF RaisesDecision, Inv, Rest, DecisionKinds
    <3>2. CASE t \notin Tasks
      BY <1>7, <3>2 DEF RaisesDecision, Inv, Rest
    <3> QED BY <3>1, <3>2
  <2>2. task' \in [Tasks -> TaskStatus]
    BY <1>7 DEF RaisesDecision, Inv, Rest, TaskStatus
  <2> QED BY <1>7, <2>1, <2>2, ParkInv DEF RaisesDecision, Inv, Rest, Parked
<1>8. CASE ActionAllowed(l)
  <2> DEFINE m == [l EXCEPT !.pc = "exec", !.fails = 0]
  <2>0. 0 \in 0..ProviderFailureLimit /\ 0 < ProviderFailureLimit
    OBVIOUS
  <2>a. m \in Loop
    BY <1>1, <2>0, MovedLoop
  <2>b. m.run = l.run /\ m.gen = l.gen /\ m.fails = 0
    BY <1>1 DEF Loop
  <2>1. m \in Loop /\ m.run = l.run /\ m.gen = l.gen /\ m.fails < ProviderFailureLimit
    BY <2>0, <2>a, <2>b
  <2>2. Goto(l, m) /\ UNCHANGED <<task, run, approval, decisions, stopping, drainQueue>>
    BY <1>8 DEF ActionAllowed
  <2> HIDE DEF m
  <2> QED BY <2>1, <2>2, GotoInv
<1>9. CASE ActionOver(l)
  BY <1>9, NextPassInv DEF ActionOver
<1>10. CASE ActionNeedsApproval(l)
  <2>1. approval' \in [Runs -> {"NONE", "REQUESTED", "GRANTED", "RESOLVED", "EXPIRED"}]
    BY <1>10 DEF ActionNeedsApproval, Inv, Rest
  <2> QED BY <1>10, <2>1, ParkInv DEF ActionNeedsApproval, Inv, Rest, Parked
<1> QED BY <1>2, <1>3, <1>4, <1>5, <1>6, <1>7, <1>8, <1>9, <1>10 DEF LoopStep

-----------------------------------------------------------------------------
(* Cancellation, shutdown and restart. *)

LEMMA CancelInv ==
  ASSUME Inv, NEW r \in Runs, CancelRun(r) \/ CancelFinishes(r) \/ Drained(r),
         UNCHANGED serviceVars
  PROVE  Inv'
<1>1. CASE run[r].status # "NONE" /\ Cancelled(r) /\ stopping' \subseteq stopping
           /\ UNCHANGED <<approval, decisions, loops, drainQueue>>
  <2>1. Core' /\ KeepsRuns
    BY <1>1, FailCore DEF Inv, Cancelled, Reasons
  <2>2. Rest'
    BY <1>1, <2>1 DEF Inv, Rest, KeepsRuns, Cancelled, TaskStatus, serviceVars
  <2> QED BY <2>1, <2>2 DEF Inv
<1>2. CASE CancelRun(r)
  <2>1. run[r].status # "NONE"
    BY <1>2 DEF CancelRun, Parked
  <2>2. CASE stopping' = stopping \cup {r} /\ UNCHANGED <<task, run>>
    <3>1. Core' /\ KeepsRuns
      BY <1>2, <2>2, SameCore DEF CancelRun, Inv
    <3>2. Rest'
      BY <1>2, <2>1, <2>2 DEF CancelRun, Inv, Rest, serviceVars
    <3> QED BY <3>1, <3>2 DEF Inv
  <2>3. CASE Cancelled(r) /\ UNCHANGED stopping
    BY <1>1, <1>2, <2>1, <2>3 DEF CancelRun
  <2> QED BY <1>2, <2>2, <2>3 DEF CancelRun
<1>3. CASE CancelFinishes(r)
  BY <1>1, <1>3 DEF CancelFinishes, Inv, Rest
<1>4. CASE Drained(r)
  <2>1. run[r].status # "NONE"
    BY <1>4 DEF Drained, Inv, Rest
  <2>2. Core' /\ KeepsRuns
    BY <1>4, <2>1, FailCore DEF Inv, Drained, Reasons
  <2>3. Rest'
    BY <1>4, <2>2 DEF Inv, Rest, KeepsRuns, Drained, TaskStatus, serviceVars
  <2> QED BY <2>2, <2>3 DEF Inv
<1> QED BY <1>2, <1>3, <1>4

LEMMA ShutdownInv == ASSUME Inv, shutdown PROVE Inv'
<1>1. Core' /\ KeepsRuns
  BY SameCore DEF shutdown, stopAllActive, Inv
<1>2. Rest'
  BY <1>1 DEF shutdown, stopAllActive, Inv, Rest, KeepsRuns, Running
<1> QED BY <1>1, <1>2 DEF Inv

LEMMA RestartInv == ASSUME Inv, Restart PROVE Inv'
<1>1. Core' /\ KeepsRuns
  BY RestartCore DEF Restart, Inv
<1>2. task' \in [Tasks -> TaskStatus]
  BY DEF Restart, recoverOrphanedRuns, Inv, Rest, TaskStatus
<1>3. Rest'
  BY <1>1, <1>2 DEF Restart, Inv, Rest
<1> QED BY <1>1, <1>3 DEF Inv

-----------------------------------------------------------------------------
(* The requests. *)

\* A request that leaves runs and loops alone.
LEMMA DocumentsInv ==
  ASSUME Inv, UNCHANGED <<run, loops, stopping, drainQueue, phase, restarts>>,
         task' \in [Tasks -> TaskStatus], decisions' \in [Tasks -> [DecisionKinds -> Nat]],
         approval' \in [Runs -> {"NONE", "REQUESTED", "GRANTED", "RESOLVED", "EXPIRED"}],
         requests' \in [Tasks -> 0..MaxRequests], reviews' \in [Tasks -> 0..MaxRequests]
  PROVE  Inv'
<1>1. Core' /\ KeepsRuns
  BY SameCore DEF Inv
<1>2. Rest'
  BY <1>1 DEF Inv, Rest, KeepsRuns
<1> QED BY <1>1, <1>2 DEF Inv

\* A request that may resume a run.
LEMMA ResumeInv ==
  ASSUME Inv, NEW r \in Runs, resumeRun(r), UNCHANGED <<stopping, drainQueue, serviceVars>>,
         task' \in [Tasks -> TaskStatus], decisions' \in [Tasks -> [DecisionKinds -> Nat]],
         approval' \in [Runs -> {"NONE", "REQUESTED", "GRANTED", "RESOLVED", "EXPIRED"}]
  PROVE  Inv'
<1>1. Core' /\ KeepsRuns
  BY ResumeCore DEF Inv
<1>2. Rest'
  BY <1>1, LoopRest DEF Inv
<1> QED BY <1>1, <1>2 DEF Inv

LEMMA ExecuteInv ==
  ASSUME Inv, NEW t \in Tasks, ExecuteTask(t) \/ CapabilityProbed(t)
  PROVE  Inv'
<1>1. CASE ExecuteTask(t)
  <2>1. requests' \in [Tasks -> 0..MaxRequests]
    BY <1>1 DEF ExecuteTask, Inv, Rest
  <2> QED BY <1>1, <2>1, DocumentsInv DEF ExecuteTask, Inv, Rest, orchestratorVars
<1>2. CASE CapabilityProbed(t)
  <2>1. requests' \in [Tasks -> 0..MaxRequests] /\ task' \in [Tasks -> TaskStatus]
    BY <1>2 DEF CapabilityProbed, StartRefused, StartLockedOut, StartCreatesRun, Inv, Rest, TaskStatus
  <2>2. CASE UNCHANGED <<run, loops>>
    BY <1>2, <2>1, <2>2, DocumentsInv DEF CapabilityProbed, Inv, Rest
  <2>3. CASE StartCreatesRun(t, "RUNNING")
    <3>1. Core' /\ KeepsRuns
      BY <2>3, StartCore DEF Inv
    <3>2. Rest'
      BY <1>2, <2>1, <3>1 DEF CapabilityProbed, Inv, Rest, KeepsRuns
    <3> QED BY <3>1, <3>2 DEF Inv
  <2> QED BY <1>2, <2>2, <2>3 DEF CapabilityProbed, StartRefused, StartLockedOut
<1> QED BY <1>1, <1>2

LEMMA TaskRequestInv ==
  ASSUME Inv, NEW t \in Tasks, BeginReview(t) \/ EndReview(t) \/ pauseTask(t) \/ resumeTask(t)
  PROVE  Inv'
<1>1. task' \in [Tasks -> TaskStatus]
  BY DEF BeginReview, EndReview, pauseTask, resumeTask, Inv, Rest, TaskStatus
<1>2. reviews' \in [Tasks -> 0..MaxRequests]
  BY DEF BeginReview, EndReview, pauseTask, resumeTask, Inv, Rest, serviceVars
<1> QED BY <1>1, <1>2, DocumentsInv
        DEF BeginReview, EndReview, pauseTask, resumeTask, Inv, Rest, serviceVars

LEMMA AnswerInv ==
  ASSUME Inv, NEW t \in Tasks, NEW k \in DecisionKinds, AnswerByRest(t, k) \/ AnswerByMobile(t, k)
  PROVE  Inv'
<1>1. task' \in [Tasks -> TaskStatus] /\ decisions' \in [Tasks -> [DecisionKinds -> Nat]]
  <2>1. Answer(t, k)
    BY DEF AnswerByRest, AnswerByMobile
  <2>2. decisions[t][k] - 1 \in Nat
    BY <2>1 DEF Answer, Inv, Rest
  <2> QED BY <2>1, <2>2 DEF Answer, Inv, Rest, TaskStatus
<1>2. UNCHANGED <<approval, stopping, drainQueue, serviceVars>>
  BY DEF AnswerByRest, AnswerByMobile
<1>3. CASE UNCHANGED <<run, loops>>
  BY <1>1, <1>2, <1>3, DocumentsInv DEF Inv, Rest, serviceVars
<1>4. CASE \E r \in RunsOf(t) : resumeRun(r)
  BY <1>1, <1>2, <1>4, ResumeInv DEF Inv, Rest, RunsOf
<1> QED BY <1>3, <1>4 DEF AnswerByRest, AnswerByMobile

LEMMA ApprovalInv ==
  ASSUME Inv, NEW r \in Runs, Approve(r) \/ ApprovedActionOver(r) \/ Reject(r)
  PROVE  Inv'
<1>1. /\ approval' \in [Runs -> {"NONE", "REQUESTED", "GRANTED", "RESOLVED", "EXPIRED"}]
      /\ UNCHANGED <<task, decisions, stopping, drainQueue, serviceVars>>
  BY DEF Approve, ApprovedActionOver, Reject, Inv, Rest
<1>2. CASE UNCHANGED <<run, loops>>
  BY <1>1, <1>2, DocumentsInv DEF Inv, Rest, serviceVars
<1>3. CASE resumeRun(r)
  BY <1>1, <1>3, ResumeInv DEF Inv, Rest
<1> QED BY <1>2, <1>3 DEF Approve, ApprovedActionOver, Reject

-----------------------------------------------------------------------------

LEMMA NextInv == Inv /\ [Next]_vars => Inv'
<1> SUFFICES ASSUME Inv, [Next]_vars PROVE Inv'
  OBVIOUS
<1>1. CASE Orchestration
  BY <1>1, LoopStepInv, CancelInv DEF Orchestration
<1>2. CASE Requests
  BY <1>2, ExecuteInv, TaskRequestInv, AnswerInv, ApprovalInv DEF Requests
<1>3. CASE UNCHANGED vars
  BY <1>3, DocumentsInv DEF vars, orchestratorVars, serviceVars, Inv, Rest
<1> QED BY <1>1, <1>2, <1>3, ShutdownInv, RestartInv DEF Next

LEMMA InvHolds == Spec => []Inv
BY InitInv, NextInv, PTL DEF Spec

\* Type correctness: whatever the requests and in whatever order the awaits of
\* the daemon complete, its documents and coroutines are well formed.  In
\* particular no loop passes its step bound or its provider-failure limit.
THEOREM TypeCorrect == Spec => []TypeOK
<1>1. Inv => TypeOK
  BY DEF Inv, Core, Rest, TypeOK
<1> QED BY <1>1, InvHolds, PTL

\* No run is ever driven by two loops: cancelRun, resumeRun, the drain and the
\* recovery of orphans may interleave freely with the awaits of executeLoop.
THEOREM OneDriver == Spec => []SingleDriver
<1>1. Inv => SingleDriver
  BY DEF Inv, Core
<1> QED BY <1>1, InvHolds, PTL

\* Nobody loses a run: one stored as RUNNING with a session has its loop, also
\* after a crash at any point.
THEOREM NoRunIsLost == Spec => []NoOrphanRun
<1>1. Inv => NoOrphanRun
  BY DEF Inv, Core
<1> QED BY <1>1, InvHolds, PTL

\* A loop and the document of the run it drives never contradict each other.
THEOREM LoopsAgree == Spec => []LoopsMatchRuns
<1>1. Inv => LoopsMatchRuns
  BY DEF Inv, Core
<1> QED BY <1>1, InvHolds, PTL

-----------------------------------------------------------------------------
(* What a step can do to the documents of the runs. *)

\* Somebody other than the loop declares r failed.
Fails(r) == \E why \in Reasons :
  run' = [run EXCEPT ![r] = [@ EXCEPT !.status = "FAILED", !.reason = why]]

LEMMA LoopStores ==
  ASSUME NEW l \in loops, LoopStep(l)
  PROVE  \/ run' = run
         \/ \E status \in RunStatus, why \in Reasons : run' = Stored(l.run, status, why)
<1>1. CASE \E why \in Reasons : finishFailed(l, why)
  BY <1>1 DEF finishFailed, RunStatus, Settled
<1>2. CASE NextPass(l, l.fails) \/ NextPass(l, 0)
  BY <1>1, <1>2 DEF NextPass, Reasons
<1> QED
  BY <1>1, <1>2 DEF LoopStep, SessionStarted, ProviderFatal, ProviderDegraded, BackoffOver,
     ProposesFinish, finishSuccess, RaisesDecision, ActionAllowed, ActionOver, ActionNeedsApproval,
     RunStatus, Settled, Parked, Reasons

LEMMA RunSteps ==
  ASSUME [Next]_vars
  PROVE  \/ run' = run
         \/ \E l \in loops, status \in RunStatus, why \in Reasons : run' = Stored(l.run, status, why)
         \/ \E r \in Runs : /\ \/ run[r].status \in Parked \cup {"RUNNING"}
                             \/ r \in stopping \cup drainQueue
                          /\ Fails(r)
         \/ \E r \in Runs : run[r].status \in Parked /\ run' = [run EXCEPT ![r] = Revived(r)]
         \/ \E t \in Tasks : StartCreatesRun(t, "RUNNING")
         \/ recoverOrphanedRuns
<1>1. CASE \E l \in loops : LoopStep(l)
  BY <1>1, LoopStores
<1>2. CASE \E r \in Runs : CancelRun(r) \/ CancelFinishes(r) \/ Drained(r)
  BY <1>2 DEF CancelRun, CancelFinishes, Drained, Cancelled, Fails, Reasons
<1>3. CASE Requests
  <2>1. CASE \E r \in Runs : resumeRun(r)
    BY <2>1 DEF resumeRun
  <2>2. CASE \E t \in Tasks : StartCreatesRun(t, "RUNNING")
    BY <2>2
  <2>3. CASE run' = run
    BY <2>3
  <2> QED
    BY <1>3, <2>1, <2>2, <2>3 DEF Requests, ExecuteTask, orchestratorVars, CapabilityProbed,
       StartRefused, StartLockedOut, BeginReview, EndReview, pauseTask, resumeTask, AnswerByRest,
       AnswerByMobile, RunsOf, Approve, ApprovedActionOver, Reject
<1>4. CASE UNCHANGED vars \/ shutdown \/ Restart
  BY <1>4 DEF vars, orchestratorVars, shutdown, stopAllActive, Restart
<1> QED BY <1>1, <1>2, <1>3, <1>4 DEF Next, Orchestration

-----------------------------------------------------------------------------
(* A settled run is final. *)

SettledUntouched ==
  \A r \in Runs : run[r].status \in Settled /\ ~Driven(r) /\ r \notin stopping \cup drainQueue
                => run'[r] = run[r]

LEMMA SettledStep == Inv /\ [Next]_vars => SettledUntouched
<1> SUFFICES ASSUME Inv, [Next]_vars, NEW r \in Runs,
                    run[r].status \in Settled, ~Driven(r), r \notin stopping \cup drainQueue
             PROVE  run'[r] = run[r]
  BY DEF SettledUntouched
<1>0. run \in [Runs -> Run]
  BY DEF Inv, Core
<1>1. CASE \E l \in loops, status \in RunStatus, why \in Reasons : run' = Stored(l.run, status, why)
  BY <1>0, <1>1 DEF Stored, Driven
<1>2. CASE \E q \in Runs : /\ \/ run[q].status \in Parked \cup {"RUNNING"}
                            \/ q \in stopping \cup drainQueue
                         /\ Fails(q)
  BY <1>0, <1>2 DEF Fails, Parked, Settled
<1>3. CASE \E q \in Runs : run[q].status \in Parked /\ run' = [run EXCEPT ![q] = Revived(q)]
  BY <1>0, <1>3 DEF Parked, Settled
<1>4. CASE \E t \in Tasks : StartCreatesRun(t, "RUNNING")
  BY <1>0, <1>4 DEF StartCreatesRun, Settled
<1>5. CASE recoverOrphanedRuns
  BY <1>5 DEF recoverOrphanedRuns, Orphans, Running, Settled
<1> QED BY <1>1, <1>2, <1>3, <1>4, <1>5, RunSteps

\* Once its coroutine is gone and no runtime.stop is pending for it, a settled
\* run keeps its verdict: an approval, an answer or a restart that arrives late
\* cannot reopen it.
THEOREM SettledStays == Spec => SettledIsFinal
<1>1. Inv /\ [Next]_vars
      => [\A r \in Runs :
            /\ run[r].status \in Settled
            /\ ~Driven(r) /\ r \notin stopping \cup drainQueue
            => run'[r] = run[r]]_vars
  BY SettledStep DEF SettledUntouched
<1> QED BY <1>1, InvHolds, PTL DEF Spec, SettledIsFinal

-----------------------------------------------------------------------------
(* The attempt budget. *)

LEMMA RunKeepsTask ==
  ASSUME Inv, [Next]_vars, ~ \E t \in Tasks : StartCreatesRun(t, "RUNNING")
  PROVE  \A r \in Runs : run'[r].task = run[r].task
<1>0. run \in [Runs -> Run]
  BY DEF Inv, Core
<1>1. CASE \E l \in loops, status \in RunStatus, why \in Reasons : run' = Stored(l.run, status, why)
  <2>1. \A l \in loops : l.run \in Runs
    BY DEF Inv, Core, Loop
  <2> QED BY <1>0, <1>1, <2>1, StoredFields
<1>2. CASE \E r \in Runs : Fails(r)
  BY <1>0, <1>2 DEF Fails, Run
<1>3. CASE \E r \in Runs : run' = [run EXCEPT ![r] = Revived(r)]
  BY <1>0, <1>3 DEF Revived, Run
<1>4. CASE recoverOrphanedRuns
  BY <1>0, <1>4 DEF recoverOrphanedRuns, Run
<1> QED BY <1>1, <1>2, <1>3, <1>4, RunSteps

LEMMA AttemptsStep == Inv /\ AttemptsBounded /\ [Next]_vars => AttemptsBounded'
<1> SUFFICES ASSUME Inv, AttemptsBounded, [Next]_vars, NEW u \in Tasks
             PROVE  Cardinality(RunsOf(u)') <= MaxRunAttempts
  BY DEF AttemptsBounded
<1>1. CASE \E t \in Tasks : StartCreatesRun(t, "RUNNING")
  <2>1. PICK t \in Tasks, r \in Runs :
          /\ Cardinality(RunsOf(t)) < MaxRunAttempts
          /\ run[r].status = "NONE"
          /\ run' = [run EXCEPT ![r] = [task |-> t, status |-> "RUNNING", session |-> FALSE,
                                        reason |-> "none", gen |-> 1]]
    <3>1. PICK t \in Tasks : StartCreatesRun(t, "RUNNING")
      BY <1>1
    <3>2. IsFiniteSet(RunsOf(t))
      BY FS_Subset DEF RunsOf
    <3>3. Cardinality(RunsOf(t)) < MaxRunAttempts
      BY <3>1, <3>2, FS_CardinalityType DEF StartCreatesRun, AttemptsExhausted
    <3> QED BY <3>1, <3>3 DEF StartCreatesRun
  <2>2. run[r].task = NoTask /\ run \in [Runs -> Run]
    BY <2>1 DEF Inv, Core, RunsWellFormed
  <2>3. IsFiniteSet(RunsOf(t)) /\ r \notin RunsOf(t)
    BY <2>2, FS_Subset DEF RunsOf
  <2>4. CASE u = t
    <3>1. RunsOf(u)' = RunsOf(t) \cup {r}
      BY <2>1, <2>2, <2>4 DEF RunsOf
    <3>2. Cardinality(RunsOf(t) \cup {r}) = Cardinality(RunsOf(t)) + 1
      BY <2>3, FS_AddElement
    <3> QED BY <2>1, <2>3, <3>1, <3>2, FS_CardinalityType
  <2>5. CASE u # t
    <3>1. RunsOf(u)' = RunsOf(u)
      BY <2>1, <2>2, <2>5 DEF RunsOf
    <3> QED BY <3>1 DEF AttemptsBounded
  <2> QED BY <2>4, <2>5
<1>2. CASE ~ \E t \in Tasks : StartCreatesRun(t, "RUNNING")
  <2>1. RunsOf(u)' = RunsOf(u)
    BY <1>2, RunKeepsTask DEF RunsOf
  <2> QED BY <2>1 DEF AttemptsBounded
<1> QED BY <1>1, <1>2

\* A task never gets more runs than config.maxRunAttempts, however many
\* executeTask calls wait for the capability probe at the same time.
THEOREM AttemptBudget == Spec => []AttemptsBounded
<1>1. Init => AttemptsBounded
  <2>1. Init => \A t \in Tasks : RunsOf(t) = {}
    BY DEF Init, OrchestratorInit, NoRun, RunsOf
  <2> QED BY <2>1, FS_EmptySet DEF AttemptsBounded
<1> QED BY <1>1, AttemptsStep, InvHolds, PTL DEF Spec
-----------------------------------------------------------------------------
(* A parked run has somebody to wake it.                                     *)

\* Only an action held for approval parks a run on one, and it requests the
\* approval in the same step.
LEMMA LoopParks ==
  ASSUME Inv, NEW l \in loops, LoopStep(l), NEW r \in Runs,
         run'[r] # run[r], run'[r].status = "WAITING_APPROVAL"
  PROVE  approval'[r] = "REQUESTED"
<1>0. /\ run \in [Runs -> Run] /\ l.run \in Runs
      /\ approval \in [Runs -> {"NONE", "REQUESTED", "GRANTED", "RESOLVED", "EXPIRED"}]
  BY DEF Inv, Core, Rest, Loop
<1>1. ASSUME NEW status \in RunStatus, NEW why \in Reasons, run' = Stored(l.run, status, why)
      PROVE  l.run = r /\ status = "WAITING_APPROVAL"
  BY <1>0, <1>1, StoredFields
<1>2. /\ "RUNNING" \in RunStatus /\ "FAILED" \in RunStatus /\ "SUCCEEDED" \in RunStatus
      /\ "WAITING_DECISION" \in RunStatus /\ "WAITING_APPROVAL" \in RunStatus
      /\ "none" \in Reasons /\ "IMPLEMENTATION" \in Reasons /\ "CANCELLED" \in Reasons
  BY DEF RunStatus, Settled, Parked, Reasons
<1>3. /\ run' # run
      /\ run' # Stored(l.run, "RUNNING", "none")
      /\ run' # Stored(l.run, "SUCCEEDED", "none")
      /\ run' # Stored(l.run, "WAITING_DECISION", "none")
      /\ \A why \in Reasons : run' # Stored(l.run, "FAILED", why)
  BY <1>1, <1>2
<1>4. ActionNeedsApproval(l)
  BY <1>2, <1>3
     DEF LoopStep, SessionStarted, ProviderFatal, ProviderDegraded, BackoffOver, NextPass,
         ProposesFinish, RaisesDecision, ActionAllowed, ActionOver, finishFailed, finishSuccess
<1>5. l.run = r
  BY <1>1, <1>2, <1>4 DEF ActionNeedsApproval
<1> QED BY <1>0, <1>4, <1>5 DEF ActionNeedsApproval

\* Nobody else parks a run on an approval.
LEMMA OthersPark ==
  ASSUME Inv, [Next]_vars, ~ \E l \in loops : LoopStep(l),
         NEW r \in Runs, run'[r].status = "WAITING_APPROVAL"
  PROVE  run'[r] = run[r]
<1>0. run \in [Runs -> Run]
  BY DEF Inv, Core
<1>1. CASE \E q \in Runs : CancelRun(q) \/ CancelFinishes(q) \/ Drained(q)
  <2>1. run' = run \/ \E q \in Runs : Fails(q)
    BY <1>1 DEF CancelRun, CancelFinishes, Drained, Cancelled, Fails, Reasons
  <2> QED BY <1>0, <2>1 DEF Fails, Run
<1>2. CASE \E q \in Runs : run' = [run EXCEPT ![q] = Revived(q)]
  BY <1>0, <1>2 DEF Revived, Run
<1>3. CASE \E t \in Tasks : StartCreatesRun(t, "RUNNING")
  BY <1>0, <1>3 DEF StartCreatesRun
<1>4. CASE Requests
  <2>1. run' = run \/ (\E q \in Runs : resumeRun(q)) \/ \E t \in Tasks : StartCreatesRun(t, "RUNNING")
    BY <1>4 DEF Requests, ExecuteTask, orchestratorVars, CapabilityProbed, StartRefused,
       StartLockedOut, BeginReview, EndReview, pauseTask, resumeTask, AnswerByRest, AnswerByMobile,
       RunsOf, Approve, ApprovedActionOver, Reject
  <2> QED BY <1>2, <1>3, <2>1 DEF resumeRun
<1>5. CASE Restart
  BY <1>0, <1>5 DEF Restart, recoverOrphanedRuns, Run
<1>6. CASE shutdown \/ UNCHANGED vars
  BY <1>6 DEF shutdown, stopAllActive, vars, orchestratorVars
<1> QED BY <1>1, <1>4, <1>5, <1>6 DEF Next, Orchestration

\* An approval that is open or being executed stops being so only when the run is
\* resumed or the daemon restarts.
LEMMA WakerStays ==
  ASSUME Inv, [Next]_vars, ~Restart, NEW r \in Runs, run'[r] = run[r],
         run[r].status = "WAITING_APPROVAL", approval[r] \in {"REQUESTED", "GRANTED"}
  PROVE  approval'[r] \in {"REQUESTED", "GRANTED"}
<1>0. approval \in [Runs -> {"NONE", "REQUESTED", "GRANTED", "RESOLVED", "EXPIRED"}]
  BY DEF Inv, Rest
<1>1. ~resumeRun(r)
  <2>1. run[r] \in Run BY DEF Inv, Core
  <2>2. Revived(r).status = "RUNNING" BY <2>1 DEF Revived, Run
  <2> QED BY <2>2 DEF resumeRun, Parked, Inv, Core
<1>2. CASE \E l \in loops : LoopStep(l)
  BY <1>0, <1>2 DEF LoopStep, SessionStarted, ProviderFatal, ProviderDegraded, BackoffOver,
     ProposesFinish, RaisesDecision, ActionAllowed, ActionOver, ActionNeedsApproval
<1>3. CASE \E q \in Runs : Approve(q) \/ ApprovedActionOver(q) \/ Reject(q)
  BY <1>0, <1>1, <1>3 DEF Approve, ApprovedActionOver, Reject
<1>4. CASE UNCHANGED approval
  BY <1>4
<1> QED
  BY <1>2, <1>3, <1>4 DEF Next, Orchestration, CancelRun, CancelFinishes, Drained, Cancelled, Requests,
     ExecuteTask, CapabilityProbed, BeginReview, EndReview, pauseTask, resumeTask, AnswerByRest,
     AnswerByMobile, shutdown, stopAllActive, vars, orchestratorVars, serviceVars

WakerInv == restarts = 0 => ParkedRunHasWaker

LEMMA WakerStep == Inv /\ WakerInv /\ [Next]_vars => WakerInv'
<1> SUFFICES ASSUME Inv, WakerInv, [Next]_vars, restarts' = 0,
                    NEW r \in Runs, run'[r].status = "WAITING_APPROVAL"
             PROVE  approval'[r] \in {"REQUESTED", "GRANTED"}
  BY DEF WakerInv, ParkedRunHasWaker
<1>1. restarts \in Nat
  BY DEF Inv, Rest
<1>2. ~Restart
  BY <1>1 DEF Restart
<1>3. restarts = 0
  BY <1>2 DEF Next, Orchestration, Requests, ExecuteTask, CapabilityProbed, BeginReview, EndReview,
     pauseTask, resumeTask, AnswerByRest, AnswerByMobile, Approve, ApprovedActionOver, Reject,
     shutdown, vars, serviceVars
<1>4. run'[r] = run[r] \/ approval'[r] = "REQUESTED"
  BY LoopParks, OthersPark
<1>5. CASE run'[r] = run[r]
  <2>1. run[r].status = "WAITING_APPROVAL" /\ approval[r] \in {"REQUESTED", "GRANTED"}
    BY <1>3, <1>5 DEF WakerInv, ParkedRunHasWaker
  <2> QED BY <1>2, <1>5, <2>1, WakerStays
<1> QED BY <1>4, <1>5

\* Until the first restart, whatever is cancelled, approved, rejected or drained in
\* whatever order, a run that waits for an approval is woken by it: the approval is
\* open or its action is being executed.
THEOREM WakerUntilRestart == Spec => [](restarts = 0 => ParkedRunHasWaker)
<1>1. Init => WakerInv
  BY DEF Init, OrchestratorInit, NoRun, WakerInv, ParkedRunHasWaker
<1>2. WakerInv <=> (restarts = 0 => ParkedRunHasWaker)
  BY DEF WakerInv
<1> QED BY <1>1, <1>2, WakerStep, InvHolds, PTL DEF Spec
-----------------------------------------------------------------------------
(* Every run keeps the contract of RunLifecycle. *)

\* A run has the loop it has: what CHOOSE picks.
LEMMA OnlyLoop ==
  ASSUME NEW S, NEW l \in S, \A m, n \in S : m.run = n.run => m = n
  PROVE  (CHOOSE m \in S : m.run = l.run) = l
OBVIOUS

LEMMA DrivenPhase ==
  ASSUME Inv, NEW l \in loops
  PROVE  PhaseOf(l.run) = "driven" /\ LeftOf(l.run) = AwaitsLeft(l)
<1>1. Driven(l.run) /\ (CHOOSE m \in loops : m.run = l.run) = l
  BY OnlyLoop DEF Driven, Inv, Core, SingleDriver
<1> QED BY <1>1 DEF PhaseOf, LeftOf

LEMMA DrivenPhaseNext ==
  ASSUME Inv', NEW l \in loops'
  PROVE  PhaseOf(l.run)' = "driven" /\ LeftOf(l.run)' = AwaitsLeft(l)
<1>1. Driven(l.run)' /\ (CHOOSE m \in loops' : m.run = l.run) = l
  BY OnlyLoop DEF Driven, Inv, Core, SingleDriver
<1> QED BY <1>1 DEF PhaseOf, LeftOf, AwaitsLeft

\* The contract sees of a run its loop and, once that is gone, its status.
LEMMA SameForRun ==
  ASSUME Inv, Inv', NEW q \in Runs,
         \A l : l.run = q => (l \in loops <=> l \in loops'),
         run'[q].status = run[q].status \/ Driven(q)
  PROVE  PhaseOf(q)' = PhaseOf(q) /\ LeftOf(q)' = LeftOf(q)
<1>1. CASE Driven(q)
  <2>1. PICK l \in loops : l.run = q
    BY <1>1 DEF Driven
  <2> QED BY <2>1, DrivenPhase, DrivenPhaseNext
<1>2. CASE ~Driven(q)
  <2>1. ~Driven(q)'
    BY <1>2 DEF Driven
  <2> QED BY <1>2, <2>1 DEF PhaseOf, LeftOf
<1> QED BY <1>1, <1>2

\* A step that concerns one run changes one entry of the contract's functions.
LEMMA OneRunChanges ==
  ASSUME NEW r \in Runs,
         \A q \in Runs \ {r} : PhaseOf(q)' = PhaseOf(q) /\ LeftOf(q)' = LeftOf(q)
  PROVE  /\ runPhase' = [runPhase EXCEPT ![r] = PhaseOf(r)']
         /\ awaitsLeft' = [awaitsLeft EXCEPT ![r] = LeftOf(r)']
         /\ runPhase[r] = PhaseOf(r) /\ awaitsLeft[r] = LeftOf(r)
BY DEF runPhase, awaitsLeft

LEMMA LeaveRefines ==
  ASSUME Inv, Inv', NEW l \in loops, Leave(l), run'[l.run].status \in Settled \cup Parked,
         \A q \in Runs \ {l.run} : run'[q] = run[q]
  PROVE  Lifecycle!Leave(l.run)
<1>1. l.run \in Runs /\ loops' = loops \ {l} /\ \A m \in loops' : m.run # l.run
  BY DEF Inv, Core, Loop, SingleDriver, Leave
<1>2. \A q \in Runs \ {l.run} : PhaseOf(q)' = PhaseOf(q) /\ LeftOf(q)' = LeftOf(q)
  BY <1>1, SameForRun
<1>3. PhaseOf(l.run)' \in {"parked", "over"} /\ LeftOf(l.run)' = 0
  BY <1>1 DEF PhaseOf, LeftOf, Driven, Settled, Parked
<1> QED BY <1>1, <1>2, <1>3, OneRunChanges, DrivenPhase DEF Lifecycle!Leave

LEMMA WorkRefines ==
  ASSUME Inv, Inv', NEW l \in loops, NEW m, m.run = l.run, Goto(l, m),
         AwaitsLeft(m) \in 1..(AwaitsLeft(l) - 1),
         \A q \in Runs \ {l.run} : run'[q] = run[q]
  PROVE  Lifecycle!Work(l.run)
<1>1. l.run \in Runs /\ loops' = (loops \ {l}) \cup {m}
  BY DEF Inv, Core, Loop, Goto
<1>2. \A q \in Runs \ {l.run} : PhaseOf(q)' = PhaseOf(q) /\ LeftOf(q)' = LeftOf(q)
  BY <1>1, SameForRun
<1>3. PhaseOf(l.run) = "driven" /\ LeftOf(l.run) = AwaitsLeft(l)
  BY DrivenPhase
<1>4. PhaseOf(l.run)' = "driven" /\ LeftOf(l.run)' = AwaitsLeft(m)
  BY <1>1, DrivenPhaseNext
<1>5. runPhase' = runPhase
  BY <1>1, <1>2, <1>3, <1>4 DEF runPhase
<1>6. /\ awaitsLeft' = [awaitsLeft EXCEPT ![l.run] = AwaitsLeft(m)]
      /\ runPhase[l.run] = "driven" /\ awaitsLeft[l.run] = AwaitsLeft(l)
  BY <1>1, <1>2, <1>3, <1>4, OneRunChanges
<1> QED BY <1>5, <1>6 DEF Lifecycle!Work

\* A new or a parked run gets a loop.
LEMMA DriveRefines ==
  ASSUME Inv, Inv', NEW r \in Runs, run[r].status \in Parked \cup {"NONE"},
         NEW g, loops' = loops \cup {NewLoop(r, g)}, \A q \in Runs \ {r} : run'[q] = run[q]
  PROVE  Lifecycle!Drive(r)
<1> DEFINE m == NewLoop(r, g)
<1>1. m.run = r /\ AwaitsLeft(m) = 2 * StepBound + 1
  BY DEF NewLoop, AwaitsLeft
<1>2. m \in loops' /\ loops' = loops \cup {m}
  OBVIOUS
<1> HIDE DEF m
<1>3. ~Driven(r)
  BY DEF Driven, Inv, Core, LoopsMatchRuns
<1>4. PhaseOf(r) \in {"none", "parked"}
  BY <1>3 DEF PhaseOf, Parked, Settled
<1>5. PhaseOf(r)' = "driven" /\ LeftOf(r)' = 2 * StepBound + 1
  BY <1>1, <1>2, DrivenPhaseNext
<1>6. \A q \in Runs \ {r} : PhaseOf(q)' = PhaseOf(q) /\ LeftOf(q)' = LeftOf(q)
  BY <1>1, <1>2, SameForRun
<1> QED BY <1>4, <1>5, <1>6, OneRunChanges DEF Lifecycle!Drive

\* Somebody else than the loop writes FAILED: for the contract that ends a run nobody
\* drives, and says nothing about one that is driven or over.
LEMMA FailRefines ==
  ASSUME Inv, Inv', NEW r \in Runs, run[r].status # "NONE", Fails(r), loops' = loops
  PROVE  Lifecycle!End(r) \/ UNCHANGED <<runPhase, awaitsLeft>>
<1>1. run'[r].status = "FAILED" /\ \A q \in Runs \ {r} : run'[q] = run[q]
  BY DEF Fails, Inv, Core, Run
<1>2. \A q \in Runs \ {r} : PhaseOf(q)' = PhaseOf(q) /\ LeftOf(q)' = LeftOf(q)
  BY <1>1, SameForRun
<1>3. CASE Driven(r)
  <2>1. PhaseOf(r)' = PhaseOf(r) /\ LeftOf(r)' = LeftOf(r)
    BY <1>3, SameForRun
  <2> QED BY <1>2, <2>1 DEF runPhase, awaitsLeft
<1>4. CASE ~Driven(r)
  <2>1. ~Driven(r)'
    BY <1>4 DEF Driven
  <2>2. PhaseOf(r)' = "over" /\ LeftOf(r)' = 0 /\ LeftOf(r) = 0
    BY <1>1, <1>4, <2>1 DEF PhaseOf, LeftOf, Settled, Parked
  <2>3. PhaseOf(r) \in {"parked", "over", "stranded"}
    BY <1>4 DEF PhaseOf
  <2>4. awaitsLeft' = awaitsLeft
    BY <1>2, <2>2 DEF awaitsLeft
  <2>5. CASE PhaseOf(r) = "over"
    BY <1>2, <2>2, <2>4, <2>5 DEF runPhase
  <2>6. CASE PhaseOf(r) # "over"
    BY <1>2, <2>2, <2>3, <2>4, <2>6, OneRunChanges DEF Lifecycle!End
  <2> QED BY <2>5, <2>6
<1> QED BY <1>3, <1>4

LEMMA SameRefines ==
  ASSUME Inv, Inv', run' = run, loops' = loops
  PROVE  UNCHANGED <<runPhase, awaitsLeft>>
<1>1. \A q \in Runs : PhaseOf(q)' = PhaseOf(q) /\ LeftOf(q)' = LeftOf(q)
  BY SameForRun
<1> QED BY <1>1 DEF runPhase, awaitsLeft

\* No loop survives; the runs with a session are settled by recoverOrphanedRuns.
LEMMA RestartRefines ==
  ASSUME Inv, Inv', recoverOrphanedRuns, loops' = {}
  PROVE  Lifecycle!Restart
<1>0. run \in [Runs -> Run]
  BY DEF Inv, Core
<1>1. \A r \in Runs : ~Driven(r)' /\ LeftOf(r)' = 0
  BY DEF Driven, LeftOf
<1>2. ASSUME NEW r \in Runs
      PROVE  /\ PhaseOf(r)' \in {"none", "parked", "over", "stranded"}
             /\ IF PhaseOf(r) = "driven" THEN PhaseOf(r)' \in {"over", "stranded"}
                ELSE PhaseOf(r)' = PhaseOf(r)
  <2>1. run'[r].status = IF r \in Orphans THEN "FAILED" ELSE run[r].status
    BY <1>0 DEF recoverOrphanedRuns, Run
  <2>2. CASE Driven(r)
    <3>1. run[r].status \notin Parked \cup {"NONE"}
      BY <2>2 DEF Driven, Inv, Core, LoopsMatchRuns
    <3> QED BY <1>1, <2>1, <2>2, <3>1 DEF PhaseOf, Parked
  <2>3. CASE ~Driven(r)
    <3>1. run'[r].status = run[r].status
      BY <2>1, <2>3 DEF Orphans, Running, Inv, Core, NoOrphanRun
    <3> QED BY <1>1, <2>3, <3>1 DEF PhaseOf
  <2> QED BY <2>2, <2>3
<1>3. runPhase' \in [Runs -> Lifecycle!Phases]
  BY <1>2 DEF runPhase, Lifecycle!Phases
<1>4. awaitsLeft' = [r \in Runs |-> 0]
  BY <1>1 DEF awaitsLeft
<1>5. \A r \in Runs : IF runPhase[r] = "driven" THEN runPhase'[r] \in {"over", "stranded"}
                      ELSE runPhase'[r] = runPhase[r]
  BY <1>2 DEF runPhase
<1> QED BY <1>3, <1>4, <1>5 DEF Lifecycle!Restart

\* The loop leaves its run parked or settled, or has fewer answers to come: no way
\* round executeLoop passes without counting.
LEMMA LoopAdvances ==
  ASSUME Inv, NEW l \in loops, LoopStep(l)
  PROVE  \/ Leave(l) /\ run'[l.run].status \in Settled \cup Parked
         \/ \E m : m.run = l.run /\ Goto(l, m) /\ AwaitsLeft(m) \in 1..(AwaitsLeft(l) - 1)
<1>0. /\ run \in [Runs -> Run] /\ l \in Loop /\ l.run \in Runs
      /\ (l.pc # "backoff" => l.fails < ProviderFailureLimit)
  BY DEF Inv, Core, Loop, LoopsMatchRuns
<1>1. ASSUME NEW status \in Settled \cup Parked, NEW why \in Reasons, run' = Stored(l.run, status, why)
      PROVE  run'[l.run].status \in Settled \cup Parked
  <2>1. status \in RunStatus
    BY DEF RunStatus
  <2>2. Stored(l.run, status, why)[l.run].status = status
    BY <1>0, <2>1, StoredFields
  <2> QED BY <1>1, <2>2
<1>2. ASSUME NEW why \in Reasons, finishFailed(l, why)
      PROVE  run'[l.run].status \in Settled \cup Parked
  BY <1>1, <1>2 DEF finishFailed, Settled
<1>3. ASSUME NEW fails \in 0..ProviderFailureLimit, NextPass(l, fails), l.pc # "start"
      PROVE  \/ Leave(l) /\ run'[l.run].status \in Settled \cup Parked
             \/ \E m : m.run = l.run /\ Goto(l, m) /\ AwaitsLeft(m) \in 1..(AwaitsLeft(l) - 1)
  <2> DEFINE m == [l EXCEPT !.pc = "next", !.step = @ + 1, !.fails = fails]
  <2>1. CASE l.step + 1 < StepBound /\ Goto(l, m)
    <3>1. m.run = l.run /\ m.pc = "next" /\ m.step = l.step + 1
      BY <1>0 DEF Loop
    <3>2. AwaitsLeft(m) = 2 * (StepBound - 1 - (l.step + 1)) + 2
      BY <3>1 DEF AwaitsLeft
    <3>3. AwaitsLeft(l) \in {2 * (StepBound - 1 - l.step) + 2, 2 * (StepBound - 1 - l.step) + 1}
      BY <1>3 DEF AwaitsLeft
    <3>4. l.step \in Nat
      BY <1>0 DEF Loop
    <3> HIDE DEF m
    <3>5. AwaitsLeft(m) \in 1..(AwaitsLeft(l) - 1)
      BY <2>1, <3>2, <3>3, <3>4
    <3> QED BY <2>1, <3>1, <3>5
  <2>2. CASE Leave(l) /\ finishFailed(l, "IMPLEMENTATION")
    BY <1>2, <2>2 DEF Reasons
  <2> QED BY <1>3, <2>1, <2>2 DEF NextPass
<1>4. ASSUME NEW pc \in {"next", "exec", "backoff"}, NEW fails,
             \/ l.pc = "start" /\ pc = "next"
             \/ l.pc = "next" /\ pc # "next",
             \/ Goto(l, [l EXCEPT !.pc = pc, !.fails = fails])
             \/ Goto(l, [l EXCEPT !.pc = pc])
      PROVE  \E m : m.run = l.run /\ Goto(l, m) /\ AwaitsLeft(m) \in 1..(AwaitsLeft(l) - 1)
  <2>1. PICK m : /\ m \in {[l EXCEPT !.pc = pc, !.fails = fails], [l EXCEPT !.pc = pc]}
                 /\ Goto(l, m)
    BY <1>4
  <2>2. m.run = l.run /\ m.pc = pc /\ m.step = l.step
    BY <1>0, <2>1 DEF Loop
  <2>3. l.step \in 0..(StepBound - 1)
    BY <1>0 DEF Loop
  <2>4. AwaitsLeft(m) \in 1..(AwaitsLeft(l) - 1)
    BY <1>4, <2>2, <2>3 DEF AwaitsLeft
  <2> QED BY <2>1, <2>2, <2>4
<1>5. CASE SessionStarted(l)
  BY <1>4, <1>5 DEF SessionStarted
<1>6. CASE ProviderFatal(l) \/ ProposesFinish(l)
  <2>1. CASE run[l.run].status \in Settled /\ UNCHANGED run
    BY <1>6, <2>1 DEF ProviderFatal, ProposesFinish
  <2>2. CASE finishFailed(l, "IMPLEMENTATION") \/ finishFailed(l, "CANCELLED")
    BY <1>2, <1>6, <2>2 DEF ProviderFatal, ProposesFinish, Reasons
  <2>3. CASE finishSuccess(l)
    BY <1>1, <1>6, <2>3 DEF ProviderFatal, ProposesFinish, finishSuccess, Settled, Reasons
  <2> QED BY <1>6, <2>1, <2>2, <2>3 DEF ProviderFatal, ProposesFinish
<1>7. CASE ProviderDegraded(l) \/ ActionAllowed(l)
  BY <1>4, <1>7 DEF ProviderDegraded, ActionAllowed
<1>8. CASE BackoffOver(l)
  <2>1. l.fails \in 0..ProviderFailureLimit
    BY <1>0 DEF Loop
  <2> QED BY <1>2, <1>3, <1>8, <2>1 DEF BackoffOver, Reasons
<1>9. CASE ActionOver(l)
  BY <1>3, <1>9 DEF ActionOver
<1>10. CASE RaisesDecision(l) \/ ActionNeedsApproval(l)
  BY <1>1, <1>10 DEF RaisesDecision, ActionNeedsApproval, Parked, Reasons
<1> QED BY <1>5, <1>6, <1>7, <1>8, <1>9, <1>10 DEF LoopStep

LEMMA LoopRefines ==
  ASSUME Inv, Inv', NEW l \in loops, LoopStep(l)
  PROVE  Lifecycle!Leave(l.run) \/ Lifecycle!Work(l.run)
<1>1. run \in [Runs -> Run] /\ l.run \in Runs
  BY DEF Inv, Core, Loop
<1>2. \A q \in Runs \ {l.run} : run'[q] = run[q]
  BY <1>1, LoopStores, StoredFields
<1>3. CASE Leave(l) /\ run'[l.run].status \in Settled \cup Parked
  BY <1>2, <1>3, LeaveRefines
<1>4. CASE \E m : m.run = l.run /\ Goto(l, m) /\ AwaitsLeft(m) \in 1..(AwaitsLeft(l) - 1)
  BY <1>2, <1>4, WorkRefines
<1> QED BY <1>3, <1>4, LoopAdvances

\* A task starts, or a parked run is resumed.
LEMMA RequestRefines ==
  ASSUME Inv, Inv', Requests
  PROVE  \/ \E r \in Runs : Lifecycle!Drive(r)
         \/ UNCHANGED <<runPhase, awaitsLeft>>
<1>0. run \in [Runs -> Run]
  BY DEF Inv, Core
<1>1. CASE \E r \in Runs : resumeRun(r)
  <2>1. PICK r \in Runs : resumeRun(r)
    BY <1>1
  <2>2. CASE run[r].status \in Parked
    <3>1. loops' = loops \cup {NewLoop(r, run[r].gen + 1)} /\ \A q \in Runs \ {r} : run'[q] = run[q]
      BY <1>0, <2>1, <2>2 DEF resumeRun
    <3> QED BY <2>2, <3>1, DriveRefines
  <2>3. CASE run[r].status \notin Parked
    BY <2>1, <2>3, SameRefines DEF resumeRun
  <2> QED BY <2>2, <2>3
<1>2. CASE \E t \in Tasks : StartCreatesRun(t, "RUNNING")
  <2>1. PICK r \in Runs :
          /\ run[r].status = "NONE" /\ loops' = loops \cup {NewLoop(r, 1)}
          /\ \A q \in Runs \ {r} : run'[q] = run[q]
    BY <1>0, <1>2 DEF StartCreatesRun
  <2> QED BY <2>1, DriveRefines
<1>3. CASE UNCHANGED <<run, loops>>
  BY <1>3, SameRefines
<1> QED
  BY <1>1, <1>2, <1>3 DEF Requests, ExecuteTask, orchestratorVars, CapabilityProbed,
     StartRefused, StartLockedOut, BeginReview, EndReview, pauseTask, resumeTask, AnswerByRest,
     AnswerByMobile, RunsOf, Approve, ApprovedActionOver, Reject

LEMMA StopRefines ==
  ASSUME Inv, Inv', NEW r \in Runs, CancelRun(r) \/ CancelFinishes(r) \/ Drained(r)
  PROVE  Lifecycle!End(r) \/ UNCHANGED <<runPhase, awaitsLeft>>
<1>1. loops' = loops
  BY DEF CancelRun, CancelFinishes, Drained
<1>2. run[r].status # "NONE"
  BY DEF CancelRun, CancelFinishes, Drained, Inv, Rest, Parked
<1>3. run' = run \/ Fails(r)
  BY DEF CancelRun, CancelFinishes, Drained, Cancelled, Fails, Reasons
<1> QED BY <1>1, <1>2, <1>3, SameRefines, FailRefines

\* Every behaviour of the daemon is one of the lifecycle's, run by run: each of its
\* steps is a step of that contract or changes nothing the contract sees.
THEOREM RunsKeepLifecycle == Spec => RunLifecycleSpec
<1>1. Init => Lifecycle!Init
  <2> SUFFICES ASSUME Init PROVE Lifecycle!Init
    OBVIOUS
  <2>1. ASSUME NEW r \in Runs PROVE PhaseOf(r) = "none" /\ LeftOf(r) = 0
    <3>1. ~Driven(r) /\ run[r].status = "NONE"
      BY DEF Init, OrchestratorInit, NoRun, Driven
    <3> QED BY <3>1 DEF PhaseOf, LeftOf, Parked, Settled
  <2> QED BY <2>1 DEF runPhase, awaitsLeft, Lifecycle!Init
<1>2. Inv /\ Inv' /\ [Next]_vars => [Lifecycle!Next]_<<runPhase, awaitsLeft>>
  <2> SUFFICES ASSUME Inv, Inv', [Next]_vars PROVE [Lifecycle!Next]_<<runPhase, awaitsLeft>>
    OBVIOUS
  <2>1. ASSUME NEW l \in loops, LoopStep(l) PROVE Lifecycle!Next
    <3>1. l.run \in Runs
      BY DEF Inv, Core, Loop
    <3> QED BY <2>1, <3>1, LoopRefines DEF Lifecycle!Next
  <2>2. CASE \E r \in Runs : CancelRun(r) \/ CancelFinishes(r) \/ Drained(r)
    BY <2>2, StopRefines DEF Lifecycle!Next
  <2>3. CASE Requests
    BY <2>3, RequestRefines DEF Lifecycle!Next
  <2>4. CASE shutdown \/ UNCHANGED vars
    BY <2>4, SameRefines DEF shutdown, stopAllActive, vars, orchestratorVars
  <2>5. CASE Restart
    BY <2>5, RestartRefines DEF Restart, Lifecycle!Next
  <2> QED BY <2>1, <2>2, <2>3, <2>4, <2>5 DEF Next, Orchestration
<1> QED BY <1>1, <1>2, InvHolds, PTL DEF Spec, RunLifecycleSpec, Lifecycle!Spec
=============================================================================
