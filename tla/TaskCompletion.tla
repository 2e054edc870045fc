--------------------------- MODULE TaskCompletion ---------------------------
(***************************************************************************)
(* When a task may become DONE: the verification evidence collected for it *)
(* (verification-service.ts), the reviews of it (review-council-service.ts)*)
(* and the completion predicate, as project-service.ts drives them while   *)
(* the repository moves and people pause the task or change requirements.  *)
(*                                                                         *)
(* One task of one project.  Evidence and reviews are documents; what a    *)
(* coroutine read before an await is in its record.  The task document is  *)
(* always written whole, from the copy the writer holds.                   *)
(***************************************************************************)
EXTENDS Naturals, Sequences, FiniteSets

CONSTANTS
  requiredEvidenceTypes,  \* of the task, in order, without repetition
  requiredReviewTypes,    \* of the task
  HighRisk,               \* task.riskTier = "HIGH"
  MaxRevision,            \* bound: commits of the repository
  MaxCollections,         \* bound: verification passes over the task
  MaxReviews              \* bound: review-complete requests

ReviewTypes == {"SPEC_COMPLIANCE", "CODE_QUALITY", "SECURITY"}

ASSUME CompletionConstants ==
  /\ requiredEvidenceTypes \in Seq({"UNIT_TEST", "INTEGRATION_TEST", "BUILD", "E2E_TEST"})
  /\ requiredReviewTypes \subseteq ReviewTypes
  /\ HighRisk \in BOOLEAN
  /\ MaxRevision \in Nat \ {0} /\ MaxCollections \in Nat /\ MaxReviews \in Nat

VARIABLES
  head,         \* the commit the repository is at
  status,       \* of the task
  blockers,     \* of the task: why it may not complete
  runner,       \* the run in flight and the blockers it copied, if any
  evidence,     \* docs "evidence" of the task
  latest,       \* the latest review of each type
  collections,  \* collectTaskEvidence coroutines
  reviewers,    \* reviewAndMaybeComplete coroutines
  swept,        \* history: the revision of the last freshness sweep
  started       \* how many collections and reviews there were

vars == <<head, status, blockers, runner, evidence, latest, collections, reviewers, swept, started>>

NoGit == 0   \* "no-git": the revision could not be read
Commits == 1..MaxRevision
Revisions == Commits \cup {NoGit}
Blockers == {"paused", "replan"}
Idle == [on |-> FALSE, resumed |-> FALSE, blockers |-> {}]

Evidence == [type: {requiredEvidenceTypes[i] : i \in DOMAIN requiredEvidenceTypes},
             passed: BOOLEAN, fresh: BOOLEAN, revision: Revisions]
Collection == [id: 1..MaxCollections, n: DOMAIN requiredEvidenceTypes \cup {1},
               pc: {"exec", "bind", "sweep"}, passed: BOOLEAN]
Reviewer == [id: 1..MaxReviews, n: 0..3, blockers: SUBSET Blockers]

Init ==
  /\ head = 1
  /\ status = "READY" /\ blockers = {}
  /\ runner = Idle
  /\ evidence = {}
  /\ latest = [t \in ReviewTypes |-> "NONE"]
  /\ collections = {} /\ reviewers = {}
  /\ swept = NoGit
  /\ started = [collections |-> 0, reviews |-> 0]

-----------------------------------------------------------------------------
(* The world around the task. *)

\* Agents, users and other tasks commit, or check another commit out.
CodeMoves ==
  /\ \E r \in Commits \ {head} : head' = r
  /\ UNCHANGED <<status, blockers, runner, evidence, latest, collections, reviewers, swept, started>>

pauseTask ==
  /\ status' = "BLOCKED" /\ blockers' = blockers \cup {"paused"}
  /\ UNCHANGED <<head, runner, evidence, latest, collections, reviewers, swept, started>>

resumeTask ==
  /\ status' = "READY" /\ blockers' = {}
  /\ UNCHANGED <<head, runner, evidence, latest, collections, reviewers, swept, started>>

\* A REQUIREMENT_CHANGE or SCOPE_CHANGE message.  The filter that should find
\* the fresh evidence looks for a status no evidence has, and finds none.
RequirementChange ==
  /\ status # "DONE" /\ "replan" \notin blockers
  /\ status' = "BLOCKED" /\ blockers' = blockers \cup {"replan"}
  /\ UNCHANGED <<head, runner, evidence, latest, collections, reviewers, swept, started>>

-----------------------------------------------------------------------------
(* Execution and verification. *)

NewCollection(id) == [id |-> id, n |-> 1, pc |-> IF requiredEvidenceTypes = <<>> THEN "sweep" ELSE "exec",
                      passed |-> FALSE]

\* collectTaskEvidence up to its first await.
collectTaskEvidence ==
  /\ started.collections < MaxCollections
  /\ started' = [started EXCEPT !.collections = @ + 1]
  /\ collections' = collections \cup {NewCollection(started.collections + 1)}

\* executeTask: the run carries the task, blockers and all.
StartRun ==
  /\ status \in {"READY", "QUEUED", "BLOCKED"} /\ ~runner.on
  /\ status' = "RUNNING"
  /\ runner' = [on |-> TRUE, resumed |-> FALSE, blockers |-> blockers]
  /\ UNCHANGED <<head, blockers, evidence, latest, collections, reviewers, swept, started>>

\* The run parked on an approval, executeTask returned, and resumeRun goes on
\* with the task as it is now.
RunResumed ==
  /\ runner.on
  /\ runner' = [on |-> TRUE, resumed |-> TRUE, blockers |-> blockers]
  /\ UNCHANGED <<head, status, blockers, evidence, latest, collections, reviewers, swept, started>>

\* finishFailed, or finishSuccess, after which executeTask collects the evidence
\* if it is still there.
RunEnds ==
  /\ runner.on
  /\ runner' = Idle
  /\ blockers' = runner.blockers
  /\ \/ status' = "VERIFYING" /\ ~runner.resumed /\ collectTaskEvidence
     \/ status' = "VERIFYING" /\ runner.resumed /\ UNCHANGED <<collections, started>>
     \/ status' = "READY" /\ UNCHANGED <<collections, started>>
  /\ UNCHANGED <<head, evidence, latest, reviewers, swept>>

rerunVerification ==
  /\ collectTaskEvidence
  /\ UNCHANGED <<head, status, blockers, runner, evidence, latest, reviewers, swept>>

Become(c, d) == collections' = (collections \ {c}) \cup {d}

\* runVerification: the command has run ...
CommandEnds(c) ==
  /\ c.pc = "exec"
  /\ \E ok \in BOOLEAN : Become(c, [c EXCEPT !.pc = "bind", !.passed = ok])
  /\ UNCHANGED <<head, status, blockers, runner, evidence, latest, reviewers, swept, started>>

\* ... and only then git is asked for the revision, which it may fail to tell.
recordFromAction(c) ==
  /\ c.pc = "bind"
  /\ \E revision \in {head, NoGit} :
       evidence' = evidence \cup {[type |-> requiredEvidenceTypes[c.n], passed |-> c.passed,
                                   fresh |-> TRUE, revision |-> revision]}
  /\ Become(c, IF c.n < Len(requiredEvidenceTypes)
               THEN [c EXCEPT !.n = @ + 1, !.pc = "exec"] ELSE [c EXCEPT !.pc = "sweep"])
  /\ UNCHANGED <<head, status, blockers, runner, latest, reviewers, swept, started>>

\* mutants: freshness recomputed, and a sweep that spares what just failed.
RecomputedFreshness(revision) ==
  {[e EXCEPT !.fresh = e.revision \in {NoGit, revision}] : e \in evidence}
SparingSweep(revision) ==
  {IF e.fresh /\ e.passed /\ e.revision \notin {NoGit, revision} THEN [e EXCEPT !.fresh = FALSE] ELSE e
   : e \in evidence}

invalidateStale(revision) ==
  {IF e.fresh /\ e.revision \notin {NoGit, revision} THEN [e EXCEPT !.fresh = FALSE] ELSE e
   : e \in evidence}

\* The freshness sweep that ends a collection.
FreshnessSweep(c) ==
  /\ c.pc = "sweep"
  /\ collections' = collections \ {c}
  /\ \E revision \in {head, NoGit} : evidence' = invalidateStale(revision) /\ swept' = revision
  /\ UNCHANGED <<head, status, blockers, runner, latest, reviewers, started>>

-----------------------------------------------------------------------------
(* Review and completion. *)

\* The two stages, and a third for tasks of high risk.
Stages == <<"SPEC_COMPLIANCE", "CODE_QUALITY">> \o IF HighRisk THEN <<"SECURITY">> ELSE <<>>

\* reviewAndMaybeComplete reads the task and asks git for the diff ...
BeginReview ==
  /\ started.reviews < MaxReviews
  /\ started' = [started EXCEPT !.reviews = @ + 1]
  /\ reviewers' = reviewers \cup {[id |-> started.reviews + 1, n |-> 0, blockers |-> blockers]}
  /\ UNCHANGED <<head, status, blockers, runner, evidence, latest, collections, swept>>

\* ... stores the copy as in REVIEW and asks the first reviewer.
DiffSummary(c) ==
  /\ c.n = 0
  /\ status' = "REVIEW" /\ blockers' = c.blockers
  /\ reviewers' = (reviewers \ {c}) \cup {[c EXCEPT !.n = 1]}
  /\ UNCHANGED <<head, runner, evidence, latest, collections, swept, started>>

\* mutant: any passing evidence will do.
EvaluateAnyEvidence(copied, reviews) ==
  /\ copied = {}
  /\ \A i \in DOMAIN requiredEvidenceTypes :
       \E e \in evidence : e.type = requiredEvidenceTypes[i] /\ e.passed
  /\ \A t \in requiredReviewTypes : reviews[t] = "PASSED"

\* CompletionService.evaluate(reviewing): the task is the copy, evidence and
\* reviews are read.
evaluate(copied, reviews) ==
  /\ copied = {}
  /\ \A i \in DOMAIN requiredEvidenceTypes :
       \E e \in evidence : e.type = requiredEvidenceTypes[i] /\ e.passed /\ e.fresh
  /\ \A t \in requiredReviewTypes : reviews[t] = "PASSED"

\* A reviewer answered: the review is stored, and after the last one the
\* predicate decides.
runReview(c) ==
  /\ c.n > 0
  /\ \E verdict \in {"PASSED", "BLOCKED"} : latest' = [latest EXCEPT ![Stages[c.n]] = verdict]
  /\ IF c.n < Len(Stages)
     THEN /\ reviewers' = (reviewers \ {c}) \cup {[c EXCEPT !.n = @ + 1]}
          /\ UNCHANGED <<status, blockers>>
     ELSE /\ reviewers' = reviewers \ {c}
          /\ IF evaluate(c.blockers, latest')
             THEN status' = "DONE" /\ blockers' = c.blockers
             ELSE UNCHANGED <<status, blockers>>
  /\ UNCHANGED <<head, runner, evidence, collections, swept, started>>

\* A reviewer's answer cannot be parsed, or the provider fails.
ReviewThrows(c) ==
  /\ c.n > 0
  /\ reviewers' = reviewers \ {c}
  /\ UNCHANGED <<head, status, blockers, runner, evidence, latest, collections, swept, started>>

-----------------------------------------------------------------------------

Next ==
  \/ CodeMoves \/ pauseTask \/ resumeTask \/ RequirementChange
  \/ StartRun \/ RunResumed \/ RunEnds \/ rerunVerification
  \/ \E c \in collections : CommandEnds(c) \/ recordFromAction(c) \/ FreshnessSweep(c)
  \/ BeginReview
  \/ \E c \in reviewers : DiffSummary(c) \/ runReview(c) \/ ReviewThrows(c)

Spec == Init /\ [][Next]_vars
-----------------------------------------------------------------------------

TypeOK ==
  /\ head \in Commits /\ swept \in Revisions
  /\ status \in {"READY", "RUNNING", "BLOCKED", "VERIFYING", "REVIEW", "DONE"}
  /\ blockers \subseteq Blockers
  /\ runner \in [on: BOOLEAN, resumed: BOOLEAN, blockers: SUBSET Blockers]
  /\ evidence \subseteq Evidence
  /\ latest \in [ReviewTypes -> {"NONE", "PASSED", "BLOCKED"}]
  /\ collections \subseteq Collection /\ reviewers \subseteq Reviewer
  /\ started \in [collections: 0..MaxCollections, reviews: 0..MaxReviews]

BecomesDone == status # "DONE" /\ status' = "DONE"

\* "required evidence fresh+passing, reviews passed" (docs/ARCHITECTURE.md:66): a
\* task becomes DONE only in a moment when all of it holds, whatever other
\* reviews, verifications and sweeps ran while its reviewers were thinking.
DoneIsEarned ==
  [][BecomesDone =>
       /\ \A i \in DOMAIN requiredEvidenceTypes :
            \E e \in evidence' : e.type = requiredEvidenceTypes[i] /\ e.passed /\ e.fresh
       /\ \A t \in requiredReviewTypes : latest'[t] = "PASSED"]_vars

\* Once every verification pass is over, and the code has not moved since the
\* last of them, what is FRESH is about the current commit - however the
\* passes and the commits interleaved.
SweptEvidenceIsCurrent ==
  collections = {} /\ swept = head =>
    \A e \in evidence : e.fresh => e.revision \in {head, NoGit}

\* STALE evidence never becomes FRESH again, not even when the repository
\* returns to the commit it was produced against.
StaleStaysStale == [][\A e \in evidence : ~e.fresh => e \in evidence']_vars

=============================================================================
