------------------------ MODULE TaskCompletion_proofs ------------------------
(***************************************************************************)
(* Types and properties of TaskCompletion, for any required evidence and    *)
(* reviews, any number of commits, verification passes and reviews.         *)
(***************************************************************************)
EXTENDS TaskCompletion, TLAPS

\* What SweptEvidenceIsCurrent rests on, wherever the repository is by now: when
\* no verification pass is under way, FRESH evidence is about the commit of the
\* last sweep.  A pass that stores evidence still has its own sweep to come.
SweptIsLast ==
  collections = {} => \A e \in evidence : e.fresh => e.revision \in {swept, NoGit}

\* A pass that is not at its sweep is at one of the required evidence types.
PassesInBounds == \A c \in collections : c.pc # "sweep" => c.n \in DOMAIN requiredEvidenceTypes

CompletionInv == TypeOK /\ PassesInBounds /\ SweptIsLast

-----------------------------------------------------------------------------

LEMMA CompletionInit == CompletionConstants /\ Init => CompletionInv
BY DEF CompletionConstants, Init, CompletionInv, TypeOK, PassesInBounds, SweptIsLast,
       Commits, Revisions, NoGit, Idle, Collection, Reviewer

LEMMA NewCollectionTyped ==
  ASSUME CompletionConstants, CompletionInv, collectTaskEvidence
  PROVE  /\ collections' \subseteq Collection /\ collections' # {} /\ PassesInBounds'
         /\ started' \in [collections: 0..MaxCollections, reviews: 0..MaxReviews]
<1> DEFINE c == NewCollection(started.collections + 1)
<1>1. started.collections + 1 \in 1..MaxCollections
  BY DEF CompletionConstants, CompletionInv, TypeOK, collectTaskEvidence
<1>2. c \in Collection
  BY <1>1 DEF NewCollection, Collection
<1>3. started' \in [collections: 0..MaxCollections, reviews: 0..MaxReviews]
  BY <1>1 DEF CompletionConstants, CompletionInv, TypeOK, collectTaskEvidence
<1>4. collections' = collections \cup {c}
  BY DEF collectTaskEvidence
<1>5. c.pc # "sweep" => c.n \in DOMAIN requiredEvidenceTypes
  <2>1. requiredEvidenceTypes # <<>> => 1 \in DOMAIN requiredEvidenceTypes
    BY DEF CompletionConstants
  <2> QED BY <2>1 DEF NewCollection
<1> HIDE DEF c
<1> QED BY <1>2, <1>3, <1>4, <1>5 DEF CompletionInv, TypeOK, PassesInBounds

\* The world, the run and the requests: no evidence is touched.
LEMMA TaskSteps ==
  ASSUME CompletionConstants, CompletionInv,
         \/ CodeMoves \/ pauseTask \/ resumeTask \/ RequirementChange
         \/ StartRun \/ RunResumed \/ RunEnds \/ rerunVerification
  PROVE  CompletionInv' /\ UNCHANGED evidence /\ (status # "DONE" => status' # "DONE")
<1> USE DEF CompletionInv
<1>1. CASE CodeMoves
  BY <1>1 DEF CodeMoves, TypeOK, PassesInBounds, SweptIsLast
<1>2. CASE pauseTask \/ resumeTask \/ RequirementChange
  BY <1>2 DEF pauseTask, resumeTask, RequirementChange, TypeOK, PassesInBounds, SweptIsLast, Blockers
<1>3. CASE StartRun \/ RunResumed
  <2>1. runner' \in [on: BOOLEAN, resumed: BOOLEAN, blockers: SUBSET Blockers]
    <3>1. \A b \in BOOLEAN, B \in SUBSET Blockers :
            [on |-> TRUE, resumed |-> b, blockers |-> B]
              \in [on: BOOLEAN, resumed: BOOLEAN, blockers: SUBSET Blockers]
      OBVIOUS
    <3>2. blockers \in SUBSET Blockers BY DEF TypeOK
    <3> QED BY <1>3, <3>1, <3>2 DEF StartRun, RunResumed
  <2>2. status' \in {status, "RUNNING"}
        /\ UNCHANGED <<head, blockers, evidence, latest, collections, reviewers, swept, started>>
    BY <1>3 DEF StartRun, RunResumed
  <2> QED BY <2>1, <2>2 DEF TypeOK, PassesInBounds, SweptIsLast
<1>4. CASE RunEnds
  <2>1. /\ runner' \in [on: BOOLEAN, resumed: BOOLEAN, blockers: SUBSET Blockers]
        /\ blockers' \subseteq Blockers /\ status' \in {"VERIFYING", "READY"}
        /\ UNCHANGED <<head, evidence, latest, reviewers, swept>>
    BY <1>4 DEF RunEnds, TypeOK, Idle
  <2>2. CASE collectTaskEvidence
    BY <2>1, <2>2, NewCollectionTyped DEF TypeOK, SweptIsLast
  <2>3. CASE UNCHANGED <<collections, started>>
    BY <2>1, <2>3 DEF TypeOK, PassesInBounds, SweptIsLast
  <2> QED BY <1>4, <2>2, <2>3, <2>1 DEF RunEnds
<1>5. CASE rerunVerification
  BY <1>5, NewCollectionTyped DEF rerunVerification, TypeOK, SweptIsLast
<1> QED BY <1>1, <1>2, <1>3, <1>4, <1>5

\* One pass goes on to its next step: the others are where they were.
LEMMA PassGoesOn ==
  ASSUME CompletionInv, NEW c \in collections, NEW d \in Collection,
         d.pc # "sweep" => d.n \in DOMAIN requiredEvidenceTypes, Become(c, d)
  PROVE  collections' \subseteq Collection /\ collections' # {} /\ PassesInBounds'
BY DEF CompletionInv, TypeOK, PassesInBounds, Become

\* A verification pass: it stores evidence while its sweep is to come, and the
\* sweep leaves FRESH only what is about its revision.
LEMMA CollectionSteps ==
  ASSUME CompletionConstants, CompletionInv,
         NEW c \in collections, CommandEnds(c) \/ recordFromAction(c) \/ FreshnessSweep(c)
  PROVE  /\ CompletionInv' /\ UNCHANGED status
         /\ \A e \in evidence : ~e.fresh => e \in evidence'
<1> DEFINE n == Len(requiredEvidenceTypes)
<1>0. /\ c \in Collection /\ TypeOK /\ PassesInBounds
      /\ n \in Nat /\ DOMAIN requiredEvidenceTypes = 1..n
  BY DEF CompletionInv, TypeOK, CompletionConstants
<1>1. CASE CommandEnds(c)
  <2>1. PICK ok \in BOOLEAN : Become(c, [c EXCEPT !.pc = "bind", !.passed = ok])
    BY <1>1 DEF CommandEnds
  <2> DEFINE d == [c EXCEPT !.pc = "bind", !.passed = ok]
  <2>2. d \in Collection /\ d.n = c.n
    BY <1>0 DEF Collection
  <2>3. c.n \in DOMAIN requiredEvidenceTypes
    BY <1>0, <1>1 DEF PassesInBounds, CommandEnds
  <2> HIDE DEF d
  <2>4. collections' \subseteq Collection /\ collections' # {} /\ PassesInBounds'
    BY <2>1, <2>2, <2>3, PassGoesOn DEF d
  <2>5. UNCHANGED <<head, status, blockers, runner, evidence, latest, reviewers, swept, started>>
    BY <1>1 DEF CommandEnds
  <2> QED BY <1>0, <2>4, <2>5 DEF CompletionInv, TypeOK, SweptIsLast
<1>2. CASE recordFromAction(c)
  <2> DEFINE next == [c EXCEPT !.n = @ + 1, !.pc = "exec"]
             last == [c EXCEPT !.pc = "sweep"]
  <2>1. c.n \in 1..n
    BY <1>0, <1>2 DEF PassesInBounds, recordFromAction
  <2>2. Become(c, IF c.n < n THEN next ELSE last)
    BY <1>2 DEF recordFromAction
  <2>3. last \in Collection /\ last.pc = "sweep"
    BY <1>0 DEF Collection
  <2>4. c.n < n => next \in Collection /\ next.n \in DOMAIN requiredEvidenceTypes
    <3> SUFFICES ASSUME c.n < n PROVE next \in Collection /\ next.n \in DOMAIN requiredEvidenceTypes
      OBVIOUS
    <3>1. c.n + 1 \in DOMAIN requiredEvidenceTypes
      BY <1>0, <2>1
    <3>2. \A m \in DOMAIN requiredEvidenceTypes :
            /\ [c EXCEPT !.n = m, !.pc = "exec"] \in Collection
            /\ [c EXCEPT !.n = m, !.pc = "exec"].n = m
      BY <1>0 DEF Collection
    <3> QED BY <3>1, <3>2
  <2> HIDE DEF next, last
  <2>5. collections' \subseteq Collection /\ collections' # {} /\ PassesInBounds'
    BY <2>2, <2>3, <2>4, PassGoesOn
  <2>6. PICK revision \in {head, NoGit} :
          evidence' = evidence \cup {[type |-> requiredEvidenceTypes[c.n], passed |-> c.passed,
                                      fresh |-> TRUE, revision |-> revision]}
    BY <1>2 DEF recordFromAction
  <2>7. evidence' \subseteq Evidence
    <3>1. c.passed \in BOOLEAN BY <1>0 DEF Collection
    <3>2. revision \in Revisions BY <1>0 DEF TypeOK, Revisions
    <3>3. requiredEvidenceTypes[c.n] \in {requiredEvidenceTypes[i] : i \in DOMAIN requiredEvidenceTypes}
      BY <1>0, <2>1
    <3>4. [type |-> requiredEvidenceTypes[c.n], passed |-> c.passed,
           fresh |-> TRUE, revision |-> revision] \in Evidence
      BY <3>1, <3>2, <3>3 DEF Evidence
    <3> QED BY <1>0, <2>6, <3>4 DEF TypeOK
  <2>8. UNCHANGED <<head, status, blockers, runner, latest, reviewers, swept, started>>
    BY <1>2 DEF recordFromAction
  <2>9. TypeOK' BY <1>0, <2>5, <2>7, <2>8 DEF TypeOK
  <2> QED BY <2>5, <2>6, <2>8, <2>9 DEF CompletionInv, SweptIsLast
<1>3. CASE FreshnessSweep(c)
  <2>1. PICK revision \in {head, NoGit} : evidence' = invalidateStale(revision) /\ swept' = revision
    BY <1>3 DEF FreshnessSweep
  <2>2. ASSUME NEW e \in evidence'
        PROVE  e \in Evidence /\ (e.fresh => e.revision \in {swept', NoGit})
    <3>1. PICK old \in evidence :
            e = IF old.fresh /\ old.revision \notin {NoGit, revision} THEN [old EXCEPT !.fresh = FALSE] ELSE old
      BY <2>1, <2>2 DEF invalidateStale
    <3> QED BY <1>0, <2>1, <3>1 DEF TypeOK, Evidence
  <2>3. ASSUME NEW e \in evidence, ~e.fresh PROVE e \in evidence'
    BY <2>1, <2>3 DEF invalidateStale
  <2>4. swept' \in Revisions BY <1>0, <2>1 DEF TypeOK, Revisions
  <2>5. collections' \subseteq collections
        /\ UNCHANGED <<head, status, blockers, runner, latest, reviewers, started>>
    BY <1>3 DEF FreshnessSweep
  <2> QED BY <1>0, <2>2, <2>3, <2>4, <2>5 DEF CompletionInv, TypeOK, PassesInBounds, SweptIsLast
<1> QED BY <1>1, <1>2, <1>3

\* A review moves the task to DONE only where the predicate was evaluated.
LEMMA ReviewSteps ==
  ASSUME CompletionConstants, CompletionInv,
         BeginReview \/ \E c \in reviewers : DiffSummary(c) \/ runReview(c) \/ ReviewThrows(c)
  PROVE  /\ CompletionInv' /\ UNCHANGED evidence
         /\ BecomesDone => evaluate({}, latest')
<1>0. TypeOK BY DEF CompletionInv
<1>1. UNCHANGED <<evidence, collections, swept>>
  BY DEF BeginReview, DiffSummary, runReview, ReviewThrows
<1>2. PassesInBounds' /\ SweptIsLast' BY <1>1 DEF CompletionInv, PassesInBounds, SweptIsLast
<1>3. ASSUME BeginReview
      PROVE  TypeOK' /\ ~BecomesDone
  <2>1. started.reviews + 1 \in 1..MaxReviews BY <1>0, <1>3 DEF BeginReview, TypeOK, CompletionConstants
  <2> QED BY <1>0, <1>1, <1>3, <2>1 DEF BeginReview, TypeOK, Reviewer, BecomesDone
<1>4. ASSUME NEW c \in reviewers, DiffSummary(c)
      PROVE  TypeOK' /\ ~BecomesDone
  <2>1. c \in Reviewer BY <1>0 DEF TypeOK
  <2> QED BY <1>0, <1>4, <2>1 DEF DiffSummary, TypeOK, Reviewer, BecomesDone
<1>5. ASSUME NEW c \in reviewers, runReview(c)
      PROVE  TypeOK' /\ (BecomesDone => evaluate({}, latest'))
  <2>1. c \in Reviewer BY <1>0 DEF TypeOK
  <2>2. Len(Stages) \in {2, 3} BY DEF Stages, CompletionConstants
  <2>3. latest' \in [ReviewTypes -> {"NONE", "PASSED", "BLOCKED"}]
    BY <1>0, <1>5 DEF runReview, TypeOK
  <2>4. CASE c.n < Len(Stages)
    <3> DEFINE d == [c EXCEPT !.n = @ + 1]
    <3>1. d \in Reviewer
      <4>1. c.n \in 0..3 BY <2>1 DEF Reviewer
      <4>2. \A k \in {2, 3}, m \in 0..3 : m < k => m + 1 \in 0..3 OBVIOUS
      <4>3. c.n + 1 \in 0..3 BY <2>2, <2>4, <4>1, <4>2, Zenon
      <4>4. \A m \in 0..3 : [c EXCEPT !.n = m] \in Reviewer BY <2>1 DEF Reviewer
      <4> QED BY <4>4, <4>3
    <3>2. reviewers' = (reviewers \ {c}) \cup {d} /\ UNCHANGED <<head, status, blockers, runner, started>>
      BY <1>5, <2>4 DEF runReview
    <3> HIDE DEF d
    <3> QED BY <1>0, <1>1, <2>3, <3>1, <3>2 DEF TypeOK, BecomesDone
  <2>5. CASE ~(c.n < Len(Stages))
    <3>1. CASE evaluate(c.blockers, latest')
      <4>1. evaluate({}, latest') BY <3>1 DEF evaluate
      <4>2. status' = "DONE" /\ blockers' = c.blockers BY <1>5, <2>5, <3>1 DEF runReview
      <4>3. reviewers' \subseteq reviewers /\ UNCHANGED <<head, runner, evidence, collections, swept, started>>
        BY <1>5, <2>5 DEF runReview
      <4> QED BY <1>0, <2>1, <2>3, <4>1, <4>2, <4>3 DEF TypeOK, Reviewer
    <3>2. CASE ~evaluate(c.blockers, latest')
      BY <1>0, <1>5, <2>3, <2>5, <3>2 DEF runReview, TypeOK, BecomesDone
    <3> QED BY <3>1, <3>2
  <2> QED BY <2>4, <2>5
<1>6. ASSUME NEW c \in reviewers, ReviewThrows(c)
      PROVE  TypeOK' /\ ~BecomesDone
  BY <1>0, <1>6 DEF ReviewThrows, TypeOK, BecomesDone
<1>7. TypeOK' /\ (BecomesDone => evaluate({}, latest'))
  BY <1>3, <1>4, <1>5, <1>6 DEF BeginReview, BecomesDone
<1> QED BY <1>1, <1>2, <1>7 DEF CompletionInv

LEMMA CompletionStep ==
  ASSUME CompletionConstants, CompletionInv, [Next]_vars
  PROVE  /\ CompletionInv'
         /\ \A e \in evidence : ~e.fresh => e \in evidence'
         /\ BecomesDone => evaluate({}, latest') /\ UNCHANGED evidence
<1>1. CASE UNCHANGED vars
  BY <1>1 DEF vars, CompletionInv, TypeOK, PassesInBounds, SweptIsLast, BecomesDone
<1>2. CASE Next
  BY <1>2, TaskSteps, CollectionSteps, ReviewSteps DEF Next, BecomesDone
<1> QED BY <1>1, <1>2

-----------------------------------------------------------------------------

\* The documents and coroutines of a task stay well formed.
THEOREM TypeCorrect == Spec => []TypeOK
<1>1. CompletionInv /\ [Next]_vars => CompletionInv'
  BY CompletionStep, CompletionConstants
<1>2. CompletionInv => TypeOK BY DEF CompletionInv
<1> QED BY CompletionInit, CompletionConstants, <1>1, <1>2, PTL DEF Spec

\* Once every verification pass is over, FRESH evidence is about the commit that
\* was swept last (collectTaskEvidence and invalidateStale).
THEOREM SweptIsCurrent == Spec => []SweptEvidenceIsCurrent
<1>1. CompletionInv /\ [Next]_vars => CompletionInv'
  BY CompletionStep, CompletionConstants
<1>2. CompletionInv => SweptEvidenceIsCurrent
  BY DEF CompletionInv, SweptIsLast, SweptEvidenceIsCurrent
<1> QED BY CompletionInit, CompletionConstants, <1>1, <1>2, PTL DEF Spec

\* STALE evidence stays as it is (invalidateStale).
THEOREM StaleIsForGood == Spec => StaleStaysStale
<1> DEFINE A == \A e \in evidence : ~e.fresh => e \in evidence'
<1>1. CompletionInv /\ [Next]_vars => CompletionInv' /\ [A]_vars
  BY CompletionStep, CompletionConstants
<1> QED BY CompletionInit, CompletionConstants, <1>1, PTL DEF Spec, StaleStaysStale

\* A task becomes DONE only on fresh passing evidence and passed reviews
\* (CompletionService.evaluate, called after the last await of a review).
THEOREM DoneIsAlwaysEarned == Spec => DoneIsEarned
<1> DEFINE A == BecomesDone =>
                  /\ \A i \in DOMAIN requiredEvidenceTypes :
                       \E e \in evidence' : e.type = requiredEvidenceTypes[i] /\ e.passed /\ e.fresh
                  /\ \A t \in requiredReviewTypes : latest'[t] = "PASSED"
<1>1. CompletionInv /\ [Next]_vars => CompletionInv' /\ [A]_vars
  BY CompletionStep, CompletionConstants DEF evaluate
<1> QED BY CompletionInit, CompletionConstants, <1>1, PTL DEF Spec, DoneIsEarned
=============================================================================
