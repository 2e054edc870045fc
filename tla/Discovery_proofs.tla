--------------------------- MODULE Discovery_proofs ---------------------------
(***************************************************************************)
(* Proofs about the intake, for any templates, any analysis and any number  *)
(* of coroutines: no category is asked about twice, the interview goes on   *)
(* until the project is ready, and a plan nobody forced rests on a           *)
(* requirement for each critical category.                                  *)
(***************************************************************************)
EXTENDS Discovery, FiniteSetTheorems, TLAPS

\* Questions are a sequence whose categories are distinct.
Question == [category: Categories, status: {"OPEN", "ANSWERED", "SKIPPED_WITH_ASSUMPTION"}]

QuestionsInv ==
  /\ questions \in Seq(Question)
  /\ OneQuestionPerCategory

LEMMA AskKeepsQuestions ==
  ASSUME DiscoveryConstants, QuestionsInv, createDemoQuestion
  PROVE  QuestionsInv'
<1>1. CASE UNCHANGED questions
  BY <1>1 DEF QuestionsInv, OneQuestionPerCategory
<1>2. ASSUME NEW n \in Unasked, questions' = Append(questions, [category |-> templates[n], status |-> "OPEN"])
      PROVE  QuestionsInv'
  <2> DEFINE new == [category |-> templates[n], status |-> "OPEN"]
  <2>1. templates[n] \in Categories /\ templates[n] \notin asked
    BY DEF Unasked, DiscoveryConstants
  <2>2. questions' = Append(questions, new)
    BY <1>2
  <2>3. new \in Question
    BY <2>1 DEF Question
  <2>4. \A q \in DOMAIN questions : questions[q].category # new.category
    BY <2>1 DEF asked
  <2>5. \A q \in DOMAIN questions : questions[q] \in Question
    BY DEF QuestionsInv
  <2> HIDE DEF new
  <2>6. /\ questions' \in Seq(Question)
        /\ DOMAIN questions' = 1..Len(questions) + 1
        /\ \A q \in DOMAIN questions : questions'[q] = questions[q]
        /\ questions'[Len(questions) + 1] = new
    BY <2>2, <2>3 DEF QuestionsInv
  <2>7. DOMAIN questions = 1..Len(questions) /\ Len(questions) \in Nat
    BY DEF QuestionsInv
  <2> QED BY <2>4, <2>6, <2>7 DEF QuestionsInv, OneQuestionPerCategory
<1> QED BY <1>1, <1>2 DEF createDemoQuestion

LEMMA StatusKeepsQuestions ==
  ASSUME QuestionsInv, NEW q \in DOMAIN questions, NEW s \in {"ANSWERED", "SKIPPED_WITH_ASSUMPTION"},
         SetStatus(q, s)
  PROVE  QuestionsInv'
<1> DEFINE new == [questions[q] EXCEPT !.status = s]
<1>1. questions' = [questions EXCEPT ![q] = new]
  BY DEF SetStatus
<1>2. new \in Question /\ new.category = questions[q].category
  <2>1. questions[q] \in Question
    BY DEF QuestionsInv
  <2> QED BY <2>1 DEF Question
<1> HIDE DEF new
<1>3. questions' \in Seq(Question) /\ DOMAIN questions' = DOMAIN questions
  BY <1>1, <1>2 DEF QuestionsInv
<1>4. \A p \in DOMAIN questions : questions'[p].category = questions[p].category
  BY <1>1, <1>2 DEF QuestionsInv
<1> QED BY <1>3, <1>4 DEF QuestionsInv, OneQuestionPerCategory

LEMMA SameQuestions ==
  ASSUME QuestionsInv, UNCHANGED questions
  PROVE  QuestionsInv'
  BY DEF QuestionsInv, OneQuestionPerCategory

LEMMA NextKeepsQuestions ==
  ASSUME DiscoveryConstants, QuestionsInv, Next
  PROVE  QuestionsInv'
<1>1. ASSUME NEW i \in Slots, CycleEnds(i)
      PROVE  QuestionsInv'
  BY <1>1, AskKeepsQuestions DEF CycleEnds
<1>2. ASSUME NEW i \in Slots, NEW q \in DOMAIN questions, answerQuestion(i, q) \/ skipWithAssumption(i, q)
      PROVE  QuestionsInv'
  BY <1>2, StatusKeepsQuestions DEF answerQuestion, skipWithAssumption
<1>3. ASSUME NEW i \in Slots,
             \/ submitMission(i) \/ Scanned(i) \/ classify(i) \/ Researched(i)
             \/ discoverOnce(i) \/ afterAnswerRefresh(i)
             \/ finalizeSpecification(i) \/ generateSpec(i) \/ refreshContract(i) \/ ContractCompiled(i)
             \/ planDeliveryTasks(i) \/ GateAnswers(i) \/ Planned(i) \/ ProviderFails(i)
      PROVE  QuestionsInv'
  <2>1. UNCHANGED questions
    BY <1>3 DEF submitMission, Scanned, classify, Researched, discoverOnce, afterAnswerRefresh,
                finalizeSpecification, generateSpec, refreshContract, ContractCompiled,
                planDeliveryTasks, GateAnswers, Planned, ProviderFails, docs
  <2> QED BY <2>1, SameQuestions
<1>4. CASE Restart
  BY <1>4, SameQuestions DEF Restart, docs
<1> QED BY <1>1, <1>2, <1>3, <1>4 DEF Next

\* No category is asked about twice, whatever discovery cycles, answers, skips and
\* restarts interleave.
THEOREM OneQuestionPerCategoryAlways == Spec => []OneQuestionPerCategory
<1>1. Init => QuestionsInv
  BY DEF Init, QuestionsInv, OneQuestionPerCategory
<1>2. QuestionsInv /\ [Next]_vars => QuestionsInv'
  BY DiscoveryConstants, NextKeepsQuestions, SameQuestions DEF vars
<1>3. QuestionsInv => OneQuestionPerCategory
  BY DEF QuestionsInv
<1> QED BY <1>1, <1>2, <1>3, PTL DEF Spec
-----------------------------------------------------------------------------
(* The interview goes on.                                                    *)

\* Somebody is about to ask: a coroutine will reach its next cycle, or check what
\* is answered as of now.  A check of older answers counts for nothing.
Asking(i) ==
  \/ calls[i].pc \in {"scan", "intent", "research", "cycle"}
  \/ calls[i].pc = "check" /\ calls[i].answered = Answered

Exhausted == Unasked = {} \/ Len(questions) >= maxDiscoveryQuestions

GoesOn ==
  \/ \E q \in DOMAIN questions : questions[q].status = "OPEN"
  \/ Exhausted \/ Ready(Answered)
  \/ \E i \in Slots : Asking(i)

CallsTyped == DOMAIN calls = Slots /\ \A i \in Slots : "pc" \in DOMAIN calls[i]

InterviewInv ==
  /\ CallsTyped
  /\ provider = "MOCK" /\ ~lost /\ missions # <<>> => GoesOn

\* What a step of coroutine i that asks nothing leaves as it was.
LEMMA SameInterview ==
  ASSUME UNCHANGED questions
  PROVE  /\ Answered' = Answered /\ (Ready(Answered))' = Ready(Answered)
         /\ Exhausted' = Exhausted
BY DEF Answered, Exhausted, Unasked, asked

\* A coroutine that was not asking comes or goes: whoever asks still does.
LEMMA OthersAsk ==
  ASSUME NEW i \in Slots, ~Asking(i), InterviewInv, NEW c, Goes(i, c),
         UNCHANGED questions, GoesOn
  PROVE  GoesOn'
<1>1. \A j \in Slots \ {i} : calls'[j] = calls[j]
  BY DEF InterviewInv, CallsTyped, Goes
<1>2. ASSUME NEW j \in Slots, Asking(j) PROVE Asking(j)'
  BY <1>1, <1>2, SameInterview DEF Asking
<1> QED BY <1>2, SameInterview DEF GoesOn

\* A coroutine on its way to the next cycle.
LEMMA OneAsks ==
  ASSUME NEW i \in Slots, InterviewInv, NEW c, Goes(i, c),
         c.pc \in {"scan", "intent", "research", "cycle"} \/ (c.pc = "check" /\ c.answered = Answered')
  PROVE  GoesOn'
<1>1. calls'[i] = c BY DEF InterviewInv, CallsTyped, Goes
<1> QED BY <1>1 DEF GoesOn, Asking

\* The calls stay a function of the slots, each a record.
LEMMA CallsStay ==
  ASSUME CallsTyped, Next
  PROVE  CallsTyped'
<1>1. ASSUME NEW i \in Slots, NEW c, "pc" \in DOMAIN c, Goes(i, c)
      PROVE  CallsTyped'
  BY <1>1 DEF CallsTyped, Goes
<1>2. "pc" \in DOMAIN NoCall /\ "pc" \in DOMAIN Cycle
  BY DEF NoCall, Cycle
<1>3. ASSUME NEW i \in Slots, submitMission(i) \/ Scanned(i) \/ classify(i) \/ Researched(i) \/ discoverOnce(i)
      PROVE  CallsTyped'
  <2>1. \A pc : "pc" \in DOMAIN [calls[i] EXCEPT !.pc = pc]
    BY DEF CallsTyped
  <2>2. \E c : "pc" \in DOMAIN c /\ Goes(i, c)
    BY <1>2, <1>3, <2>1 DEF submitMission, Scanned, classify, Researched, discoverOnce
  <2> QED BY <1>1, <2>2
<1>4. ASSUME NEW i \in Slots,
             \/ CycleEnds(i) \/ afterAnswerRefresh(i) \/ finalizeSpecification(i) \/ generateSpec(i)
             \/ refreshContract(i) \/ ContractCompiled(i) \/ planDeliveryTasks(i) \/ GateAnswers(i)
             \/ Planned(i) \/ ProviderFails(i)
      PROVE  CallsTyped'
  <2>1. \E c : "pc" \in DOMAIN c /\ Goes(i, c)
    BY <1>2, <1>4 DEF CycleEnds, afterAnswerRefresh, finalizeSpecification, generateSpec, refreshContract,
                      ContractCompiled, planDeliveryTasks, GateAnswers, Planned, ProviderFails, Ends, Decompose
  <2> QED BY <1>1, <2>1
<1>5. ASSUME NEW i \in Slots, NEW q \in DOMAIN questions, answerQuestion(i, q) \/ skipWithAssumption(i, q)
      PROVE  CallsTyped'
  BY <1>1, <1>5 DEF answerQuestion, skipWithAssumption, Check
<1>6. CASE Restart
  BY <1>2, <1>6 DEF Restart, CallsTyped
<1> QED BY <1>3, <1>4, <1>5, <1>6 DEF Next

\* A mission is submitted, or goes on towards its first cycle.
LEMMA MissionGoesOn ==
  ASSUME InterviewInv, NEW i \in Slots,
         submitMission(i) \/ Scanned(i) \/ classify(i) \/ Researched(i) \/ discoverOnce(i)
  PROVE  GoesOn'
<1>1. CASE submitMission(i)
  BY <1>1, OneAsks DEF submitMission
<1>2. CASE Scanned(i) \/ classify(i) \/ Researched(i) \/ discoverOnce(i)
  <2>1. PICK c : Goes(i, c) /\ c \in {[calls[i] EXCEPT !.pc = "intent"], [calls[i] EXCEPT !.pc = "research"], Cycle}
    BY <1>2 DEF Scanned, classify, Researched, discoverOnce
  <2>2. c.pc \in {"intent", "research", "cycle"}
    BY <2>1 DEF InterviewInv, CallsTyped, Cycle
  <2> QED BY <2>1, <2>2, OneAsks
<1> QED BY <1>1, <1>2

\* A cycle asks the next question, unless none is left.
LEMMA CycleGoesOn ==
  ASSUME QuestionsInv, NEW i \in Slots, CycleEnds(i), provider = "MOCK"
  PROVE  GoesOn'
<1>1. CASE Exhausted /\ UNCHANGED questions
  BY <1>1, SameInterview DEF GoesOn
<1>2. CASE ~Exhausted
  <2>1. PICK n \in Unasked : questions' = Append(questions, [category |-> templates[n], status |-> "OPEN"])
    BY <1>2 DEF CycleEnds, createDemoQuestion, Exhausted
  <2>2. Len(questions) + 1 \in DOMAIN questions' /\ questions'[Len(questions) + 1].status = "OPEN"
    BY <2>1 DEF QuestionsInv
  <2> QED BY <2>2 DEF GoesOn
<1> QED BY <1>1, <1>2 DEF CycleEnds, createDemoQuestion, Exhausted

\* The check of the answers as they are now either finds the project ready or goes
\* on to the next cycle.
LEMMA CheckGoesOn ==
  ASSUME InterviewInv, NEW i \in Slots, afterAnswerRefresh(i), provider = "MOCK", GoesOn
  PROVE  GoesOn'
<1>1. UNCHANGED questions /\ calls[i].pc = "check" BY DEF afterAnswerRefresh, docs, At
<1>2. PICK ready \in {Ready(calls[i].answered)} : Goes(i, IF ready THEN NoCall ELSE Cycle)
  BY DEF afterAnswerRefresh, Verdicts
<1>3. CASE ~ready
  BY <1>2, <1>3, OneAsks DEF Cycle
<1>4. CASE ready /\ calls[i].answered = Answered
  BY <1>1, <1>2, <1>4, SameInterview DEF GoesOn
<1>5. CASE ready /\ calls[i].answered # Answered
  BY <1>1, <1>2, <1>5, OthersAsk DEF Asking
<1> QED BY <1>3, <1>4, <1>5

LEMMA NextKeepsInterview ==
  ASSUME QuestionsInv, InterviewInv, Next, provider' = "MOCK", ~lost', missions' # <<>>
  PROVE  GoesOn'
<1>1. ASSUME NEW i \in Slots,
             submitMission(i) \/ Scanned(i) \/ classify(i) \/ Researched(i) \/ discoverOnce(i)
      PROVE  GoesOn'
  BY <1>1, MissionGoesOn
<1>2. ASSUME NEW i \in Slots, CycleEnds(i)
      PROVE  GoesOn'
  BY <1>2, CycleGoesOn DEF CycleEnds
<1>3. ASSUME NEW i \in Slots, NEW q \in DOMAIN questions, answerQuestion(i, q) \/ skipWithAssumption(i, q)
      PROVE  GoesOn'
  BY <1>3, OneAsks DEF answerQuestion, skipWithAssumption, Check
<1>4. ASSUME NEW i \in Slots, afterAnswerRefresh(i)
      PROVE  GoesOn'
  <2>1. provider = "MOCK" /\ ~lost /\ missions # <<>>
    BY <1>4 DEF afterAnswerRefresh, docs
  <2> QED BY <1>4, <2>1, CheckGoesOn DEF InterviewInv
<1>5. ASSUME NEW i \in Slots,
             \/ finalizeSpecification(i) \/ generateSpec(i) \/ refreshContract(i) \/ ContractCompiled(i)
             \/ planDeliveryTasks(i) \/ GateAnswers(i) \/ Planned(i)
      PROVE  GoesOn'
  <2>1. UNCHANGED <<provider, lost, missions, questions>>
    BY <1>5 DEF finalizeSpecification, generateSpec, refreshContract, ContractCompiled,
                planDeliveryTasks, GateAnswers, Planned, docs
  <2>2. ~Asking(i)
    <3>1. NoCall.pc = "none" BY DEF NoCall
    <3>2. calls[i].pc \in {"none", "write", "compile", "gate", "decompose"}
      BY <1>5, <3>1 DEF finalizeSpecification, generateSpec, refreshContract, ContractCompiled,
                        planDeliveryTasks, GateAnswers, Planned, Free, At
    <3> QED BY <3>2 DEF Asking
  <2>3. \E c : Goes(i, c)
    BY <1>5 DEF finalizeSpecification, generateSpec, refreshContract, ContractCompiled,
                planDeliveryTasks, GateAnswers, Planned, Ends
  <2> QED BY <2>1, <2>2, <2>3, OthersAsk DEF InterviewInv
<1>6. \A i \in Slots : ~ProviderFails(i)
  BY DEF ProviderFails
<1>7. CASE Restart
  <2>1. UNCHANGED <<provider, missions, questions>> /\ ~lost /\ \A i \in Slots : ~Asking(i)
    BY <1>7 DEF Restart, docs, Discovering, Asking
  <2> QED BY <2>1, SameInterview DEF InterviewInv, GoesOn
<1> QED BY <1>1, <1>2, <1>3, <1>4, <1>5, <1>6, <1>7 DEF Next

\* A project that is not ready and that nobody is asking about has an open question
\* or none left to ask (afterAnswerRefresh and createDemoQuestion), unless a
\* restart took a discovery coroutine with it.
THEOREM InterviewNeverStallsAlways == Spec => []InterviewNeverStalls
<1>1. Init => QuestionsInv /\ InterviewInv
  BY DEF Init, QuestionsInv, OneQuestionPerCategory, InterviewInv, CallsTyped, NoCall
<1>2. QuestionsInv /\ InterviewInv /\ [Next]_vars => QuestionsInv' /\ InterviewInv'
  <2> SUFFICES ASSUME QuestionsInv, InterviewInv, [Next]_vars PROVE QuestionsInv' /\ InterviewInv'
    OBVIOUS
  <2>1. CASE Next
    BY <2>1, DiscoveryConstants, NextKeepsQuestions, CallsStay, NextKeepsInterview DEF InterviewInv
  <2>2. CASE UNCHANGED vars
    <3>1. GoesOn => GoesOn'
      BY <2>2, SameInterview DEF vars, GoesOn, Asking
    <3> QED BY <2>2, <3>1, SameQuestions DEF vars, InterviewInv, CallsTyped
  <2> QED BY <2>1, <2>2
<1>3. InterviewInv => InterviewNeverStalls
  BY DEF InterviewInv, InterviewNeverStalls, GoesOn, Exhausted, Asking, Discovering
<1> QED BY <1>1, <1>2, <1>3, PTL DEF Spec

-----------------------------------------------------------------------------
(* The plan is grounded.                                                     *)

Covered(reqs) == {reqs[n] : n \in DOMAIN reqs}

\* The gate's verdict is about answers that are requirements already, and these
\* only grow: what the gate read before its await is in the requirements that the
\* call reads after it.
GroundedInv ==
  /\ CallsTyped
  /\ requirements \in Seq(Categories)
  /\ Answered \subseteq Covered(requirements)
  /\ \A i \in Slots : calls[i].pc = "gate" => calls[i].answered \subseteq Covered(requirements)
  /\ provider = "MOCK" /\ criticalMissingAllowed = 0 =>
       /\ \A i \in Slots : calls[i].pc = "decompose" /\ ~calls[i].override
                             => CriticalCategories \subseteq Covered(calls[i].requirements)
       /\ \A p \in plans : ~p.override => CriticalCategories \subseteq Covered(p.requirements)

\* A project is ready only if each critical category is answered.
LEMMA ReadyNeedsCritical ==
  ASSUME DiscoveryConstants, criticalMissingAllowed = 0, NEW A, Ready(A)
  PROVE  CriticalCategories \subseteq A
<1> DEFINE coverage == computeCoverage(A)
           critical == {c \in Categories : /\ coverage[c].riskImpact >= 70
                                           /\ coverage[c].state = "MISSING" \/ coverage[c].score < 40}
<1>1. Cardinality(critical) <= 0
  BY DEF Ready, readiness
<1>2. critical = {}
  <2>1. IsFiniteSet(critical) BY FS_Subset DEF DiscoveryConstants
  <2> HIDE DEF critical
  <2> QED BY <1>1, <2>1, FS_CardinalityType, FS_EmptySet
<1>3. SUFFICES ASSUME NEW c \in CriticalCategories, c \notin A PROVE FALSE
  OBVIOUS
<1>4. c \in Categories /\ c \notin repoFacts /\ analysis[c].state = "MISSING" /\ analysis[c].riskImpact >= 70
  BY <1>3 DEF CriticalCategories, TemplateCategories, DiscoveryConstants
<1>5. coverage[c].state = "MISSING" /\ coverage[c].riskImpact = analysis[c].riskImpact
  BY <1>3, <1>4 DEF computeCoverage, DiscoveryConstants
<1> HIDE DEF coverage
<1> QED BY <1>2, <1>4, <1>5

\* Requirements stay and more may come.
LEMMA CoverageGrows ==
  ASSUME requirements \in Seq(Categories), NEW c \in Categories, requirements' = Append(requirements, c)
  PROVE  /\ requirements' \in Seq(Categories)
         /\ Covered(requirements') = Covered(requirements) \cup {c}
<1>1. /\ DOMAIN requirements' = DOMAIN requirements \cup {Len(requirements) + 1}
      /\ \A n \in DOMAIN requirements : requirements'[n] = requirements[n]
      /\ requirements'[Len(requirements) + 1] = c
  OBVIOUS
<1> QED BY <1>1 DEF Covered

\* A step of one coroutine that touches neither questions nor requirements, and
\* leaves it with something that is grounded.
LEMMA CallKeepsGrounded ==
  ASSUME GroundedInv, CallsTyped', NEW i \in Slots, NEW c, Goes(i, c),
         UNCHANGED <<provider, questions, requirements, plans>>,
         c.pc = "gate" => c.answered \subseteq Covered(requirements),
         provider = "MOCK" /\ criticalMissingAllowed = 0 /\ c.pc = "decompose" /\ ~c.override
           => CriticalCategories \subseteq Covered(c.requirements)
  PROVE  GroundedInv'
<1>1. calls'[i] = c /\ \A j \in Slots \ {i} : calls'[j] = calls[j]
  BY DEF GroundedInv, CallsTyped, Goes
<1> QED BY <1>1, SameInterview DEF GroundedInv, Covered

\* The gate lets a call through on answers that are requirements.
LEMMA GateKeepsGrounded ==
  ASSUME DiscoveryConstants, GroundedInv, CallsTyped', NEW i \in Slots, GateAnswers(i)
  PROVE  GroundedInv'
<1>1. PICK ready \in Verdicts(calls[i].answered) :
        Goes(i, IF ready /\ ~(RequireImplContract /\ contract) /\ missions # <<>>
                THEN Decompose(FALSE) ELSE NoCall)
  BY DEF GateAnswers
<1>2. UNCHANGED <<provider, questions, requirements, plans>> /\ calls[i].pc = "gate"
  BY DEF GateAnswers, docs, At
<1>3. CASE ready
  <2>1. provider = "MOCK" /\ criticalMissingAllowed = 0 => CriticalCategories \subseteq Covered(requirements)
    BY <1>1, <1>2, <1>3, ReadyNeedsCritical DEF Verdicts, GroundedInv
  <2> QED BY <1>1, <1>2, <2>1, CallKeepsGrounded DEF Decompose, NoCall
<1>4. CASE ~ready
  BY <1>1, <1>2, <1>4, CallKeepsGrounded DEF NoCall
<1> QED BY <1>3, <1>4

\* An answer becomes a requirement in the same turn; a skip only takes answers away.
LEMMA AnswersKeepGrounded ==
  ASSUME DiscoveryConstants, QuestionsInv, GroundedInv, CallsTyped',
         NEW i \in Slots, NEW q \in DOMAIN questions, answerQuestion(i, q) \/ skipWithAssumption(i, q)
  PROVE  GroundedInv'
<1>1. PICK st \in {"ANSWERED", "SKIPPED_WITH_ASSUMPTION"} : SetStatus(q, st)
  BY DEF answerQuestion, skipWithAssumption
<1>2. questions[q] \in Question /\ DOMAIN questions' = DOMAIN questions
  BY <1>1 DEF QuestionsInv, SetStatus
<1>3. \A p \in DOMAIN questions : /\ questions'[p].category = questions[p].category
                                  /\ questions'[p].status = IF p = q THEN st ELSE questions[p].status
  BY <1>1, <1>2 DEF SetStatus, Question, QuestionsInv
<1>4. Answered' \subseteq Answered \cup (IF st = "ANSWERED" THEN {questions[q].category} ELSE {})
  BY <1>2, <1>3 DEF Answered
<1>5. /\ requirements' \in Seq(Categories) /\ Covered(requirements) \subseteq Covered(requirements')
      /\ Answered' \subseteq Covered(requirements')
  <2>1. CASE answerQuestion(i, q)
    <3>1. questions[q].category \in Categories BY <1>2 DEF Question
    <3> QED BY <2>1, <1>4, <3>1, CoverageGrows DEF answerQuestion, GroundedInv
  <2>2. CASE skipWithAssumption(i, q)
    <3>1. requirements' = requirements BY <2>2 DEF skipWithAssumption
    <3>2. st = "SKIPPED_WITH_ASSUMPTION"
      <4>1. questions'[q].status = "SKIPPED_WITH_ASSUMPTION"
        BY <1>2, <2>2 DEF skipWithAssumption, SetStatus, Question, QuestionsInv
      <4> QED BY <1>3, <4>1
    <3> QED BY <1>4, <3>1, <3>2 DEF GroundedInv
  <2> QED BY <2>1, <2>2
<1>6. /\ calls'[i].pc = "check" /\ \A j \in Slots \ {i} : calls'[j] = calls[j]
      /\ UNCHANGED <<provider, plans>>
  BY DEF answerQuestion, skipWithAssumption, Goes, Check, GroundedInv, CallsTyped
<1> QED BY <1>5, <1>6 DEF GroundedInv

\* A new question is open: nothing is answered by asking.
LEMMA AskedIsOpen ==
  ASSUME QuestionsInv, createDemoQuestion
  PROVE  Answered' = Answered
<1>1. CASE UNCHANGED questions BY <1>1, SameInterview
<1>2. ASSUME NEW n \in Unasked, questions' = Append(questions, [category |-> templates[n], status |-> "OPEN"])
      PROVE  Answered' = Answered
  <2> DEFINE new == [category |-> templates[n], status |-> "OPEN"]
  <2>1. new.status = "OPEN" /\ questions' = Append(questions, new) BY <1>2
  <2> HIDE DEF new
  <2>2. /\ DOMAIN questions' = DOMAIN questions \cup {Len(questions) + 1}
        /\ \A p \in DOMAIN questions : questions'[p] = questions[p]
        /\ questions'[Len(questions) + 1].status = "OPEN"
    BY <2>1 DEF QuestionsInv
  <2> QED BY <2>2 DEF Answered
<1> QED BY <1>1, <1>2 DEF createDemoQuestion

LEMMA NextKeepsGrounded ==
  ASSUME DiscoveryConstants, QuestionsInv, GroundedInv, Next
  PROVE  GroundedInv'
<1>0. CallsTyped' BY CallsStay DEF GroundedInv
<1>1. ASSUME NEW i \in Slots,
             submitMission(i) \/ Scanned(i) \/ classify(i) \/ Researched(i) \/ discoverOnce(i)
      PROVE  GroundedInv'
  <2>1. PICK c : Goes(i, c) /\ (c = [calls[i] EXCEPT !.pc = "intent"] \/ c = [calls[i] EXCEPT !.pc = "research"]
                               \/ c = Cycle \/ c = [pc |-> "scan", mission |-> Len(missions) + 1])
    BY <1>1 DEF submitMission, Scanned, classify, Researched, discoverOnce
  <2>2. c.pc \in {"scan", "intent", "research", "cycle"}
    BY <2>1 DEF GroundedInv, CallsTyped, Cycle
  <2>3. UNCHANGED <<provider, questions, requirements, plans>>
    BY <1>1 DEF submitMission, Scanned, classify, Researched, discoverOnce, docs
  <2> QED BY <1>0, <2>1, <2>2, <2>3, CallKeepsGrounded
<1>2. ASSUME NEW i \in Slots, CycleEnds(i)
      PROVE  GroundedInv'
  <2>1. Answered' = Answered
    BY <1>2, AskedIsOpen DEF CycleEnds
  <2>2. /\ calls'[i].pc = "none" /\ \A j \in Slots \ {i} : calls'[j] = calls[j]
        /\ UNCHANGED <<provider, requirements, plans>>
    BY <1>2 DEF CycleEnds, Ends, Goes, NoCall, GroundedInv, CallsTyped
  <2> QED BY <1>0, <2>1, <2>2 DEF GroundedInv
<1>3. ASSUME NEW i \in Slots, NEW q \in DOMAIN questions, answerQuestion(i, q) \/ skipWithAssumption(i, q)
      PROVE  GroundedInv'
  BY <1>0, <1>3, AnswersKeepGrounded
<1>4. ASSUME NEW i \in Slots,
             \/ afterAnswerRefresh(i) \/ finalizeSpecification(i) \/ generateSpec(i)
             \/ refreshContract(i) \/ ContractCompiled(i) \/ ProviderFails(i)
      PROVE  GroundedInv'
  <2>1. PICK c : Goes(i, c) /\ c.pc \in {"none", "cycle", "write", "compile"}
    BY <1>4 DEF afterAnswerRefresh, finalizeSpecification, generateSpec, refreshContract, ContractCompiled,
                ProviderFails, Ends, NoCall, Cycle
  <2>2. UNCHANGED <<provider, questions, requirements, plans>>
    BY <1>4 DEF afterAnswerRefresh, finalizeSpecification, generateSpec, refreshContract, ContractCompiled,
                ProviderFails, docs
  <2> QED BY <1>0, <2>1, <2>2, CallKeepsGrounded
<1>5. ASSUME NEW i \in Slots, planDeliveryTasks(i)
      PROVE  GroundedInv'
  <2>1. PICK c : Goes(i, c) /\ (c = [pc |-> "gate", answered |-> Answered] \/ c = Decompose(TRUE))
    BY <1>5 DEF planDeliveryTasks
  <2>2. UNCHANGED <<provider, questions, requirements, plans>>
    BY <1>5 DEF planDeliveryTasks, docs
  <2> QED BY <1>0, <2>1, <2>2, CallKeepsGrounded DEF Decompose, GroundedInv
<1>6. ASSUME NEW i \in Slots, GateAnswers(i)
      PROVE  GroundedInv'
  BY <1>0, <1>6, GateKeepsGrounded
<1>7. ASSUME NEW i \in Slots, Planned(i)
      PROVE  GroundedInv'
  <2>1. /\ plans' = plans \cup {[override |-> calls[i].override, mission |-> calls[i].mission,
                                 requirements |-> calls[i].requirements]}
        /\ calls[i].pc = "decompose" /\ UNCHANGED <<provider, questions, requirements>>
    BY <1>7 DEF Planned, At
  <2>2. calls'[i].pc = "none" /\ \A j \in Slots \ {i} : calls'[j] = calls[j]
    BY <1>7 DEF Planned, Ends, Goes, NoCall, GroundedInv, CallsTyped
  <2> QED BY <1>0, <2>1, <2>2, SameInterview DEF GroundedInv
<1>8. CASE Restart
  <2>1. UNCHANGED <<provider, questions, requirements, plans>> /\ \A i \in Slots : calls'[i].pc = "none"
    BY <1>8 DEF Restart, docs, NoCall
  <2> QED BY <1>0, <2>1, SameInterview DEF GroundedInv
<1> QED BY <1>1, <1>2, <1>3, <1>4, <1>5, <1>6, <1>7, <1>8 DEF Next

\* A plan nobody forced carries a requirement for each critical category, though the
\* gate, the reading of the requirements and the plan are steps apart
\* (planDeliveryTasks, RequirementCompletenessEngine.readiness).
THEOREM UnforcedPlanIsGroundedAlways == Spec => []UnforcedPlanIsGrounded
<1>1. Init => QuestionsInv /\ GroundedInv
  BY DEF Init, QuestionsInv, OneQuestionPerCategory, GroundedInv, CallsTyped, NoCall, Answered, Covered
<1>2. QuestionsInv /\ GroundedInv /\ [Next]_vars => QuestionsInv' /\ GroundedInv'
  <2> SUFFICES ASSUME QuestionsInv, GroundedInv, [Next]_vars PROVE QuestionsInv' /\ GroundedInv'
    OBVIOUS
  <2>1. CASE Next
    BY <2>1, DiscoveryConstants, NextKeepsQuestions, NextKeepsGrounded
  <2>2. CASE UNCHANGED vars
    BY <2>2, SameQuestions, SameInterview DEF vars, GroundedInv, CallsTyped
  <2> QED BY <2>1, <2>2
<1>3. GroundedInv => UnforcedPlanIsGrounded
  BY DEF GroundedInv, UnforcedPlanIsGrounded, Covered
<1> QED BY <1>1, <1>2, <1>3, PTL DEF Spec
=============================================================================
