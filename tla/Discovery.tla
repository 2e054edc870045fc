----------------------------- MODULE Discovery -----------------------------
(***************************************************************************)
(* The intake of a project: a mission is submitted, classified and, one     *)
(* question at a time, clarified until the requirement completeness engine  *)
(* calls the project ready and its tasks may be planned.                    *)
(*                                                                         *)
(* Every operation is a coroutine of the daemon; what it read before an     *)
(* await is in its record, everything else it reads when it goes on.        *)
(* Scores are in hundredths.                                                *)
(***************************************************************************)
EXTENDS Naturals, Sequences, FiniteSets, FiniteSetsExt

CONSTANTS
  templates,     \* DEMO_QUESTION_TEMPLATES: their categories, in order
  analysis,      \* the mock provider's coverage analysis, by category
  repoFacts,     \* categories that confirmed memory items speak of
  readinessThreshold, criticalMissingAllowed, maxDiscoveryQuestions,
  Missions,      \* missions people submit, as the sets of keywords they match
  RequireImplContract,   \* DEVFLOW_REQUIRE_IMPL_CONTRACT
  MaxMissions,   \* bound: missions submitted
  MaxSkips,      \* bound: skipped questions and answers to skipped questions
  MaxRequests,   \* bound: requests that are not a mission, an answer or a skip
  Slots          \* bound: coroutines at one time

Categories == DOMAIN analysis
Keywords == {"auth", "payments", "destructive", "external", "database", "secret", "production",
             "bug", "refactor", "research", "operation", "integration"}
TemplateCategories == {templates[i] : i \in DOMAIN templates}

ASSUME DiscoveryConstants ==
  /\ templates \in Seq(Categories)
  /\ IsFiniteSet(Categories)
  /\ \A c \in Categories : analysis[c] \in [state: {"MISSING", "PARTIAL", "CLEAR"}, score: 0..100,
                                          ambiguity: 0..100, riskImpact: 0..100]
  /\ repoFacts \subseteq Categories
  /\ readinessThreshold \in 0..100 /\ criticalMissingAllowed \in Nat /\ maxDiscoveryQuestions \in Nat
  /\ Missions \subseteq SUBSET Keywords /\ RequireImplContract \in BOOLEAN
  /\ MaxMissions \in Nat /\ MaxSkips \in Nat /\ MaxRequests \in Nat

VARIABLES
  provider,      \* config.defaultProvider: "MOCK" or another one
  missions,      \* docs "mission", with the records written under their id
  questions,     \* docs "discovery_question", in the order they were asked
  requirements,  \* docs "requirement": REQ-001, REQ-002, ...
  spec,          \* docs "artifact" MASTER_SPEC.md
  contract,      \* the pre-code contract has been compiled
  plans,         \* what plans were made of
  calls,         \* coroutines
  used,          \* how much of the bounds is used
  lost           \* history: a discovery coroutine died and none has completed since

vars == <<provider, missions, questions, requirements, spec, contract, plans, calls, used, lost>>
docs == <<missions, questions, requirements, spec, contract, plans>>

\* RESEARCH_FIRST and BUG_INVESTIGATION are one with DISCOVERY_INTERVIEW: work comes later.
EntryPoints == {"DISCOVERY_INTERVIEW", "DIRECT_IMPACT_ANALYSIS"}
Tiers == {"LOW", "NORMAL", "HIGH"}
NoSpec == [revision |-> 0, content |-> "none"]
NoCall == [pc |-> "none"]

Init ==
  /\ provider \in {"MOCK", "OTHER"}
  /\ missions = <<>> /\ questions = <<>> /\ requirements = <<>>
  /\ spec = NoSpec /\ contract = FALSE /\ plans = {}
  /\ calls = [i \in Slots |-> NoCall]
  /\ used = [skips |-> 0, requests |-> 0] /\ lost = FALSE

-----------------------------------------------------------------------------
(* Risk, intent and research: keyword heuristics of the mission.            *)

signalsFromMission(m) ==
  [touchesAuth |-> "auth" \in m, touchesPayments |-> "payments" \in m,
   destructiveDataOperation |-> "destructive" \in m, externalSideEffects |-> "external" \in m,
   databaseChange |-> "database" \in m, reversible |-> m \cap {"destructive", "external"} = {},
   productionExposure |-> "production" \in m,
   securitySensitive |-> m \cap {"secret", "auth", "payments"} # {}]

\* The blast radius (0, 1 or 2 points) is a parameter: it counts words of the mission and languages.
assessRisk(s, blast) ==
  LET points == <<IF s.touchesAuth THEN 4 ELSE 0, IF s.touchesPayments THEN 4 ELSE 0,
                  IF s.destructiveDataOperation THEN 3 ELSE 0, IF s.securitySensitive THEN 2 ELSE 0,
                  IF s.databaseChange THEN 1 ELSE 0, IF s.externalSideEffects THEN 2 ELSE 0,
                  IF s.reversible THEN 0 ELSE 2, IF s.productionExposure THEN 1 ELSE 0>>
      score == blast + MapThenSumSet(LAMBDA i : points[i], DOMAIN points)
  IN IF score >= 6 THEN "HIGH" ELSE IF score >= 3 THEN "NORMAL" ELSE "LOW"

heuristicIntent(m) ==
  IF "bug" \notin m /\ ("refactor" \in m \/ ("operation" \in m /\ "research" \notin m))
  THEN "DIRECT_IMPACT_ANALYSIS" ELSE "DISCOVERY_INTERVIEW"

researchTriggers(m, tier) == tier = "HIGH" \/ m \cap {"research", "integration"} # {}

-----------------------------------------------------------------------------
(* The requirement completeness engine.                                      *)

\* mutant: an answer raises the score and leaves the category's state.
ScoreOnly(answered) ==
  [c \in Categories |->
     [analysis[c] EXCEPT !.score = IF c \in answered /\ @ < 83 THEN 83 ELSE @]]

\* computeCoverage: one answer lifts its category to 0.83, a repository fact adds 0.2.
computeCoverage(answered) ==
  [c \in Categories |->
     LET a == analysis[c]
         score == IF c \in answered /\ a.score < 83 THEN 83 ELSE a.score
         state == IF c \notin answered THEN a.state ELSE IF score >= 85 THEN "CLEAR" ELSE "PARTIAL"
         lifted == IF c \notin repoFacts THEN score ELSE IF score > 80 THEN 100 ELSE score + 20
         ambiguity == IF c \notin answered THEN a.ambiguity
                      ELSE IF a.ambiguity < 35 THEN 5 ELSE a.ambiguity - 30
     IN [a EXCEPT !.score = lifted, !.ambiguity = ambiguity,
                  !.state = IF c \in repoFacts /\ lifted >= 85 THEN "CLEAR" ELSE state]]

\* readiness(): the average, the critical categories and the high-risk unknowns.
readiness(coverage) ==
  LET critical == {c \in Categories : /\ coverage[c].riskImpact >= 70
                                      /\ coverage[c].state = "MISSING" \/ coverage[c].score < 40}
      unknown == {c \in Categories : /\ coverage[c].ambiguity >= 70 /\ coverage[c].riskImpact >= 50
                                     /\ coverage[c].state # "CLEAR"}
  IN /\ Categories # {}
     /\ MapThenSumSet(LAMBDA c : coverage[c].score, Categories) >= readinessThreshold * Cardinality(Categories)
     /\ Cardinality(critical) <= criticalMissingAllowed
     /\ unknown = {}

Ready(answered) == readiness(computeCoverage(answered))

\* refreshCoverage of what was read; what another provider's analysis says is open.
Verdicts(answered) == IF provider = "MOCK" THEN {Ready(answered)} ELSE BOOLEAN

Answered == {questions[i].category : i \in {j \in DOMAIN questions : questions[j].status = "ANSWERED"}}

-----------------------------------------------------------------------------
(* Questions.                                                                *)

\* mutant: only the questions that are settled count as asked.
AskedSettled == {questions[i].category : i \in {j \in DOMAIN questions : questions[j].status # "OPEN"}}

\* The categories createDemoQuestion does not ask about again.
asked == {questions[i].category : i \in DOMAIN questions}

Unasked == {i \in DOMAIN templates : templates[i] \notin asked}

\* createDemoQuestion runs without an await.  Another provider's port never
\* proposes a question.
createDemoQuestion ==
  IF provider # "MOCK" \/ Unasked = {} \/ Len(questions) >= maxDiscoveryQuestions
  THEN UNCHANGED questions
  ELSE \E first \in Unasked :
         /\ \A i \in Unasked : first <= i
         /\ questions' = Append(questions, [category |-> templates[first], status |-> "OPEN"])

-----------------------------------------------------------------------------
(* Coroutines.                                                               *)

Free(i) == calls[i] = NoCall
At(i, pc) == calls[i].pc = pc
Goes(i, c) == calls' = [calls EXCEPT ![i] = c]
Ends(i) == Goes(i, NoCall)

Cycle == [pc |-> "cycle"]
Check == [pc |-> "check", answered |-> Answered']

Request == used.requests < MaxRequests /\ used' = [used EXCEPT !.requests = @ + 1]

\* submitMission up to the scan of the repository.
submitMission(i) ==
  /\ Free(i) /\ Len(missions) < MaxMissions
  /\ \E m \in Missions : missions' = Append(missions, [words |-> m, tier |-> "none", entry |-> "none",
                                                       researched |-> FALSE, workflow |-> FALSE])
  /\ Goes(i, [pc |-> "scan", mission |-> Len(missions) + 1])
  /\ UNCHANGED <<provider, questions, requirements, spec, contract, plans, used, lost>>

\* The scan answered or failed: the risk decides how deep the process goes.
Scanned(i) ==
  /\ At(i, "scan")
  /\ \E blast \in 0..2 :
       missions' = [missions EXCEPT ![calls[i].mission].tier =
                      assessRisk(signalsFromMission(missions[calls[i].mission].words), blast)]
  /\ Goes(i, [calls[i] EXCEPT !.pc = "intent"])
  /\ UNCHANGED <<provider, questions, requirements, spec, contract, plans, used, lost>>

\* IntentGateService.classify: the provider answers, unusably perhaps, or throws.
classify(i) ==
  /\ At(i, "intent")
  /\ LET n == calls[i].mission
         m == missions[n]
         checked(entry) == IF m.tier = "HIGH" /\ entry = "DIRECT_IMPACT_ANALYSIS"
                           THEN "DISCOVERY_INTERVIEW" ELSE entry
         research == researchTriggers(m.words, m.tier)
     IN /\ \E entry \in {checked(e) : e \in EntryPoints}
                        \cup IF provider = "MOCK" THEN {} ELSE {heuristicIntent(m.words)} :
             missions' = [missions EXCEPT ![n].entry = entry, ![n].workflow = ~research]
        /\ Goes(i, IF research THEN [calls[i] EXCEPT !.pc = "research"] ELSE Cycle)
  /\ UNCHANGED <<provider, questions, requirements, spec, contract, plans, used, lost>>

\* runResearch answered; the delivery workflow starts, then the first cycle.
Researched(i) ==
  /\ At(i, "research")
  /\ missions' = [missions EXCEPT ![calls[i].mission].researched = TRUE, ![calls[i].mission].workflow = TRUE]
  /\ Goes(i, Cycle)
  /\ UNCHANGED <<provider, questions, requirements, spec, contract, plans, used, lost>>

\* POST discovery/refresh: without a mission there is nothing to refresh.
discoverOnce(i) ==
  /\ Free(i) /\ missions # <<>> /\ Request
  /\ Goes(i, Cycle)
  /\ UNCHANGED <<provider, docs, lost>>

\* refreshCoverage of a discovery cycle answered: whatever it says, ask.
CycleEnds(i) ==
  /\ At(i, "cycle")
  /\ createDemoQuestion
  /\ Ends(i) /\ lost' = FALSE
  /\ UNCHANGED <<provider, missions, requirements, spec, contract, plans, used>>

SetStatus(q, s) == questions' = [questions EXCEPT ![q].status = s]

\* answerQuestion and the refresh it starts.  A skipped question may be answered.
answerQuestion(i, q) ==
  /\ Free(i) /\ questions[q].status # "ANSWERED"
  /\ IF questions[q].status = "OPEN" THEN UNCHANGED used
     ELSE used.skips < MaxSkips /\ used' = [used EXCEPT !.skips = @ + 1]
  /\ SetStatus(q, "ANSWERED")
  /\ requirements' = Append(requirements, questions[q].category)
  /\ Goes(i, Check)
  /\ UNCHANGED <<provider, missions, spec, contract, plans, lost>>

\* mutant: skipping takes the requirement of an earlier answer back.
SkipRetracts(i, q) ==
  /\ Free(i) /\ used.skips < MaxSkips /\ used' = [used EXCEPT !.skips = @ + 1]
  /\ SetStatus(q, "SKIPPED_WITH_ASSUMPTION")
  /\ requirements' = SelectSeq(requirements, LAMBDA c : c # questions[q].category)
  /\ Goes(i, Check)
  /\ UNCHANGED <<provider, missions, spec, contract, plans, lost>>

\* skipWithAssumption looks at no status: an answered question may be skipped.
skipWithAssumption(i, q) ==
  /\ Free(i) /\ used.skips < MaxSkips /\ used' = [used EXCEPT !.skips = @ + 1]
  /\ SetStatus(q, "SKIPPED_WITH_ASSUMPTION")
  /\ Goes(i, Check)
  /\ UNCHANGED <<provider, missions, requirements, spec, contract, plans, lost>>

\* mutant: the next question is left to the next answer.
AnnouncesOnly(i) ==
  /\ At(i, "check") /\ Ends(i)
  /\ UNCHANGED <<provider, docs, used, lost>>

\* afterAnswerRefresh: ready as of what was read, or the next cycle.
afterAnswerRefresh(i) ==
  /\ At(i, "check")
  /\ \E ready \in Verdicts(calls[i].answered) : Goes(i, IF ready THEN NoCall ELSE Cycle)
  /\ UNCHANGED <<provider, docs, used, lost>>

-----------------------------------------------------------------------------
(* Specification, contract and plan.                                         *)

\* finalizeSpecification reads the specification it is to revise ...
finalizeSpecification(i) ==
  /\ Free(i) /\ missions # <<>> /\ Request
  /\ Goes(i, [pc |-> "write", existing |-> spec])
  /\ UNCHANGED <<provider, docs, lost>>

\* What generateSpec writes for an empty answer.
Degraded(existing) == IF existing = NoSpec THEN "fallback" ELSE existing.content

\* ... and writes its next revision when the writer has answered, or left it blank.
generateSpec(i) ==
  /\ At(i, "write")
  /\ \E content \in {"written", Degraded(calls[i].existing)} :
       spec' = [revision |-> calls[i].existing.revision + 1, content |-> content]
  /\ Ends(i)
  /\ UNCHANGED <<provider, missions, questions, requirements, contract, plans, used, lost>>

\* PreCodeContractService.refresh.  Its sections hold items that are never clear,
\* and what is not clear blocks, so no compiled contract is ever ready, and
\* compiling it again tells the gate nothing new.
refreshContract(i) ==
  /\ Free(i) /\ ~contract
  /\ Goes(i, [pc |-> "compile"])
  /\ UNCHANGED <<provider, docs, used, lost>>

ContractCompiled(i) ==
  /\ At(i, "compile") /\ Ends(i)
  /\ contract' = TRUE
  /\ UNCHANGED <<provider, missions, questions, requirements, spec, plans, used, lost>>

Decompose(override) == [pc |-> "decompose", override |-> override,
                        mission |-> Len(missions), requirements |-> requirements]

\* planDeliveryTasks: the gate is asked, or overridden.
planDeliveryTasks(i) ==
  /\ Free(i) /\ Request
  /\ \/ Goes(i, [pc |-> "gate", answered |-> Answered])
     \/ missions # <<>> /\ Goes(i, Decompose(TRUE))
  /\ UNCHANGED <<provider, docs, lost>>

\* The gate answered.  Mission and requirements are read only now.
GateAnswers(i) ==
  /\ At(i, "gate")
  /\ \E ready \in Verdicts(calls[i].answered) :
       Goes(i, IF ready /\ ~(RequireImplContract /\ contract) /\ missions # <<>>
               THEN Decompose(FALSE) ELSE NoCall)
  /\ UNCHANGED <<provider, docs, used, lost>>

\* planTasks stores its tasks, each with the requirements the call read.
Planned(i) ==
  /\ At(i, "decompose") /\ Ends(i)
  /\ plans' = plans \cup {[override |-> calls[i].override, mission |-> calls[i].mission,
                           requirements |-> calls[i].requirements]}
  /\ UNCHANGED <<provider, missions, questions, requirements, spec, contract, used, lost>>

Discovering(i) == calls[i].pc \in {"scan", "intent", "research", "check", "cycle"}

\* A provider that is not the mock throws; classify alone survives it.
ProviderFails(i) ==
  /\ provider # "MOCK" /\ ~Free(i) /\ calls[i].pc \notin {"scan", "intent", "compile"}
  /\ Ends(i) /\ lost' = (lost \/ Discovering(i))
  /\ UNCHANGED <<provider, docs, used>>

\* The daemon restarts: documents are all that is left.
Restart ==
  /\ \E i \in Slots : ~Free(i)
  /\ calls' = [i \in Slots |-> NoCall]
  /\ lost' = (lost \/ \E i \in Slots : Discovering(i))
  /\ UNCHANGED <<provider, docs, used>>

-----------------------------------------------------------------------------

Next ==
  \/ \E i \in Slots :
       \/ submitMission(i) \/ Scanned(i) \/ classify(i) \/ Researched(i)
       \/ discoverOnce(i) \/ CycleEnds(i) \/ afterAnswerRefresh(i)
       \/ finalizeSpecification(i) \/ generateSpec(i) \/ refreshContract(i) \/ ContractCompiled(i)
       \/ planDeliveryTasks(i) \/ GateAnswers(i) \/ Planned(i) \/ ProviderFails(i)
       \/ \E q \in DOMAIN questions : answerQuestion(i, q) \/ skipWithAssumption(i, q)
  \/ Restart

Spec == Init /\ [][Next]_vars
-----------------------------------------------------------------------------

TypeOK ==
  /\ provider \in {"MOCK", "OTHER"} /\ contract \in BOOLEAN /\ lost \in BOOLEAN
  /\ \A n \in DOMAIN missions :
       missions[n] \in [words: Missions, tier: Tiers \cup {"none"}, entry: EntryPoints \cup {"none"},
                        researched: BOOLEAN, workflow: BOOLEAN]
  /\ \A q \in DOMAIN questions :
       questions[q] \in [category: TemplateCategories, status: {"OPEN", "ANSWERED", "SKIPPED_WITH_ASSUMPTION"}]
  /\ \A n \in DOMAIN requirements : requirements[n] \in TemplateCategories
  /\ spec.revision \in Nat /\ spec.content \in {"none", "written", "fallback"}
  /\ \A i \in Slots : calls[i].pc \in {"none", "scan", "intent", "research", "cycle", "check", "gate",
                                       "decompose", "write", "compile"}

\* "already-answered categories are never re-asked" (discovery-service.ts:32): no
\* two questions of a project share a category, however many discovery cycles
\* were under way when they were asked.
OneQuestionPerCategory ==
  \A p, q \in DOMAIN questions : questions[p].category = questions[q].category => p = q

\* The interview can end: a project whose questions are all asked and answered is
\* ready for planning - with the mock provider's analysis and templates.
AnswersSuffice ==
  provider = "MOCK" /\ Unasked = {} /\ Answered = asked => Ready(Answered)

\* "Ask the next question immediately" (project-service.ts:229): when a project has
\* a mission, is not ready and no discovery coroutine is under way, a question is
\* open or there is none left - unless a restart took a coroutine with it and
\* nobody has refreshed since.  Skips of answered questions and answers
\* that overtake each other included.
InterviewNeverStalls ==
  /\ provider = "MOCK" /\ ~lost /\ missions # <<>>
  /\ (\A i \in Slots : ~Discovering(i)) /\ ~Ready(Answered)
  => \/ \E q \in DOMAIN questions : questions[q].status = "OPEN"
     \/ Unasked = {} \/ Len(questions) >= maxDiscoveryQuestions

CriticalCategories ==
  {c \in TemplateCategories : analysis[c].state = "MISSING" /\ analysis[c].riskImpact >= 70} \ repoFacts

\* The gate reads answers, the plan reads requirements, and there are awaits
\* between: a plan nobody forced still carries a requirement for every critical
\* category, whatever was answered or skipped meanwhile.
UnforcedPlanIsGrounded ==
  provider = "MOCK" /\ criticalMissingAllowed = 0 =>
    \A p \in plans : p.override \/ \A c \in CriticalCategories :
                                     \E n \in DOMAIN p.requirements : p.requirements[n] = c

=============================================================================
