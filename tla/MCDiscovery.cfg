SPECIFICATION Spec
CONSTANTS
  templates <- MCTemplates
  analysis <- MCAnalysis
  repoFacts = {}
  readinessThreshold = 70
  criticalMissingAllowed = 0
  maxDiscoveryQuestions = 8
  Missions <- MCMissions
  RequireImplContract = TRUE
  MaxMissions = 1
  MaxSkips = 1
  MaxRequests = 1
  c1 = c1
  c2 = c2
  Slots = {c1, c2}
INVARIANTS OneQuestionPerCategory AnswersSuffice InterviewNeverStalls UnforcedPlanIsGrounded
SYMMETRY CallSymmetry
CHECK_DEADLOCK FALSE
