SPECIFICATION FairSpec
CONSTANTS
  t1 = t1
  t2 = t2
  r1 = r1
  r2 = r2
  r3 = r3
  NoTask = NoTask
  Tasks = {t1}
  Runs = {r1, r2}
  MaxRunAttempts = 1
  EscalationAfter = 1
  MaxConcurrentRuns = 2
  StepBound = 3
  ProviderFailureLimit = 2
  MaxParks = 2
  dependencyTaskIds <- NoDependencies
  MaxRequests = 2
  MaxRestarts = 0
CHECK_DEADLOCK FALSE
INVARIANTS AttemptsBounded ParkedRunHasWaker
PROPERTIES RunLeavesRunning
