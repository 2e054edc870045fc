SPECIFICATION Spec
CONSTANTS
  t1 = t1
  t2 = t2
  r1 = r1
  r2 = r2
  r3 = r3
  NoTask = NoTask
  Tasks = {t1}
  Runs = {r1, r2}
  MaxRunAttempts = 2
  EscalationAfter = 2
  MaxConcurrentRuns = 2
  StepBound = 2
  ProviderFailureLimit = 1
  MaxParks = 1
  dependencyTaskIds <- NoDependencies
  MaxRequests = 1
  MaxRestarts = 1
SYMMETRY RunSymmetry
INVARIANTS TypeOK SingleDriver NoOrphanRun LoopsMatchRuns
PROPERTIES SettledIsFinal RunLifecycleSpec
CHECK_DEADLOCK FALSE
