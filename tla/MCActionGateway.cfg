SPECIFICATION FairSpec
CONSTANTS
  a1 = a1
  a2 = a2
  Actions = {a1, a2}
  MaxRestarts = 2
INVARIANTS NoUnapprovedExecution RefusedNeverRuns ApprovalHasExecutor
  ResumedAtMostOnce
PROPERTIES NoZombieExecution RunHearsOfOutcome OneShotSpec
CHECK_DEADLOCK FALSE
