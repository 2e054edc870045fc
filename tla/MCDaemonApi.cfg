SPECIFICATION Spec
CONSTANTS
  Keys = {"k1"}
  Dangerous = {"drop"}
  Ordinary = {"edit"}
  MaxDevices = 1
  MaxInFlight = 3
  MaxRestarts = 1
INVARIANTS RetryNeverRepeats
PROPERTIES RevocationIsFinal SilencedForGood
CHECK_DEADLOCK FALSE
