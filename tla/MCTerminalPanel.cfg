SPECIFICATION PanelSpec
CONSTANTS
  MaxStarts = 2
  MaxOutput = 3
  RingLimit = 2
  MaxPolls = 2
INVARIANTS PanelMissesNothing
CHECK_DEADLOCK FALSE
