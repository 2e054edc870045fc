SPECIFICATION TerminalsSpec
CONSTANTS
  MaxTerms = 2
  HasPty = TRUE
INVARIANTS TransitionsLegal
PROPERTY KilledShellDies
