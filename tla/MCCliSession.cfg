SPECIFICATION Spec
CONSTANTS
  Kind = "codex-cli"
  Streams <- MCStreams
  Stderrs <- MCStderrs
  Capacity = 3
  Leftovers = FALSE
INVARIANTS NeverRerun SuccessIsReal
PROPERTIES StopKeepsItsReason RunSettles StopKillsGroup
