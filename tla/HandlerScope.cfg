SPECIFICATION Spec
CONSTANTS
  Bits = 4
  CheckFirst = FALSE
  Rank <- MCRank
  Programs <- Sharing
INVARIANTS
  OwnEnvironment
CHECK_DEADLOCK FALSE
