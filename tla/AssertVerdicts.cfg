SPECIFICATION Spec
CONSTANTS
  Bits = 4
  CheckFirst = TRUE
  Rank <- MCRank
  Programs <- Assertions
INVARIANTS
  NoFalsePositives
CHECK_DEADLOCK FALSE
