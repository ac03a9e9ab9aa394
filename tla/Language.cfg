SPECIFICATION Spec
CONSTANTS
  Bits = 4
  CheckFirst = TRUE
  Rank <- MCRank
  Programs <- Language
INVARIANTS
  TypeOK
  StackDiscipline
  TypesPreserved
  LintsSound
  VerdictsHold
  ExitHooks
  TracebackComplete
  AnswerOwed
  OneOwner
CHECK_DEADLOCK FALSE
