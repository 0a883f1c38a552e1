\* One worker with a token, on a repository that asks for it.
SPECIFICATION Spec
CONSTANTS
  Workers = {w1}
  Files = {f1}
  Private = TRUE
  Token = TRUE
  MaxCommit = 1
  MaxRounds = 1
  MaxTrouble = 0
PROPERTIES TokenIsEnough
CHECK_DEADLOCK FALSE
