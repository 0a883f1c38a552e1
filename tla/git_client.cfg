\* Two workers, a cleanup, a crash or a failing call on a public repository.
SPECIFICATION Spec
CONSTANTS
  Workers = {w1, w2}
  Files = {f1}
  Private = FALSE
  Token = FALSE
  MaxCommit = 2
  MaxRounds = 2
  MaxTrouble = 1
INVARIANTS TypeOK ManifestsAreOfHash HashIsFresh
PROPERTIES EventuallyRead
CHECK_DEADLOCK FALSE
