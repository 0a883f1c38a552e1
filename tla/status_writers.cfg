\* Two workers each write a status while users edit, delete and create again.
SPECIFICATION Spec
CONSTANTS
  Callers = {c1, c2}
  Specs = {s1, s2}
  Statuses = {progressing, healthy}
  Timed = {healthy}
  NoStatus = none
  Steps = 5
  MaxCalls = 2
  MaxEdits = 4
  MaxFaults = 1
INVARIANTS TypeOK ErrorsHaveACause
PROPERTIES WritesAtomically
CHECK_DEADLOCK FALSE
