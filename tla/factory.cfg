\* Three goroutines make four calls of any methods on a factory of two types.
SPECIFICATION Spec
CONSTANTS
  Callers = {g1, g2, g3}
  Types = {application, other}
  Nobody = nobody
  MaxCalls = 4
INVARIANTS TypeOK SharedAndRunOnce ShutdownWaits SyncIsComplete
PROPERTIES ShutdownIsFinal CallsEnd
CHECK_DEADLOCK FALSE
