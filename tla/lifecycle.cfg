\* Each of the three programs, with two workers and up to three signals.
SPECIFICATION Spec
CONSTANTS
  Workers = {w1, w2}
  MaxItems = 2
  MaxSignals = 3
INVARIANTS TypeOK SyncedBeforeWork ServesUntilStopped
PROPERTIES EndsOnSignal ItemsAreTaken
CHECK_DEADLOCK FALSE
