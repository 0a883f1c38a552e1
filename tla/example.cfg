\* One worker and one of each kind of trouble; fair scheduling.
SPECIFICATION FairSpec
CONSTANTS
  Workers = {w1}
  Deployments = {web}
  PodLabels = {blue, green}
  MaxVersion = 4
  Budget <- OneOfEach
INVARIANTS
  TypeOK
  RestIsExposed
PROPERTIES
  EventuallyExposed
  EventuallyCleaned
CHECK_DEADLOCK FALSE
