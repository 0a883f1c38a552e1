\* Two API groups, a kind that both serve, two namespaces; one change, one failing List.
SPECIFICATION Spec
CONSTANTS
  core = core
  events = events
  Groups <- MCGroups
  KindsOf <- MCKindsOf
  Namespaces = {n1, n2}
  SpecValues = {x, y}
  Nobody = nobody
  MaxObjects = 2
  MaxChanges = 1
  MaxMissed = 1
INVARIANTS TypeOK ListingIsExact DiffIsRight ResolvesAnywhere
PROPERTIES ListingReturns
CHECK_DEADLOCK FALSE
