\* The report of a failure overwrites the health a later success wrote.
SPECIFICATION Spec
CONSTANTS
  a1 = a1
  deploy = deploy
  svc = svc
  v1 = v1
  v1b = v1b
  v2 = v2
  Workers = {w1, w2}
  Apps <- OneApp
  NameOf <- OneNameOf
  NamespaceOf <- OneNamespaceOf
  Specs <- StableSpecs
  RepoOf <- StableRepoOf
  HasBranch <- StableSpecs
  Resources = {deploy}
  ClusterScoped = {}
  Bodies <- MCBodies
  SpecPart <- MCSpecPart
  MaxCommit = 1
  MaxVersion = 2
  Manifest <- MovingManifest
  Budget <- OneFault
INVARIANTS
  RestIsHealthy
CHECK_DEADLOCK FALSE
