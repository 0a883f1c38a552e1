\* A cleanup of one worker removes what another has just synced.
SPECIFICATION Spec
CONSTANTS
  a1 = a1
  deploy = deploy
  svc = svc
  v1 = v1
  v1b = v1b
  v2 = v2
  Workers = {w1, w2}
  Apps <- OneApp
  NameOf <- OneNameOf
  NamespaceOf <- OneNamespaceOf
  Specs <- StableSpecs
  RepoOf <- StableRepoOf
  HasBranch <- StableSpecs
  Resources = {deploy}
  ClusterScoped = {}
  Bodies <- MCBodies
  SpecPart <- MCSpecPart
  MaxCommit = 1
  MaxVersion = 3
  Manifest <- MovingManifest
  Budget <- NoTrouble
INVARIANTS
  HealthyMeansApplied
CHECK_DEADLOCK FALSE
