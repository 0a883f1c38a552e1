\* Two workers, a repository that moves on, one of each kind of trouble.
SPECIFICATION MissedSpec
CONSTANTS
  a1 = a1
  deploy = deploy
  svc = svc
  v1 = v1
  v1b = v1b
  v2 = v2
  Workers = {w1, w2}
  Apps <- OneApp
  NameOf <- OneNameOf
  NamespaceOf <- OneNamespaceOf
  Specs <- StableSpecs
  RepoOf <- StableRepoOf
  HasBranch <- StableSpecs
  Resources = {deploy}
  ClusterScoped = {}
  Bodies <- MCBodies
  SpecPart <- MCSpecPart
  MaxCommit = 2
  MaxVersion = 3
  Manifest <- MovingManifest
  Budget <- OneOfEach
SYMMETRY WorkerSymmetry
INVARIANTS
  SettledUnlessMissed
CHECK_DEADLOCK FALSE
