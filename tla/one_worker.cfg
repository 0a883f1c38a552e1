\* One worker, edits, a moving repository and one of each kind of trouble.
SPECIFICATION Spec
CONSTANTS
  a1 = a1
  deploy = deploy
  svc = svc
  v1 = v1
  v1b = v1b
  v2 = v2
  Workers = {w1}
  Apps <- OneApp
  NameOf <- OneNameOf
  NamespaceOf <- OneNamespaceOf
  Specs <- EditedSpecs
  RepoOf <- EditedRepoOf
  HasBranch <- DefaultSpecs
  Resources = {deploy, svc}
  ClusterScoped = {}
  Bodies <- MCBodies
  SpecPart <- MCSpecPart
  MaxCommit = 2
  MaxVersion = 3
  Manifest <- EditedManifest
  Budget <- OneOfEach
INVARIANTS
  RestIsHealthy
  HealthyMeansApplied
PROPERTIES
  HealthyKeepsObjects
CHECK_DEADLOCK FALSE
