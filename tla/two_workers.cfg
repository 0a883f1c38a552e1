\* Two workers, one Application that is created, deleted and created again,
\* one failing call or lost answer; fair scheduling.
SPECIFICATION FairSpec
CONSTANTS
  a1 = a1
  deploy = deploy
  svc = svc
  v1 = v1
  v1b = v1b
  v2 = v2
  Workers = {w1, w2}
  Apps <- OneApp
  NameOf <- OneNameOf
  NamespaceOf <- OneNamespaceOf
  Specs <- StableSpecs
  RepoOf <- StableRepoOf
  HasBranch <- StableSpecs
  Resources = {deploy, svc}
  ClusterScoped = {}
  Bodies <- MCBodies
  SpecPart <- MCSpecPart
  MaxCommit = 1
  MaxVersion = 3
  Manifest <- StableManifest
  Budget <- OneFault
INVARIANTS
  TypeOK
  ItemExclusive
  NoLimiterLeak
  NoOrphans
  NoStaleClone
  Settled
PROPERTIES
  LevelTriggered
  DeletedIsCleaned
CHECK_DEADLOCK FALSE
