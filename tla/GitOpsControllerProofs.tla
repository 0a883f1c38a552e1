------------------------ MODULE GitOpsControllerProofs ------------------------
(***************************************************************************)
(* Theorems about GitOpsController, for every number of workers, every set *)
(* of Applications and repositories and every bound.                       *)
(***************************************************************************)
EXTENDS GitOpsController, TLAPS

-----------------------------------------------------------------------------
(***************************************************************************)
(* The values the definitions name have the types they should.             *)
(***************************************************************************)

(* Names, paths and bounds of the data part of the specification. *)
LEMMA DataTypes ==
  /\ AnyApp \in Apps /\ AnySpec \in Specs
  /\ \A a \in Apps : NameOf[a] \in Names /\ NamespaceOf[a] \in Namespaces
  /\ \A s \in Specs : RepoOf[s] \in Repos
  /\ \A a \in Apps, s \in Specs : PathOf(a, s) \in Paths
  /\ \A a \in Apps, r \in Resources : Place(a, r) \in Places
  /\ 0 \in Versions /\ 0 \in 0 .. MaxCommit /\ 0 \in 0 .. Broken /\ 1 \in Commits
  /\ Commits \subseteq 0 .. MaxCommit /\ Commits \subseteq 0 .. Broken
  /\ Broken \in 0 .. Broken
<1>1. AnyApp \in Apps /\ AnySpec \in Specs
  BY AppsAssumption, SpecsAssumption DEF AnyApp, AnySpec
<1>2. /\ \A a \in Apps : NameOf[a] \in Names /\ NamespaceOf[a] \in Namespaces
      /\ \A s \in Specs : RepoOf[s] \in Repos
  BY DEF Names, Namespaces, Repos
<1>3. \A a \in Apps, s \in Specs : PathOf(a, s) \in Paths
  BY <1>2 DEF PathOf, Paths
<1>4. \A a \in Apps, r \in Resources : Place(a, r) \in Places
  BY <1>2 DEF Place, Places
<1>5. /\ 0 \in Versions /\ 0 \in 0 .. MaxCommit /\ 0 \in 0 .. Broken /\ 1 \in Commits
      /\ Commits \subseteq 0 .. MaxCommit /\ Commits \subseteq 0 .. Broken
      /\ Broken \in 0 .. Broken
  BY BoundsAssumption DEF Versions, Broken, Commits
<1>6. QED
  BY <1>1, <1>2, <1>3, <1>4, <1>5

(* The local variables of a worker that holds no item. *)
LEMMA RestTypes ==
  NoItem \in Items /\ NoJob \in Jobs /\ NoManifest \in Manifests
  /\ Unknown \in [known : BOOLEAN, ver : Versions, spec : Specs]
<1>1. NoManifest \in Manifests
  <2>1. NoManifest \in [{} -> Bodies]
    BY DEF NoManifest
  <2>2. {} \in SUBSET Resources
    OBVIOUS
  <2>3. QED
    BY <2>1, <2>2 DEF Manifests
<1>2. NoJob \in Jobs
  BY <1>1, DataTypes DEF NoJob, Jobs
<1>3. NoItem \in Items /\ Unknown \in [known : BOOLEAN, ver : Versions, spec : Specs]
  BY DataTypes DEF NoItem, Items, Unknown
<1>4. QED
  BY <1>1, <1>2, <1>3

-----------------------------------------------------------------------------
(***************************************************************************)
(* How a worker's step ends.                                               *)
(***************************************************************************)

(* A call that succeeds leaves the queue alone and moves the worker on. *)
LEMMA ContinueType ==
  ASSUME QueueTypeOK, WorkerTypeOK, NEW w \in Workers, NEW l \in Points,
         NEW j \in Jobs, Continue(w, l, j),
         l = "create" => j.todo \subseteq DOMAIN j.gen
  PROVE  QueueTypeOK' /\ WorkerTypeOK'
BY DEF Continue, Goto, QueueTypeOK, WorkerTypeOK, queueVars

(* An error queues the worker's item again. *)
LEMMA FailType ==
  ASSUME QueueTypeOK, WorkerTypeOK, NEW w \in Workers, Fail(w)
  PROVE  QueueTypeOK' /\ WorkerTypeOK'
<1>1. task[w] \in Items /\ "done" \in Points
  BY DEF WorkerTypeOK, Points
<1>2. QueueTypeOK'
  BY <1>1 DEF Fail, AddRateLimited, QueueTypeOK
<1>3. WorkerTypeOK'
  BY <1>1, RestTypes DEF Fail, Goto, WorkerTypeOK
<1>4. QED
  BY <1>2, <1>3

(* Done takes an item out of processing and may queue it. *)
LEMMA DoneType ==
  ASSUME QueueTypeOK, NEW i \in Items, Done(i)
  PROVE  queue' \in Seq(Items) /\ dirty' \subseteq Items /\ processing' \subseteq Items
BY DEF QueueTypeOK, Done

(* A success ends the processing of the worker's item. *)
LEMMA SucceedType ==
  ASSUME QueueTypeOK, WorkerTypeOK, NEW w \in Workers, Succeed(w)
  PROVE  QueueTypeOK' /\ WorkerTypeOK'
<1>1. task[w] \in Items /\ "idle" \in Points
  BY DEF WorkerTypeOK, Points
<1>2. Finish(task[w])
  BY DEF Succeed
<1>3. QueueTypeOK'
  BY <1>1, <1>2, DoneType DEF Finish, QueueTypeOK
<1>4. WorkerTypeOK'
  BY <1>1, RestTypes DEF Succeed, Goto, WorkerTypeOK
<1>5. QED
  BY <1>3, <1>4

(* A handler queues the object of an event. *)
LEMMA AddType ==
  ASSUME QueueTypeOK, NEW i \in Items, AddRateLimited(i)
  PROVE  QueueTypeOK'
BY DEF QueueTypeOK, AddRateLimited

-----------------------------------------------------------------------------
(***************************************************************************)
(* Type correctness.                                                       *)
(***************************************************************************)

(* Counting a trouble keeps the counters natural numbers. *)
LEMMA SpendType ==
  ASSUME spent \in [Trouble -> Nat], NEW t \in Trouble, Spend(t)
  PROVE  spent' \in [Trouble -> Nat]
BY DEF Spend

(* A status write changes the health and the revision of one Application. *)
LEMMA StatusType ==
  ASSUME StoreTypeOK, NEW a \in Apps, NEW h \in Health, NEW r \in 0 .. MaxCommit,
         updateAppStatus(a, h, r)
  PROVE  app' \in [Apps -> AppStates]
BY DEF updateAppStatus, StoreTypeOK, AppStates

(* The initial state is well typed. *)
LEMMA TypeInit == Init => TypeOK
<1> SUFFICES ASSUME Init PROVE TypeOK
  OBVIOUS
<1>1. StoreTypeOK
  <2>1. app \in [Apps -> AppStates]
    BY DataTypes DEF Init, AppStates, Health
  <2>2. cluster \subseteq Objects /\ remote \in [Repos -> Commits]
    BY DataTypes DEF Init
  <2>3. clone \in [Paths -> 0 .. Broken]
    BY DataTypes DEF Init, Missing
  <2>4. QED
    BY <2>1, <2>2, <2>3 DEF StoreTypeOK
<1>2. InformerTypeOK
  BY RestTypes DEF Init, InformerTypeOK
<1>3. QueueTypeOK
  BY DEF Init, QueueInit, QueueTypeOK
<1>4. WorkerTypeOK
  BY RestTypes DEF Init, WorkerTypeOK, Points
<1>5. spent \in [Trouble -> Nat]
  BY DEF Init
<1>6. QED
  BY <1>1, <1>2, <1>3, <1>4, <1>5 DEF TypeOK

(* Users change the Applications, announce the change, and push commits. *)
LEMMA TypeUser ==
  ASSUME TypeOK, User
  PROVE  TypeOK'
<1> USE DEF TypeOK
<1>1. ASSUME NEW a \in Apps, NEW s \in Specs, CreateApplication(a, s)
      PROVE  TypeOK'
  <2>1. app[a] \in AppStates /\ app[a].ver + 1 \in Versions
    BY <1>1, BoundsAssumption DEF CreateApplication, StoreTypeOK, AppStates, Versions
  <2>2. StoreTypeOK'
    BY <1>1, <2>1, DataTypes DEF CreateApplication, StoreTypeOK, AppStates, Health
  <2>3. InformerTypeOK'
    <3>1. [kind |-> "set", ver |-> app[a].ver + 1, spec |-> s] \in Events
      BY <2>1 DEF Events
    <3>2. QED
      BY <1>1, <3>1 DEF CreateApplication, InformerTypeOK
  <2>4. QED
    BY <1>1, <2>2, <2>3 DEF CreateApplication, QueueTypeOK, WorkerTypeOK,
       queueVars, workerVars
<1>2. ASSUME NEW a \in Apps, NEW s \in Specs, UpdateSpec(a, s)
      PROVE  TypeOK'
  <2>1. app[a] \in AppStates /\ app[a].ver + 1 \in Versions
    BY <1>2, BoundsAssumption DEF UpdateSpec, StoreTypeOK, AppStates, Versions
  <2>2. StoreTypeOK'
    BY <1>2, <2>1 DEF UpdateSpec, StoreTypeOK, AppStates
  <2>3. InformerTypeOK'
    <3>1. [kind |-> "set", ver |-> app[a].ver + 1, spec |-> s] \in Events
      BY <2>1 DEF Events
    <3>2. QED
      BY <1>2, <3>1 DEF UpdateSpec, InformerTypeOK
  <2>4. QED
    BY <1>2, <2>2, <2>3 DEF UpdateSpec, QueueTypeOK, WorkerTypeOK,
       queueVars, workerVars
<1>3. ASSUME NEW a \in Apps, DeleteApplication(a)
      PROVE  TypeOK'
  <2>1. app[a] \in AppStates /\ app[a].ver + 1 \in Versions
    BY <1>3, BoundsAssumption DEF DeleteApplication, StoreTypeOK, AppStates, Versions
  <2>2. StoreTypeOK'
    BY <1>3, <2>1, DataTypes DEF DeleteApplication, StoreTypeOK, AppStates, Health
  <2>3. InformerTypeOK'
    <3>1. [kind |-> "delete", ver |-> app[a].ver + 1, spec |-> app[a].spec] \in Events
      BY <2>1 DEF Events, AppStates
    <3>2. QED
      BY <1>3, <3>1 DEF DeleteApplication, InformerTypeOK
  <2>4. QED
    BY <1>3, <2>2, <2>3 DEF DeleteApplication, QueueTypeOK, WorkerTypeOK,
       queueVars, workerVars
<1>4. ASSUME NEW r \in Repos, Commit(r)
      PROVE  TypeOK'
  <2>1. StoreTypeOK'
    BY <1>4, BoundsAssumption DEF Commit, StoreTypeOK, Commits
  <2>2. QED
    BY <1>4, <2>1 DEF Commit, InformerTypeOK, QueueTypeOK, WorkerTypeOK,
       informerVars, queueVars, workerVars
<1>5. QED
  BY <1>1, <1>2, <1>3, <1>4 DEF User

(* What a list says of an Application is well typed. *)
LEMMA ListedType ==
  ASSUME StoreTypeOK, NEW a \in Apps,
         NEW c \in [known : BOOLEAN, ver : Versions, spec : Specs]
  PROVE  Listed(a, c) \in Seq(Events)
<1>1. app[a] \in AppStates
  BY DEF StoreTypeOK
<1>2. [kind |-> "set", ver |-> app[a].ver, spec |-> app[a].spec] \in Events
  BY <1>1 DEF AppStates, Events
<1>3. [kind |-> "tombstone", ver |-> c.ver, spec |-> c.spec] \in Events
  BY DEF Events
<1>4. QED
  BY <1>2, <1>3 DEF Listed

(* The informer delivers events, or lists again. *)
LEMMA TypeInformer ==
  ASSUME TypeOK, (\E a \in Apps : Deliver(a)) \/ Relist
  PROVE  TypeOK'
<1> USE DEF TypeOK
<1>1. ASSUME NEW a \in Apps, Deliver(a)
      PROVE  TypeOK'
  <2> DEFINE e == Head(events[a])
  <2>1. e \in Events /\ Tail(events[a]) \in Seq(Events)
    BY <1>1 DEF Deliver, InformerTypeOK
  <2>2. Item(a, e) \in Items
    BY <2>1 DEF Item, Items, Events
  <2>3. InformerTypeOK'
    <3>1. [known |-> TRUE, ver |-> e.ver, spec |-> e.spec]
            \in [known : BOOLEAN, ver : Versions, spec : Specs]
      BY <2>1 DEF Events
    <3>2. cache' \in [Apps -> [known : BOOLEAN, ver : Versions, spec : Specs]]
      BY <1>1, <3>1, RestTypes DEF Deliver, InformerTypeOK
    <3>3. events' \in [Apps -> Seq(Events)]
      BY <1>1, <2>1 DEF Deliver, InformerTypeOK
    <3>4. QED
      BY <3>2, <3>3 DEF InformerTypeOK
  <2>4. UNCHANGED queueVars \/ AddRateLimited(Item(a, e))
    BY <1>1 DEF Deliver, handleAdd, handleUdate, handleDelete
  <2>5. QueueTypeOK'
    BY <2>2, <2>4, AddType DEF QueueTypeOK, queueVars
  <2>6. QED
    BY <1>1, <2>3, <2>5 DEF Deliver, StoreTypeOK, WorkerTypeOK, workerVars
<1>2. ASSUME Relist
      PROVE  TypeOK'
  <2>1. InformerTypeOK'
    <3>1. \A a \in Apps : Listed(a, cache[a]) \in Seq(Events)
      BY ListedType DEF InformerTypeOK
    <3>2. QED
      BY <1>2, <3>1 DEF Relist, InformerTypeOK
  <2>2. spent' \in [Trouble -> Nat]
    BY <1>2, SpendType DEF Relist, Trouble
  <2>3. QED
    BY <1>2, <2>1, <2>2 DEF Relist, StoreTypeOK, QueueTypeOK, WorkerTypeOK,
       queueVars, workerVars
<1>3. QED
  BY <1>1, <1>2

(* The delay of an item is over. *)
LEMMA TypeDelay ==
  ASSUME TypeOK, NEW i \in waiting, DelayOver(i)
  PROVE  TypeOK'
<1>1. i \in Items
  BY DEF TypeOK, QueueTypeOK
<1>2. QueueTypeOK'
  BY <1>1 DEF DelayOver, Ready, QueueTypeOK, TypeOK
<1>3. QED
  BY <1>2 DEF DelayOver, TypeOK, StoreTypeOK, InformerTypeOK, WorkerTypeOK,
     informerVars, workerVars

(* A worker takes an item and looks its Application up. *)
LEMMA TypeLookUp ==
  ASSUME TypeOK, NEW w \in Workers, GetItem(w) \/ LookUp(w)
  PROVE  TypeOK'
<1> USE DEF TypeOK
<1>1. CASE GetItem(w)
  <2>1. Head(queue) \in Items /\ Tail(queue) \in Seq(Items)
    BY <1>1 DEF GetItem, Get, QueueTypeOK
  <2>2. QueueTypeOK'
    BY <1>1, <2>1 DEF GetItem, Get, QueueTypeOK
  <2>3. WorkerTypeOK'
    BY <1>1, <2>1 DEF GetItem, Goto, WorkerTypeOK, Points
  <2>4. QED
    BY <1>1, <2>2, <2>3 DEF GetItem, StoreTypeOK, InformerTypeOK, informerVars
<1>2. CASE LookUp(w)
  <2>1. [NoJob EXCEPT !.spec = app[task[w].app].spec] \in Jobs
    BY RestTypes DEF Jobs, StoreTypeOK, WorkerTypeOK, AppStates, Items
  <2>2. QueueTypeOK' /\ WorkerTypeOK'
    BY <1>2, <2>1, RestTypes, ContinueType
    DEF LookUp, Points, CreatePath, DeletePath
  <2>3. QED
    BY <1>2, <2>2 DEF LookUp, StoreTypeOK, InformerTypeOK, informerVars
<1>3. QED
  BY <1>1, <1>2

(* A worker writes a health. *)
LEMMA TypeStatus ==
  ASSUME TypeOK, NEW w \in Workers,
         WriteProgressing(w) \/ WriteHealthy(w) \/ WriteDegraded(w)
  PROVE  TypeOK'
<1> USE DEF TypeOK
<1>1. task[w].app \in Apps /\ job[w] \in Jobs /\ job[w].sha \in 0 .. MaxCommit
  BY DEF WorkerTypeOK, Items, Jobs
<1>2. CASE WriteProgressing(w)
  <2>1. QueueTypeOK' /\ WorkerTypeOK'
    BY <1>1, <1>2, ContinueType, FailType DEF WriteProgressing, Points, CreatePath
  <2>2. app' \in [Apps -> AppStates]
    BY <1>1, <1>2, StatusType, DataTypes DEF WriteProgressing, Health, StoreTypeOK
  <2>3. spent' \in [Trouble -> Nat]
    BY <1>2, SpendType DEF WriteProgressing, Trouble
  <2>4. QED
    BY <1>2, <2>1, <2>2, <2>3
    DEF WriteProgressing, StoreTypeOK, InformerTypeOK, informerVars
<1>3. CASE WriteHealthy(w)
  <2>1. QueueTypeOK' /\ WorkerTypeOK'
    BY <1>3, SucceedType, FailType DEF WriteHealthy
  <2>2. app' \in [Apps -> AppStates]
    BY <1>1, <1>3, StatusType DEF WriteHealthy, Health, StoreTypeOK
  <2>3. spent' \in [Trouble -> Nat]
    BY <1>3, SpendType DEF WriteHealthy, Trouble
  <2>4. QED
    BY <1>3, <2>1, <2>2, <2>3
    DEF WriteHealthy, StoreTypeOK, InformerTypeOK, informerVars
<1>4. CASE WriteDegraded(w)
  <2>1. WorkerTypeOK'
    BY <1>4, RestTypes DEF WriteDegraded, Goto, WorkerTypeOK, Points
  <2>2. app' \in [Apps -> AppStates]
    BY <1>1, <1>4, StatusType, DataTypes DEF WriteDegraded, Health, StoreTypeOK
  <2>3. spent' \in [Trouble -> Nat]
    BY <1>4, SpendType DEF WriteDegraded, Trouble
  <2>4. QED
    BY <1>4, <2>1, <2>2, <2>3
    DEF WriteDegraded, StoreTypeOK, InformerTypeOK, QueueTypeOK, informerVars, queueVars
<1>5. QED
  BY <1>2, <1>3, <1>4

(* A worker brings the clone up to date and reads the manifests. *)
LEMMA TypeClone ==
  ASSUME TypeOK, NEW w \in Workers,
         CloneOrFetch(w) \/ Checkout(w) \/ GenerateManifests(w)
  PROVE  TypeOK'
<1> USE DEF TypeOK
<1> DEFINE p == RepoPath(w)
           head == remote[RepoOf[job[w].spec]]
<1>1. /\ job[w] \in Jobs /\ job[w].spec \in Specs /\ p \in Paths
      /\ head \in Commits /\ head \in 0 .. MaxCommit /\ head \in 0 .. Broken
  BY DataTypes DEF WorkerTypeOK, StoreTypeOK, Items, Jobs, RepoPath
<1>2. CASE CloneOrFetch(w)
  <2>1. QueueTypeOK' /\ WorkerTypeOK'
    BY <1>1, <1>2, ContinueType, FailType DEF CloneOrFetch, Points, CreatePath
  <2>2. clone' \in [Paths -> 0 .. Broken]
    BY <1>1, <1>2 DEF CloneOrFetch, StoreTypeOK
  <2>3. QED
    BY <1>2, <2>1, <2>2 DEF CloneOrFetch, StoreTypeOK, InformerTypeOK, informerVars
<1>3. CASE Checkout(w)
  <2>1. [job[w] EXCEPT !.sha = head] \in Jobs
    BY <1>1 DEF Jobs
  <2>2. QueueTypeOK' /\ WorkerTypeOK'
    BY <1>3, <2>1, ContinueType, FailType DEF Checkout, Points, CreatePath
  <2>3. clone' \in [Paths -> 0 .. Broken]
    BY <1>1, <1>3 DEF Checkout, StoreTypeOK
  <2>4. QED
    BY <1>3, <2>2, <2>3 DEF Checkout, StoreTypeOK, InformerTypeOK, informerVars
<1>4. CASE GenerateManifests(w)
  <2>1. ASSUME clone[p] \in Commits
        PROVE  [job[w] EXCEPT !.gen = Manifest[job[w].spec][clone[p]]] \in Jobs
    <3>1. Manifest[job[w].spec][clone[p]] \in Manifests
      BY <1>1, <2>1, ManifestAssumption
    <3>2. QED
      BY <1>1, <3>1 DEF Jobs
  <2>2. QueueTypeOK' /\ WorkerTypeOK'
    BY <1>4, <2>1, ContinueType, FailType DEF GenerateManifests, Points, CreatePath
  <2>3. QED
    BY <1>4, <2>2 DEF GenerateManifests, StoreTypeOK, InformerTypeOK, informerVars
<1>5. QED
  BY <1>2, <1>3, <1>4

(* What is left to create or to delete is well typed. *)
LEMMA CreateFromType ==
  ASSUME QueueTypeOK, WorkerTypeOK, NEW w \in Workers, NEW todo \in SUBSET Resources,
         CreateFrom(w, todo), todo \subseteq DOMAIN job[w].gen
  PROVE  QueueTypeOK' /\ WorkerTypeOK'
<1>1. /\ [NoJob EXCEPT !.spec = job[w].spec, !.sha = job[w].sha] \in Jobs
      /\ [job[w] EXCEPT !.todo = todo] \in Jobs
  BY RestTypes DEF WorkerTypeOK, Jobs
<1>2. LET j == [job[w] EXCEPT !.todo = todo] IN j.todo \subseteq DOMAIN j.gen
  BY DEF WorkerTypeOK, Jobs
<1>3. CASE todo = {}
  BY <1>1, <1>3, ContinueType DEF CreateFrom, Points, CreatePath
<1>4. CASE todo # {}
  BY <1>1, <1>2, <1>4, ContinueType DEF CreateFrom, Points, CreatePath
<1>5. QED
  BY <1>3, <1>4

(* The cleanup goes on to the next object, or to the clone directory. *)
LEMMA DeleteFromType ==
  ASSUME QueueTypeOK, WorkerTypeOK, NEW w \in Workers, NEW doomed \in SUBSET Places,
         DeleteFrom(w, doomed)
  PROVE  QueueTypeOK' /\ WorkerTypeOK'
<1>1. NoJob \in Jobs /\ [NoJob EXCEPT !.doomed = doomed] \in Jobs
  BY RestTypes DEF Jobs
<1>2. QED
  BY <1>1, ContinueType DEF DeleteFrom, Points, DeletePath

(* The manifests of a reconciliation have resources and bodies. *)
LEMMA GenType ==
  ASSUME NEW gen \in Manifests
  PROVE  DOMAIN gen \subseteq Resources /\ \A r \in DOMAIN gen : gen[r] \in Bodies
BY DEF Manifests

(* A worker compares the cluster with the manifests and creates them. *)
LEMMA TypeCreate ==
  ASSUME TypeOK, NEW w \in Workers, ListAndDiff(w) \/ CreateResource(w)
  PROVE  TypeOK'
<1> USE DEF TypeOK
<1>1. /\ task[w].app \in Apps /\ job[w].gen \in Manifests
      /\ job[w].todo \subseteq Resources
  BY DEF WorkerTypeOK, Items, Jobs
<1>2. CASE ListAndDiff(w)
  <2>1. PICK found \in SUBSET Labelled(NameOf[task[w].app]) :
          /\ GetResourceWithLabel(NameOf[task[w].app], found)
          /\ \E table \in HashTables(found) :
               CreateFrom(w, IF DiffResources(table, job[w].gen)
                             THEN DOMAIN job[w].gen ELSE {})
    BY <1>2 DEF ListAndDiff
  <2>2. QueueTypeOK' /\ WorkerTypeOK'
    <3>1. PICK todo \in SUBSET Resources :
            CreateFrom(w, todo) /\ todo \subseteq DOMAIN job[w].gen
      BY <1>1, <2>1, GenType
    <3>2. QED
      BY <3>1, CreateFromType
  <2>3. spent' \in [Trouble -> Nat]
    BY <2>1, SpendType DEF GetResourceWithLabel, Trouble
  <2>4. QED
    BY <1>2, <2>2, <2>3 DEF ListAndDiff, StoreTypeOK, InformerTypeOK, informerVars
<1>3. CASE CreateResource(w)
  <2>1. PICK r \in job[w].todo :
          LET a == task[w].app
              new == [place |-> Place(a, r), label |-> NameOf[a],
                      body |-> job[w].gen[r]] IN
          IF \E o \in cluster : o.place = new.place
          THEN Fail(w) /\ UNCHANGED <<cluster, spent>>
          ELSE /\ cluster' = cluster \cup {new}
               /\ \/ CreateFrom(w, job[w].todo \ {r}) /\ UNCHANGED spent
                  \/ Fail(w) /\ Spend("fault")
    BY <1>3 DEF CreateResource
  <2>2. r \in DOMAIN job[w].gen /\ job[w].todo \ {r} \subseteq DOMAIN job[w].gen
    BY <1>3 DEF CreateResource, WorkerTypeOK
  <2>3. QueueTypeOK' /\ WorkerTypeOK'
    BY <1>1, <2>1, <2>2, CreateFromType, FailType
  <2>4. spent' \in [Trouble -> Nat]
    BY <2>1, SpendType DEF Trouble
  <2>5. cluster' \subseteq Objects
    <3>1. job[w].gen[r] \in Bodies
      BY <1>1, <2>2, GenType
    <3>2. QED
      BY <1>1, <2>1, <3>1, DataTypes DEF Objects, StoreTypeOK
  <2>6. QED
    BY <1>3, <2>3, <2>4, <2>5 DEF CreateResource, StoreTypeOK, InformerTypeOK,
       informerVars
<1>4. QED
  BY <1>2, <1>3

(* A worker removes the objects and the clone of a deleted Application. *)
LEMMA TypeDelete ==
  ASSUME TypeOK, NEW w \in Workers,
         ListForDelete(w) \/ DeleteResource(w) \/ CleanUp(w)
  PROVE  TypeOK'
<1> USE DEF TypeOK
<1>1. /\ task[w] \in Items /\ job[w].doomed \subseteq Places
      /\ PathOf(task[w].app, task[w].spec) \in Paths
  BY DataTypes DEF WorkerTypeOK, Items, Jobs
<1>2. CASE ListForDelete(w)
  <2>1. PICK found \in SUBSET Labelled(NameOf[task[w].app]) :
          /\ GetResourceWithLabel(NameOf[task[w].app], found)
          /\ DeleteFrom(w, {o.place : o \in found})
    BY <1>2 DEF ListForDelete
  <2>2. {o.place : o \in found} \in SUBSET Places
    BY <2>1 DEF Labelled, StoreTypeOK, Objects
  <2>3. QueueTypeOK' /\ WorkerTypeOK'
    BY <2>1, <2>2, DeleteFromType
  <2>4. spent' \in [Trouble -> Nat]
    BY <2>1, SpendType DEF GetResourceWithLabel, Trouble
  <2>5. QED
    BY <1>2, <2>3, <2>4 DEF ListForDelete, StoreTypeOK, InformerTypeOK, informerVars
<1>3. CASE DeleteResource(w)
  <2>1. PICK p \in job[w].doomed :
          IF \E o \in cluster : o.place = p
          THEN /\ cluster' = {o \in cluster : o.place # p}
               /\ \/ DeleteFrom(w, job[w].doomed \ {p}) /\ UNCHANGED spent
                  \/ Fail(w) /\ Spend("fault")
          ELSE Fail(w) /\ UNCHANGED <<cluster, spent>>
    BY <1>3 DEF DeleteResource
  <2>2. QueueTypeOK' /\ WorkerTypeOK'
    BY <1>1, <2>1, DeleteFromType, FailType
  <2>3. spent' \in [Trouble -> Nat]
    BY <2>1, SpendType DEF Trouble
  <2>4. cluster' \subseteq Objects
    BY <2>1 DEF StoreTypeOK
  <2>5. QED
    BY <1>3, <2>2, <2>3, <2>4 DEF DeleteResource, StoreTypeOK, InformerTypeOK,
       informerVars
<1>4. CASE CleanUp(w)
  <2>1. clone' \in [Paths -> 0 .. Broken]
    BY <1>1, <1>4, DataTypes DEF CleanUp, Cleaned, Missing, StoreTypeOK
  <2>2. QueueTypeOK' /\ WorkerTypeOK'
    BY <1>4, SucceedType, FailType DEF CleanUp
  <2>3. QED
    BY <1>4, <2>1, <2>2 DEF CleanUp, StoreTypeOK, InformerTypeOK, informerVars
<1>5. QED
  BY <1>2, <1>3, <1>4

(* A reconciliation fails. *)
LEMMA TypeFailure ==
  ASSUME TypeOK, NEW w \in Workers, CallFails(w) \/ DeferredDone(w)
  PROVE  TypeOK'
<1> USE DEF TypeOK
<1>1. CASE CallFails(w)
  <2>1. QueueTypeOK' /\ WorkerTypeOK' /\ spent' \in [Trouble -> Nat]
    BY <1>1, FailType, SpendType DEF CallFails, Trouble
  <2>2. QED
    BY <1>1, <2>1 DEF CallFails, StoreTypeOK, InformerTypeOK, informerVars
<1>2. CASE DeferredDone(w)
  <2>1. task[w] \in Items
    BY DEF WorkerTypeOK
  <2>2. QueueTypeOK'
    BY <1>2, <2>1, DoneType DEF DeferredDone, QueueTypeOK
  <2>3. WorkerTypeOK'
    BY <1>2 DEF DeferredDone, Goto, WorkerTypeOK, Points
  <2>4. QED
    BY <1>2, <2>2, <2>3 DEF DeferredDone, StoreTypeOK, InformerTypeOK, informerVars
<1>3. QED
  BY <1>1, <1>2

(* The process starts again, after a crash or the panic of a worker. *)
LEMMA TypeRestart ==
  ASSUME TypeOK, Restart
  PROVE  StoreTypeOK' /\ InformerTypeOK' /\ QueueTypeOK' /\ WorkerTypeOK'
<1> USE DEF TypeOK
<1>1. StoreTypeOK'
  <2>1. ASSUME NEW cut
        PROVE  [p \in Paths |-> IF p \in cut THEN Broken ELSE clone[p]]
                 \in [Paths -> 0 .. Broken]
    BY DataTypes DEF StoreTypeOK
  <2>2. clone' \in [Paths -> 0 .. Broken]
    BY <2>1, DataTypes DEF Restart, Missing, StoreTypeOK
  <2>3. QED
    BY <2>2 DEF Restart, StoreTypeOK
<1>2. InformerTypeOK'
  BY ListedType, RestTypes DEF Restart, InformerTypeOK
<1>3. QueueTypeOK'
  BY DEF Restart, QueueReset, QueueTypeOK
<1>4. WorkerTypeOK'
  BY RestTypes DEF Restart, WorkerTypeOK, Points
<1>5. QED
  BY <1>1, <1>2, <1>3, <1>4

(* Every step preserves the types. *)
LEMMA TypeNext == TypeOK /\ [Next]_vars => TypeOK'
<1> SUFFICES ASSUME TypeOK, [Next]_vars PROVE TypeOK'
  OBVIOUS
<1>1. CASE User
  BY <1>1, TypeUser
<1>2. CASE (\E a \in Apps : Deliver(a)) \/ Relist
  BY <1>2, TypeInformer
<1>3. CASE \E i \in waiting : DelayOver(i)
  BY <1>3, TypeDelay
<1>4. ASSUME NEW w \in Workers, Worker(w) \/ CallFails(w)
      PROVE  TypeOK'
  <2>1. CASE Panic(w)
    BY <2>1, TypeRestart DEF Panic, TypeOK
  <2>2. CASE ~ Panic(w)
    BY <1>4, <2>2, TypeLookUp, TypeStatus, TypeClone, TypeCreate, TypeDelete,
       TypeFailure DEF Worker
  <2>3. QED
    BY <2>1, <2>2
<1>5. CASE Crash
  BY <1>5, TypeRestart, SpendType DEF Crash, TypeOK, Trouble
<1>6. CASE UNCHANGED vars
  BY <1>6 DEF vars, TypeOK, StoreTypeOK, InformerTypeOK, QueueTypeOK, WorkerTypeOK,
     informerVars, queueVars, workerVars
<1>7. QED
  BY <1>1, <1>2, <1>3, <1>4, <1>5, <1>6 DEF Next

(***************************************************************************)
(* Every reachable state is well typed: the stores, the informer, the      *)
(* queue and the local variables of the workers of controller.go, for any  *)
(* number of workers and any bound on the trouble.                         *)
(***************************************************************************)
THEOREM TypeCorrect == Spec => []TypeOK
BY TypeInit, TypeNext, PTL DEF Spec

-----------------------------------------------------------------------------
(***************************************************************************)
(* Sequences of events and of items.                                       *)
(***************************************************************************)

(* Taking the head of a sequence. *)
LEMMA TailElements ==
  ASSUME NEW S, NEW s \in Seq(S), s # <<>>
  PROVE  /\ 1 \in DOMAIN s /\ Head(s) = s[1]
         /\ Tail(s) \in Seq(S) /\ Len(Tail(s)) = Len(s) - 1
         /\ \A k \in DOMAIN Tail(s) : k + 1 \in DOMAIN s /\ Tail(s)[k] = s[k + 1]
OBVIOUS

(* Appending to a sequence. *)
LEMMA AppendElements ==
  ASSUME NEW S, NEW s \in Seq(S), NEW e \in S
  PROVE  /\ Append(s, e) \in Seq(S) /\ Append(s, e) # <<>>
         /\ Len(Append(s, e)) = Len(s) + 1
         /\ DOMAIN Append(s, e) = DOMAIN s \cup {Len(s) + 1}
         /\ \A k \in DOMAIN s : Append(s, e)[k] = s[k]
         /\ Append(s, e)[Len(s) + 1] = e
OBVIOUS

-----------------------------------------------------------------------------
(***************************************************************************)
(* The newest event of a deleted Application.                              *)
(***************************************************************************)

(* A list ends right, for any cache. *)
LEMMA ListedEndsRight ==
  ASSUME NEW a \in Apps, NEW c, Listed(a, c) # <<>>,
         Listed(a, c)[Len(Listed(a, c))].kind = "set"
  PROVE  app[a].live
BY DEF Listed

(* Status writes and worker steps leave the Applications live or not. *)
LEMMA StatusLive ==
  ASSUME StoreTypeOK, NEW a \in Apps, NEW h, NEW r, updateAppStatus(a, h, r)
  PROVE  \A b \in Apps : app'[b].live = app[b].live
BY DEF updateAppStatus, StoreTypeOK, AppStates

(* No call of a worker creates or deletes an Application, or loses an event. *)
LEMMA WorkerFrame ==
  ASSUME TypeOK, NEW w \in Workers, Worker(w) \/ CallFails(w), ~ Panic(w)
  PROVE  events' = events /\ \A a \in Apps : app'[a].live = app[a].live
<1>1. task[w].app \in Apps /\ StoreTypeOK
  BY DEF TypeOK, WorkerTypeOK, Items
<1>2. CASE WriteProgressing(w) \/ WriteHealthy(w) \/ WriteDegraded(w)
  BY <1>1, <1>2, StatusLive
  DEF WriteProgressing, WriteHealthy, WriteDegraded, informerVars
<1>3. CASE ~ (WriteProgressing(w) \/ WriteHealthy(w) \/ WriteDegraded(w))
  BY <1>3 DEF Worker, GetItem, LookUp, CloneOrFetch, Checkout, GenerateManifests,
     ListAndDiff, CreateResource, DeferredDone, ListForDelete, DeleteResource,
     CleanUp, CallFails, informerVars
<1>4. QED
  BY <1>2, <1>3

(* EventsEndRight is inductive. *)
LEMMA EventsEndRightNext ==
  TypeOK /\ EventsEndRight /\ [Next]_vars => EventsEndRight'
<1> SUFFICES ASSUME TypeOK, EventsEndRight, [Next]_vars PROVE EventsEndRight'
  OBVIOUS
<1> USE DEF EventsEndRight
<1>1. /\ app \in [Apps -> AppStates]
      /\ events \in [Apps -> Seq(Events)]
  BY DEF TypeOK, StoreTypeOK, InformerTypeOK
<1>2. ASSUME NEW a \in Apps, NEW s \in Specs, CreateApplication(a, s)
      PROVE  EventsEndRight'
  <2>1. \A b \in Apps : b # a => events'[b] = events[b] /\ app'[b] = app[b]
    BY <1>1, <1>2 DEF CreateApplication
  <2>2. app'[a].live
    BY <1>1, <1>2 DEF CreateApplication
  <2>3. QED
    BY <2>1, <2>2
<1>3. ASSUME NEW a \in Apps, NEW s \in Specs, UpdateSpec(a, s)
      PROVE  EventsEndRight'
  <2>1. \A b \in Apps : b # a => events'[b] = events[b] /\ app'[b] = app[b]
    BY <1>1, <1>3 DEF UpdateSpec
  <2>2. app'[a].live
    BY <1>1, <1>3 DEF UpdateSpec, AppStates
  <2>3. QED
    BY <2>1, <2>2
<1>4. ASSUME NEW a \in Apps, DeleteApplication(a)
      PROVE  EventsEndRight'
  <2> DEFINE e == [kind |-> "delete", ver |-> app[a].ver + 1, spec |-> app[a].spec]
  <2>1. \A b \in Apps : b # a => events'[b] = events[b] /\ app'[b] = app[b]
    BY <1>1, <1>4 DEF DeleteApplication
  <2>2. events'[a] = Append(events[a], e)
    BY <1>1, <1>4 DEF DeleteApplication
  <2>3. events'[a][Len(events'[a])] = e
    <3>1. events[a] \in Seq(Events \cup {e})
      BY <1>1
    <3>2. QED
      BY <2>2, <3>1, AppendElements
  <2>4. QED
    BY <2>1, <2>3
<1>5. ASSUME NEW a \in Apps, Deliver(a)
      PROVE  EventsEndRight'
  <2>1. /\ app' = app /\ events[a] # <<>> /\ events'[a] = Tail(events[a])
        /\ \A b \in Apps : b # a => events'[b] = events[b]
    BY <1>1, <1>5 DEF Deliver
  <2>2. events'[a] # <<>> => events'[a][Len(events'[a])] = events[a][Len(events[a])]
    <3>1. events[a] \in Seq(Events) /\ Tail(events[a]) \in Seq(Events)
      BY <1>1, <2>1, TailElements
    <3>2. QED
      BY <2>1, <3>1
  <2>3. QED
    BY <2>1, <2>2
<1>6. CASE Relist
  <2>1. app' = app /\ \A a \in Apps : events'[a] = Listed(a, cache[a])
    BY <1>6 DEF Relist
  <2>2. QED
    BY <2>1, ListedEndsRight
<1>7. ASSUME Restart
      PROVE  EventsEndRight'
  <2>1. app' = app /\ \A a \in Apps : events'[a] = Listed(a, Unknown)
    BY <1>7 DEF Restart
  <2>2. QED
    BY <2>1, ListedEndsRight
<1>8. ASSUME NEW w \in Workers, Worker(w) \/ CallFails(w), ~ Panic(w)
      PROVE  EventsEndRight'
  BY <1>8, WorkerFrame
<1>9. CASE \/ UNCHANGED vars \/ \E i \in waiting : DelayOver(i)
           \/ \E r \in Repos : Commit(r)
  BY <1>9 DEF vars, informerVars, DelayOver, Commit
<1>10. QED
  BY <1>2, <1>3, <1>4, <1>5, <1>6, <1>7, <1>8, <1>9 DEF Next, User, Crash, Panic

-----------------------------------------------------------------------------
(***************************************************************************)
(* Tombstones.                                                             *)
(***************************************************************************)

(* Without a relist there is no tombstone among the events ... *)
EventsClean == \A a \in Apps : \A k \in DOMAIN events[a] :
                 events[a][k].kind # "tombstone"

(* ... nor among the items. *)
ItemsClean == /\ \A i \in waiting : ~ i.tomb
              /\ \A k \in DOMAIN queue : ~ queue[k].tomb
              /\ \A w \in Workers : ~ task[w].tomb

(* No call of a worker makes an item a tombstone. *)
LEMMA WorkerItemsClean ==
  ASSUME TypeOK, ItemsClean, NEW w \in Workers, Worker(w) \/ CallFails(w), ~ Panic(w)
  PROVE  ItemsClean'
<1> USE DEF ItemsClean
<1>1. /\ task \in [Workers -> Items] /\ queue \in Seq(Items) /\ ~ NoItem.tomb
  BY DEF TypeOK, WorkerTypeOK, QueueTypeOK, NoItem
<1>2. ASSUME Done(task[w]), task' = task \/ task' = [task EXCEPT ![w] = NoItem],
             waiting' = waiting
      PROVE  ItemsClean'
  <2>1. \A k \in DOMAIN queue' : ~ queue'[k].tomb
    BY <1>1, <1>2, AppendElements DEF Done
  <2>2. \A v \in Workers : ~ task'[v].tomb
    BY <1>1, <1>2
  <2>3. QED
    BY <1>2, <2>1, <2>2
<1>3. ASSUME Succeed(w) PROVE ItemsClean'
  BY <1>2, <1>3 DEF Succeed, Finish
<1>4. ASSUME Fail(w) PROVE ItemsClean'
  BY <1>4 DEF Fail, AddRateLimited
<1>5. ASSUME task' = task, queueVars' = queueVars PROVE ItemsClean'
  BY <1>5 DEF queueVars
<1>6. ASSUME NEW l, NEW j, Continue(w, l, j) PROVE ItemsClean'
  BY <1>5, <1>6 DEF Continue
<1>7. CASE GetItem(w)
  <2>1. /\ queue # <<>> /\ queue' = Tail(queue) /\ waiting' = waiting
        /\ task' = [task EXCEPT ![w] = Head(queue)]
    BY <1>7 DEF GetItem, Get
  <2>2. \A k \in DOMAIN queue' : ~ queue'[k].tomb
    BY <1>1, <2>1, TailElements
  <2>3. \A v \in Workers : ~ task'[v].tomb
    BY <1>1, <2>1, TailElements
  <2>4. QED
    BY <2>1, <2>2, <2>3
<1>8. CASE LookUp(w)
  BY <1>6, <1>8 DEF LookUp
<1>9. CASE WriteProgressing(w)
  BY <1>4, <1>6, <1>9 DEF WriteProgressing
<1>10. CASE CloneOrFetch(w) \/ Checkout(w) \/ GenerateManifests(w)
  BY <1>4, <1>6, <1>10 DEF CloneOrFetch, Checkout, GenerateManifests
<1>11. CASE ListAndDiff(w)
  BY <1>6, <1>11 DEF ListAndDiff, CreateFrom
<1>12. CASE CreateResource(w)
  BY <1>4, <1>6, <1>12 DEF CreateResource, CreateFrom
<1>13. CASE WriteHealthy(w)
  BY <1>3, <1>4, <1>13 DEF WriteHealthy
<1>14. CASE DeferredDone(w)
  BY <1>2, <1>14 DEF DeferredDone
<1>15. CASE WriteDegraded(w)
  BY <1>1, <1>15 DEF WriteDegraded, queueVars
<1>16. CASE ListForDelete(w)
  BY <1>6, <1>16 DEF ListForDelete, DeleteFrom
<1>17. CASE DeleteResource(w)
  BY <1>4, <1>6, <1>17 DEF DeleteResource, DeleteFrom
<1>18. CASE CleanUp(w)
  BY <1>3, <1>4, <1>18 DEF CleanUp
<1>19. CASE CallFails(w)
  BY <1>4, <1>19 DEF CallFails
<1>20. QED
  BY <1>7, <1>8, <1>9, <1>10, <1>11, <1>12, <1>13, <1>14, <1>15, <1>16, <1>17,
     <1>18, <1>19 DEF Worker

(* A trouble is counted: none is left out of the counters. *)
LEMMA SpentGrows ==
  ASSUME spent \in [Trouble -> Nat], NEW t \in Trouble, Spend(t)
  PROVE  /\ \A u \in Trouble : u # t => spent'[u] = spent[u]
         /\ spent'[t] # 0
BY DEF Spend

(* A worker spends faults and missed lists only. *)
LEMMA WorkerSpends ==
  ASSUME TypeOK, NEW w \in Workers, Worker(w) \/ CallFails(w)
  PROVE  UNCHANGED spent \/ Spend("fault") \/ Spend("missed")
BY DEF Worker, GetItem, LookUp, Panic, WriteProgressing, CloneOrFetch, Checkout,
   GenerateManifests, ListAndDiff, GetResourceWithLabel, CreateResource,
   WriteHealthy, DeferredDone, WriteDegraded, ListForDelete, DeleteResource,
   CleanUp, CallFails

(* NoTombstones is inductive. *)
LEMMA NoTombstonesNext == TypeOK /\ NoTombstones /\ [Next]_vars => NoTombstones'
<1> SUFFICES ASSUME TypeOK, NoTombstones, [Next]_vars, spent'["relist"] = 0
             PROVE  EventsClean' /\ ItemsClean'
  BY DEF NoTombstones, EventsClean, ItemsClean
<1>1. spent["relist"] = 0
  <2>1. spent \in [Trouble -> Nat]
    BY DEF TypeOK
  <2>2. UNCHANGED spent \/ \E t \in Trouble : Spend(t)
    BY WorkerSpends DEF Next, User, CreateApplication, UpdateSpec, DeleteApplication,
       Commit, Deliver, DelayOver, Relist, Crash, Trouble, vars
  <2>3. QED
    BY <2>1, <2>2, SpentGrows DEF Trouble
<1>2. EventsClean /\ ItemsClean
  BY <1>1 DEF NoTombstones, EventsClean, ItemsClean
<1>3. /\ events \in [Apps -> Seq(Events)] /\ queue \in Seq(Items)
      /\ waiting \subseteq Items
  BY DEF TypeOK, InformerTypeOK, QueueTypeOK
<1>4. ASSUME NEW a \in Apps, NEW e, e.kind # "tombstone",
             events' = [events EXCEPT ![a] = Append(@, e)],
             UNCHANGED <<queueVars, workerVars>>
      PROVE  EventsClean' /\ ItemsClean'
  <2>1. EventsClean'
    <3>1. events[a] \in Seq(Events \cup {e})
      BY <1>3
    <3>2. \A k \in DOMAIN events'[a] : events'[a][k].kind # "tombstone"
      BY <1>2, <1>3, <1>4, <3>1, AppendElements DEF EventsClean
    <3>3. QED
      BY <1>2, <1>3, <1>4, <3>2 DEF EventsClean
  <2>2. ItemsClean'
    BY <1>2, <1>4 DEF ItemsClean, queueVars, workerVars
  <2>3. QED
    BY <2>1, <2>2
<1>5. ASSUME NEW a \in Apps, NEW s \in Specs,
             CreateApplication(a, s) \/ UpdateSpec(a, s) \/ DeleteApplication(a)
      PROVE  EventsClean' /\ ItemsClean'
  BY <1>4, <1>5 DEF CreateApplication, UpdateSpec, DeleteApplication
<1>6. ASSUME NEW a \in Apps, Deliver(a)
      PROVE  EventsClean' /\ ItemsClean'
  <2> DEFINE e == Head(events[a])
  <2>1. /\ events[a] # <<>> /\ events' = [events EXCEPT ![a] = Tail(@)]
        /\ UNCHANGED workerVars
        /\ UNCHANGED queueVars \/ AddRateLimited(Item(a, e))
    BY <1>6 DEF Deliver, handleAdd, handleUdate, handleDelete
  <2>2. EventsClean' /\ e.kind # "tombstone"
    <3>1. e.kind # "tombstone"
      BY <1>2, <1>3, <2>1, TailElements DEF EventsClean
    <3>2. \A k \in DOMAIN events'[a] : events'[a][k].kind # "tombstone"
      BY <1>2, <1>3, <2>1, TailElements DEF EventsClean
    <3>3. QED
      BY <1>2, <1>3, <2>1, <3>1, <3>2 DEF EventsClean
  <2>3. ItemsClean'
    <3>1. ~ Item(a, e).tomb
      BY <2>2 DEF Item
    <3>2. UNCHANGED <<queue, task>> /\ waiting' \subseteq waiting \cup {Item(a, e)}
      BY <2>1 DEF AddRateLimited, queueVars, workerVars
    <3>3. QED
      BY <1>2, <3>1, <3>2 DEF ItemsClean
  <2>4. QED
    BY <2>2, <2>3
<1>7. ASSUME NEW i \in waiting, DelayOver(i)
      PROVE  EventsClean' /\ ItemsClean'
  <2>1. i \in Items
    BY <1>3
  <2>2. \A k \in DOMAIN queue' : ~ queue'[k].tomb
    BY <1>2, <1>3, <1>7, <2>1, AppendElements DEF DelayOver, Ready, ItemsClean
  <2>3. QED
    BY <1>2, <1>7, <2>2 DEF DelayOver, Ready, EventsClean, ItemsClean,
       informerVars, workerVars
<1>8. ASSUME Restart
      PROVE  EventsClean' /\ ItemsClean'
  <2>1. \A a \in Apps : events'[a] = Listed(a, Unknown)
    BY <1>8 DEF Restart
  <2>2. EventsClean'
    <3>1. ASSUME NEW a \in Apps, NEW k \in DOMAIN Listed(a, Unknown)
          PROVE  Listed(a, Unknown)[k].kind = "set"
      <4>1. /\ ~ Unknown.known
            /\ Listed(a, Unknown) # <<>> =>
                 Listed(a, Unknown) =
                   <<[kind |-> "set", ver |-> app[a].ver, spec |-> app[a].spec]>>
        BY DEF Listed, Unknown
      <4>2. Listed(a, Unknown) # <<>>
        OBVIOUS
      <4>3. QED
        BY <4>1, <4>2
    <3>2. QED
      BY <2>1, <3>1 DEF EventsClean
  <2>3. ItemsClean'
    BY <1>8 DEF Restart, QueueReset, ItemsClean, NoItem
  <2>4. QED
    BY <2>2, <2>3
<1>9. ASSUME NEW w \in Workers, Worker(w) \/ CallFails(w), ~ Panic(w)
      PROVE  EventsClean' /\ ItemsClean'
  BY <1>2, <1>9, WorkerFrame, WorkerItemsClean DEF EventsClean
<1>10. CASE Relist
  BY <1>10, SpentGrows DEF Relist, TypeOK, Trouble
<1>11. CASE UNCHANGED vars \/ \E r \in Repos : Commit(r)
  BY <1>2, <1>11 DEF vars, Commit, EventsClean, ItemsClean, informerVars, queueVars,
     workerVars
<1>12. QED
  BY SpecsAssumption, <1>5, <1>6, <1>7, <1>8, <1>9, <1>10, <1>11
  DEF Next, User, Crash, Panic

-----------------------------------------------------------------------------
(***************************************************************************)
(* Who answers for an object.                                              *)
(***************************************************************************)

(* The part of a state that answers for objects outside the workers. *)
KeepsApps ==
  /\ \A a \in Apps : app[a].live => app'[a].live
  /\ \A a \in Apps : events[a] # <<>> => events'[a] # <<>>

(* A failing worker leaves its item to be processed again. *)
LEMMA FailKeeps ==
  ASSUME WorkerTypeOK, KeepsApps, NEW w \in Workers, Fail(w),
         NEW a \in Apps, NEW o, AnswersFor(a, o)
  PROVE  AnswersFor(a, o)'
<1>1. /\ waiting' = waiting \cup {task[w]} /\ dirty' = dirty /\ task' = task
      /\ \A v \in Workers : v # w => pc'[v] = pc[v] /\ job'[v] = job[v]
  BY DEF Fail, AddRateLimited, Goto, WorkerTypeOK
<1>2. CASE app[a].live \/ events[a] # <<>>
  BY <1>2 DEF KeepsApps, AnswersFor
<1>3. CASE \E i \in waiting \cup dirty : i.app = a
  BY <1>1, <1>3 DEF AnswersFor
<1>4. ASSUME NEW v \in Workers, Sees(v, a, o)
      PROVE  AnswersFor(a, o)'
  <2>1. CASE v = w
    <3>1. task[w] \in waiting' /\ task[w].app = a
      BY <1>1, <1>4, <2>1 DEF Sees
    <3>2. QED
      BY <3>1 DEF AnswersFor
  <2>2. CASE v # w
    <3>1. Sees(v, a, o)'
      BY <1>1, <1>4, <2>2 DEF Sees
    <3>2. QED
      BY <3>1 DEF AnswersFor
  <2>3. QED
    BY <2>1, <2>2
<1>5. QED
  BY <1>2, <1>3, <1>4 DEF AnswersFor

(* A step of worker w keeps the answers of which it does not take away. *)
LEMMA OthersKeep ==
  ASSUME KeepsApps, NEW w \in Workers,
         waiting \cup dirty \subseteq waiting' \cup dirty',
         \A v \in Workers : v # w =>
           pc'[v] = pc[v] /\ job'[v] = job[v] /\ task'[v] = task[v],
         NEW a \in Apps, NEW o, AnswersFor(a, o),
         Sees(w, a, o) => AnswersFor(a, o)'
  PROVE  AnswersFor(a, o)'
<1>1. CASE app[a].live \/ events[a] # <<>>
  BY <1>1 DEF KeepsApps, AnswersFor
<1>2. CASE \E i \in waiting \cup dirty : i.app = a
  BY <1>2 DEF AnswersFor
<1>3. ASSUME NEW v \in Workers, v # w, Sees(v, a, o)
      PROVE  AnswersFor(a, o)'
  <2>1. Sees(v, a, o)'
    BY <1>3 DEF Sees
  <2>2. QED
    BY <2>1 DEF AnswersFor
<1>4. QED
  BY <1>1, <1>2, <1>3 DEF AnswersFor

(* A worker that goes on to create, or to list, keeps answering. *)
LEMMA ContinueKeeps ==
  ASSUME WorkerTypeOK, KeepsApps, NEW w \in Workers,
         NEW l \in {"list_delete"} \cup CreatePath, NEW j, Continue(w, l, j),
         NEW a \in Apps, NEW o, AnswersFor(a, o)
  PROVE  AnswersFor(a, o)'
<1>1. /\ UNCHANGED <<waiting, dirty, task>> /\ pc'[w] = l
      /\ \A v \in Workers : v # w => pc'[v] = pc[v] /\ job'[v] = job[v]
  BY DEF Continue, Goto, WorkerTypeOK, queueVars
<1>2. Sees(w, a, o) => Sees(w, a, o)'
  BY <1>1 DEF Sees
<1>3. Sees(w, a, o)' => AnswersFor(a, o)'
  BY DEF AnswersFor
<1>4. QED
  BY <1>1, <1>2, <1>3, OthersKeep

(* A worker that was not going to see the object any more may finish. *)
LEMMA FinishKeeps ==
  ASSUME WorkerTypeOK, KeepsApps, NEW w \in Workers, Succeed(w),
         NEW a \in Apps, NEW o, AnswersFor(a, o), ~ Sees(w, a, o)
  PROVE  AnswersFor(a, o)'
<1>1. /\ UNCHANGED <<waiting, dirty>>
      /\ \A v \in Workers : v # w =>
           pc'[v] = pc[v] /\ job'[v] = job[v] /\ task'[v] = task[v]
  BY DEF Succeed, Finish, Done, Goto, WorkerTypeOK
<1>2. QED
  BY <1>1, OthersKeep

(* The calls of worker w up to the diff, with whatever they read. *)
LEMMA AnsweredLookUp ==
  ASSUME TypeOK, NEW w \in Workers, KeepsApps,
         \/ GetItem(w) \/ LookUp(w) \/ WriteProgressing(w) \/ CloneOrFetch(w)
         \/ Checkout(w) \/ GenerateManifests(w) \/ ListAndDiff(w),
         NEW a \in Apps, NEW o, AnswersFor(a, o)
  PROVE  AnswersFor(a, o)'
<1>1. WorkerTypeOK /\ queue \in Seq(Items)
  BY DEF TypeOK, QueueTypeOK
<1>2. CASE GetItem(w)
  <2> DEFINE h == Head(queue)
  <2>1. /\ pc[w] = "idle" /\ pc'[w] = "lookup" /\ task'[w] = h
        /\ waiting' = waiting /\ dirty' = dirty \ {h}
        /\ \A v \in Workers : v # w =>
             pc'[v] = pc[v] /\ job'[v] = job[v] /\ task'[v] = task[v]
    BY <1>1, <1>2 DEF GetItem, Get, Goto, WorkerTypeOK
  <2>2. CASE app[a].live \/ events[a] # <<>>
    BY <2>2 DEF KeepsApps, AnswersFor
  <2>3. ASSUME NEW i \in waiting \cup dirty, i.app = a
        PROVE  AnswersFor(a, o)'
    <3>1. CASE i = h
      <4>1. Sees(w, a, o)'
        BY <2>1, <2>3, <3>1 DEF Sees
      <4>2. QED
        BY <4>1 DEF AnswersFor
    <3>2. CASE i # h
      <4>1. i \in waiting' \cup dirty'
        BY <2>1, <2>3, <3>2
      <4>2. QED
        BY <2>3, <4>1 DEF AnswersFor
    <3>3. QED
      BY <3>1, <3>2
  <2>4. ASSUME NEW v \in Workers, Sees(v, a, o)
        PROVE  AnswersFor(a, o)'
    <3>1. v # w
      BY <2>1, <2>4 DEF Sees, CreatePath
    <3>2. Sees(v, a, o)'
      BY <2>1, <2>4, <3>1 DEF Sees
    <3>3. QED
      BY <3>2 DEF AnswersFor
  <2>5. QED
    BY <2>2, <2>3, <2>4 DEF AnswersFor
<1>3. CASE LookUp(w)
  BY <1>1, <1>3, ContinueKeeps DEF LookUp, CreatePath
<1>4. CASE WriteProgressing(w)
  BY <1>1, <1>4, ContinueKeeps, FailKeeps DEF WriteProgressing, CreatePath
<1>5. CASE CloneOrFetch(w)
  BY <1>1, <1>5, ContinueKeeps, FailKeeps DEF CloneOrFetch, CreatePath
<1>6. CASE Checkout(w)
  BY <1>1, <1>6, ContinueKeeps, FailKeeps DEF Checkout, CreatePath
<1>7. CASE GenerateManifests(w)
  BY <1>1, <1>7, ContinueKeeps, FailKeeps DEF GenerateManifests, CreatePath
<1>8. CASE ListAndDiff(w)
  BY <1>1, <1>8, ContinueKeeps DEF ListAndDiff, CreateFrom, CreatePath
<1>9. QED
  BY <1>2, <1>3, <1>4, <1>5, <1>6, <1>7, <1>8

(* A list that misses nothing finds every object with the label. *)
LEMMA FullListing ==
  ASSUME spent \in [Trouble -> Nat], Calm', NEW n, NEW found,
         GetResourceWithLabel(n, found)
  PROVE  found = Labelled(n)
BY SpentGrows DEF GetResourceWithLabel, Calm, Trouble

(* A cleanup answers for what it has listed until it has deleted it. *)
LEMMA AnsweredDelete ==
  ASSUME TypeOK, NEW w \in Workers, KeepsApps, Calm',
         ListForDelete(w) \/ DeleteResource(w) \/ CleanUp(w),
         NEW a \in Apps, NEW o \in cluster', NameOf[a] = o.label, AnswersFor(a, o)
  PROVE  AnswersFor(a, o)'
<1>1. WorkerTypeOK /\ spent \in [Trouble -> Nat]
  BY DEF TypeOK
<1>2. ASSUME NEW doomed, DeleteFrom(w, doomed), Sees(w, a, o) => o.place \in doomed
      PROVE  AnswersFor(a, o)'
  <2>1. /\ UNCHANGED <<waiting, dirty, task>>
        /\ \A v \in Workers : v # w => pc'[v] = pc[v] /\ job'[v] = job[v]
    BY <1>1, <1>2 DEF DeleteFrom, Continue, Goto, WorkerTypeOK, queueVars
  <2>2. ASSUME Sees(w, a, o) PROVE AnswersFor(a, o)'
    <3>1. doomed # {} /\ o.place \in doomed /\ task[w].app = a
      BY <1>2, <2>2 DEF Sees
    <3>2. pc'[w] = "delete" /\ job'[w] = [NoJob EXCEPT !.doomed = doomed]
      BY <1>1, <1>2, <3>1 DEF DeleteFrom, Continue, Goto, WorkerTypeOK
    <3>3. Sees(w, a, o)'
      BY <2>1, <3>1, <3>2 DEF Sees, NoJob
    <3>4. QED
      BY <3>3 DEF AnswersFor
  <2>3. QED
    BY <2>1, <2>2, OthersKeep
<1>3. CASE ListForDelete(w)
  <2>1. PICK found : /\ GetResourceWithLabel(NameOf[task[w].app], found)
                     /\ DeleteFrom(w, {x.place : x \in found})
    BY <1>3 DEF ListForDelete
  <2>2. found = Labelled(NameOf[task[w].app])
    BY <1>1, <2>1, FullListing
  <2>3. o \in cluster
    BY <1>3 DEF ListForDelete
  <2>4. Sees(w, a, o) => o.place \in {x.place : x \in found}
    BY <2>2, <2>3 DEF Sees, Labelled
  <2>5. QED
    BY <1>2, <2>1, <2>4
<1>4. CASE DeleteResource(w)
  <2>1. PICK p \in job[w].doomed :
          \/ /\ cluster' = {x \in cluster : x.place # p}
             /\ DeleteFrom(w, job[w].doomed \ {p})
          \/ Fail(w)
    BY <1>4 DEF DeleteResource
  <2>2. CASE Fail(w)
    BY <1>1, <2>2, FailKeeps
  <2>3. CASE /\ cluster' = {x \in cluster : x.place # p}
             /\ DeleteFrom(w, job[w].doomed \ {p})
    <3>1. Sees(w, a, o) => o.place \in job[w].doomed \ {p}
      BY <1>4, <2>3 DEF Sees, DeleteResource, CreatePath
    <3>2. QED
      BY <1>2, <2>3, <3>1
  <2>4. QED
    BY <2>1, <2>2, <2>3
<1>5. CASE CleanUp(w)
  BY <1>1, <1>5, FinishKeeps, FailKeeps DEF CleanUp, Sees, CreatePath
<1>6. QED
  BY <1>3, <1>4, <1>5

(* A reconciliation answers for what it creates, and a live Application *)
(* for what it finds when it is done.                                   *)
LEMMA AnsweredCreate ==
  ASSUME TypeOK, NEW w \in Workers, KeepsApps,
         CreateResource(w) \/ WriteHealthy(w),
         NEW a \in Apps, NEW o, AnswersFor(a, o) \/ (CreateResource(w) /\ a = task[w].app)
  PROVE  AnswersFor(a, o)'
<1>1. WorkerTypeOK
  BY DEF TypeOK
<1>2. CreateResource(w) /\ a = task[w].app => AnswersFor(a, o)
  BY DEF CreateResource, AnswersFor, Sees, CreatePath
<1>3. CASE CreateResource(w)
  <2>1. Fail(w) \/ \E l \in CreatePath : \E j : Continue(w, l, j)
    BY <1>3 DEF CreateResource, CreateFrom, CreatePath
  <2>2. QED
    BY <1>1, <1>2, <1>3, <2>1, ContinueKeeps, FailKeeps
<1>4. CASE WriteHealthy(w)
  <2>1. AnswersFor(a, o)
    BY <1>2, <1>4 DEF CreateResource, WriteHealthy
  <2>2. CASE Fail(w)
    BY <1>1, <2>1, <2>2, FailKeeps
  <2>3. CASE Succeed(w) /\ ~ Sees(w, a, o)
    BY <1>1, <2>1, <2>3, FinishKeeps
  <2>4. CASE app[task[w].app].live /\ Sees(w, a, o)
    BY <2>4 DEF Sees, AnswersFor, KeepsApps
  <2>5. QED
    BY <1>4, <2>2, <2>3, <2>4 DEF WriteHealthy, updateAppStatus
<1>5. QED
  BY <1>3, <1>4

(* Reports of errors do not matter to the answers. *)
LEMMA AnsweredFailure ==
  ASSUME TypeOK, NEW w \in Workers, KeepsApps,
         DeferredDone(w) \/ WriteDegraded(w) \/ CallFails(w),
         NEW a \in Apps, NEW o, AnswersFor(a, o)
  PROVE  AnswersFor(a, o)'
<1>1. WorkerTypeOK
  BY DEF TypeOK
<1>2. CASE CallFails(w)
  BY <1>1, <1>2, FailKeeps DEF CallFails
<1>3. CASE DeferredDone(w) \/ WriteDegraded(w)
  <2>1. ~ Sees(w, a, o)
    BY <1>3 DEF DeferredDone, WriteDegraded, Sees, CreatePath
  <2>2. /\ UNCHANGED <<waiting, dirty>>
        /\ \A v \in Workers : v # w =>
             pc'[v] = pc[v] /\ job'[v] = job[v] /\ task'[v] = task[v]
    BY <1>1, <1>3 DEF DeferredDone, WriteDegraded, Done, Goto, WorkerTypeOK, queueVars
  <2>3. QED
    BY <2>1, <2>2, OthersKeep
<1>4. QED
  BY <1>2, <1>3

(* A calm step starts in a calm state, and is no crash and no panic. *)
LEMMA CalmStep ==
  ASSUME TypeOK, NoTombstones, [Next]_vars, Calm'
  PROVE  Calm /\ ~ Relist /\ ~ Crash /\ \A w \in Workers : ~ Panic(w)
<1>1. spent \in [Trouble -> Nat]
  BY DEF TypeOK
<1>2. UNCHANGED spent \/ \E t \in Trouble : Spend(t)
  BY WorkerSpends DEF Next, User, CreateApplication, UpdateSpec, DeleteApplication,
     Commit, Deliver, DelayOver, Relist, Crash, Trouble, vars
<1>3. Calm
  BY <1>1, <1>2, SpentGrows DEF Calm, Trouble
<1>4. ~ Relist /\ ~ Crash
  BY <1>1, SpentGrows DEF Relist, Crash, Calm, Trouble
<1>5. \A w \in Workers : ~ Panic(w)
  BY <1>3 DEF Panic, Calm, NoTombstones
<1>6. QED
  BY <1>3, <1>4, <1>5

(* Answered is inductive, with the two invariants about events. *)
LEMMA AnsweredNext == TypeOK /\ OrphanInv /\ [Next]_vars => Answered'
<1> SUFFICES ASSUME TypeOK, OrphanInv, [Next]_vars, Calm', NEW o \in cluster'
             PROVE  \E a \in Apps : NameOf[a] = o.label /\ AnswersFor(a, o)'
  BY DEF Answered, AnswersFor, Sees
<1>1. Calm /\ ~ Relist /\ ~ Crash /\ \A w \in Workers : ~ Panic(w)
  BY CalmStep DEF OrphanInv
<1>2. /\ Answered /\ EventsEndRight
      /\ app \in [Apps -> AppStates] /\ events \in [Apps -> Seq(Events)]
  BY DEF OrphanInv, TypeOK, StoreTypeOK, InformerTypeOK
<1>3. ASSUME o \in cluster
      PROVE  \E a \in Apps : NameOf[a] = o.label /\ AnswersFor(a, o)
  BY <1>1, <1>2, <1>3 DEF Answered
<1>4. ASSUME NEW b \in Apps, UNCHANGED <<cluster, waiting, dirty, workerVars>>,
             \A a \in Apps : a # b => app'[a] = app[a] /\ events'[a] = events[a],
             app'[b].live \/ events'[b] # <<>>
      PROVE  \E a \in Apps : NameOf[a] = o.label /\ AnswersFor(a, o)'
  <2>1. PICK a \in Apps : NameOf[a] = o.label /\ AnswersFor(a, o)
    BY <1>3, <1>4
  <2>2. CASE a = b
    BY <1>4, <2>1, <2>2 DEF AnswersFor
  <2>3. CASE a # b
    BY <1>4, <2>1, <2>3 DEF AnswersFor, Sees, workerVars
  <2>4. QED
    BY <2>1, <2>2, <2>3
<1>5. ASSUME NEW b \in Apps, NEW s \in Specs,
             CreateApplication(b, s) \/ UpdateSpec(b, s)
      PROVE  \E a \in Apps : NameOf[a] = o.label /\ AnswersFor(a, o)'
  <2>1. /\ app'[b].live
        /\ \A a \in Apps : a # b => app'[a] = app[a] /\ events'[a] = events[a]
    BY <1>2, <1>5 DEF CreateApplication, UpdateSpec, AppStates
  <2>2. QED
    BY <1>4, <1>5, <2>1 DEF CreateApplication, UpdateSpec, queueVars, workerVars
<1>6. ASSUME NEW b \in Apps, DeleteApplication(b)
      PROVE  \E a \in Apps : NameOf[a] = o.label /\ AnswersFor(a, o)'
  <2> DEFINE e == [kind |-> "delete", ver |-> app[b].ver + 1, spec |-> app[b].spec]
  <2>1. /\ events'[b] = Append(events[b], e)
        /\ \A a \in Apps : a # b => app'[a] = app[a] /\ events'[a] = events[a]
    BY <1>2, <1>6 DEF DeleteApplication
  <2>2. events'[b] # <<>>
    <3>1. events[b] \in Seq(Events \cup {e})
      BY <1>2
    <3>2. QED
      BY <2>1, <3>1, AppendElements
  <2>3. QED
    BY <1>4, <1>6, <2>1, <2>2 DEF DeleteApplication, queueVars, workerVars
<1>7. ASSUME NEW b \in Apps, Deliver(b)
      PROVE  \E a \in Apps : NameOf[a] = o.label /\ AnswersFor(a, o)'
  <2> DEFINE e == Head(events[b])
  <2>1. /\ UNCHANGED <<app, cluster, dirty, workerVars>> /\ waiting \subseteq waiting'
        /\ events[b] # <<>> /\ events'[b] = Tail(events[b])
        /\ \A a \in Apps : a # b => events'[a] = events[a]
        /\ e.kind # "set" => Item(b, e) \in waiting'
    BY <1>2, <1>7 DEF Deliver, handleAdd, handleUdate, handleDelete, AddRateLimited,
       queueVars
  <2>2. PICK a \in Apps : NameOf[a] = o.label /\ AnswersFor(a, o)
    BY <1>3, <2>1
  <2>3. CASE a # b \/ app[a].live \/ events[a] = <<>> \/ events'[a] # <<>>
    BY <2>1, <2>2, <2>3 DEF AnswersFor, Sees, workerVars
  <2>4. CASE a = b /\ ~ app[b].live /\ events'[b] = <<>>
    <3>1. Len(events[b]) = 1 /\ e = events[b][1]
      <4>1. /\ events[b] \in Seq(Events) /\ Tail(events[b]) = <<>>
            /\ events[b] # <<>>
        BY <1>2, <2>1, <2>4
      <4>2. Len(<<>>) = 0 /\ Len(events[b]) \in Nat
        BY <4>1
      <4>3. Len(Tail(events[b])) = Len(events[b]) - 1 /\ e = events[b][1]
        BY <4>1, TailElements
      <4>4. Len(Tail(events[b])) = Len(<<>>)
        BY <4>1, Zenon
      <4>5. QED
        BY <4>2, <4>3, <4>4
    <3>2. e.kind # "set"
      BY <1>2, <2>1, <2>4, <3>1 DEF EventsEndRight
    <3>3. Item(b, e) \in waiting' /\ Item(b, e).app = b
      BY <2>1, <3>2 DEF Item
    <3>4. QED
      BY <2>2, <2>4, <3>3 DEF AnswersFor
  <2>5. QED
    BY <2>1, <2>3, <2>4
<1>8. CASE \/ UNCHANGED vars \/ \E i \in waiting : DelayOver(i)
           \/ \E r \in Repos : Commit(r)
  <2>1. /\ UNCHANGED <<app, cluster, events, workerVars>>
        /\ waiting' \cup dirty' = waiting \cup dirty
    BY <1>8 DEF vars, DelayOver, Ready, Commit, informerVars, queueVars
  <2>2. QED
    BY <1>3, <2>1 DEF AnswersFor, Sees, workerVars
<1>9. ASSUME NEW w \in Workers, Worker(w) \/ CallFails(w)
      PROVE  \E a \in Apps : NameOf[a] = o.label /\ AnswersFor(a, o)'
  <2>1. KeepsApps
    BY <1>1, <1>9, WorkerFrame DEF KeepsApps
  <2>2. ASSUME o \in cluster
        PROVE  \E a \in Apps : NameOf[a] = o.label /\ AnswersFor(a, o)'
    <3>1. PICK a \in Apps : NameOf[a] = o.label /\ AnswersFor(a, o)
      BY <1>3, <2>2
    <3>2. AnswersFor(a, o)'
      BY <1>1, <1>9, <2>1, <3>1, AnsweredLookUp, AnsweredDelete, AnsweredCreate,
         AnsweredFailure DEF Worker
    <3>3. QED
      BY <3>1, <3>2
  <2>3. ASSUME o \notin cluster
        PROVE  \E a \in Apps : NameOf[a] = o.label /\ AnswersFor(a, o)'
    <3>1. CreateResource(w) /\ o.label = NameOf[task[w].app]
      <4>1. CASE CreateResource(w)
        <5>1. PICK r \in job[w].todo :
                cluster' \subseteq cluster \cup
                  {[place |-> Place(task[w].app, r), label |-> NameOf[task[w].app],
                    body |-> job[w].gen[r]]}
          BY <4>1 DEF CreateResource
        <5>2. QED
          BY <2>3, <4>1, <5>1
      <4>2. CASE DeleteResource(w)
        BY <2>3, <4>2 DEF DeleteResource
      <4>3. CASE GetItem(w) \/ LookUp(w) \/ WriteProgressing(w) \/ CloneOrFetch(w)
                 \/ Checkout(w) \/ GenerateManifests(w) \/ ListAndDiff(w)
        BY <2>3, <4>3 DEF GetItem, LookUp, WriteProgressing, CloneOrFetch, Checkout,
           GenerateManifests, ListAndDiff
      <4>4. CASE WriteHealthy(w) \/ DeferredDone(w) \/ WriteDegraded(w)
                 \/ ListForDelete(w) \/ CleanUp(w) \/ CallFails(w)
        BY <2>3, <4>4 DEF WriteHealthy, DeferredDone, WriteDegraded, ListForDelete,
           CleanUp, CallFails
      <4>5. QED
        BY <1>1, <1>9, <4>1, <4>2, <4>3, <4>4 DEF Worker
    <3>2. task[w].app \in Apps
      BY DEF TypeOK, WorkerTypeOK, Items
    <3>3. QED
      BY <2>1, <3>1, <3>2, AnsweredCreate
  <2>4. QED
    BY <2>2, <2>3
<1>10. QED
  BY SpecsAssumption, <1>1, <1>5, <1>6, <1>7, <1>8, <1>9 DEF Next, User

(* The invariant holds at the start, and says what NoOrphans says. *)
LEMMA OrphanInit == Init => OrphanInv
BY DEF Init, QueueInit, NoItem, OrphanInv, Answered, EventsEndRight, NoTombstones

(* What somebody answers for is not an orphan. *)
LEMMA OrphanImplies == OrphanInv => NoOrphans
<1> SUFFICES ASSUME OrphanInv, Calm, NEW o \in cluster
             PROVE  \E a \in Apps : NameOf[a] = o.label /\ (app[a].live \/ ~ AtRest(a))
  BY DEF NoOrphans
<1>1. PICK a \in Apps : NameOf[a] = o.label /\ AnswersFor(a, o)
  BY DEF OrphanInv, Answered
<1>2. app[a].live \/ ~ AtRest(a)
  BY <1>1 DEF AnswersFor, AtRest, Sees, CreatePath
<1>3. QED
  BY <1>1, <1>2

(***************************************************************************)
(* No orphans: for any number of workers, any Applications (even of one    *)
(* name) and any number of failing calls and lost answers, an object whose *)
(* Application is gone is still owed a cleanup.  It takes a crash, a       *)
(* relist or a partial listing to orphan an object.                        *)
(***************************************************************************)
THEOREM NoOrphansEver == Spec => []NoOrphans
<1>1. TypeOK /\ OrphanInv /\ [Next]_vars => OrphanInv'
  BY AnsweredNext, EventsEndRightNext, NoTombstonesNext DEF OrphanInv
<1>2. QED
  BY <1>1, TypeCorrect, OrphanInit, OrphanImplies, PTL DEF Spec

-----------------------------------------------------------------------------
(***************************************************************************)
(* No item in two hands.                                                   *)
(***************************************************************************)

(* Worker w has an item it has not called Done for. *)
Holds(w) == pc[w] \notin {"idle", "degrade"}

Queued == {queue[k] : k \in DOMAIN queue}

(* Appending an item that is not queued keeps the queue without repetition. *)
LEMMA AppendQueued ==
  ASSUME queue \in Seq(Items), NEW i \in Items, i \notin Queued,
         \A j, k \in DOMAIN queue : queue[j] = queue[k] => j = k,
         queue' = Append(queue, i)
  PROVE  /\ Queued' = Queued \cup {i}
         /\ \A j, k \in DOMAIN queue' : queue'[j] = queue'[k] => j = k
<1>1. /\ DOMAIN queue' = DOMAIN queue \cup {Len(queue) + 1}
      /\ \A k \in DOMAIN queue : queue'[k] = queue[k]
      /\ queue'[Len(queue) + 1] = i
  BY AppendElements
<1>2. Queued' = Queued \cup {i}
  BY <1>1 DEF Queued
<1>3. ASSUME NEW j \in DOMAIN queue', NEW k \in DOMAIN queue', queue'[j] = queue'[k]
      PROVE  j = k
  BY <1>1, <1>3 DEF Queued
<1>4. QED
  BY <1>2, <1>3

(* Taking the head takes exactly that item. *)
LEMMA TailQueued ==
  ASSUME queue \in Seq(Items), queue # <<>>,
         \A j, k \in DOMAIN queue : queue[j] = queue[k] => j = k,
         queue' = Tail(queue)
  PROVE  /\ Head(queue) \in Queued /\ Queued' = Queued \ {Head(queue)}
         /\ \A j, k \in DOMAIN queue' : queue'[j] = queue'[k] => j = k
<1>1. /\ 1 \in DOMAIN queue /\ Head(queue) = queue[1]
      /\ queue' \in Seq(Items) /\ Len(queue') = Len(queue) - 1
      /\ \A k \in DOMAIN queue' : k + 1 \in DOMAIN queue /\ queue'[k] = queue[k + 1]
  BY TailElements
<1>2. /\ \A k \in DOMAIN queue' : k \in Nat /\ k # 0
      /\ \A k \in DOMAIN queue : k # 1 => k - 1 \in DOMAIN queue'
  BY <1>1
<1>3. Head(queue) \in Queued
  BY <1>1 DEF Queued
<1>4. Queued' \subseteq Queued \ {Head(queue)}
  <2>1. ASSUME NEW k \in DOMAIN queue' PROVE queue'[k] \in Queued \ {Head(queue)}
    <3>1. k + 1 # 1 /\ k + 1 \in DOMAIN queue /\ queue'[k] = queue[k + 1]
      BY <1>1, <1>2, <2>1
    <3>2. QED
      BY <1>1, <3>1 DEF Queued
  <2>2. QED
    BY <2>1 DEF Queued
<1>5. Queued \ {Head(queue)} \subseteq Queued'
  <2>1. ASSUME NEW k \in DOMAIN queue, queue[k] # Head(queue) PROVE queue[k] \in Queued'
    <3>1. k - 1 \in DOMAIN queue' /\ k \in Nat
      BY <1>1, <1>2, <2>1
    <3>2. queue'[k - 1] = queue[k]
      BY <1>1, <3>1
    <3>3. QED
      BY <3>1, <3>2 DEF Queued
  <2>2. QED
    BY <2>1 DEF Queued
<1>6. ASSUME NEW j \in DOMAIN queue', NEW k \in DOMAIN queue', queue'[j] = queue'[k]
      PROVE  j = k
  <2>1. j + 1 = k + 1
    BY <1>1, <1>6
  <2>2. QED
    BY <1>2, <2>1
<1>7. QED
  BY <1>3, <1>4, <1>5, <1>6

(* The parts of ItemExclusive, with the names above. *)
LEMMA ExclusiveParts ==
  ItemExclusive <=>
    /\ Queued = dirty \ processing
    /\ \A j, k \in DOMAIN queue : queue[j] = queue[k] => j = k
    /\ \A w \in Workers : Holds(w) =>
         /\ task[w] \in processing
         /\ \A v \in Workers : v # w /\ Holds(v) => task[v] # task[w]
BY DEF ItemExclusive, Queued, Holds

(* A worker that calls Done, and holds nothing any more. *)
LEMMA DoneExclusive ==
  ASSUME TypeOK, ItemExclusive, NEW w \in Workers, Holds(w), Done(task[w]),
         ~ Holds(w)', \A v \in Workers : v # w => pc'[v] = pc[v] /\ task'[v] = task[v]
  PROVE  ItemExclusive'
<1> DEFINE i == task[w]
<1>1. /\ i \in processing /\ i \in Items /\ i \notin Queued /\ queue \in Seq(Items)
      /\ processing' = processing \ {i} /\ dirty' = dirty
  BY ExclusiveParts DEF TypeOK, WorkerTypeOK, QueueTypeOK, Done
<1>2. /\ Queued' = dirty' \ processing'
      /\ \A j, k \in DOMAIN queue' : queue'[j] = queue'[k] => j = k
  <2>1. CASE i \in dirty
    BY <1>1, <2>1, AppendQueued, ExclusiveParts DEF Done
  <2>2. CASE i \notin dirty
    <3>1. queue' = queue /\ Queued' = Queued
      BY <2>2 DEF Done, Queued
    <3>2. QED
      BY <1>1, <2>2, <3>1, ExclusiveParts
  <2>3. QED
    BY <2>1, <2>2
<1>3. ASSUME NEW v \in Workers, Holds(v)'
      PROVE  /\ task'[v] \in processing'
             /\ \A u \in Workers : u # v /\ Holds(u)' => task'[u] # task'[v]
  <2>1. \A u \in Workers : Holds(u)' =>
          u # w /\ Holds(u) /\ task'[u] = task[u]
    BY DEF Holds
  <2>2. QED
    BY <1>1, <1>3, <2>1, ExclusiveParts
<1>4. QED
  BY <1>2, <1>3, ExclusiveParts DEF ItemExclusive, Queued, Holds

(* A worker that keeps its item, or keeps having none. *)
LEMMA KeepExclusive ==
  ASSUME ItemExclusive, UNCHANGED <<queue, dirty, processing>>,
         \A v \in Workers : Holds(v)' => Holds(v) /\ task'[v] = task[v]
  PROVE  ItemExclusive'
BY DEF ItemExclusive, Holds

(* The delay of an item is over, perhaps while it is being processed. *)
LEMMA ReadyExclusive ==
  ASSUME TypeOK, ItemExclusive, NEW i \in waiting, DelayOver(i)
  PROVE  ItemExclusive'
<1>1. /\ i \in Items /\ queue \in Seq(Items)
      /\ dirty' = dirty \cup {i} /\ processing' = processing
      /\ \A v \in Workers : (Holds(v)' <=> Holds(v)) /\ task'[v] = task[v]
  BY DEF TypeOK, QueueTypeOK, DelayOver, Ready, Holds, workerVars
<1>2. /\ Queued' = dirty' \ processing'
      /\ \A j, k \in DOMAIN queue' : queue'[j] = queue'[k] => j = k
  <2>1. CASE i \in dirty \cup processing
    <3>1. queue' = queue /\ Queued' = Queued
      BY <2>1 DEF DelayOver, Ready, Queued
    <3>2. QED
      BY <1>1, <2>1, <3>1, ExclusiveParts
  <2>2. CASE i \notin dirty \cup processing
    <3>1. queue' = Append(queue, i) /\ i \notin Queued
      BY <2>2, ExclusiveParts DEF DelayOver, Ready
    <3>2. QED
      BY <1>1, <2>2, <3>1, AppendQueued, ExclusiveParts
  <2>3. QED
    BY <2>1, <2>2
<1>3. \A w \in Workers : Holds(w)' =>
        /\ task'[w] \in processing'
        /\ \A v \in Workers : v # w /\ Holds(v)' => task'[v] # task'[w]
  BY <1>1, ExclusiveParts
<1>4. QED
  BY <1>2, <1>3 DEF ItemExclusive, Queued, Holds

(* A worker gets an item that no other worker holds. *)
LEMMA GetExclusive ==
  ASSUME TypeOK, ItemExclusive, NEW w \in Workers, GetItem(w)
  PROVE  ItemExclusive'
<1> DEFINE h == Head(queue)
<1>1. /\ queue \in Seq(Items) /\ queue # <<>> /\ queue' = Tail(queue)
      /\ dirty' = dirty \ {h} /\ processing' = processing \cup {h}
      /\ task'[w] = h
      /\ \A v \in Workers : v # w => pc'[v] = pc[v] /\ task'[v] = task[v]
  BY DEF TypeOK, QueueTypeOK, WorkerTypeOK, GetItem, Get, Goto
<1>2. /\ h \in Queued /\ Queued' = Queued \ {h}
      /\ \A j, k \in DOMAIN queue' : queue'[j] = queue'[k] => j = k
  BY <1>1, TailQueued, ExclusiveParts
<1>3. h \notin processing /\ Queued' = dirty' \ processing'
  BY <1>1, <1>2, ExclusiveParts
<1>4. ASSUME NEW u \in Workers, Holds(u)'
      PROVE  /\ task'[u] \in processing'
             /\ \A v \in Workers : v # u /\ Holds(v)' => task'[v] # task'[u]
  <2>1. \A v \in Workers : v # w /\ Holds(v)' =>
          Holds(v) /\ task'[v] = task[v] /\ task[v] \in processing
    BY <1>1, ExclusiveParts DEF Holds
  <2>2. CASE u = w
    BY <1>1, <1>3, <2>1, <2>2
  <2>3. CASE u # w
    BY <1>1, <1>3, <1>4, <2>1, <2>3, ExclusiveParts
  <2>4. QED
    BY <2>2, <2>3
<1>5. QED
  BY <1>2, <1>3, <1>4 DEF ItemExclusive, Queued, Holds

(* The other calls of a worker. *)
LEMMA WorkerExclusive ==
  ASSUME TypeOK, ItemExclusive, NEW w \in Workers, Worker(w) \/ CallFails(w),
         ~ Panic(w), ~ GetItem(w)
  PROVE  ItemExclusive'
<1>1. WorkerTypeOK
  BY DEF TypeOK
<1>2. ASSUME Fail(w), Holds(w) PROVE ItemExclusive'
  BY <1>1, <1>2, KeepExclusive DEF Fail, AddRateLimited, Goto, Holds, WorkerTypeOK
<1>3. ASSUME NEW l, NEW j, Continue(w, l, j), Holds(w) PROVE ItemExclusive'
  BY <1>1, <1>3, KeepExclusive DEF Continue, Goto, Holds, WorkerTypeOK, queueVars
<1>4. ASSUME Succeed(w), Holds(w) PROVE ItemExclusive'
  <2>1. /\ Done(task[w]) /\ ~ Holds(w)'
        /\ \A v \in Workers : v # w => pc'[v] = pc[v] /\ task'[v] = task[v]
    BY <1>1, <1>4 DEF Succeed, Finish, Goto, Holds, WorkerTypeOK
  <2>2. QED
    BY <1>4, <2>1, DoneExclusive
<1>5. CASE DeferredDone(w)
  <2>1. /\ Done(task[w]) /\ Holds(w) /\ ~ Holds(w)'
        /\ \A v \in Workers : v # w => pc'[v] = pc[v] /\ task'[v] = task[v]
    BY <1>1, <1>5 DEF DeferredDone, Goto, Holds, WorkerTypeOK
  <2>2. QED
    BY <2>1, DoneExclusive
<1>6. CASE WriteDegraded(w)
  BY <1>1, <1>6, KeepExclusive DEF WriteDegraded, Goto, Holds, WorkerTypeOK, queueVars
<1>7. CASE LookUp(w) \/ WriteProgressing(w) \/ CloneOrFetch(w) \/ Checkout(w)
           \/ GenerateManifests(w)
  BY <1>2, <1>3, <1>7 DEF LookUp, WriteProgressing, CloneOrFetch, Checkout,
     GenerateManifests, Holds
<1>8. CASE ListAndDiff(w) \/ CreateResource(w)
  BY <1>2, <1>3, <1>8 DEF ListAndDiff, CreateResource, CreateFrom, Holds
<1>9. CASE WriteHealthy(w) \/ CleanUp(w)
  BY <1>2, <1>4, <1>9 DEF WriteHealthy, CleanUp, Holds
<1>10. CASE ListForDelete(w) \/ DeleteResource(w)
  BY <1>2, <1>3, <1>10 DEF ListForDelete, DeleteResource, DeleteFrom, Holds
<1>11. CASE CallFails(w)
  BY <1>2, <1>11 DEF CallFails, Holds, CreatePath, DeletePath
<1>12. QED
  BY <1>5, <1>6, <1>7, <1>8, <1>9, <1>10, <1>11 DEF Worker

(* ItemExclusive is inductive. *)
LEMMA ItemExclusiveNext == TypeOK /\ ItemExclusive /\ [Next]_vars => ItemExclusive'
<1> SUFFICES ASSUME TypeOK, ItemExclusive, [Next]_vars PROVE ItemExclusive'
  OBVIOUS
<1>1. ASSUME UNCHANGED <<queue, dirty, processing, workerVars>>
      PROVE  ItemExclusive'
  BY <1>1 DEF ItemExclusive, workerVars
<1>2. ASSUME NEW a \in Apps, Deliver(a)
      PROVE  ItemExclusive'
  BY <1>1, <1>2 DEF Deliver, handleAdd, handleUdate, handleDelete, AddRateLimited,
     queueVars
<1>3. CASE User \/ Relist \/ UNCHANGED vars
  BY <1>1, <1>3 DEF User, CreateApplication, UpdateSpec, DeleteApplication, Commit,
     Relist, vars, queueVars
<1>4. ASSUME Restart
      PROVE  ItemExclusive'
  BY <1>4 DEF Restart, QueueReset, ItemExclusive
<1>5. ASSUME NEW w \in Workers, Worker(w) \/ CallFails(w)
      PROVE  ItemExclusive'
  BY <1>4, <1>5, GetExclusive, WorkerExclusive DEF Panic
<1>6. QED
  BY <1>2, <1>3, <1>4, <1>5, ReadyExclusive DEF Next, Crash

(***************************************************************************)
(* No two workers ever process the same item, though an error queues the   *)
(* item again before its Done; and no item is queued twice.                *)
(***************************************************************************)
THEOREM ItemExclusiveEver == Spec => []ItemExclusive
<1>1. Init => ItemExclusive
  BY DEF Init, QueueInit, ItemExclusive
<1>2. QED
  BY <1>1, ItemExclusiveNext, TypeCorrect, PTL DEF Spec

=============================================================================
