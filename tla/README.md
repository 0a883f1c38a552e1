# Verification of k8s-controller-pattern

TLA+ specifications of the programs of this repository, the TLC runs that model-check them
and TLAPS proofs of all the invariants and action properties they check. Definitions carry the names of the Go
functions they stand for; `PROJECT.json` maps each of them to the lines it translates. `Reconciler` is
a promise about the whole and translates no lines; `MissedUpdates` is a history.

## 1. Inventory

| Component | State it keeps | Operations | Hard part |
|---|---|---|---|
| GitOps controller `gitops/internal/controller/controller.go` | the work queue; per worker the locals of one reconciliation | `handleAdd/Udate/Delete`, `processNextItem`, `createResources`, `deleteResources` | two workers on one Application, retries, status written after the fact |
| Status writes `updateAppStatus` in the same file | none; the Application of the API server | get, update, retry on conflict | writers of one object, a bounded number of attempts |
| Cluster access `gitops/utils/kube/kube.go` | none of its own; the labelled objects of the API server | create, delete, list by label, diff, read manifests | goroutines that share a slice, partial listings, create that is not idempotent |
| Git access `gitops/utils/git/git.go` | clone directories under the temporary directory | `CloneOrFetch`, `Checkout`, `CleanUp` | a directory shared by workers and processes, a clone cut off, credentials |
| Informer (client-go) | its copy of the Applications, undelivered events | add, update and delete events, relist, tombstones | lost watches, merged events |
| Informer factory `gitops/pkg/informers/externalversions/factory.go` | informers by type, which are started, a mutex, a WaitGroup | `InformerFor`, `Start`, `Shutdown`, `WaitForCacheSync` | concurrent callers, a start that races a shutdown |
| Work queue (client-go) | queue, dirty, processing, waiting items, failure counts | `Get`, `Done`, `Forget`, `AddRateLimited` | an item queued again before it is done |
| Lifecycle `gitops/cmd/run.go`, `gitops/pkg/signals`, `example-controller/main.go`, `client-go/main.go` | the stop channel | start, cache sync, shutdown | signals at any moment, a sync that never ends |
| Example controller `example-controller/controller.go` | its own queue | expose a Deployment, clean up | half done work that no retry completes |
| Generated clients, listers, deep copies | none | requests, accessors | a lost answer |
| Mocks, manifests, logging, `api-machinery/` | none | none | none |

How they interact: users write Applications to the API server and commits to a Git server.
The informer watches the API server and calls the handlers, which put the **object pointer**
of the event in the queue, not a key. A worker takes an item, asks the API server for the
Application *now* stored under the name (not for what the event said), and either makes the
cluster follow the repository or removes every object with the label of that name. Workers
share the queue, the cluster, the status of the Application and the clone directory.

What makes the components correct:

- controller: no item is lost or held twice; what a deleted Application leaves is still owed
  a cleanup; an Application at rest has an outcome, and the outcome is true;
- handlers: an Application without an outcome is heard of, through broken watches and
  restarts, unless its events were lost and a list shows the spec that was known before;
- status writes: seen from outside one step, whatever others write meanwhile;
- listing: every object that was there all the time, once for each group that serves its kind;
- factory: one informer per type, run once; after a shutdown nothing runs;
- lifecycle: no work before the cache is filled, no end before a signal, an end after it;
- work queue: the rate limiter keeps no count for items that are gone;
- clone directories: none outlives its Application; what is read from one is what the
  status then names;
- example controller: a quiet Deployment has a Service and an Ingress, or neither when it is
  gone.

`PROJECT.json` lists under "hazards" where the code is exposed, with the properties for it.

## 2. Modules

| Module | Models |
|---|---|
| `WorkQueue` | the client-go rate limiting queue, as both controllers use it (external code) |
| `GitOpsController` | the GitOps controller with its informer, the API server, the clone directories and the Git servers; EXTENDS `WorkQueue` |
| `Reconciler` | abstract: what `GitOpsController` promises; it is shown to implement it |
| `MissedUpdates` | `GitOpsController` with a history of the Applications that a broken watch has hidden something of |
| `MCGitOps`, `MCRestarts` | small values of the constants of `GitOpsController`, and the same with the history |
| `GitOpsControllerProofs`, `GitOpsSettledProofs` | TLAPS theorems about `GitOpsController`: types, objects, queue; then what it leaves behind, and that it implements `Reconciler` |
| `StatusUpdate` | `updateAppStatus`, request by request |
| `AtomicStatus` | abstract: the one step `updateAppStatus` looks like; `StatusUpdate` is shown to implement it |
| `StatusUpdateProofs`, `ResourceListingProofs`, `GitClientProofs`, `InformerFactoryProofs`, `LifecycleProofs`, `ExampleControllerProofs` | TLAPS theorems about the modules they are named after |
| `ResourceListing`, `MCListing` | `GetResourceWithLabel` with its goroutines, `DiffResources`, the lookup of kinds and verbs, and a small instance |
| `GitClient` | clone, fetch, checkout, pull, walk and clean up, file by file |
| `InformerFactory` | the generated shared informer factory |
| `Lifecycle` | the process, from its start to its end, of three programs |
| `ExampleController`, `MCExample` | the example controller and its small instances; EXTENDS `WorkQueue` |

How they fit together: `GitOpsController` is the composition: queue, informer, workers,
status, cluster and clone directory in one state. It takes one step for each of
`updateAppStatus`, `GetResourceWithLabel`, `CloneOrFetch`, `Checkout`, `GenerateManifests`
and `CleanUp`. What happens inside
these steps is what `StatusUpdate`, `ResourceListing` and `GitClient` model, and their
properties are the reasons why one step is enough: `StatusUpdate` implements `AtomicStatus`;
a listing has everything that was there all the time, but for kinds that could not be listed
(`ListingIsExact`), which is why `ListAndDiff` and `ListForDelete` take the `cluster` of one
moment, or a part of it as the trouble "missed" (objects that come and go during one listing
are taken as they are at that moment); and a worker that is alone in the directory reads the
manifests of the hash it reports (`ManifestsAreOfHash`). `Lifecycle` has the queue as a length only, and adds what
`GitOpsController` leaves out: the start, the stop channel and the orderly end.

### GitOpsController

State and code:

| Variable | Code |
|---|---|
| `app` | the Application stored by the API server: live or not, a version, `Spec`, `Status.HealthStatus` and `Status.Revision` |
| `cluster` | the objects that carry the label `thongdepzai.cloud/app-instance`: place, label, body |
| `remote`, `clone` | the newest commit of each repository; what `os.TempDir()/<name>/<repository>` holds: nothing, a directory without a repository in it, or a commit |
| `events`, `cache` | the watch events under way to the handlers; the informer's copy |
| `queue`, `dirty`, `processing`, `waiting`, `failures` | the work queue, see `WorkQueue` |
| `pc`, `task`, `job` | per worker: the next call, the item, and the locals `app.Spec`, `sha`, `generatedResources` and what the loops have left |
| `spent` | how often each kind of trouble happened, for the bound `Budget` |

Every call that leaves the process is a step, so users, the informer, the other workers and
a crash may come between any two calls:

| `pc` | Action | Call |
|---|---|---|
| idle | `GetItem` | `queue.Get` |
| lookup | `LookUp` / `Panic` | `Applications(ns).Get`; a tombstone has no key and its error path casts it to `*Application` |
| progressing | `WriteProgressing` | `updateAppStatus(Progressing)` |
| clone, checkout, generate | `CloneOrFetch`, `Checkout`, `GenerateManifests` | the repository; `Checkout` fails for a revision that is no local branch of the clone (`HasBranch`), since a clone has only the default branch |
| list | `ListAndDiff` | `GetResourceWithLabel`, then `SetLabelsForResources` and `DiffResources` on local data |
| create | `CreateResource` | one `Create` per step |
| healthy | `WriteHealthy` | `updateAppStatus(Healthy, sha)`, then `Forget` and `Done` |
| list_delete, delete, cleanup | `ListForDelete`, `DeleteResource`, `CleanUp` | `deleteResources` |
| done, degrade | `DeferredDone`, `WriteDegraded` | after `AddRateLimited`: the deferred `Done`, then `updateAppStatus(Degraded)` with its error ignored |

`CallFails` lets any call fail before it has an effect; the actions that write have a branch
in which the write happens and its answer is lost. `Relist` breaks the watch, loses the
undelivered events and compares a new list with the cache (deletions become tombstones).
`Crash` and `Panic` start a new process: empty queue and cache, events for what is listed,
and clone directories that stay, are lost with the container, or, where a clone or a removal
was cut off (`CutOff`), have no repository in them. The same may come of a `CleanUp` while
another worker writes to the directory (`WrittenTo`): go-git makes the directories anew that
it writes to, and `RemoveAll` succeeds, or fails because the directory is not empty.

`MissedUpdates` adds the variable `missed`: the Applications whose lost events were followed by
a list that shows the spec in the informer's cache, for which `handleUdate` returns without
queueing anything. An Application leaves `missed` when a worker looks it up.

Abstractions: the version of an Application stands for its resource version and its UID (a
new creation and a new deletion are new objects); a manifest is a body with the part of it
that is under "spec"; the optimistic locking loop of `updateAppStatus` is one step, at the
update that is accepted (see `StatusUpdate`), and a loop that gives up is a failing call; status events and
resyncs are left out, as `handleUdate` does nothing for an unchanged spec; delays have no
length; a clone under way is not visible to another worker (that worker would fail and
retry, as in `CallFails`); reading the manifests is one step, also during a removal or another
worker's checkout. `GitClient` has both in full. The order in which files are walked is any order;
files that do not decode, which the walk skips without an error, are no manifests. A kind is
served by one API group: `ResourceListing` has kinds of several, whose objects are listed and
deleted once for each group, so that the second deletion is an error and the next attempt at
the cleanup succeeds.

### StatusUpdate

`stored` is the object of the API server with its `resourceVersion`; per caller `pc`, the
argument `want`, the version `got` of `queryApp` and the attempts `tries`. `Get` and
`UpdateStatus` are one request each; `Retry` is `RetryOnConflict` with the five steps of
`retry.DefaultRetry`. `Edit` and `Replace` are users; a request may fail, or be carried out
and its answer lost. A PUT that changes nothing is no write: a status with a `LastSyncAt`
(`Timed`) is the same as the stored one only within one second. `ErrorsHaveACause` needs two
histories: `began`, the version at the call, and `met`, the callers one of whose own requests
failed, or whose call found the Application missing at some moment.

### ResourceListing

`main` is `GetResourceWithLabel`; per API group `at`, `todo` (kinds), `list` (items of the
last List) and `base`: `append` reads the slice and writes it in two steps, so that a missing
lock would show. `lock` and `wg` are the mutex and the WaitGroup. `steady`, `missed` and
`seen` are histories. An item of a list names the group it was listed by: a kind may be served
by several groups, and nothing removes the duplicates. The discovery of the groups may fail,
and so may the one that `ServerResource` starts with. `DiffResources` and `FindResource` are
folds over the lists the code walks; the hash table keeps the last object of a key. Verbs are
asked for by their name, or as "" and "*", which every resource supports.

### GitClient

`dir` is the directory: whether it exists, its `.git` (`none`; `litter`, files but no HEAD;
`partial`, a HEAD but no branch, while a clone is under way or after it was cut off; `ready`),
HEAD, and the commit each file has the contents of. Per worker `job` holds the call and the
locals. go-git is modelled from how it is used, at the grain that matters: references and
files one after the other; HEAD before the files. A call that writes makes the directories it
needs (`Rewritten`), so that a fetch, a reset or a pull during another worker's `RemoveAll`
leaves a directory without a repository, or brings the removal to an error. `PlainOpen` looks
for HEAD; `PlainClone` goes on unless there is one already; a clone that fails removes what it
made if it found nothing, or empties the directory if it found it empty, and else leaves it
(`Found`, `FailClone`). `CleanUp` removes piece by piece, the directory last; `Crash` leaves
all as it is. The walk sees other workers' files half written (`HalfWritten`).
`CloneAllowed` and `FetchAllowed` say which calls pass the token: only the clone. The program
as it is always makes its client without a token (`run.go:68`); the run with `Token = TRUE` is
about what `git.go` does with one.

### InformerFactory

`lock` is the mutex, `made` the informers made per type, `startedInformers`, `shuttingDown`
and `wg` the fields of the factory, `running` the goroutines of informers. `call` is per
goroutine the method it is in and where; what happens between `Lock` and `Unlock` takes
several steps. The factory takes any type, though only Application is generated.

### Lifecycle

`main` is the call the main goroutine makes next, `handler` the goroutine of
`SetupSignalHandler`, `pending` its channel, `stopCh` the stop channel, `cache` the informer,
`items` and `shut` the queue, `worker` what each `wait.Until` is at, `exit` how it ended.
`program` is one of the three programs: the GitOps controller; the example, which goes on
when the sync is cut off; the demonstration, which has no signal handler and whose wait for
the sync nothing cuts off.

### ExampleController

The same shape, without a status: `deployment`, `service` (its selector), `ingress`,
`events`, `cache` (the lister, which `exposeDeployment` reads), the queue, and per worker
`pc`, `task` and the `selector` it read. There is no handler for updates, a tombstone is
forgotten, and a cleanup that succeeds does not call `Forget` (`SucceedUnforgotten`).

## 3. Runs

### Properties the code has

| Run | Properties | What it shows |
|---|---|---|
| `two_workers` | `TypeOK` `ItemExclusive` `NoLimiterLeak` `NoOrphans` `NoStaleClone` `Settled` `LevelTriggered` `DeletedIsCleaned` | one Application created, deleted and created again under two workers with one failing call or lost answer: nothing is forgotten, and the controller implements `Reconciler`: no reconciliation stays Progressing, a deletion is cleaned up, and nothing is touched that is not owed |
| `restarts` | `SettledUnlessMissed` | two workers, one of each kind of trouble, panics on tombstones: an Application at rest has an outcome, but for those a relist merged events of into an update with an unchanged spec |
| `one_worker` | `RestIsHealthy` `HealthyMeansApplied` `HealthyKeepsObjects` | with a single worker, an Application that comes to rest is Healthy, and that is true and stays true, through edits (one of them to a branch that cannot be checked out), commits and one of each kind of trouble. It is not said that an Application comes to rest: one that fails at every attempt never does |
| `status_writers` | `TypeOK` `ErrorsHaveACause` `WritesAtomically` | two calls of `updateAppStatus`, four writes of users, one fault: the loop is one atomic write, answers nil only after it, and a call fails only for a cause of its own |
| `git_client` | `TypeOK` `ManifestsAreOfHash` `HashIsFresh` `EventuallyRead` | two workers in one directory, a new commit, one cleanup, crash or failing call: a worker nobody disturbed reads what it reports, and that is not out of date; reading succeeds in the end, with the two exceptions below |
| `listing` | `TypeOK` `ListingIsExact` `DiffIsRight` `ResolvesAnywhere` `ListingReturns` | the concurrent appends lose nothing and append nothing twice; `DiffResources` decides rightly on all short lists, duplicates of keys and of objects included; a kind is resolved wherever it stands |
| `factory` | `TypeOK` `SharedAndRunOnce` `ShutdownWaits` `SyncIsComplete` `ShutdownIsFinal` `CallsEnd` | any four calls by three goroutines |
| `lifecycle` | `TypeOK` `SyncedBeforeWork` `ServesUntilStopped` `EndsOnSignal` `ItemsAreTaken` | each program, up to three signals, an API server that may never answer |
| `example` | `TypeOK` `RestIsExposed` `EventuallyExposed` `EventuallyCleaned` | one worker, one of each kind of trouble for the invariants; the liveness properties are for behaviours in which no trouble ever happens |

`Settled`, `RestIsHealthy` and `HealthyMeansApplied` are stated for behaviours without a
relist. With one, a deletion and a creation may be merged into an update with an unchanged
spec that `handleUdate` skips, so that the new Application is never reconciled; and an
Application whose spec is edited and edited back while a reconciliation reads it may rest
Healthy with the manifests of the other spec. `NoOrphans`, `NoStaleClone` and the liveness of
`Reconciler` are stated for behaviours in which calls fail and answers are lost but no
relist, crash or partial listing happened: after those the code keeps no record of what it
owes. In particular a List that fails inside `GetResourceWithLabel` is logged only, and a
cleanup that relies on it leaves the objects it did not see. `SettledUnlessMissed` is stated
with relists, and says which Applications the merged events can leave without an outcome.

None of these properties says that an Application comes to rest. The code retries for ever
where a retry cannot succeed: objects that exist already (an attempt stopped half way, an edit
that changes or drops a manifest), a revision that is no branch of the clone, a directory
without a repository. `LevelTriggered` has such failures reported, no more.

`EventuallyRead` has two exceptions, which are two ways in which the code never recovers. A
directory that exists without a usable repository (`Stuck`: a clone was cut off, or somebody
wrote to it while it was being removed) is never cloned again, as `os.Stat` finds it. And two
workers may clone at once into one directory, when a cleanup has taken away the HEAD that the
first one made: each fails because of what the other does, removes the directory, and starts
again while the other is still cloning; they may take turns in that for ever.

`HealthyMeansApplied` says what the code means by "synced", which is little: it is about the
revision in the status, because nothing queues an item for a new commit; about the part under
"spec", because `DiffResources` compares nothing else; and about manifests that have an
object, as objects without a manifest are logged and stay. It is about one Application of a
name, as label, listing and clone directory ignore the namespace.

`RestIsExposed` promises nothing about a deletion that a relist or a restart hid (tombstones
are forgotten), nor about a creation a relist merged with the deletion before it. The
condition of the liveness properties, `Untroubled`, is as strong as it is because one failing
call is enough to break both: `exposeDeployment` and `cleanupResources` stop at their first
error, and when the Service is there (or gone) already every retry stops at it, so an
Ingress that was missed once is missed for ever. With two workers `EventuallyCleaned` fails
without any trouble, and `RestIsExposed` fails by the race of `deleted_while_synced`. An edit
of the pod labels reaches no Service, as there is no handler for updates.

### Statements the code does not keep

Each of these runs refutes something a text of the repository says; the findings of
`PROJECT.json` quote it.

| Run | Refutes | By |
|---|---|---|
| `deleted_while_synced` | "App synced successfully" | two workers: a cleanup removes what the successor was given |
| `stale_degraded` | "safely update the status" | two workers: the report of a failure after the success of its retry |
| `private_repository` | the token is used in place of a password | fetch and pull do not pass it, so they fail for ever |

The first two need two workers, the default of `run.go`; the run `one_worker` shows that one
worker is free of them. The third is about `git.go` as it is written: `run.go:68` passes an
empty token, so that in today's program not even the clone of a private repository succeeds.
No run is needed for a fourth: `root.go:12` says that the program "watches for changes in a
Git repository", and nothing in it does; a commit is followed only when the spec of the
Application changes. `stale_degraded` is no contradiction to `WritesAtomically`: each
write is atomic, they come in the wrong order.

### Bounds

- `two_workers`, `restarts`, `one_worker`: one Application suffices for what happens between
  its own items and workers. `MaxVersion = 3` is creation, deletion, creation, or edits in
  their place: the shortest histories with an item of every kind and two live generations.
  Two workers are the default of `run.go`; more only add workers that hold a third item of
  one name. Two resources are the fewest that can be half created. `MaxCommit = 2` gives a
  commit before and after each step. `Budget` gives each kind of trouble once, the fewest
  that lets every error path be taken and then be followed by a success.
- `example`: `MaxVersion = 4` adds a second deletion.
- `status_writers`: `Steps = 5` as in `retry.DefaultRetry`; four edits and a write of the
  other caller are just as many as exhaust them, and one fault is enough for each answer to be
  lost once.
- `git_client`: one file, since steps on different files do not depend on each other and
  `ManifestsAreOfHash` is about each of them (it is proved for any number); it can differ from
  HEAD, which is what is at stake. Two rounds are a clone and a later fetch of one worker, or
  both workers at once.
- `listing`: two groups, one of them with two kinds, one kind that both serve, and two
  namespaces are the fewest with concurrent appends, with a kind left when another failed,
  with an object listed twice, and with two objects of one key;
  every initial cluster of up to two objects is tried, and lists of up to two manifests and
  up to three API resources.
- `factory`: three callers let two wait for a third; four calls are `InformerFor`, `Start`,
  `Shutdown` and one more. Two types distinguish "all" from "one" in loops and waits.
- `lifecycle`: three signals are one more than the handler's channel and the program react
  to; two items and two workers keep one worker busy while another waits.

All runs may stop when users and trouble are used up, which is why they do not check for deadlock: a quiet state is the intended end. What should happen
before it does is stated by liveness properties and by invariants about `AtRest`. Worker
symmetry is used in `restarts` only, which checks invariants.

### Fairness

- `GitOpsController`, `ExampleController`: `Deliver` is weakly fair per object (the
  informer's goroutines run), `DelayOver` per item (every delay of the rate limiter ends) and
  each worker as a whole (its goroutine runs; a call returns or fails: `rest.Config.Timeout`
  is 120 s). Nothing is assumed of users, of commits, of failures or of crashes. A retry that
  keeps failing for a reason of its own is not excused by fairness: it is in the model, and
  `LevelTriggered` and `DeletedIsCleaned` hold in its presence.
- `StatusUpdate`: the requests of a worker that is in a call; nothing of users.
- `ResourceListing`: each goroutine and the main one; every List is answered or fails.
- `GitClient`: each worker, as errors are queued again for ever, and a removal that has begun.
- `InformerFactory`: each call and the end of an informer that was told to stop. No informer
  owes a sync, and nobody owes the close of the stop channel: `CallsEnd` is for calls that do
  not wait for it, and for all once it is closed.
- `Lifecycle`: the signal handler and the workers. That the main goroutine runs is a premise
  (`MainRuns`) of the properties that need it: a second signal ends even a process whose main
  goroutine hangs. The API server owes nothing.

## 4. Proofs

Every theorem holds for every value of the constants that the named assumptions of its module
allow: any set of workers, callers, Applications, names, specs, resources, groups, files, and
any bounds. Each, but for the two about loops over lists, rests on an inductive invariant that
TLC checked on an instance before it was proved. Lemmas are grouped by variable: what a helper (`Continue`, `Fail`, `Succeed`,
`DeleteFrom`) preserves is proved once and cited by each action.

### The GitOps controller, `GitOpsControllerProofs`

- `TypeCorrect`: `Spec => []TypeOK`. `TypeOK` is inductive; its last part, that a worker
  creates only resources it has a manifest for, is what makes `CreateResource` well typed.
- `NoOrphansEver`: `Spec => []NoOrphans`. `NoOrphans` is not inductive: that *somebody* is
  busy with an Application does not mean that they will come across the object. The
  inductive invariant `OrphanInv` says who **answers** for each object: a live Application, an
  undelivered event, a queued item, or a worker that has not listed the objects yet or has
  the object on its list. It needs that the last undelivered event of a deleted Application
  is no "set" (`EventsEndRight`: delivering the last event leaves an item behind or a live
  Application) and that only a relist makes tombstones (`NoTombstones`: no item is dropped
  for lack of a key). A worker that has left its list only creates objects while it still
  has to write Healthy, which fails and queues the item again when the Application is gone.
- `ItemExclusiveEver`: `Spec => []ItemExclusive`, from the queue's discipline: an item that is
  processed is put in `queue` by its `Done` only.

### What it leaves behind, `GitOpsSettledProofs`

- `NoLimiterLeakEver`: `Spec => []NoLimiterLeak`. `LimiterInv` adds that a worker in its
  deferred `Done` has its item waiting or dirty: otherwise `Done` could drop the last thing
  that holds on to the count.
- `SettledEver`: `Spec => []Settled`. `SettledInv(H)` says who will report on an Application
  without an outcome in `H`, here Healthy and Degraded: an item, a worker that has not failed yet, or news among its events. An
  event is news when `handleAdd` or `handleUdate` will put an item in the queue for it, which
  depends on the events before it, since `handleUdate` compares a spec with the last one.
  That a deletion comes between two lives of an Application (`EventsEndRight`) makes a
  creation news; it takes that the informer's cache, after the newest event, is what the API
  server has (`CacheInv`). A crash needs no exception: the list of the new process is news
  throughout.
- `SettledUnlessMissedEver`: `MissedSpec => []SettledUnlessMissed`. The same invariant without
  "before a relist", for the Applications that are not in `missed` (`MissedInv`): a list that
  takes the place of lost events is news, unless the spec it shows is the one in the cache
  (`RelistReports`); and an Application leaves `missed` through a worker that will report.
- `RestIsHealthyEver`: `OneWorker => (Spec => []RestIsHealthy)`, from `SettledInv({"Healthy"})`.
  What is new is a report of a failure, which takes a Healthy status away: with one worker
  nobody takes the failed item out of the queue before that report is made (`Retries`), so that
  a success comes after it. With two workers the other one may take it, be done with it, and
  Degraded is the last word (the run `stale_degraded`).
- `NoStaleCloneEver`: `Spec /\ []OneRepository(repo) => []NoStaleClone`, for every `repo` that
  gives each Application one repository, as the instances of the runs do. Without that the code
  does not keep it: a cleanup removes the directory of the repository in the spec of its
  *item*, so that after an edit of the repository the directory of the former one stays for
  good. `CloneInv` says that all events, items and
  reconciliations are of that repository (`SameRepository`) and that a clone directory has
  a live Application, an event, an item or a worker that has not failed yet (`Tracked`).
- `ReconcilesSafely`: `Separate => (Spec => R!SafeSpec)`, the safety half of `LevelTriggered`:
  initial states map to initial states, each step to a step of `Reconciler` or a stutter.
  `Separate` is `DistinctNames /\ (OneWorker \/ DistinctPlaces)`. Names must differ because the
  label, and with it the cleanup, ignores the namespace. Places must differ only with more than
  one worker: `deleteResources` lists objects by label and then deletes by kind, name and
  namespace, so that a cleanup that was overtaken (its object deleted by another cleanup of the
  same Application, and one of another Application created in its place) deletes what is not
  its own. Two Applications of one namespace with a manifest in common are enough for that;
  TLC finds such a behaviour of 40 states with two workers. The proof uses `NoOrphans` and
  `Settled` for the step that ends the work on an Application, and `ObjectsInv`: an object is at
  a place of the Application that its label names (`PlaceInv`), no two are at one place
  (`OnePerPlace`, as `CreateResource` refuses a taken one), and what is by now at the places
  a cleanup still has to visit has that cleanup's label (`DoomedInv`).
- `GoneByOwnCleanup`: under `Separate`, whatever the number of workers, no step takes an object
  away but a cleanup of the Application the object is labelled with. That is what two workers
  keep of the next property.
- `HealthyKeepsObjectsEver`: `OneWorker /\ DistinctNames => (Spec => HealthyKeepsObjects)`, an
  action property. A cleanup starts when there is no Application, and one that is created again
  meanwhile is not Healthy before the cleanup is over, as nobody else is there to say so
  (`CleanupInv`); a cleanup of another Application takes away its own objects only
  (`DoomedInv`), even at places that both may use. The run `deleted_while_synced` is the
  counterexample with two workers.
- `HealthyMeansAppliedEver`: `OneWorker /\ DistinctNames => (Spec => []HealthyMeansApplied)`.
  `JobInv` follows a reconciliation: the directory is at the hash it read, the manifests are those of
  that hash, and what is no longer to be created is in the cluster, made by this worker or
  found there by `DiffResources`, when Healthy is written. That report is about the spec
  `LookUp` read; when the Application has another one by now, an edit or a new creation is
  news that is still to come or in the queue (`FreshInv`), so that it is not at rest.
  `AppliedInv` says that of all Healthy Applications; it lasts because no step
  removes an object of one.

### The other modules

- `StatusUpdateProofs`: `TypeCorrect`; `ErrorsHaveACauseEver`; `Atomic`, the safety half of
  `WritesAtomically`. That a Conflict has a cause is an inequality: the version a call has
  read is at least the version at the start of the call plus the attempts it has used up
  (`Attempts`). For the other errors, a caller whose Application is missing is in `met`. In `Atomic` the step that maps to the write is the accepted request, whose
  answer may still be lost.
- `ResourceListingProofs`: `TypeCorrect`; `ListingIsExactEver`; `ResolvesAnywhereEver`;
  `DiffIsRightEver`. In the second, the slice has what was found
  and not what a goroutine is still to append. The invariant says that `wg` is the number of
  goroutines at work (`Counted`), that one that read the slice under the lock has what is
  still there (`Exclusive`), that each object found is in the slice or in one list of items, once
  (`Once`), and that what was there all the time is found once its kind is listed
  (`Listed`), by every group that serves it. The last two are about loops over a list (the search of `ServerResource` in
  what discovery found, the hash table and the comparison of `DiffResources`), which the model
  writes as folds. The properties speak of all short lists, so that TLC can try them; the
  lemmas behind them, `Resolves` and `DiffDecides`, are for lists of **any** length, by an
  induction that needs no operator parameter: `Induction` and `BoundedInduction` speak of the
  *set* of numbers a statement holds of, and follow from the least-element principle of
  well-founded relations. `FoldExists` shows that the recursion `FoldLeft` chooses a function by
  has a solution, `FoldRounds` that it can be followed round by round. The loops' invariants are
  `ResourceRounds`, `TableRounds` (the hash table has the keys listed so far, each with the
  `spec` listed last, `LastOfKind`) and `CompareRounds`.
- `GitClientProofs`: `TypeCorrect`; `ManifestsAreOfHashEver`; `HashIsFreshEver`. `GitInv` says
  what a worker that is alone `Knows`: the files behind it are those of the commit it writes,
  that commit is HEAD's, and from the pull on it is no older than the reconciliation.
- `InformerFactoryProofs`: `TypeCorrect`; `SharedAndRunOnceEver`; `ShutdownWaitsEver`;
  `SyncIsCompleteEver`; and the action property `ShutdownIsFinalEver`. The core of `FactoryInv`
  is the mutex (who is between `Lock` and `Unlock` holds it, and a `Start` that is there has
  seen no shutdown) and that `wg` is the number of started informers that still run.
- `LifecycleProofs`: `TypeCorrect`; `SyncedBeforeWorkEver`; `ServesUntilStoppedEver`. `LifeInv`
  says what main's position tells: no worker before the sync, after it a full cache, or, in
  the example only, a closed stop channel, which stops a worker before its first item.
- `ExampleControllerProofs`: `TypeCorrect`; `RestIsExposedEver`, which is
  `OneWorker => (Spec => []RestIsExposed)`. `RestInv` says who will come across a Deployment that
  is not exposed, or not cleaned up: news among its events, an item, or a worker that is
  doing just that. A worker that failed, or does the opposite of what the Deployment is in
  need of by now (`Astray`), is never the last one. With two workers, the program's default,
  the statement is false: the cleanup of one undoes what the other has created.

### Assumptions

The constants' assumptions are named where the constant is declared and evaluated by TLC in
every run. They give the constants their types (functions, finite sets of groups, bounds that
are numbers, `Steps` positive, a value that is nobody's name) and restrict the system nowhere:
groups may serve the same kinds, names may be shared, and what a theorem needs beyond them is
in its statement. Seven theorems have a hypothesis of their own, made of `OneRepository`,
`OneWorker`, `DistinctNames` and `DistinctPlaces`, all stated above. The instances of the runs
that check the property satisfy it. `OneWorker` is `--workers 1`, which is not the default:
with two workers `RestIsHealthy`, `HealthyKeepsObjects`, `HealthyMeansApplied` and
`RestIsExposed` are false, in the programs as in the models.

### Model-checked only

- The liveness properties, with the fairness half of `LevelTriggered` and of
  `WritesAtomically`: the prover has no rules for fairness and ENABLED.
- The three runs that expect a violation.

## 5. Not modelled

- `PatchResource` and `ToResourceInterface` of `kube.go`: they have no caller.
- The options of the informer factory (namespace, filters, resync, transform), set before
  any of its methods is called; resyncs reach `handleUdate` with an unchanged spec only.
- The other methods of the generated clients: only the informer (List, Watch) and the
  controller (Get, UpdateStatus) call any; listers and deep copies have no control of their
  own.
- The contents of Git repositories beyond "the manifests at a commit"; the parsing of YAML, and
  with it the files that `GenerateManifests` skips because they do not decode.
- What an API server fills in by default, admission, and quotas.
- Logging, what the demonstrations print, and `api-machinery/`, which has no state.
- Time: delays and timeouts end at any moment.

## 6. Plan

The models are complete as far as the code has state, and every invariant and every action
property that the runs check is proved, with the safety halves of both refinements. What
would be worth doing next:

1. What two workers keep of `HealthyMeansApplied`. `GoneByOwnCleanup` is the part about the
   objects; about the report nothing is known to hold, because two reconciliations of one
   Application share the clone directory and the one with the older spec may report last.
2. A run of the GitOps controller with two Applications of one namespace. The instances have
   one Application with a long history; that several do not disturb each other rests on the
   proofs, whose invariants were tried on two.
3. Liveness, should the prover learn the rules for fairness.
