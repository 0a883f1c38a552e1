--------------------------- MODULE GitOpsController ---------------------------
(***************************************************************************)
(* The GitOps controller: gitops/internal/controller/controller.go with    *)
(* the cluster calls of utils/kube/kube.go and the repository calls of     *)
(* utils/git/git.go that one reconciliation makes.                         *)
(*                                                                         *)
(* Users create, edit and delete Applications and push commits; the        *)
(* informer delivers events to the handlers, which queue the object of the *)
(* event; Workers take items and make the cluster follow the repository.   *)
(* Every call of a worker that leaves the process is a step of its own, so *)
(* that anything may happen between two of them.                           *)
(***************************************************************************)
EXTENDS WorkQueue

CONSTANTS
  Workers,       \* the goroutines running worker()
  Apps,          \* the Application objects, one per namespace and name
  NameOf,        \* [Apps -> names]: all that labels and clone paths use
  NamespaceOf,   \* [Apps -> namespaces]
  Specs,         \* values of Application.Spec (repository, revision, path)
  RepoOf,        \* [Specs -> repositories]
  HasBranch,     \* the Specs whose revision a clone has as a local branch
  Resources,     \* kind and name of the manifests
  ClusterScoped, \* the resources whose kind has no namespace
  Bodies,        \* contents of a manifest ...
  SpecPart,      \* ... and the part of them that is under the key "spec"
  MaxCommit,     \* bound: commits of a repository
  MaxVersion,    \* bound: creations, edits and deletions of an Application
  Manifest,      \* [Specs -> [1..MaxCommit -> the manifests at that commit]]
  Budget         \* bound: how often each kind of trouble may happen

Names == {NameOf[a] : a \in Apps}
Namespaces == {NamespaceOf[a] : a \in Apps}
Repos == {RepoOf[s] : s \in Specs}
Commits == 1 .. MaxCommit

(* A directory of manifests: some of the resources, each with a body. *)
Manifests == UNION {[R -> Bodies] : R \in SUBSET Resources}

(* What the environment does to the controller, besides users. *)
Trouble == {"fault",    \* a call fails, or is applied and its answer is lost
            "missed",   \* listing some of the resource kinds fails
            "relist",   \* the watch breaks and the informer lists again
            "crash"}    \* the process ends and is started again

ASSUME AppsAssumption ==
  /\ Apps # {}
  /\ NameOf \in [Apps -> Names] /\ NamespaceOf \in [Apps -> Namespaces]
ASSUME SpecsAssumption ==
  /\ Specs # {} /\ RepoOf \in [Specs -> Repos]
  /\ HasBranch \subseteq Specs /\ ClusterScoped \subseteq Resources
  /\ DOMAIN SpecPart = Bodies
ASSUME BoundsAssumption ==
  /\ MaxCommit \in Nat \ {0} /\ MaxVersion \in Nat
  /\ Budget \in [Trouble -> Nat]
ASSUME ManifestAssumption == Manifest \in [Specs -> [Commits -> Manifests]]

VARIABLES
  app,      \* the Applications the API server stores
  cluster,  \* the labelled objects the API server stores
  remote,   \* the newest commit of each repository
  clone,    \* the commit checked out in each directory under os.TempDir()
  events,   \* per Application, the watch events not yet delivered
  cache,    \* the informer's copy of each Application
  pc,       \* per worker, the call it makes next
  task,     \* per worker, the item it got from the queue
  job,      \* per worker, the local variables of the reconciliation
  spent     \* how often each kind of trouble has happened

workerVars == <<pc, task, job>>
informerVars == <<events, cache>>
vars == <<app, cluster, remote, clone, informerVars, queueVars, workerVars,
          spent>>

-----------------------------------------------------------------------------
(***************************************************************************)
(* Data.                                                                   *)
(***************************************************************************)
AnyApp == CHOOSE a \in Apps : TRUE
AnySpec == CHOOSE s \in Specs : TRUE

(* path.Join(os.TempDir(), app.Name, repository): the namespace is missing. *)
PathOf(a, s) == <<NameOf[a], RepoOf[s]>>
Paths == Names \X Repos

(* A clone directory: none, one without a repository in it, or a commit. *)
Missing == 0
Broken == MaxCommit + 1

(* Where CreateResource puts resource r of Application a. *)
Place(a, r) == <<IF r \in ClusterScoped THEN {} ELSE {NamespaceOf[a]}, r>>
Places == (SUBSET Namespaces) \X Resources
Objects == [place : Places, label : Names, body : Bodies]

Versions == 0 .. MaxVersion
Health == {"None", "Progressing", "Healthy", "Degraded"}
AppStates == [live : BOOLEAN, ver : Versions, spec : Specs,
              health : Health, rev : 0 .. MaxCommit]
Events == [kind : {"set", "delete", "tombstone"}, ver : Versions, spec : Specs]

(***************************************************************************)
(* A queued item is a pointer: to the Application of one event, or to the  *)
(* cache.DeletedFinalStateUnknown that stands for a missed deletion.       *)
(***************************************************************************)
Items == [app : Apps, ver : Versions, spec : Specs, tomb : BOOLEAN]
Item(a, e) == [app |-> a, ver |-> e.ver, spec |-> e.spec,
               tomb |-> e.kind = "tombstone"]
NoItem == [app |-> AnyApp, ver |-> 0, spec |-> AnySpec, tomb |-> FALSE]

Jobs == [spec : Specs, sha : 0 .. MaxCommit, gen : Manifests,
         todo : SUBSET Resources, doomed : SUBSET Places]
NoManifest == [r \in {} |-> CHOOSE b \in Bodies : TRUE]
NoJob == [spec |-> AnySpec, sha |-> 0, gen |-> NoManifest,
          todo |-> {}, doomed |-> {}]

CreatePath == {"progressing", "clone", "checkout", "generate", "list",
               "create", "healthy"}
DeletePath == {"list_delete", "delete", "cleanup"}
Points == {"idle", "lookup", "done", "degrade"} \cup CreatePath \cup DeletePath

StoreTypeOK ==
  /\ app \in [Apps -> AppStates]
  /\ cluster \subseteq Objects
  /\ remote \in [Repos -> Commits]
  /\ clone \in [Paths -> 0 .. Broken]

InformerTypeOK ==
  /\ events \in [Apps -> Seq(Events)]
  /\ cache \in [Apps -> [known : BOOLEAN, ver : Versions, spec : Specs]]

QueueTypeOK ==
  /\ queue \in Seq(Items)
  /\ dirty \subseteq Items /\ processing \subseteq Items
  /\ waiting \subseteq Items /\ failures \subseteq Items

WorkerTypeOK ==
  /\ pc \in [Workers -> Points]
  /\ task \in [Workers -> Items]
  /\ job \in [Workers -> Jobs]
  /\ \A w \in Workers :
       pc[w] = "create" => job[w].todo \subseteq DOMAIN job[w].gen

TypeOK ==
  /\ StoreTypeOK /\ InformerTypeOK /\ QueueTypeOK /\ WorkerTypeOK
  /\ spent \in [Trouble -> Nat]

Unknown == [known |-> FALSE, ver |-> 0, spec |-> AnySpec]

(* The process and its informer as NewController and Run start them. *)
Init ==
  /\ app = [a \in Apps |-> [live |-> FALSE, ver |-> 0, spec |-> AnySpec,
                            health |-> "None", rev |-> 0]]
  /\ cluster = {}
  /\ remote = [r \in Repos |-> 1]
  /\ clone = [p \in Paths |-> Missing]
  /\ events = [a \in Apps |-> <<>>]
  /\ cache = [a \in Apps |-> Unknown]
  /\ QueueInit
  /\ pc = [w \in Workers |-> "idle"]
  /\ task = [w \in Workers |-> NoItem]
  /\ job = [w \in Workers |-> NoJob]
  /\ spent = [t \in Trouble |-> 0]

Spend(t) ==
  /\ spent[t] < Budget[t]
  /\ spent' = [spent EXCEPT ![t] = @ + 1]

-----------------------------------------------------------------------------
(***************************************************************************)
(* Users, through the API server and the Git server.                       *)
(***************************************************************************)
CreateApplication(a, s) ==
  /\ ~ app[a].live /\ app[a].ver < MaxVersion
  /\ app' = [app EXCEPT ![a] = [live |-> TRUE, ver |-> @.ver + 1, spec |-> s,
                                health |-> "None", rev |-> 0]]
  /\ events' = [events EXCEPT ![a] =
                  Append(@, [kind |-> "set", ver |-> app[a].ver + 1, spec |-> s])]
  /\ UNCHANGED <<cluster, remote, clone, cache, queueVars, workerVars, spent>>

UpdateSpec(a, s) ==
  /\ app[a].live /\ app[a].ver < MaxVersion /\ s # app[a].spec
  /\ app' = [app EXCEPT ![a].ver = @ + 1, ![a].spec = s]
  /\ events' = [events EXCEPT ![a] =
                  Append(@, [kind |-> "set", ver |-> app[a].ver + 1, spec |-> s])]
  /\ UNCHANGED <<cluster, remote, clone, cache, queueVars, workerVars, spent>>

(* There is no finalizer: the object is gone at once. *)
DeleteApplication(a) ==
  /\ app[a].live /\ app[a].ver < MaxVersion
  /\ app' = [app EXCEPT ![a] = [live |-> FALSE, ver |-> @.ver + 1,
                                spec |-> @.spec, health |-> "None", rev |-> 0]]
  /\ events' = [events EXCEPT ![a] =
                  Append(@, [kind |-> "delete", ver |-> app[a].ver + 1,
                             spec |-> app[a].spec])]
  /\ UNCHANGED <<cluster, remote, clone, cache, queueVars, workerVars, spent>>

Commit(r) ==
  /\ remote[r] < MaxCommit
  /\ remote' = [remote EXCEPT ![r] = @ + 1]
  /\ UNCHANGED <<app, cluster, clone, informerVars, queueVars, workerVars, spent>>

-----------------------------------------------------------------------------
(***************************************************************************)
(* The informer and the event handlers.                                    *)
(*                                                                         *)
(* Events of status writes and of the periodic resync are left out: they   *)
(* have the spec the cache has, and handleUdate returns without a change.  *)
(***************************************************************************)
(* Mutant of handleAdd: what has a health is not reconciled again. *)
handleAddUnlessSeen(a, e) ==
  IF app[a].health = "None" THEN AddRateLimited(Item(a, e)) ELSE UNCHANGED queueVars

handleAdd(a, e) == AddRateLimited(Item(a, e))

(* Mutant of handleDelete: no DeleteFunc. *)
handleDeleteIgnored(a, e) == UNCHANGED queueVars

handleDelete(a, e) == AddRateLimited(Item(a, e))

handleUdate(a, e) ==
  IF e.spec = cache[a].spec THEN UNCHANGED queueVars
                            ELSE AddRateLimited(Item(a, e))

Deliver(a) ==
  /\ events[a] # <<>>
  /\ LET e == Head(events[a]) IN
       IF e.kind = "set"
       THEN /\ cache' = [cache EXCEPT ![a] =
                           [known |-> TRUE, ver |-> e.ver, spec |-> e.spec]]
            /\ IF cache[a].known THEN handleUdate(a, e) ELSE handleAdd(a, e)
       ELSE /\ cache' = [cache EXCEPT ![a] = Unknown]
            /\ handleDelete(a, e)
  /\ events' = [events EXCEPT ![a] = Tail(@)]
  /\ UNCHANGED <<app, cluster, remote, clone, workerVars, spent>>

(* What listing all Applications tells an informer whose cache is c. *)
Listed(a, c) ==
  IF app[a].live
  THEN <<[kind |-> "set", ver |-> app[a].ver, spec |-> app[a].spec]>>
  ELSE IF c.known
       THEN <<[kind |-> "tombstone", ver |-> c.ver, spec |-> c.spec]>>
       ELSE <<>>

(***************************************************************************)
(* The watch breaks and the events it would have sent are lost: the        *)
(* informer compares a new list with its cache.                            *)
(***************************************************************************)
Relist ==
  /\ Spend("relist")
  /\ events' = [a \in Apps |-> Listed(a, cache[a])]
  /\ UNCHANGED <<app, cluster, remote, clone, cache, queueVars, workerVars>>

DelayOver(i) ==
  /\ Ready(i)
  /\ UNCHANGED <<app, cluster, remote, clone, informerVars, workerVars, spent>>

-----------------------------------------------------------------------------
(***************************************************************************)
(* processNextItem, from Get to the lookup of the Application.             *)
(***************************************************************************)
Goto(w, l) == pc' = [pc EXCEPT ![w] = l]

(* Mutant of Succeed: the call of Forget is missing. *)
SucceedWithoutForget(w) ==
  /\ Goto(w, "idle")
  /\ task' = [task EXCEPT ![w] = NoItem]
  /\ job' = [job EXCEPT ![w] = NoJob]
  /\ Done(task[w])
  /\ UNCHANGED <<waiting, failures>>

(* The item is processed: Forget, the deferred Done, and the next Get. *)
Succeed(w) ==
  /\ Goto(w, "idle")
  /\ task' = [task EXCEPT ![w] = NoItem]
  /\ job' = [job EXCEPT ![w] = NoJob]
  /\ Finish(task[w])

(* Mutant of Fail: the item is forgotten instead of queued again. *)
FailAndForget(w) ==
  /\ Goto(w, "done")
  /\ job' = [job EXCEPT ![w] = NoJob]
  /\ failures' = failures \ {task[w]}
  /\ UNCHANGED <<task, queue, dirty, processing, waiting>>

(* Mutant of Fail: Done comes before AddRateLimited, and again when deferred. *)
FailAfterDone(w) ==
  /\ Goto(w, "done")
  /\ job' = [job EXCEPT ![w] = NoJob]
  /\ Done(task[w])
  /\ waiting' = waiting \cup {task[w]}
  /\ failures' = failures \cup {task[w]}
  /\ UNCHANGED task

(* An error: AddRateLimited, while the item is still being processed. *)
Fail(w) ==
  /\ Goto(w, "done")
  /\ job' = [job EXCEPT ![w] = NoJob]
  /\ AddRateLimited(task[w])
  /\ UNCHANGED task

(* A call of worker w succeeds and the next one is at label l. *)
Continue(w, l, j) ==
  /\ Goto(w, l)
  /\ job' = [job EXCEPT ![w] = j]
  /\ UNCHANGED <<task, queueVars>>

GetItem(w) ==
  /\ pc[w] = "idle"
  /\ Get
  /\ Goto(w, "lookup")
  /\ task' = [task EXCEPT ![w] = Head(queue)]
  /\ UNCHANGED <<app, cluster, remote, clone, informerVars, job, spent>>

(* Mutant of LookUp: an edited Application is taken for a deleted one. *)
LookUpByItem(w) ==
  /\ pc[w] = "lookup" /\ ~ task[w].tomb
  /\ LET a == task[w].app IN
       IF app[a].live /\ app[a].spec = task[w].spec
       THEN Continue(w, "progressing", [NoJob EXCEPT !.spec = app[a].spec])
       ELSE Continue(w, "list_delete", NoJob)
  /\ UNCHANGED <<app, cluster, remote, clone, informerVars, spent>>

(***************************************************************************)
(* Get the Application from the API server, whatever the event said.  A    *)
(* tombstone has no key and never comes this far: see Panic.               *)
(***************************************************************************)
LookUp(w) ==
  /\ pc[w] = "lookup" /\ ~ task[w].tomb
  /\ LET a == task[w].app IN
       IF app[a].live
       THEN Continue(w, "progressing", [NoJob EXCEPT !.spec = app[a].spec])
       ELSE Continue(w, "list_delete", NoJob)
  /\ UNCHANGED <<app, cluster, remote, clone, informerVars, spent>>

-----------------------------------------------------------------------------
(***************************************************************************)
(* createResources.                                                        *)
(***************************************************************************)

(***************************************************************************)
(* updateAppStatus: whichever Application has the name now gets the whole  *)
(* status; with optimistic locking the retry loop takes effect at the one  *)
(* UpdateStatus that is accepted.                                          *)
(***************************************************************************)
updateAppStatus(a, health, rev) ==
  /\ app[a].live
  /\ app' = [app EXCEPT ![a].health = health, ![a].rev = rev]

WriteProgressing(w) ==
  /\ pc[w] = "progressing"
  /\ \/ /\ updateAppStatus(task[w].app, "Progressing", 0)
        /\ \/ Continue(w, "clone", job[w]) /\ UNCHANGED spent
           \/ Fail(w) /\ Spend("fault")
     \/ /\ ~ app[task[w].app].live
        /\ Fail(w) /\ UNCHANGED <<app, spent>>
  /\ UNCHANGED <<cluster, remote, clone, informerVars>>

(* The clone directory of the Application as LookUp read it. *)
RepoPath(w) == PathOf(task[w].app, job[w].spec)

(***************************************************************************)
(* A directory that exists is never cloned again, whatever is in it: one   *)
(* without a repository fails to open or to fetch, or Checkout fails.      *)
(***************************************************************************)
CloneOrFetch(w) ==
  /\ pc[w] = "clone"
  /\ LET p == RepoPath(w) IN
       \/ /\ clone' = [clone EXCEPT ![p] =
                          IF @ = Missing THEN remote[RepoOf[job[w].spec]] ELSE @]
          /\ Continue(w, "checkout", job[w])
       \/ clone[p] = Broken /\ Fail(w) /\ UNCHANGED clone
  /\ UNCHANGED <<app, cluster, remote, informerVars, spent>>

(* Checkout, pull, and the hash of HEAD.  PlainClone makes a local branch  *)
(* of the default branch only; Checkout finds no other revision.           *)
Checkout(w) ==
  /\ pc[w] = "checkout"
  /\ LET p == RepoPath(w)
         head == remote[RepoOf[job[w].spec]] IN
       IF clone[p] \in Commits /\ job[w].spec \in HasBranch
       THEN /\ clone' = [clone EXCEPT ![p] = head]
            /\ Continue(w, "generate", [job[w] EXCEPT !.sha = head])
       ELSE Fail(w) /\ UNCHANGED clone
  /\ UNCHANGED <<app, cluster, remote, informerVars, spent>>

(***************************************************************************)
(* The manifests of whatever the directory holds by now.  Manifest gives   *)
(* those that decode: a file that does not is skipped without an error.    *)
(***************************************************************************)
GenerateManifests(w) ==
  /\ pc[w] = "generate"
  /\ LET commit == clone[RepoPath(w)] IN
       IF commit \in Commits
       THEN Continue(w, "list", [job[w] EXCEPT
                                   !.gen = Manifest[job[w].spec][commit]])
       ELSE Fail(w)
  /\ UNCHANGED <<app, cluster, remote, clone, informerVars, spent>>

(* The objects GetResourceWithLabel should find: of all namespaces. *)
Labelled(n) == {o \in cluster : o.label = n}

(* What it returns: a list call that fails is logged, and no error. *)
GetResourceWithLabel(n, found) ==
  \/ found = Labelled(n) /\ UNCHANGED spent
  \/ /\ found \in SUBSET Labelled(n) /\ found # Labelled(n)
     /\ Spend("missed")

(* Mutant of DiffResources: a new resource does not count as a change. *)
DiffResourcesInBoth(table, gen) ==
  \E r \in DOMAIN gen \cap DOMAIN table :
    SpecPart[table[r].body] # SpecPart[gen[r]]

(***************************************************************************)
(* DiffResources: a hash table by kind and name holds one object of each   *)
(* key, any of those with the same key; only the "spec" is compared.       *)
(***************************************************************************)
HashTables(objs) ==
  LET keys == {o.place[2] : o \in objs} IN
    {t \in [keys -> objs] : \A k \in keys : t[k].place[2] = k}

DiffResources(table, gen) ==
  \/ DOMAIN table # DOMAIN gen
  \/ \E r \in DOMAIN gen : SpecPart[table[r].body] # SpecPart[gen[r]]

(* Mutant of CreateFrom: the manifests are not passed on to the loop. *)
CreateFromNothing(w, todo) ==
  Continue(w, IF todo = {} THEN "healthy" ELSE "create",
           [NoJob EXCEPT !.spec = job[w].spec, !.sha = job[w].sha, !.todo = todo])

(* Mutant of CreateFrom: no change, hence return without a new status. *)
CreateFromOrReturn(w, todo) ==
  IF todo = {} THEN Succeed(w)
               ELSE Continue(w, "create", [job[w] EXCEPT !.todo = todo])

(* Nothing to create, or nothing left to: on to the status. *)
CreateFrom(w, todo) ==
  IF todo = {}
  THEN Continue(w, "healthy", [NoJob EXCEPT !.spec = job[w].spec, !.sha = job[w].sha])
  ELSE Continue(w, "create", [job[w] EXCEPT !.todo = todo])

ListAndDiff(w) ==
  /\ pc[w] = "list"
  /\ \E found \in SUBSET Labelled(NameOf[task[w].app]) :
       /\ GetResourceWithLabel(NameOf[task[w].app], found)
       /\ \E table \in HashTables(found) :
            CreateFrom(w, IF DiffResources(table, job[w].gen)
                          THEN DOMAIN job[w].gen ELSE {})
  /\ UNCHANGED <<app, cluster, remote, clone, informerVars>>

(* Create, never apply: an object that is there already is an error. *)
CreateResource(w) ==
  /\ pc[w] = "create"
  /\ \E r \in job[w].todo :
       LET a == task[w].app
           new == [place |-> Place(a, r), label |-> NameOf[a],
                   body |-> job[w].gen[r]] IN
       IF \E o \in cluster : o.place = new.place
       THEN Fail(w) /\ UNCHANGED <<cluster, spent>>
       ELSE /\ cluster' = cluster \cup {new}
            /\ \/ CreateFrom(w, job[w].todo \ {r}) /\ UNCHANGED spent
               \/ Fail(w) /\ Spend("fault")
  /\ UNCHANGED <<app, remote, clone, informerVars>>

(* Mutant of WriteHealthy: the error of the status update is ignored. *)
WriteHealthyOrIgnore(w) ==
  /\ pc[w] = "healthy"
  /\ \/ updateAppStatus(task[w].app, "Healthy", job[w].sha)
     \/ ~ app[task[w].app].live /\ UNCHANGED app
  /\ Succeed(w)
  /\ UNCHANGED <<cluster, remote, clone, informerVars, spent>>

WriteHealthy(w) ==
  /\ pc[w] = "healthy"
  /\ \/ /\ updateAppStatus(task[w].app, "Healthy", job[w].sha)
        /\ \/ Succeed(w) /\ UNCHANGED spent
           \/ Fail(w) /\ Spend("fault")
     \/ /\ ~ app[task[w].app].live
        /\ Fail(w) /\ UNCHANGED <<app, spent>>
  /\ UNCHANGED <<cluster, remote, clone, informerVars>>

(* The deferred Done, after an error: the delay may be over already. *)
DeferredDone(w) ==
  /\ pc[w] = "done"
  /\ Goto(w, "degrade")
  /\ Done(task[w])
  /\ UNCHANGED <<app, cluster, remote, clone, informerVars, waiting, failures,
                 task, job, spent>>

(* Mutant of WriteDegraded: an error is logged and not reported. *)
LogError(w) ==
  /\ pc[w] = "degrade"
  /\ Goto(w, "idle")
  /\ task' = [task EXCEPT ![w] = NoItem]
  /\ UNCHANGED <<app, cluster, remote, clone, informerVars, queueVars, job, spent>>

(* The report of an error, whose own error is ignored. *)
WriteDegraded(w) ==
  /\ pc[w] = "degrade"
  /\ \/ updateAppStatus(task[w].app, "Degraded", 0) /\ UNCHANGED spent
     \/ ~ app[task[w].app].live /\ UNCHANGED <<app, spent>>
     \/ Spend("fault") /\ UNCHANGED app
  /\ Goto(w, "idle")
  /\ task' = [task EXCEPT ![w] = NoItem]
  /\ UNCHANGED <<cluster, remote, clone, informerVars, queueVars, job>>

-----------------------------------------------------------------------------
(***************************************************************************)
(* deleteResources.                                                        *)
(***************************************************************************)
DeleteFrom(w, doomed) ==
  IF doomed = {} THEN Continue(w, "cleanup", NoJob)
  ELSE Continue(w, "delete", [NoJob EXCEPT !.doomed = doomed])

ListForDelete(w) ==
  /\ pc[w] = "list_delete"
  /\ \E found \in SUBSET Labelled(NameOf[task[w].app]) :
       /\ GetResourceWithLabel(NameOf[task[w].app], found)
       /\ DeleteFrom(w, {o.place : o \in found})
  /\ UNCHANGED <<app, cluster, remote, clone, informerVars>>

(* An object that is gone already is an error. *)
DeleteResource(w) ==
  /\ pc[w] = "delete"
  /\ \E p \in job[w].doomed :
       IF \E o \in cluster : o.place = p
       THEN /\ cluster' = {o \in cluster : o.place # p}
            /\ \/ DeleteFrom(w, job[w].doomed \ {p}) /\ UNCHANGED spent
               \/ Fail(w) /\ Spend("fault")
       ELSE Fail(w) /\ UNCHANGED <<cluster, spent>>
  /\ UNCHANGED <<app, remote, clone, informerVars>>

(* Mutant of CleanUp: the directory stays. *)
CleanUpNothing(w) ==
  /\ pc[w] = "cleanup" /\ Succeed(w)
  /\ UNCHANGED <<app, cluster, remote, clone, informerVars, spent>>

(* The path the ITEM's spec gives; and whether another worker writes to it. *)
Cleaned(w) == PathOf(task[w].app, task[w].spec)
WrittenTo(w) == \E v \in Workers \ {w} :
  pc[v] \in {"clone", "checkout"} /\ RepoPath(v) = Cleaned(w)

(***************************************************************************)
(* RemoveAll.  What another worker writes meanwhile makes the directory    *)
(* anew, without a repository in it, or keeps it from being removed.       *)
(***************************************************************************)
CleanUp(w) ==
  /\ pc[w] = "cleanup"
  /\ \/ clone' = [clone EXCEPT ![Cleaned(w)] = Missing] /\ Succeed(w)
     \/ /\ WrittenTo(w)
        /\ clone' = [clone EXCEPT ![Cleaned(w)] = Broken]
        /\ Succeed(w) \/ Fail(w)
  /\ UNCHANGED <<app, cluster, remote, informerVars, spent>>

-----------------------------------------------------------------------------
(***************************************************************************)
(* Failures.                                                               *)
(***************************************************************************)

(* A call fails before it has any effect. *)
CallFails(w) ==
  /\ pc[w] \in ({"lookup"} \cup CreatePath \cup DeletePath)
  /\ pc[w] = "lookup" => ~ task[w].tomb
  /\ Fail(w) /\ Spend("fault")
  /\ UNCHANGED <<app, cluster, remote, clone, informerVars>>

(* The directories a worker is about to make, or to remove. *)
CutOff ==
  {RepoPath(w) : w \in {v \in Workers : pc[v] = "clone" /\ clone[RepoPath(v)] = Missing}}
  \cup
  {Cleaned(w) : w \in {v \in Workers : pc[v] = "cleanup" /\ clone[Cleaned(v)] # Missing}}

(* Mutant of Restart: the informer only watches and lists nothing. *)
RestartWithoutList ==
  /\ cache' = [a \in Apps |-> Unknown]
  /\ events' = [a \in Apps |-> <<>>]
  /\ QueueReset
  /\ pc' = [w \in Workers |-> "idle"]
  /\ task' = [w \in Workers |-> NoItem]
  /\ job' = [w \in Workers |-> NoJob]
  /\ UNCHANGED <<app, cluster, remote, clone>>

(***************************************************************************)
(* The process starts again: the informer lists what is there now, and     *)
(* nothing tells it what is no longer.  Directories stay, but for those a  *)
(* clone or a removal was cut off in; or a new container has none.         *)
(***************************************************************************)
Restart ==
  /\ cache' = [a \in Apps |-> Unknown]
  /\ events' = [a \in Apps |-> Listed(a, Unknown)]
  /\ QueueReset
  /\ pc' = [w \in Workers |-> "idle"]
  /\ task' = [w \in Workers |-> NoItem]
  /\ job' = [w \in Workers |-> NoJob]
  /\ \/ \E cut \in SUBSET CutOff :
          clone' = [p \in Paths |-> IF p \in cut THEN Broken ELSE clone[p]]
     \/ clone' = [p \in Paths |-> Missing]
  /\ UNCHANGED <<app, cluster, remote>>

Crash == Spend("crash") /\ Restart

(***************************************************************************)
(* A tombstone has no key, and the error path casts it to *Application.    *)
(***************************************************************************)
Panic(w) ==
  /\ pc[w] = "lookup" /\ task[w].tomb
  /\ Restart /\ UNCHANGED spent

-----------------------------------------------------------------------------
User ==
  \/ \E a \in Apps, s \in Specs : CreateApplication(a, s) \/ UpdateSpec(a, s)
  \/ \E a \in Apps : DeleteApplication(a)
  \/ \E r \in Repos : Commit(r)

(* The calls of worker w, when none of them fails for lack of a network. *)
Worker(w) ==
  \/ GetItem(w) \/ LookUp(w) \/ Panic(w)
  \/ WriteProgressing(w) \/ CloneOrFetch(w) \/ Checkout(w)
  \/ GenerateManifests(w) \/ ListAndDiff(w) \/ CreateResource(w)
  \/ WriteHealthy(w) \/ DeferredDone(w) \/ WriteDegraded(w)
  \/ ListForDelete(w) \/ DeleteResource(w) \/ CleanUp(w)

Next ==
  \/ User
  \/ \E a \in Apps : Deliver(a)
  \/ \E i \in waiting : DelayOver(i)
  \/ \E w \in Workers : Worker(w) \/ CallFails(w)
  \/ Relist
  \/ Crash

Spec == Init /\ [][Next]_vars

(***************************************************************************)
(* The informer's goroutines, the delaying queue and the workers keep      *)
(* running; users and trouble owe nothing.                                 *)
(***************************************************************************)
Fairness ==
  /\ \A a \in Apps : WF_vars(Deliver(a))
  /\ \A i \in Items : WF_vars(DelayOver(i))
  /\ \A w \in Workers : WF_vars(Worker(w))

FairSpec == Spec /\ Fairness

-----------------------------------------------------------------------------
(***************************************************************************)
(* Properties.                                                             *)
(***************************************************************************)

(* Nothing is left to be done, or reported, for Application a. *)
AtRest(a) ==
  /\ events[a] = <<>>
  /\ \A i \in waiting \cup dirty : i.app # a
  /\ \A w \in Workers : pc[w] # "idle" => task[w].app # a

(***************************************************************************)
(* An item is queued once, and one that is being processed is held by      *)
(* exactly one worker: though AddRateLimited comes before Done on the      *)
(* error path, the same item never runs in two workers.                    *)
(***************************************************************************)
ItemExclusive ==
  /\ {queue[k] : k \in DOMAIN queue} = dirty \ processing
  /\ \A j, k \in DOMAIN queue : queue[j] = queue[k] => j = k
  /\ \A w \in Workers :
       pc[w] \notin {"idle", "degrade"} =>
         /\ task[w] \in processing
         /\ \A v \in Workers :
              v # w /\ pc[v] \notin {"idle", "degrade"} => task[v] # task[w]

(***************************************************************************)
(* The rate limiter keeps a count only for items that will be processed    *)
(* again: every path that drops an item calls Forget.                      *)
(***************************************************************************)
NoLimiterLeak == failures \subseteq Outstanding

(* No trouble but failing calls and lost answers so far. *)
Calm == spent["missed"] = 0 /\ spent["relist"] = 0 /\ spent["crash"] = 0

(***************************************************************************)
(* Objects whose label names no live Application are on their way out:     *)
(* some Application of that name still is being worked on, whatever the    *)
(* workers did to each other and whichever calls failed.                   *)
(***************************************************************************)
NoOrphans ==
  Calm => \A o \in cluster : \E a \in Apps :
            NameOf[a] = o.label /\ (app[a].live \/ ~ AtRest(a))

(***************************************************************************)
(* The same of clone directories, as long as an Application never changes  *)
(* its repository.                                                         *)
(***************************************************************************)
NoStaleClone ==
  Calm => \A p \in Paths : clone[p] # Missing =>
            \E a \in Apps : NameOf[a] = p[1] /\ (app[a].live \/ ~ AtRest(a))

(***************************************************************************)
(* An Application at rest has the outcome of its last reconciliation as    *)
(* its health: no interleaving leaves it Progressing or without a health.  *)
(***************************************************************************)
Settled ==
  spent["relist"] = 0 =>
    \A a \in Apps : app[a].live /\ AtRest(a) =>
      app[a].health \in {"Healthy", "Degraded"}

(* With one worker that outcome is success: a failure is always retried. *)
RestIsHealthy ==
  spent["relist"] = 0 =>
    \A a \in Apps : app[a].live /\ AtRest(a) => app[a].health = "Healthy"

(***************************************************************************)
(* An Application at rest that is Healthy at a revision has every manifest *)
(* of that revision in the cluster, under its label and with its spec.     *)
(***************************************************************************)
Applied(a) ==
  LET gen == Manifest[app[a].spec][app[a].rev] IN
    /\ app[a].rev \in Commits
    /\ \A r \in DOMAIN gen : \E o \in cluster :
         /\ o.place = Place(a, r) /\ o.label = NameOf[a]
         /\ SpecPart[o.body] = SpecPart[gen[r]]

HealthyMeansApplied ==
  spent["relist"] = 0 =>
    \A a \in Apps :
      app[a].live /\ AtRest(a) /\ app[a].health = "Healthy" => Applied(a)

(***************************************************************************)
(* While an Application is Healthy none of its objects is deleted.         *)
(***************************************************************************)
HealthyKeepsObjects ==
  [][\A a \in Apps : app[a].live /\ app[a].health = "Healthy" =>
       Labelled(NameOf[a]) \subseteq cluster']_vars

(***************************************************************************)
(* The controller as the users of Applications see it.                     *)
(***************************************************************************)
R == INSTANCE Reconciler WITH
       live <- [a \in Apps |-> app[a].live],
       report <- [a \in Apps |-> app[a].health],
       objects <- [a \in Apps |-> Labelled(NameOf[a]) # {}],
       owed <- [a \in Apps |-> ~ AtRest(a)],
       calm <- Calm

(***************************************************************************)
(* processNextItem is level triggered: no step of any worker touches the   *)
(* status or the objects of an Application that nothing is under way for;  *)
(* the last step about an Application leaves it with an outcome, or        *)
(* cleaned up; a reconciliation that started is reported on, and a         *)
(* deletion is cleaned up in the end, whatever fails on the way.           *)
(***************************************************************************)
LevelTriggered == R!Spec

(***************************************************************************)
(* What an Application created is removed once it is deleted for good:     *)
(* the cleanup is retried until it has succeeded.                          *)
(***************************************************************************)
DeletedIsCleaned ==
  \A a \in Apps : <>[](~ app[a].live) =>
    <>[](/\ Labelled(NameOf[a]) = {}
         /\ \A r \in Repos : clone[<<NameOf[a], r>>] = Missing)

-----------------------------------------------------------------------------
(***************************************************************************)
(* The invariant behind NoOrphans.                                         *)
(***************************************************************************)

(* Worker w will still see object o if it works on Application a. *)
Sees(w, a, o) ==
  /\ task[w].app = a
  /\ \/ pc[w] \in {"lookup", "list_delete"} \cup CreatePath
     \/ pc[w] = "delete" /\ o.place \in job[w].doomed

(* Application a answers for object o: it is live, or an event, an item or *)
(* a worker will lead to a list of its objects that has o.                 *)
AnswersFor(a, o) ==
  \/ app[a].live
  \/ events[a] # <<>>
  \/ \E i \in waiting \cup dirty : i.app = a
  \/ \E w \in Workers : Sees(w, a, o)

Answered ==
  Calm => \A o \in cluster : \E a \in Apps : NameOf[a] = o.label /\ AnswersFor(a, o)

(* The newest undelivered event of a deleted Application is not a "set". *)
EventsEndRight ==
  \A a \in Apps :
    events[a] # <<>> /\ events[a][Len(events[a])].kind = "set" => app[a].live

(* Only a relist makes tombstones. *)
NoTombstones ==
  spent["relist"] = 0 =>
    /\ \A a \in Apps : \A k \in DOMAIN events[a] :
         events[a][k].kind # "tombstone"
    /\ \A i \in waiting : ~ i.tomb
    /\ \A k \in DOMAIN queue : ~ queue[k].tomb
    /\ \A w \in Workers : ~ task[w].tomb

OrphanInv == Answered /\ EventsEndRight /\ NoTombstones

=============================================================================
