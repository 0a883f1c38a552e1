-------------------------- MODULE GitOpsSettledProofs --------------------------
(***************************************************************************)
(* Theorems about what GitOpsController leaves behind: in the rate         *)
(* limiter, in the status, in the clone directories and in the cluster.    *)
(***************************************************************************)
EXTENDS GitOpsControllerProofs, MissedUpdates

-----------------------------------------------------------------------------
(***************************************************************************)
(* What a step of a worker may do to the queue and to the other workers.   *)
(***************************************************************************)
OthersStay(w) == \A v \in Workers \ {w} :
  pc'[v] = pc[v] /\ task'[v] = task[v] /\ job'[v] = job[v]

(* Worker w goes on with its item: along one of the two paths, or reports.  *)
GoesOn(w) ==
  /\ UNCHANGED <<task, waiting>>
  /\ \/ pc[w] = "lookup" /\ pc'[w] = "progressing" /\ app[task[w].app].live
     \/ pc[w] = "lookup" /\ pc'[w] = "list_delete" /\ ~ app[task[w].app].live
     \/ pc[w] \in CreatePath /\ pc'[w] \in CreatePath \ {"progressing"}
     \/ pc[w] \in DeletePath /\ pc'[w] \in DeletePath \ {"list_delete"}
     \/ pc[w] = "done" /\ pc'[w] = "degrade"

(* Worker w is free for the next item.                                      *)
GetsFree(w) ==
  /\ waiting' = waiting /\ pc'[w] = "idle" /\ task'[w] = NoItem
  /\ \/ WriteHealthy(w) /\ app[task[w].app].live
     \/ CleanUp(w) \/ WriteDegraded(w)

(* An error: the item waits for its next attempt.                           *)
TriesAgain(w) ==
  /\ pc[w] \in {"lookup"} \cup CreatePath \cup DeletePath /\ pc'[w] = "done"
  /\ waiting' = waiting \cup {task[w]} /\ task' = task

LEMMA WorkerEffect ==
  ASSUME TypeOK, NEW w \in Workers, Worker(w) \/ CallFails(w), ~ Panic(w), ~ GetItem(w)
  PROVE  /\ OthersStay(w) /\ dirty' = dirty /\ pc[w] # "idle"
         /\ GoesOn(w) \/ GetsFree(w) \/ TriesAgain(w)
<1>1. /\ pc \in [Workers -> Points] /\ task \in [Workers -> Items]
      /\ job \in [Workers -> Jobs]
  BY DEF TypeOK, WorkerTypeOK
<1>2. ASSUME Fail(w), pc[w] \in {"lookup"} \cup CreatePath \cup DeletePath
      PROVE  OthersStay(w) /\ dirty' = dirty /\ pc[w] # "idle" /\ TriesAgain(w)
  BY <1>1, <1>2 DEF Fail, Goto, AddRateLimited, OthersStay, TriesAgain, CreatePath, DeletePath
<1>3. ASSUME NEW l, NEW j, Continue(w, l, j), pc[w] # "idle"
      PROVE  /\ OthersStay(w) /\ dirty' = dirty /\ pc[w] # "idle"
             /\ UNCHANGED <<task, waiting>> /\ pc'[w] = l
  BY <1>1, <1>3 DEF Continue, Goto, queueVars, OthersStay
<1>4. ASSUME Succeed(w), pc[w] # "idle"
      PROVE  /\ OthersStay(w) /\ dirty' = dirty /\ pc[w] # "idle" /\ waiting' = waiting
             /\ pc'[w] = "idle" /\ task'[w] = NoItem
  BY <1>1, <1>4 DEF Succeed, Goto, Finish, Done, OthersStay
<1>5. CASE LookUp(w)
  BY <1>3, <1>5 DEF LookUp, GoesOn
<1>6. CASE WriteProgressing(w)
  BY <1>2, <1>3, <1>6 DEF WriteProgressing, GoesOn, CreatePath
<1>7. CASE CloneOrFetch(w)
  BY <1>2, <1>3, <1>7 DEF CloneOrFetch, GoesOn, CreatePath
<1>8. CASE Checkout(w)
  BY <1>2, <1>3, <1>8 DEF Checkout, GoesOn, CreatePath
<1>9. CASE GenerateManifests(w)
  BY <1>2, <1>3, <1>9 DEF GenerateManifests, GoesOn, CreatePath
<1>10. CASE ListAndDiff(w)
  BY <1>3, <1>10 DEF ListAndDiff, CreateFrom, GoesOn, CreatePath
<1>11. CASE CreateResource(w)
  BY <1>2, <1>3, <1>11 DEF CreateResource, CreateFrom, GoesOn, CreatePath
<1>12. CASE WriteHealthy(w)
  BY <1>2, <1>4, <1>12 DEF WriteHealthy, updateAppStatus, GetsFree, CreatePath
<1>13. CASE DeferredDone(w)
  BY <1>1, <1>13 DEF DeferredDone, Goto, Done, OthersStay, GoesOn
<1>14. CASE WriteDegraded(w)
  BY <1>1, <1>14 DEF WriteDegraded, Goto, queueVars, OthersStay, GetsFree
<1>15. CASE ListForDelete(w)
  <2>1. /\ pc[w] = "list_delete"
        /\ \E l \in {"delete", "cleanup"}, j \in Jobs \cup {job'[w]} : Continue(w, l, j)
    BY <1>1, <1>15 DEF ListForDelete, DeleteFrom, Continue, Goto
  <2>2. QED
    BY <1>3, <2>1 DEF GoesOn, DeletePath
<1>16. CASE DeleteResource(w)
  BY <1>2, <1>3, <1>16 DEF DeleteResource, DeleteFrom, GoesOn, DeletePath
<1>17. CASE CleanUp(w)
  BY <1>2, <1>4, <1>17 DEF CleanUp, GetsFree, DeletePath
<1>18. CASE CallFails(w)
  BY <1>2, <1>18 DEF CallFails
<1>19. QED
  BY <1>5, <1>6, <1>7, <1>8, <1>9, <1>10, <1>11, <1>12, <1>13, <1>14, <1>15,
     <1>16, <1>17, <1>18 DEF Worker

(* What it may do to the processing set and to the rate limiter.            *)
Counts(w) ==
  \/ processing' = processing /\ failures' = failures
  \/ /\ processing' = processing /\ failures' = failures \cup {task[w]}
     /\ task[w] \in waiting'
  \/ DeferredDone(w)
  \/ processing' = processing \ {task[w]} /\ failures' = failures \ {task[w]}

LEMMA LimiterEffect ==
  ASSUME NEW w \in Workers, Worker(w) \/ CallFails(w), ~ Panic(w), ~ GetItem(w)
  PROVE  Counts(w)
<1>1. Fail(w) => Counts(w)
  BY DEF Fail, AddRateLimited, Counts
<1>2. Succeed(w) => Counts(w)
  BY DEF Succeed, Finish, Done, Counts
<1>3. ASSUME NEW l, NEW j, Continue(w, l, j) PROVE Counts(w)
  BY <1>3 DEF Continue, queueVars, Counts
<1>4. CASE LookUp(w) \/ WriteProgressing(w) \/ CloneOrFetch(w) \/ Checkout(w)
           \/ GenerateManifests(w)
  BY <1>1, <1>3, <1>4 DEF LookUp, WriteProgressing, CloneOrFetch, Checkout,
     GenerateManifests
<1>5. CASE ListAndDiff(w) \/ CreateResource(w)
  BY <1>1, <1>3, <1>5 DEF ListAndDiff, CreateResource, CreateFrom
<1>6. CASE WriteHealthy(w) \/ CleanUp(w) \/ CallFails(w)
  BY <1>1, <1>2, <1>6 DEF WriteHealthy, CleanUp, CallFails
<1>7. CASE ListForDelete(w) \/ DeleteResource(w)
  BY <1>1, <1>3, <1>7 DEF ListForDelete, DeleteResource, DeleteFrom
<1>8. CASE DeferredDone(w) \/ WriteDegraded(w)
  BY <1>8 DEF WriteDegraded, queueVars, Counts
<1>9. QED
  BY <1>4, <1>5, <1>6, <1>7, <1>8 DEF Worker

(* What the calls of a worker do to an Application, and to the informer.     *)
LEMMA WorkerStatus ==
  ASSUME TypeOK, NEW w \in Workers, Worker(w) \/ CallFails(w), ~ Panic(w)
  PROVE  /\ events' = events /\ cache' = cache /\ app' \in [Apps -> AppStates]
         /\ \A a \in Apps :
              /\ app'[a].live = app[a].live /\ app'[a].spec = app[a].spec
              /\ \/ app'[a].health = app[a].health
                 \/ /\ a = task[w].app /\ app[a].live
                    /\ \/ pc[w] = "progressing" /\ app'[a].health = "Progressing"
                       \/ pc[w] = "healthy" /\ app'[a].health = "Healthy"
                       \/ pc[w] = "degrade" /\ app'[a].health = "Degraded"
<1>1. task[w].app \in Apps /\ app \in [Apps -> AppStates]
  BY DEF TypeOK, StoreTypeOK, WorkerTypeOK, Items
<1>2. app' \in [Apps -> AppStates]
  BY TypeNext DEF Next, TypeOK, StoreTypeOK
<1>3. ASSUME NEW h, NEW r, updateAppStatus(task[w].app, h, r)
      PROVE  /\ app[task[w].app].live
             /\ \A a \in Apps : /\ app'[a].live = app[a].live /\ app'[a].spec = app[a].spec
                                /\ a # task[w].app => app'[a] = app[a]
             /\ app'[task[w].app].health = h
  BY <1>1, <1>3 DEF updateAppStatus, AppStates
<1>4. CASE WriteProgressing(w)
  BY <1>2, <1>3, <1>4 DEF WriteProgressing, informerVars
<1>5. CASE WriteHealthy(w)
  BY <1>2, <1>3, <1>5 DEF WriteHealthy, informerVars
<1>6. CASE WriteDegraded(w)
  BY <1>2, <1>3, <1>6 DEF WriteDegraded, informerVars
<1>7. CASE ~ (WriteProgressing(w) \/ WriteHealthy(w) \/ WriteDegraded(w))
  BY <1>2, <1>7 DEF Worker, GetItem, LookUp, CloneOrFetch, Checkout, GenerateManifests,
     ListAndDiff, CreateResource, DeferredDone, ListForDelete, DeleteResource,
     CleanUp, CallFails, informerVars
<1>8. QED
  BY <1>4, <1>5, <1>6, <1>7

(* The worker takes the first item of the queue, which was dirty.           *)
LEMMA GetEffect ==
  ASSUME TypeOK, ItemExclusive, NEW w \in Workers, GetItem(w)
  PROVE  /\ OthersStay(w) /\ pc[w] = "idle" /\ pc'[w] = "lookup" /\ waiting' = waiting
         /\ task'[w] \in Items /\ task'[w] \in dirty \ processing
         /\ dirty' = dirty \ {task'[w]} /\ processing' = processing \cup {task'[w]}
         /\ UNCHANGED <<app, cluster, clone, informerVars, failures, job, spent>>
<1>1. queue \in Seq(Items) /\ queue # <<>> /\ task'[w] = Head(queue)
  BY DEF GetItem, Get, TypeOK, QueueTypeOK, WorkerTypeOK
<1>2. Head(queue) \in Items /\ Head(queue) = queue[1] /\ 1 \in DOMAIN queue
  BY <1>1, TailElements
<1>3. Head(queue) \in dirty \ processing
  BY <1>2 DEF ItemExclusive
<1>4. QED
  BY <1>1, <1>2, <1>3 DEF GetItem, Get, Goto, OthersStay, TypeOK, WorkerTypeOK

(* So do the other workers, which take no part in it.                        *)
LEMMA GetOthers ==
  ASSUME TypeOK, NEW w \in Workers, GetItem(w)
  PROVE  OthersStay(w)
BY DEF GetItem, Goto, OthersStay, TypeOK, WorkerTypeOK

-----------------------------------------------------------------------------
(***************************************************************************)
(* NoLimiterLeak.  Between AddRateLimited and the deferred Done the item   *)
(* is counted already and still being processed: it must not get lost      *)
(* when its delay is over in between.                                      *)
(***************************************************************************)
LimiterInv ==
  /\ NoLimiterLeak
  /\ \A w \in Workers : pc[w] = "done" => task[w] \in waiting \cup dirty

LEMMA LimiterNext ==
  TypeOK /\ ItemExclusive /\ LimiterInv /\ [Next]_vars => LimiterInv'
<1> SUFFICES ASSUME TypeOK, ItemExclusive, LimiterInv, [Next]_vars PROVE LimiterInv'
  OBVIOUS
<1> USE DEF LimiterInv, NoLimiterLeak, Outstanding
<1>1. CASE UNCHANGED <<queueVars, workerVars>>
  BY <1>1 DEF queueVars, workerVars
<1>2. ASSUME NEW a \in Apps, Deliver(a) PROVE LimiterInv'
  <2>1. \/ UNCHANGED queueVars
        \/ \E i : waiting' = waiting \cup {i} /\ failures' = failures \cup {i}
                  /\ UNCHANGED <<dirty, processing>>
    BY <1>2 DEF Deliver, handleAdd, handleUdate, handleDelete, AddRateLimited
  <2>2. UNCHANGED workerVars
    BY <1>2 DEF Deliver
  <2>3. QED
    BY <2>1, <2>2 DEF queueVars, workerVars
<1>3. ASSUME NEW i \in waiting, DelayOver(i) PROVE LimiterInv'
  BY <1>3 DEF DelayOver, Ready, workerVars
<1>4. CASE Restart
  BY <1>4 DEF Restart, QueueReset
<1>5. ASSUME NEW w \in Workers, GetItem(w) PROVE LimiterInv'
  <2>1. \A v \in Workers \ {w} : pc[v] = "done" => task[v] \in processing
    BY DEF ItemExclusive
  <2>2. QED
    BY <1>5, <2>1, GetEffect DEF OthersStay
<1>6. ASSUME NEW w \in Workers, Worker(w) \/ CallFails(w), ~ Panic(w), ~ GetItem(w)
      PROVE  LimiterInv'
  <2>1. /\ OthersStay(w) /\ dirty' = dirty /\ pc[w] # "idle"
        /\ GoesOn(w) \/ GetsFree(w) \/ TriesAgain(w)
    BY <1>6, WorkerEffect
  <2>2. \A v \in Workers : pc'[v] = "done" => task'[v] \in waiting' \cup dirty'
    BY <2>1 DEF OthersStay, GoesOn, GetsFree, TriesAgain, CreatePath, DeletePath
  <2>3. CASE ~ DeferredDone(w)
    BY <1>6, <2>1, <2>2, <2>3, LimiterEffect
    DEF OthersStay, GoesOn, GetsFree, TriesAgain, Counts
  <2>4. CASE DeferredDone(w)
    <3>1. /\ pc[w] = "done" /\ waiting' = waiting /\ failures' = failures
          /\ processing' = processing \ {task[w]}
      BY <2>4 DEF DeferredDone, Done
    <3>2. QED
      BY <2>1, <2>2, <3>1
  <2>5. QED
    BY <2>3, <2>4
<1>7. CASE User \/ Relist \/ UNCHANGED vars
  BY <1>1, <1>7 DEF User, CreateApplication, UpdateSpec, DeleteApplication, Commit,
     Relist, vars
<1>8. QED
  BY <1>2, <1>3, <1>4, <1>5, <1>6, <1>7 DEF Next, Crash, Panic

(***************************************************************************)
(* The rate limiter of NewController keeps no count for an item that       *)
(* processNextItem is through with: every path that drops an item calls    *)
(* Forget, for any number of workers and any interleaving of the delays.   *)
(***************************************************************************)
THEOREM NoLimiterLeakEver == Spec => []NoLimiterLeak
<1>1. Init => LimiterInv
  BY DEF Init, QueueInit, LimiterInv, NoLimiterLeak
<1>2. LimiterInv => NoLimiterLeak
  BY DEF LimiterInv
<1>3. QED
  BY <1>1, <1>2, LimiterNext, TypeCorrect, ItemExclusiveEver, PTL DEF Spec

-----------------------------------------------------------------------------
(***************************************************************************)
(* What handleUdate compares a new spec with.  The newest event that is not *)
(* delivered yet says what the API server has; when it is delivered the    *)
(* cache says so.                                                          *)
(***************************************************************************)
Newest(a) == events[a][Len(events[a])]

Agrees(a) ==
  IF events[a] = <<>>
  THEN (cache[a].known <=> app[a].live) /\ (app[a].live => cache[a].spec = app[a].spec)
  ELSE /\ Newest(a).kind = "set" <=> app[a].live
       /\ app[a].live => Newest(a).spec = app[a].spec

CacheInv == \A a \in Apps : Agrees(a)

(* Users announce what they do at the end of the events.                     *)
LEMMA NewestIsLast ==
  ASSUME TypeOK, NEW a \in Apps, NEW e,
         events' = [events EXCEPT ![a] = Append(@, e)]
  PROVE  /\ events'[a] # <<>> /\ Newest(a)' = e
         /\ DOMAIN events'[a] = DOMAIN events[a] \cup {Len(events[a]) + 1}
         /\ \A k \in DOMAIN events[a] : events'[a][k] = events[a][k]
         /\ events'[a][Len(events[a]) + 1] = e
<1>1. events[a] \in Seq(Events \cup {e}) /\ events'[a] = Append(events[a], e)
  BY DEF TypeOK, InformerTypeOK
<1>2. QED
  BY <1>1, AppendElements DEF Newest

(* What a list says is right, for the cache it is compared with.             *)
LEMMA ListedAgrees ==
  ASSUME NEW a \in Apps, app' = app, events'[a] = Listed(a, cache'[a])
  PROVE  Agrees(a)'
<1>1. CASE app[a].live
  <2>1. /\ events'[a] # <<>> /\ Len(events'[a]) = 1
        /\ events'[a][1] = [kind |-> "set", ver |-> app[a].ver, spec |-> app[a].spec]
    BY <1>1 DEF Listed
  <2>2. QED
    BY <1>1, <2>1 DEF Agrees, Newest
<1>2. CASE ~ app[a].live /\ cache'[a].known
  <2>1. /\ events'[a] # <<>> /\ Len(events'[a]) = 1
        /\ events'[a][1].kind = "tombstone"
    BY <1>2 DEF Listed
  <2>2. QED
    BY <1>2, <2>1 DEF Agrees, Newest
<1>3. CASE ~ app[a].live /\ ~ cache'[a].known
  BY <1>3 DEF Listed, Agrees
<1>4. QED
  BY <1>1, <1>2, <1>3

(* CacheInv is inductive.                                                    *)
LEMMA CacheNext == TypeOK /\ CacheInv /\ [Next]_vars => CacheInv'
<1> SUFFICES ASSUME TypeOK, CacheInv, [Next]_vars PROVE CacheInv'
  OBVIOUS
<1>1. /\ app \in [Apps -> AppStates] /\ events \in [Apps -> Seq(Events)]
      /\ cache \in [Apps -> [known : BOOLEAN, ver : Versions, spec : Specs]]
  BY DEF TypeOK, StoreTypeOK, InformerTypeOK
<1>2. ASSUME NEW a \in Apps, UNCHANGED cache, NEW e,
             events' = [events EXCEPT ![a] = Append(@, e)],
             \A b \in Apps \ {a} : app'[b] = app[b],
             e.kind = "set" <=> app'[a].live, app'[a].live => e.spec = app'[a].spec
      PROVE  CacheInv'
  <2>1. Agrees(a)'
    <3>1. events'[a] # <<>> /\ Newest(a)' = e
      BY <1>2, NewestIsLast
    <3>2. QED
      BY <1>2, <3>1 DEF Agrees
  <2>2. \A b \in Apps \ {a} : Agrees(b)'
    BY <1>1, <1>2 DEF CacheInv, Agrees, Newest
  <2>3. QED
    BY <2>1, <2>2 DEF CacheInv
<1>3. ASSUME NEW a \in Apps, NEW s \in Specs, CreateApplication(a, s) PROVE CacheInv'
  <2>1. app'[a].live /\ app'[a].spec = s /\ \A b \in Apps \ {a} : app'[b] = app[b]
    BY <1>1, <1>3 DEF CreateApplication
  <2>2. QED
    BY <1>2, <1>3, <2>1 DEF CreateApplication
<1>4. ASSUME NEW a \in Apps, NEW s \in Specs, UpdateSpec(a, s) PROVE CacheInv'
  <2>1. app'[a].live /\ app'[a].spec = s /\ \A b \in Apps \ {a} : app'[b] = app[b]
    BY <1>1, <1>4 DEF UpdateSpec, AppStates
  <2>2. QED
    BY <1>2, <1>4, <2>1 DEF UpdateSpec
<1>5. ASSUME NEW a \in Apps, DeleteApplication(a) PROVE CacheInv'
  <2>1. ~ app'[a].live /\ \A b \in Apps \ {a} : app'[b] = app[b]
    BY <1>1, <1>5 DEF DeleteApplication
  <2>2. QED
    BY <1>2, <1>5, <2>1 DEF DeleteApplication
<1>6. ASSUME NEW a \in Apps, Deliver(a) PROVE CacheInv'
  <2> DEFINE e == Head(events[a])
  <2>1. /\ app' = app /\ events[a] # <<>> /\ events'[a] = Tail(events[a])
        /\ \A b \in Apps \ {a} : events'[b] = events[b] /\ cache'[b] = cache[b]
        /\ cache'[a].known <=> e.kind = "set"
        /\ e.kind = "set" => cache'[a].spec = e.spec
    BY <1>1, <1>6 DEF Deliver, Unknown
  <2>2. Agrees(a)'
    <3>1. /\ 1 \in DOMAIN events[a] /\ e = events[a][1]
          /\ Tail(events[a]) \in Seq(Events) /\ Len(Tail(events[a])) = Len(events[a]) - 1
          /\ \A k \in DOMAIN Tail(events[a]) : Tail(events[a])[k] = events[a][k + 1]
      BY <1>1, <2>1, TailElements
    <3>2. CASE events'[a] = <<>>
      <4>1. Len(events[a]) \in Nat /\ Len(events'[a]) = 0
        BY <1>1, <3>2
      <4>2. Newest(a) = e
        BY <2>1, <3>1, <4>1 DEF Newest
      <4>3. QED
        BY <1>1, <2>1, <3>2, <4>2 DEF CacheInv, Agrees
    <3>3. CASE events'[a] # <<>>
      <4>1. Newest(a)' = Newest(a)
        BY <1>1, <2>1, <3>1, <3>3 DEF Newest
      <4>2. QED
        BY <2>1, <3>3, <4>1 DEF CacheInv, Agrees
    <3>4. QED
      BY <3>2, <3>3
  <2>3. \A b \in Apps \ {a} : Agrees(b)'
    BY <2>1 DEF CacheInv, Agrees, Newest
  <2>4. QED
    BY <2>2, <2>3 DEF CacheInv
<1>7. CASE Relist
  BY <1>7, ListedAgrees DEF Relist, CacheInv
<1>8. ASSUME Restart PROVE CacheInv'
  <2>1. app' = app /\ \A a \in Apps : events'[a] = Listed(a, cache'[a])
    BY <1>8 DEF Restart
  <2>2. QED
    BY <2>1, ListedAgrees DEF CacheInv
<1>9. ASSUME NEW w \in Workers, Worker(w) \/ CallFails(w), ~ Panic(w) PROVE CacheInv'
  BY <1>9, WorkerStatus DEF CacheInv, Agrees, Newest
<1>10. CASE \/ UNCHANGED vars \/ \E i \in waiting : DelayOver(i)
            \/ \E r \in Repos : Commit(r)
  BY <1>10 DEF vars, informerVars, DelayOver, Commit, CacheInv, Agrees, Newest
<1>11. QED
  BY <1>3, <1>4, <1>5, <1>6, <1>7, <1>8, <1>9, <1>10 DEF Next, User, Crash, Panic

LEMMA CacheInit == Init => CacheInv
BY DEF Init, CacheInv, Agrees, Unknown

-----------------------------------------------------------------------------
(***************************************************************************)
(* Settled and RestIsHealthy.  An Application without an outcome is one    *)
(* that an event will queue, that is queued, or that a worker is to report *)
(* on.  The outcomes are those of a set H: with any number of workers      *)
(* Healthy and Degraded, with one worker Healthy only.                     *)
(***************************************************************************)

(* Event k of Application a shows the handlers a new spec.                  *)
IsNews(a, k) ==
  /\ events[a][k].kind = "set"
  /\ IF k = 1 THEN ~ cache[a].known \/ cache[a].spec # events[a][1].spec
              ELSE \/ events[a][k - 1].kind # "set"
                   \/ events[a][k - 1].spec # events[a][k].spec

WillQueue(a) == \E k \in DOMAIN events[a] : IsNews(a, k)

(* Worker w has yet to write a health of Application a.                     *)
ToReport(w, a) == task[w].app = a /\ pc[w] \in {"lookup"} \cup CreatePath

Reports(a) ==
  \/ WillQueue(a)
  \/ \E i \in waiting \cup dirty : i.app = a
  \/ \E w \in Workers : ToReport(w, a)

Outcome(H, a) == app[a].health \in H

SettledInv(H) ==
  spent["relist"] = 0 =>
    \A a \in Apps : app[a].live /\ ~ Outcome(H, a) => Reports(a)

(* A worker that reports a failure has its item in the queue again.         *)
Retries == \A w \in Workers : pc[w] \in {"done", "degrade"} =>
             \E i \in waiting \cup dirty : i.app = task[w].app

(* Before a relist there was none, and no worker panics.                    *)
LEMMA BeforeRelist ==
  ASSUME TypeOK, NoTombstones, [Next]_vars, spent'["relist"] = 0
  PROVE  spent["relist"] = 0 /\ ~ Relist /\ \A w \in Workers : ~ Panic(w)
<1>1. spent \in [Trouble -> Nat]
  BY DEF TypeOK
<1>2. UNCHANGED spent \/ \E t \in Trouble : Spend(t)
  BY WorkerSpends DEF Next, User, CreateApplication, UpdateSpec, DeleteApplication,
     Commit, Deliver, DelayOver, Relist, Crash, Trouble, vars
<1>3. spent["relist"] = 0 /\ ~ Relist
  BY <1>1, <1>2, SpentGrows DEF Relist, Trouble
<1>4. QED
  BY <1>3 DEF Panic, NoTombstones

(* A new event takes no news away.                                           *)
LEMMA NewsStay ==
  ASSUME TypeOK, NEW a \in Apps, NEW e, UNCHANGED cache,
         events' = [events EXCEPT ![a] = Append(@, e)],
         NEW b \in Apps, WillQueue(b)
  PROVE  WillQueue(b)'
<1>1. events \in [Apps -> Seq(Events)]
  BY DEF TypeOK, InformerTypeOK
<1>2. CASE b # a
  BY <1>1, <1>2 DEF WillQueue, IsNews
<1>3. CASE b = a
  <2>1. PICK k \in DOMAIN events[a] : IsNews(a, k)
    BY <1>3 DEF WillQueue
  <2>2. /\ k \in DOMAIN events'[a] /\ events'[a][k] = events[a][k]
        /\ 1 \in DOMAIN events[a] /\ events'[a][1] = events[a][1]
        /\ k # 1 => k - 1 \in DOMAIN events[a] /\ events'[a][k - 1] = events[a][k - 1]
    <3>1. events[a] \in Seq(Events)
      BY <1>1
    <3>2. 1 \in DOMAIN events[a] /\ (k # 1 => k - 1 \in DOMAIN events[a])
      BY <2>1, <3>1
    <3>3. k \in DOMAIN events'[a] /\ \A j \in DOMAIN events[a] : events'[a][j] = events[a][j]
      BY <2>1, NewestIsLast
    <3>4. QED
      BY <2>1, <3>2, <3>3
  <2>3. IsNews(a, k)'
    BY <2>1, <2>2 DEF IsNews
  <2>4. QED
    BY <1>3, <2>2, <2>3 DEF WillQueue
<1>4. QED
  BY <1>2, <1>3

(* A new event is news if it differs from the newest one, or from the cache. *)
LEMMA NewestIsNews ==
  ASSUME TypeOK, NEW a \in Apps, NEW e, UNCHANGED cache,
         events' = [events EXCEPT ![a] = Append(@, e)], e.kind = "set",
         events[a] = <<>> => ~ cache[a].known \/ cache[a].spec # e.spec,
         events[a] # <<>> => Newest(a).kind # "set" \/ Newest(a).spec # e.spec
  PROVE  WillQueue(a)'
<1>1. events[a] \in Seq(Events)
  BY DEF TypeOK, InformerTypeOK
<1>2. PICK n : /\ n = Len(events[a]) + 1
               /\ n \in DOMAIN events'[a] /\ events'[a][n] = e
               /\ \A k \in DOMAIN events[a] : events'[a][k] = events[a][k]
  <2>1. /\ DOMAIN events'[a] = DOMAIN events[a] \cup {Len(events[a]) + 1}
        /\ \A k \in DOMAIN events[a] : events'[a][k] = events[a][k]
        /\ events'[a][Len(events[a]) + 1] = e
    BY NewestIsLast
  <2>2. QED
    BY <2>1
<1>3. CASE events[a] = <<>>
  <2>1. n = 1
    BY <1>2, <1>3
  <2>2. IsNews(a, 1)'
    BY <1>2, <1>3, <2>1 DEF IsNews
  <2>3. QED
    BY <1>2, <2>1, <2>2 DEF WillQueue
<1>4. CASE events[a] # <<>>
  <2>1. n - 1 = Len(events[a]) /\ Len(events[a]) \in DOMAIN events[a] /\ n # 1
    BY <1>1, <1>2, <1>4
  <2>2. events'[a][n - 1] = Newest(a)
    BY <1>2, <2>1 DEF Newest
  <2>3. IsNews(a, n)'
    BY <1>2, <1>4, <2>1, <2>2 DEF IsNews
  <2>4. QED
    BY <1>2, <2>3 DEF WillQueue
<1>5. QED
  BY <1>3, <1>4

(* Creating an Application is news: no older event, and no copy in the      *)
(* cache, says that there is one.  An edit is news as well: it differs from  *)
(* what they say.                                                            *)
LEMMA UsersMakeNews ==
  ASSUME TypeOK, CacheInv, NEW a \in Apps, NEW s \in Specs,
         CreateApplication(a, s) \/ UpdateSpec(a, s)
  PROVE  WillQueue(a)'
<1> DEFINE e == [kind |-> "set", ver |-> app[a].ver + 1, spec |-> s]
<1>1. events' = [events EXCEPT ![a] = Append(@, e)] /\ UNCHANGED cache
  BY DEF CreateApplication, UpdateSpec
<1>2. e.kind = "set" /\ e.spec = s
  OBVIOUS
<1>3. ~ app[a].live \/ app[a].spec # s
  BY DEF CreateApplication, UpdateSpec
<1>4. events[a] = <<>> => ~ cache[a].known \/ cache[a].spec # e.spec
  BY <1>2, <1>3 DEF CacheInv, Agrees
<1>5. events[a] # <<>> => Newest(a).kind # "set" \/ Newest(a).spec # e.spec
  BY <1>2, <1>3 DEF CacheInv, Agrees
<1> HIDE DEF e
<1>6. QED
  BY <1>1, <1>2, <1>4, <1>5, NewestIsNews

(* What is news stays news until it is delivered, and then it is queued.     *)
LEMMA NewsAreQueued ==
  ASSUME TypeOK, NEW a \in Apps, Deliver(a), WillQueue(a)
  PROVE  WillQueue(a)' \/ \E i \in waiting' : i.app = a
<1> DEFINE e == Head(events[a])
<1>1. /\ events[a] \in Seq(Events) /\ events[a] # <<>> /\ events'[a] = Tail(events[a])
      /\ cache \in [Apps -> [known : BOOLEAN, ver : Versions, spec : Specs]]
  BY DEF Deliver, TypeOK, InformerTypeOK
<1>2. /\ 1 \in DOMAIN events[a] /\ e = events[a][1]
      /\ events'[a] \in Seq(Events) /\ Len(events'[a]) = Len(events[a]) - 1
      /\ \A k \in DOMAIN events'[a] : events'[a][k] = events[a][k + 1]
  BY <1>1, TailElements
<1>3. PICK k \in DOMAIN events[a] : IsNews(a, k)
  BY DEF WillQueue
<1>4. CASE k = 1
  <2>1. e.kind = "set" /\ (~ cache[a].known \/ cache[a].spec # e.spec)
    BY <1>2, <1>3, <1>4 DEF IsNews
  <2>2. AddRateLimited(Item(a, e))
    BY <2>1 DEF Deliver, handleAdd, handleUdate
  <2>3. Item(a, e) \in waiting' /\ Item(a, e).app = a
    BY <2>2 DEF AddRateLimited, Item
  <2>4. QED
    BY <2>3
<1>5. CASE k # 1
  <2>1. k - 1 \in DOMAIN events'[a] /\ k - 1 + 1 = k
    BY <1>1, <1>2, <1>3, <1>5
  <2>2. events'[a][k - 1] = events[a][k]
    BY <1>2, <2>1
  <2>3. /\ k - 1 \in DOMAIN events'[a] /\ k - 1 + 1 = k
        /\ events'[a][k - 1] = events[a][k] /\ events[a][k].kind = "set"
        /\ \/ events[a][k - 1].kind # "set"
           \/ events[a][k - 1].spec # events[a][k].spec
    BY <1>3, <1>5, <2>1, <2>2 DEF IsNews
  <2>4. CASE k - 1 = 1
    <3>1. IF e.kind = "set" THEN cache'[a].spec = e.spec ELSE ~ cache'[a].known
      BY <1>1 DEF Deliver, Unknown
    <3>2. IsNews(a, 1)'
      BY <1>2, <2>3, <2>4, <3>1 DEF IsNews
    <3>3. QED
      BY <2>3, <2>4, <3>2 DEF WillQueue
  <2>5. CASE k - 1 # 1
    <3>1. k - 2 \in DOMAIN events'[a] /\ (k - 1) - 1 = k - 2 /\ k - 2 + 1 = k - 1
      BY <1>1, <1>2, <1>3, <1>5, <2>5
    <3>2. events'[a][k - 2] = events[a][k - 1]
      BY <1>2, <3>1
    <3>3. IsNews(a, k - 1)'
      BY <2>3, <2>5, <3>1, <3>2 DEF IsNews
    <3>4. QED
      BY <2>3, <3>3 DEF WillQueue
  <2>6. QED
    BY <2>4, <2>5
<1>6. QED
  BY <1>4, <1>5

(* A list tells a new process of every Application there is.                 *)
LEMMA RestartIsNews ==
  ASSUME Restart, NEW a \in Apps, app[a].live
  PROVE  WillQueue(a)'
<1>1. /\ ~ cache'[a].known
      /\ events'[a] = <<[kind |-> "set", ver |-> app[a].ver, spec |-> app[a].spec]>>
  BY DEF Restart, Listed, Unknown
<1>2. 1 \in DOMAIN events'[a] /\ events'[a][1].kind = "set"
  BY <1>1
<1>3. QED
  BY <1>1, <1>2 DEF WillQueue, IsNews

(* No worker drops a live Application before it has reported that it is      *)
(* Healthy.                                                                  *)
LEMMA WorkerKeeps ==
  ASSUME TypeOK, ItemExclusive, NEW w \in Workers, Worker(w) \/ CallFails(w),
         ~ Panic(w), NEW a \in Apps, app[a].live, Reports(a),
         ~ (WriteHealthy(w) /\ task[w].app = a)
  PROVE  Reports(a)'
<1>1. events' = events /\ cache' = cache
  BY WorkerStatus
<1>2. WillQueue(a) => WillQueue(a)'
  BY <1>1 DEF WillQueue, IsNews
<1>3. CASE GetItem(w)
  <2>1. ASSUME NEW i \in waiting \cup dirty, i.app = a PROVE Reports(a)'
    BY <1>3, <2>1, GetEffect DEF Reports, ToReport
  <2>2. ASSUME NEW v \in Workers, ToReport(v, a) PROVE Reports(a)'
    BY <1>3, <2>2, GetEffect DEF Reports, ToReport, OthersStay, CreatePath
  <2>3. QED
    BY <1>2, <2>1, <2>2 DEF Reports
<1>4. CASE ~ GetItem(w)
  <2>1. OthersStay(w) /\ dirty' = dirty /\ (GoesOn(w) \/ GetsFree(w) \/ TriesAgain(w))
    BY <1>4, WorkerEffect
  <2>2. waiting \subseteq waiting'
    BY <2>1 DEF GoesOn, GetsFree, TriesAgain
  <2>3. ASSUME NEW v \in Workers, ToReport(v, a), v # w PROVE Reports(a)'
    BY <2>1, <2>3 DEF Reports, ToReport, OthersStay
  <2>4. ASSUME ToReport(w, a) PROVE Reports(a)'
    <3>1. CASE GoesOn(w)
      <4>1. task'[w].app = a /\ pc'[w] \in CreatePath
        BY <2>4, <3>1 DEF GoesOn, ToReport, CreatePath, DeletePath
      <4>2. QED
        BY <4>1 DEF Reports, ToReport
    <3>2. CASE GetsFree(w)
      BY <2>4, <3>2 DEF GetsFree, ToReport, CleanUp, WriteDegraded, CreatePath
    <3>3. CASE TriesAgain(w)
      BY <2>4, <3>3 DEF TriesAgain, Reports, ToReport
    <3>4. QED
      BY <2>1, <3>1, <3>2, <3>3
  <2>5. QED
    BY <1>2, <2>1, <2>2, <2>3, <2>4 DEF Reports
<1>5. QED
  BY <1>3, <1>4

(* So none drops it before it has an outcome.                                *)
LEMMA WorkerReports ==
  ASSUME TypeOK, ItemExclusive, NEW w \in Workers, Worker(w) \/ CallFails(w),
         ~ Panic(w), NEW H, "Healthy" \in H, "Degraded" \in H \/ Retries,
         NEW a \in Apps, app'[a].live, ~ Outcome(H, a)', ~ Outcome(H, a) => Reports(a)
  PROVE  Reports(a)'
<1>1. /\ app'[a].live = app[a].live
      /\ \/ app'[a].health = app[a].health
         \/ /\ a = task[w].app /\ app[a].live
            /\ \/ pc[w] = "progressing" /\ app'[a].health = "Progressing"
               \/ pc[w] = "healthy" /\ app'[a].health = "Healthy"
               \/ pc[w] = "degrade" /\ app'[a].health = "Degraded"
  BY WorkerStatus
<1>2. Reports(a)
  BY <1>1 DEF Outcome, Reports, ToReport, CreatePath, Retries
<1>3. ~ (WriteHealthy(w) /\ task[w].app = a)
  <2>1. SUFFICES ASSUME WriteHealthy(w), task[w].app = a PROVE FALSE
    OBVIOUS
  <2>2. updateAppStatus(a, "Healthy", job[w].sha)
    BY <1>1, <2>1 DEF WriteHealthy
  <2>3. app'[a].health = "Healthy"
    BY <2>2 DEF updateAppStatus, TypeOK, StoreTypeOK, AppStates
  <2>4. QED
    BY <2>3 DEF Outcome
<1>4. QED
  BY <1>1, <1>2, <1>3, WorkerKeeps

(* No step but a relist leaves an Application without an outcome and without *)
(* a report to come.                                                         *)
LEMMA ReportsStay ==
  ASSUME TypeOK, ItemExclusive, CacheInv, NEW H,
         "Healthy" \in H, "Degraded" \in H \/ Retries, [Next]_vars, ~ Relist,
         NEW a \in Apps, app'[a].live, ~ Outcome(H, a)',
         app[a].live /\ ~ Outcome(H, a) => Reports(a)
  PROVE  Reports(a)'
<1>2. app[a].live /\ ~ Outcome(H, a) => Reports(a)
  OBVIOUS
<1>3. app \in [Apps -> AppStates] /\ events \in [Apps -> Seq(Events)]
  BY DEF TypeOK, StoreTypeOK, InformerTypeOK
<1>4. ASSUME waiting \cup dirty \subseteq waiting' \cup dirty', UNCHANGED workerVars,
             Reports(a), WillQueue(a) => WillQueue(a)'
      PROVE  Reports(a)'
  BY <1>4 DEF Reports, ToReport, workerVars
<1>5. ASSUME NEW b \in Apps, NEW s \in Specs, CreateApplication(b, s) PROVE Reports(a)'
  <2>1. CASE a = b
    BY <1>5, <2>1, UsersMakeNews DEF Reports
  <2>2. CASE a # b
    <3>1. app'[a] = app[a]
      BY <1>3, <1>5, <2>2 DEF CreateApplication
    <3>2. Reports(a) /\ (WillQueue(a) => WillQueue(a)')
      BY <1>2, <1>5, <3>1, NewsStay DEF CreateApplication, Outcome
    <3>3. QED
      BY <1>4, <1>5, <3>2 DEF CreateApplication, queueVars
  <2>3. QED
    BY <2>1, <2>2
<1>6. ASSUME NEW b \in Apps, NEW s \in Specs, UpdateSpec(b, s) PROVE Reports(a)'
  <2>1. app'[a].live = app[a].live /\ app'[a].health = app[a].health
    BY <1>3, <1>6 DEF UpdateSpec, AppStates
  <2>2. Reports(a) /\ (WillQueue(a) => WillQueue(a)')
    BY <1>2, <1>6, <2>1, NewsStay DEF UpdateSpec, Outcome
  <2>3. QED
    BY <1>4, <1>6, <2>2 DEF UpdateSpec, queueVars
<1>7. ASSUME NEW b \in Apps, DeleteApplication(b) PROVE Reports(a)'
  <2>1. app'[a] = app[a]
    BY <1>3, <1>7 DEF DeleteApplication
  <2>2. Reports(a) /\ (WillQueue(a) => WillQueue(a)')
    BY <1>2, <1>7, <2>1, NewsStay DEF DeleteApplication, Outcome
  <2>3. QED
    BY <1>4, <1>7, <2>2 DEF DeleteApplication, queueVars
<1>8. ASSUME NEW b \in Apps, Deliver(b) PROVE Reports(a)'
  <2>1. /\ UNCHANGED <<app, dirty, workerVars>> /\ waiting \subseteq waiting'
        /\ a # b => events'[a] = events[a] /\ cache'[a] = cache[a]
    BY <1>3, <1>8 DEF Deliver, handleAdd, handleUdate, handleDelete, AddRateLimited,
       queueVars, TypeOK, InformerTypeOK
  <2>2. Reports(a)
    BY <1>2, <2>1 DEF Outcome
  <2>3. WillQueue(a) => WillQueue(a)' \/ \E i \in waiting' : i.app = a
    BY <1>8, <2>1, NewsAreQueued DEF WillQueue, IsNews
  <2>4. QED
    BY <2>1, <2>2, <2>3 DEF Reports, ToReport, workerVars
<1>9. ASSUME NEW i \in waiting, DelayOver(i) PROVE Reports(a)'
  <2>1. /\ UNCHANGED <<app, informerVars, workerVars>>
        /\ waiting \cup dirty = waiting' \cup dirty'
    BY <1>9 DEF DelayOver, Ready
  <2>2. Reports(a) /\ (WillQueue(a) => WillQueue(a)')
    BY <1>2, <2>1 DEF Outcome, WillQueue, IsNews, informerVars
  <2>3. QED
    BY <1>4, <2>1, <2>2
<1>10. ASSUME Restart PROVE Reports(a)'
  BY <1>10, RestartIsNews DEF Restart, Reports
<1>11. ASSUME NEW w \in Workers, Worker(w) \/ CallFails(w), ~ Panic(w) PROVE Reports(a)'
  <2>1. app'[a].live = app[a].live
    BY <1>11, WorkerStatus
  <2>2. QED
    BY <1>2, <1>11, <2>1, WorkerReports
<1>12. CASE UNCHANGED vars \/ \E r \in Repos : Commit(r)
  <2>1. UNCHANGED <<app, informerVars, workerVars, waiting, dirty>>
    BY <1>12 DEF vars, Commit, queueVars
  <2>2. Reports(a) /\ (WillQueue(a) => WillQueue(a)')
    BY <1>2, <2>1 DEF Outcome, WillQueue, IsNews, informerVars
  <2>3. QED
    BY <1>4, <2>1, <2>2
<1>13. QED
  BY <1>5, <1>6, <1>7, <1>8, <1>9, <1>10, <1>11, <1>12 DEF Next, User, Crash, Panic

(* SettledInv is inductive.                                                  *)
LEMMA SettledNext ==
  ASSUME TypeOK, ItemExclusive, NoTombstones, CacheInv, NEW H, SettledInv(H),
         "Healthy" \in H, "Degraded" \in H \/ Retries, [Next]_vars
  PROVE  SettledInv(H)'
<1> SUFFICES ASSUME spent'["relist"] = 0,
                    NEW a \in Apps, app'[a].live, ~ Outcome(H, a)'
             PROVE  Reports(a)'
  BY DEF SettledInv
<1>1. spent["relist"] = 0 /\ ~ Relist
  BY BeforeRelist
<1>2. app[a].live /\ ~ Outcome(H, a) => Reports(a)
  BY <1>1 DEF SettledInv
<1>3. QED
  BY <1>1, <1>2, ReportsStay

(* At the start there is no Application; at rest nobody is to report.        *)
LEMMA SettledInit == ASSUME NEW H PROVE Init => SettledInv(H)
BY DEF Init, SettledInv

LEMMA RestReports == \A a \in Apps : AtRest(a) => ~ Reports(a)
BY DEF AtRest, Reports, WillQueue, ToReport, CreatePath

(***************************************************************************)
(* No interleaving of users, events, delays, workers, failing calls and    *)
(* restarts leaves an Application without an outcome once nothing is under *)
(* way for it, for any number of workers: processNextItem reports Healthy  *)
(* or Degraded, or has the item in the queue.                              *)
(***************************************************************************)
THEOREM SettledEver == Spec => []Settled
<1>1. TypeOK /\ OrphanInv /\ [Next]_vars => OrphanInv'
  BY AnsweredNext, EventsEndRightNext, NoTombstonesNext DEF OrphanInv
<1>2. OrphanInv => NoTombstones
  BY DEF OrphanInv
<1> DEFINE H == {"Healthy", "Degraded"}
<1>3. Init => SettledInv(H)
  BY SettledInit
<1>4. TypeOK /\ ItemExclusive /\ NoTombstones /\ CacheInv /\ SettledInv(H) /\ [Next]_vars
      => SettledInv(H)'
  BY SettledNext
<1>5. SettledInv(H) => Settled
  BY RestReports DEF SettledInv, Settled, Outcome
<1> HIDE DEF H
<1>6. QED
  BY <1>1, <1>2, <1>3, <1>4, <1>5, OrphanInit, CacheInit, CacheNext, TypeCorrect,
     ItemExclusiveEver, PTL DEF Spec

(***************************************************************************)
(* SettledUnlessMissed: the same through broken watches.                   *)
(***************************************************************************)
Outcomes == {"Healthy", "Degraded"}

MissedInv ==
  \A a \in Apps \ missed : app[a].live /\ ~ Outcome(Outcomes, a) => Reports(a)

(* What a list shows handleUdate is news, unless the watch has hidden        *)
(* something, or nothing was lost.                                           *)
LEMMA RelistReports ==
  ASSUME TypeOK, Relist, NEW a \in Apps, a \notin Hidden, app[a].live, Reports(a)
  PROVE  Reports(a)'
<1>1. /\ events[a] # <<>> => ~ cache[a].known \/ cache[a].spec # app[a].spec
      /\ cache' = cache /\ UNCHANGED <<waiting, dirty, workerVars>>
      /\ events'[a] = <<[kind |-> "set", ver |-> app[a].ver, spec |-> app[a].spec]>>
  BY DEF Hidden, Relist, Listed, queueVars
<1>2. CASE WillQueue(a)
  <2>1. events[a] # <<>>
    BY <1>2 DEF WillQueue, TypeOK, InformerTypeOK
  <2>2. 1 \in DOMAIN events'[a] /\ IsNews(a, 1)'
    BY <1>1, <2>1 DEF IsNews
  <2>3. QED
    BY <2>2 DEF Reports, WillQueue
<1>3. CASE ~ WillQueue(a)
  BY <1>1, <1>3 DEF Reports, ToReport, workerVars
<1>4. QED
  BY <1>2, <1>3

(* Only a relist is counted as one.                                          *)
LEMMA RelistSpends ==
  ASSUME TypeOK, [Next]_vars
  PROVE  Relist <=> spent'["relist"] # spent["relist"]
<1>1. spent \in [Trouble -> Nat] /\ "relist" \in Trouble
  BY DEF TypeOK, Trouble
<1>2. Relist => spent'["relist"] # spent["relist"]
  BY <1>1 DEF Relist, Spend
<1>3. ASSUME NEW t \in Trouble \ {"relist"}, Spend(t)
      PROVE  spent'["relist"] = spent["relist"]
  BY <1>1, <1>3 DEF Spend
<1>4. ~ Relist => UNCHANGED spent \/ Spend("fault") \/ Spend("missed") \/ Spend("crash")
  BY WorkerSpends DEF Next, User, CreateApplication, UpdateSpec, DeleteApplication,
     Commit, Deliver, DelayOver, Crash, vars
<1>5. QED
  BY <1>2, <1>3, <1>4 DEF Trouble

LEMMA MissedNextKeeps ==
  TypeOK /\ ItemExclusive /\ CacheInv /\ MissedInv /\ [MissedNext]_allVars => MissedInv'
<1> SUFFICES ASSUME TypeOK, ItemExclusive, CacheInv, MissedInv, [MissedNext]_allVars,
                    NEW a \in Apps, a \notin missed', app'[a].live, ~ Outcome(Outcomes, a)'
             PROVE  Reports(a)'
  BY DEF MissedInv
<1>1. [Next]_vars
  BY DEF MissedNext, allVars
<1>2. CASE a \in missed
  <2>1. a \in LookedUp
    BY <1>2 DEF MissedNext, allVars
  <2>2. PICK w \in Workers : task[w].app = a /\ pc[w] = "lookup" /\ pc'[w] = "progressing"
    BY <2>1 DEF LookedUp
  <2>3. ~ UNCHANGED workerVars
    BY <2>2 DEF workerVars
  <2>4. ~ Restart
    BY <2>2 DEF Restart
  <2>5. PICK v \in Workers : Worker(v) \/ CallFails(v)
    BY <1>1, <2>3, <2>4 DEF Next, User, CreateApplication, UpdateSpec, DeleteApplication,
       Commit, Deliver, DelayOver, Relist, Crash, vars
  <2>6. OthersStay(v) /\ (GoesOn(v) \/ GetsFree(v) \/ TriesAgain(v) \/ GetItem(v))
    BY <2>4, <2>5, WorkerEffect, GetEffect DEF Panic
  <2>7. v = w
    BY <2>2, <2>6 DEF OthersStay
  <2>8. task'[w].app = a
    BY <2>2, <2>6, <2>7, GetEffect DEF GoesOn, GetsFree, TriesAgain
  <2>9. QED
    BY <2>2, <2>8 DEF Reports, ToReport, CreatePath
<1>3. CASE a \notin missed /\ Relist
  <2>1. app' = app
    BY <1>3 DEF Relist
  <2>2. spent'["relist"] # spent["relist"]
    BY <1>1, <1>3, RelistSpends
  <2>3. missed' = missed \cup Hidden
    BY <2>2 DEF MissedNext, allVars, vars
  <2>4. QED
    BY <1>3, <2>1, <2>3, RelistReports DEF MissedInv, Outcome
<1>4. CASE a \notin missed /\ ~ Relist
  <2>1. app[a].live /\ ~ Outcome(Outcomes, a) => Reports(a)
    BY <1>4 DEF MissedInv
  <2>2. "Healthy" \in Outcomes /\ "Degraded" \in Outcomes
    BY DEF Outcomes
  <2>3. QED
    BY <1>1, <1>4, <2>1, <2>2, ReportsStay
<1>5. QED
  BY <1>2, <1>3, <1>4

(***************************************************************************)
(* Whatever the informer loses, and however often a tombstone or a crash   *)
(* ends the process in the middle of what its workers do, an Application   *)
(* at rest has an outcome: all but those that were given their old spec    *)
(* back behind a broken watch, until a worker looks at them again.         *)
(***************************************************************************)
THEOREM SettledUnlessMissedEver == MissedSpec => []SettledUnlessMissed
<1>1. MissedSpec => Spec
  <2>1. MissedInit => Init
    BY DEF MissedInit
  <2>2. [MissedNext]_allVars => [Next]_vars
    BY DEF MissedNext, allVars
  <2>3. QED
    BY <2>1, <2>2, PTL DEF MissedSpec, Spec
<1>2. MissedInit => MissedInv
  BY DEF MissedInit, Init, MissedInv
<1>3. MissedInv => SettledUnlessMissed
  BY RestReports DEF MissedInv, SettledUnlessMissed, Outcome, Outcomes
<1>4. QED
  BY <1>1, <1>2, <1>3, MissedNextKeeps, CacheInit, CacheNext, TypeCorrect,
     ItemExclusiveEver, PTL DEF MissedSpec, Spec

(***************************************************************************)
(* One worker: an item stays in the queue until the failure is reported.   *)
(***************************************************************************)
OneWorker == \A v, w \in Workers : v = w

LEMMA RetriesNext ==
  ASSUME OneWorker
  PROVE  TypeOK /\ ItemExclusive /\ Retries /\ [Next]_vars => Retries'
<1> SUFFICES ASSUME TypeOK, ItemExclusive, Retries, [Next]_vars PROVE Retries'
  OBVIOUS
<1>1. ASSUME UNCHANGED workerVars, waiting \cup dirty \subseteq waiting' \cup dirty'
      PROVE  Retries'
  BY <1>1 DEF Retries, workerVars
<1>2. CASE User \/ Relist \/ UNCHANGED vars
  BY <1>1, <1>2 DEF User, CreateApplication, UpdateSpec, DeleteApplication, Commit,
     Relist, vars, queueVars
<1>3. ASSUME NEW a \in Apps, Deliver(a) PROVE Retries'
  BY <1>1, <1>3 DEF Deliver, handleAdd, handleUdate, handleDelete, AddRateLimited, queueVars
<1>4. ASSUME NEW i \in waiting, DelayOver(i) PROVE Retries'
  BY <1>1, <1>4 DEF DelayOver, Ready
<1>5. ASSUME Restart PROVE Retries'
  BY <1>5 DEF Restart, Retries
<1>6. ASSUME NEW w \in Workers, GetItem(w) PROVE Retries'
  BY <1>6, GetEffect DEF OneWorker, Retries
<1>7. ASSUME NEW w \in Workers, Worker(w) \/ CallFails(w), ~ Panic(w), ~ GetItem(w)
      PROVE  Retries'
  <2>1. dirty' = dirty /\ (GoesOn(w) \/ GetsFree(w) \/ TriesAgain(w))
    BY <1>7, WorkerEffect
  <2>2. CASE GetsFree(w)
    BY <2>2 DEF OneWorker, GetsFree, Retries
  <2>3. CASE GoesOn(w)
    BY <2>1, <2>3 DEF OneWorker, GoesOn, Retries, CreatePath, DeletePath
  <2>4. CASE TriesAgain(w)
    BY <2>1, <2>4 DEF OneWorker, TriesAgain, Retries
  <2>5. QED
    BY <2>1, <2>2, <2>3, <2>4
<1>8. QED
  BY <1>2, <1>3, <1>4, <1>5, <1>6, <1>7 DEF Next, Crash, Panic

(***************************************************************************)
(* With one worker the outcome of an Application at rest is success: a     *)
(* failure of processNextItem is reported while its item waits in the      *)
(* queue, so that a report of it is never the last word.                   *)
(***************************************************************************)
THEOREM RestIsHealthyEver == OneWorker => (Spec => []RestIsHealthy)
<1> SUFFICES ASSUME OneWorker PROVE Spec => []RestIsHealthy
  OBVIOUS
<1>1. TypeOK /\ OrphanInv /\ [Next]_vars => OrphanInv'
  BY AnsweredNext, EventsEndRightNext, NoTombstonesNext DEF OrphanInv
<1>2. OrphanInv => NoTombstones
  BY DEF OrphanInv
<1>3. Init => Retries /\ SettledInv({"Healthy"})
  BY SettledInit DEF Init, Retries
<1>4. TypeOK /\ ItemExclusive /\ Retries /\ [Next]_vars => Retries'
  BY RetriesNext
<1>5. /\ TypeOK /\ ItemExclusive /\ NoTombstones /\ CacheInv /\ Retries
      /\ SettledInv({"Healthy"}) /\ [Next]_vars
      => SettledInv({"Healthy"})'
  BY SettledNext
<1>6. SettledInv({"Healthy"}) => RestIsHealthy
  BY RestReports DEF SettledInv, RestIsHealthy, Outcome
<1>7. QED
  BY <1>1, <1>2, <1>3, <1>4, <1>5, <1>6, OrphanInit, CacheInit, CacheNext,
     TypeCorrect, ItemExclusiveEver, PTL DEF Spec

-----------------------------------------------------------------------------
(***************************************************************************)
(* NoStaleClone.  CleanUp removes the directory of the repository that the *)
(* ITEM names.  So it is the right one when no Application ever changes    *)
(* its repository: repo gives the one of each, whatever else its specs say *)
(* and however often it is deleted and created.                            *)
(***************************************************************************)
OneRepository(repo) ==
  \A a \in Apps : app[a].live => RepoOf[app[a].spec] = repo[a]

(* Then all events, items and reconciliations of it are of that repository. *)
SameRepository(repo) ==
  /\ \A a \in Apps : \A k \in DOMAIN events[a] : RepoOf[events[a][k].spec] = repo[a]
  /\ \A i \in waiting \cup dirty : RepoOf[i.spec] = repo[i.app]
  /\ \A w \in Workers : pc[w] # "idle" => RepoOf[task[w].spec] = repo[task[w].app]
  /\ \A w \in Workers : pc[w] \in CreatePath => RepoOf[job[w].spec] = repo[task[w].app]

(* Application a is there, or still will be cleaned up after.                *)
Cleans(w, a) == task[w].app = a /\ pc[w] \in {"lookup"} \cup CreatePath \cup DeletePath

KeepsTrack(a) ==
  \/ app[a].live
  \/ events[a] # <<>>
  \/ \E i \in waiting \cup dirty : i.app = a
  \/ \E w \in Workers : Cleans(w, a)

Tracked(repo) ==
  \A p \in Paths : clone[p] # Missing =>
    \E a \in Apps : p = <<NameOf[a], repo[a]>> /\ KeepsTrack(a)

CloneInv(repo) == Calm => SameRepository(repo) /\ Tracked(repo)

(* The spec a reconciliation works on is the one LookUp read.                *)
LEMMA JobSpec ==
  ASSUME TypeOK, NEW w \in Workers, Worker(w) \/ CallFails(w), ~ Panic(w),
         pc'[w] \in CreatePath
  PROVE  \/ /\ pc[w] = "lookup" /\ app[task[w].app].live
            /\ job'[w].spec = app[task[w].app].spec
         \/ pc[w] \in CreatePath /\ job'[w].spec = job[w].spec
<1>1. /\ pc \in [Workers -> Points] /\ job \in [Workers -> Jobs]
      /\ NoJob \in Jobs /\ task[w].app \in Apps /\ app \in [Apps -> AppStates]
  BY RestTypes DEF TypeOK, StoreTypeOK, WorkerTypeOK, Items
<1>2. ASSUME Fail(w) \/ Succeed(w) PROVE FALSE
  BY <1>1, <1>2 DEF Fail, Succeed, Goto, CreatePath
<1>3. ASSUME NEW l, NEW j, Continue(w, l, j) PROVE pc'[w] = l /\ job'[w] = j
  BY <1>1, <1>3 DEF Continue, Goto
<1>4. CASE LookUp(w)
  <2>1. /\ app[task[w].app].live /\ pc[w] = "lookup"
        /\ job'[w] = [NoJob EXCEPT !.spec = app[task[w].app].spec]
    BY <1>3, <1>4 DEF LookUp, CreatePath
  <2>2. QED
    BY <1>1, <2>1 DEF Jobs
<1>5. CASE WriteProgressing(w) \/ CloneOrFetch(w)
  BY <1>2, <1>3, <1>5 DEF WriteProgressing, CloneOrFetch, CreatePath
<1>6. CASE Checkout(w)
  <2>1. pc[w] = "checkout" /\ job'[w] = [job[w] EXCEPT !.sha = remote[RepoOf[job[w].spec]]]
    BY <1>2, <1>3, <1>6 DEF Checkout
  <2>2. QED
    BY <1>1, <2>1 DEF Jobs, CreatePath
<1>7. CASE GenerateManifests(w)
  <2>1. /\ pc[w] = "generate"
        /\ job'[w] = [job[w] EXCEPT !.gen = Manifest[job[w].spec][clone[RepoPath(w)]]]
    BY <1>2, <1>3, <1>7 DEF GenerateManifests
  <2>2. QED
    BY <1>1, <2>1 DEF Jobs, CreatePath
<1>8. ASSUME NEW todo, CreateFrom(w, todo) PROVE job'[w].spec = job[w].spec
  <2>1. \/ job'[w] = [NoJob EXCEPT !.spec = job[w].spec, !.sha = job[w].sha]
        \/ job'[w] = [job[w] EXCEPT !.todo = todo]
    BY <1>3, <1>8 DEF CreateFrom
  <2>2. QED
    BY <1>1, <2>1 DEF Jobs
<1>9. CASE ListAndDiff(w) \/ CreateResource(w)
  BY <1>2, <1>8, <1>9 DEF ListAndDiff, CreateResource, CreatePath
<1>10. CASE WriteHealthy(w) \/ CleanUp(w) \/ CallFails(w)
  BY <1>2, <1>10 DEF WriteHealthy, CleanUp, CallFails
<1>11. CASE ListForDelete(w) \/ DeleteResource(w)
  <2>1. ASSUME NEW doomed, DeleteFrom(w, doomed) PROVE FALSE
    BY <1>3, <2>1 DEF DeleteFrom, CreatePath
  <2>2. QED
    BY <1>2, <1>11, <2>1 DEF ListForDelete, DeleteResource
<1>12. CASE GetItem(w) \/ DeferredDone(w) \/ WriteDegraded(w)
  BY <1>1, <1>12 DEF GetItem, DeferredDone, WriteDegraded, Goto, CreatePath
<1>13. QED
  BY <1>4, <1>5, <1>6, <1>7, <1>9, <1>10, <1>11, <1>12 DEF Worker

(* Workers write the directory of their job and remove that of their item.   *)
LEMMA WorkerClone ==
  ASSUME TypeOK, NEW w \in Workers, Worker(w) \/ CallFails(w), ~ Panic(w)
  PROVE  \/ clone' = clone
         \/ /\ pc[w] \in CreatePath /\ pc'[w] \in CreatePath /\ task' = task
            /\ \A p \in Paths : p # RepoPath(w) => clone'[p] = clone[p]
         \/ /\ CleanUp(w)
            /\ \/ clone' = [clone EXCEPT ![Cleaned(w)] = Missing]
               \/ clone' = [clone EXCEPT ![Cleaned(w)] = Broken] /\ WrittenTo(w)
<1>1. clone \in [Paths -> 0 .. Broken] /\ pc \in [Workers -> Points]
  BY DEF TypeOK, StoreTypeOK, WorkerTypeOK
<1>2. CASE CloneOrFetch(w) \/ Checkout(w)
  BY <1>1, <1>2 DEF CloneOrFetch, Checkout, Continue, Goto, CreatePath
<1>3. CASE ~ (CloneOrFetch(w) \/ Checkout(w))
  BY <1>3 DEF Worker, GetItem, LookUp, WriteProgressing, GenerateManifests,
     ListAndDiff, CreateResource, WriteHealthy, DeferredDone, WriteDegraded,
     ListForDelete, DeleteResource, CleanUp, CallFails
<1>4. QED
  BY <1>2, <1>3

(* The repositories stay the same, until a trouble ends the promise.         *)
LEMMA SameRepositoryNext ==
  ASSUME TypeOK, ItemExclusive, OrphanInv, NEW repo, OneRepository(repo),
         OneRepository(repo)', SameRepository(repo), [Next]_vars, Calm'
  PROVE  SameRepository(repo)'
<1> USE DEF SameRepository
<1>1. ~ Relist /\ ~ Crash /\ \A w \in Workers : ~ Panic(w)
  BY CalmStep DEF OrphanInv
<1>2. /\ app \in [Apps -> AppStates] /\ events \in [Apps -> Seq(Events)]
      /\ pc \in [Workers -> Points] /\ task \in [Workers -> Items]
  BY DEF TypeOK, StoreTypeOK, InformerTypeOK, WorkerTypeOK
<1>3. ASSUME NEW a \in Apps, NEW e, events' = [events EXCEPT ![a] = Append(@, e)],
             RepoOf[e.spec] = repo[a], UNCHANGED <<queueVars, workerVars>>
      PROVE  SameRepository(repo)'
  <2>1. \A k \in DOMAIN events'[a] : RepoOf[events'[a][k].spec] = repo[a]
    BY <1>3, NewestIsLast
  <2>2. \A b \in Apps \ {a} : events'[b] = events[b]
    BY <1>2, <1>3
  <2>3. QED
    BY <1>3, <2>1, <2>2 DEF queueVars, workerVars
<1>4. ASSUME NEW a \in Apps, NEW s \in Specs, CreateApplication(a, s)
      PROVE  SameRepository(repo)'
  <2>1. app'[a].live /\ app'[a].spec = s
    BY <1>2, <1>4 DEF CreateApplication
  <2>2. RepoOf[s] = repo[a]
    BY <2>1 DEF OneRepository
  <2> DEFINE e == [kind |-> "set", ver |-> app[a].ver + 1, spec |-> s]
  <2>3. /\ events' = [events EXCEPT ![a] = Append(@, e)] /\ e.spec = s
        /\ UNCHANGED <<queueVars, workerVars>>
    BY <1>4 DEF CreateApplication
  <2> HIDE DEF e
  <2>4. QED
    BY <1>3, <2>2, <2>3
<1>5. ASSUME NEW a \in Apps, NEW s \in Specs, UpdateSpec(a, s)
      PROVE  SameRepository(repo)'
  <2>1. app'[a].live /\ app'[a].spec = s
    BY <1>2, <1>5 DEF UpdateSpec, AppStates
  <2>2. RepoOf[s] = repo[a]
    BY <2>1 DEF OneRepository
  <2> DEFINE e == [kind |-> "set", ver |-> app[a].ver + 1, spec |-> s]
  <2>3. /\ events' = [events EXCEPT ![a] = Append(@, e)] /\ e.spec = s
        /\ UNCHANGED <<queueVars, workerVars>>
    BY <1>5 DEF UpdateSpec
  <2> HIDE DEF e
  <2>4. QED
    BY <1>3, <2>2, <2>3
<1>6. ASSUME NEW a \in Apps, DeleteApplication(a) PROVE SameRepository(repo)'
  <2>1. RepoOf[app[a].spec] = repo[a]
    BY <1>6 DEF DeleteApplication, OneRepository
  <2> DEFINE e == [kind |-> "delete", ver |-> app[a].ver + 1, spec |-> app[a].spec]
  <2>2. /\ events' = [events EXCEPT ![a] = Append(@, e)] /\ e.spec = app[a].spec
        /\ UNCHANGED <<queueVars, workerVars>>
    BY <1>6 DEF DeleteApplication
  <2>3. RepoOf[e.spec] = repo[a]
    BY <2>1, <2>2
  <2> HIDE DEF e
  <2>4. QED
    BY <1>3, <2>2, <2>3
<1>7. ASSUME NEW a \in Apps, Deliver(a) PROVE SameRepository(repo)'
  <2> DEFINE e == Head(events[a])
  <2>1. /\ events[a] # <<>> /\ events'[a] = Tail(events[a])
        /\ \A b \in Apps \ {a} : events'[b] = events[b]
        /\ UNCHANGED <<dirty, workerVars>> /\ waiting' \subseteq waiting \cup {Item(a, e)}
    BY <1>2, <1>7 DEF Deliver, handleAdd, handleUdate, handleDelete, AddRateLimited,
       queueVars
  <2>2. /\ RepoOf[e.spec] = repo[a]
        /\ \A k \in DOMAIN events'[a] : RepoOf[events'[a][k].spec] = repo[a]
    BY <1>2, <2>1, TailElements
  <2>3. RepoOf[Item(a, e).spec] = repo[Item(a, e).app]
    BY <2>2 DEF Item
  <2>4. \A i \in waiting' \cup dirty' : RepoOf[i.spec] = repo[i.app]
    BY <2>1, <2>3
  <2>5. \A b \in Apps : \A k \in DOMAIN events'[b] : RepoOf[events'[b][k].spec] = repo[b]
    <3>1. ASSUME NEW b \in Apps \ {a}, NEW k \in DOMAIN events'[b]
          PROVE  RepoOf[events'[b][k].spec] = repo[b]
      BY <2>1, <3>1
    <3>2. QED
      BY <2>2, <3>1
  <2>6. QED
    BY <2>1, <2>4, <2>5 DEF workerVars
<1>8. ASSUME NEW i \in waiting, DelayOver(i) PROVE SameRepository(repo)'
  BY <1>8 DEF DelayOver, Ready, informerVars, workerVars
<1>9. ASSUME NEW w \in Workers, GetItem(w) PROVE SameRepository(repo)'
  BY <1>9, GetEffect DEF OthersStay, informerVars, CreatePath
<1>10. ASSUME NEW w \in Workers, Worker(w) \/ CallFails(w), ~ GetItem(w)
       PROVE  SameRepository(repo)'
  <2>1. /\ OthersStay(w) /\ dirty' = dirty /\ pc[w] # "idle"
        /\ GoesOn(w) \/ GetsFree(w) \/ TriesAgain(w)
    BY <1>1, <1>10, WorkerEffect
  <2>2. events' = events
    BY <1>1, <1>10, WorkerStatus
  <2>3. /\ waiting' \subseteq waiting \cup {task[w]}
        /\ pc'[w] = "idle" \/ task' = task
    BY <2>1 DEF GoesOn, GetsFree, TriesAgain
  <2>4. pc'[w] \in CreatePath => RepoOf[job'[w].spec] = repo[task'[w].app]
    <3>1. task[w].app \in Apps
      BY <1>2 DEF Items
    <3>2. QED
      BY <1>1, <1>10, <2>3, <3>1, JobSpec DEF OneRepository, CreatePath
  <2>5. QED
    BY <2>1, <2>2, <2>3, <2>4 DEF OthersStay
<1>11. CASE UNCHANGED vars \/ \E r \in Repos : Commit(r)
  BY <1>11 DEF vars, Commit, informerVars, queueVars, workerVars
<1>12. QED
  BY <1>1, <1>4, <1>5, <1>6, <1>7, <1>8, <1>9, <1>10, <1>11 DEF Next, User

(* No step loses track of an Application, but the end of its cleanup.        *)
LEMMA TrackNext ==
  ASSUME TypeOK, ItemExclusive, OrphanInv, [Next]_vars, Calm',
         NEW a \in Apps, KeepsTrack(a),
         \A w \in Workers : CleanUp(w) /\ GetsFree(w) => task[w].app # a
  PROVE  KeepsTrack(a)'
<1> USE DEF KeepsTrack
<1>1. ~ Relist /\ ~ Crash /\ \A w \in Workers : ~ Panic(w)
  BY CalmStep DEF OrphanInv
<1>2. /\ app \in [Apps -> AppStates] /\ events \in [Apps -> Seq(Events)]
      /\ EventsEndRight
  BY DEF TypeOK, StoreTypeOK, InformerTypeOK, OrphanInv
<1>3. ASSUME NEW b \in Apps, UNCHANGED <<queueVars, workerVars>>,
             a # b => app'[a].live = app[a].live /\ events'[a] = events[a],
             a = b => app'[a].live \/ events'[a] # <<>>
      PROVE  KeepsTrack(a)'
  BY <1>3 DEF Cleans, queueVars, workerVars
<1>4. ASSUME NEW b \in Apps, NEW s \in Specs, CreateApplication(b, s) \/ UpdateSpec(b, s)
      PROVE  KeepsTrack(a)'
  <2>1. /\ app'[b].live
        /\ \A c \in Apps \ {b} : app'[c] = app[c] /\ events'[c] = events[c]
    BY <1>2, <1>4 DEF CreateApplication, UpdateSpec, AppStates
  <2>2. QED
    BY <1>3, <1>4, <2>1 DEF CreateApplication, UpdateSpec
<1>5. ASSUME NEW b \in Apps, DeleteApplication(b) PROVE KeepsTrack(a)'
  <2>1. events'[b] # <<>>
    BY <1>5, NewestIsLast DEF DeleteApplication
  <2>2. \A c \in Apps \ {b} : app'[c] = app[c] /\ events'[c] = events[c]
    BY <1>2, <1>5 DEF DeleteApplication
  <2>3. QED
    BY <1>3, <1>5, <2>1, <2>2 DEF DeleteApplication
<1>6. ASSUME NEW b \in Apps, Deliver(b) PROVE KeepsTrack(a)'
  <2> DEFINE e == Head(events[b])
  <2>1. /\ UNCHANGED <<app, dirty, workerVars>> /\ waiting \subseteq waiting'
        /\ events[b] # <<>> /\ events'[b] = Tail(events[b])
        /\ \A c \in Apps \ {b} : events'[c] = events[c]
        /\ e.kind # "set" => Item(b, e) \in waiting'
    BY <1>2, <1>6 DEF Deliver, handleAdd, handleUdate, handleDelete, AddRateLimited,
       queueVars
  <2>2. CASE a # b \/ app[a].live \/ events'[a] # <<>>
    BY <2>1, <2>2 DEF Cleans, workerVars
  <2>3. CASE a = b /\ ~ app[b].live /\ events'[b] = <<>>
    <3>1. /\ 1 \in DOMAIN events[b] /\ e = events[b][1] /\ Len(events[b]) \in Nat
          /\ Len(Tail(events[b])) = Len(events[b]) - 1 /\ Len(<<>>) = 0
      BY <1>2, <2>1, TailElements
    <3>2. Len(Tail(events[b])) = Len(<<>>)
      BY <2>1, <2>3, Zenon
    <3>3. e = events[b][Len(events[b])]
      BY <3>1, <3>2
    <3>4. Item(b, e) \in waiting' /\ Item(b, e).app = b
      BY <1>2, <2>1, <2>3, <3>3 DEF EventsEndRight, Item
    <3>5. QED
      BY <2>3, <3>4
  <2>4. QED
    BY <2>2, <2>3
<1>7. ASSUME NEW i \in waiting, DelayOver(i) PROVE KeepsTrack(a)'
  BY <1>7 DEF DelayOver, Ready, informerVars, workerVars, Cleans
<1>8. ASSUME NEW w \in Workers, GetItem(w) PROVE KeepsTrack(a)'
  <2>1. ASSUME NEW i \in waiting \cup dirty, i.app = a PROVE KeepsTrack(a)'
    BY <1>8, <2>1, GetEffect DEF Cleans
  <2>2. ASSUME NEW v \in Workers, Cleans(v, a) PROVE KeepsTrack(a)'
    BY <1>8, <2>2, GetEffect DEF Cleans, OthersStay, CreatePath, DeletePath
  <2>3. QED
    BY <1>8, <2>1, <2>2, GetEffect DEF informerVars
<1>9. ASSUME NEW w \in Workers, Worker(w) \/ CallFails(w), ~ GetItem(w)
      PROVE  KeepsTrack(a)'
  <2>1. /\ OthersStay(w) /\ dirty' = dirty
        /\ GoesOn(w) \/ GetsFree(w) \/ TriesAgain(w)
    BY <1>1, <1>9, WorkerEffect
  <2>2. events' = events /\ app'[a].live = app[a].live
    BY <1>1, <1>9, WorkerStatus
  <2>3. waiting \subseteq waiting'
    BY <2>1 DEF GoesOn, GetsFree, TriesAgain
  <2>4. ASSUME NEW v \in Workers, v # w, Cleans(v, a) PROVE KeepsTrack(a)'
    BY <2>1, <2>4 DEF Cleans, OthersStay
  <2>5. ASSUME Cleans(w, a) PROVE KeepsTrack(a)'
    <3>1. CASE GoesOn(w)
      <4>1. task'[w].app = a /\ pc'[w] \in CreatePath \cup DeletePath
        BY <2>5, <3>1 DEF GoesOn, Cleans, CreatePath, DeletePath
      <4>2. QED
        BY <4>1 DEF Cleans
    <3>2. CASE GetsFree(w)
      BY <2>2, <2>5, <3>2 DEF GetsFree, Cleans, WriteDegraded, CreatePath, DeletePath
    <3>3. CASE TriesAgain(w)
      BY <2>5, <3>3 DEF TriesAgain, Cleans
    <3>4. QED
      BY <2>1, <3>1, <3>2, <3>3
  <2>6. QED
    BY <2>1, <2>2, <2>3, <2>4, <2>5
<1>10. CASE UNCHANGED vars \/ \E r \in Repos : Commit(r)
  BY <1>10 DEF vars, Commit, informerVars, queueVars, workerVars, Cleans
<1>11. QED
  BY <1>1, <1>4, <1>5, <1>6, <1>7, <1>8, <1>9, <1>10 DEF Next, User

(* CloneInv is inductive while every Application has one repository.         *)
LEMMA CloneNext ==
  ASSUME NEW repo
  PROVE  /\ TypeOK /\ ItemExclusive /\ OrphanInv /\ CloneInv(repo)
         /\ OneRepository(repo) /\ OneRepository(repo)' /\ [Next]_vars
         => CloneInv(repo)'
<1> SUFFICES ASSUME TypeOK, ItemExclusive, OrphanInv, CloneInv(repo),
                    OneRepository(repo), OneRepository(repo)', [Next]_vars, Calm'
             PROVE  SameRepository(repo)' /\ Tracked(repo)'
  BY DEF CloneInv
<1>1. Calm /\ ~ Relist /\ ~ Crash /\ \A w \in Workers : ~ Panic(w)
  BY CalmStep DEF OrphanInv
<1>2. SameRepository(repo) /\ Tracked(repo)
  BY <1>1 DEF CloneInv
<1>3. SameRepository(repo)'
  BY <1>2, SameRepositoryNext
<1>4. clone \in [Paths -> 0 .. Broken]
  BY DEF TypeOK, StoreTypeOK
(* Who writes to a directory that is being removed answers for what is left. *)
<1>5. ASSUME NEW w \in Workers, CleanUp(w), WrittenTo(w), NEW p, p = Cleaned(w)
      PROVE  \E a \in Apps : p = <<NameOf[a], repo[a]>> /\ KeepsTrack(a)'
  <2>1. PICK v \in Workers \ {w} :
          pc[v] \in {"clone", "checkout"} /\ RepoPath(v) = p
    BY <1>5 DEF WrittenTo
  <2>2. Worker(w) /\ ~ Panic(w) /\ ~ GetItem(w)
    BY <1>1, <1>5 DEF Worker, CleanUp, GetItem
  <2>3. OthersStay(w)
    BY <2>2, WorkerEffect
  <2>4. PICK a \in Apps : a = task[v].app
    BY DEF TypeOK, WorkerTypeOK, Items
  <2>5. p = <<NameOf[a], repo[a]>>
    BY <1>2, <2>1, <2>4 DEF RepoPath, PathOf, SameRepository, CreatePath
  <2>6. KeepsTrack(a)'
    BY <2>1, <2>3, <2>4 DEF OthersStay, KeepsTrack, Cleans, CreatePath
  <2>7. QED
    BY <2>4, <2>5, <2>6
<1>6. ASSUME NEW p \in Paths, clone'[p] # Missing, clone[p] # Missing
      PROVE  \E a \in Apps : p = <<NameOf[a], repo[a]>> /\ KeepsTrack(a)'
  <2>1. PICK a \in Apps : p = <<NameOf[a], repo[a]>> /\ KeepsTrack(a)
    BY <1>2, <1>6 DEF Tracked
  <2>2. CASE \E w \in Workers : CleanUp(w) /\ WrittenTo(w) /\ p = Cleaned(w)
    BY <1>5, <2>2
  <2>3. CASE ~ \E w \in Workers : CleanUp(w) /\ WrittenTo(w) /\ p = Cleaned(w)
    <3>1. ASSUME NEW w \in Workers, CleanUp(w), task[w].app = a PROVE FALSE
      <4>1. p = Cleaned(w)
        BY <1>2, <2>1, <3>1 DEF CleanUp, SameRepository, Cleaned, PathOf
      <4>2. clone' = [clone EXCEPT ![Cleaned(w)] = Missing]
        BY <2>3, <3>1, <4>1 DEF CleanUp
      <4>3. QED
        BY <1>4, <1>6, <4>1, <4>2
    <3>2. QED
      BY <2>1, <3>1, TrackNext
  <2>4. QED
    BY <2>2, <2>3
<1>7. ASSUME NEW p \in Paths, clone'[p] # Missing, clone[p] = Missing
      PROVE  \E a \in Apps : p = <<NameOf[a], repo[a]>> /\ KeepsTrack(a)'
  <2>1. PICK w \in Workers : Worker(w) \/ CallFails(w)
    BY <1>1, <1>7 DEF Next, User, CreateApplication, UpdateSpec, DeleteApplication, Commit,
       Deliver, DelayOver, vars
  <2>2. \/ clone' = clone
        \/ /\ pc[w] \in CreatePath /\ pc'[w] \in CreatePath /\ task' = task
           /\ \A q \in Paths : q # RepoPath(w) => clone'[q] = clone[q]
        \/ clone' = [clone EXCEPT ![Cleaned(w)] = Missing]
        \/ /\ CleanUp(w) /\ WrittenTo(w)
           /\ clone' = [clone EXCEPT ![Cleaned(w)] = Broken]
    BY <1>1, <2>1, WorkerClone
  <2>3. CASE /\ pc[w] \in CreatePath /\ pc'[w] \in CreatePath /\ task' = task
             /\ \A q \in Paths : q # RepoPath(w) => clone'[q] = clone[q]
    <3>1. p = RepoPath(w)
      BY <1>7, <2>3
    <3>2. PICK a \in Apps : a = task[w].app
      BY DEF TypeOK, WorkerTypeOK, Items
    <3>3. p = <<NameOf[a], repo[a]>>
      BY <1>2, <2>3, <3>1, <3>2 DEF RepoPath, PathOf, SameRepository
    <3>4. KeepsTrack(a)'
      BY <2>3, <3>2 DEF KeepsTrack, Cleans
    <3>5. QED
      BY <3>2, <3>3, <3>4
  <2>4. CASE /\ CleanUp(w) /\ WrittenTo(w)
             /\ clone' = [clone EXCEPT ![Cleaned(w)] = Broken]
    <3>1. p = Cleaned(w)
      BY <1>4, <1>7, <2>4
    <3>2. QED
      BY <1>5, <2>4, <3>1
  <2>5. QED
    BY <1>4, <1>7, <2>2, <2>3, <2>4
<1>8. QED
  BY <1>3, <1>6, <1>7 DEF Tracked

LEMMA CloneInit == ASSUME NEW repo PROVE Init => CloneInv(repo)
BY DEF Init, QueueInit, CloneInv, SameRepository, Tracked, CreatePath

(* What is kept track of is not stale.                                       *)
LEMMA CloneImplies == ASSUME NEW repo PROVE CloneInv(repo) => NoStaleClone
<1> SUFFICES ASSUME CloneInv(repo), Calm, NEW p \in Paths, clone[p] # Missing
             PROVE  \E a \in Apps : NameOf[a] = p[1] /\ (app[a].live \/ ~ AtRest(a))
  BY DEF NoStaleClone
<1>1. PICK a \in Apps : p = <<NameOf[a], repo[a]>> /\ KeepsTrack(a)
  BY DEF CloneInv, Tracked
<1>2. app[a].live \/ ~ AtRest(a)
  BY <1>1 DEF KeepsTrack, AtRest, Cleans, CreatePath, DeletePath
<1>3. QED
  BY <1>1, <1>2

(***************************************************************************)
(* When no Application ever changes its repository, a clone directory      *)
(* whose Applications are all deleted is still going to be removed:        *)
(* deleteResources is retried until its RemoveAll is reached, whatever     *)
(* calls fail and however the Application is edited, deleted and created   *)
(* again, for any number of workers and with any names.                    *)
(***************************************************************************)
THEOREM NoStaleCloneEver ==
  ASSUME NEW repo \in [Apps -> Repos]
  PROVE  Spec /\ []OneRepository(repo) => []NoStaleClone
<1>1. TypeOK /\ OrphanInv /\ [Next]_vars => OrphanInv'
  BY AnsweredNext, EventsEndRightNext, NoTombstonesNext DEF OrphanInv
<1>2. Init => CloneInv(repo)
  BY CloneInit
<1>3. CloneInv(repo) => NoStaleClone
  BY CloneImplies
<1>4. /\ TypeOK /\ ItemExclusive /\ OrphanInv /\ CloneInv(repo)
      /\ OneRepository(repo) /\ OneRepository(repo)' /\ [Next]_vars
      => CloneInv(repo)'
  BY CloneNext
<1>5. QED
  BY <1>1, <1>2, <1>3, <1>4, OrphanInit, TypeCorrect, ItemExclusiveEver, PTL DEF Spec

-----------------------------------------------------------------------------
(***************************************************************************)
(* The safety half of LevelTriggered, for Applications with names of their *)
(* own, by which alone the code tells them apart.  A cleanup lists objects *)
(* by their label and then deletes what is at their places by now: two     *)
(* Applications that may both want an object at one place, such as two in  *)
(* one namespace, need a single worker, so that nothing else is put there  *)
(* between the two.                                                        *)
(***************************************************************************)
DistinctNames == \A a, b \in Apps : a # b => NameOf[a] # NameOf[b]
DistinctPlaces == \A a, b \in Apps : a # b =>
                    \A r \in Resources : Place(a, r) # Place(b, r)
Separate == DistinctNames /\ (OneWorker \/ DistinctPlaces)

(* Every object is at a place of the Application that its label names, no   *)
(* two objects are at one place, and a cleanup is after places of its own   *)
(* Application, where there are by now no objects but those with its label. *)
OwnPlace(a, p) == \E r \in Resources : p = Place(a, r)

PlaceInv == \A o \in cluster :
  \E a \in Apps : o.label = NameOf[a] /\ OwnPlace(a, o.place)

OnePerPlace == \A o, p \in cluster : o.place = p.place => o = p

Marked(w) == pc[w] = "delete" => \A p \in job[w].doomed :
  /\ OwnPlace(task[w].app, p)
  /\ \A o \in cluster : o.place = p => o.label = NameOf[task[w].app]

DoomedInv == \A w \in Workers : Marked(w)

(* What a step of a worker does to the objects.                              *)
Creates(w) ==
  \E o : /\ cluster' = cluster \cup {o} /\ o.label = NameOf[task[w].app]
         /\ OwnPlace(task[w].app, o.place) /\ \A p \in cluster : p.place # o.place
         /\ pc[w] = "create"

Deletes(w) ==
  \E p \in job[w].doomed : pc[w] = "delete" /\ cluster' = {o \in cluster : o.place # p}

LEMMA WorkerCluster ==
  ASSUME TypeOK, NEW w \in Workers, Worker(w) \/ CallFails(w), ~ Panic(w)
  PROVE  cluster' = cluster \/ Creates(w) \/ Deletes(w)
<1>1. CASE CreateResource(w)
  <2>1. PICK r \in job[w].todo :
          LET a == task[w].app
              new == [place |-> Place(a, r), label |-> NameOf[a],
                      body |-> job[w].gen[r]] IN
          IF \E o \in cluster : o.place = new.place
          THEN Fail(w) /\ UNCHANGED <<cluster, spent>>
          ELSE /\ cluster' = cluster \cup {new}
               /\ \/ CreateFrom(w, job[w].todo \ {r}) /\ UNCHANGED spent
                  \/ Fail(w) /\ Spend("fault")
    BY <1>1 DEF CreateResource
  <2>2. r \in Resources
    BY DEF TypeOK, WorkerTypeOK, Jobs
  <2> DEFINE new == [place |-> Place(task[w].app, r), label |-> NameOf[task[w].app],
                     body |-> job[w].gen[r]]
  <2>3. new.label = NameOf[task[w].app] /\ OwnPlace(task[w].app, new.place)
    BY <2>2 DEF OwnPlace
  <2>4. \/ cluster' = cluster
        \/ cluster' = cluster \cup {new} /\ \A p \in cluster : p.place # new.place
    BY <2>1
  <2> HIDE DEF new
  <2>5. pc[w] = "create"
    BY <1>1 DEF CreateResource
  <2>6. QED
    BY <2>3, <2>4, <2>5 DEF Creates
<1>2. CASE DeleteResource(w)
  BY <1>2 DEF DeleteResource, Deletes
<1>3. CASE ~ (CreateResource(w) \/ DeleteResource(w))
  BY <1>3 DEF Worker, GetItem, LookUp, WriteProgressing, CloneOrFetch, Checkout,
     GenerateManifests, ListAndDiff, WriteHealthy, DeferredDone, WriteDegraded,
     ListForDelete, CleanUp, CallFails
<1>4. QED
  BY <1>1, <1>2, <1>3

(* A cleanup is after what it has listed, and later after less.              *)
LEMMA JobDoomed ==
  ASSUME TypeOK, NEW w \in Workers, Worker(w) \/ CallFails(w), ~ Panic(w),
         pc'[w] = "delete"
  PROVE  /\ task' = task
         /\ \/ pc[w] = "delete" /\ job'[w].doomed \subseteq job[w].doomed
            \/ /\ cluster' = cluster
               /\ \A p \in job'[w].doomed :
                    \E o \in Labelled(NameOf[task[w].app]) : p = o.place
<1>1. /\ pc \in [Workers -> Points] /\ job \in [Workers -> Jobs] /\ NoJob \in Jobs
  BY RestTypes DEF TypeOK, WorkerTypeOK
<1>2. ASSUME Fail(w) \/ Succeed(w) PROVE FALSE
  BY <1>1, <1>2 DEF Fail, Succeed, Goto
<1>3. ASSUME NEW l, NEW j, Continue(w, l, j)
      PROVE  pc'[w] = l /\ job'[w] = j /\ task' = task
  BY <1>1, <1>3 DEF Continue, Goto
<1>4. ASSUME NEW d \in SUBSET Places, DeleteFrom(w, d)
      PROVE  job'[w].doomed = d /\ task' = task
  <2>1. job'[w] = [NoJob EXCEPT !.doomed = d] /\ task' = task
    BY <1>3, <1>4 DEF DeleteFrom
  <2>2. QED
    BY <1>1, <2>1 DEF Jobs
<1>5. CASE ListForDelete(w)
  <2>1. PICK found \in SUBSET Labelled(NameOf[task[w].app]) :
          DeleteFrom(w, {o.place : o \in found})
    BY <1>5 DEF ListForDelete
  <2>2. {o.place : o \in found} \in SUBSET Places
    BY <2>1 DEF Labelled, TypeOK, StoreTypeOK, Objects
  <2>3. job'[w].doomed = {o.place : o \in found} /\ task' = task
    BY <1>4, <2>1, <2>2
  <2>4. QED
    BY <1>5, <2>3 DEF ListForDelete
<1>6. CASE DeleteResource(w)
  <2>1. PICK p \in job[w].doomed : DeleteFrom(w, job[w].doomed \ {p}) /\ pc[w] = "delete"
    BY <1>2, <1>6 DEF DeleteResource
  <2>2. job[w].doomed \ {p} \in SUBSET Places
    BY <1>1 DEF Jobs
  <2>3. job'[w].doomed = job[w].doomed \ {p} /\ task' = task
    BY <1>4, <2>1, <2>2
  <2>4. QED
    BY <2>1, <2>3
<1>7. CASE LookUp(w) \/ WriteProgressing(w) \/ CloneOrFetch(w) \/ Checkout(w)
           \/ GenerateManifests(w)
  <2>1. ASSUME NEW l \in {"progressing", "list_delete", "clone", "checkout",
                          "generate", "list"}, NEW j, Continue(w, l, j)
        PROVE  FALSE
    BY <1>3, <2>1
  <2>2. QED
    BY <1>2, <1>7, <2>1 DEF LookUp, WriteProgressing, CloneOrFetch, Checkout,
       GenerateManifests
<1>8. CASE ListAndDiff(w) \/ CreateResource(w)
  <2>1. ASSUME NEW todo, CreateFrom(w, todo) PROVE FALSE
    BY <1>3, <2>1 DEF CreateFrom
  <2>2. QED
    BY <1>2, <1>8, <2>1 DEF ListAndDiff, CreateResource
<1>9. CASE WriteHealthy(w) \/ CleanUp(w) \/ CallFails(w)
  BY <1>2, <1>9 DEF WriteHealthy, CleanUp, CallFails
<1>10. CASE GetItem(w) \/ DeferredDone(w) \/ WriteDegraded(w)
  BY <1>1, <1>10 DEF GetItem, DeferredDone, WriteDegraded, Goto
<1>11. QED
  BY <1>5, <1>6, <1>7, <1>8, <1>9, <1>10 DEF Worker

(* No step puts two objects at one place, or one where its label does not    *)
(* belong.                                                                   *)
LEMMA PlacesStay ==
  ASSUME TypeOK, PlaceInv, OnePerPlace, [Next]_vars
  PROVE  PlaceInv' /\ OnePerPlace'
<1>1. ASSUME cluster' \subseteq cluster PROVE PlaceInv' /\ OnePerPlace'
  <2>1. PlaceInv'
    BY <1>1 DEF PlaceInv, OwnPlace
  <2>2. OnePerPlace'
    BY <1>1 DEF OnePerPlace
  <2>3. QED
    BY <2>1, <2>2
<1>2. CASE \/ User \/ (\E a \in Apps : Deliver(a)) \/ (\E i \in waiting : DelayOver(i))
           \/ Relist \/ Restart \/ UNCHANGED vars
  BY <1>1, <1>2 DEF User, CreateApplication, UpdateSpec, DeleteApplication, Commit,
     Deliver, DelayOver, Relist, Restart, vars
<1>3. ASSUME NEW w \in Workers, Worker(w) \/ CallFails(w), ~ Panic(w)
      PROVE  PlaceInv' /\ OnePerPlace'
  <2>1. CASE cluster' = cluster \/ Deletes(w)
    BY <1>1, <2>1 DEF Deletes
  <2>2. CASE Creates(w)
    <3>1. PICK o : /\ cluster' = cluster \cup {o} /\ o.label = NameOf[task[w].app]
                   /\ OwnPlace(task[w].app, o.place)
                   /\ \A p \in cluster : p.place # o.place
      BY <2>2 DEF Creates
    <3>2. task[w].app \in Apps
      BY DEF TypeOK, WorkerTypeOK, Items
    <3>3. PlaceInv'
      BY <3>1, <3>2 DEF PlaceInv, OwnPlace
    <3>4. OnePerPlace'
      BY <3>1 DEF OnePerPlace
    <3>5. QED
      BY <3>3, <3>4
  <2>3. QED
    BY <1>3, <2>1, <2>2, WorkerCluster
<1>4. QED
  BY <1>2, <1>3 DEF Next, Crash, Panic

(* What a worker puts into the cluster is no other cleanup's business.       *)
LEMMA OthersMarked ==
  ASSUME Separate, TypeOK, NEW w \in Workers, Worker(w) \/ CallFails(w), ~ Panic(w),
         NEW v \in Workers, v # w, Marked(v)
  PROVE  Marked(v)'
<1>1. DistinctNames /\ DistinctPlaces
  BY DEF Separate, OneWorker
<1>2. pc'[v] = pc[v] /\ task'[v] = task[v] /\ job'[v] = job[v]
  BY GetOthers, WorkerEffect DEF OthersStay, TypeOK, WorkerTypeOK
<1>3. task[v].app \in Apps /\ task[w].app \in Apps
  BY DEF TypeOK, WorkerTypeOK, Items
<1>4. SUFFICES ASSUME pc[v] = "delete", NEW p \in job[v].doomed
               PROVE  /\ OwnPlace(task[v].app, p)
                      /\ \A o \in cluster' : o.place = p => o.label = NameOf[task[v].app]
  BY <1>2 DEF Marked, OwnPlace
<1>5. /\ OwnPlace(task[v].app, p)
      /\ \A o \in cluster : o.place = p => o.label = NameOf[task[v].app]
  BY <1>4 DEF Marked
<1>6. CASE cluster' = cluster \/ Deletes(w)
  BY <1>5, <1>6 DEF Deletes
<1>7. CASE Creates(w)
  <2>1. PICK o : /\ cluster' = cluster \cup {o} /\ o.label = NameOf[task[w].app]
                 /\ OwnPlace(task[w].app, o.place)
    BY <1>7 DEF Creates
  <2>2. ASSUME o.place = p PROVE task[w].app = task[v].app
    <3>1. PICK r \in Resources : p = Place(task[v].app, r)
      BY <1>5 DEF OwnPlace
    <3>2. PICK q \in Resources : p = Place(task[w].app, q)
      BY <2>1, <2>2 DEF OwnPlace
    <3>3. q = r
      BY <3>1, <3>2 DEF Place
    <3>4. QED
      BY <1>1, <1>3, <3>1, <3>2, <3>3 DEF DistinctPlaces
  <2>3. QED
    BY <1>5, <2>1, <2>2
<1>8. QED
  BY <1>6, <1>7, WorkerCluster

(* A cleanup lists the objects of its label, and has the places to itself.   *)
LEMMA OwnMarked ==
  ASSUME DistinctNames, TypeOK, PlaceInv, OnePerPlace,
         NEW w \in Workers, Worker(w) \/ CallFails(w), ~ Panic(w), Marked(w)
  PROVE  Marked(w)'
<1> DEFINE a == task[w].app
<1>1. SUFFICES ASSUME pc'[w] = "delete", NEW p \in job'[w].doomed
               PROVE  /\ OwnPlace(task'[w].app, p)
                      /\ \A o \in cluster' : o.place = p => o.label = NameOf[task'[w].app]
  BY DEF Marked, OwnPlace
<1>2. /\ task' = task
      /\ \/ pc[w] = "delete" /\ p \in job[w].doomed
         \/ cluster' = cluster /\ \E o \in Labelled(NameOf[a]) : p = o.place
  BY <1>1, JobDoomed
<1>3. a \in Apps
  BY DEF TypeOK, WorkerTypeOK, Items
<1>4. CASE pc[w] = "delete" /\ p \in job[w].doomed
  <2>1. cluster' \subseteq cluster
    BY <1>4, WorkerCluster DEF Creates, Deletes
  <2>2. QED
    BY <1>2, <1>4, <2>1 DEF Marked
<1>5. ASSUME NEW o \in Labelled(NameOf[a]), p = o.place, cluster' = cluster
      PROVE  /\ OwnPlace(a, p)
             /\ \A x \in cluster' : x.place = p => x.label = NameOf[a]
  <2>1. PICK b \in Apps : o.label = NameOf[b] /\ OwnPlace(b, o.place)
    BY <1>5 DEF PlaceInv, Labelled
  <2>2. b = a
    BY <1>3, <1>5, <2>1 DEF DistinctNames, Labelled
  <2>3. \A x \in cluster' : x.place = p => x = o
    BY <1>5 DEF OnePerPlace, Labelled
  <2>4. QED
    BY <1>5, <2>1, <2>2, <2>3 DEF Labelled
<1>6. QED
  BY <1>2, <1>4, <1>5

(* PlaceInv, OnePerPlace and DoomedInv are inductive.                        *)
ObjectsInv == PlaceInv /\ OnePerPlace /\ DoomedInv

LEMMA ObjectsInit == Init => ObjectsInv
BY DEF Init, ObjectsInv, PlaceInv, OnePerPlace, DoomedInv, Marked

LEMMA ObjectsNext ==
  ASSUME Separate
  PROVE  TypeOK /\ ObjectsInv /\ [Next]_vars => ObjectsInv'
<1> SUFFICES ASSUME TypeOK, ObjectsInv, [Next]_vars PROVE ObjectsInv'
  OBVIOUS
<1>1. PlaceInv' /\ OnePerPlace'
  BY PlacesStay DEF ObjectsInv
<1>2. ASSUME UNCHANGED <<cluster, workerVars>> PROVE DoomedInv'
  BY <1>2 DEF ObjectsInv, DoomedInv, Marked, OwnPlace, workerVars
<1>3. CASE \/ User \/ (\E a \in Apps : Deliver(a)) \/ (\E i \in waiting : DelayOver(i))
           \/ Relist \/ UNCHANGED vars
  <2>1. DoomedInv'
    BY <1>2, <1>3 DEF User, CreateApplication, UpdateSpec, DeleteApplication, Commit,
       Deliver, DelayOver, Relist, vars
  <2>2. QED
    BY <1>1, <2>1 DEF ObjectsInv
<1>4. ASSUME Restart PROVE ObjectsInv'
  BY <1>1, <1>4 DEF Restart, ObjectsInv, DoomedInv, Marked
<1>5. ASSUME NEW w \in Workers, Worker(w) \/ CallFails(w), ~ Panic(w) PROVE ObjectsInv'
  <2>1. \A v \in Workers : Marked(v)'
    BY <1>5, OthersMarked, OwnMarked DEF ObjectsInv, DoomedInv, Separate
  <2>2. QED
    BY <1>1, <2>1 DEF ObjectsInv, DoomedInv
<1>6. QED
  BY <1>3, <1>4, <1>5 DEF Next, Crash, Panic

(***************************************************************************)
(* An object goes by a cleanup of the Application it is labelled with, and *)
(* by no other, with any number of workers: deleteResources takes away     *)
(* what is at the places it has listed, whatever is there by then.         *)
(***************************************************************************)
OwnCleanup(o) == \E w \in Workers : pc[w] = "delete" /\ o.label = NameOf[task[w].app]

THEOREM GoneByOwnCleanup ==
  Separate => (Spec => [][\A o \in cluster : o \in cluster' \/ OwnCleanup(o)]_vars)
<1> SUFFICES ASSUME Separate
             PROVE  Spec => [][\A o \in cluster : o \in cluster' \/ OwnCleanup(o)]_vars
  OBVIOUS
<1>1. TypeOK /\ ObjectsInv /\ [Next]_vars => ObjectsInv'
  BY ObjectsNext
<1>2. ASSUME TypeOK, ObjectsInv, [Next]_vars, NEW o \in cluster
      PROVE  o \in cluster' \/ OwnCleanup(o)
  <2>1. CASE \/ User \/ (\E a \in Apps : Deliver(a)) \/ (\E i \in waiting : DelayOver(i))
             \/ Relist \/ Restart \/ UNCHANGED vars
    BY <1>2, <2>1 DEF User, CreateApplication, UpdateSpec, DeleteApplication, Commit,
       Deliver, DelayOver, Relist, Restart, vars
  <2>2. ASSUME NEW w \in Workers, Worker(w) \/ CallFails(w), ~ Panic(w)
        PROVE  o \in cluster' \/ OwnCleanup(o)
    <3>1. CASE cluster' = cluster \/ Creates(w)
      BY <1>2, <3>1 DEF Creates
    <3>2. CASE Deletes(w)
      <4>1. PICK p \in job[w].doomed :
              pc[w] = "delete" /\ cluster' = {x \in cluster : x.place # p}
        BY <3>2 DEF Deletes
      <4>2. o.place = p => o.label = NameOf[task[w].app]
        BY <1>2, <4>1 DEF ObjectsInv, DoomedInv, Marked
      <4>3. QED
        BY <1>2, <4>1, <4>2 DEF OwnCleanup
    <3>3. QED
      BY <1>2, <2>2, <3>1, <3>2, WorkerCluster
  <2>3. QED
    BY <1>2, <2>1, <2>2 DEF Next, Crash, Panic
<1>3. TypeOK /\ ObjectsInv /\ [Next]_vars
      => [\A o \in cluster : o \in cluster' \/ OwnCleanup(o)]_vars
  BY <1>2
<1>4. QED
  BY <1>1, <1>3, ObjectsInit, TypeCorrect, PTL DEF Spec

(* What the users of Application a see of it.                                *)
HasObjects(a) == Labelled(NameOf[a]) # {}

(* A step is about Application a when others look the same after it.         *)
OnlyAbout(a) == \A b \in Apps \ {a} :
  /\ app'[b].live = app[b].live /\ app'[b].health = app[b].health
  /\ HasObjects(b)' <=> HasObjects(b)
  /\ AtRest(b)' <=> AtRest(b)

(* A step of the controller about an Application that it owes something.     *)
LEMMA IsWork ==
  ASSUME NEW a \in Apps, NEW o \in BOOLEAN, o <=> ~ AtRest(a)', OnlyAbout(a),
         ~ AtRest(a), Calm, Calm', StoreTypeOK',
         app'[a].live = app[a].live,
         app[a].live \/ app'[a].health = app[a].health,
         AtRest(a)' => IF app[a].live THEN Outcome(R!Outcomes, a)' ELSE ~ HasObjects(a)'
  PROVE  R!Work(a, o)
<1> DEFINE live == [b \in Apps |-> app[b].live]
           report == [b \in Apps |-> app[b].health]
           objects == [b \in Apps |-> HasObjects(b)]
           owed == [b \in Apps |-> ~ AtRest(b)]
<1>1. live' = live
  BY DEF OnlyAbout
<1>2. report' = [report EXCEPT ![a] = app'[a].health]
  BY DEF OnlyAbout
<1>3. \E q \in BOOLEAN : objects' = [objects EXCEPT ![a] = q]
  <2>1. PICK q \in BOOLEAN : q <=> HasObjects(a)'
    OBVIOUS
  <2>2. \A b \in Apps : HasObjects(b)' = IF b = a THEN q ELSE HasObjects(b)
    <3>1. \A b \in Apps : HasObjects(b) \in BOOLEAN /\ HasObjects(b)' \in BOOLEAN
      BY DEF HasObjects
    <3>2. QED
      BY <2>1, <3>1 DEF OnlyAbout
  <2>3. objects' = [objects EXCEPT ![a] = q]
    BY <2>2
  <2>4. QED
    BY <2>3
<1>4. owed' = [owed EXCEPT ![a] = o] /\ owed[a]
  BY DEF OnlyAbout
<1>5. app'[a].health \in Health
  BY DEF StoreTypeOK, AppStates
<1>6. \E h \in IF live[a] THEN {"None", "Progressing"} \cup R!Outcomes ELSE {report[a]} :
        report' = [report EXCEPT ![a] = h]
  BY <1>2, <1>5 DEF R!Outcomes, Health
<1>7. o \/ IF live[a] THEN report'[a] \in R!Outcomes ELSE ~ objects'[a]
  BY DEF R!Outcomes, Outcome
<1>8. QED
  BY <1>1, <1>3, <1>4, <1>6, <1>7 DEF R!Work, HasObjects

(* A step of a user about an Application.                                    *)
LEMMA IsUser ==
  ASSUME NEW a \in Apps, OnlyAbout(a), ~ AtRest(a)', StoreTypeOK',
         app'[a].health \in {app[a].health, "None"},
         cluster' = cluster, spent' = spent
  PROVE  R!User(a)
<1> DEFINE live == [b \in Apps |-> app[b].live]
           report == [b \in Apps |-> app[b].health]
           objects == [b \in Apps |-> HasObjects(b)]
           owed == [b \in Apps |-> ~ AtRest(b)]
<1>1. live' = [live EXCEPT ![a] = app'[a].live] /\ app'[a].live \in BOOLEAN
  BY DEF OnlyAbout, StoreTypeOK, AppStates
<1>2. report' = [report EXCEPT ![a] = app'[a].health] /\ report[a] = app[a].health
  BY DEF OnlyAbout
<1>3. objects' = objects /\ (Calm' <=> Calm)
  BY DEF HasObjects, Labelled, Calm
<1>4. owed' = [owed EXCEPT ![a] = TRUE]
  BY DEF OnlyAbout
<1>5. QED
  BY <1>1, <1>2, <1>3, <1>4 DEF R!User, HasObjects

(* A step that nobody sees.                                                  *)
LEMMA IsUnseen ==
  ASSUME UNCHANGED <<app, cluster, spent>>,
         \A a \in Apps : AtRest(a)' <=> AtRest(a)
  PROVE  UNCHANGED R!vars
BY DEF R!vars, Labelled, Calm

(* At rest an Application has an outcome, or is cleaned up.                  *)
DoneAtRest == Calm =>
  \A a \in Apps : AtRest(a) => IF app[a].live THEN Outcome(R!Outcomes, a) ELSE ~ HasObjects(a)

LEMMA RestIsDone ==
  ASSUME DistinctNames
  PROVE  Settled /\ NoOrphans => DoneAtRest
<1> SUFFICES ASSUME Calm, Settled, NoOrphans, NEW a \in Apps, AtRest(a)
             PROVE  IF app[a].live THEN Outcome(R!Outcomes, a) ELSE ~ HasObjects(a)
  BY DEF DoneAtRest
<1>1. CASE app[a].live
  BY <1>1 DEF Settled, Calm, Outcome, R!Outcomes
<1>2. CASE ~ app[a].live
  <2>1. ASSUME NEW o \in cluster, o.label = NameOf[a] PROVE FALSE
    <3>1. PICK b \in Apps : NameOf[b] = o.label /\ (app[b].live \/ ~ AtRest(b))
      BY <2>1 DEF NoOrphans
    <3>2. QED
      BY <1>2, <2>1, <3>1 DEF DistinctNames
  <2>2. QED
    BY <1>2, <2>1 DEF HasObjects, Labelled
<1>3. QED
  BY <1>1, <1>2

(* What changes nothing about b leaves it at rest, or not.                   *)
LEMMA SameRest ==
  ASSUME NEW b \in Apps, events'[b] = events[b], UNCHANGED workerVars,
         \A i : i.app = b => (i \in waiting' \cup dirty' <=> i \in waiting \cup dirty)
  PROVE  AtRest(b)' <=> AtRest(b)
BY DEF AtRest, workerVars

(* Worker w owes something to the Application of its item only.              *)
LEMMA WorkerOnlyAbout ==
  ASSUME DistinctNames, TypeOK, DoomedInv, NEW w \in Workers, Worker(w) \/ CallFails(w),
         ~ Panic(w), ~ GetItem(w), NEW a \in Apps, a = task[w].app
  PROVE  OnlyAbout(a) /\ ~ AtRest(a)
<1>1. /\ OthersStay(w) /\ dirty' = dirty /\ pc[w] # "idle"
      /\ GoesOn(w) \/ GetsFree(w) \/ TriesAgain(w)
  BY WorkerEffect
<1>2. /\ waiting \subseteq waiting' /\ waiting' \subseteq waiting \cup {task[w]}
      /\ pc'[w] = "idle" \/ task'[w] = task[w]
  BY <1>1 DEF GoesOn, GetsFree, TriesAgain
<1>3. ASSUME NEW b \in Apps \ {a} PROVE HasObjects(b)' <=> HasObjects(b)
  <2>1. NameOf[b] # NameOf[a]
    BY <1>3 DEF DistinctNames
  <2>2. CASE cluster' = cluster \/ Creates(w)
    BY <2>1, <2>2 DEF Creates, HasObjects, Labelled
  <2>3. CASE Deletes(w)
    <3>1. PICK p \in job[w].doomed : /\ pc[w] = "delete"
                                     /\ cluster' = {o \in cluster : o.place # p}
      BY <2>3 DEF Deletes
    <3>2. \A o \in Labelled(NameOf[b]) : o.place # p
      BY <2>1, <3>1 DEF DoomedInv, Marked, Labelled
    <3>3. QED
      BY <3>1, <3>2 DEF HasObjects, Labelled
  <2>4. QED
    BY <2>2, <2>3, WorkerCluster
<1>4. ASSUME NEW b \in Apps \ {a} PROVE AtRest(b)' <=> AtRest(b)
  <2>1. events' = events
    BY WorkerStatus
  <2>2. \A v \in Workers : (pc'[v] # "idle" /\ task'[v].app = b)
                           <=> (pc[v] # "idle" /\ task[v].app = b)
    BY <1>1, <1>2, <1>4 DEF OthersStay
  <2>3. QED
    BY <1>1, <1>2, <1>4, <2>1, <2>2 DEF AtRest
<1>5. \A b \in Apps \ {a} : app'[b].live = app[b].live /\ app'[b].health = app[b].health
  BY WorkerStatus
<1>6. QED
  BY <1>1, <1>3, <1>4, <1>5 DEF OnlyAbout, AtRest

(* Every step is a step of the Reconciler, or unseen.                        *)
LEMMA StepsAreReconciling ==
  ASSUME DistinctNames, TypeOK, TypeOK', ItemExclusive, OrphanInv, DoneAtRest',
         DoomedInv, [Next]_vars
  PROVE  R!Next \/ UNCHANGED R!vars
<1>1. CASE ~ Calm'
  BY <1>1 DEF R!Next, R!Trouble
<1>2. CASE Calm'
  <2>1. Calm /\ ~ Relist /\ ~ Crash /\ \A w \in Workers : ~ Panic(w)
    BY <1>2, CalmStep DEF OrphanInv
  <2>2. /\ app \in [Apps -> AppStates] /\ events \in [Apps -> Seq(Events)]
        /\ cache \in [Apps -> [known : BOOLEAN, ver : Versions, spec : Specs]]
        /\ StoreTypeOK'
    BY DEF TypeOK, StoreTypeOK, InformerTypeOK
  <2>3. \A a \in Apps : AtRest(a)' =>
          IF app'[a].live THEN Outcome(R!Outcomes, a)' ELSE ~ HasObjects(a)'
    BY <1>2 DEF DoneAtRest
  <2>4. ASSUME NEW a \in Apps, OnlyAbout(a), ~ AtRest(a), app'[a].live = app[a].live,
               app[a].live \/ app'[a].health = app[a].health
        PROVE  R!Next
    <3>1. PICK o \in BOOLEAN : o <=> ~ AtRest(a)'
      OBVIOUS
    <3>2. R!Work(a, o)
      BY <1>2, <2>1, <2>2, <2>3, <2>4, <3>1, IsWork
    <3>3. QED
      BY <3>2 DEF R!Next
  <2>5. ASSUME NEW a \in Apps, events'[a] # <<>>, UNCHANGED <<cluster, spent>>,
               app'[a].health \in {app[a].health, "None"},
               \A b \in Apps \ {a} : app'[b] = app[b] /\ events'[b] = events[b],
               UNCHANGED <<queueVars, workerVars>>
        PROVE  R!Next
    <3>1. OnlyAbout(a)
      BY <2>5, SameRest DEF OnlyAbout, HasObjects, Labelled, queueVars
    <3>2. R!User(a)
      BY <2>2, <2>5, <3>1, IsUser DEF AtRest
    <3>3. QED
      BY <3>2 DEF R!Next
  <2>6. ASSUME NEW a \in Apps, NEW s \in Specs,
               CreateApplication(a, s) \/ UpdateSpec(a, s) \/ DeleteApplication(a)
        PROVE  R!Next
    <3>1. events'[a] # <<>>
      BY <2>6, NewestIsLast DEF CreateApplication, UpdateSpec, DeleteApplication
    <3>2. app'[a].health \in {app[a].health, "None"}
      BY <2>2, <2>6 DEF CreateApplication, UpdateSpec, DeleteApplication, AppStates
    <3>3. /\ \A b \in Apps \ {a} : app'[b] = app[b] /\ events'[b] = events[b]
          /\ UNCHANGED <<cluster, spent, queueVars, workerVars>>
      BY <2>2, <2>6 DEF CreateApplication, UpdateSpec, DeleteApplication
    <3>4. QED
      BY <2>5, <3>1, <3>2, <3>3
  <2>7. ASSUME NEW a \in Apps, Deliver(a) PROVE R!Next
    <3>1. /\ UNCHANGED <<app, cluster, dirty, workerVars>> /\ waiting \subseteq waiting'
          /\ \A b \in Apps \ {a} : events'[b] = events[b]
          /\ waiting' \subseteq waiting \cup {Item(a, Head(events[a]))}
      BY <2>2, <2>7 DEF Deliver, handleAdd, handleUdate, handleDelete, AddRateLimited,
         queueVars
    <3>2. \A b \in Apps \ {a} : AtRest(b)' <=> AtRest(b)
      <4>1. Item(a, Head(events[a])).app = a
        BY DEF Item
      <4>2. QED
        BY <3>1, <4>1, SameRest
    <3>3. OnlyAbout(a) /\ ~ AtRest(a)
      BY <2>7, <3>1, <3>2 DEF OnlyAbout, AtRest, HasObjects, Labelled, Deliver
    <3>4. QED
      BY <2>4, <3>1, <3>3
  <2>8. ASSUME NEW i \in waiting, DelayOver(i) PROVE UNCHANGED R!vars
    <3>1. /\ UNCHANGED <<app, cluster, spent, events, workerVars>>
          /\ waiting' \cup dirty' = waiting \cup dirty
      BY <2>8 DEF DelayOver, Ready, informerVars
    <3>2. QED
      BY <3>1, SameRest, IsUnseen
  <2>9. ASSUME NEW w \in Workers, GetItem(w) PROVE UNCHANGED R!vars
    <3>1. /\ OthersStay(w) /\ pc[w] = "idle" /\ pc'[w] = "lookup" /\ waiting' = waiting
          /\ task'[w] \in dirty /\ dirty' = dirty \ {task'[w]}
          /\ UNCHANGED <<app, cluster, events, spent>>
      BY <2>9, GetEffect DEF informerVars
    <3>2. ASSUME NEW a \in Apps PROVE AtRest(a)' <=> AtRest(a)
      <4>1. CASE task'[w].app = a
        BY <3>1, <4>1 DEF AtRest
      <4>2. CASE task'[w].app # a
        <5>1. \A v \in Workers : (pc'[v] # "idle" /\ task'[v].app = a)
                                 <=> (pc[v] # "idle" /\ task[v].app = a)
          BY <3>1, <4>2 DEF OthersStay
        <5>2. QED
          BY <3>1, <4>2, <5>1 DEF AtRest
      <4>3. QED
        BY <4>1, <4>2
    <3>3. QED
      BY <3>1, <3>2, IsUnseen
  <2>10. ASSUME NEW w \in Workers, Worker(w) \/ CallFails(w), ~ GetItem(w)
         PROVE  R!Next
    <3>1. PICK a \in Apps : a = task[w].app
      BY DEF TypeOK, WorkerTypeOK, Items
    <3>2. OnlyAbout(a) /\ ~ AtRest(a)
      BY <2>1, <2>10, <3>1, WorkerOnlyAbout
    <3>3. /\ app'[a].live = app[a].live
          /\ app[a].live \/ app'[a].health = app[a].health
      BY <2>1, <2>10, WorkerStatus
    <3>4. QED
      BY <2>4, <3>2, <3>3
  <2>11. CASE UNCHANGED vars \/ \E r \in Repos : Commit(r)
    <3>1. UNCHANGED <<app, cluster, spent, events, workerVars, waiting, dirty>>
      BY <2>11 DEF vars, Commit, informerVars, queueVars
    <3>2. QED
      BY <3>1, SameRest, IsUnseen
  <2>12. QED
    BY SpecsAssumption, <2>1, <2>6, <2>7, <2>8, <2>9, <2>10, <2>11 DEF Next, User
<1>3. QED
  BY <1>1, <1>2

(* The controller starts as the Reconciler does.                             *)
LEMMA StartIsReconciling == Init => R!Init
<1> SUFFICES ASSUME Init PROVE R!Init
  OBVIOUS
<1>1. \A a \in Apps : ~ app[a].live /\ app[a].health = "None" /\ Labelled(NameOf[a]) = {}
  BY DEF Init, Labelled
<1>2. \A a \in Apps : AtRest(a)
  BY DEF Init, QueueInit, AtRest
<1>3. Calm
  BY DEF Init, Calm, Trouble
<1>4. [a \in Apps |-> app[a].live] = [a \in Apps |-> FALSE]
  BY DEF Init
<1>5. [a \in Apps |-> ~ AtRest(a)] = [a \in Apps |-> FALSE]
  BY <1>2
<1>6. [a \in Apps |-> Labelled(NameOf[a]) # {}] = [a \in Apps |-> FALSE]
  BY <1>1
<1>7. [a \in Apps |-> app[a].health] = [a \in Apps |-> "None"]
  BY <1>1
<1>8. QED
  BY <1>3, <1>4, <1>5, <1>6, <1>7 DEF R!Init

(***************************************************************************)
(* The controller is level triggered (the safety part of LevelTriggered,   *)
(* for Applications that are Separate): whatever users did and in whatever *)
(* order, no step of any worker touches the status or the objects of an    *)
(* Application that nothing is under way for, and the last step about an   *)
(* Application leaves it with an outcome, or with none of its objects when *)
(* it is gone.                                                             *)
(***************************************************************************)
THEOREM ReconcilesSafely == Separate => (Spec => R!SafeSpec)
<1> SUFFICES ASSUME Separate PROVE Spec => R!SafeSpec
  OBVIOUS
<1>1. TypeOK /\ OrphanInv /\ [Next]_vars => OrphanInv'
  BY AnsweredNext, EventsEndRightNext, NoTombstonesNext DEF OrphanInv
<1>2. TypeOK /\ ObjectsInv /\ [Next]_vars => ObjectsInv'
  BY ObjectsNext
<1>3. /\ TypeOK /\ TypeOK' /\ ItemExclusive /\ OrphanInv /\ DoneAtRest'
      /\ ObjectsInv /\ [Next]_vars
      => [R!Next]_R!vars
  BY StepsAreReconciling DEF ObjectsInv, Separate
<1>4. Settled /\ NoOrphans => DoneAtRest
  BY RestIsDone DEF Separate
<1>5. QED
  BY <1>1, <1>2, <1>3, <1>4, OrphanInit, ObjectsInit, StartIsReconciling, TypeCorrect,
     ItemExclusiveEver, SettledEver, NoOrphansEver, PTL DEF Spec, R!SafeSpec

-----------------------------------------------------------------------------
(***************************************************************************)
(* HealthyKeepsObjects and HealthyMeansApplied, with one worker and for    *)
(* Applications that do not share a name.  A cleanup starts when there is  *)
(* no Application; while it runs nobody reports one Healthy.               *)
(***************************************************************************)
CleanupInv == \A w \in Workers :
  pc[w] \in DeletePath /\ app[task[w].app].live => app[task[w].app].health # "Healthy"

LEMMA CleanupNext ==
  ASSUME OneWorker
  PROVE  TypeOK /\ CleanupInv /\ [Next]_vars => CleanupInv'
<1> SUFFICES ASSUME TypeOK, CleanupInv, [Next]_vars PROVE CleanupInv'
  OBVIOUS
<1>1. /\ app \in [Apps -> AppStates] /\ \A w \in Workers : task[w].app \in Apps
      /\ pc \in [Workers -> Points]
  BY DEF TypeOK, StoreTypeOK, WorkerTypeOK, Items
<1>2. ASSUME UNCHANGED workerVars,
             \A a \in Apps : app'[a].live /\ app'[a].health = "Healthy" =>
                               app[a].live /\ app[a].health = "Healthy"
      PROVE  CleanupInv'
  BY <1>1, <1>2 DEF CleanupInv, workerVars
<1>3. ASSUME NEW a \in Apps, NEW s \in Specs, CreateApplication(a, s) PROVE CleanupInv'
  BY <1>1, <1>2, <1>3 DEF CreateApplication
<1>4. ASSUME NEW a \in Apps, NEW s \in Specs, UpdateSpec(a, s) PROVE CleanupInv'
  BY <1>1, <1>2, <1>4 DEF UpdateSpec, AppStates
<1>5. ASSUME NEW a \in Apps, DeleteApplication(a) PROVE CleanupInv'
  BY <1>1, <1>2, <1>5 DEF DeleteApplication
<1>6. CASE \/ \E r \in Repos : Commit(r)
           \/ \E a \in Apps : Deliver(a)
           \/ \E i \in waiting : DelayOver(i)
           \/ Relist \/ UNCHANGED vars
  BY <1>2, <1>6 DEF Commit, Deliver, DelayOver, Relist, vars
<1>7. ASSUME Restart PROVE CleanupInv'
  BY <1>7 DEF Restart, CleanupInv, DeletePath
<1>8. ASSUME NEW w \in Workers, GetItem(w) PROVE CleanupInv'
  BY <1>1, <1>8 DEF OneWorker, GetItem, Goto, CleanupInv, DeletePath
<1>9. ASSUME NEW w \in Workers, Worker(w) \/ CallFails(w), ~ Panic(w), ~ GetItem(w)
      PROVE  CleanupInv'
  <2>1. GoesOn(w) \/ GetsFree(w) \/ TriesAgain(w)
    BY <1>9, WorkerEffect
  <2>2. SUFFICES ASSUME pc'[w] \in DeletePath, app'[task'[w].app].live
                 PROVE  app'[task'[w].app].health # "Healthy"
    BY DEF CleanupInv, OneWorker
  <2>3. /\ task' = task
        /\ \/ pc[w] = "lookup" /\ ~ app[task[w].app].live
           \/ pc[w] \in DeletePath
    BY <2>1, <2>2 DEF GoesOn, GetsFree, TriesAgain, CreatePath, DeletePath
  <2>4. /\ app'[task[w].app].live = app[task[w].app].live
        /\ \/ app'[task[w].app].health = app[task[w].app].health
           \/ pc[w] \in {"progressing", "healthy", "degrade"}
    BY <1>1, <1>9, WorkerStatus
  <2>5. QED
    BY <2>2, <2>3, <2>4 DEF CleanupInv, DeletePath
<1>10. QED
  BY <1>3, <1>4, <1>5, <1>6, <1>7, <1>8, <1>9 DEF Next, User, Crash, Panic

(* No step takes away an object of a Healthy Application.                    *)
LEMMA HealthyKeeps ==
  ASSUME DistinctNames, TypeOK, DoomedInv, CleanupInv, [Next]_vars,
         NEW a \in Apps, app[a].live, app[a].health = "Healthy"
  PROVE  Labelled(NameOf[a]) \subseteq cluster'
<1>1. CASE cluster \subseteq cluster'
  BY <1>1 DEF Labelled
<1>2. CASE \/ User \/ (\E b \in Apps : Deliver(b)) \/ (\E i \in waiting : DelayOver(i))
           \/ Relist \/ Restart \/ UNCHANGED vars
  BY <1>1, <1>2 DEF User, CreateApplication, UpdateSpec, DeleteApplication, Commit,
     Deliver, DelayOver, Relist, Restart, vars
<1>3. ASSUME NEW w \in Workers, Worker(w) \/ CallFails(w), ~ Panic(w)
      PROVE  Labelled(NameOf[a]) \subseteq cluster'
  <2>1. cluster' = cluster \/ Creates(w) \/ Deletes(w)
    BY <1>3, WorkerCluster
  <2>2. CASE cluster' = cluster \/ Creates(w)
    BY <1>1, <2>2 DEF Creates
  <2>3. CASE Deletes(w)
    <3>1. PICK p \in job[w].doomed :
            pc[w] = "delete" /\ cluster' = {o \in cluster : o.place # p}
      BY <2>3 DEF Deletes
    <3>2. task[w].app \in Apps
      BY DEF TypeOK, WorkerTypeOK, Items
    <3>3. task[w].app # a
      BY <3>1 DEF CleanupInv, DeletePath
    <3>4. \A o \in Labelled(NameOf[a]) : o.place # p
      BY <3>1, <3>2, <3>3 DEF DoomedInv, Marked, Labelled, DistinctNames
    <3>5. QED
      BY <3>1, <3>4 DEF Labelled
  <2>4. QED
    BY <2>1, <2>2, <2>3
<1>4. QED
  BY <1>2, <1>3 DEF Next, Crash, Panic

(***************************************************************************)
(* With one worker, deleteResources takes away no object of an Application *)
(* that is Healthy: it started when the Application was gone, and one that *)
(* is created again meanwhile is not reported on before it is over.        *)
(***************************************************************************)
THEOREM HealthyKeepsObjectsEver ==
  OneWorker /\ DistinctNames => (Spec => HealthyKeepsObjects)
<1> SUFFICES ASSUME OneWorker, DistinctNames PROVE Spec => HealthyKeepsObjects
  OBVIOUS
<1>1. Init => ObjectsInv /\ CleanupInv
  BY ObjectsInit DEF Init, CleanupInv, DeletePath
<1>2. TypeOK /\ ObjectsInv /\ [Next]_vars => ObjectsInv'
  BY ObjectsNext DEF Separate
<1>3. TypeOK /\ CleanupInv /\ [Next]_vars => CleanupInv'
  BY CleanupNext
<1>4. TypeOK /\ ObjectsInv /\ CleanupInv /\ [Next]_vars
      => [\A a \in Apps : app[a].live /\ app[a].health = "Healthy" =>
            Labelled(NameOf[a]) \subseteq cluster']_vars
  BY HealthyKeeps DEF ObjectsInv
<1>5. QED
  BY <1>1, <1>2, <1>3, <1>4, TypeCorrect, PTL DEF Spec, HealthyKeepsObjects

(***************************************************************************)
(* What a worker knows half way: the directory it checked out is still at  *)
(* the hash it read, its manifests are those of that hash, and what it has *)
(* created so far is there.                                                *)
(***************************************************************************)
There(objs, a, r, body) ==
  \E o \in objs : /\ o.place = Place(a, r) /\ o.label = NameOf[a]
                  /\ SpecPart[o.body] = SpecPart[body]

Realised(objs, a, s, c) ==
  /\ c \in Commits
  /\ \A r \in DOMAIN Manifest[s][c] : There(objs, a, r, Manifest[s][c][r])

HalfWay(w) ==
  /\ pc[w] = "generate" => job[w].sha \in Commits /\ clone[RepoPath(w)] = job[w].sha
  /\ pc[w] \in {"list", "create"} =>
       job[w].sha \in Commits /\ job[w].gen = Manifest[job[w].spec][job[w].sha]
  /\ pc[w] = "create" => \A r \in DOMAIN job[w].gen \ job[w].todo :
                           There(cluster, task[w].app, r, job[w].gen[r])
  /\ pc[w] = "healthy" => Realised(cluster, task[w].app, job[w].spec, job[w].sha)

JobInv == \A w \in Workers : HalfWay(w)

LEMMA AppliedRealised ==
  ASSUME NEW a \in Apps
  PROVE  /\ Applied(a) <=> Realised(cluster, a, app[a].spec, app[a].rev)
         /\ Applied(a)' <=> Realised(cluster', a, app'[a].spec, app'[a].rev)
BY DEF Realised, There, Applied

(* Objects that were there stay there.                                       *)
LEMMA ThereStays ==
  ASSUME NEW a \in Apps, Labelled(NameOf[a]) \subseteq cluster', NEW s, NEW c,
         Realised(cluster, a, s, c)
  PROVE  Realised(cluster', a, s, c)
BY DEF Realised, There, Labelled

(* Worker w goes on from the checkout to the manifests.                      *)
LEMMA CheckoutHalf ==
  ASSUME TypeOK, NEW w \in Workers, Checkout(w) \/ GenerateManifests(w), HalfWay(w)
  PROVE  HalfWay(w)'
<1>1. /\ pc \in [Workers -> Points] /\ job \in [Workers -> Jobs] /\ task[w].app \in Apps
      /\ clone \in [Paths -> 0 .. Broken] /\ remote \in [Repos -> Commits]
      /\ job[w].spec \in Specs
  BY DEF TypeOK, StoreTypeOK, WorkerTypeOK, Items, Jobs
<1>2. ASSUME Fail(w) PROVE HalfWay(w)'
  BY <1>1, <1>2 DEF Fail, Goto, HalfWay
<1>3. RepoPath(w) \in Paths /\ RepoOf[job[w].spec] \in Repos
  BY <1>1, AppsAssumption, SpecsAssumption DEF RepoPath, PathOf, Paths, Names, Repos
<1>4. CASE Checkout(w) /\ ~ Fail(w)
  <2> DEFINE head == remote[RepoOf[job[w].spec]]
  <2>1. /\ clone' = [clone EXCEPT ![RepoPath(w)] = head]
        /\ pc'[w] = "generate" /\ task' = task
        /\ job'[w] = [job[w] EXCEPT !.sha = head]
    BY <1>1, <1>4 DEF Checkout, Continue, Goto
  <2>2. job'[w].sha = head /\ job'[w].spec = job[w].spec /\ head \in Commits
    BY <1>1, <1>3, <2>1 DEF Jobs
  <2>3. RepoPath(w)' = RepoPath(w)
    BY <2>1, <2>2 DEF RepoPath
  <2>4. clone'[RepoPath(w)] = head
    BY <1>1, <1>3, <2>1
  <2>5. QED
    BY <2>1, <2>2, <2>3, <2>4 DEF HalfWay
<1>5. CASE GenerateManifests(w) /\ ~ Fail(w)
  <2>1. /\ pc[w] = "generate" /\ pc'[w] = "list"
        /\ job'[w] = [job[w] EXCEPT !.gen = Manifest[job[w].spec][clone[RepoPath(w)]]]
    BY <1>1, <1>5 DEF GenerateManifests, Continue, Goto
  <2>2. /\ job'[w].sha = job[w].sha /\ job'[w].spec = job[w].spec
        /\ job'[w].gen = Manifest[job[w].spec][clone[RepoPath(w)]]
    BY <1>1, <2>1 DEF Jobs
  <2>3. job[w].sha \in Commits /\ clone[RepoPath(w)] = job[w].sha
    BY <2>1 DEF HalfWay
  <2>4. QED
    BY <2>1, <2>2, <2>3 DEF HalfWay
<1>6. QED
  BY <1>2, <1>4, <1>5

(* CreateFrom goes on with what is not there yet.                            *)
LEMMA CreateFromHalf ==
  ASSUME TypeOK, NEW w \in Workers, pc[w] \in {"list", "create"}, HalfWay(w),
         NEW todo, CreateFrom(w, todo),
         \A r \in DOMAIN job[w].gen \ todo : There(cluster', task[w].app, r, job[w].gen[r])
  PROVE  HalfWay(w)'
<1>1. pc \in [Workers -> Points] /\ job \in [Workers -> Jobs] /\ NoJob \in Jobs
  BY RestTypes DEF TypeOK, WorkerTypeOK
<1>2. task' = task
  BY DEF CreateFrom, Continue
<1>3. job[w].sha \in Commits /\ job[w].gen = Manifest[job[w].spec][job[w].sha]
  BY DEF HalfWay
<1>4. CASE todo = {}
  <2>1. /\ pc'[w] = "healthy"
        /\ job'[w] = [NoJob EXCEPT !.spec = job[w].spec, !.sha = job[w].sha]
    BY <1>1, <1>4 DEF CreateFrom, Continue, Goto
  <2>2. job'[w].spec = job[w].spec /\ job'[w].sha = job[w].sha
    BY <1>1, <2>1 DEF Jobs
  <2>3. \A r \in DOMAIN job[w].gen : There(cluster', task[w].app, r, job[w].gen[r])
    BY <1>2, <1>4
  <2>4. QED
    BY <1>2, <1>3, <2>1, <2>2, <2>3 DEF HalfWay, Realised
<1>5. CASE todo # {}
  <2>1. pc'[w] = "create" /\ job'[w] = [job[w] EXCEPT !.todo = todo]
    BY <1>1, <1>5 DEF CreateFrom, Continue, Goto
  <2>2. /\ job'[w].spec = job[w].spec /\ job'[w].sha = job[w].sha
        /\ job'[w].gen = job[w].gen /\ job'[w].todo = todo
    BY <1>1, <2>1 DEF Jobs
  <2>3. QED
    BY <1>2, <1>3, <2>1, <2>2 DEF HalfWay
<1>6. QED
  BY <1>4, <1>5

(* A manifest that DiffResources finds unchanged is there.                   *)
LEMMA ListHalf ==
  ASSUME DistinctNames, TypeOK, PlaceInv, NEW w \in Workers, ListAndDiff(w), HalfWay(w)
  PROVE  HalfWay(w)'
<1> DEFINE a == task[w].app
           gen == job[w].gen
<1>1. a \in Apps
  BY DEF TypeOK, WorkerTypeOK, Items
<1>2. job[w].sha \in Commits /\ gen = Manifest[job[w].spec][job[w].sha] /\ pc[w] = "list"
  BY DEF ListAndDiff, HalfWay
<1>3. PICK found \in SUBSET Labelled(NameOf[a]) :
        \E table \in HashTables(found) :
          CreateFrom(w, IF DiffResources(table, gen) THEN DOMAIN gen ELSE {})
  BY DEF ListAndDiff
<1>4. PICK table \in HashTables(found) :
        CreateFrom(w, IF DiffResources(table, gen) THEN DOMAIN gen ELSE {})
  BY <1>3
<1>5. cluster' = cluster
  BY DEF ListAndDiff
<1>6. ASSUME ~ DiffResources(table, gen), NEW r \in DOMAIN gen
      PROVE  There(cluster', a, r, gen[r])
  <2>1. r \in DOMAIN table /\ SpecPart[table[r].body] = SpecPart[gen[r]]
    BY <1>6 DEF DiffResources
  <2>2. table[r] \in Labelled(NameOf[a]) /\ table[r].place[2] = r
    BY <2>1, <1>4 DEF HashTables
  <2>3. table[r] \in cluster /\ table[r].label = NameOf[a]
    BY <2>2 DEF Labelled
  <2>4. PICK b \in Apps : table[r].label = NameOf[b] /\ OwnPlace(b, table[r].place)
    BY <2>3 DEF PlaceInv
  <2>5. PICK q \in Resources : table[r].place = Place(a, q)
    BY <1>1, <2>3, <2>4 DEF DistinctNames, OwnPlace
  <2>6. q = r
    BY <2>2, <2>5 DEF Place
  <2>7. QED
    BY <1>5, <2>1, <2>3, <2>5, <2>6 DEF There
<1>7. \A r \in DOMAIN gen \ (IF DiffResources(table, gen) THEN DOMAIN gen ELSE {}) :
        There(cluster', a, r, gen[r])
  BY <1>6
<1>8. QED
  BY <1>2, <1>4, <1>7, CreateFromHalf

(* A manifest that was created is there.                                     *)
LEMMA CreateHalf ==
  ASSUME TypeOK, NEW w \in Workers, CreateResource(w), HalfWay(w)
  PROVE  HalfWay(w)'
<1> DEFINE a == task[w].app
           gen == job[w].gen
<1>1. /\ pc \in [Workers -> Points]
      /\ pc[w] = "create" => job[w].todo \subseteq DOMAIN gen
  BY DEF TypeOK, WorkerTypeOK
<1>2. ASSUME Fail(w) PROVE HalfWay(w)'
  BY <1>1, <1>2 DEF Fail, Goto, HalfWay
<1>3. CASE ~ Fail(w)
  <2>1. PICK r \in job[w].todo :
          /\ cluster' = cluster \cup {[place |-> Place(a, r), label |-> NameOf[a],
                                       body |-> gen[r]]}
          /\ CreateFrom(w, job[w].todo \ {r})
    BY <1>3 DEF CreateResource
  <2>2. /\ pc[w] = "create" /\ job[w].sha \in Commits
        /\ gen = Manifest[job[w].spec][job[w].sha] /\ r \in DOMAIN gen
        /\ \A q \in DOMAIN gen \ job[w].todo : There(cluster, a, q, gen[q])
    BY <1>1, <2>1 DEF CreateResource, HalfWay
  <2>3. There(cluster', a, r, gen[r])
    <3> DEFINE new == [place |-> Place(a, r), label |-> NameOf[a], body |-> gen[r]]
    <3>1. /\ new \in cluster' /\ new.place = Place(a, r) /\ new.label = NameOf[a]
          /\ new.body = gen[r]
      BY <2>1
    <3>2. QED
      BY <3>1 DEF There
  <2>4. \A q \in DOMAIN gen \ job[w].todo : There(cluster', a, q, gen[q])
    BY <2>1, <2>2 DEF There
  <2>5. \A q \in DOMAIN gen \ (job[w].todo \ {r}) : There(cluster', a, q, gen[q])
    BY <2>3, <2>4
  <2>6. QED
    BY <2>1, <2>2, <2>5, CreateFromHalf
<1>4. QED
  BY <1>2, <1>3

(* JobInv is inductive with one worker.                                      *)
LEMMA JobNext ==
  ASSUME OneWorker, DistinctNames
  PROVE  TypeOK /\ PlaceInv /\ JobInv /\ [Next]_vars => JobInv'
<1> SUFFICES ASSUME TypeOK, PlaceInv, JobInv, [Next]_vars PROVE JobInv'
  OBVIOUS
<1>1. pc \in [Workers -> Points]
  BY DEF TypeOK, WorkerTypeOK
<1>2. ASSUME UNCHANGED <<cluster, clone, workerVars>> PROVE JobInv'
  BY <1>2 DEF JobInv, HalfWay, RepoPath, workerVars
<1>3. CASE \/ User \/ (\E a \in Apps : Deliver(a)) \/ (\E i \in waiting : DelayOver(i))
           \/ Relist \/ UNCHANGED vars
  BY <1>2, <1>3 DEF User, CreateApplication, UpdateSpec, DeleteApplication, Commit,
     Deliver, DelayOver, Relist, vars
<1>4. ASSUME Restart PROVE JobInv'
  BY <1>4 DEF Restart, JobInv, HalfWay
<1>5. ASSUME NEW w \in Workers, Worker(w) \/ CallFails(w), ~ Panic(w) PROVE JobInv'
  <2>1. SUFFICES HalfWay(w)'
    BY DEF JobInv, OneWorker
  <2>2. HalfWay(w)
    BY DEF JobInv
  <2>3. ASSUME pc'[w] \notin {"generate", "list", "create", "healthy"} PROVE HalfWay(w)'
    BY <2>3 DEF HalfWay
  <2>4. ASSUME Fail(w) \/ Succeed(w) PROVE HalfWay(w)'
    BY <1>1, <2>3, <2>4 DEF Fail, Succeed, Goto
  <2>5. ASSUME NEW l \in {"progressing", "list_delete", "clone", "checkout", "delete",
                          "cleanup"}, NEW j, Continue(w, l, j)
        PROVE  HalfWay(w)'
    BY <1>1, <2>3, <2>5 DEF Continue, Goto
  <2>6. CASE Checkout(w) \/ GenerateManifests(w)
    BY <2>2, <2>6, CheckoutHalf
  <2>7. CASE ListAndDiff(w)
    BY <2>2, <2>7, ListHalf
  <2>8. CASE CreateResource(w)
    BY <2>2, <2>8, CreateHalf
  <2>9. CASE LookUp(w) \/ WriteProgressing(w) \/ CloneOrFetch(w)
    BY <2>4, <2>5, <2>9 DEF LookUp, WriteProgressing, CloneOrFetch
  <2>10. CASE WriteHealthy(w) \/ CleanUp(w) \/ CallFails(w)
    BY <2>4, <2>10 DEF WriteHealthy, CleanUp, CallFails
  <2>11. CASE GetItem(w) \/ DeferredDone(w) \/ WriteDegraded(w)
    BY <1>1, <2>3, <2>11 DEF GetItem, DeferredDone, WriteDegraded, Goto
  <2>12. CASE ListForDelete(w) \/ DeleteResource(w)
    BY <2>4, <2>5, <2>12 DEF ListForDelete, DeleteResource, DeleteFrom
  <2>13. QED
    BY <1>5, <2>6, <2>7, <2>8, <2>9, <2>10, <2>11, <2>12 DEF Worker
<1>6. QED
  BY <1>3, <1>4, <1>5 DEF Next, Crash, Panic

(* Application a will be looked at again, whatever the workers do now.       *)
Returns(a) == WillQueue(a) \/ \E i \in waiting \cup dirty : i.app = a

(* Only a Get, or a trouble that ends it all, takes that back.               *)
LEMMA QueuedStays ==
  ASSUME TypeOK, [Next]_vars, ~ Relist, ~ Restart, \A w \in Workers : ~ GetItem(w),
         NEW a \in Apps, Returns(a)
  PROVE  Returns(a)'
<1>1. events \in [Apps -> Seq(Events)]
      /\ cache \in [Apps -> [known : BOOLEAN, ver : Versions, spec : Specs]]
  BY DEF TypeOK, InformerTypeOK
<1>2. ASSUME waiting \cup dirty \subseteq waiting' \cup dirty', WillQueue(a) => Returns(a)'
      PROVE  Returns(a)'
  BY <1>2 DEF Returns
<1>3. ASSUME NEW b \in Apps, NEW s \in Specs, CreateApplication(b, s) \/ UpdateSpec(b, s)
      PROVE  Returns(a)'
  BY <1>2, <1>3, NewsStay DEF CreateApplication, UpdateSpec, queueVars, Returns
<1>4. ASSUME NEW b \in Apps, DeleteApplication(b) PROVE Returns(a)'
  BY <1>2, <1>4, NewsStay DEF DeleteApplication, queueVars, Returns
<1>5. ASSUME NEW b \in Apps, Deliver(b) PROVE Returns(a)'
  <2>1. /\ dirty' = dirty /\ waiting \subseteq waiting'
        /\ a # b => events'[a] = events[a] /\ cache'[a] = cache[a]
    BY <1>1, <1>5 DEF Deliver, handleAdd, handleUdate, handleDelete, AddRateLimited,
       queueVars
  <2>2. WillQueue(a) => WillQueue(a)' \/ \E i \in waiting' : i.app = a
    BY <1>5, <2>1, NewsAreQueued DEF WillQueue, IsNews
  <2>3. QED
    BY <1>2, <2>1, <2>2 DEF Returns
<1>6. ASSUME UNCHANGED informerVars, waiting \cup dirty \subseteq waiting' \cup dirty'
      PROVE  Returns(a)'
  BY <1>6 DEF Returns, WillQueue, IsNews, informerVars
<1>7. ASSUME NEW i \in waiting, DelayOver(i) PROVE Returns(a)'
  BY <1>6, <1>7 DEF DelayOver, Ready
<1>8. CASE UNCHANGED vars \/ \E r \in Repos : Commit(r)
  BY <1>6, <1>8 DEF vars, Commit, queueVars
<1>9. ASSUME NEW w \in Workers, Worker(w) \/ CallFails(w) PROVE Returns(a)'
  <2>1. ~ Panic(w) /\ ~ GetItem(w)
    BY DEF Panic
  <2>2. dirty' = dirty /\ waiting \subseteq waiting'
    BY <1>9, <2>1, WorkerEffect DEF GoesOn, GetsFree, TriesAgain
  <2>3. UNCHANGED informerVars
    BY <1>9, <2>1, WorkerStatus DEF informerVars
  <2>4. QED
    BY <1>6, <2>2, <2>3
<1>10. QED
  BY <1>3, <1>4, <1>5, <1>7, <1>8, <1>9 DEF Next, User, Crash

(* Who works on an older spec than the current one will have to come again.  *)
Outdated(w, a) ==
  task[w].app = a /\ pc[w] \in CreatePath /\ app[a].live /\ job[w].spec # app[a].spec

FreshInv == spent["relist"] = 0 =>
  \A w \in Workers, a \in Apps : Outdated(w, a) => Returns(a)

LEMMA FreshNext ==
  ASSUME OneWorker
  PROVE  TypeOK /\ NoTombstones /\ CacheInv /\ FreshInv /\ [Next]_vars => FreshInv'
<1> SUFFICES ASSUME TypeOK, NoTombstones, CacheInv, FreshInv, [Next]_vars,
                    spent'["relist"] = 0, NEW w \in Workers, NEW a \in Apps,
                    Outdated(w, a)'
             PROVE  Returns(a)'
  BY DEF FreshInv
<1>1. app \in [Apps -> AppStates] /\ pc \in [Workers -> Points]
  BY DEF TypeOK, StoreTypeOK, WorkerTypeOK
<1>2. spent["relist"] = 0 /\ ~ Relist /\ \A v \in Workers : ~ Panic(v)
  BY BeforeRelist
<1>3. ~ Restart
  BY DEF Restart, Outdated, CreatePath
<1>4. \A v \in Workers : ~ GetItem(v)
  BY <1>1 DEF OneWorker, GetItem, Goto, Outdated, CreatePath
<1>5. ASSUME Outdated(w, a) PROVE Returns(a)'
  BY <1>2, <1>3, <1>4, <1>5, QueuedStays DEF FreshInv
<1>6. ASSUME UNCHANGED workerVars, app'[a].live = app[a].live, app'[a].spec = app[a].spec
      PROVE  Returns(a)'
  BY <1>5, <1>6 DEF Outdated, workerVars
<1>7. ASSUME NEW b \in Apps, NEW s \in Specs, CreateApplication(b, s) PROVE Returns(a)'
  BY <1>1, <1>6, <1>7, UsersMakeNews DEF CreateApplication, Returns
<1>8. ASSUME NEW b \in Apps, NEW s \in Specs, UpdateSpec(b, s) PROVE Returns(a)'
  BY <1>1, <1>6, <1>8, UsersMakeNews DEF UpdateSpec, Returns
<1>9. ASSUME NEW b \in Apps, DeleteApplication(b) PROVE Returns(a)'
  BY <1>1, <1>6, <1>9 DEF DeleteApplication, Outdated
<1>10. CASE \/ \E r \in Repos : Commit(r)
            \/ \E b \in Apps : Deliver(b)
            \/ \E i \in waiting : DelayOver(i)
            \/ UNCHANGED vars
  BY <1>6, <1>10 DEF Commit, Deliver, DelayOver, vars
<1>11. ASSUME NEW v \in Workers, Worker(v) \/ CallFails(v) PROVE Returns(a)'
  <2>1. v = w /\ ~ Panic(w) /\ ~ GetItem(w)
    BY <1>2, <1>4 DEF OneWorker
  <2>2. app'[a].live = app[a].live /\ app'[a].spec = app[a].spec
    BY <1>11, <2>1, WorkerStatus
  <2>3. task' = task
    BY <1>11, <2>1, WorkerEffect DEF GoesOn, GetsFree, TriesAgain, Outdated, CreatePath
  <2>4. pc[w] \in CreatePath /\ job'[w].spec = job[w].spec
    BY <1>11, <2>1, <2>2, <2>3, JobSpec DEF Outdated
  <2>5. QED
    BY <1>5, <2>2, <2>3, <2>4 DEF Outdated
<1>12. QED
  BY <1>2, <1>3, <1>7, <1>8, <1>9, <1>10, <1>11 DEF Next, User, Crash

(* What is Healthy is applied, or will be reported on once more.             *)
AppliedInv == spent["relist"] = 0 => \A a \in Apps :
  app[a].live /\ app[a].health = "Healthy" => Applied(a) \/ Reports(a)

(* The report that Application a is Healthy.                                 *)
LEMMA ReportApplied ==
  ASSUME TypeOK, JobInv, FreshInv, spent["relist"] = 0, [Next]_vars,
         NEW w \in Workers, NEW a \in Apps, WriteHealthy(w), task[w].app = a,
         app'[a].live, ~ GetItem(w), OneWorker
  PROVE  Applied(a)' \/ Reports(a)'
<1>1. TypeOK'
  BY TypeNext
<1>2. app \in [Apps -> AppStates] /\ pc[w] = "healthy"
  BY DEF WriteHealthy, TypeOK, StoreTypeOK
<1>3. /\ app[a].live /\ cluster' = cluster
      /\ app' = [app EXCEPT ![a].health = "Healthy", ![a].rev = job[w].sha]
  BY DEF WriteHealthy, updateAppStatus
<1>4. app'[a].spec = app[a].spec /\ app'[a].rev = job[w].sha
  BY <1>2, <1>3 DEF AppStates
<1>5. CASE job[w].spec = app[a].spec
  <2>1. Realised(cluster', a, app'[a].spec, app'[a].rev)
    BY <1>2, <1>3, <1>4, <1>5 DEF JobInv, HalfWay
  <2>2. QED
    BY <2>1, AppliedRealised
<1>6. CASE job[w].spec # app[a].spec
  <2>1. Returns(a)
    BY <1>2, <1>3, <1>6 DEF FreshInv, Outdated, CreatePath
  <2>2. UNCHANGED <<events, cache, dirty>> /\ waiting \subseteq waiting'
    BY DEF WriteHealthy, Succeed, Finish, Done, Fail, AddRateLimited, informerVars
  <2>3. QED
    BY <2>1, <2>2 DEF Returns, Reports, WillQueue, IsNews
<1>7. QED
  BY <1>5, <1>6

(* AppliedInv is inductive with the invariants before.                       *)
LEMMA AppliedNext ==
  ASSUME OneWorker, DistinctNames, TypeOK, ItemExclusive, NoTombstones, CacheInv,
         DoomedInv, CleanupInv, JobInv, FreshInv, AppliedInv, [Next]_vars
  PROVE  AppliedInv'
<1> SUFFICES ASSUME spent'["relist"] = 0, NEW a \in Apps, app'[a].live,
                    app'[a].health = "Healthy"
             PROVE  Applied(a)' \/ Reports(a)'
  BY DEF AppliedInv
<1>1. spent["relist"] = 0 /\ ~ Relist /\ \A w \in Workers : ~ Panic(w)
  BY BeforeRelist
<1>2. TypeOK' /\ app \in [Apps -> AppStates]
  BY TypeNext DEF TypeOK, StoreTypeOK
<1>3. ASSUME app'[a] = app[a], Reports(a) => Reports(a)'
      PROVE  Applied(a)' \/ Reports(a)'
  <2>1. Applied(a) \/ Reports(a)
    BY <1>1, <1>3 DEF AppliedInv
  <2>2. CASE Applied(a)
    <3>1. Realised(cluster, a, app[a].spec, app[a].rev)
      BY <2>2, AppliedRealised
    <3>2. Labelled(NameOf[a]) \subseteq cluster'
      BY <1>3, HealthyKeeps
    <3>3. Realised(cluster', a, app'[a].spec, app'[a].rev)
      BY <1>3, <3>1, <3>2, ThereStays
    <3>4. QED
      BY <3>3, AppliedRealised
  <2>3. QED
    BY <1>3, <2>1, <2>2
<1>4. ASSUME app'[a] = app[a], UNCHANGED workerVars, ~ Restart
      PROVE  Applied(a)' \/ Reports(a)'
  <2>1. CASE \A w \in Workers : ~ GetItem(w)
    <3>1. Returns(a) => Returns(a)'
      BY <1>1, <1>4, <2>1, QueuedStays
    <3>2. Reports(a) => Reports(a)'
      BY <1>4, <3>1 DEF Reports, Returns, ToReport, workerVars
    <3>3. QED
      BY <1>3, <1>4, <3>2
  <2>2. ASSUME NEW w \in Workers, GetItem(w) PROVE FALSE
    BY <1>4, <2>2 DEF GetItem, Goto, workerVars, TypeOK, WorkerTypeOK
  <2>3. QED
    BY <2>1, <2>2
<1>5. CASE Restart
  BY <1>5, RestartIsNews DEF Restart, Reports
<1>6. ASSUME NEW b \in Apps, NEW s \in Specs, CreateApplication(b, s)
      PROVE  Applied(a)' \/ Reports(a)'
  BY <1>2, <1>4, <1>5, <1>6 DEF CreateApplication
<1>7. ASSUME NEW b \in Apps, NEW s \in Specs, UpdateSpec(b, s)
      PROVE  Applied(a)' \/ Reports(a)'
  BY <1>2, <1>4, <1>5, <1>7, UsersMakeNews DEF UpdateSpec, Reports
<1>8. ASSUME NEW b \in Apps, DeleteApplication(b) PROVE Applied(a)' \/ Reports(a)'
  BY <1>2, <1>4, <1>5, <1>8 DEF DeleteApplication
<1>9. CASE \/ \E r \in Repos : Commit(r)
           \/ \E b \in Apps : Deliver(b)
           \/ \E i \in waiting : DelayOver(i)
           \/ UNCHANGED vars
  BY <1>4, <1>5, <1>9 DEF Commit, Deliver, DelayOver, vars
<1>10. ASSUME NEW w \in Workers, Worker(w) \/ CallFails(w)
       PROVE  Applied(a)' \/ Reports(a)'
  <2>1. ~ Panic(w) /\ app[a].live
    BY <1>1, <1>10, WorkerStatus
  <2>2. CASE WriteHealthy(w) /\ task[w].app = a
    <3>1. ~ GetItem(w)
      BY <2>2 DEF WriteHealthy, GetItem
    <3>2. QED
      BY <1>1, <2>2, <3>1, ReportApplied
  <2>3. CASE ~ (WriteHealthy(w) /\ task[w].app = a)
    <3>1. Reports(a) => Reports(a)'
      BY <1>10, <2>1, <2>3, WorkerKeeps
    <3>2. ASSUME NEW h \in Health, NEW r, updateAppStatus(task[w].app, h, r),
                 h # "Healthy" \/ task[w].app # a
          PROVE  app'[a] = app[a]
      BY <1>2, <3>2 DEF updateAppStatus, AppStates
    <3>3. app'[a] = app[a]
      BY <1>10, <2>1, <2>3, <3>2 DEF Health, Worker, GetItem, LookUp, WriteProgressing,
         CloneOrFetch, Checkout, GenerateManifests, ListAndDiff, CreateResource,
         WriteHealthy, DeferredDone, WriteDegraded, ListForDelete, DeleteResource,
         CleanUp, CallFails
    <3>4. QED
      BY <1>3, <3>1, <3>3
  <2>4. QED
    BY <2>2, <2>3
<1>11. QED
  BY <1>1, <1>5, <1>6, <1>7, <1>8, <1>9, <1>10 DEF Next, User, Crash

(***************************************************************************)
(* With one worker, an Application at rest that is Healthy has every       *)
(* manifest of its revision in the cluster: what updateAppStatus reports   *)
(* is what createResources found or made, of the commit it checked out,    *)
(* and no later step undoes it.                                            *)
(***************************************************************************)
THEOREM HealthyMeansAppliedEver ==
  OneWorker /\ DistinctNames => (Spec => []HealthyMeansApplied)
<1> SUFFICES ASSUME OneWorker, DistinctNames PROVE Spec => []HealthyMeansApplied
  OBVIOUS
<1>1. TypeOK /\ OrphanInv /\ [Next]_vars => OrphanInv'
  BY AnsweredNext, EventsEndRightNext, NoTombstonesNext DEF OrphanInv
<1>2. OrphanInv => NoTombstones
  BY DEF OrphanInv
<1>3. Init => ObjectsInv /\ CleanupInv /\ JobInv /\ FreshInv /\ AppliedInv
  BY ObjectsInit DEF Init, CleanupInv, DeletePath, JobInv, HalfWay, FreshInv, Outdated,
     CreatePath, AppliedInv
<1>4. TypeOK /\ ObjectsInv /\ [Next]_vars => ObjectsInv'
  BY ObjectsNext DEF Separate
<1>5. TypeOK /\ CleanupInv /\ [Next]_vars => CleanupInv'
  BY CleanupNext
<1>6. TypeOK /\ ObjectsInv /\ JobInv /\ [Next]_vars => JobInv'
  BY JobNext DEF ObjectsInv
<1>7. TypeOK /\ NoTombstones /\ CacheInv /\ FreshInv /\ [Next]_vars => FreshInv'
  BY FreshNext
<1>8. /\ TypeOK /\ ItemExclusive /\ NoTombstones /\ CacheInv /\ ObjectsInv
      /\ CleanupInv /\ JobInv /\ FreshInv /\ AppliedInv /\ [Next]_vars
      => AppliedInv'
  BY AppliedNext DEF ObjectsInv
<1>9. AppliedInv => HealthyMeansApplied
  BY RestReports DEF AppliedInv, HealthyMeansApplied
<1>10. QED
  BY <1>1, <1>2, <1>3, <1>4, <1>5, <1>6, <1>7, <1>8, <1>9, OrphanInit, CacheInit,
     CacheNext, TypeCorrect, ItemExclusiveEver, PTL DEF Spec

================================================================================
