------------------------ MODULE ExampleControllerProofs ------------------------
(***************************************************************************)
(* Theorems about ExampleController: its types, for any number of workers, *)
(* and what one worker leaves behind.                                      *)
(***************************************************************************)
EXTENDS ExampleController, TLAPS

-----------------------------------------------------------------------------
(***************************************************************************)
(* Type correctness.                                                       *)
(***************************************************************************)
StoreTypeOK ==
  /\ deployment \in [Deployments -> Copies]
  /\ service \in [Deployments -> Selectors]
  /\ ingress \in [Deployments -> BOOLEAN]
InformerTypeOK ==
  /\ events \in [Deployments -> Seq(Events)]
  /\ cache \in [Deployments -> Copies]
QueueTypeOK ==
  /\ queue \in Seq(Items)
  /\ dirty \subseteq Items /\ processing \subseteq Items
  /\ waiting \subseteq Items /\ failures \subseteq Items
WorkerTypeOK ==
  /\ pc \in [Workers -> Points]
  /\ task \in [Workers -> Items]
  /\ selector \in [Workers -> PodLabels]

LEMMA TypeParts ==
  /\ TypeOK <=> /\ StoreTypeOK /\ InformerTypeOK /\ QueueTypeOK /\ WorkerTypeOK
                /\ spent \in [Trouble -> Nat]
  /\ TypeOK' <=> /\ StoreTypeOK' /\ InformerTypeOK' /\ QueueTypeOK' /\ WorkerTypeOK'
                 /\ spent' \in [Trouble -> Nat]
BY DEF TypeOK, StoreTypeOK, InformerTypeOK, QueueTypeOK, WorkerTypeOK

(* The values the definitions name.                                          *)
LEMMA RestTypes ==
  /\ AnyDeployment \in Deployments /\ AnyLabels \in PodLabels /\ 0 \in Versions
  /\ NoItem \in Items /\ Unknown \in Copies /\ {} \in Selectors
<1>1. AnyDeployment \in Deployments /\ AnyLabels \in PodLabels
  BY DeploymentsAssumption DEF AnyDeployment, AnyLabels
<1>2. 0 \in Versions
  BY LimitsAssumption DEF Versions
<1>3. QED
  BY <1>1, <1>2 DEF NoItem, Items, Unknown, Copies, Selectors

LEMMA TypeInit == Init => TypeOK
BY RestTypes DEF Init, TypeOK, QueueInit, Points

LEMMA SpendType ==
  ASSUME spent \in [Trouble -> Nat], NEW t \in Trouble, Spend(t)
  PROVE  spent' \in [Trouble -> Nat]
BY DEF Spend

(* An item is added, or an item is done with: the queue keeps its type.      *)
LEMMA AddType ==
  ASSUME QueueTypeOK, NEW i \in Items, AddRateLimited(i)
  PROVE  QueueTypeOK'
BY DEF QueueTypeOK, AddRateLimited

LEMMA DoneType ==
  ASSUME QueueTypeOK, NEW i \in Items, Done(i)
  PROVE  queue' \in Seq(Items) /\ dirty' \subseteq Items /\ processing' \subseteq Items
BY DEF QueueTypeOK, Done

(* How a worker's step ends.                                                 *)
LEMMA ContinueType ==
  ASSUME QueueTypeOK, WorkerTypeOK, NEW w \in Workers, NEW l \in Points, Continue(w, l)
  PROVE  QueueTypeOK' /\ WorkerTypeOK'
BY DEF Continue, Goto, QueueTypeOK, WorkerTypeOK, queueVars

LEMMA FailType ==
  ASSUME QueueTypeOK, WorkerTypeOK, NEW w \in Workers, Fail(w)
  PROVE  QueueTypeOK' /\ WorkerTypeOK'
<1>1. task[w] \in Items /\ "done" \in Points
  BY DEF WorkerTypeOK, Points
<1>2. QueueTypeOK'
  BY <1>1, AddType DEF Fail
<1>3. QED
  BY <1>1, <1>2 DEF Fail, Goto, WorkerTypeOK

LEMMA LeaveType ==
  ASSUME QueueTypeOK, WorkerTypeOK, NEW w \in Workers, Leave(w), Done(task[w]),
         waiting' = waiting, failures' \subseteq failures
  PROVE  QueueTypeOK' /\ WorkerTypeOK'
<1>1. task[w] \in Items /\ "idle" \in Points
  BY DEF WorkerTypeOK, Points
<1>2. QueueTypeOK'
  BY <1>1, DoneType DEF QueueTypeOK
<1>3. QED
  BY <1>1, <1>2, RestTypes DEF Leave, Goto, WorkerTypeOK

LEMMA SucceedType ==
  ASSUME QueueTypeOK, WorkerTypeOK, NEW w \in Workers, Succeed(w) \/ SucceedUnforgotten(w)
  PROVE  QueueTypeOK' /\ WorkerTypeOK'
BY LeaveType DEF Succeed, SucceedUnforgotten, Finish

(* What users do is announced in order.                                      *)
LEMMA TypeUser == ASSUME TypeOK, User PROVE TypeOK'
<1>1. ASSUME NEW d \in Deployments, NEW live \in BOOLEAN, NEW l \in PodLabels,
             NEW kind \in {"set", "delete"}, Change(d, live, l, kind)
      PROVE  TypeOK'
  <2>1. deployment[d].ver + 1 \in Versions
    BY <1>1, LimitsAssumption DEF Change, TypeOK, Copies, Versions
  <2>2. /\ [known |-> live, ver |-> deployment[d].ver + 1, labels |-> l] \in Copies
        /\ [kind |-> kind, ver |-> deployment[d].ver + 1, labels |-> l] \in Events
    BY <2>1 DEF Copies, Events
  <2>3. StoreTypeOK' /\ InformerTypeOK'
    BY <1>1, <2>2 DEF Change, TypeOK, StoreTypeOK, InformerTypeOK
  <2>4. QED
    BY <1>1, <2>3, TypeParts DEF Change, QueueTypeOK, WorkerTypeOK, queueVars, workerVars
<1>2. \A d \in Deployments : deployment[d].labels \in PodLabels
  BY DEF TypeOK, Copies
<1>3. QED
  BY <1>1, <1>2 DEF User, DeleteDeployment, CreateDeployment, UpdateLabels

LEMMA ListedType ==
  ASSUME deployment \in [Deployments -> Copies], NEW d \in Deployments, NEW c \in Copies
  PROVE  Listed(d, c) \in Seq(Events)
<1>1. deployment[d] \in Copies
  OBVIOUS
<1>2. \A o \in Copies, k \in {"set", "tombstone"} :
        <<[kind |-> k, ver |-> o.ver, labels |-> o.labels]>> \in Seq(Events)
  BY DEF Copies, Events
<1>3. CASE deployment[d].known
  BY <1>1, <1>2, <1>3 DEF Listed
<1>4. CASE ~ deployment[d].known
  <2>1. Listed(d, c) \in
          {<<>>, <<[kind |-> "tombstone", ver |-> c.ver, labels |-> c.labels]>>}
    BY <1>4 DEF Listed
  <2>2. <<>> \in Seq(Events)
    OBVIOUS
  <2>3. QED
    BY <1>2, <2>1, <2>2
<1>5. QED
  BY <1>3, <1>4

LEMMA TypeDeliver == ASSUME TypeOK, NEW d \in Deployments, Deliver(d) PROVE TypeOK'
<1> DEFINE e == Head(events[d])
<1>1. e \in Events /\ Tail(events[d]) \in Seq(Events)
  BY DEF Deliver, TypeOK
<1>2. Item(d, e) \in Items /\ [known |-> TRUE, ver |-> e.ver, labels |-> e.labels] \in Copies
  BY <1>1 DEF Item, Items, Events, Copies
<1>3. InformerTypeOK'
  BY <1>1, <1>2, RestTypes DEF Deliver, TypeOK, InformerTypeOK
<1>4. UNCHANGED queueVars \/ AddRateLimited(Item(d, e))
  BY DEF Deliver, handleAdd, handleDelete
<1>5. QueueTypeOK'
  BY <1>2, <1>4, AddType DEF TypeOK, QueueTypeOK, queueVars
<1>6. QED
  BY <1>3, <1>5, TypeParts DEF Deliver, StoreTypeOK, WorkerTypeOK, storeVars, workerVars

LEMMA TypeTrouble == ASSUME TypeOK, Relist \/ Crash PROVE TypeOK'
<1>1. spent' \in [Trouble -> Nat]
  BY SpendType DEF Relist, Crash, Trouble, TypeOK
<1>2. InformerTypeOK'
  BY ListedType, RestTypes DEF Relist, Crash, TypeOK, InformerTypeOK
<1>3. CASE Relist
  BY <1>1, <1>2, <1>3, TypeParts DEF Relist, StoreTypeOK, QueueTypeOK, WorkerTypeOK,
     storeVars, queueVars, workerVars
<1>4. CASE Crash
  BY <1>1, <1>2, <1>4, TypeParts, RestTypes DEF Crash, StoreTypeOK, QueueTypeOK,
     WorkerTypeOK, QueueReset, storeVars, Points
<1>5. QED
  BY <1>3, <1>4

LEMMA TypeDelay == ASSUME TypeOK, NEW i \in waiting, DelayOver(i) PROVE TypeOK'
<1>1. i \in Items
  BY DEF TypeOK
<1>2. QueueTypeOK'
  BY <1>1 DEF DelayOver, Ready, TypeOK, QueueTypeOK
<1>3. QED
  BY <1>2, TypeParts DEF DelayOver, StoreTypeOK, InformerTypeOK, WorkerTypeOK,
     storeVars, informerVars, workerVars

LEMMA TypeWorker ==
  ASSUME TypeOK, NEW w \in Workers, Worker(w) \/ CallFails(w)
  PROVE  TypeOK'
<1> DEFINE d == task[w].name
<1>1. /\ StoreTypeOK /\ InformerTypeOK /\ QueueTypeOK /\ WorkerTypeOK
      /\ spent \in [Trouble -> Nat] /\ d \in Deployments
  BY TypeParts DEF TypeOK, Items
<1>2. spent' \in [Trouble -> Nat]
  BY <1>1, SpendType DEF Worker, GetItem, LookUp, ListerGet, CreateService, CreateIngress,
     DeleteService, DeleteIngress, DeferredDone, CallFails, Trouble
<1>3. InformerTypeOK'
  BY <1>1 DEF Worker, GetItem, LookUp, ListerGet, CreateService, CreateIngress,
     DeleteService, DeleteIngress, DeferredDone, CallFails, informerVars, InformerTypeOK
<1>4. StoreTypeOK'
  <2>1. CASE CreateService(w)
    <3>1. {selector[w]} \in Selectors
      BY <1>1 DEF Selectors, WorkerTypeOK
    <3>2. QED
      BY <1>1, <2>1, <3>1 DEF CreateService, StoreTypeOK
  <2>2. CASE DeleteService(w)
    BY <1>1, <2>2, RestTypes DEF DeleteService, StoreTypeOK
  <2>3. CASE CreateIngress(w) \/ DeleteIngress(w)
    BY <1>1, <2>3 DEF CreateIngress, DeleteIngress, StoreTypeOK
  <2>4. CASE UNCHANGED storeVars
    BY <1>1, <2>4 DEF storeVars, StoreTypeOK
  <2>5. QED
    BY <2>1, <2>2, <2>3, <2>4 DEF Worker, GetItem, LookUp, ListerGet, DeferredDone,
       CallFails
<1>5. QueueTypeOK' /\ WorkerTypeOK'
  <2>1. CASE GetItem(w)
    <3>1. Head(queue) \in Items /\ Tail(queue) \in Seq(Items)
      BY <1>1, <2>1 DEF GetItem, Get, QueueTypeOK
    <3>2. QED
      BY <1>1, <2>1, <3>1 DEF GetItem, Get, Goto, QueueTypeOK, WorkerTypeOK, Points
  <2>2. CASE LookUp(w)
    BY <1>1, <2>2, SucceedType, ContinueType DEF LookUp, Points
  <2>3. CASE ListerGet(w)
    <3>1. cache[d].labels \in PodLabels
      BY <1>1 DEF InformerTypeOK, Copies
    <3>2. QED
      BY <1>1, <2>3, <3>1, FailType DEF ListerGet, Goto, QueueTypeOK, WorkerTypeOK,
         queueVars, Points
  <2>4. CASE CreateService(w) \/ DeleteService(w)
    BY <1>1, <2>4, FailType, ContinueType DEF CreateService, DeleteService, Points
  <2>5. CASE CreateIngress(w) \/ DeleteIngress(w)
    BY <1>1, <2>5, FailType, SucceedType DEF CreateIngress, DeleteIngress
  <2>6. CASE DeferredDone(w)
    BY <1>1, <2>6, LeaveType DEF DeferredDone
  <2>7. CASE CallFails(w)
    BY <1>1, <2>7, FailType DEF CallFails
  <2>8. QED
    BY <2>1, <2>2, <2>3, <2>4, <2>5, <2>6, <2>7 DEF Worker
<1>6. QED
  BY <1>2, <1>3, <1>4, <1>5, TypeParts

LEMMA TypeNext == TypeOK /\ [Next]_vars => TypeOK'
<1> SUFFICES ASSUME TypeOK, [Next]_vars PROVE TypeOK'
  OBVIOUS
<1>1. CASE UNCHANGED vars
  BY <1>1 DEF vars, TypeOK, storeVars, informerVars, queueVars, workerVars
<1>2. CASE Next
  BY <1>2, TypeUser, TypeDeliver, TypeDelay, TypeWorker, TypeTrouble DEF Next
<1>3. QED
  BY <1>1, <1>2

(* Every variable keeps its type, for any number of workers.                 *)
THEOREM TypeCorrect == Spec => []TypeOK
BY TypeInit, TypeNext, PTL DEF Spec

-----------------------------------------------------------------------------
(***************************************************************************)
(* Why nothing is half done at rest.  Whoever is to come across Deployment *)
(* d again: an event that will queue an item, or an item.                  *)
(***************************************************************************)

(* There is no handler for updates: event k queues an item when it is a     *)
(* deletion, or when the cache will not know the Deployment before it.      *)
IsNews(d, k) ==
  \/ events[d][k].kind # "set"
  \/ IF k = 1 THEN ~ cache[d].known ELSE events[d][k - 1].kind # "set"

WillQueue(d) == \E k \in DOMAIN events[d] : IsNews(d, k)

Queued(d) == WillQueue(d) \/ \E i \in waiting \cup dirty : i.name = d

Exposing == {"lister", "service", "ingress"}
Cleaning == {"delete_service", "delete_ingress"}

At(w, d, points) == task[w].name = d /\ pc[w] \in points

(* The newest thing the informer knows or will be told of a deleted         *)
(* Deployment is its deletion, so that a creation is news.                  *)
EndsRight(d) == ~ deployment[d].known =>
  IF events[d] = <<>> THEN ~ cache[d].known ELSE events[d][Len(events[d])].kind # "set"

(* Only a relist makes tombstones, the items that are dropped.              *)
NoTombstones ==
  /\ \A d \in Deployments : \A k \in DOMAIN events[d] : events[d][k].kind # "tombstone"
  /\ \A i \in waiting \cup dirty : ~ i.tomb
  /\ \A k \in DOMAIN queue : ~ queue[k].tomb
  /\ \A w \in Workers : ~ task[w].tomb

(* A worker that failed, or that does the opposite of what its Deployment   *)
(* is in need of by now, is not the last one to come across it.             *)
Astray(w) ==
  \/ pc[w] = "done"
  \/ pc[w] \in IF deployment[task[w].name].known THEN Cleaning ELSE Exposing

(* A worker has the first half of its work behind it when it does the other.*)
HalfWay(w) ==
  /\ pc[w] = "ingress" => service[task[w].name] # {}
  /\ pc[w] = "delete_ingress" => service[task[w].name] = {}

ToExpose(d) == deployment[d].known /\ ~ Exposed(d)
ToClean(d) == ~ deployment[d].known /\ (service[d] # {} \/ ingress[d])

RestInv ==
  spent["relist"] = 0 =>
    /\ NoTombstones
    /\ \A d \in Deployments : EndsRight(d)
    /\ \A w \in Workers : HalfWay(w) /\ (Astray(w) => Queued(task[w].name))
    /\ \A d \in Deployments : ToExpose(d) =>
         Queued(d) \/ \E w \in Workers : At(w, d, {"lookup"} \cup Exposing)
    /\ spent["crash"] = 0 => \A d \in Deployments : ToClean(d) =>
         Queued(d) \/ \E w \in Workers : At(w, d, {"lookup"} \cup Cleaning)

-----------------------------------------------------------------------------
(***************************************************************************)
(* Sequences of events and of items.                                       *)
(***************************************************************************)
LEMMA TailElements ==
  ASSUME NEW S, NEW s \in Seq(S), s # <<>>
  PROVE  /\ 1 \in DOMAIN s /\ Head(s) = s[1] /\ Head(s) \in S
         /\ Tail(s) \in Seq(S) /\ Len(Tail(s)) = Len(s) - 1
         /\ \A k \in DOMAIN Tail(s) : k + 1 \in DOMAIN s /\ Tail(s)[k] = s[k + 1]
OBVIOUS

LEMMA AppendElements ==
  ASSUME NEW S, NEW s \in Seq(S), NEW e \in S
  PROVE  /\ Append(s, e) \in Seq(S) /\ Append(s, e) # <<>>
         /\ Len(Append(s, e)) = Len(s) + 1
         /\ DOMAIN Append(s, e) = DOMAIN s \cup {Len(s) + 1}
         /\ \A k \in DOMAIN s : Append(s, e)[k] = s[k]
         /\ Append(s, e)[Len(s) + 1] = e
OBVIOUS

-----------------------------------------------------------------------------
(***************************************************************************)
(* Troubles are counted and never forgotten.                               *)
(***************************************************************************)
LEMMA WorkerSpends ==
  ASSUME NEW w \in Workers, Worker(w) \/ CallFails(w)
  PROVE  UNCHANGED spent \/ Spend("fault")
BY DEF Worker, GetItem, LookUp, ListerGet, CreateService, CreateIngress, DeleteService,
   DeleteIngress, DeferredDone, CallFails

LEMMA TroubleStays ==
  ASSUME TypeOK, [Next]_vars
  PROVE  /\ spent'["relist"] = 0 => spent["relist"] = 0 /\ ~ Relist
         /\ spent'["crash"] = 0 => spent["crash"] = 0 /\ ~ Crash
<1>1. spent \in [Trouble -> Nat] /\ {"relist", "crash", "fault"} = Trouble
  BY DEF TypeOK, Trouble
<1>2. UNCHANGED spent \/ \E t \in Trouble : Spend(t)
  BY <1>1, WorkerSpends DEF Next, User, DeleteDeployment, CreateDeployment, UpdateLabels,
     Change, Deliver, DelayOver, Relist, Crash, vars
<1>3. \A t, u \in Trouble :
        Spend(t) => spent'[u] = IF u = t THEN spent[u] + 1 ELSE spent[u]
  BY <1>1 DEF Spend
<1>4. \A u \in Trouble : spent'[u] = 0 => spent[u] = 0 /\ ~ Spend(u)
  BY <1>1, <1>2, <1>3
<1>5. QED
  BY <1>1, <1>4 DEF Relist, Crash

-----------------------------------------------------------------------------
(***************************************************************************)
(* What the events say.                                                    *)
(***************************************************************************)

(* What a user does is the newest event.                                     *)
LEMMA Announced ==
  ASSUME TypeOK, NEW d \in Deployments, NEW live \in BOOLEAN, NEW l \in PodLabels,
         NEW kind \in {"set", "delete"}, Change(d, live, l, kind)
  PROVE  /\ deployment'[d].known = live
         /\ \A b \in Deployments \ {d} :
              deployment'[b] = deployment[b] /\ events'[b] = events[b]
         /\ events'[d] # <<>> /\ Len(events'[d]) = Len(events[d]) + 1
         /\ DOMAIN events'[d] = DOMAIN events[d] \cup {Len(events[d]) + 1}
         /\ \A k \in DOMAIN events[d] : events'[d][k] = events[d][k]
         /\ events'[d][Len(events[d]) + 1].kind = kind
         /\ UNCHANGED <<service, ingress, cache, queueVars, workerVars, spent>>
<1> DEFINE e == [kind |-> kind, ver |-> deployment[d].ver + 1, labels |-> l]
<1>1. deployment[d].ver + 1 \in Versions
  BY LimitsAssumption DEF Change, TypeOK, Copies, Versions
<1>2. e \in Events /\ events[d] \in Seq(Events) /\ events'[d] = Append(events[d], e)
  BY <1>1 DEF Change, TypeOK, Events
<1>3. QED
  BY <1>2, AppendElements DEF Change, TypeOK

(* Delivering an event takes the first one and updates the cache.            *)
LEMMA Delivered ==
  ASSUME TypeOK, NEW d \in Deployments, Deliver(d)
  PROVE  /\ \A b \in Deployments \ {d} : events'[b] = events[b] /\ cache'[b] = cache[b]
         /\ 1 \in DOMAIN events[d] /\ Len(events'[d]) = Len(events[d]) - 1
         /\ events'[d] \in Seq(Events) /\ events[d] \in Seq(Events)
         /\ \A k \in DOMAIN events'[d] :
              k + 1 \in DOMAIN events[d] /\ events'[d][k] = events[d][k + 1]
         /\ cache'[d].known <=> events[d][1].kind = "set"
         /\ \/ UNCHANGED queueVars /\ ~ IsNews(d, 1)
            \/ AddRateLimited(Item(d, events[d][1]))
         /\ UNCHANGED <<storeVars, workerVars, spent>>
<1>1. events[d] \in Seq(Events) /\ events[d] # <<>> /\ events'[d] = Tail(events[d])
  BY DEF Deliver, TypeOK
<1>2. Head(events[d]) = events[d][1]
  BY <1>1, TailElements
<1>3. cache'[d].known <=> events[d][1].kind = "set"
  BY <1>2 DEF Deliver, TypeOK, Unknown
<1>4. \/ UNCHANGED queueVars /\ ~ IsNews(d, 1)
      \/ AddRateLimited(Item(d, events[d][1]))
  BY <1>2 DEF Deliver, handleAdd, handleDelete, IsNews
<1>5. QED
  BY <1>1, <1>3, <1>4, TailElements DEF Deliver, TypeOK

(* What a list says.                                                         *)
LEMMA ListedSays ==
  ASSUME NEW d \in Deployments, NEW c
  PROVE  /\ deployment[d].known =>
              /\ 1 \in DOMAIN Listed(d, c) /\ Len(Listed(d, c)) = 1
              /\ Listed(d, c)[1].kind = "set"
         /\ ~ deployment[d].known /\ Listed(d, c) # <<>> =>
              /\ Len(Listed(d, c)) = 1 /\ Listed(d, c)[1].kind = "tombstone"
         /\ ~ deployment[d].known /\ ~ c.known => Listed(d, c) = <<>>
         /\ ~ deployment[d].known /\ c.known => Listed(d, c) # <<>>
BY DEF Listed

LEMMA WorkerInforms ==
  ASSUME NEW w \in Workers, Worker(w) \/ CallFails(w)
  PROVE  UNCHANGED <<deployment, events, cache>>
BY DEF Worker, GetItem, LookUp, ListerGet, CreateService, CreateIngress, DeleteService,
   DeleteIngress, DeferredDone, CallFails, storeVars, informerVars

LEMMA EndsRightNext ==
  ASSUME TypeOK, [Next]_vars, NEW d \in Deployments, EndsRight(d)
  PROVE  EndsRight(d)'
<1> USE DEF EndsRight
<1>1. ASSUME NEW b \in Deployments, NEW live \in BOOLEAN, NEW l \in PodLabels,
             NEW kind \in {"set", "delete"}, Change(b, live, l, kind),
             live <=> kind = "set"
      PROVE  EndsRight(d)'
  BY <1>1, Announced
<1>2. CASE User
  <2>1. \A b \in Deployments : deployment[b].labels \in PodLabels
    BY DEF TypeOK, Copies
  <2>2. QED
    BY <1>1, <1>2, <2>1 DEF User, DeleteDeployment, CreateDeployment, UpdateLabels
<1>3. ASSUME NEW b \in Deployments, Deliver(b) PROVE EndsRight(d)'
  <2>1. deployment' = deployment
    BY <1>3 DEF Deliver, storeVars
  <2>2. CASE b # d
    BY <1>3, <2>1, <2>2, Delivered
  <2>3. CASE b = d /\ events'[d] = <<>>
    <3>1. Len(events[d]) = 1
      <4>1. Len(events'[d]) = 0
        BY <2>3
      <4>2. Len(events'[d]) = Len(events[d]) - 1 /\ events[d] \in Seq(Events)
        BY <1>3, <2>3, Delivered
      <4>3. Len(events[d]) \in Nat
        BY <4>2
      <4>4. \A n \in Nat : 0 = n - 1 => n = 1
        OBVIOUS
      <4>5. QED
        BY <4>1, <4>2, <4>3, <4>4
    <3>2. QED
      BY <1>3, <2>1, <2>3, <3>1, Delivered
  <2>4. CASE b = d /\ events'[d] # <<>>
    <3>1. /\ Len(events'[d]) \in DOMAIN events'[d]
          /\ Len(events'[d]) + 1 = Len(events[d]) /\ events[d] # <<>>
      BY <1>3, <2>4, Delivered
    <3>2. events'[d][Len(events'[d])] = events[d][Len(events[d])]
      BY <1>3, <2>4, <3>1, Delivered
    <3>3. QED
      BY <2>1, <2>4, <3>1, <3>2
  <2>5. QED
    BY <2>2, <2>3, <2>4
<1>4. CASE Relist
  <2>1. deployment' = deployment /\ cache' = cache /\ events'[d] = Listed(d, cache[d])
    BY <1>4 DEF Relist, storeVars
  <2>2. QED
    BY <2>1, ListedSays
<1>5. CASE Crash
  <2>1. deployment' = deployment /\ cache'[d] = Unknown /\ events'[d] = Listed(d, Unknown)
    BY <1>5 DEF Crash, storeVars
  <2>2. QED
    BY <2>1, ListedSays DEF Unknown
<1>6. CASE UNCHANGED <<deployment, events, cache>>
  BY <1>6
<1>7. QED
  BY <1>2, <1>3, <1>4, <1>5, <1>6, WorkerInforms DEF Next, DelayOver, storeVars,
     informerVars, vars

-----------------------------------------------------------------------------
(***************************************************************************)
(* What a step of a worker may do to the queue.                            *)
(***************************************************************************)
OthersStay(w) == \A v \in Workers \ {w} : pc'[v] = pc[v] /\ task'[v] = task[v]

(* Worker w makes its next call.                                             *)
GoesOn(w) ==
  /\ UNCHANGED <<task, waiting, queue>>
  /\ \/ /\ pc[w] = "lookup" /\ UNCHANGED <<service, ingress>>
        /\ pc'[w] = IF deployment[task[w].name].known THEN "lister" ELSE "delete_service"
     \/ pc[w] = "lister" /\ pc'[w] = "service" /\ UNCHANGED <<service, ingress>>
     \/ CreateService(w) /\ pc'[w] = "ingress"
     \/ DeleteService(w) /\ pc'[w] = "delete_ingress"

(* Worker w is free for the next item; a tombstone is dropped.               *)
GetsFree(w) ==
  /\ pc'[w] = "idle" /\ task'[w] = NoItem /\ waiting' = waiting /\ Done(task[w])
  /\ \/ CreateIngress(w) \/ DeleteIngress(w) \/ DeferredDone(w)
     \/ pc[w] = "lookup" /\ task[w].tomb

(* An error: the item waits for its next attempt.                            *)
TriesAgain(w) ==
  /\ pc[w] \in {"lookup"} \cup Exposing \cup Cleaning /\ pc'[w] = "done"
  /\ waiting' = waiting \cup {task[w]} /\ UNCHANGED <<task, queue>>

LEMMA WorkerEffect ==
  ASSUME TypeOK, NEW w \in Workers, Worker(w) \/ CallFails(w), ~ GetItem(w)
  PROVE  /\ OthersStay(w) /\ dirty' = dirty
         /\ GoesOn(w) \/ GetsFree(w) \/ TriesAgain(w)
<1>1. pc \in [Workers -> Points] /\ task \in [Workers -> Items]
  BY DEF TypeOK
<1>2. ASSUME Fail(w), pc[w] \in {"lookup"} \cup Exposing \cup Cleaning
      PROVE  OthersStay(w) /\ dirty' = dirty /\ TriesAgain(w)
  BY <1>1, <1>2 DEF Fail, Goto, AddRateLimited, OthersStay, TriesAgain
<1>3. ASSUME NEW l, Continue(w, l)
      PROVE  /\ OthersStay(w) /\ dirty' = dirty /\ pc'[w] = l
             /\ UNCHANGED <<task, waiting, queue>>
  BY <1>1, <1>3 DEF Continue, Goto, queueVars, OthersStay
<1>4. ASSUME Leave(w), Done(task[w])
      PROVE  OthersStay(w) /\ dirty' = dirty /\ pc'[w] = "idle" /\ task'[w] = NoItem
  BY <1>1, <1>4 DEF Leave, Done, Goto, OthersStay
<1>5. CASE LookUp(w)
  BY <1>3, <1>4, <1>5 DEF LookUp, Succeed, Finish, GoesOn, GetsFree, storeVars
<1>6. CASE ListerGet(w)
  BY <1>1, <1>2, <1>6 DEF ListerGet, Goto, queueVars, OthersStay, GoesOn, Exposing,
     storeVars
<1>7. CASE CreateService(w)
  BY <1>2, <1>3, <1>7 DEF CreateService, GoesOn, Exposing
<1>8. CASE DeleteService(w)
  BY <1>2, <1>3, <1>8 DEF DeleteService, GoesOn, Cleaning
<1>9. CASE CreateIngress(w)
  BY <1>2, <1>4, <1>9 DEF CreateIngress, Succeed, Finish, GetsFree, Exposing
<1>10. CASE DeleteIngress(w)
  BY <1>2, <1>4, <1>10 DEF DeleteIngress, SucceedUnforgotten, GetsFree, Cleaning
<1>11. CASE DeferredDone(w)
  BY <1>4, <1>11 DEF DeferredDone, GetsFree
<1>12. CASE CallFails(w)
  BY <1>2, <1>12 DEF CallFails, Points, Exposing, Cleaning
<1>13. QED
  BY <1>5, <1>6, <1>7, <1>8, <1>9, <1>10, <1>11, <1>12 DEF Worker

(* The worker takes the first item of the queue.                             *)
LEMMA GetEffect ==
  ASSUME TypeOK, NEW w \in Workers, GetItem(w)
  PROVE  /\ OthersStay(w) /\ pc[w] = "idle" /\ pc'[w] = "lookup" /\ waiting' = waiting
         /\ 1 \in DOMAIN queue /\ task'[w] = queue[1] /\ dirty' = dirty \ {queue[1]}
         /\ queue \in Seq(Items) /\ queue # <<>> /\ queue' = Tail(queue)
         /\ UNCHANGED <<storeVars, informerVars, spent>>
<1>1. queue \in Seq(Items) /\ queue # <<>>
  BY DEF GetItem, Get, TypeOK
<1>2. 1 \in DOMAIN queue /\ Head(queue) = queue[1]
  BY <1>1, TailElements
<1>3. QED
  BY <1>1, <1>2 DEF GetItem, Get, Goto, OthersStay, TypeOK

(* Without a relist there are no tombstones.                                 *)
LEMMA NoTombstonesNext ==
  ASSUME TypeOK, [Next]_vars, ~ Relist, NoTombstones
  PROVE  NoTombstones'
<1> USE DEF NoTombstones
<1>1. ASSUME NEW b \in Deployments, NEW live \in BOOLEAN, NEW l \in PodLabels,
             NEW kind \in {"set", "delete"}, Change(b, live, l, kind)
      PROVE  NoTombstones'
  BY <1>1, Announced DEF queueVars, workerVars
<1>2. CASE User
  <2>1. \A b \in Deployments : deployment[b].labels \in PodLabels
    BY DEF TypeOK, Copies
  <2>2. QED
    BY <1>1, <1>2, <2>1 DEF User, DeleteDeployment, CreateDeployment, UpdateLabels
<1>3. ASSUME NEW b \in Deployments, Deliver(b) PROVE NoTombstones'
  <2>1. ~ Item(b, events[b][1]).tomb
    BY <1>3, Delivered DEF Item
  <2>2. \A d \in Deployments : \A k \in DOMAIN events'[d] : events'[d][k].kind # "tombstone"
    BY <1>3, Delivered
  <2>3. UNCHANGED queueVars \/ AddRateLimited(Item(b, events[b][1]))
    BY <1>3, Delivered
  <2>4. QED
    BY <1>3, <2>1, <2>2, <2>3 DEF AddRateLimited, queueVars, Deliver, workerVars
<1>4. ASSUME NEW i \in waiting, DelayOver(i) PROVE NoTombstones'
  <2>1. queue \in Seq(Items) /\ i \in Items
    BY DEF TypeOK
  <2>2. \A k \in DOMAIN queue' : ~ queue'[k].tomb
    BY <1>4, <2>1, AppendElements DEF DelayOver, Ready
  <2>3. QED
    BY <1>4, <2>2 DEF DelayOver, Ready, informerVars, workerVars
<1>5. CASE Crash
  <2>1. \A d \in Deployments :
          events'[d] = Listed(d, Unknown) /\ deployment' = deployment
    BY <1>5 DEF Crash, storeVars
  <2>2. \A d \in Deployments : \A k \in DOMAIN events'[d] : events'[d][k].kind # "tombstone"
    <3>1. ASSUME NEW d \in Deployments, deployment[d].known
          PROVE  DOMAIN events'[d] = {1} /\ events'[d][1].kind = "set"
      <4>1. events'[d] = <<[kind |-> "set", ver |-> deployment[d].ver,
                            labels |-> deployment[d].labels]>>
        BY <2>1, <3>1 DEF Listed
      <4>2. DOMAIN events'[d] = 1 .. 1
        BY <4>1
      <4>3. QED
        BY <4>1, <4>2
    <3>2. \A d \in Deployments : ~ deployment[d].known => events'[d] = <<>>
      BY <2>1 DEF Listed, Unknown
    <3>3. QED
      BY <3>1, <3>2
  <2>3. QED
    BY <1>5, <2>2 DEF Crash, QueueReset, NoItem
<1>6. ASSUME NEW w \in Workers, GetItem(w) PROVE NoTombstones'
  <2>1. \A k \in DOMAIN queue' : k + 1 \in DOMAIN queue /\ queue'[k] = queue[k + 1]
    BY <1>6, GetEffect, TailElements
  <2>2. QED
    BY <1>6, <2>1, GetEffect DEF OthersStay, informerVars
<1>7. ASSUME NEW w \in Workers, Worker(w) \/ CallFails(w), ~ GetItem(w)
      PROVE  NoTombstones'
  <2>1. /\ OthersStay(w) /\ dirty' = dirty /\ UNCHANGED <<events, cache>>
        /\ GoesOn(w) \/ GetsFree(w) \/ TriesAgain(w)
    BY <1>7, WorkerEffect, WorkerInforms
  <2>2. task[w] \in Items /\ ~ task[w].tomb /\ queue \in Seq(Items)
    BY DEF TypeOK
  <2>3. \A k \in DOMAIN queue' : ~ queue'[k].tomb
    BY <2>1, <2>2, AppendElements DEF GoesOn, GetsFree, TriesAgain, Done
  <2>4. /\ \A i \in waiting' \cup dirty' : ~ i.tomb
        /\ \A v \in Workers : ~ task'[v].tomb
    BY <2>1, <2>2 DEF GoesOn, GetsFree, TriesAgain, OthersStay, NoItem
  <2>5. QED
    BY <2>1, <2>3, <2>4
<1>8. CASE UNCHANGED vars
  BY <1>8 DEF vars, informerVars, queueVars, workerVars
<1>9. QED
  BY <1>2, <1>3, <1>4, <1>5, <1>6, <1>7, <1>8 DEF Next

-----------------------------------------------------------------------------
(***************************************************************************)
(* Queued: what is to come across a Deployment is not lost.                *)
(***************************************************************************)
LEMMA NewsStay ==
  ASSUME TypeOK, NEW d \in Deployments, NEW b \in Deployments, WillQueue(b), cache' = cache,
         b # d => events'[b] = events[b],
         DOMAIN events'[d] = DOMAIN events[d] \cup {Len(events[d]) + 1},
         \A k \in DOMAIN events[d] : events'[d][k] = events[d][k]
  PROVE  WillQueue(b)'
<1>1. CASE b # d
  BY <1>1 DEF WillQueue, IsNews
<1>2. CASE b = d
  <2>1. PICK k \in DOMAIN events[d] : IsNews(d, k)
    BY <1>2 DEF WillQueue
  <2>2. events[d] \in Seq(Events)
    BY DEF TypeOK
  <2>3. k # 1 => k - 1 \in DOMAIN events[d]
    BY <2>1, <2>2
  <2>4. k \in DOMAIN events'[d] /\ IsNews(d, k)'
    BY <2>1, <2>3 DEF IsNews
  <2>5. QED
    BY <1>2, <2>4 DEF WillQueue
<1>3. QED
  BY <1>1, <1>2

(* A creation and a deletion are news.                                       *)
LEMMA ChangeIsNews ==
  ASSUME TypeOK, NEW d \in Deployments, EndsRight(d), NEW live \in BOOLEAN,
         NEW l \in PodLabels, NEW kind \in {"set", "delete"}, Change(d, live, l, kind),
         kind = "set" => ~ deployment[d].known
  PROVE  WillQueue(d)'
<1>1. PICK n : /\ n = Len(events[d]) + 1 /\ n \in DOMAIN events'[d]
               /\ events'[d][n].kind = kind /\ cache' = cache
               /\ \A k \in DOMAIN events[d] : events'[d][k] = events[d][k]
  BY Announced
<1>2. events[d] \in Seq(Events)
  BY DEF TypeOK
<1>3. IsNews(d, n)'
  <2>1. CASE kind = "delete"
    BY <1>1, <2>1 DEF IsNews
  <2>2. CASE kind = "set" /\ events[d] = <<>>
    BY <1>1, <1>2, <2>2 DEF IsNews, EndsRight
  <2>3. CASE kind = "set" /\ events[d] # <<>>
    <3>1. n # 1 /\ n - 1 = Len(events[d]) /\ Len(events[d]) \in DOMAIN events[d]
      BY <1>1, <1>2, <2>3
    <3>2. events'[d][n - 1].kind # "set"
      BY <1>1, <2>3, <3>1 DEF EndsRight
    <3>3. QED
      BY <3>1, <3>2 DEF IsNews
  <2>4. QED
    BY <2>1, <2>2, <2>3
<1>4. QED
  BY <1>1, <1>3 DEF WillQueue

(* What is news stays news until it is delivered, and then it is queued.     *)
LEMMA NewsAreQueued ==
  ASSUME TypeOK, NEW d \in Deployments, Deliver(d), WillQueue(d)
  PROVE  Queued(d)'
<1>1. PICK k \in DOMAIN events[d] : IsNews(d, k)
  BY DEF WillQueue
<1>2. events[d] \in Seq(Events) /\ events'[d] \in Seq(Events)
      /\ Len(events'[d]) = Len(events[d]) - 1
  BY Delivered
<1>3. CASE k = 1
  <2>1. AddRateLimited(Item(d, events[d][1]))
    BY <1>1, <1>3, Delivered
  <2>2. Item(d, events[d][1]) \in waiting' /\ Item(d, events[d][1]).name = d
    BY <2>1 DEF AddRateLimited, Item
  <2>3. QED
    BY <2>2 DEF Queued
<1>4. CASE k # 1
  <2>1. k - 1 \in DOMAIN events'[d] /\ k - 1 + 1 = k
    BY <1>1, <1>2, <1>4
  <2>2. events'[d][k - 1] = events[d][k]
    BY <2>1, Delivered
  <2>3. CASE k - 1 = 1
    <3>1. k = 2 /\ (cache'[d].known <=> events[d][1].kind = "set")
      BY <2>1, <2>3, Delivered
    <3>2. IsNews(d, 1)'
      BY <1>1, <2>2, <2>3, <3>1 DEF IsNews
    <3>3. QED
      BY <2>1, <2>3, <3>2 DEF WillQueue, Queued
  <2>4. CASE k - 1 # 1
    <3>1. k - 2 \in DOMAIN events'[d] /\ k - 2 + 1 = k - 1 /\ (k - 1) - 1 = k - 2
      BY <1>1, <1>2, <1>4, <2>4
    <3>2. events'[d][k - 2] = events[d][k - 1]
      BY <3>1, Delivered
    <3>3. IsNews(d, k - 1)'
      BY <1>1, <1>4, <2>2, <2>4, <3>1, <3>2 DEF IsNews
    <3>4. QED
      BY <2>1, <3>3 DEF WillQueue, Queued
  <2>5. QED
    BY <2>3, <2>4
<1>5. QED
  BY <1>3, <1>4

LEMMA QueuedStays ==
  ASSUME NEW d \in Deployments, Queued(d), UNCHANGED informerVars,
         waiting \cup dirty \subseteq waiting' \cup dirty'
  PROVE  Queued(d)'
BY DEF Queued, WillQueue, IsNews, informerVars

-----------------------------------------------------------------------------
(***************************************************************************)
(* RestIsExposed.                                                          *)
(***************************************************************************)
OneWorker == \A v, w \in Workers : v = w

(* The parts of RestInv that are about the work itself.                      *)
Half == \A w \in Workers : HalfWay(w) /\ (Astray(w) => Queued(task[w].name))
Expose == \A d \in Deployments : ToExpose(d) =>
  Queued(d) \/ \E w \in Workers : At(w, d, {"lookup"} \cup Exposing)
Clean == \A d \in Deployments : ToClean(d) =>
  Queued(d) \/ \E w \in Workers : At(w, d, {"lookup"} \cup Cleaning)

LEMMA RestParts ==
  /\ RestInv <=> (spent["relist"] = 0 =>
       /\ NoTombstones /\ (\A d \in Deployments : EndsRight(d))
       /\ Half /\ Expose /\ (spent["crash"] = 0 => Clean))
  /\ RestInv' <=> (spent'["relist"] = 0 =>
       /\ NoTombstones' /\ (\A d \in Deployments : EndsRight(d)')
       /\ Half' /\ Expose' /\ (spent'["crash"] = 0 => Clean'))
BY DEF RestInv, Half, Expose, Clean

(* A step of users or of the informer, which only the queue hears of.        *)
LEMMA QuietStep ==
  ASSUME TypeOK, UNCHANGED <<service, ingress, workerVars>>,
         \A d \in Deployments : Queued(d) => Queued(d)',
         \A d \in Deployments :
           (deployment'[d].known <=> deployment[d].known) \/ Queued(d)'
  PROVE  (Half => Half') /\ (Expose => Expose') /\ (Clean => Clean')
<1>1. \A w \in Workers : task[w].name \in Deployments
  BY DEF TypeOK, Items
<1>2. /\ \A w \in Workers : HalfWay(w)' <=> HalfWay(w)
      /\ \A w \in Workers : task'[w] = task[w] /\ pc'[w] = pc[w]
  BY DEF HalfWay, workerVars
<1>3. Half => Half'
  BY <1>1, <1>2 DEF Half, Astray
<1>4. Expose => Expose'
  BY <1>2 DEF Expose, ToExpose, Exposed, At
<1>5. Clean => Clean'
  BY <1>2 DEF Clean, ToClean, At
<1>6. QED
  BY <1>3, <1>4, <1>5

(* A worker takes an item.                                                   *)
LEMMA GetStep ==
  ASSUME TypeOK, OneWorker, NEW w \in Workers, GetItem(w)
  PROVE  Half' /\ (Expose => Expose') /\ (Clean => Clean')
<1>1. /\ pc'[w] = "lookup" /\ pc[w] = "idle" /\ waiting' = waiting
      /\ dirty' = dirty \ {task'[w]} /\ UNCHANGED <<storeVars, informerVars>>
      /\ \A v \in Workers : v = w
  BY GetEffect DEF OneWorker
<1>2. \A d \in Deployments :
        Queued(d) => Queued(d)' \/ (task'[w].name = d /\ pc'[w] = "lookup")
  BY <1>1 DEF Queued, WillQueue, IsNews, informerVars
<1>3. Half'
  BY <1>1 DEF Half, HalfWay, Astray, Cleaning, Exposing
<1>4. Expose => Expose'
  BY <1>1, <1>2 DEF Expose, ToExpose, Exposed, At, storeVars, Exposing
<1>5. Clean => Clean'
  BY <1>1, <1>2 DEF Clean, ToClean, At, storeVars, Cleaning
<1>6. QED
  BY <1>3, <1>4, <1>5

(* A worker that goes on, is done, or fails.                                 *)
LEMMA WorkStep ==
  ASSUME TypeOK, OneWorker, NEW w \in Workers, Worker(w) \/ CallFails(w), ~ GetItem(w),
         ~ task[w].tomb, Half
  PROVE  Half' /\ (Expose => Expose') /\ (Clean => Clean')
<1>0. PICK d \in Deployments : d = task[w].name
  BY DEF TypeOK, Items
<1>1. /\ task[w].name = d /\ pc \in [Workers -> Points]
      /\ service \in [Deployments -> Selectors] /\ ingress \in [Deployments -> BOOLEAN]
  BY <1>0 DEF TypeOK
<1>2. /\ dirty' = dirty /\ UNCHANGED <<deployment, informerVars>>
      /\ GoesOn(w) \/ GetsFree(w) \/ TriesAgain(w)
      /\ \A v \in Workers : v = w
  BY WorkerEffect, WorkerInforms DEF OneWorker, informerVars
<1>3. \A b \in Deployments : Queued(b) => Queued(b)'
  BY <1>2, QueuedStays DEF GoesOn, GetsFree, TriesAgain
<1>4. \A b \in Deployments \ {d} : service'[b] = service[b] /\ ingress'[b] = ingress[b]
  BY <1>1 DEF Worker, GetItem, LookUp, ListerGet, CreateService, CreateIngress,
     DeleteService, DeleteIngress, DeferredDone, CallFails, storeVars
<1>5. HalfWay(w) /\ (Astray(w) => Queued(d))
  BY <1>1 DEF Half
<1>6. ASSUME TriesAgain(w) PROVE Queued(d)' /\ task'[w].name = d /\ pc'[w] = "done"
  BY <1>1, <1>6 DEF TriesAgain, Queued
<1>7. CASE TriesAgain(w)
  <2>1. Half'
    BY <1>1, <1>2, <1>6, <1>7 DEF Half, HalfWay
  <2>2. Expose => Expose'
    BY <1>1, <1>2, <1>3, <1>4, <1>6, <1>7 DEF Expose, ToExpose, Exposed, At
  <2>3. Clean => Clean'
    BY <1>1, <1>2, <1>3, <1>4, <1>6, <1>7 DEF Clean, ToClean, At
  <2>4. QED
    BY <2>1, <2>2, <2>3
<1>8. CASE GetsFree(w)
  <2>1. pc'[w] = "idle" /\ (CreateIngress(w) \/ DeleteIngress(w) \/ DeferredDone(w))
    BY <1>8 DEF GetsFree
  <2>2. Half'
    BY <1>2, <2>1 DEF Half, HalfWay, Astray, Cleaning, Exposing
  <2>3. CASE CreateIngress(w)
    <3>1. pc[w] = "ingress" /\ service'[d] = service[d] /\ ingress'[d]
      BY <1>1, <2>1, <2>3 DEF CreateIngress, Fail, Goto
    <3>2. service'[d] # {} /\ (~ deployment[d].known => Queued(d)')
      BY <1>1, <1>3, <1>5, <3>1 DEF HalfWay, Astray, Exposing
    <3>3. Expose => Expose'
      BY <1>1, <1>2, <1>3, <1>4, <3>1, <3>2 DEF Expose, ToExpose, Exposed, At
    <3>4. Clean => Clean'
      BY <1>1, <1>2, <1>3, <1>4, <3>1, <3>2 DEF Clean, ToClean, At, Cleaning
    <3>5. QED
      BY <2>2, <3>3, <3>4
  <2>4. CASE DeleteIngress(w)
    <3>1. pc[w] = "delete_ingress" /\ service'[d] = service[d] /\ ~ ingress'[d]
      BY <1>1, <2>1, <2>4 DEF DeleteIngress, Fail, Goto
    <3>2. service'[d] = {} /\ (deployment[d].known => Queued(d)')
      BY <1>1, <1>3, <1>5, <3>1 DEF HalfWay, Astray, Cleaning
    <3>3. Expose => Expose'
      BY <1>1, <1>2, <1>3, <1>4, <3>1, <3>2 DEF Expose, ToExpose, Exposed, At, Exposing
    <3>4. Clean => Clean'
      BY <1>1, <1>2, <1>3, <1>4, <3>1, <3>2 DEF Clean, ToClean, At
    <3>5. QED
      BY <2>2, <3>3, <3>4
  <2>5. CASE DeferredDone(w)
    <3>1. pc[w] = "done" /\ UNCHANGED <<service, ingress>>
      BY <2>5 DEF DeferredDone, storeVars
    <3>2. Expose => Expose'
      BY <1>1, <1>2, <1>3, <3>1 DEF Expose, ToExpose, Exposed, At, Exposing
    <3>3. Clean => Clean'
      BY <1>1, <1>2, <1>3, <3>1 DEF Clean, ToClean, At, Cleaning
    <3>4. QED
      BY <2>2, <3>2, <3>3
  <2>6. QED
    BY <2>1, <2>3, <2>4, <2>5
<1>9. CASE GoesOn(w)
  <2>1. task' = task /\ UNCHANGED deployment
    BY <1>2, <1>9 DEF GoesOn
  <2>2. CASE UNCHANGED <<service, ingress>>
    <3>1. \/ /\ pc[w] = "lookup"
             /\ pc'[w] = IF deployment[d].known THEN "lister" ELSE "delete_service"
          \/ pc[w] = "lister" /\ pc'[w] = "service"
          \/ pc[w] = "service" /\ pc'[w] = "ingress" /\ CreateService(w)
          \/ pc[w] = "delete_service" /\ pc'[w] = "delete_ingress" /\ DeleteService(w)
      BY <1>1, <1>9 DEF GoesOn, CreateService, DeleteService
    <3>2. (CreateService(w) => service'[d] # {}) /\ (DeleteService(w) => service'[d] = {})
      BY <1>1 DEF CreateService, DeleteService
    <3>3. Half'
      BY <1>1, <1>2, <1>3, <1>5, <2>1, <3>1, <3>2 DEF Half, HalfWay, Astray, Exposing, Cleaning
    <3>4. Expose => Expose'
      BY <1>1, <1>2, <1>3, <1>5, <2>1, <2>2, <3>1
      DEF Expose, ToExpose, Exposed, At, Astray, Exposing, Cleaning
    <3>5. Clean => Clean'
      BY <1>1, <1>2, <1>3, <1>5, <2>1, <2>2, <3>1
      DEF Clean, ToClean, At, Astray, Exposing, Cleaning
    <3>6. QED
      BY <3>3, <3>4, <3>5
  <2>3. CASE CreateService(w) /\ pc'[w] = "ingress"
    <3>1. pc[w] = "service" /\ service'[d] # {}
      BY <1>1, <2>3 DEF CreateService
    <3>2. Half'
      BY <1>1, <1>2, <1>3, <1>5, <2>1, <2>3, <3>1 DEF Half, HalfWay, Astray, Exposing, Cleaning
    <3>3. Expose => Expose'
      BY <1>1, <1>2, <1>3, <1>4, <2>1, <2>3, <3>1 DEF Expose, ToExpose, Exposed, At, Exposing
    <3>4. ~ deployment[d].known => Queued(d)'
      BY <1>1, <1>3, <1>5, <3>1 DEF Astray, Exposing
    <3>5. Clean => Clean'
      BY <1>1, <1>2, <1>3, <1>4, <2>1, <3>1, <3>4 DEF Clean, ToClean, At, Cleaning
    <3>6. QED
      BY <3>2, <3>3, <3>5
  <2>4. CASE DeleteService(w) /\ pc'[w] = "delete_ingress"
    <3>1. pc[w] = "delete_service" /\ service'[d] = {}
      BY <1>1, <2>4 DEF DeleteService
    <3>2. Half'
      BY <1>1, <1>2, <1>3, <1>5, <2>1, <2>4, <3>1 DEF Half, HalfWay, Astray, Exposing, Cleaning
    <3>3. Clean => Clean'
      BY <1>1, <1>2, <1>3, <1>4, <2>1, <2>4, <3>1 DEF Clean, ToClean, At, Cleaning
    <3>4. deployment[d].known => Queued(d)'
      BY <1>1, <1>3, <1>5, <3>1 DEF Astray, Cleaning
    <3>5. Expose => Expose'
      BY <1>1, <1>2, <1>3, <1>4, <2>1, <3>1, <3>4 DEF Expose, ToExpose, Exposed, At, Exposing
    <3>6. QED
      BY <3>2, <3>3, <3>5
  <2>5. QED
    BY <1>9, <2>2, <2>3, <2>4 DEF GoesOn
<1>10. QED
  BY <1>2, <1>7, <1>8, <1>9

(* RestInv is inductive.                                                     *)
LEMMA RestNext == TypeOK /\ OneWorker /\ RestInv /\ [Next]_vars => RestInv'
<1> SUFFICES ASSUME TypeOK, OneWorker, RestInv, [Next]_vars, spent'["relist"] = 0
             PROVE  /\ NoTombstones' /\ (\A d \in Deployments : EndsRight(d)')
                    /\ Half' /\ Expose' /\ (spent'["crash"] = 0 => Clean')
  BY RestParts
<1>1. /\ spent["relist"] = 0 /\ ~ Relist
      /\ spent'["crash"] = 0 => spent["crash"] = 0 /\ ~ Crash
  BY TroubleStays
<1>2. /\ NoTombstones /\ (\A d \in Deployments : EndsRight(d))
      /\ Half /\ Expose /\ (spent["crash"] = 0 => Clean)
  BY <1>1, RestParts
<1>3. NoTombstones' /\ \A d \in Deployments : EndsRight(d)'
  BY <1>1, <1>2, NoTombstonesNext, EndsRightNext
<1>4. ASSUME NEW b \in Deployments, NEW live \in BOOLEAN, NEW l \in PodLabels,
             NEW kind \in {"set", "delete"}, Change(b, live, l, kind),
             live = deployment[b].known \/ (kind = "set" => ~ deployment[b].known)
      PROVE  Half' /\ Expose' /\ (Clean => Clean')
  <2>1. /\ deployment'[b].known = live
        /\ UNCHANGED <<service, ingress, cache, queueVars, workerVars>>
        /\ \A d \in Deployments \ {b} : deployment'[d] = deployment[d]
    BY <1>4, Announced
  <2>2. \A d \in Deployments : WillQueue(d) => WillQueue(d)'
    BY <1>4, Announced, NewsStay
  <2>3. \A d \in Deployments : Queued(d) => Queued(d)'
    BY <2>1, <2>2 DEF Queued, queueVars
  <2>4. (deployment'[b].known <=> deployment[b].known) \/ Queued(b)'
    BY <1>2, <1>4, <2>1, ChangeIsNews DEF Queued
  <2>5. QED
    BY <1>2, <2>1, <2>3, <2>4, QuietStep
<1>5. CASE User
  <2>1. \A b \in Deployments : deployment[b].labels \in PodLabels
    BY DEF TypeOK, Copies
  <2>2. QED
    BY <1>1, <1>2, <1>3, <1>4, <1>5, <2>1 DEF User, DeleteDeployment, CreateDeployment, UpdateLabels
<1>6. ASSUME NEW b \in Deployments, Deliver(b) PROVE Half' /\ Expose' /\ (Clean => Clean')
  <2>1. /\ UNCHANGED <<storeVars, workerVars>>
        /\ \A d \in Deployments \ {b} : events'[d] = events[d] /\ cache'[d] = cache[d]
        /\ UNCHANGED queueVars \/ AddRateLimited(Item(b, events[b][1]))
    BY <1>6, Delivered
  <2>2. waiting \subseteq waiting' /\ dirty' = dirty
    BY <2>1 DEF AddRateLimited, queueVars
  <2>3. Queued(b) => Queued(b)'
    BY <1>6, <2>2, NewsAreQueued DEF Queued
  <2>4. \A d \in Deployments \ {b} : Queued(d) => Queued(d)'
    BY <2>1, <2>2 DEF Queued, WillQueue, IsNews
  <2>5. QED
    BY <1>2, <2>1, <2>3, <2>4, QuietStep DEF storeVars
<1>7. ASSUME NEW i \in waiting, DelayOver(i) PROVE Half' /\ Expose' /\ (Clean => Clean')
  <2>1. \A d \in Deployments : Queued(d) => Queued(d)'
    BY <1>7, QueuedStays DEF DelayOver, Ready
  <2>2. QED
    BY <1>2, <1>7, <2>1, QuietStep DEF DelayOver, storeVars
<1>8. CASE Crash
  <2>1. /\ \A w \in Workers : pc'[w] = "idle"
        /\ \A d \in Deployments :
              ~ cache'[d].known /\ events'[d] = Listed(d, Unknown)
        /\ UNCHANGED storeVars
    BY <1>8 DEF Crash, Unknown
  <2>2. \A d \in Deployments : deployment[d].known => Queued(d)'
    <3>1. ASSUME NEW d \in Deployments, deployment[d].known
          PROVE  1 \in DOMAIN events'[d] /\ IsNews(d, 1)'
      <4>1. 1 \in DOMAIN Listed(d, Unknown)
        BY <3>1, ListedSays
      <4>2. 1 \in DOMAIN events'[d] /\ ~ cache'[d].known
        BY <2>1, <4>1
      <4>3. QED
        BY <4>2 DEF IsNews
    <3>2. QED
      BY <3>1 DEF Queued, WillQueue
  <2>3. Half'
    BY <2>1 DEF Half, HalfWay, Astray, Cleaning, Exposing
  <2>4. Expose'
    BY <2>1, <2>2 DEF Expose, ToExpose, storeVars
  <2>5. QED
    BY <1>1, <1>3, <1>8, <2>3, <2>4
<1>9. ASSUME NEW w \in Workers, Worker(w) \/ CallFails(w)
      PROVE  Half' /\ Expose' /\ (Clean => Clean')
  <2>1. ~ task[w].tomb
    BY <1>2 DEF NoTombstones
  <2>2. QED
    BY <1>2, <1>9, <2>1, GetStep, WorkStep
<1>10. CASE UNCHANGED vars
  <2>1. UNCHANGED <<storeVars, workerVars, informerVars, waiting, dirty>>
    BY <1>10 DEF vars, queueVars
  <2>2. \A d \in Deployments : Queued(d) => Queued(d)'
    BY <2>1, QueuedStays
  <2>3. UNCHANGED <<service, ingress, deployment>>
    BY <2>1 DEF storeVars
  <2>4. QED
    BY <1>1, <1>2, <1>3, <2>1, <2>2, <2>3, QuietStep
<1>11. QED
  BY <1>1, <1>2, <1>3, <1>5, <1>6, <1>7, <1>8, <1>9, <1>10 DEF Next

LEMMA RestInit == Init => RestInv
BY DEF Init, RestInv, NoTombstones, EndsRight, HalfWay, Astray, ToExpose, ToClean,
   QueueInit, Unknown, NoItem, Exposing, Cleaning

LEMMA RestImplies == RestInv => RestIsExposed
BY DEF RestInv, RestIsExposed, AtRest, Calm, ToExpose, ToClean, Queued, WillQueue, At,
   Exposing, Cleaning

(***************************************************************************)
(* With one worker a Deployment at rest has its Service and its Ingress,   *)
(* and one that was deleted has neither: exposeDeployment and              *)
(* cleanupResources stop at their first error, but nothing that they left  *)
(* half done is without an item that will come back to it.                 *)
(***************************************************************************)
THEOREM RestIsExposedEver == OneWorker => (Spec => []RestIsExposed)
<1> SUFFICES ASSUME OneWorker PROVE Spec => []RestIsExposed
  OBVIOUS
<1>1. TypeOK /\ RestInv /\ [Next]_vars => RestInv'
  BY RestNext
<1>2. QED
  BY <1>1, RestInit, RestImplies, TypeCorrect, PTL DEF Spec

=============================================================================
