-------------------------- MODULE ExampleController --------------------------
(***************************************************************************)
(* The example controller: example-controller/controller.go.  It gives     *)
(* every Deployment of one namespace a Service and an Ingress of its name. *)
(* Unlike the GitOps controller it reads the Deployment from the lister,   *)
(* writes no status and has no handler for updates.                        *)
(***************************************************************************)
EXTENDS WorkQueue

CONSTANTS
  Workers,      \* the goroutines running worker()
  Deployments,  \* names of Deployments, Services and Ingresses
  PodLabels,    \* values of Deployment.Spec.Template.Labels
  MaxVersion,   \* bound: creations, edits and deletions of a Deployment
  Budget        \* bound: how often each kind of trouble may happen

Trouble == {"fault",    \* a call fails, or is applied and its answer is lost
            "relist",   \* the watch breaks and the informer lists again
            "crash"}    \* the process ends and is started again

ASSUME DeploymentsAssumption == Deployments # {} /\ PodLabels # {}
ASSUME LimitsAssumption == MaxVersion \in Nat /\ Budget \in [Trouble -> Nat]

VARIABLES
  deployment,  \* the Deployments the API server stores
  service,     \* per name, the selector of the Service, or none
  ingress,     \* per name, is there an Ingress
  events,      \* per Deployment, the watch events not yet delivered
  cache,       \* what the lister returns
  pc,          \* per worker, the call it makes next
  task,        \* per worker, the item it got from the queue
  selector,    \* per worker, the labels it read from the lister
  spent        \* how often each kind of trouble has happened

storeVars == <<deployment, service, ingress>>
informerVars == <<events, cache>>
workerVars == <<pc, task, selector>>
vars == <<storeVars, informerVars, queueVars, workerVars, spent>>

-----------------------------------------------------------------------------
AnyDeployment == CHOOSE d \in Deployments : TRUE
AnyLabels == CHOOSE l \in PodLabels : TRUE
Versions == 0 .. MaxVersion

(* A queued item is a pointer to the object of an event, or to a tombstone. *)
Items == [name : Deployments, ver : Versions, tomb : BOOLEAN]
Item(d, e) == [name |-> d, ver |-> e.ver, tomb |-> e.kind = "tombstone"]
NoItem == [name |-> AnyDeployment, ver |-> 0, tomb |-> FALSE]

Selectors == {{}} \cup {{l} : l \in PodLabels}   \* {} is no Service
Events == [kind : {"set", "delete", "tombstone"}, ver : Versions, labels : PodLabels]
Copies == [known : BOOLEAN, ver : Versions, labels : PodLabels]
Unknown == [known |-> FALSE, ver |-> 0, labels |-> AnyLabels]

Points == {"idle", "lookup", "lister", "service", "ingress",
           "delete_service", "delete_ingress", "done"}

TypeOK ==
  /\ deployment \in [Deployments -> Copies]
  /\ service \in [Deployments -> Selectors]
  /\ ingress \in [Deployments -> BOOLEAN]
  /\ events \in [Deployments -> Seq(Events)]
  /\ cache \in [Deployments -> Copies]
  /\ queue \in Seq(Items)
  /\ dirty \subseteq Items /\ processing \subseteq Items
  /\ waiting \subseteq Items /\ failures \subseteq Items
  /\ pc \in [Workers -> Points]
  /\ task \in [Workers -> Items]
  /\ selector \in [Workers -> PodLabels]
  /\ spent \in [Trouble -> Nat]

Init ==
  /\ deployment = [d \in Deployments |-> Unknown]
  /\ service = [d \in Deployments |-> {}]
  /\ ingress = [d \in Deployments |-> FALSE]
  /\ events = [d \in Deployments |-> <<>>]
  /\ cache = [d \in Deployments |-> Unknown]
  /\ QueueInit
  /\ pc = [w \in Workers |-> "idle"]
  /\ task = [w \in Workers |-> NoItem]
  /\ selector = [w \in Workers |-> AnyLabels]
  /\ spent = [t \in Trouble |-> 0]

Spend(t) ==
  /\ spent[t] < Budget[t]
  /\ spent' = [spent EXCEPT ![t] = @ + 1]

-----------------------------------------------------------------------------
(***************************************************************************)
(* Users, and the watch events of what they do.                            *)
(***************************************************************************)
Change(d, live, labels, kind) ==
  LET v == deployment[d].ver + 1 IN
    /\ v <= MaxVersion
    /\ deployment' = [deployment EXCEPT ![d] =
                        [known |-> live, ver |-> v, labels |-> labels]]
    /\ events' = [events EXCEPT ![d] =
                    Append(@, [kind |-> kind, ver |-> v, labels |-> labels])]
    /\ UNCHANGED <<service, ingress, cache, queueVars, workerVars, spent>>

CreateDeployment(d, l) == ~ deployment[d].known /\ Change(d, TRUE, l, "set")

UpdateLabels(d, l) ==
  deployment[d].known /\ deployment[d].labels # l /\ Change(d, TRUE, l, "set")

DeleteDeployment(d) ==
  deployment[d].known /\ Change(d, FALSE, deployment[d].labels, "delete")

-----------------------------------------------------------------------------
(***************************************************************************)
(* The informer.  There is no UpdateFunc: an event about a Deployment the  *)
(* cache knows only changes the cache.                                     *)
(***************************************************************************)
(* Mutant of handleAdd: no item while another of the Deployment is pending. *)
handleAddUnlessPending(d, e) ==
  IF \E i \in waiting \cup processing : i.name = d
  THEN UNCHANGED queueVars ELSE AddRateLimited(Item(d, e))

handleAdd(d, e) == AddRateLimited(Item(d, e))

(* Mutant of handleDelete: no DeleteFunc. *)
handleDeleteIgnored(d, e) == UNCHANGED queueVars

handleDelete(d, e) == AddRateLimited(Item(d, e))

Deliver(d) ==
  /\ events[d] # <<>>
  /\ LET e == Head(events[d]) IN
       IF e.kind = "set"
       THEN /\ cache' = [cache EXCEPT ![d] =
                           [known |-> TRUE, ver |-> e.ver, labels |-> e.labels]]
            /\ IF cache[d].known THEN UNCHANGED queueVars ELSE handleAdd(d, e)
       ELSE /\ cache' = [cache EXCEPT ![d] = Unknown]
            /\ handleDelete(d, e)
  /\ events' = [events EXCEPT ![d] = Tail(@)]
  /\ UNCHANGED <<storeVars, workerVars, spent>>

(* What listing the Deployments tells an informer whose cache is c. *)
Listed(d, c) ==
  LET event(kind, o) == <<[kind |-> kind, ver |-> o.ver, labels |-> o.labels]>> IN
    IF deployment[d].known THEN event("set", deployment[d])
    ELSE IF c.known THEN event("tombstone", c) ELSE <<>>

Relist ==
  /\ Spend("relist")
  /\ events' = [d \in Deployments |-> Listed(d, cache[d])]
  /\ UNCHANGED <<storeVars, cache, queueVars, workerVars>>

DelayOver(i) ==
  /\ Ready(i)
  /\ UNCHANGED <<storeVars, informerVars, workerVars, spent>>

-----------------------------------------------------------------------------
(***************************************************************************)
(* processNextItem.                                                        *)
(***************************************************************************)
Goto(w, l) == pc' = [pc EXCEPT ![w] = l]

(* A call succeeds and the worker makes the next one. *)
Continue(w, l) == Goto(w, l) /\ UNCHANGED <<task, selector, queueVars>>

(* The item is done with, and the worker calls Get again. *)
Leave(w) ==
  /\ Goto(w, "idle")
  /\ task' = [task EXCEPT ![w] = NoItem]
  /\ selector' = [selector EXCEPT ![w] = AnyLabels]

Succeed(w) == Leave(w) /\ Finish(task[w])

(* After a cleanup the item is not forgotten: its failure count stays. *)
SucceedUnforgotten(w) ==
  Leave(w) /\ Done(task[w]) /\ UNCHANGED <<waiting, failures>>

(* Mutant of Fail: the item is dropped. *)
Drop(w) ==
  /\ Goto(w, "done")
  /\ UNCHANGED <<task, selector, queueVars>>

Fail(w) ==
  /\ Goto(w, "done")
  /\ AddRateLimited(task[w])
  /\ UNCHANGED <<task, selector>>

DeferredDone(w) ==
  /\ pc[w] = "done"
  /\ Leave(w) /\ Done(task[w])
  /\ UNCHANGED <<storeVars, informerVars, waiting, failures, spent>>

GetItem(w) ==
  /\ pc[w] = "idle"
  /\ Get
  /\ Goto(w, "lookup")
  /\ task' = [task EXCEPT ![w] = Head(queue)]
  /\ UNCHANGED <<storeVars, informerVars, selector, spent>>

(* A tombstone has no key: it is forgotten, and nothing cleaned up. *)
LookUp(w) ==
  /\ pc[w] = "lookup"
  /\ IF task[w].tomb THEN Succeed(w)
     ELSE Continue(w, IF deployment[task[w].name].known
                      THEN "lister" ELSE "delete_service")
  /\ UNCHANGED <<storeVars, informerVars, spent>>

-----------------------------------------------------------------------------
(***************************************************************************)
(* exposeDeployment: the labels come from the lister, which may be behind. *)
(***************************************************************************)
ListerGet(w) ==
  /\ pc[w] = "lister"
  /\ LET c == cache[task[w].name] IN
       IF c.known
       THEN /\ Goto(w, "service")
            /\ selector' = [selector EXCEPT ![w] = c.labels]
            /\ UNCHANGED <<task, queueVars>>
       ELSE Fail(w)
  /\ UNCHANGED <<storeVars, informerVars, spent>>

(* Mutant of CreateService: every attempt makes a Service of its own. *)
CreateServiceAgain(w) ==
  /\ pc[w] = "service"
  /\ service' = [service EXCEPT ![task[w].name] = @ \cup {selector[w]}]
  /\ \/ Continue(w, "ingress") /\ UNCHANGED spent
     \/ Fail(w) /\ Spend("fault")
  /\ UNCHANGED <<deployment, ingress, informerVars>>

(* A create call: it is made, with its answer or without, or it is not. *)
CreateService(w) ==
  /\ pc[w] = "service"
  /\ LET d == task[w].name IN
       IF service[d] # {}
       THEN Fail(w) /\ UNCHANGED <<service, spent>>
       ELSE /\ service' = [service EXCEPT ![d] = {selector[w]}]
            /\ \/ Continue(w, "ingress") /\ UNCHANGED spent
               \/ Fail(w) /\ Spend("fault")
  /\ UNCHANGED <<deployment, ingress, informerVars>>

CreateIngress(w) ==
  /\ pc[w] = "ingress"
  /\ LET d == task[w].name IN
       IF ingress[d]
       THEN Fail(w) /\ UNCHANGED <<ingress, spent>>
       ELSE /\ ingress' = [ingress EXCEPT ![d] = TRUE]
            /\ \/ Succeed(w) /\ UNCHANGED spent
               \/ Fail(w) /\ Spend("fault")
  /\ UNCHANGED <<deployment, service, informerVars>>

(***************************************************************************)
(* cleanupResources: what is not there is an error.                        *)
(***************************************************************************)
DeleteService(w) ==
  /\ pc[w] = "delete_service"
  /\ LET d == task[w].name IN
       IF service[d] = {}
       THEN Fail(w) /\ UNCHANGED <<service, spent>>
       ELSE /\ service' = [service EXCEPT ![d] = {}]
            /\ \/ Continue(w, "delete_ingress") /\ UNCHANGED spent
               \/ Fail(w) /\ Spend("fault")
  /\ UNCHANGED <<deployment, ingress, informerVars>>

DeleteIngress(w) ==
  /\ pc[w] = "delete_ingress"
  /\ LET d == task[w].name IN
       IF ~ ingress[d]
       THEN Fail(w) /\ UNCHANGED <<ingress, spent>>
       ELSE /\ ingress' = [ingress EXCEPT ![d] = FALSE]
            /\ \/ SucceedUnforgotten(w) /\ UNCHANGED spent
               \/ Fail(w) /\ Spend("fault")
  /\ UNCHANGED <<deployment, service, informerVars>>

(* A call of the API server fails before it has any effect. *)
CallFails(w) ==
  /\ pc[w] \in Points \ {"idle", "lister", "done"}
  /\ pc[w] = "lookup" => ~ task[w].tomb
  /\ Fail(w) /\ Spend("fault")
  /\ UNCHANGED <<storeVars, informerVars>>

(* The process ends and starts again, with an empty cache and queue. *)
Crash ==
  /\ Spend("crash")
  /\ cache' = [d \in Deployments |-> Unknown]
  /\ events' = [d \in Deployments |-> Listed(d, Unknown)]
  /\ QueueReset
  /\ pc' = [w \in Workers |-> "idle"]
  /\ task' = [w \in Workers |-> NoItem]
  /\ selector' = [w \in Workers |-> AnyLabels]
  /\ UNCHANGED storeVars

-----------------------------------------------------------------------------
Worker(w) ==
  \/ GetItem(w) \/ LookUp(w) \/ ListerGet(w) \/ CreateService(w)
  \/ CreateIngress(w) \/ DeleteService(w) \/ DeleteIngress(w) \/ DeferredDone(w)

User ==
  \E d \in Deployments :
    \/ DeleteDeployment(d)
    \/ \E l \in PodLabels : CreateDeployment(d, l) \/ UpdateLabels(d, l)

Next ==
  \/ User
  \/ \E d \in Deployments : Deliver(d)
  \/ \E i \in waiting : DelayOver(i)
  \/ \E w \in Workers : Worker(w) \/ CallFails(w)
  \/ Relist
  \/ Crash

Spec == Init /\ [][Next]_vars

(* Goroutines run and delays end; users and trouble owe nothing. *)
Fairness ==
  /\ \A d \in Deployments : WF_vars(Deliver(d))
  /\ \A i \in Items : WF_vars(DelayOver(i))
  /\ \A w \in Workers : WF_vars(Worker(w))

FairSpec == Spec /\ Fairness

-----------------------------------------------------------------------------
(***************************************************************************)
(* Properties.                                                             *)
(***************************************************************************)
AtRest(d) ==
  /\ events[d] = <<>>
  /\ \A i \in waiting \cup dirty : i.name # d
  /\ \A w \in Workers : pc[w] # "idle" => task[w].name # d

Calm == spent["relist"] = 0 /\ spent["crash"] = 0

Exposed(d) == service[d] # {} /\ ingress[d]

(***************************************************************************)
(* A Deployment at rest has both its Service and its Ingress, and one that *)
(* is gone has neither, unless a relist or a restart hid its deletion:     *)
(* half of the work is never taken for all of it (the AddRateLimited of    *)
(* every error path of processNextItem).                                   *)
(***************************************************************************)
RestIsExposed ==
  \A d \in Deployments : AtRest(d) =>
    IF deployment[d].known THEN spent["relist"] = 0 => Exposed(d)
    ELSE Calm => service[d] = {} /\ ~ ingress[d]

(* No call failed, no watch broke and no process ended, ever. *)
Untroubled == [](\A t \in Trouble : spent[t] = 0)

(***************************************************************************)
(* A Deployment that stays is exposed in the end, and stays so ("whenever  *)
(* a new Deployment is created [...] it will expose the Deployment",       *)
(* README.md:5), in whatever order the items of its past are processed.    *)
(***************************************************************************)
EventuallyExposed ==
  Untroubled =>
    \A d \in Deployments : <>[](deployment[d].known) => <>[]Exposed(d)

(***************************************************************************)
(* "cleanupResources will delete the service and ingress"                  *)
(* (controller.go:177): of a Deployment that stays deleted neither is left.*)
(***************************************************************************)
EventuallyCleaned ==
  Untroubled =>
    \A d \in Deployments :
      <>[](~ deployment[d].known) => <>[](service[d] = {} /\ ~ ingress[d])

=============================================================================
