--------------------------- MODULE InformerFactory ---------------------------
(***************************************************************************)
(* The shared informer factory                                             *)
(* (gitops/pkg/informers/externalversions/factory.go): one informer per    *)
(* object type, started once however often Start is called, and a Shutdown *)
(* that waits for all of them.  Goroutines call its methods in any order;  *)
(* what a method does under the mutex takes several steps.                 *)
(***************************************************************************)
EXTENDS Naturals

CONSTANTS
  Callers,   \* goroutines that call the factory
  Types,     \* object types informers are asked for
  Nobody,    \* the holder of a free mutex
  MaxCalls   \* bound: calls of all callers

ASSUME CallersAssumption == Nobody \notin Callers /\ Types # {}
ASSUME CallsAssumption == MaxCalls \in Nat

VARIABLES
  lock,          \* the mutex: who holds it
  made,          \* per type, informers made; the last one is in f.informers
  startedInformers,
  shuttingDown,
  wg,            \* the counter of the WaitGroup
  runs,          \* per type, the goroutines started to run its informer ...
  running,       \* ... and those that have not returned
  synced,        \* types whose informer HasSynced
  stopped,       \* the stop channel is closed
  call,          \* per caller: the method it is in, and where
  calls,         \* how many calls have been made
  given          \* history: the informers callers were given

informerVars == <<made, startedInformers, given>>
runVars == <<wg, runs, running>>
vars == <<lock, informerVars, shuttingDown, runVars, synced, stopped, call, calls>>

Methods == {"InformerFor", "Start", "Shutdown", "WaitForCacheSync"}
Stages == {"lock", "enter", "make", "loop", "wait", "return"}

(* type: the argument; todo: the informers of the loop it is in; good: the *)
(* results that are true; asked: history, what was started at the call.    *)
Calls == [method : Methods \cup {"none"}, stage : Stages, type : Types,
          todo : SUBSET Types, good : SUBSET Types, asked : SUBSET Types]
NoCall == [method |-> "none", stage |-> "return", type |-> CHOOSE t \in Types : TRUE,
           todo |-> {}, good |-> {}, asked |-> {}]

TypeOK ==
  /\ lock \in Callers \cup {Nobody}
  /\ made \in [Types -> Nat] /\ startedInformers \subseteq Types
  /\ shuttingDown \in BOOLEAN /\ stopped \in BOOLEAN
  /\ wg \in Nat /\ runs \in [Types -> Nat] /\ running \in [Types -> Nat]
  /\ synced \subseteq Types
  /\ call \in [Callers -> Calls] /\ calls \in Nat
  /\ given \subseteq Types \X Nat

(* NewSharedInformerFactory. *)
Init ==
  /\ lock = Nobody
  /\ made = [t \in Types |-> 0] /\ startedInformers = {}
  /\ shuttingDown = FALSE /\ stopped = FALSE
  /\ wg = 0 /\ runs = [t \in Types |-> 0] /\ running = [t \in Types |-> 0]
  /\ synced = {}
  /\ call = [c \in Callers |-> NoCall] /\ calls = 0
  /\ given = {}

In(c, m, s) == call[c].method = m /\ call[c].stage = s
Goto(c, s) == call' = [call EXCEPT ![c].stage = s]

-----------------------------------------------------------------------------
Call(c, m, t) ==
  /\ call[c].method = "none" /\ calls < MaxCalls
  /\ calls' = calls + 1
  /\ call' = [call EXCEPT ![c] = [NoCall EXCEPT
                !.method = m, !.stage = "lock",
                !.type = IF m = "InformerFor" THEN t ELSE @,
                !.asked = IF m = "WaitForCacheSync" THEN startedInformers ELSE {}]]
  /\ UNCHANGED <<lock, informerVars, shuttingDown, runVars, synced, stopped>>

Return(c) ==
  /\ call[c].method # "none" /\ call[c].stage = "return"
  /\ call' = [call EXCEPT ![c] = NoCall]
  /\ UNCHANGED <<lock, informerVars, shuttingDown, runVars, synced, stopped, calls>>

(* Mutant of Lock: there is no mutex. *)
LockNothing(c) ==
  /\ call[c].stage = "lock"
  /\ lock' = c /\ Goto(c, "enter")
  /\ UNCHANGED <<informerVars, shuttingDown, runVars, synced, stopped, calls>>

Lock(c) ==
  /\ call[c].stage = "lock"
  /\ lock = Nobody /\ lock' = c /\ Goto(c, "enter")
  /\ UNCHANGED <<informerVars, shuttingDown, runVars, synced, stopped, calls>>

(***************************************************************************)
(* InformerFor: look the type up, make an informer if there is none.       *)
(***************************************************************************)
InformerFor(c) ==
  LET t == call[c].type IN
  \/ /\ In(c, "InformerFor", "enter")
     /\ IF made[t] = 0
        THEN Goto(c, "make") /\ UNCHANGED <<lock, given>>
        ELSE /\ Goto(c, "return") /\ lock' = Nobody
             /\ given' = given \cup {<<t, made[t]>>}
     /\ UNCHANGED <<made, startedInformers, shuttingDown, runVars, synced,
                    stopped, calls>>
  \/ /\ In(c, "InformerFor", "make")
     /\ made' = [made EXCEPT ![t] = @ + 1]
     /\ given' = given \cup {<<t, made[t] + 1>>}
     /\ Goto(c, "return") /\ lock' = Nobody
     /\ UNCHANGED <<startedInformers, shuttingDown, runVars, synced, stopped, calls>>

(***************************************************************************)
(* Start: nothing any more once Shutdown was called; else one goroutine    *)
(* for every informer that has none.                                       *)
(***************************************************************************)

(* Mutant of MayStart: shuttingDown is not looked at. *)
MayAlwaysStart == TRUE

MayStart == ~ shuttingDown

(* Mutant of ToStart: startedInformers is not looked at. *)
AllToStart == {t \in Types : made[t] > 0}

ToStart == {t \in Types : made[t] > 0 /\ t \notin startedInformers}

(* Mutant of Spawn: wg.Add is missing. *)
SpawnUncounted(t) ==
  /\ runs' = [runs EXCEPT ![t] = @ + 1]
  /\ running' = [running EXCEPT ![t] = @ + 1]
  /\ UNCHANGED wg

Spawn(t) ==
  /\ wg' = wg + 1
  /\ runs' = [runs EXCEPT ![t] = @ + 1]
  /\ running' = [running EXCEPT ![t] = @ + 1]

Start(c) ==
  \/ /\ In(c, "Start", "enter")
     /\ IF MayStart
        THEN /\ call' = [call EXCEPT ![c].stage = "loop", ![c].todo = ToStart]
             /\ UNCHANGED lock
        ELSE Goto(c, "return") /\ lock' = Nobody
     /\ UNCHANGED <<informerVars, shuttingDown, runVars, synced, stopped, calls>>
  \/ /\ In(c, "Start", "loop")
     /\ \E t \in call[c].todo :
          /\ Spawn(t)
          /\ startedInformers' = startedInformers \cup {t}
          /\ call' = [call EXCEPT ![c].todo = @ \ {t}]
     /\ UNCHANGED <<lock, made, given, shuttingDown, synced, stopped, calls>>
  \/ /\ In(c, "Start", "loop") /\ call[c].todo = {}
     /\ Goto(c, "return") /\ lock' = Nobody
     /\ UNCHANGED <<informerVars, shuttingDown, runVars, synced, stopped, calls>>

(***************************************************************************)
(* Shutdown: the flag under the mutex, the wait outside of it.             *)
(***************************************************************************)

(* Mutant of Unlock: a deferred Unlock, after the wait. *)
UnlockLater(c) == UNCHANGED lock

Unlock(c) == lock' = Nobody

Shutdown(c) ==
  \/ /\ In(c, "Shutdown", "enter")
     /\ shuttingDown' = TRUE
     /\ Unlock(c) /\ Goto(c, "wait")
     /\ UNCHANGED <<informerVars, runVars, synced, stopped, calls>>
  \/ /\ In(c, "Shutdown", "wait") /\ wg = 0
     /\ Goto(c, "return")
     /\ lock' = IF lock = c THEN Nobody ELSE lock
     /\ UNCHANGED <<informerVars, shuttingDown, runVars, synced, stopped, calls>>

(***************************************************************************)
(* WaitForCacheSync: under the mutex, which informers are started; without *)
(* it, poll each until it has synced or the stop channel is closed.        *)
(***************************************************************************)

(* Mutant of Waited: the first informer to sync ends the wait. *)
WaitedForOne(c, t) == {}

Waited(c, t) == call[c].todo \ {t}

WaitForCacheSync(c) ==
  \/ /\ In(c, "WaitForCacheSync", "enter")
     /\ call' = [call EXCEPT ![c].stage = "wait", ![c].todo = startedInformers]
     /\ lock' = Nobody
     /\ UNCHANGED <<informerVars, shuttingDown, runVars, synced, stopped, calls>>
  \/ /\ In(c, "WaitForCacheSync", "wait")
     /\ \E t \in call[c].todo :
          \/ /\ t \in synced
             /\ call' = [call EXCEPT ![c].todo = Waited(c, t), ![c].good = @ \cup {t}]
          \/ /\ stopped
             /\ call' = [call EXCEPT ![c].todo = @ \ {t}]
     /\ UNCHANGED <<lock, informerVars, shuttingDown, runVars, synced, stopped, calls>>
  \/ /\ In(c, "WaitForCacheSync", "wait") /\ call[c].todo = {}
     /\ Goto(c, "return")
     /\ UNCHANGED <<lock, informerVars, shuttingDown, runVars, synced, stopped, calls>>

-----------------------------------------------------------------------------
(* informer.Run: it fills its cache if it can, and ends when it is told.   *)
HasSynced(t) ==
  /\ running[t] > 0 /\ t \notin synced
  /\ synced' = synced \cup {t}
  /\ UNCHANGED <<lock, informerVars, shuttingDown, runVars, stopped, call, calls>>

RunReturns(t) ==
  /\ stopped /\ running[t] > 0
  /\ running' = [running EXCEPT ![t] = @ - 1]
  /\ wg' = wg - 1
  /\ UNCHANGED <<lock, informerVars, shuttingDown, runs, synced, stopped, call, calls>>

CloseStopCh ==
  /\ ~ stopped /\ stopped' = TRUE
  /\ UNCHANGED <<lock, informerVars, shuttingDown, runVars, synced, call, calls>>

Step(c) == \/ Lock(c) \/ InformerFor(c) \/ Start(c) \/ Shutdown(c)
           \/ WaitForCacheSync(c) \/ Return(c)

Next ==
  \/ \E c \in Callers :
       \/ \E m \in Methods, t \in Types : Call(c, m, t)
       \/ Step(c)
  \/ \E t \in Types : HasSynced(t) \/ RunReturns(t)
  \/ CloseStopCh

(* The scheduler runs every goroutine.  Nothing says that an informer ever *)
(* syncs, or that the stop channel is ever closed.                         *)
Fairness ==
  /\ \A c \in Callers : WF_vars(Step(c))
  /\ \A t \in Types : WF_vars(RunReturns(t))

Spec == Init /\ [][Next]_vars /\ Fairness

-----------------------------------------------------------------------------
(***************************************************************************)
(* InformerFor and Start ("allows Start() to be called multiple times      *)
(* safely"): all callers are given the one informer that is run, by one    *)
(* goroutine; a handler added to another one would never be called.        *)
(***************************************************************************)
SharedAndRunOnce ==
  /\ \A i, j \in given : i[1] = j[1] => i = j
  /\ \A t \in Types : runs[t] <= IF made[t] > 0 THEN 1 ELSE 0

(***************************************************************************)
(* Shutdown "blocks until all goroutines have terminated": when it returns *)
(* none is left, whoever started it and whenever.                          *)
(***************************************************************************)
ShutdownWaits == \A c \in Callers :
  In(c, "Shutdown", "return") => \A t \in Types : running[t] = 0

(***************************************************************************)
(* "At that point no new informers can be started anymore": not even by a  *)
(* Start that was called before; so nobody raises the WaitGroup while      *)
(* somebody waits for it, and what ShutdownWaits says stays true.          *)
(***************************************************************************)
ShutdownIsFinal ==
  [][shuttingDown => \A t \in Types : running'[t] <= running[t]]_vars

(***************************************************************************)
(* WaitForCacheSync "blocks until all started informers' caches were       *)
(* synced or the stop channel gets closed", and reports no cache as synced *)
(* that is not.                                                            *)
(***************************************************************************)
SyncIsComplete == \A c \in Callers :
  In(c, "WaitForCacheSync", "return") =>
    /\ call[c].good \subseteq synced
    /\ stopped \/ call[c].asked \subseteq call[c].good

(***************************************************************************)
(* No call is held up by a call that waits for the stop channel, and once  *)
(* that is closed every call ends.                                         *)
(***************************************************************************)
CallsEnd == \A c \in Callers :
  (/\ call[c].method # "none"
   /\ stopped \/ call[c].method \in {"InformerFor", "Start"})
     ~> call[c].method = "none"
=============================================================================
