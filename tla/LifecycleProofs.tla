---------------------------- MODULE LifecycleProofs ----------------------------
(***************************************************************************)
(* What Lifecycle promises, for every number of workers, of items and of   *)
(* signals, and for an API server that may never answer.                   *)
(***************************************************************************)
EXTENDS Lifecycle, TLAPS

Early == {"config", "list", "signals", "new", "start"}

(* The signal goroutine is the only one that closes the stop channel.       *)
Signalled ==
  /\ stopCh <=> handler = "second"
  /\ handler = "none" => pending = 0

(* How far main has come tells what it has found out: the demonstration is  *)
(* never in Run; before the sync there is no worker; behind it the cache is *)
(* full, or the stop channel cut the wait off.                              *)
Progress ==
  /\ main \in Early => cache = "cold"
  /\ main \in Early \cup {"sync"} => \A w \in Workers : worker[w] = "none"
  /\ main \in {"config", "list", "signals"} => handler = "none"
  /\ main \in {"signals", "workers", "stop", "shutdown", "return"} =>
       program \in Controllers
  /\ main = "get" => program = "demo" /\ cache = "synced"
  /\ main \in {"workers", "stop"} =>
       cache = "synced" \/ (program = "example" /\ stopCh)
  /\ main \in {"shutdown", "return"} =>
       /\ stopCh
       /\ program = "gitops" => failed \/ cache = "synced"
  /\ failed => main \in {"shutdown", "return"}

(* A worker that runs without a full cache was started after the stop       *)
(* channel was closed, and gets no further than to see that.                *)
WorkersWait == \A w \in Workers :
  \/ worker[w] = "none"
  \/ cache = "synced"
  \/ program = "example" /\ stopCh /\ worker[w] \in {"until", "ended"}

LifeInv ==
  TypeOK /\ Signalled /\ Progress /\ WorkersWait /\ ServesUntilStopped

-----------------------------------------------------------------------------
LEMMA LifeInit == Init => LifeInv
<1> SUFFICES ASSUME Init PROVE LifeInv
  OBVIOUS
<1>1. TypeOK
  <2>1. 0 \in 0 .. MaxSignals /\ 0 \in 0 .. ChannelSize /\ 0 \in 0 .. MaxItems
    BY BoundsAssumption DEF ChannelSize
  <2>2. QED
    BY <2>1 DEF Init, TypeOK, Controllers, Calls
<1>2. Signalled /\ WorkersWait /\ ServesUntilStopped
  BY DEF Init, Signalled, WorkersWait, ServesUntilStopped
<1>3. Progress
  BY DEF Init, Progress, Early
<1>4. QED
  BY <1>1, <1>2, <1>3 DEF LifeInv

LEMMA MainStep == LifeInv /\ Main => LifeInv'
<1> SUFFICES ASSUME LifeInv, Main PROVE LifeInv'
  OBVIOUS
<1> USE DEF LifeInv, TypeOK, Signalled, Progress, WorkersWait, ServesUntilStopped,
        Controllers, Calls, Early, At, Alive, Goto, Exit, signalVars, queueVars, mainVars
<1>1. CASE Configure
  BY <1>1 DEF Configure
<1>2. CASE ListNamespaces
  BY <1>2 DEF ListNamespaces
<1>3. CASE SetupSignalHandler
  <2>1. program \in Controllers
    BY <1>3 DEF SetupSignalHandler
  <2>2. Signalled'
    <3>1. main = "signals" /\ handler' = "first" /\ UNCHANGED <<pending, stopCh>>
      BY <1>3 DEF SetupSignalHandler
    <3>2. QED
      BY <3>1
  <2>3. QED
    BY <1>3, <2>1, <2>2 DEF SetupSignalHandler
<1>4. CASE NewController
  BY <1>4 DEF NewController
<1>5. CASE StartInformers
  BY <1>5 DEF StartInformers
<1>6. CASE WaitForCacheSync
  <2>1. CASE cache = "synced" /\ program = "demo"
    BY <1>6, <2>1 DEF WaitForCacheSync, SyncCutOff
  <2>2. CASE cache = "synced" /\ program # "demo" /\ Goto("workers")
    BY <1>6, <2>2 DEF WaitForCacheSync
  <2>3. CASE SyncCutOff /\ SyncFailed
    BY <1>6, <2>3 DEF WaitForCacheSync, SyncCutOff, SyncFailed
  <2>4. QED
    BY <1>6, <2>1, <2>2, <2>3 DEF WaitForCacheSync
<1>7. CASE StartWorkers
  BY <1>7 DEF StartWorkers, Started
<1>8. CASE AwaitStop
  BY <1>8 DEF AwaitStop
<1>9. CASE ShutDown
  BY <1>9 DEF ShutDown
<1>10. CASE Return
  BY <1>10 DEF Return
<1>11. CASE GetPod
  BY <1>11 DEF GetPod
<1>12. QED
  BY <1>1, <1>2, <1>3, <1>4, <1>5, <1>6, <1>7, <1>8, <1>9, <1>10, <1>11 DEF Main

LEMMA OtherStep ==
  LifeInv /\ (Signal \/ HandleSignal \/ Sync \/ Handle) => LifeInv'
<1> SUFFICES ASSUME LifeInv, Signal \/ HandleSignal \/ Sync \/ Handle PROVE LifeInv'
  OBVIOUS
<1> USE DEF LifeInv, TypeOK, Signalled, Progress, WorkersWait, ServesUntilStopped,
        Controllers, Calls, Early, Alive, Exit, signalVars, queueVars, mainVars
<1>1. CASE Signal
  BY <1>1, BoundsAssumption DEF Signal, Buffered, ChannelSize
<1>2. CASE HandleSignal
  <2>1. pending > 0 /\ pending' = pending - 1 /\ pending' \in 0 .. ChannelSize
    BY <1>2 DEF HandleSignal, ChannelSize
  <2>2. UNCHANGED <<program, main, failed, sent, cache, queueVars, worker>>
    BY <1>2 DEF HandleSignal
  <2>3. CASE handler = "first" /\ handler' = "second" /\ stopCh' = TRUE /\ UNCHANGED exit
    BY <2>1, <2>2, <2>3
  <2>4. CASE handler = "second" /\ exit' = "error" /\ UNCHANGED <<handler, stopCh>>
    BY <2>1, <2>2, <2>4
  <2>5. QED
    BY <1>2, <2>3, <2>4 DEF HandleSignal
<1>3. CASE Sync
  BY <1>3 DEF Sync
<1>4. CASE Handle
  BY <1>4, BoundsAssumption DEF Handle, Add
<1>5. QED
  BY <1>1, <1>2, <1>3, <1>4

LEMMA WorkStep == ASSUME LifeInv, NEW w \in Workers, Work(w) PROVE LifeInv'
<1> USE DEF LifeInv, TypeOK, Signalled, Progress, WorkersWait, ServesUntilStopped,
        Controllers, Calls, Early, Alive, signalVars, queueVars, mainVars
<1>1. CASE WorkerUntil(w)
  BY <1>1 DEF WorkerUntil, Until
<1>2. CASE GetItem(w)
  BY <1>2, BoundsAssumption DEF GetItem
<1>3. CASE Process(w)
  BY <1>3, BoundsAssumption DEF Process, Add
<1>4. QED
  BY <1>1, <1>2, <1>3 DEF Work

LEMMA LifeInvariant == Spec => []LifeInv
<1>1. LifeInv /\ [Next]_vars => LifeInv'
  <2> SUFFICES ASSUME LifeInv, [Next]_vars PROVE LifeInv'
    OBVIOUS
  <2>1. CASE Next
    BY <2>1, MainStep, OtherStep, WorkStep DEF Next
  <2>2. CASE UNCHANGED vars
    BY <2>2 DEF vars, signalVars, queueVars, mainVars, LifeInv, TypeOK, Signalled,
       Progress, WorkersWait, ServesUntilStopped
  <2>3. QED
    BY <2>1, <2>2
<1>2. QED
  BY <1>1, LifeInit, PTL DEF Spec

(* Every variable keeps its type; the channel of signals never overflows.   *)
THEOREM TypeCorrect == Spec => []TypeOK
<1>1. LifeInv => TypeOK
  BY DEF LifeInv
<1>2. QED
  BY <1>1, LifeInvariant, PTL

(* No worker reconciles and no lister is read before the first list is      *)
(* complete, in any of the three programs, and not even when the wait for   *)
(* the sync was cut off.                                                    *)
THEOREM SyncedBeforeWorkEver == Spec => []SyncedBeforeWork
<1>1. LifeInv => SyncedBeforeWork
  BY DEF LifeInv, WorkersWait, Progress, SyncedBeforeWork
<1>2. QED
  BY <1>1, LifeInvariant, PTL

(* Nothing but a signal ends Run, shuts its queue down or retires a worker, *)
(* and the GitOps controller ends well only if it could do its work.        *)
THEOREM ServesUntilStoppedEver == Spec => []ServesUntilStopped
<1>1. LifeInv => ServesUntilStopped
  BY DEF LifeInv
<1>2. QED
  BY <1>1, LifeInvariant, PTL

================================================================================
