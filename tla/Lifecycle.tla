------------------------------ MODULE Lifecycle ------------------------------
(***************************************************************************)
(* A process from its start to its end: the GitOps controller              *)
(* (gitops/cmd/run.go and Run), the example controller (main.go and Run)   *)
(* and the client-go demonstration.  The main goroutine, the goroutine     *)
(* that waits for signals, the informer and the workers share one stop     *)
(* channel and one queue; the API server may never answer.                 *)
(***************************************************************************)
EXTENDS Naturals

CONSTANTS
  Workers,    \* numWorkers of them
  MaxItems,   \* bound: items in the queue
  MaxSignals  \* bound: signals sent to the process

ASSUME BoundsAssumption == MaxItems \in Nat \ {0} /\ MaxSignals \in Nat

VARIABLES
  program,  \* which program runs
  main,     \* the call main makes next
  failed,   \* Run returned an error
  sent,     \* signals sent so far
  pending,  \* signals in the channel of signal.Notify
  handler,  \* what the signal goroutine waits for
  stopCh,   \* the stop channel is closed
  cache,    \* the informer: not started, started, or synced
  items,    \* the length of the queue
  shut,     \* the queue is shut down
  worker,   \* per worker, where it is
  exit      \* how the process ended

signalVars == <<sent, pending, handler, stopCh>>
queueVars == <<items, shut>>
mainVars == <<main, failed, exit>>
vars == <<program, mainVars, signalVars, cache, queueVars, worker>>

Controllers == {"gitops", "example"}
Calls == {"config", "list", "signals", "new", "start", "sync", "workers",
          "stop", "shutdown", "return", "get"}
ChannelSize == 2

TypeOK ==
  /\ program \in Controllers \cup {"demo"}
  /\ main \in Calls /\ failed \in BOOLEAN
  /\ sent \in 0 .. MaxSignals /\ pending \in 0 .. ChannelSize
  /\ handler \in {"none", "first", "second"} /\ stopCh \in BOOLEAN
  /\ cache \in {"cold", "started", "synced"}
  /\ items \in 0 .. MaxItems /\ shut \in BOOLEAN
  /\ worker \in [Workers -> {"none", "until", "get", "work", "ended"}]
  /\ exit \in {"no", "ok", "error", "panic", "killed"}

Init ==
  /\ program \in Controllers \cup {"demo"}
  /\ main = "config" /\ failed = FALSE
  /\ sent = 0 /\ pending = 0 /\ handler = "none" /\ stopCh = FALSE
  /\ cache = "cold" /\ items = 0 /\ shut = FALSE
  /\ worker = [w \in Workers |-> "none"]
  /\ exit = "no"

Alive == exit = "no"
At(l) == Alive /\ main = l
Goto(l) == main' = l /\ UNCHANGED <<failed, exit>>
Exit(how) == exit' = how /\ UNCHANGED <<main, failed>>

-----------------------------------------------------------------------------
(* The main goroutine, in the order of its calls.                          *)

(* No configuration, no client: an error of run, a panic of the others.    *)
Configure ==
  /\ At("config")
  /\ \/ Goto(IF program = "demo" THEN "list" ELSE "signals")
     \/ Exit(IF program = "gitops" THEN "error" ELSE "panic")
  /\ UNCHANGED <<program, signalVars, cache, queueVars, worker>>

ListNamespaces ==
  /\ At("list")
  /\ Goto("new") \/ Exit("panic")
  /\ UNCHANGED <<program, signalVars, cache, queueVars, worker>>

SetupSignalHandler ==
  /\ At("signals")
  /\ handler' = "first"
  /\ Goto("new")
  /\ UNCHANGED <<program, sent, pending, stopCh, cache, queueVars, worker>>

(* The informer is made and has its handlers before it is started.         *)
NewController ==
  /\ At("new") /\ Goto("start")
  /\ UNCHANGED <<program, signalVars, cache, queueVars, worker>>

StartInformers ==
  /\ At("start") /\ Goto("sync")
  /\ cache' = "started"
  /\ UNCHANGED <<program, signalVars, queueVars, worker>>

(* Mutant of SyncCutOff: the wait is for wait.NeverStop, as in the demo. *)
SyncNeverCutOff == FALSE

SyncCutOff == stopCh /\ program \in Controllers

(* Mutant of SyncFailed: Run of the GitOps controller goes on, too. *)
SyncFailedUnnoticed == Goto("workers")

(* The GitOps controller returns an error; the example prints and goes on. *)
SyncFailed ==
  IF program = "gitops"
  THEN main' = "shutdown" /\ failed' = TRUE /\ UNCHANGED exit
  ELSE Goto("workers")

WaitForCacheSync ==
  /\ At("sync")
  /\ \/ cache = "synced" /\ Goto(IF program = "demo" THEN "get" ELSE "workers")
     \/ SyncCutOff /\ SyncFailed
  /\ UNCHANGED <<program, signalVars, cache, queueVars, worker>>

(* Mutant of Started: the loop starts no goroutine. *)
NoneStarted(w) == UNCHANGED worker

Started(w) == worker' = [worker EXCEPT ![w] = "until"]

StartWorkers ==
  /\ At("workers")
  /\ \/ \E w \in Workers : worker[w] = "none" /\ Started(w) /\ UNCHANGED mainVars
     \/ /\ \A w \in Workers : worker[w] # "none"
        /\ Goto("stop") /\ UNCHANGED worker
  /\ UNCHANGED <<program, signalVars, cache, queueVars>>

AwaitStop ==
  /\ At("stop") /\ stopCh /\ Goto("shutdown")
  /\ UNCHANGED <<program, signalVars, cache, queueVars, worker>>

(* The deferred ShutDown.  Nobody waits for the workers. *)
ShutDown ==
  /\ At("shutdown") /\ Goto("return")
  /\ shut' = TRUE
  /\ UNCHANGED <<program, signalVars, cache, items, worker>>

Return ==
  /\ At("return") /\ Exit(IF failed THEN "error" ELSE "ok")
  /\ UNCHANGED <<program, signalVars, cache, queueVars, worker>>

(* The demonstration reads one Pod of its cache, and is done. *)
GetPod ==
  /\ At("get") /\ Exit("ok")
  /\ UNCHANGED <<program, signalVars, cache, queueVars, worker>>

Main == \/ Configure \/ ListNamespaces \/ SetupSignalHandler \/ NewController
        \/ StartInformers \/ WaitForCacheSync \/ StartWorkers \/ AwaitStop
        \/ ShutDown \/ Return \/ GetPod

-----------------------------------------------------------------------------
(* Mutant of Buffered: the channel is not limited to its size. *)
BufferedAlways == pending + 1

(* signal.Notify does not block: a signal that finds the channel full is lost. *)
Buffered == IF pending < ChannelSize THEN pending + 1 ELSE pending

(* A signal kills a process that does not catch it. *)
Signal ==
  /\ Alive /\ sent < MaxSignals
  /\ sent' = sent + 1
  /\ IF handler = "none"
     THEN Exit("killed") /\ UNCHANGED pending
     ELSE pending' = Buffered /\ UNCHANGED mainVars
  /\ UNCHANGED <<program, handler, stopCh, cache, queueVars, worker>>

(* The first signal closes the stop channel, the second ends the process. *)
HandleSignal ==
  /\ Alive /\ pending > 0
  /\ pending' = pending - 1
  /\ \/ /\ handler = "first" /\ handler' = "second"
        /\ stopCh' = TRUE
        /\ UNCHANGED mainVars
     \/ /\ handler = "second" /\ Exit("error")
        /\ UNCHANGED <<handler, stopCh>>
  /\ UNCHANGED <<program, sent, cache, queueVars, worker>>

-----------------------------------------------------------------------------
(* The informer lists, whenever the API server lets it, and calls the      *)
(* handlers: what they add after ShutDown is dropped.                      *)
Sync ==
  /\ Alive /\ cache = "started"
  /\ cache' = "synced"
  /\ UNCHANGED <<program, mainVars, signalVars, queueVars, worker>>

Add == /\ shut \/ items < MaxItems
       /\ items' = IF shut THEN items ELSE items + 1
       /\ UNCHANGED shut

Handle ==
  /\ Alive /\ cache # "cold" /\ program \in Controllers
  /\ Add
  /\ UNCHANGED <<program, mainVars, signalVars, cache, worker>>

(* Mutant of Until: the stop channel is looked at after the first run. *)
UntilAfter(w) == "get"

(* wait.Until: look at the stop channel, run worker(), wait, and again.    *)
Until(w) == IF stopCh THEN "ended" ELSE "get"

WorkerUntil(w) ==
  /\ Alive /\ worker[w] = "until"
  /\ worker' = [worker EXCEPT ![w] = Until(w)]
  /\ UNCHANGED <<program, mainVars, signalVars, cache, queueVars>>

(* Get goes on handing out items after ShutDown until none is left.        *)
GetItem(w) ==
  /\ Alive /\ worker[w] = "get"
  /\ \/ /\ items > 0
        /\ items' = items - 1
        /\ worker' = [worker EXCEPT ![w] = "work"]
     \/ /\ items = 0 /\ shut
        /\ worker' = [worker EXCEPT ![w] = "until"]
        /\ UNCHANGED items
  /\ UNCHANGED <<program, mainVars, signalVars, cache, shut>>

(* The item is done with, or is added again. *)
Process(w) ==
  /\ Alive /\ worker[w] = "work"
  /\ worker' = [worker EXCEPT ![w] = "get"]
  /\ UNCHANGED queueVars \/ Add
  /\ UNCHANGED <<program, mainVars, signalVars, cache>>

Work(w) == WorkerUntil(w) \/ GetItem(w) \/ Process(w)

Next ==
  \/ Main \/ Signal \/ HandleSignal \/ Sync \/ Handle
  \/ \E w \in Workers : Work(w)

(* The scheduler runs every goroutine but, to see what hangs on it, main;  *)
(* the API server owes nothing.                                            *)
Fairness == WF_vars(HandleSignal) /\ \A w \in Workers : WF_vars(Work(w))

MainRuns == WF_vars(Main)

Spec == Init /\ [][Next]_vars /\ Fairness

-----------------------------------------------------------------------------
(***************************************************************************)
(* "Wait for the caches to be synced before starting workers": nothing is  *)
(* reconciled, and no lister read, before the first list is complete.  The *)
(* example goes on when the wait fails, but then its workers find the stop *)
(* channel closed.                                                         *)
(***************************************************************************)
SyncedBeforeWork ==
  /\ \A w \in Workers : worker[w] = "work" => cache = "synced"
  /\ main = "get" => cache = "synced"

(***************************************************************************)
(* Run returns, and shuts its queue down, only when it was told to stop; a *)
(* worker that finds the queue shut returns for good; and the exit code    *)
(* tells an orderly end from one before the cache was filled.              *)
(***************************************************************************)
ServesUntilStopped ==
  /\ shut \/ (exit = "ok" /\ program \in Controllers) => stopCh
  /\ \A w \in Workers : worker[w] = "ended" => stopCh
  /\ exit = "ok" /\ program = "gitops" => cache = "synced"

(***************************************************************************)
(* SetupSignalHandler: one signal ends the process, even when the API      *)
(* server never answers and whatever the workers are doing; "if a second   *)
(* signal is caught, the program is terminated", even if main hangs.       *)
(***************************************************************************)
EndsOnSignal ==
  /\ MainRuns => (sent > 0 ~> ~ Alive)
  /\ sent > 1 ~> ~ Alive

(***************************************************************************)
(* Run: what the informer queues is taken by a worker, as soon as the      *)
(* cache has synced, unless the process is told to stop.                   *)
(***************************************************************************)
ItemsAreTaken == MainRuns =>
  (items > 0 /\ cache = "synced"
     ~> (\E w \in Workers : worker[w] = "work") \/ stopCh \/ ~ Alive)
=============================================================================
