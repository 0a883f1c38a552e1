------------------------- MODULE InformerFactoryProofs -------------------------
(***************************************************************************)
(* Theorems about InformerFactory, for every number of goroutines, of      *)
(* object types and of calls.                                              *)
(***************************************************************************)
EXTENDS InformerFactory, FiniteSetTheorems, TLAPS

-----------------------------------------------------------------------------
(***************************************************************************)
(* The inductive invariant, in parts.                                      *)
(***************************************************************************)

(* Everything but the fact that the counters stay natural numbers. *)
Shape ==
  /\ lock \in Callers \cup {Nobody}
  /\ made \in [Types -> Nat] /\ startedInformers \subseteq Types
  /\ shuttingDown \in BOOLEAN /\ stopped \in BOOLEAN
  /\ runs \in [Types -> Nat] /\ running \in [Types -> Nat]
  /\ synced \subseteq Types
  /\ call \in [Callers -> Calls] /\ calls \in Nat
  /\ given \subseteq Types \X Nat

(* A goroutine inside of a method's critical section holds the mutex. *)
Inside(c) == call[c].stage \in {"enter", "make", "loop"}

Mutex ==
  /\ \A c \in Callers : Inside(c) => lock = c
  /\ lock \in Callers => Inside(lock)

(* The stages of a method are its own. *)
Stage ==
  \A c \in Callers :
    /\ call[c].method = "none" => call[c].stage = "return"
    /\ call[c].stage = "make" => call[c].method = "InformerFor"
    /\ call[c].stage = "loop" => call[c].method = "Start"
    /\ call[c].stage = "wait" => call[c].method \in {"Shutdown", "WaitForCacheSync"}

(* There is one informer per type, and everybody was given that one. *)
OneMade ==
  /\ \A t \in Types : made[t] \in {0, 1}
  /\ \A i \in given : i[2] = 1
  /\ \A c \in Callers : call[c].stage = "make" => made[call[c].type] = 0

(* Start's loop starts what is made and not started, before any Shutdown. *)
OneStarted ==
  /\ \A t \in Types : runs[t] = IF t \in startedInformers THEN 1 ELSE 0
  /\ \A t \in startedInformers : made[t] > 0
  /\ \A c \in Callers : call[c].stage = "loop" =>
       /\ ~ shuttingDown
       /\ call[c].todo \cap startedInformers = {}
       /\ \A t \in call[c].todo : made[t] > 0

(* The WaitGroup counts the informers that run. *)
Alive == {t \in startedInformers : running[t] = 1}

Counted ==
  /\ IsFiniteSet(startedInformers)
  /\ \A t \in Types : running[t] \in {0, 1} /\ (running[t] = 1 => t \in startedInformers)
  /\ wg = Cardinality(Alive)

(* A Shutdown that waits has set the flag; one that returns has waited. *)
Final ==
  \A c \in Callers : call[c].method = "Shutdown" =>
    /\ call[c].stage \in {"wait", "return"} => shuttingDown
    /\ call[c].stage = "return" => \A t \in Types : running[t] = 0

(* WaitForCacheSync has a result for, or still waits for, what was asked. *)
Polled ==
  \A c \in Callers : call[c].method = "WaitForCacheSync" =>
    /\ call[c].good \subseteq synced
    /\ call[c].asked \subseteq startedInformers
    /\ call[c].stage = "wait" => stopped \/ call[c].asked \subseteq call[c].good \cup call[c].todo
    /\ call[c].stage = "return" => stopped \/ call[c].asked \subseteq call[c].good

FactoryInv ==
  /\ Shape /\ Mutex /\ Stage /\ OneMade /\ OneStarted /\ Counted /\ Final /\ Polled

-----------------------------------------------------------------------------
(***************************************************************************)
(* Every step keeps it.                                                    *)
(***************************************************************************)

(* Outside of its calls a goroutine has locals of the right types. *)
LEMMA NoCallType == NoCall \in Calls
<1>1. (CHOOSE t \in Types : TRUE) \in Types
  BY CallersAssumption
<1>2. QED
  BY <1>1 DEF NoCall, Calls, Methods, Stages

(* A goroutine gets on in its method, perhaps with a loop before it. *)
LEMMA StageType ==
  ASSUME Shape, NEW c \in Callers, NEW s \in Stages, NEW T \in SUBSET Types,
         \/ call' = [call EXCEPT ![c].stage = s]
         \/ call' = [call EXCEPT ![c].stage = s, ![c].todo = T]
  PROVE  /\ call' \in [Callers -> Calls] /\ \A d \in Callers : d # c => call'[d] = call[d]
         /\ call'[c].stage = s /\ call'[c].method = call[c].method
         /\ call'[c].asked = call[c].asked
<1>1. call \in [Callers -> Calls] /\ call[c] \in Calls
  BY DEF Shape
<1>2. /\ [call[c] EXCEPT !.stage = s] \in Calls
      /\ [call[c] EXCEPT !.stage = s, !.todo = T] \in Calls
  BY <1>1 DEF Calls
<1>3. \/ call' = [call EXCEPT ![c] = [call[c] EXCEPT !.stage = s]]
      \/ call' = [call EXCEPT ![c] = [call[c] EXCEPT !.stage = s, !.todo = T]]
  OBVIOUS
<1>4. call'[c] \in {[call[c] EXCEPT !.stage = s], [call[c] EXCEPT !.stage = s, !.todo = T]}
  BY <1>1, <1>3
<1>5. call'[c].stage = s /\ call'[c].method = call[c].method /\ call'[c].asked = call[c].asked
  BY <1>1, <1>4 DEF Calls
<1>6. call' \in [Callers -> Calls] /\ \A d \in Callers : d # c => call'[d] = call[d]
  BY <1>1, <1>2, <1>3
<1>7. QED
  BY <1>5, <1>6

(* No informer is counted exactly when none runs. *)
LEMMA NoneAlive ==
  ASSUME Shape, Counted, wg = 0
  PROVE  \A t \in Types : running[t] = 0
<1>1. IsFiniteSet(Alive)
  BY FS_Subset DEF Counted, Alive
<1>2. Alive = {}
  BY <1>1, FS_EmptySet DEF Counted
<1>3. QED
  BY <1>2 DEF Counted, Alive

(* A call begins in front of the mutex. *)
LEMMA CallStep ==
  ASSUME FactoryInv, NEW c \in Callers, NEW m \in Methods, NEW t \in Types, Call(c, m, t)
  PROVE  FactoryInv'
<1> USE DEF FactoryInv, Call, NoCall, informerVars, runVars
<1>1. Shape'
  <2>1. call'[c] \in Calls
    <3>1. /\ m \in Methods \cup {"none"} /\ "lock" \in Stages /\ NoCall \in Calls
          /\ (IF m = "InformerFor" THEN t ELSE NoCall.type) \in Types
          /\ (IF m = "WaitForCacheSync" THEN startedInformers ELSE {}) \in SUBSET Types
      BY NoCallType DEF Shape, Calls, Stages
    <3>2. QED
      BY <3>1 DEF Shape, Calls
  <2>2. QED
    BY <2>1 DEF Shape
<1>2. Mutex'
  BY DEF Shape, Mutex, Inside, Stage
<1>3. Stage'
  BY DEF Shape, Stage, Methods
<1>4. OneMade'
  BY DEF Shape, OneMade
<1>5. OneStarted'
  BY DEF Shape, OneStarted
<1>6. Counted'
  BY DEF Counted, Alive
<1>7. Final'
  BY DEF Shape, Final
<1>8. Polled'
  BY DEF Shape, Polled, Methods
<1>9. QED
  BY <1>1, <1>2, <1>3, <1>4, <1>5, <1>6, <1>7, <1>8

(* A call returns. *)
LEMMA ReturnStep ==
  ASSUME FactoryInv, NEW c \in Callers, Return(c)
  PROVE  FactoryInv'
<1> USE DEF FactoryInv, Return, NoCall, informerVars, runVars
<1>1. Shape'
  BY NoCallType DEF Shape
<1>2. Mutex'
  BY DEF Shape, Mutex, Inside
<1>3. Stage'
  BY DEF Shape, Stage
<1>4. OneMade'
  BY DEF Shape, OneMade
<1>5. OneStarted'
  BY DEF Shape, OneStarted
<1>6. Counted'
  BY DEF Counted, Alive
<1>7. Final'
  BY DEF Shape, Final
<1>8. Polled'
  BY DEF Shape, Polled
<1>9. QED
  BY <1>1, <1>2, <1>3, <1>4, <1>5, <1>6, <1>7, <1>8

(* A method enters its critical section. *)
LEMMA LockStep ==
  ASSUME FactoryInv, NEW c \in Callers, Lock(c)
  PROVE  FactoryInv'
<1> USE DEF FactoryInv, Lock, Goto, informerVars, runVars
<1>1. Shape'
  <2>1. "enter" \in Stages
    BY DEF Stages
  <2>2. call' \in [Callers -> Calls]
    BY <2>1, StageType
  <2>3. QED
    BY <2>2 DEF Shape
<1>2. Mutex'
  BY CallersAssumption DEF Shape, Calls, Mutex, Inside
<1>3. Stage'
  BY DEF Shape, Calls, Stage
<1>4. OneMade'
  BY DEF Shape, Calls, OneMade
<1>5. OneStarted'
  BY DEF Shape, Calls, OneStarted
<1>6. Counted'
  BY DEF Counted, Alive
<1>7. Final'
  BY DEF Shape, Calls, Final
<1>8. Polled'
  BY DEF Shape, Calls, Polled
<1>9. QED
  BY <1>1, <1>2, <1>3, <1>4, <1>5, <1>6, <1>7, <1>8

(* An informer is found, or made where there is none. *)
LEMMA InformerForStep ==
  ASSUME FactoryInv, NEW c \in Callers, InformerFor(c)
  PROVE  FactoryInv'
<1> USE DEF FactoryInv, InformerFor, In, Goto, runVars
<1>1. Shape'
  <2>1. call'[c] \in Calls /\ call[c].type \in Types
    BY DEF Shape, Calls, Stages
  <2>2. QED
    BY <2>1, CallersAssumption DEF Shape
<1>2. Mutex'
  BY CallersAssumption DEF Shape, Calls, Mutex, Inside
<1>3. Stage'
  BY DEF Shape, Calls, Stage
<1>4. OneMade'
  BY DEF Shape, Calls, OneMade, Mutex, Inside
<1>5. OneStarted'
  <2>1. \A d \in Callers : call'[d].stage = "loop" => call'[d] = call[d]
    BY DEF Shape, Calls
  <2>2. \A t \in Types : made[t] > 0 => made'[t] > 0
    BY DEF Shape
  <2>3. \A d \in Callers : call[d].todo \subseteq Types
    BY DEF Shape, Calls
  <2>4. UNCHANGED <<runs, startedInformers, shuttingDown>> /\ startedInformers \subseteq Types
    BY DEF Shape
  <2>5. QED
    BY <2>1, <2>2, <2>3, <2>4 DEF OneStarted
<1>6. Counted'
  BY DEF Counted, Alive
<1>7. Final'
  <2>1. \A d \in Callers : call'[d].method = "Shutdown" => call'[d] = call[d]
    BY DEF Shape, Calls
  <2>2. running' = running /\ shuttingDown' = shuttingDown
    OBVIOUS
  <2>3. QED
    BY <2>1, <2>2 DEF Final
<1>8. Polled'
  BY DEF Shape, Calls, Polled
<1>9. QED
  BY <1>1, <1>2, <1>3, <1>4, <1>5, <1>6, <1>7, <1>8

(* The flag is set while nobody is in Start's loop. *)
LEMMA ShutdownStep ==
  ASSUME FactoryInv, NEW c \in Callers, Shutdown(c)
  PROVE  FactoryInv'
<1> USE DEF FactoryInv, In
<1>1. /\ call[c].method = "Shutdown" /\ \A d \in Callers : d # c => call'[d] = call[d]
      /\ call' \in [Callers -> Calls] /\ \E s \in {"wait", "return"} : call'[c] = [call[c] EXCEPT !.stage = s]
  <2>1. call[c].method = "Shutdown" /\ \E s \in {"wait", "return"} : call' = [call EXCEPT ![c].stage = s]
    BY DEF Shutdown, Goto
  <2>2. QED
    BY <2>1 DEF Shape, Calls, Stages
<1>2. UNCHANGED <<informerVars, runVars, synced, stopped, calls>>
  BY DEF Shutdown
<1>3. /\ shuttingDown' \in BOOLEAN /\ (shuttingDown => shuttingDown')
      /\ shuttingDown' # shuttingDown => lock = c
  BY DEF Shutdown, Mutex, Inside, Shape
<1>4. lock' \in {lock, Nobody} /\ (lock = c => lock' = Nobody) /\ (lock # c => lock' = lock)
  BY DEF Shutdown, Unlock, Mutex, Inside
<1>5. Shape'
  BY <1>1, <1>2, <1>3, <1>4 DEF Shape, informerVars, runVars
<1>6. Mutex'
  BY <1>1, <1>4, CallersAssumption DEF Mutex, Inside, Shape, Calls
<1>7. Stage'
  BY <1>1 DEF Stage, Shape, Calls
<1>8. OneMade'
  BY <1>1, <1>2 DEF OneMade, Shape, Calls, informerVars
<1>9. OneStarted'
  BY <1>1, <1>2, <1>3 DEF OneStarted, Mutex, Inside, Shape, Calls, informerVars, runVars
<1>10. Counted'
  BY <1>2 DEF Counted, Alive, informerVars, runVars
<1>11. Final'
  <2>1. call'[c].stage = "return" => \A t \in Types : running[t] = 0
    BY NoneAlive DEF Shutdown, Goto, Shape, Calls
  <2>2. shuttingDown'
    BY DEF Shutdown, Final
  <2>3. QED
    BY <1>1, <1>2, <2>1, <2>2 DEF Final, runVars
<1>12. Polled'
  BY <1>1, <1>2 DEF Polled, Shape, Calls, informerVars
<1>13. QED
  BY <1>5, <1>6, <1>7, <1>8, <1>9, <1>10, <1>11, <1>12

(* What was started is polled. *)
LEMMA WaitForCacheSyncStep ==
  ASSUME FactoryInv, NEW c \in Callers, WaitForCacheSync(c)
  PROVE  FactoryInv'
<1> USE DEF FactoryInv, In
<1>1. /\ call[c].method = "WaitForCacheSync" /\ \A d \in Callers : d # c => call'[d] = call[d]
      /\ call' \in [Callers -> Calls] /\ call'[c].stage \in {"wait", "return"}
      /\ call'[c].method = call[c].method /\ call'[c].asked = call[c].asked
  <2>1. call \in [Callers -> Calls] /\ call[c].method = "WaitForCacheSync"
    BY DEF WaitForCacheSync, Shape
  <2>2. CASE call' = [call EXCEPT ![c].stage = "wait", ![c].todo = startedInformers]
    <3>1. "wait" \in Stages /\ startedInformers \in SUBSET Types
      BY DEF Stages, Shape
    <3>2. QED
      BY <2>1, <2>2, <3>1, StageType
  <2>3. ASSUME NEW t \in call[c].todo, call[c].stage = "wait",
               \/ call' = [call EXCEPT ![c].todo = @ \ {t}, ![c].good = @ \cup {t}]
               \/ call' = [call EXCEPT ![c].todo = @ \ {t}]
        PROVE  <1>1!:
    BY <2>1, <2>3 DEF Calls
  <2>4. CASE call' = [call EXCEPT ![c].stage = "return"]
    BY <2>1, <2>4 DEF Calls, Stages
  <2>5. QED
    BY <2>2, <2>3, <2>4 DEF WaitForCacheSync, Waited, Goto
<1>2. UNCHANGED <<informerVars, shuttingDown, runVars, synced, stopped, calls>>
  BY DEF WaitForCacheSync
<1>3. lock' \in {lock, Nobody} /\ (lock = c => lock' = Nobody) /\ (lock # c => lock' = lock)
  BY DEF WaitForCacheSync, Mutex, Inside
<1>4. Shape'
  BY <1>1, <1>2, <1>3 DEF Shape, informerVars, runVars
<1>5. Mutex'
  BY <1>1, <1>3, CallersAssumption DEF Mutex, Inside, Shape
<1>6. Stage'
  BY <1>1 DEF Stage
<1>7. OneMade'
  BY <1>1, <1>2 DEF OneMade, informerVars
<1>8. OneStarted'
  BY <1>1, <1>2 DEF OneStarted, informerVars, runVars
<1>9. Counted'
  BY <1>2 DEF Counted, Alive, informerVars, runVars
<1>10. Final'
  BY <1>1, <1>2 DEF Final, runVars
<1>11. Polled'
  <2>1. /\ call'[c].good \subseteq synced
        /\ call'[c].stage = "wait" => stopped \/ call[c].asked \subseteq call'[c].good \cup call'[c].todo
        /\ call'[c].stage = "return" => stopped \/ call[c].asked \subseteq call'[c].good
    <3>1. call \in [Callers -> Calls] /\ call[c].good \subseteq synced
      BY <1>1 DEF Shape, Polled
    <3>2. CASE call' = [call EXCEPT ![c].stage = "wait", ![c].todo = startedInformers]
      BY <1>1, <3>1, <3>2 DEF Calls, Polled
    <3>3. ASSUME NEW t \in call[c].todo, call[c].stage = "wait",
                 \/ /\ t \in synced
                    /\ call' = [call EXCEPT ![c].todo = @ \ {t}, ![c].good = @ \cup {t}]
                 \/ stopped /\ call' = [call EXCEPT ![c].todo = @ \ {t}]
          PROVE  <2>1!:
      BY <1>1, <3>1, <3>3 DEF Calls, Polled
    <3>4. CASE /\ call[c].stage = "wait" /\ call[c].todo = {}
               /\ call' = [call EXCEPT ![c].stage = "return"]
      BY <1>1, <3>1, <3>4 DEF Calls, Polled
    <3>5. QED
      BY <3>2, <3>3, <3>4 DEF WaitForCacheSync, Waited, Goto
  <2>2. QED
    BY <1>1, <1>2, <2>1 DEF Polled, informerVars
<1>12. QED
  BY <1>4, <1>5, <1>6, <1>7, <1>8, <1>9, <1>10, <1>11

(* An informer has filled its cache. *)
LEMMA HasSyncedStep ==
  ASSUME FactoryInv, NEW t \in Types, HasSynced(t)
  PROVE  FactoryInv'
<1> USE DEF FactoryInv, HasSynced, informerVars, runVars
<1>1. Shape'
  BY DEF Shape
<1>2. Mutex'
  BY DEF Mutex, Inside
<1>3. Stage'
  BY DEF Stage
<1>4. OneMade'
  BY DEF OneMade
<1>5. OneStarted'
  BY DEF OneStarted
<1>6. Counted'
  BY DEF Counted, Alive
<1>7. Final'
  BY DEF Final
<1>8. Polled'
  BY DEF Polled
<1>9. QED
  BY <1>1, <1>2, <1>3, <1>4, <1>5, <1>6, <1>7, <1>8

(* An informer ends, and is no longer counted. *)
LEMMA RunReturnsStep ==
  ASSUME FactoryInv, NEW t \in Types, RunReturns(t)
  PROVE  FactoryInv'
<1> USE DEF FactoryInv, RunReturns, informerVars
<1>1. Shape'
  BY DEF Shape
<1>2. Mutex'
  BY DEF Mutex, Inside
<1>3. Stage'
  BY DEF Stage
<1>4. OneMade'
  BY DEF OneMade
<1>5. OneStarted'
  BY DEF OneStarted
<1>6. Counted'
  <2>1. t \in Alive /\ Alive' = Alive \ {t}
    BY DEF Shape, Counted, Alive
  <2>2. IsFiniteSet(Alive)
    BY FS_Subset DEF Counted, Alive
  <2>3. wg' = Cardinality(Alive')
    BY <2>1, <2>2, FS_RemoveElement DEF Counted
  <2>4. QED
    BY <2>3 DEF Shape, Counted
<1>7. Final'
  BY DEF Final, Shape, Counted
<1>8. Polled'
  BY DEF Polled
<1>9. QED
  BY <1>1, <1>2, <1>3, <1>4, <1>5, <1>6, <1>7, <1>8

(* The stop channel is closed. *)
LEMMA CloseStopChStep ==
  ASSUME FactoryInv, CloseStopCh
  PROVE  FactoryInv'
<1> USE DEF FactoryInv, CloseStopCh, informerVars, runVars
<1>1. Shape'
  BY DEF Shape
<1>2. Mutex'
  BY DEF Mutex, Inside
<1>3. Stage'
  BY DEF Stage
<1>4. OneMade'
  BY DEF OneMade
<1>5. OneStarted'
  BY DEF OneStarted
<1>6. Counted'
  BY DEF Counted, Alive
<1>7. Final'
  BY DEF Final
<1>8. Polled'
  BY DEF Polled
<1>9. QED
  BY <1>1, <1>2, <1>3, <1>4, <1>5, <1>6, <1>7, <1>8

(* Start's loop starts an informer that has not been started. *)
LEMMA StartStep ==
  ASSUME FactoryInv, NEW c \in Callers, Start(c)
  PROVE  FactoryInv'
<1> USE DEF FactoryInv, In
<1>1. /\ call[c].method = "Start" /\ \A d \in Callers : d # c => call'[d] = call[d]
      /\ call' \in [Callers -> Calls] /\ call'[c].stage \in {"loop", "return"}
      /\ call'[c].method = call[c].method
  <2>1. call \in [Callers -> Calls] /\ call[c].method = "Start"
    BY DEF Start, Shape
  <2>2. CASE call' = [call EXCEPT ![c].stage = "loop", ![c].todo = ToStart]
    <3>1. "loop" \in Stages /\ ToStart \in SUBSET Types
      BY DEF Stages, ToStart
    <3>2. QED
      BY <2>1, <2>2, <3>1, StageType
  <2>3. CASE call' = [call EXCEPT ![c].stage = "return"]
    BY <2>1, <2>3 DEF Calls, Stages
  <2>4. ASSUME NEW t \in call[c].todo, call[c].stage = "loop",
               call' = [call EXCEPT ![c].todo = @ \ {t}]
        PROVE  <1>1!:
    BY <2>1, <2>4 DEF Calls
  <2>5. QED
    BY <2>2, <2>3, <2>4 DEF Start, Goto
<1>2. UNCHANGED <<made, given, shuttingDown, synced, stopped, calls>>
  BY DEF Start, informerVars
<1>3. /\ lock = c /\ (call'[c].stage = "loop" => lock' = c)
      /\ call'[c].stage = "return" => lock' = Nobody
  BY DEF Start, Goto, Mutex, Inside, Shape, Calls
<1>4. Mutex'
  BY <1>1, <1>3, CallersAssumption DEF Mutex, Inside
<1>5. Stage'
  BY <1>1 DEF Stage
<1>6. OneMade'
  BY <1>1, <1>2 DEF OneMade
<1>7. CASE UNCHANGED <<startedInformers, runs, running, wg>>
  <2>1. Shape'
    BY <1>1, <1>2, <1>3, <1>7 DEF Shape
  <2>2. OneStarted'
    <3>1. call'[c].stage = "loop" =>
            /\ ~ shuttingDown
            /\ call'[c].todo \cap startedInformers = {}
            /\ \A t \in call'[c].todo : made[t] > 0
      BY <1>7 DEF Start, MayStart, ToStart, Spawn, Goto, Shape, Calls, OneStarted
    <3>2. QED
      BY <1>1, <1>2, <1>7, <3>1 DEF OneStarted
  <2>3. Counted'
    BY <1>7 DEF Counted, Alive
  <2>4. Final' /\ Polled'
    BY <1>1, <1>2, <1>7 DEF Final, Polled
  <2>5. QED
    BY <1>4, <1>5, <1>6, <2>1, <2>2, <2>3, <2>4
<1>8. ASSUME NEW t \in call[c].todo, call[c].stage = "loop", Spawn(t),
             startedInformers' = startedInformers \cup {t},
             call' = [call EXCEPT ![c].todo = @ \ {t}], lock' = lock
      PROVE  FactoryInv'
  <2>1. t \in Types /\ made[t] > 0 /\ t \notin startedInformers
    BY <1>8 DEF Shape, Calls, OneStarted
  <2>2. runs[t] = 0 /\ running[t] = 0
    BY <2>1 DEF OneStarted, Counted
  <2>3. Shape'
    BY <1>1, <1>2, <1>8, <2>1 DEF Spawn, Shape
  <2>4. OneStarted'
    <3>1. \A d \in Callers : d # c => call[d].stage # "loop"
      BY <1>8 DEF Mutex, Inside
    <3>2. /\ ~ shuttingDown /\ call'[c].todo \cap startedInformers' = {}
          /\ \A u \in call'[c].todo : made[u] > 0
      BY <1>8 DEF Shape, Calls, OneStarted
    <3>3. runs' = [runs EXCEPT ![t] = 1]
      BY <1>8, <2>2 DEF Spawn
    <3>4. QED
      BY <1>1, <1>2, <1>8, <2>1, <3>1, <3>2, <3>3 DEF OneStarted, Shape
  <2>5. Counted'
    <3>1. Alive' = Alive \cup {t} /\ t \notin Alive /\ running' = [running EXCEPT ![t] = 1]
      BY <1>8, <2>1, <2>2 DEF Spawn, Shape, Alive, Counted
    <3>2. IsFiniteSet(Alive) /\ IsFiniteSet(startedInformers')
      BY <1>8, FS_Subset, FS_AddElement DEF Counted, Alive
    <3>3. wg' = Cardinality(Alive')
      BY <1>8, <3>1, <3>2, FS_AddElement DEF Counted, Spawn
    <3>4. QED
      BY <1>8, <2>1, <3>1, <3>2, <3>3 DEF Counted, Shape
  <2>6. Final'
    <3>1. ~ shuttingDown
      BY <1>8 DEF OneStarted
    <3>2. QED
      BY <1>1, <1>2, <3>1 DEF Final
  <2>7. Polled'
    BY <1>1, <1>2, <1>8 DEF Polled
  <2>8. QED
    BY <1>4, <1>5, <1>6, <2>3, <2>4, <2>5, <2>6, <2>7
<1>9. QED
  BY <1>7, <1>8 DEF Start, informerVars, runVars

(* Every step of the factory, its callers and its informers. *)
LEMMA FactoryNext == FactoryInv /\ [Next]_vars => FactoryInv'
<1> SUFFICES ASSUME FactoryInv, [Next]_vars PROVE FactoryInv'
  OBVIOUS
<1>1. ASSUME NEW c \in Callers, NEW m \in Methods, NEW t \in Types, Call(c, m, t)
      PROVE  FactoryInv'
  BY <1>1, CallStep
<1>2. ASSUME NEW c \in Callers, Step(c)
      PROVE  FactoryInv'
  BY <1>2, LockStep, InformerForStep, StartStep, ShutdownStep, WaitForCacheSyncStep,
     ReturnStep DEF Step
<1>3. ASSUME NEW t \in Types, HasSynced(t) \/ RunReturns(t)
      PROVE  FactoryInv'
  BY <1>3, HasSyncedStep, RunReturnsStep
<1>4. CASE CloseStopCh
  BY <1>4, CloseStopChStep
<1>5. CASE UNCHANGED vars
  BY <1>5 DEF FactoryInv, Shape, Mutex, Inside, Stage, OneMade, OneStarted, Counted,
     Alive, Final, Polled, vars, informerVars, runVars
<1>6. QED
  BY <1>1, <1>2, <1>3, <1>4, <1>5 DEF Next

(* A new factory. *)
LEMMA FactoryInit == Init => FactoryInv
<1> SUFFICES ASSUME Init PROVE FactoryInv
  OBVIOUS
<1>1. Shape
  BY NoCallType DEF Init, Shape
<1>2. Counted
  <2>1. Alive = {}
    BY DEF Init, Alive
  <2>2. QED
    BY <2>1, FS_EmptySet DEF Init, Counted
<1>3. Mutex /\ Stage /\ OneMade /\ OneStarted /\ Final /\ Polled
  BY CallersAssumption
  DEF Init, NoCall, Mutex, Inside, Stage, OneMade, OneStarted, Final, Polled
<1>4. QED
  BY <1>1, <1>2, <1>3 DEF FactoryInv

(* The invariant holds in every behaviour. *)
LEMMA FactoryInvariant == Spec => []FactoryInv
BY FactoryInit, FactoryNext, PTL DEF Spec

(* The WaitGroup's counter never becomes negative: wg.Done matches wg.Add. *)
THEOREM TypeCorrect == Spec => []TypeOK
<1>1. FactoryInv => TypeOK
  <2> SUFFICES ASSUME FactoryInv PROVE TypeOK
    OBVIOUS
  <2>1. IsFiniteSet(Alive)
    BY FS_Subset DEF FactoryInv, Counted, Alive
  <2>2. wg \in Nat
    BY <2>1, FS_CardinalityType DEF FactoryInv, Counted
  <2>3. QED
    BY <2>2 DEF FactoryInv, Shape, TypeOK
<1>2. QED
  BY <1>1, FactoryInvariant, PTL

(* However InformerFor and Start are called, all callers are given the one  *)
(* informer of a type, and one goroutine runs it.                           *)
THEOREM SharedAndRunOnceEver == Spec => []SharedAndRunOnce
<1>1. FactoryInv => SharedAndRunOnce
  BY DEF FactoryInv, Shape, OneMade, OneStarted, SharedAndRunOnce
<1>2. QED
  BY <1>1, FactoryInvariant, PTL

(* A Shutdown that returns leaves no informer running, and none will run.   *)
THEOREM ShutdownWaitsEver == Spec => []ShutdownWaits
<1>1. FactoryInv => ShutdownWaits
  BY DEF FactoryInv, Final, ShutdownWaits, In
<1>2. QED
  BY <1>1, FactoryInvariant, PTL

(* Once a Shutdown was called no step starts an informer, not even one of a *)
(* Start that was called before it.                                         *)
THEOREM ShutdownIsFinalEver == Spec => ShutdownIsFinal
<1>1. FactoryInv /\ [Next]_vars =>
        [shuttingDown => \A t \in Types : running'[t] <= running[t]]_vars
  <2> SUFFICES ASSUME FactoryInv, Next, shuttingDown, NEW t \in Types
               PROVE  running'[t] <= running[t]
    OBVIOUS
  <2>1. running \in [Types -> Nat] /\ \A c \in Callers : call[c].stage # "loop"
    BY DEF FactoryInv, Shape, OneStarted
  <2>2. ASSUME NEW c \in Callers, Step(c) PROVE running' = running
    BY <2>1, <2>2 DEF Step, Lock, InformerFor, Start, Shutdown, WaitForCacheSync,
       Return, In, runVars
  <2>3. ASSUME NEW u \in Types, RunReturns(u) PROVE running'[t] <= running[t]
    BY <2>1, <2>3 DEF RunReturns
  <2>4. ASSUME NEW u \in Types, HasSynced(u) PROVE running' = running
    BY <2>4 DEF HasSynced, runVars
  <2>5. ASSUME NEW c \in Callers, NEW m \in Methods, NEW u \in Types, Call(c, m, u)
        PROVE  running' = running
    BY <2>5 DEF Call, runVars
  <2>6. ASSUME running' = running PROVE running'[t] <= running[t]
    BY <2>1, <2>6
  <2>7. CASE CloseStopCh
    BY <2>6, <2>7 DEF CloseStopCh, runVars
  <2>8. CASE \E c \in Callers : \/ \E m \in Methods, u \in Types : Call(c, m, u)
                               \/ Step(c)
    BY <2>2, <2>5, <2>6, <2>8
  <2>9. CASE \E u \in Types : HasSynced(u) \/ RunReturns(u)
    BY <2>3, <2>4, <2>6, <2>9
  <2>10. QED
    BY <2>7, <2>8, <2>9 DEF Next
<1>2. QED
  BY <1>1, FactoryInvariant, PTL DEF Spec, ShutdownIsFinal

(* WaitForCacheSync reports on all that was started when it was called.     *)
THEOREM SyncIsCompleteEver == Spec => []SyncIsComplete
<1>1. FactoryInv => SyncIsComplete
  BY DEF FactoryInv, Polled, SyncIsComplete, In
<1>2. QED
  BY <1>1, FactoryInvariant, PTL

================================================================================
