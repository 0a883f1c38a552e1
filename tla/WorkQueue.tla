------------------------------ MODULE WorkQueue ------------------------------
(***************************************************************************)
(* The rate limiting work queue of client-go (v0.30.1), as the controllers *)
(* of this repository use it.  It is a library: the code under src/ only   *)
(* calls Get, Done, Forget and AddRateLimited.                             *)
(*                                                                         *)
(* Items are compared with Go's ==.  Both controllers put the POINTER they *)
(* got from the informer in the queue, not a namespace/name key, so two    *)
(* events of one object are two items.                                     *)
(***************************************************************************)
EXTENDS Naturals, Sequences

VARIABLES
  queue,        \* the items Get hands out, in order
  dirty,        \* the items that need processing
  processing,   \* the items handed out by Get and not yet Done
  waiting,      \* the items the delaying queue holds until their delay is over
  failures      \* the items the rate limiter keeps a failure count for

queueVars == <<queue, dirty, processing, waiting, failures>>

QueueInit ==
  /\ queue = <<>>
  /\ dirty = {} /\ processing = {} /\ waiting = {} /\ failures = {}

(***************************************************************************)
(* AddRateLimited(i) counts a failure and hands i to the delaying queue,   *)
(* which keeps one entry per item.                                         *)
(***************************************************************************)
AddRateLimited(i) ==
  /\ waiting' = waiting \cup {i}
  /\ failures' = failures \cup {i}
  /\ UNCHANGED <<queue, dirty, processing>>

(***************************************************************************)
(* The delay of i is over: the delaying queue calls Add(i).  An item that  *)
(* is queued already is not queued again, and one being processed is       *)
(* queued by its Done.                                                     *)
(***************************************************************************)
Ready(i) ==
  /\ i \in waiting
  /\ waiting' = waiting \ {i}
  /\ dirty' = dirty \cup {i}
  /\ queue' = IF i \in dirty \cup processing THEN queue ELSE Append(queue, i)
  /\ UNCHANGED <<processing, failures>>

(* Get() hands out the first item; callers block while there is none. *)
Get ==
  /\ queue # <<>>
  /\ queue' = Tail(queue)
  /\ dirty' = dirty \ {Head(queue)}
  /\ processing' = processing \cup {Head(queue)}
  /\ UNCHANGED <<waiting, failures>>

Done(i) ==
  /\ processing' = processing \ {i}
  /\ queue' = IF i \in dirty THEN Append(queue, i) ELSE queue
  /\ UNCHANGED dirty

(* Forget and the deferred Done: how the processing of an item succeeds. *)
Finish(i) ==
  /\ Done(i)
  /\ failures' = failures \ {i}
  /\ UNCHANGED waiting

(* A new process starts with an empty queue. *)
QueueReset ==
  /\ queue' = <<>>
  /\ dirty' = {} /\ processing' = {} /\ waiting' = {} /\ failures' = {}

(* The items that still are to be processed, or being processed. *)
Outstanding == waiting \cup dirty \cup processing

=============================================================================
