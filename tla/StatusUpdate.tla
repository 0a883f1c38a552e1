---------------------------- MODULE StatusUpdate ----------------------------
(***************************************************************************)
(* updateAppStatus step by step: a loop of Get and UpdateStatus through    *)
(* the generated client, retried while the API server answers Conflict     *)
(* because somebody else has written in between.                           *)
(***************************************************************************)
EXTENDS Naturals

CONSTANTS
  Callers,   \* the workers, each with one call at a time
  Specs,     \* values of Application.Spec
  Statuses,  \* values of Application.Status a worker writes ...
  Timed,     \* ... those with a LastSyncAt, which is Now() in seconds ...
  NoStatus,  \* ... and the one of a new Application
  Steps,     \* attempts of retry.DefaultRetry
  MaxCalls,  \* bound: calls of all workers
  MaxEdits,  \* bound: writes of users
  MaxFaults  \* bound: requests that fail, or whose answer is lost

ASSUME StatusAssumption ==
  NoStatus \notin Statuses /\ Timed \subseteq Statuses /\ Specs # {}
ASSUME StepsAssumption == Steps \in Nat \ {0}
ASSUME BoundsAssumption ==
  MaxCalls \in Nat /\ MaxEdits \in Nat /\ MaxFaults \in Nat

VARIABLES
  stored,  \* the object of the API server; rv is its resourceVersion
  pc,      \* per caller, the request it makes next, or the result of the call
  want,    \* per caller, the argument "status"
  got,     \* per caller, the resourceVersion of queryApp
  tries,   \* per caller, the attempts that ended in a conflict
  began,   \* history: the resourceVersion when the call was made ...
  met,     \* ... and the callers whose call met a fault or no Application
  spent    \* how often each bounded thing has happened

vars == <<stored, pc, want, got, tries, began, met, spent>>

Spend(k) == spent' = [spent EXCEPT ![k] = @ + 1]
CanSpend(k) ==
  spent[k] < CASE k = "call" -> MaxCalls [] k = "edit" -> MaxEdits
               [] k = "fault" -> MaxFaults

Objects == [live : BOOLEAN, rv : Nat, spec : Specs,
            status : Statuses \cup {NoStatus}]
Results == {"ok", "failed", "conflict"}

TypeOK ==
  /\ stored \in Objects
  /\ pc \in [Callers -> {"none", "get", "update"} \cup Results]
  /\ want \in [Callers -> Statuses \cup {NoStatus}]
  /\ got \in [Callers -> Nat] /\ began \in [Callers -> Nat]
  /\ tries \in [Callers -> 0 .. Steps] /\ met \subseteq Callers
  /\ \A c \in Callers : pc[c] \notin Results => tries[c] < Steps
  /\ spent \in [{"call", "edit", "fault"} -> Nat]

Init ==
  /\ stored = [live |-> TRUE, rv |-> 0, spec |-> CHOOSE s \in Specs : TRUE,
               status |-> NoStatus]
  /\ pc = [c \in Callers |-> "none"]
  /\ want = [c \in Callers |-> NoStatus]
  /\ got = [c \in Callers |-> 0]
  /\ tries = [c \in Callers |-> 0]
  /\ began = [c \in Callers |-> 0]
  /\ met = {}
  /\ spent = [k \in {"call", "edit", "fault"} |-> 0]

Goto(c, l) == pc' = [pc EXCEPT ![c] = l]

Open == {c \in Callers : pc[c] \in {"get", "update"}}

(* A request of caller c fails, or its answer is lost. *)
Fault(c) ==
  /\ CanSpend("fault") /\ Spend("fault")
  /\ met' = met \cup {c}

-----------------------------------------------------------------------------
(***************************************************************************)
(* The API server.  Every write moves the resourceVersion; one that        *)
(* changes nothing is not a write, which a status with a time of its own   *)
(* is only within the same second.  The status is a subresource: users     *)
(* cannot write it, and a PUT of it leaves the spec alone.                 *)
(***************************************************************************)
Edit ==
  /\ CanSpend("edit") /\ Spend("edit")
  /\ stored.live
  /\ \E s \in Specs \ {stored.spec} :
       stored' = [stored EXCEPT !.rv = @ + 1, !.spec = s]
  /\ UNCHANGED <<pc, want, got, tries, began, met>>

(* Deletion, or creation of an Application with the same name. *)
Replace ==
  /\ CanSpend("edit") /\ Spend("edit")
  /\ stored' = [stored EXCEPT !.live = ~ @, !.rv = @ + 1, !.status = NoStatus]
  /\ met' = met \cup Open
  /\ UNCHANGED <<pc, want, got, tries, began>>

(* Mutant of Stored: Update() instead of UpdateStatus(), and no status. *)
StoredByUpdate(c) == {stored}

(* What may be stored then. *)
Stored(c) ==
  LET moves == IF stored.status # want[c] THEN {1}
               ELSE IF want[c] \in Timed THEN {0, 1} ELSE {0}
  IN  {[stored EXCEPT !.rv = @ + m, !.status = want[c]] : m \in moves}

(* Optimistic locking: the object is still the one that was read. *)
Accepts(c) == got[c] = stored.rv

-----------------------------------------------------------------------------
Call(c, s) ==
  /\ pc[c] = "none"
  /\ CanSpend("call") /\ Spend("call")
  /\ Goto(c, "get")
  /\ want' = [want EXCEPT ![c] = s]
  /\ began' = [began EXCEPT ![c] = stored.rv]
  /\ met' = IF stored.live THEN met ELSE met \cup {c}
  /\ UNCHANGED <<stored, got, tries>>

(* Any error of Get, NotFound for one, ends the call. *)
Get(c) ==
  /\ pc[c] = "get"
  /\ \/ stored.live /\ Goto(c, "update") /\ UNCHANGED <<met, spent>>
     \/ ~ stored.live /\ Goto(c, "failed") /\ UNCHANGED <<met, spent>>
     \/ Goto(c, "failed") /\ Fault(c)
  /\ got' = [got EXCEPT ![c] = stored.rv]
  /\ UNCHANGED <<stored, want, tries, began>>

(* Mutant of Retry: queryApp is read once, before the loop. *)
RetryWithoutGet(c) ==
  /\ Goto(c, IF tries[c] + 1 < Steps THEN "update" ELSE "conflict")
  /\ tries' = [tries EXCEPT ![c] = @ + 1]
  /\ UNCHANGED got

(* Mutant of Retry: the Conflict is wrapped, and RetryOnConflict misses it. *)
RetryWrapped(c) == Goto(c, "failed") /\ UNCHANGED <<got, tries>>

(* Mutant of Retry: one attempt more than the backoff has steps. *)
RetryTooOften(c) ==
  /\ Goto(c, IF tries[c] + 1 <= Steps THEN "get" ELSE "conflict")
  /\ tries' = [tries EXCEPT ![c] = @ + 1]
  /\ got' = [got EXCEPT ![c] = 0]

(* RetryOnConflict: once more from the Get, until the steps are used up. *)
Retry(c) ==
  /\ Goto(c, IF tries[c] + 1 < Steps THEN "get" ELSE "conflict")
  /\ tries' = [tries EXCEPT ![c] = @ + 1]
  /\ got' = [got EXCEPT ![c] = 0]

UpdateStatus(c) ==
  /\ pc[c] = "update"
  /\ \/ /\ stored.live /\ Accepts(c)
        /\ stored' \in Stored(c)
        /\ \/ Goto(c, "ok") /\ UNCHANGED <<met, spent>>
           \/ Goto(c, "failed") /\ Fault(c)
        /\ UNCHANGED <<got, tries>>
     \/ /\ stored.live /\ ~ Accepts(c)
        /\ Retry(c)
        /\ UNCHANGED <<stored, met, spent>>
     \/ /\ \/ ~ stored.live /\ UNCHANGED <<met, spent>>
           \/ Fault(c)
        /\ Goto(c, "failed")
        /\ UNCHANGED <<stored, got, tries>>
  /\ UNCHANGED <<want, began>>

Return(c) ==
  /\ pc[c] \in Results
  /\ Goto(c, "none")
  /\ want' = [want EXCEPT ![c] = NoStatus]
  /\ got' = [got EXCEPT ![c] = 0]
  /\ tries' = [tries EXCEPT ![c] = 0]
  /\ began' = [began EXCEPT ![c] = 0]
  /\ met' = met \ {c}
  /\ UNCHANGED <<stored, spent>>

Next ==
  \/ Edit \/ Replace
  \/ \E c \in Callers :
       \/ \E s \in Statuses : Call(c, s)
       \/ Get(c) \/ UpdateStatus(c) \/ Return(c)

(* A worker that is in a call goes on with it. *)
Fairness == \A c \in Callers :
  /\ WF_vars(Get(c)) /\ WF_vars(UpdateStatus(c)) /\ WF_vars(Return(c))

Spec == Init /\ [][Next]_vars /\ Fairness

-----------------------------------------------------------------------------
(***************************************************************************)
(* The comment above updateAppStatus: "safely update the status", although *)
(* the object can change between Get and UpdateStatus.                     *)
(***************************************************************************)
A == INSTANCE AtomicStatus WITH
       live <- stored.live, spec <- stored.spec, status <- stored.status,
       call <- [c \in Callers |->
                  CASE pc[c] \in {"none", "ok"} -> pc[c]
                    [] pc[c] \in {"get", "update"} -> "open"
                    [] OTHER -> "error"]

(***************************************************************************)
(* Whatever users and other workers do meanwhile, the loop looks like one  *)
(* step: it answers nil only after it has written exactly this status, it  *)
(* never writes twice, it never undoes an edit, and it always ends.        *)
(***************************************************************************)
WritesAtomically == A!Spec

(***************************************************************************)
(* No call fails without a cause of its own: a Conflict reaches the caller *)
(* only when others wrote the object once for every attempt, and another   *)
(* error only when a request of this very call failed or lost its answer,  *)
(* or there was no Application at some moment of the call.  Others' writes *)
(* alone never make a call fail for another reason.                        *)
(***************************************************************************)
ErrorsHaveACause == \A c \in Callers :
  /\ pc[c] = "conflict" => stored.rv >= began[c] + Steps
  /\ pc[c] = "failed" => c \in met
=============================================================================
