------------------------------ MODULE Reconciler ------------------------------
(***************************************************************************)
(* What the GitOps controller promises: it is level triggered.  Whatever   *)
(* users did, and in whatever order, as long as the controller owes an     *)
(* Application something it works on it; it stops only when the            *)
(* Application has an outcome, or is gone with everything that was made    *)
(* for it; and it touches nothing when it owes nothing.                    *)
(***************************************************************************)
CONSTANT Apps

VARIABLES
  live,     \* per Application: it exists
  report,   \* per Application: its health status
  objects,  \* per Application: there are objects made for it
  owed,     \* per Application: an event, an item or a worker is about it
  calm      \* no relist, crash or partial listing so far

vars == <<live, report, objects, owed, calm>>

Outcomes == {"Healthy", "Degraded"}

Init ==
  /\ live = [a \in Apps |-> FALSE] /\ report = [a \in Apps |-> "None"]
  /\ objects = [a \in Apps |-> FALSE] /\ owed = [a \in Apps |-> FALSE]
  /\ calm = TRUE

(* Creation, edit or deletion. *)
User(a) ==
  /\ \E l \in BOOLEAN : live' = [live EXCEPT ![a] = l]
  /\ \E r \in {report[a], "None"} : report' = [report EXCEPT ![a] = r]
  /\ owed' = [owed EXCEPT ![a] = TRUE]
  /\ UNCHANGED <<objects, calm>>

(* One step about a; o: there are more to come. *)
Work(a, o) ==
  /\ owed[a] /\ owed' = [owed EXCEPT ![a] = o]
  /\ \E r \in IF live[a] THEN {"None", "Progressing"} \cup Outcomes ELSE {report[a]} :
       report' = [report EXCEPT ![a] = r]
  /\ \E b \in BOOLEAN : objects' = [objects EXCEPT ![a] = b]
  /\ UNCHANGED <<live, calm>>
  /\ o \/ IF live[a] THEN report'[a] \in Outcomes ELSE ~ objects'[a]

(* After such trouble nothing is promised any more. *)
Trouble == ~ calm'

Next ==
  \/ \E a \in Apps : User(a) \/ \E o \in BOOLEAN : Work(a, o)
  \/ Trouble

(* A reconciliation that started is reported on. *)
Report(a) ==
  /\ calm /\ report[a] = "Progressing"
  /\ \E o \in BOOLEAN : Work(a, o)
  /\ report'[a] # "Progressing"

(* A deletion is followed by a cleanup that succeeds. *)
CleanUp(a) == calm /\ ~ live[a] /\ Work(a, FALSE)

Fairness == \A a \in Apps : WF_vars(Report(a)) /\ WF_vars(CleanUp(a))

SafeSpec == Init /\ [][Next]_vars

Spec == SafeSpec /\ Fairness
=============================================================================
