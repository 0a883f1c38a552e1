---------------------------- MODULE AtomicStatus ----------------------------
(***************************************************************************)
(* What updateAppStatus (gitops/internal/controller/controller.go:346)     *)
(* promises its callers: writing a status is one step that touches nothing *)
(* but the status.  A call that returns nil has made that step, exactly    *)
(* once; a call that returns an error has made it at most once.            *)
(* GitOpsController builds on this promise, StatusUpdate keeps it.         *)
(***************************************************************************)
CONSTANTS Callers, Specs, Statuses, NoStatus

VARIABLES
  live,    \* there is an Application of the name
  spec,    \* what users write
  status,  \* what the controller writes
  call,    \* per caller: no call, an open call, or the answer it got
  want     \* per caller, the status the call is to write

vars == <<live, spec, status, call, want>>

Answers == {"ok", "error"}

Init ==
  /\ live \in BOOLEAN
  /\ spec \in Specs
  /\ status = NoStatus
  /\ call = [c \in Callers |-> "none"]
  /\ want = [c \in Callers |-> NoStatus]

(* Users: an edit leaves the status, a deletion or a creation resets it. *)
Edit ==
  /\ live /\ spec' \in Specs
  /\ UNCHANGED <<live, status, call, want>>

Replace ==
  /\ live' = ~ live
  /\ spec' \in Specs /\ status' = NoStatus
  /\ UNCHANGED <<call, want>>

Call(c, s) ==
  /\ call[c] = "none"
  /\ call' = [call EXCEPT ![c] = "open"]
  /\ want' = [want EXCEPT ![c] = s]
  /\ UNCHANGED <<live, spec, status>>

Write(c) ==
  /\ call[c] = "open" /\ live
  /\ status' = want[c]
  /\ \E answer \in Answers : call' = [call EXCEPT ![c] = answer]
  /\ UNCHANGED <<live, spec, want>>

GiveUp(c) ==
  /\ call[c] = "open"
  /\ call' = [call EXCEPT ![c] = "error"]
  /\ UNCHANGED <<live, spec, status, want>>

Return(c) ==
  /\ call[c] \in Answers
  /\ call' = [call EXCEPT ![c] = "none"]
  /\ want' = [want EXCEPT ![c] = NoStatus]
  /\ UNCHANGED <<live, spec, status>>

Next ==
  \/ Edit \/ Replace
  \/ \E c \in Callers :
       \/ \E s \in Statuses : Call(c, s)
       \/ Write(c) \/ GiveUp(c) \/ Return(c)

(* Every call is answered, and every answer is taken. *)
Fairness == \A c \in Callers :
  WF_vars(Write(c) \/ GiveUp(c)) /\ WF_vars(Return(c))

SafeSpec == Init /\ [][Next]_vars

Spec == SafeSpec /\ Fairness
=============================================================================
