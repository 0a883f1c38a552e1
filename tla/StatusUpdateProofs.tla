-------------------------- MODULE StatusUpdateProofs --------------------------
(***************************************************************************)
(* What StatusUpdate promises, for every number of callers, users' writes, *)
(* faults and attempts: the types, that errors have a cause, and that each *)
(* step of the loop is a step of AtomicStatus or a stutter.                *)
(***************************************************************************)
EXTENDS StatusUpdate, TLAPS

(***************************************************************************)
(* Why errors have a cause: each attempt that ended in a conflict was one  *)
(* write of somebody else, so the version a call has read is at least the  *)
(* one at its start plus the attempts it has used up.  And a call that     *)
(* finds no Application has been marked when that was deleted.             *)
(***************************************************************************)
Attempts == \A c \in Callers :
  /\ began[c] <= stored.rv
  /\ c \in Open /\ ~ stored.live => c \in met
  /\ pc[c] = "none" => tries[c] = 0
  /\ pc[c] = "get" => began[c] + tries[c] <= stored.rv
  /\ pc[c] = "update" => /\ got[c] <= stored.rv
                         /\ began[c] + tries[c] <= got[c]

StatusInv == TypeOK /\ Attempts /\ ErrorsHaveACause

-----------------------------------------------------------------------------
LEMMA StatusInit == Init => StatusInv
<1> SUFFICES ASSUME Init PROVE StatusInv
  OBVIOUS
<1> USE DEF Init
<1>1. stored \in Objects
  BY StatusAssumption DEF Objects
<1>2. TypeOK
  BY <1>1, StepsAssumption DEF TypeOK
<1>3. QED
  BY <1>2, StepsAssumption DEF StatusInv, Attempts, Open, ErrorsHaveACause, Objects

LEMMA EditStep == StatusInv /\ (Edit \/ Replace) => StatusInv'
<1> SUFFICES ASSUME StatusInv, Edit \/ Replace PROVE StatusInv'
  OBVIOUS
<1> USE DEF StatusInv, TypeOK
<1>1. stored \in Objects /\ stored.rv \in Nat
  BY DEF Objects
<1>2. stored' \in Objects /\ stored'.rv = stored.rv + 1
  <2> HIDE DEF StatusInv, TypeOK
  <2>1. CASE Edit
    <3>1. PICK s \in Specs : stored' = [stored EXCEPT !.rv = @ + 1, !.spec = s]
      BY <2>1 DEF Edit
    <3>2. stored' = [live |-> stored.live, rv |-> stored.rv + 1, spec |-> s,
                     status |-> stored.status]
      BY <1>1, <3>1 DEF Objects
    <3>3. QED
      BY <1>1, <3>2 DEF Objects
  <2>2. CASE Replace
    <3>1. stored' = [live |-> ~ stored.live, rv |-> stored.rv + 1,
                     spec |-> stored.spec, status |-> NoStatus]
      BY <1>1, <2>2 DEF Replace, Objects
    <3>2. QED
      BY <1>1, <3>1 DEF Objects
  <2>3. QED
    BY <2>1, <2>2
<1>3. /\ UNCHANGED <<pc, want, got, tries, began>>
      /\ met \subseteq met' /\ met' \subseteq Callers
      /\ stored'.live # stored.live => Open \subseteq met'
  <2>1. CASE Edit
    BY <1>1, <2>1 DEF Edit, Objects
  <2>2. CASE Replace
    BY <1>1, <2>2 DEF Replace, Open
  <2>3. QED
    BY <2>1, <2>2
<1>4. spent' = [spent EXCEPT !["edit"] = @ + 1]
  BY DEF Edit, Replace, Spend
<1>a. Open' = Open
  BY <1>3 DEF Open
<1>5. TypeOK'
  BY <1>2, <1>3, <1>4
<1>6. Attempts'
  <2> SUFFICES ASSUME NEW c \in Callers PROVE Attempts!(c)'
    BY DEF Attempts
  <2>1. tries[c] \in Nat /\ got[c] \in Nat /\ began[c] \in Nat
    BY StepsAssumption
  <2>2. c \in Open' /\ ~ stored'.live => c \in met'
    BY <1>3, <1>a DEF Attempts
  <2>3. QED
    BY <1>1, <1>2, <1>3, <2>1, <2>2 DEF Attempts
<1>7. ErrorsHaveACause'
  <2> SUFFICES ASSUME NEW c \in Callers PROVE ErrorsHaveACause!(c)'
    BY DEF ErrorsHaveACause
  <2>1. began[c] \in Nat /\ began[c] <= stored.rv
    BY DEF Attempts
  <2>2. QED
    BY <1>1, <1>2, <1>3, <2>1, StepsAssumption DEF ErrorsHaveACause
<1>8. QED
  BY <1>5, <1>6, <1>7

LEMMA CallStep ==
  ASSUME StatusInv, NEW c \in Callers, NEW s \in Statuses, Call(c, s)
  PROVE  StatusInv'
<1> USE DEF StatusInv, TypeOK, Call, Goto, Spend
<1>1. stored.rv \in Nat
  BY DEF Objects
<1>2. spent' \in [{"call", "edit", "fault"} -> Nat]
  OBVIOUS
<1>3. TypeOK'
  BY <1>1, <1>2 DEF Results
<1>4. Attempts'
  BY <1>1, StepsAssumption DEF Attempts, Open
<1>5. ErrorsHaveACause'
  BY <1>1, <1>2 DEF ErrorsHaveACause
<1>6. QED
  BY <1>3, <1>4, <1>5

LEMMA GetStep == ASSUME StatusInv, NEW c \in Callers, Get(c) PROVE StatusInv'
<1> USE DEF StatusInv, TypeOK, Get, Goto, Fault, Spend
<1>1. stored.rv \in Nat
  BY DEF Objects
<1>2. spent' \in [{"call", "edit", "fault"} -> Nat]
  OBVIOUS
<1>3. TypeOK'
  BY <1>1, <1>2 DEF Results
<1>4. Attempts'
  BY <1>1, StepsAssumption DEF Attempts, Open
<1>5. ErrorsHaveACause'
  BY <1>1, <1>2 DEF ErrorsHaveACause, Attempts, Open
<1>6. QED
  BY <1>3, <1>4, <1>5

LEMMA UpdateStep == ASSUME StatusInv, NEW c \in Callers, UpdateStatus(c) PROVE StatusInv'
<1> USE DEF StatusInv, TypeOK
<1>1. /\ stored \in Objects /\ stored.rv \in Nat /\ pc[c] = "update"
      /\ UNCHANGED <<want, began>>
  BY DEF Objects, UpdateStatus
<1>2. /\ stored' \in Objects /\ stored'.rv >= stored.rv
      /\ stored'.live = stored.live
  <2>1. \/ stored' = stored
        \/ \E rv \in {stored.rv, stored.rv + 1} :
             stored' = [live |-> stored.live, rv |-> rv, spec |-> stored.spec,
                        status |-> want[c]]
    <3>1. stored' = stored \/ stored' \in Stored(c)
      BY DEF UpdateStatus
    <3>2. CASE stored' \in Stored(c)
      <4>1. PICK m \in {0, 1} :
              stored' = [stored EXCEPT !.rv = @ + m, !.status = want[c]]
        BY <3>2 DEF Stored
      <4>2. stored' = [live |-> stored.live, rv |-> stored.rv + m,
                       spec |-> stored.spec, status |-> want[c]]
        BY <1>1, <4>1 DEF Objects
      <4>3. stored.rv + m \in {stored.rv, stored.rv + 1}
        BY <1>1
      <4>4. QED
        BY <4>2, <4>3
    <3>3. QED
      BY <3>1, <3>2
  <2>2. QED
    BY <1>1, <2>1 DEF Objects
<1>3. /\ spent' \in [{"call", "edit", "fault"} -> Nat]
      /\ met' \subseteq Callers /\ met \subseteq met'
  BY DEF UpdateStatus, Fault, Spend
<1>4. \/ /\ pc' = [pc EXCEPT ![c] = "ok"] /\ UNCHANGED <<got, tries>>
      \/ /\ pc' = [pc EXCEPT ![c] = "failed"] /\ UNCHANGED <<got, tries>>
         /\ ~ stored.live \/ c \in met'
      \/ ~ Accepts(c) /\ Retry(c)
  BY DEF UpdateStatus, Goto, Fault
<1>5. TypeOK'
  BY <1>1, <1>2, <1>3, <1>4, StepsAssumption DEF Retry, Goto, Results, Attempts
<1>6. ASSUME NEW d \in Callers PROVE Attempts!(d)' /\ ErrorsHaveACause!(d)'
  <2>1. /\ tries[d] \in Nat /\ got[d] \in Nat /\ began[d] \in Nat
        /\ stored'.rv \in Nat
    BY <1>2, StepsAssumption DEF Objects
  <2>a. d \in Open /\ ~ stored.live => d \in met'
    BY <1>3 DEF Attempts
  <2>b. d \in Open' => d \in Open
    BY <1>1, <1>4 DEF Open, Retry, Goto
  <2>2. CASE d # c
    <3>1. pc'[d] = pc[d] /\ got'[d] = got[d] /\ tries'[d] = tries[d]
      BY <1>4, <2>2 DEF Retry, Goto
    <3>2. QED
      BY <1>1, <1>2, <1>3, <2>1, <2>a, <2>b, <3>1, StepsAssumption
         DEF Attempts, ErrorsHaveACause
  <2>3. CASE d = c /\ ~ Accepts(c) /\ Retry(c)
    <3>1. /\ pc'[d] = IF tries[d] + 1 < Steps THEN "get" ELSE "conflict"
          /\ tries'[d] = tries[d] + 1
      BY <2>3 DEF Retry, Goto
    <3>2. tries[d] < Steps
      BY <1>1, <2>3 DEF Results
    <3>3. began[d] + tries[d] + 1 <= stored.rv
      BY <1>1, <2>1, <2>3 DEF Attempts, Accepts
    <3>4. QED
      BY <1>1, <1>2, <2>1, <2>a, <2>b, <3>1, <3>2, <3>3, StepsAssumption
         DEF Attempts, ErrorsHaveACause
  <2>4. CASE d = c /\ ~ (~ Accepts(c) /\ Retry(c))
    <3>1. c \in Open
      BY <1>1 DEF Open
    <3>2. \/ pc'[d] = "ok"
          \/ pc'[d] = "failed" /\ d \in met'
      BY <1>4, <2>4, <2>a, <3>1
    <3>3. QED
      BY <1>1, <1>2, <2>1, <3>2 DEF Attempts, ErrorsHaveACause, Open
  <2>5. QED
    BY <2>2, <2>3, <2>4
<1>7. QED
  BY <1>5, <1>6 DEF Attempts, ErrorsHaveACause

LEMMA ReturnStep == ASSUME StatusInv, NEW c \in Callers, Return(c) PROVE StatusInv'
<1> USE DEF StatusInv, TypeOK, Return, Goto
<1>1. stored.rv \in Nat
  BY DEF Objects
<1>2. TypeOK'
  BY StepsAssumption
<1>3. Attempts'
  BY <1>1, StepsAssumption DEF Attempts, Open
<1>4. ErrorsHaveACause'
  BY DEF ErrorsHaveACause
<1>5. QED
  BY <1>2, <1>3, <1>4

LEMMA StatusInvariant == Spec => []StatusInv
<1>1. StatusInv /\ [Next]_vars => StatusInv'
  <2> SUFFICES ASSUME StatusInv, [Next]_vars PROVE StatusInv'
    OBVIOUS
  <2>1. CASE Next
    BY <2>1, EditStep, CallStep, GetStep, UpdateStep, ReturnStep DEF Next
  <2>2. CASE UNCHANGED vars
    BY <2>2 DEF vars, StatusInv, TypeOK, Attempts, Open, ErrorsHaveACause
  <2>3. QED
    BY <2>1, <2>2
<1>2. QED
  BY <1>1, StatusInit, PTL DEF Spec

(* Every variable keeps its type; a call under way has an attempt left.     *)
THEOREM TypeCorrect == Spec => []TypeOK
<1>1. StatusInv => TypeOK
  BY DEF StatusInv
<1>2. QED
  BY <1>1, StatusInvariant, PTL

(* A Conflict is answered only after one write of somebody else for every   *)
(* attempt; another error only when a request of the same call failed, or   *)
(* the Application was gone during the call.                                *)
THEOREM ErrorsHaveACauseEver == Spec => []ErrorsHaveACause
<1>1. StatusInv => ErrorsHaveACause
  BY DEF StatusInv
<1>2. QED
  BY <1>1, StatusInvariant, PTL

LEMMA InitIsAtomic == Init => A!Init
<1>1. QED
  BY StatusAssumption DEF Init, A!Init

(* What users write is what they write there.                               *)
LEMMA UsersAreUsers == StatusInv /\ (Edit \/ Replace) => A!Next
<1> SUFFICES ASSUME StatusInv, Edit \/ Replace PROVE A!Next
  OBVIOUS
<1>1. stored \in Objects /\ UNCHANGED <<pc, want>>
  BY DEF StatusInv, TypeOK, Edit, Replace
<1>2. CASE Edit
  <2>1. PICK s \in Specs : stored' = [stored EXCEPT !.rv = @ + 1, !.spec = s]
    BY <1>2 DEF Edit
  <2>2. A!Edit
    BY <1>1, <1>2, <2>1 DEF Edit, A!Edit, Objects
  <2>3. QED
    BY <2>2 DEF A!Next
<1>3. CASE Replace
  <2>1. A!Replace
    BY <1>1, <1>3 DEF Replace, A!Replace, Objects
  <2>2. QED
    BY <2>1 DEF A!Next
<1>4. QED
  BY <1>2, <1>3

LEMMA CallersAreAtomic ==
  ASSUME StatusInv, NEW c \in Callers,
         (\E s \in Statuses : Call(c, s)) \/ Get(c) \/ UpdateStatus(c) \/ Return(c)
  PROVE  A!Next \/ UNCHANGED A!vars
<1> DEFINE Seen(l) == CASE l \in {"none", "ok"} -> l
                        [] l \in {"get", "update"} -> "open"
                        [] OTHER -> "error"
           call == [d \in Callers |->
                      CASE pc[d] \in {"none", "ok"} -> pc[d]
                        [] pc[d] \in {"get", "update"} -> "open"
                        [] OTHER -> "error"]
<1>1. /\ stored \in Objects
      /\ pc \in [Callers -> {"none", "get", "update"} \cup Results]
  BY DEF StatusInv, TypeOK
<1>2. \A l : pc' = [pc EXCEPT ![c] = l] => call' = [call EXCEPT ![c] = Seen(l)]
  BY <1>1
<1>3. call[c] = Seen(pc[c])
  OBVIOUS
<1>4. CASE \E s \in Statuses : Call(c, s)
  <2>1. PICK s \in Statuses : Call(c, s)
    BY <1>4
  <2>2. call' = [call EXCEPT ![c] = "open"] /\ call[c] = "none"
    BY <1>2, <1>3, <2>1 DEF Call, Goto
  <2>3. A!Call(c, s)
    BY <2>1, <2>2 DEF Call, A!Call
  <2>4. QED
    BY <2>3 DEF A!Next
<1>5. CASE Get(c)
  <2>1. /\ pc[c] = "get" /\ UNCHANGED <<stored, want>>
        /\ pc' = [pc EXCEPT ![c] = "update"] \/ pc' = [pc EXCEPT ![c] = "failed"]
    BY <1>5 DEF Get, Goto
  <2>2. CASE pc' = [pc EXCEPT ![c] = "update"]
    <3>1. call' = call
      BY <1>1, <2>1, <2>2
    <3>2. QED
      BY <2>1, <3>1 DEF A!vars
  <2>3. CASE pc' = [pc EXCEPT ![c] = "failed"]
    <3>1. call' = [call EXCEPT ![c] = "error"] /\ call[c] = "open"
      BY <1>2, <1>3, <2>1, <2>3
    <3>2. A!GiveUp(c)
      BY <2>1, <3>1 DEF A!GiveUp
    <3>3. QED
      BY <3>2 DEF A!Next
  <2>4. QED
    BY <2>1, <2>2, <2>3
<1>6. CASE UpdateStatus(c)
  <2>1. pc[c] = "update" /\ call[c] = "open" /\ want' = want
    BY <1>3, <1>6 DEF UpdateStatus
  <2>2. CASE /\ stored.live /\ stored' \in Stored(c)
             /\ pc' = [pc EXCEPT ![c] = "ok"] \/ pc' = [pc EXCEPT ![c] = "failed"]
    <3>1. /\ stored'.live = stored.live /\ stored'.spec = stored.spec
          /\ stored'.status = want[c]
      <4>1. PICK m \in {0, 1} :
              stored' = [stored EXCEPT !.rv = @ + m, !.status = want[c]]
        BY <2>2 DEF Stored
      <4>2. QED
        BY <1>1, <4>1 DEF Objects
    <3>2. \/ call' = [call EXCEPT ![c] = "ok"]
          \/ call' = [call EXCEPT ![c] = "error"]
      <4>1. Seen("ok") = "ok" /\ Seen("failed") = "error"
        OBVIOUS
      <4>2. QED
        BY <1>2, <2>2, <4>1
    <3>3. A!Write(c)
      BY <2>1, <2>2, <3>1, <3>2 DEF A!Write, A!Answers
    <3>4. QED
      BY <3>3 DEF A!Next
  <2>3. CASE /\ stored' = stored
             /\ pc' = [pc EXCEPT ![c] = "conflict"] \/ pc' = [pc EXCEPT ![c] = "failed"]
    <3>1. call' = [call EXCEPT ![c] = "error"]
      <4>1. Seen("conflict") = "error" /\ Seen("failed") = "error"
        OBVIOUS
      <4>2. QED
        BY <1>2, <2>3, <4>1
    <3>2. A!GiveUp(c)
      BY <2>1, <2>3, <3>1 DEF A!GiveUp
    <3>3. QED
      BY <3>2 DEF A!Next
  <2>4. CASE stored' = stored /\ pc' = [pc EXCEPT ![c] = "get"]
    <3>1. call' = call
      BY <1>1, <2>1, <2>4
    <3>2. QED
      BY <2>1, <2>4, <3>1 DEF A!vars
  <2>5. QED
    BY <1>6, <2>2, <2>3, <2>4 DEF UpdateStatus, Retry, Goto
<1>7. CASE Return(c)
  <2>1. /\ call' = [call EXCEPT ![c] = "none"] /\ call[c] \in {"ok", "error"}
    BY <1>2, <1>3, <1>7 DEF Return, Goto, Results
  <2>2. A!Return(c)
    BY <1>7, <2>1 DEF Return, A!Return, A!Answers
  <2>3. QED
    BY <2>2 DEF A!Next
<1>8. QED
  BY <1>4, <1>5, <1>6, <1>7

(***************************************************************************)
(* The safety part of WritesAtomically: whatever users, other workers and  *)
(* faults do between the requests, the loop is one write at one moment, or *)
(* none; and it leaves the spec alone.                                     *)
(***************************************************************************)
THEOREM Atomic == Spec => A!SafeSpec
<1>1. StatusInv /\ [Next]_vars => [A!Next]_A!vars
  <2> SUFFICES ASSUME StatusInv, [Next]_vars PROVE A!Next \/ UNCHANGED A!vars
    OBVIOUS
  <2>1. CASE Next
    BY <2>1, UsersAreUsers, CallersAreAtomic DEF Next
  <2>2. CASE UNCHANGED vars
    BY <2>2 DEF vars, A!vars
  <2>3. QED
    BY <2>1, <2>2
<1>2. QED
  BY <1>1, InitIsAtomic, StatusInvariant, PTL DEF Spec, A!SafeSpec

================================================================================
