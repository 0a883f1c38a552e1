---------------------------- MODULE MissedUpdates ----------------------------
(***************************************************************************)
(* GitOpsController with a history of what a broken watch can hide from    *)
(* it.  The list that follows shows handleUdate one update for all that    *)
(* happened; an Application that was deleted and created again with the    *)
(* spec it had is not queued (controller.go:341), and keeps no health.      *)
(***************************************************************************)
EXTENDS GitOpsController

VARIABLE missed  \* Applications with lost events that no worker has seen since

allVars == <<vars, missed>>

(* Events are lost now that the spec in a list says nothing about. *)
Hidden == {a \in Apps : /\ app[a].live /\ events[a] # <<>>
                        /\ cache[a].known /\ cache[a].spec = app[a].spec}

LookedUp == {task[w].app : w \in {v \in Workers :
               pc[v] = "lookup" /\ pc'[v] = "progressing"}}

MissedInit == Init /\ missed = {}

MissedNext ==
  /\ Next
  /\ missed' = IF spent'["relist"] # spent["relist"] THEN missed \cup Hidden
                                                     ELSE missed \ LookedUp

MissedSpec == MissedInit /\ [][MissedNext]_allVars

-----------------------------------------------------------------------------
(***************************************************************************)
(* Crashes, broken watches and the tombstones whose processing ends the    *)
(* process in the middle of what other workers do: whatever comes of them, *)
(* an Application at rest has the outcome of a reconciliation.  The one    *)
(* exception are Applications whose events were lost in a broken watch and *)
(* that had got their old spec back by then.                               *)
(***************************************************************************)
SettledUnlessMissed ==
  \A a \in Apps \ missed :
    app[a].live /\ AtRest(a) => app[a].health \in {"Healthy", "Degraded"}
=============================================================================
