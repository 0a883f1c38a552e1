------------------------------- MODULE MCGitOps -------------------------------
(***************************************************************************)
(* Small instances of GitOpsController.                                    *)
(***************************************************************************)
EXTENDS GitOpsController, TLC

CONSTANTS a1, deploy, svc, v1, v1b, v2

(* v1 and v1b differ outside "spec" only, v2 differs inside it. *)
MCBodies == {v1, v1b, v2}
MCSpecPart == [b \in MCBodies |-> IF b = v2 THEN "new" ELSE "old"]

OneApp == {a1}
OneNameOf == [a \in OneApp |-> a]
OneNamespaceOf == [a \in OneApp |-> "default"]

(* A repository that declares two resources, and never changes. *)
StableSpecs == {"main"}
StableRepoOf == [s \in StableSpecs |-> "repo"]
StableManifest == [s \in StableSpecs |-> [c \in 1 .. MaxCommit |->
                     (deploy :> v1) @@ (svc :> v1)]]

(* One resource; every commit changes it. *)
MovingManifest == [s \in StableSpecs |-> [c \in 1 .. MaxCommit |->
                     IF c = 1 THEN (deploy :> v1) ELSE (deploy :> v2)]]

(* Two paths of one repository, of which the second declares one resource  *)
(* less and is changed, outside "spec", by the second commit; and a third  *)
(* spec with the first path on another branch than the default one.        *)
DefaultSpecs == {"full", "slim"}
EditedSpecs == DefaultSpecs \cup {"topic"}
EditedRepoOf == [s \in EditedSpecs |-> "repo"]
EditedManifest == [s \in EditedSpecs |-> [c \in 1 .. MaxCommit |->
                     IF s = "slim" THEN deploy :> IF c = 1 THEN v1 ELSE v1b
                                   ELSE (deploy :> v1) @@ (svc :> v1)]]

(* No trouble, and one kind of it. *)
NoTrouble == [t \in Trouble |-> 0]
OneFault == [NoTrouble EXCEPT !["fault"] = 1]
OneOfEach == [t \in Trouble |-> 1]

WorkerSymmetry == Permutations(Workers)
=============================================================================
