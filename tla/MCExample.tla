------------------------------- MODULE MCExample -------------------------------
(***************************************************************************)
(* Small instances of ExampleController.                                   *)
(***************************************************************************)
EXTENDS ExampleController

NoTrouble == [t \in Trouble |-> 0]
OneOfEach == [t \in Trouble |-> 1]
=============================================================================
