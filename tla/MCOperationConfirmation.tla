----------------------- MODULE MCOperationConfirmation -----------------------
(* Finite instances of OperationConfirmation. *)
EXTENDS OperationConfirmation, TLC

CONSTANTS u1, u2

(* A fresh process lets u1 update and delete, and u2 nothing. *)
MCSeedPerms == {<<u1, "update">>, <<u1, "delete">>}
MCGrantable == {<<u2, "update">>}
MCNoGrants == {}

(* The two confirmations of a run without liveness are interchangeable. *)
IdSymmetry == Permutations(Ids)
=============================================================================
