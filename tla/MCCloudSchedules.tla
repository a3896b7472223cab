--------------------------- MODULE MCCloudSchedules ---------------------------
(* Two calls at a time, three in all. *)
EXTENDS CloudSchedules, TLC

AnyOp == Permutations(Ops)
=============================================================================
