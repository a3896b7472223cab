------------------------------ MODULE MCOutputs ------------------------------
(* Two lights in a room, and two commands that overlap. *)
EXTENDS Outputs, TLC

Interchangeable == Permutations(Writes)
=============================================================================
