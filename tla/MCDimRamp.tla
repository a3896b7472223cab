------------------------------ MODULE MCDimRamp ------------------------------
(* One light or two, and tasks enough for a restart before the last one has ended. *)
EXTENDS DimRamp, TLC
=============================================================================
