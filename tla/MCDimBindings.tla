---------------------------- MODULE MCDimBindings ----------------------------
(* Two bindings that can be saved, one of them for a Plejd light, and a legacy *)
(* one without a stop trigger; two loads and three saves that overlap.         *)
EXTENDS DimBindings

CONSTANTS plejd, other, legacy
=============================================================================
