---------------------------- MODULE MCLightControl ----------------------------
(* A light, a slider of two or three positions and two visits of the tab. *)
EXTENDS LightControl, TLC
=============================================================================
