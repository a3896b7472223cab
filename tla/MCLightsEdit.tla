----------------------------- MODULE MCLightsEdit -----------------------------
(* Two lamps saved at once and a name, beside another dashboard and a read. *)
EXTENDS LightsEdit, TLC

AnyLamp == Permutations(Lamps)
=============================================================================
