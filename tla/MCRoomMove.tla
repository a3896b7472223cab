----------------------------- MODULE MCRoomMove -----------------------------
(* Two devices and three rooms. *)
EXTENDS RoomMove, TLC

Alike == Permutations(Devices) \cup Permutations(Rooms)
=============================================================================
