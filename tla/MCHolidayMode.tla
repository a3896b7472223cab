---------------------------- MODULE MCHolidayMode ----------------------------
(* Two lights, two loads of the entry. *)
EXTENDS HolidayMode, TLC
=============================================================================
