---------------------------- MODULE MCConnection ----------------------------
(* Small instances of Connection for TLC. *)
EXTENDS Connection

CONSTANTS c1, c2, c3, s1, s2, s3, s4
=============================================================================
