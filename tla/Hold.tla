--------------------------------- MODULE Hold ---------------------------------
(***************************************************************************)
(* What hold-to-dim promises for every light: while a button is held the   *)
(* light is commanded one way only, ever further and within the dimmer's   *)
(* range, and once it is released no command follows.  DimRamp implements  *)
(* it with tasks.                                                          *)
(***************************************************************************)
EXTENDS Integers

CONSTANTS
    Keys,      \* what can be dimmed
    Up, Down,  \* the directions
    None,
    DimMin, DimMax

VARIABLES
    hold,  \* the direction a light is being dimmed in, or None
    at     \* the last level commanded in this hold, or None

vars == <<hold, at>>

Init == hold = [k \in Keys |-> None] /\ at = [k \in Keys |-> None]

\* A press; it takes over from a hold that still lasts.
Press(k, d) ==
    /\ hold' = [hold EXCEPT ![k] = d]
    /\ at' = [at EXCEPT ![k] = None]

\* The button is released, or the ramp has come to its end.
Release(k) ==
    /\ hold' = [hold EXCEPT ![k] = None]
    /\ at' = [at EXCEPT ![k] = None]

\* One more command.
Advance(k) ==
    /\ \E level \in DimMin..DimMax :
          /\ \/ at[k] = None
             \/ hold[k] = Up /\ level > at[k]
             \/ hold[k] = Down /\ level < at[k]
          /\ at' = [at EXCEPT ![k] = level]
    /\ hold[k] # None
    /\ UNCHANGED hold

\* Everything is released at once (unload).
ReleaseAll == Init'

Next ==
    \/ \E k \in Keys : Release(k) \/ Advance(k) \/ \E d \in {Up, Down} : Press(k, d)
    \/ ReleaseAll

Spec == Init /\ [][Next]_vars
=============================================================================
