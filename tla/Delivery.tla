------------------------------- MODULE Delivery -------------------------------
(***************************************************************************)
(* What write() of the gateway promises of acknowledgements: the echo of a *)
(* command releases the task that has waited longest for that command, and *)
(* no other; one that has given up takes no acknowledgement from those     *)
(* behind it; a connection starts with nobody waiting.  Outputs implements *)
(* it with a queue of futures per command.                                 *)
(***************************************************************************)
EXTENDS Naturals, Sequences

CONSTANTS Writes, Commands

VARIABLES
    up,       \* the socket delivers
    acks,     \* what it delivers, in order: the command each frame is the echo of, as a set
    waiting,  \* per command, the tasks that wait for its echo
    older     \* pairs of them, the older first

vars == <<up, acks, waiting, older>>

Init ==
    /\ up = TRUE /\ acks = <<>>
    /\ waiting = [c \in Commands |-> {}] /\ older = {}

\* The tasks of S wait no more.
Leave(S) ==
    /\ waiting' = [c \in Commands |-> waiting[c] \ S]
    /\ older' = {e \in older : e[1] \notin S /\ e[2] \notin S}

Oldest(c) == {w \in waiting[c] : \A v \in waiting[c] : <<v, w>> \notin older}

Publish(w, c) ==
    /\ \A d \in Commands : w \notin waiting[d]
    /\ waiting' = [waiting EXCEPT ![c] = waiting[c] \cup {w}]
    /\ older' = older \cup (waiting[c] \X {w})
    /\ UNCHANGED <<up, acks>>

\* A time-out or a cancellation.
GiveUp(w) ==
    /\ \E c \in Commands : w \in waiting[c]
    /\ Leave({w})
    /\ UNCHANGED <<up, acks>>

\* Frames arrive.
Receive ==
    /\ up /\ up' = up
    /\ \A i \in DOMAIN acks : i \in DOMAIN acks' /\ acks'[i] = acks[i]
    /\ UNCHANGED <<waiting, older>>

\* A frame is handled: an acknowledgement that somebody waits for releases the oldest of them.
Hear ==
    /\ up /\ up' = up
    /\ acks # <<>> /\ acks' = Tail(acks)
    /\ \/ (\A c \in Head(acks) : waiting[c] = {}) /\ UNCHANGED <<waiting, older>>
       \/ \E c \in Head(acks) : \E w \in Oldest(c) : Leave({w})

\* The socket is lost, its waiters are released, a new one is opened.
Drop ==
    /\ up /\ up' = FALSE
    /\ acks' = <<>>
    /\ UNCHANGED <<waiting, older>>

ReleaseAll ==
    /\ ~up
    /\ Leave(Writes)
    /\ UNCHANGED <<up, acks>>

Connect ==
    /\ ~up /\ up' = TRUE
    /\ \A c \in Commands : waiting[c] = {}
    /\ UNCHANGED <<acks, waiting, older>>

Next ==
    \/ \E w \in Writes : GiveUp(w) \/ \E c \in Commands : Publish(w, c)
    \/ Receive \/ Hear
    \/ Drop \/ ReleaseAll \/ Connect

Spec == Init /\ [][Next]_vars
=============================================================================
