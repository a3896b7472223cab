--------------------------- MODULE MCEntryReload ---------------------------
(* Small instances of EntryReload for TLC. *)
EXTENDS EntryReload, TLC

CONSTANTS m1, m2, u1

\* The operations and the unguarded reloads are interchangeable.
Symmetry == Permutations(Managers) \cup Permutations(Unguarded)

\* States that differ only in the locals of a process that is not running are the same:
\* a process sets every one of its locals before it reads it.
View ==
    <<cloud, entry, live, listening, lock, expecting, pending, seq, pc, res, token,
      owner, phase, fault, edits, failures,
      [m \in Managers |->
          IF pc[m] = "idle" THEN None
          ELSE IF pc[m] \in {"fetch", "want"} THEN <<kind[m], choice[m], snap[m]>>
          ELSE <<kind[m] = "quiet">>],
      IF phase = "heal" THEN snap[Ha] ELSE None,
      IF pc[Poll] = "idle" THEN None
      ELSE IF pc[Poll] \in {"fetch", "want"} THEN <<poll.closed, poll.pre, snap[Poll]>>
      ELSE <<poll.old, poll.wrote, poll.ok>>>>
=============================================================================
