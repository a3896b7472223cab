----------------------------- MODULE DimBindings -----------------------------
(***************************************************************************)
(* Dim bindings (bindings.py, PlejdDimBindings) saved from the dashboard   *)
(* (dim_binding_ws.py), with the load at set-up and the teardown.          *)
(*                                                                         *)
(* Every load of the entry makes a manager.  A save keeps the manager it   *)
(* found and goes on after that manager was shut down, as teardown does    *)
(* not take the lock.  An action is the code between two awaits.  A        *)
(* binding is abstracted to a start and a stop trigger; one whose target   *)
(* is a single Plejd light (Native) is dimmed by the coordinator.          *)
(***************************************************************************)
EXTENDS Integers, FiniteSets

CONSTANTS
    Bindings,
    Native,     \* the bindings dimmed over plejd.start_dim
    Stopless,   \* legacy bindings without a stop trigger
    None,
    MaxLoads,   \* bound: set-ups of the entry
    MaxSaves,   \* bound: saves of the editor
    MaxTroubles \* bound: triggers, calls, reads and writes that fail

ASSUME DimBindingsAssumption ==
    /\ Native \subseteq Bindings /\ Stopless \subseteq Bindings /\ None \notin Bindings
    /\ MaxLoads \in Nat /\ MaxSaves \in Nat /\ MaxTroubles \in Nat

VARIABLES
    gen, stage, \* the latest load; "unloaded", "loading" or "loaded"
    closed,     \* the managers that were shut down
    store,      \* the bindings on disk
    listed,     \* the bindings of each manager
    live,       \* the triggers attached: of which job, for which binding, start or stop
    unsubs,     \* those each manager would detach
    ramps,      \* the ramps that run: of which load, for which binding
    job, asked, \* the loads and saves, in the order they asked for the lock of their manager
    loose,      \* ghost: ramps a failure has left without their stop trigger
    stale,      \* ghost: a save behind the manager's back, or a store it failed to read or write
    saves, troubles

entry == <<gen, stage, closed>>
triggers == <<live, unsubs>>
bounds == <<saves, troubles>>
vars == <<entry, store, listed, triggers, ramps, job, asked, loose, stale, bounds>>

Gens == 1..MaxLoads
Ids == 1..(MaxLoads + MaxSaves)
Slots == {"start", "stop"}
Ramps == Gens \X Bindings
Triggers == Ids \X Bindings \X Slots
Phases == {"unused", "waiting", "saved", "stopping", "attaching", "half", "whole", "done"}
Job == [mgr : 0..MaxLoads, kind : {"load", "save"}, list : SUBSET Bindings,
        phase : Phases, todo : SUBSET Bindings, at : Bindings \cup {None}]

Of(g) == {t \in live : job[t[1]].mgr = g}

TypeOK ==
    /\ gen \in 0..MaxLoads /\ stage \in {"unloaded", "loading", "loaded"}
    /\ closed \subseteq Gens
    /\ store \subseteq Bindings
    /\ listed \in [Gens -> SUBSET Bindings]
    /\ live \subseteq Triggers
    /\ unsubs \in [Gens -> SUBSET Triggers]
    /\ \A g \in Gens : unsubs[g] \subseteq Of(g)
    /\ ramps \subseteq Ramps /\ loose \subseteq ramps
    /\ job \in [Ids -> Job]
    /\ asked \in 0..(MaxLoads + MaxSaves)
    /\ stale \in BOOLEAN

Unused == [mgr |-> 0, kind |-> "load", list |-> {}, phase |-> "unused", todo |-> {}, at |-> None]

Init ==
    /\ gen = 0 /\ stage = "unloaded" /\ closed = {}
    /\ store \in SUBSET Bindings
    /\ listed = [g \in Gens |-> {}]
    /\ live = {} /\ unsubs = [g \in Gens |-> {}]
    /\ ramps = {} /\ loose = {}
    /\ job = [i \in Ids |-> Unused] /\ asked = 0
    /\ stale = FALSE
    /\ saves = 0 /\ troubles = 0

Trouble == troubles < MaxTroubles /\ troubles' = troubles + 1 /\ UNCHANGED saves

\* The ramps that go on; a loose one is loose while it runs.
RampsBecome(rs) == ramps' = rs /\ loose' = loose \cap rs

-----------------------------------------------------------------------------
(* The lock: the jobs of a manager run in the order they asked for it. *)

Asks(g, kind, list) ==
    /\ asked' = asked + 1
    /\ job' = [job EXCEPT ![asked + 1] = [mgr |-> g, kind |-> kind, list |-> list,
                                          phase |-> "waiting", todo |-> {}, at |-> None]]

At(i, place) == job[i].phase = place
Under(i) == job[i].phase \notin {"unused", "done"}

\* Mutant: overlapping saves interleave.
HasLockAnyway(i) == Under(i)

HasLock(i) == Under(i) /\ \A j \in 1..(i - 1) : job[j].mgr = job[i].mgr => ~Under(j)

Goes(i, place, left) == job' = [job EXCEPT ![i].phase = place, ![i].todo = left]

-----------------------------------------------------------------------------
(* The entry. *)

SetUp ==
    /\ stage = "unloaded" /\ gen < MaxLoads
    /\ gen' = gen + 1 /\ stage' = "loading"
    /\ Asks(gen + 1, "load", {})
    /\ UNCHANGED <<closed, store, listed, triggers, ramps, loose, stale, bounds>>

\* shutdown(), which does not take the lock; the coordinator has stopped its own ramps.
Unload ==
    /\ stage = "loaded"
    /\ stage' = "unloaded" /\ closed' = closed \cup {gen}
    /\ live' = live \ unsubs[gen] /\ unsubs' = [unsubs EXCEPT ![gen] = {}]
    /\ RampsBecome({r \in ramps : r[1] # gen})
    /\ UNCHANGED <<gen, store, listed, job, asked, stale, bounds>>

\* ws_save: a list with a stopless binding is rejected before anything happens.
Save(list) ==
    /\ stage = "loaded"
    /\ list \cap Stopless = {}
    /\ saves < MaxSaves /\ saves' = saves + 1
    /\ Asks(gen, "save", list)
    /\ UNCHANGED <<entry, store, listed, triggers, ramps, loose, stale, troubles>>

-----------------------------------------------------------------------------
(* A job, under its manager's lock. *)

\* The manager is published once the load is over, whether or not it went well.
Publish(i) == stage' = IF job[i].kind = "load" THEN "loaded" ELSE stage

Read(i) ==
    /\ HasLock(i) /\ At(i, "waiting") /\ job[i].kind = "load"
    /\ listed' = [listed EXCEPT ![job[i].mgr] = store]
    /\ Goes(i, "attaching", store)
    /\ stale' = FALSE
    /\ UNCHANGED <<entry, store, triggers, ramps, asked, loose, bounds>>

\* A store that cannot be read: set-up goes on with an empty manager.
ReadFails(i) ==
    /\ HasLock(i) /\ At(i, "waiting") /\ job[i].kind = "load"
    /\ Trouble
    /\ Goes(i, "done", {}) /\ Publish(i)
    /\ stale' = TRUE
    /\ UNCHANGED <<gen, closed, store, listed, triggers, ramps, asked, loose>>

\* Store.async_save has written, whatever became of the manager meanwhile.
Write(i) ==
    /\ HasLock(i) /\ At(i, "waiting") /\ job[i].kind = "save"
    /\ store' = job[i].list
    /\ Goes(i, "saved", {})
    /\ stale' = (job[i].mgr \in closed)
    /\ UNCHANGED <<entry, listed, triggers, ramps, asked, loose, bounds>>

\* HA's Store logs a write that fails and drops it: the save goes on all the same.
WriteFails(i) ==
    /\ HasLock(i) /\ At(i, "waiting") /\ job[i].kind = "save"
    /\ Trouble
    /\ Goes(i, "saved", {})
    /\ stale' = (stale \/ job[i].mgr \notin closed)
    /\ UNCHANGED <<entry, store, listed, triggers, ramps, asked, loose>>

\* Mutant: the list of what to detach is not reset.
SwapKeepsUnsubs(i) ==
    /\ HasLock(i) /\ At(i, "saved")
    /\ LET g == job[i].mgr
       IN  /\ listed' = [listed EXCEPT ![g] = job[i].list]
           /\ live' = live \ unsubs[g] /\ UNCHANGED unsubs
           /\ RampsBecome({r \in ramps : r[1] # g \/ r[2] \in Native})
           /\ Goes(i, "stopping", listed[g] \cap Native)
    /\ UNCHANGED <<entry, store, asked, stale, bounds>>

\* Mutant: the generic ramps of the bindings that are replaced go on.
SwapLetsRun(i) ==
    /\ HasLock(i) /\ At(i, "saved")
    /\ LET g == job[i].mgr
       IN  /\ listed' = [listed EXCEPT ![g] = job[i].list]
           /\ live' = live \ unsubs[g] /\ unsubs' = [unsubs EXCEPT ![g] = {}]
           /\ Goes(i, "stopping", listed[g] \cap Native)
    /\ UNCHANGED <<entry, store, ramps, loose, asked, stale, bounds>>

\* The new list, without the old triggers and the generic ramps they may have started.
Swap(i) ==
    /\ HasLock(i) /\ At(i, "saved")
    /\ LET g == job[i].mgr
       IN  /\ listed' = [listed EXCEPT ![g] = job[i].list]
           /\ live' = live \ unsubs[g] /\ unsubs' = [unsubs EXCEPT ![g] = {}]
           /\ RampsBecome({r \in ramps : r[1] # g \/ r[2] \in Native})
           /\ Goes(i, "stopping", listed[g] \cap Native)
    /\ UNCHANGED <<entry, store, asked, stale, bounds>>

\* plejd.stop_dim for a light of the previous bindings: it reaches the coordinator there is.
StopNative(i) ==
    /\ HasLock(i) /\ At(i, "stopping")
    /\ \E b \in job[i].todo :
          /\ Goes(i, "stopping", job[i].todo \ {b})
          /\ RampsBecome(ramps \ {<<gen, b>>})
    /\ UNCHANGED <<entry, store, listed, triggers, asked, stale, bounds>>

\* The call raises: only a warning.
StopNativeFails(i) ==
    /\ HasLock(i) /\ At(i, "stopping")
    /\ Trouble
    /\ \E b \in job[i].todo :
          /\ Goes(i, "stopping", job[i].todo \ {b})
          /\ loose' = loose \cup ({<<gen, b>>} \cap ramps)
    /\ UNCHANGED <<entry, store, listed, triggers, ramps, asked, stale>>

\* Past the teardown, nothing is attached.
Attach(i) ==
    /\ HasLock(i) /\ At(i, "stopping") /\ job[i].todo = {}
    /\ IF job[i].mgr \in closed THEN Goes(i, "done", {}) ELSE Goes(i, "attaching", job[i].list)
    /\ UNCHANGED <<entry, store, listed, triggers, ramps, asked, loose, stale, bounds>>

-----------------------------------------------------------------------------
(* _attach: the triggers of one binding after the other. *)

Places(i, place, b, left) ==
    job' = [job EXCEPT ![i].phase = place, ![i].at = b, ![i].todo = left]

\* A legacy binding without a stop trigger is skipped, and so is one whose first trigger fails.
Skip(i) ==
    /\ HasLock(i) /\ At(i, "attaching")
    /\ \E b \in job[i].todo :
          /\ Goes(i, "attaching", job[i].todo \ {b})
          /\ IF b \in Stopless THEN UNCHANGED bounds ELSE Trouble
    /\ UNCHANGED <<entry, store, listed, triggers, ramps, asked, loose, stale>>

AttachStart(i) ==
    /\ HasLock(i) /\ At(i, "attaching")
    /\ \E b \in job[i].todo \ Stopless :
          /\ live' = live \cup {<<i, b, "start">>}
          /\ Places(i, "half", b, job[i].todo \ {b})
    /\ UNCHANGED <<entry, store, listed, unsubs, ramps, asked, loose, stale, bounds>>

\* Further triggers (presses) may follow the stop trigger.
AttachStop(i) ==
    /\ HasLock(i) /\ At(i, "half")
    /\ live' = live \cup {<<i, job[i].at, "stop">>}
    /\ Goes(i, "whole", job[i].todo)
    /\ UNCHANGED <<entry, store, listed, unsubs, ramps, asked, loose, stale, bounds>>

\* Once all the triggers of a binding are attached, they are the manager's.
Commit(i) ==
    /\ HasLock(i) /\ At(i, "whole")
    /\ unsubs' = [unsubs EXCEPT ![job[i].mgr] = @ \cup {<<i, job[i].at, s>> : s \in Slots}]
    /\ Places(i, "attaching", None, job[i].todo)
    /\ UNCHANGED <<entry, store, listed, live, ramps, asked, loose, stale, bounds>>

\* A trigger that cannot be attached takes those of its binding with it, but not a ramp one of
\* them has started.
Rollback(i) ==
    /\ HasLock(i) /\ (At(i, "half") \/ At(i, "whole"))
    /\ Trouble
    /\ live' = live \ {<<i, job[i].at, s>> : s \in Slots}
    /\ loose' = loose \cup ({<<job[i].mgr, job[i].at>>} \cap ramps)
    /\ Places(i, "attaching", None, job[i].todo)
    /\ UNCHANGED <<entry, store, listed, unsubs, ramps, asked, stale>>

\* Mutant: an unload that raced the save leaves its triggers attached.
FinishLeaves(i) ==
    /\ HasLock(i) /\ At(i, "attaching") /\ job[i].todo = {}
    /\ Goes(i, "done", {}) /\ Publish(i)
    /\ UNCHANGED <<gen, closed, store, listed, triggers, ramps, asked, loose, stale, bounds>>

\* The last check of a save: the manager was shut down meanwhile.
Finish(i) ==
    /\ HasLock(i) /\ At(i, "attaching") /\ job[i].todo = {}
    /\ LET g == job[i].mgr
       IN  IF g \in closed
           THEN live' = live \ unsubs[g] /\ unsubs' = [unsubs EXCEPT ![g] = {}]
           ELSE UNCHANGED triggers
    /\ Goes(i, "done", {}) /\ Publish(i)
    /\ UNCHANGED <<gen, closed, store, listed, ramps, asked, loose, stale, bounds>>

-----------------------------------------------------------------------------
(* The remote. *)

\* A start trigger fires; one of a manager that was shut down does nothing.
Press(t) ==
    /\ t[3] = "start"
    /\ LET g == job[t[1]].mgr
       IN  ramps' = IF g \in closed THEN ramps ELSE ramps \cup {<<g, t[2]>>}
    /\ UNCHANGED <<entry, store, listed, triggers, job, asked, loose, stale, bounds>>

\* A stop trigger fires: plejd.stop_dim, or the manager's own ramp.
Release(t) ==
    /\ t[3] = "stop"
    /\ LET g == IF t[2] \in Native THEN gen ELSE job[t[1]].mgr
       IN  RampsBecome(ramps \ {<<g, t[2]>>})
    /\ UNCHANGED <<entry, store, listed, triggers, job, asked, stale, bounds>>

\* A ramp reaches its bound (DIM_MAX_DURATION).
RampEnds(r) ==
    /\ RampsBecome(ramps \ {r})
    /\ UNCHANGED <<entry, store, listed, triggers, job, asked, stale, bounds>>

Work(i) ==
    \/ Read(i) \/ ReadFails(i) \/ Write(i) \/ WriteFails(i) \/ Swap(i)
    \/ StopNative(i) \/ StopNativeFails(i) \/ Attach(i)
    \/ Skip(i) \/ AttachStart(i) \/ AttachStop(i) \/ Commit(i) \/ Rollback(i) \/ Finish(i)

Next ==
    \/ SetUp \/ Unload \/ \E list \in SUBSET Bindings : Save(list)
    \/ \E i \in Ids : Work(i)
    \/ \E t \in live : Press(t) \/ Release(t)
    \/ \E r \in ramps : RampEnds(r)

Spec == Init /\ [][Next]_vars

-----------------------------------------------------------------------------
(* Properties. *)

\* Past the teardown no ramp of the manager runs, and once the saves that raced it are over no
\* trigger of it is left (async_replace, shutdown).
QuietAfterTeardown == \A g \in closed :
    /\ \A r \in ramps : r[1] # g
    /\ (\A i \in Ids : job[i].mgr = g => ~Under(i)) => Of(g) = {}

\* What the editor lists is what the store holds and what is attached: between the saves, every
\* trigger belongs to a listed binding and is there once, a start never without its stop.  (The
\* store is another one when a save of a manager that was shut down has written it behind the new
\* one, or when the store failed: durability is best-effort.)
SavedIsLive == stage = "loaded" /\ (\A i \in Ids : job[i].mgr = gen => ~Under(i)) =>
    /\ stale \/ listed[gen] = store
    /\ \A t \in Of(gen) :
          /\ t[2] \in listed[gen] \ Stopless
          /\ <<t[1], t[2], "stop">> \in live
          /\ \A u \in Of(gen) : u[2] = t[2] /\ u[3] = t[3] => u = t

Stoppable(r) ==
    \/ r \in loose
    \/ \E t \in Of(r[1]) : t[2] = r[2] /\ t[3] = "stop"
    \/ \E i \in Ids :
          /\ job[i].mgr = r[1]
          /\ (At(i, "stopping") /\ r[2] \in job[i].todo) \/ (At(i, "half") /\ r[2] = job[i].at)

\* A ramp that runs has its stop trigger, unless a save is replacing the binding or attaching it,
\* or a failure has left it loose (_attach, async_replace).
CanBeStopped == \A r \in ramps : Stoppable(r)

-----------------------------------------------------------------------------
(* The inductive invariant behind the safety properties. *)

Active == {"attaching", "half", "whole"}
InOrder(i) == i <= asked

\* The managers but the latest were shut down, and a load under way is that of the latest.
EntryInv ==
    /\ asked = gen + saves /\ saves \in 0..MaxSaves
    /\ stage # "unloaded" => gen \in Gens
    /\ closed = 1..(IF stage = "unloaded" THEN gen ELSE gen - 1)

\* Jobs are asked for in order, the load of a manager first.
JobInv == \A i \in Ids :
    /\ ~InOrder(i) => job[i] = Unused
    /\ InOrder(i) => job[i].phase # "unused" /\ job[i].mgr \in 1..gen
    /\ InOrder(i) /\ job[i].kind = "load" =>
          /\ Under(i) => stage = "loading" /\ job[i].mgr = gen
          /\ \A j \in Ids : InOrder(j) /\ job[j].mgr = job[i].mgr => i <= j

\* Of a manager's jobs one at most is past the lock.
LockInv == \A i, j \in Ids :
    i < j /\ job[i].mgr = job[j].mgr /\ Under(i) /\ Under(j) => At(j, "waiting")

\* What a job attaches is listed and not attached yet.
AttachOK(i) == LET g == job[i].mgr IN
    /\ At(i, "stopping") => listed[g] = job[i].list
    /\ job[i].phase \in Active =>
          /\ job[i].todo \subseteq listed[g]
          /\ \A b \in job[i].todo, s \in Slots : <<i, b, s>> \notin live
    /\ job[i].phase \in {"half", "whole"} =>
          /\ job[i].at \in listed[g] \ Stopless /\ job[i].at \notin job[i].todo
          /\ \A s \in Slots : <<i, job[i].at, s>> \notin unsubs[g]
          /\ <<i, job[i].at, "start">> \in live

AttachInv == \A i \in Ids : AttachOK(i)

\* A trigger is the manager's or is being attached, by the last job of its manager, and one of a
\* manager that was shut down belongs to a job that will detach it.
LiveOK(t) == LET i == t[1] g == job[t[1]].mgr IN
    /\ InOrder(i) /\ job[i].phase \in Active \cup {"done"}
    /\ t \in unsubs[g] \/ (job[i].phase \in {"half", "whole"} /\ job[i].at = t[2])
    /\ t[2] \in listed[g] \ Stopless
    /\ <<i, t[2], "stop">> \in live \/ (At(i, "half") /\ job[i].at = t[2])
    /\ \A j \in Ids : job[j].mgr = g =>
          /\ job[j].phase \in Active \cup {"stopping"} => j = i
          /\ At(j, "waiting") => job[j].kind = "save"
    /\ \A u \in Of(g) : u[1] = i
    /\ g \in closed => \E j \in Ids : job[j].mgr = g /\ job[j].phase \in Active

LiveInv == \A t \in live : LiveOK(t)

\* What the latest manager lists is the store, or is about to be.
SyncInv == stage # "unloaded" =>
    \/ stale
    \/ /\ \A i \in Ids : job[i].mgr = gen /\ At(i, "saved") => job[i].list = store
       /\ \/ listed[gen] = store
          \/ \E i \in Ids : /\ job[i].mgr = gen
                            /\ At(i, "saved") \/ (At(i, "waiting") /\ job[i].kind = "load")

RampInv == \A r \in ramps : r[1] \notin closed /\ r[1] <= gen

IInv ==
    /\ TypeOK /\ EntryInv /\ JobInv /\ LockInv /\ AttachInv /\ LiveInv /\ SyncInv
    /\ RampInv /\ CanBeStopped
=============================================================================
