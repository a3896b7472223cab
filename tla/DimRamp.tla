-------------------------------- MODULE DimRamp --------------------------------
(***************************************************************************)
(* Hold-to-dim ramps (dim_ramp.py, PlejdDimRamp; the generic DimRamp of    *)
(* bindings.py keeps its tasks in the same way).                           *)
(*                                                                         *)
(* A ramp is a background task that commands one level after the other.    *)
(* start() cancels the task the key has and replaces it at once; the       *)
(* cancelled task only ends when the event loop resumes it, and its done   *)
(* call-back runs later still.  An action is the code between two awaits.  *)
(***************************************************************************)
EXTENDS Integers, FiniteSets

CONSTANTS
    Keys,      \* addresses that can be dimmed
    Tasks,     \* bound: how many tasks may exist at a time
    Up, Down,
    Nil,       \* no task, no level
    Step, DimMin, DimMax  \* DIM_STEP, DIM_MIN, DIM_MAX

ASSUME DimRampAssumption ==
    /\ Up # Down /\ Nil \notin {Up, Down} /\ Nil \notin Tasks
    /\ Step \in Nat \ {0} /\ DimMin \in Nat \ {0} /\ DimMax \in Nat /\ DimMin < DimMax
    /\ Nil \notin Int

VARIABLES
    light,      \* coordinator.state_for: the level of a light that is on, else 0
    registered, \* _tasks: the task of each key
    task,       \* the tasks there are: key, direction, level last commanded, where they are
    cancelled,  \* those that cancel() was called on
    unloaded    \* async_unload_entry has shut the ramps down

rampVars == <<light, registered, task, cancelled, unloaded>>

Levels == 0..DimMax
Running == {"new", "writing", "sleeping"}
RampTask == [key : Keys, dir : {Up, Down}, level : Levels \cup {Nil}, pc : Running \cup {"done"}]

ASSUME NilIsNoRamp == Nil \notin RampTask

RampTypeOK ==
    /\ light \in [Keys -> Levels]
    /\ registered \in [Keys -> Tasks \cup {Nil}]
    /\ task \in [Tasks -> RampTask \cup {Nil}]
    /\ cancelled \subseteq Tasks
    /\ unloaded \in BOOLEAN

RampInit ==
    /\ light \in [Keys -> {0, DimMin, DimMax}]
    /\ registered = [k \in Keys |-> Nil]
    /\ task = [i \in Tasks |-> Nil]
    /\ cancelled = {}
    /\ unloaded = FALSE

\* A task that runs and was not cancelled.
Live(i) == task[i] # Nil /\ task[i].pc \in Running /\ i \notin cancelled

RampAt(i, place) == task[i] # Nil /\ task[i].pc = place

\* Mutant: no upper bound.
BoundedBelow(l) == IF l < DimMin THEN DimMin ELSE l

\* The next level stays within the dimmer's range.
Bounded(l) == IF l < DimMin THEN DimMin ELSE IF l > DimMax THEN DimMax ELSE l

-----------------------------------------------------------------------------
(* What others do to the ramps. *)

\* stop(): cancel the key's task; it stays registered until its call-back runs.
Cancel(ks) == cancelled' = cancelled \cup ({registered[k] : k \in ks} \ {Nil})

Stop(k) ==
    /\ Cancel({k})
    /\ UNCHANGED <<light, registered, task, unloaded>>

\* start(): stop what the key has, spawn a task and register it.  No platform, no start.
Start(k, d) ==
    /\ ~unloaded
    /\ Cancel({k})
    /\ \E i \in Tasks :
          /\ task[i] = Nil
          /\ task' = [task EXCEPT ![i] = [key |-> k, dir |-> d, level |-> Nil, pc |-> "new"]]
          /\ registered' = [registered EXCEPT ![k] = i]
    /\ UNCHANGED <<light, unloaded>>

\* shutdown(), called by async_shutdown once the platforms are unloaded.
Shutdown ==
    /\ unloaded' = TRUE
    /\ Cancel(Keys)
    /\ registered' = [k \in Keys |-> Nil]
    /\ UNCHANGED <<light, task>>

\* Somebody else switches the light.
Switch(k) ==
    /\ \E level \in {0, DimMin, DimMax} : light' = [light EXCEPT ![k] = level]
    /\ UNCHANGED <<registered, task, cancelled, unloaded>>

-----------------------------------------------------------------------------
(* The task. *)

RampGoes(i, place) == task' = [task EXCEPT ![i].pc = place]

\* Hands the coordinator the next level, from the level it has reached.
Command(i, from) ==
    LET next == Bounded(IF task[i].dir = Up THEN from + Step ELSE from - Step)
    IN  task' = [task EXCEPT ![i] = [@ EXCEPT !.pc = "writing", !.level = next]]

\* The light takes the level last commanded, and the coordinator records it.
Lands(i) == light' = [light EXCEPT ![task[i].key] = task[i].level]

\* The first step of a task: nothing to dim down, or the first command.  (A room has no state of
\* its own and is given the level to start from.)
Begin(i) ==
    /\ RampAt(i, "new") /\ i \notin cancelled
    /\ IF task[i].dir = Down /\ light[task[i].key] <= DimMin
       THEN RampGoes(i, "done")
       ELSE Command(i, light[task[i].key])
    /\ UNCHANGED <<light, registered, cancelled, unloaded>>

\* Mutant: a ramp waits for its release at the floor.
WrittenWaitsAtFloor(i) ==
    /\ RampAt(i, "writing") /\ i \notin cancelled
    /\ Lands(i)
    /\ RampGoes(i, IF task[i].level >= DimMax THEN "done" ELSE "sleeping")
    /\ UNCHANGED <<registered, cancelled, unloaded>>

\* The write has returned; at a bound the ramp is over.
Written(i) ==
    /\ RampAt(i, "writing") /\ i \notin cancelled
    /\ Lands(i)
    /\ RampGoes(i, IF task[i].level <= DimMin \/ task[i].level >= DimMax THEN "done" ELSE "sleeping")
    /\ UNCHANGED <<registered, cancelled, unloaded>>

\* The write has raised, and so does the task.
Fails(i) ==
    /\ RampAt(i, "writing") /\ i \notin cancelled
    /\ RampGoes(i, "done")
    /\ UNCHANGED <<light, registered, cancelled, unloaded>>

\* Mutant: each tick starts from the state shown, not from where the ramp is.
WakeReadsBack(i) ==
    /\ RampAt(i, "sleeping") /\ i \notin cancelled
    /\ Command(i, light[task[i].key])
    /\ UNCHANGED <<light, registered, cancelled, unloaded>>

\* The pause between two ticks is over.
Wake(i) ==
    /\ RampAt(i, "sleeping") /\ i \notin cancelled
    /\ Command(i, task[i].level)
    /\ UNCHANGED <<light, registered, cancelled, unloaded>>

\* The event loop resumes a cancelled task, which ends it; a command that was under way may
\* have reached the light, and come back as a push, or not.
Unwind(i) ==
    /\ task[i] # Nil /\ task[i].pc \in Running /\ i \in cancelled
    /\ RampGoes(i, "done")
    /\ UNCHANGED light \/ (RampAt(i, "writing") /\ Lands(i))
    /\ UNCHANGED <<registered, cancelled, unloaded>>

\* Mutant: the call-back of an old task evicts the newer one.
ForgetAlways(i) ==
    /\ RampAt(i, "done")
    /\ registered' = [registered EXCEPT ![task[i].key] = Nil]
    /\ task' = [task EXCEPT ![i] = Nil]
    /\ cancelled' = cancelled \ {i}
    /\ UNCHANGED <<light, unloaded>>

\* _forget, the done call-back: the entry goes, unless a newer task has taken it.
Forget(i) ==
    /\ RampAt(i, "done")
    /\ LET k == task[i].key
       IN  registered' = [registered EXCEPT ![k] = IF registered[k] = i THEN Nil ELSE registered[k]]
    /\ task' = [task EXCEPT ![i] = Nil]
    /\ cancelled' = cancelled \ {i}
    /\ UNCHANGED <<light, unloaded>>

Run(i) == Begin(i) \/ Written(i) \/ Fails(i) \/ Wake(i) \/ Unwind(i) \/ Forget(i)

RampNext ==
    \/ \E k \in Keys : Stop(k) \/ Switch(k) \/ \E d \in {Up, Down} : Start(k, d)
    \/ Shutdown
    \/ \E i \in Tasks : Run(i)

RampSpec == RampInit /\ [][RampNext]_rampVars

\* The event loop gets round to every task, a write returns or raises (it times out), a timer
\* fires.
RampFairSpec == RampSpec /\ \A i \in Tasks : WF_rampVars(Run(i))

-----------------------------------------------------------------------------
(* Properties. *)

\* stop(), a new start() and shutdown() reach every ramp that runs: it is the one registered for
\* its key, whatever call-backs of older tasks are still to come (start, _forget).
LiveIsRegistered == \A i \in Tasks : Live(i) => registered[task[i].key] = i

\* What Hold sees of a light: the direction and the last level of its ramp, while it runs.
Holds(k) == registered[k] # Nil /\ Live(registered[k])
Dir(k) == IF Holds(k) THEN task[registered[k]].dir ELSE Nil
Level(k) == IF Holds(k) THEN task[registered[k]].level ELSE Nil

\* The ramps keep the promise of Hold: one direction at a time, ever further, within the range,
\* and no command after a release, a restart in the other direction or an unload.
Dimmer == INSTANCE Hold WITH
    None <- Nil,
    hold <- [k \in Keys |-> Dir(k)],
    at <- [k \in Keys |-> Level(k)]
HoldKept == Dimmer!Spec

\* A ramp whose release was missed ends at its bound all the same (_run).
EveryRampEnds == \A i \in Tasks : Live(i) ~> ~Live(i)
=============================================================================
