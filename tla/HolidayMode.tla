----------------------------- MODULE HolidayMode -----------------------------
(***************************************************************************)
(* Holiday mode (holiday_mode.py), its switch (switch.py) and the parts of *)
(* set-up and unload that start and stop it (__init__.py).                 *)
(*                                                                         *)
(* Every load of the entry makes a manager and a switch of its own; the    *)
(* store, the restored state of the switch and the lights outlive them.    *)
(* A manager's jobs take its lock in the order they ask for it.            *)
(***************************************************************************)
EXTENDS Integers, Sequences, SequencesExt, FiniteSets

CONSTANTS
    Lights,
    MaxLoads,    \* bound: set-ups of the entry, restarts included
    MaxTroubles, \* bound: failing calls, refused unloads, crashes, changes by others
    MaxClicks    \* bound: the user's uses of the switch

ASSUME HolidayAssumption == MaxLoads \in Nat \ {0} /\ MaxTroubles \in Nat /\ MaxClicks \in Nat

VARIABLES
    gen,       \* the latest load
    stage,     \* the entry: loaded, stopping holiday mode, unloading its platforms, unloaded
    resume,    \* was_holiday_mode_running
    isOn,      \* the switch's state
    restored,  \* the state it would be restored to
    timer,     \* the managers whose timer runs (_unsub)
    onUntil,   \* the lights each manager tracks
    store,     \* the lights in the store
    queue,     \* each manager's jobs: the first holds the lock
    phase, todo, \* how far the first has come, and the lights left to it
    lit, due,  \* the lights that are on; those whose deadline has passed
    ours,      \* ghost: turned on by holiday mode, not touched by anybody else since
    lost,      \* ghost: lights a crash has made holiday mode forget
    clicked,   \* ghost: loads whose switch was being used while they were unloaded
    troubles, clicks

lights == <<lit, due, ours, lost>>
entry == <<gen, stage, resume>>
switch == <<isOn, restored, clicked, clicks>>
work == <<queue, phase, todo>>
vars == <<lights, entry, switch, work, timer, onUntil, store, troubles>>

Gens == 1..MaxLoads
Loaded == stage # "unloaded"
Starts == {"on", "restore", "resume"}
Stops == {"off", "unload"}
Jobs == Starts \cup Stops \cup {"tick"}

TypeOK ==
    /\ gen \in Gens
    /\ stage \in {"loaded", "stopping", "platforms", "unloaded"} /\ resume \in BOOLEAN
    /\ isOn \in BOOLEAN /\ restored \in BOOLEAN
    /\ timer \subseteq Gens
    /\ onUntil \in [Gens -> SUBSET Lights] /\ store \subseteq Lights
    /\ queue \in [Gens -> Seq(Jobs)] /\ \A g \in Gens : IsInjective(queue[g])
    /\ phase \in [Gens -> {"begin", "expire", "light", "stop"}]
    /\ todo \in [Gens -> SUBSET Lights]
    /\ lit \subseteq Lights /\ due \subseteq Lights /\ ours \subseteq lit /\ lost \subseteq Lights
    /\ clicked \subseteq Gens

Init ==
    /\ gen = 1 /\ stage = "loaded" /\ resume = FALSE
    /\ isOn = FALSE /\ restored = FALSE
    /\ timer = {} /\ onUntil = [g \in Gens |-> {}] /\ store = {}
    /\ queue = [g \in Gens |-> <<>>]
    /\ phase = [g \in Gens |-> "begin"] /\ todo = [g \in Gens |-> {}]
    /\ lit \in SUBSET Lights /\ due = {} /\ ours = {} /\ lost = {}
    /\ clicked = {} /\ troubles = 0 /\ clicks = 0

Trouble == troubles < MaxTroubles /\ troubles' = troubles + 1

-----------------------------------------------------------------------------
(* The manager's jobs, each under its lock. *)

Asks(g, job) == queue' = [queue EXCEPT ![g] = Append(@, job)]
Runs(g, job) == queue[g] # <<>> /\ Head(queue[g]) = job
Done(g) == queue' = [queue EXCEPT ![g] = Tail(@)]
Enters(g, step, left) == phase' = [phase EXCEPT ![g] = step] /\ todo' = [todo EXCEPT ![g] = left]

\* What a switch shows is gone with it.
Shows(g, on) == isOn' = IF g = gen /\ Loaded THEN on ELSE isOn

\* Mutant: deadlines are not restored.
StartForgets(g) ==
    /\ \E job \in Starts : Runs(g, job) /\ IF job = "on" THEN Shows(g, TRUE) ELSE UNCHANGED isOn
    /\ timer' = timer \cup {g} /\ UNCHANGED onUntil
    /\ Done(g)
    /\ UNCHANGED <<lights, entry, restored, clicked, clicks, phase, todo, store, troubles>>

\* Mutant: an entry of the store that cannot be read is not dropped.
StartMalformed(g) ==
    /\ \E job \in Starts : Runs(g, job) /\ IF job = "on" THEN Shows(g, TRUE) ELSE UNCHANGED isOn
    /\ timer' = timer \cup {g}
    /\ onUntil' = IF g \in timer THEN onUntil ELSE [onUntil EXCEPT ![g] = store \cup {0}]
    /\ Done(g)
    /\ UNCHANGED <<lights, entry, restored, clicked, clicks, phase, todo, store, troubles>>

\* async_start: the deadlines of before, then the timer; nothing if it runs already.
Start(g) ==
    /\ \E job \in Starts : Runs(g, job) /\ IF job = "on" THEN Shows(g, TRUE) ELSE UNCHANGED isOn
    /\ timer' = timer \cup {g}
    /\ onUntil' = IF g \in timer THEN onUntil ELSE [onUntil EXCEPT ![g] = store]
    /\ Done(g)
    /\ UNCHANGED <<lights, entry, restored, clicked, clicks, phase, todo, store, troubles>>

\* async_stop: the timer, then every light that is tracked.
Stop(g) ==
    /\ \E job \in Stops : Runs(g, job)
    /\ phase[g] = "begin"
    /\ timer' = timer \ {g}
    /\ Enters(g, "stop", onUntil[g])
    /\ UNCHANGED <<lights, entry, switch, queue, onUntil, store, troubles>>

\* A tick that was queued behind a stop does nothing; others turn off what has expired.
BeginTick(g) ==
    /\ Runs(g, "tick") /\ phase[g] = "begin"
    /\ IF g \in timer
       THEN Enters(g, "expire", onUntil[g] \cap due) /\ UNCHANGED queue
       ELSE Done(g) /\ UNCHANGED <<phase, todo>>
    /\ UNCHANGED <<lights, entry, switch, timer, onUntil, store, troubles>>

\* Mutant: a light that could not be turned off is forgotten.
TurnOffForgets(g) ==
    /\ phase[g] \in {"expire", "stop"}
    /\ \E l \in todo[g] :
          /\ Enters(g, phase[g], todo[g] \ {l})
          /\ onUntil' = [onUntil EXCEPT ![g] = @ \ {l}]
          /\ \/ lit' = lit \ {l} /\ ours' = ours \ {l} /\ due' = due \ {l} /\ UNCHANGED troubles
             \/ Trouble /\ UNCHANGED <<lit, ours, due>>
    /\ UNCHANGED <<lost, entry, switch, queue, timer, store>>

\* One light; it stays tracked if the call fails (twice, in a stop).
TurnOff(g) ==
    /\ phase[g] \in {"expire", "stop"}
    /\ \E l \in todo[g] :
          /\ Enters(g, phase[g], todo[g] \ {l})
          /\ \/ /\ onUntil' = [onUntil EXCEPT ![g] = @ \ {l}]
                /\ lit' = lit \ {l} /\ ours' = ours \ {l} /\ due' = due \ {l} /\ UNCHANGED troubles
             \/ Trouble /\ UNCHANGED <<onUntil, lit, ours, due>>
    /\ UNCHANGED <<lost, entry, switch, queue, timer, store>>

\* Some of the lights that are off are picked, none outside the window.
Pick(g) ==
    /\ phase[g] = "expire" /\ todo[g] = {}
    /\ \E some \in SUBSET (Lights \ (onUntil[g] \cup lit)) : Enters(g, "light", some)
    /\ UNCHANGED <<lights, entry, switch, queue, timer, onUntil, store, troubles>>

\* A light is tracked once it has been turned on.
TurnOn(g) ==
    /\ phase[g] = "light"
    /\ \E l \in todo[g] :
          /\ Enters(g, "light", todo[g] \ {l})
          /\ \/ /\ onUntil' = [onUntil EXCEPT ![g] = @ \cup {l}]
                /\ ours' = IF l \in lit THEN ours ELSE ours \cup {l}
                /\ lit' = lit \cup {l} /\ due' = due \ {l} /\ UNCHANGED troubles
             \/ Trouble /\ UNCHANGED <<onUntil, lit, due, ours>>
    /\ UNCHANGED <<lost, entry, switch, queue, timer, store>>

\* The end of a tick or a stop.  A switch whose lights could not all be turned off stays on; the
\* unload goes on to the platforms in any case.
Persist(g) ==
    /\ phase[g] \in {"light", "stop"} /\ todo[g] = {}
    /\ store' = onUntil[g]
    /\ Enters(g, "begin", {}) /\ Done(g)
    /\ IF Runs(g, "off") /\ onUntil[g] = {} THEN Shows(g, FALSE) ELSE UNCHANGED isOn
    /\ stage' = IF Runs(g, "unload") THEN "platforms" ELSE stage
    /\ UNCHANGED <<lights, gen, resume, restored, clicked, clicks, timer, onUntil, troubles>>

-----------------------------------------------------------------------------
(* The timer, the user and everybody else. *)

Tick(g) ==
    /\ g \in timer /\ ~Contains(queue[g], "tick")
    /\ Asks(g, "tick")
    /\ UNCHANGED <<lights, entry, switch, phase, todo, timer, onUntil, store, troubles>>

Expires(l) ==
    /\ l \in UNION {onUntil[g] : g \in Gens} \ due
    /\ due' = due \cup {l}
    /\ UNCHANGED <<lit, ours, lost, entry, switch, work, timer, onUntil, store, troubles>>

\* The switch, which is there until its platform is unloaded.
Click(job) ==
    /\ Loaded /\ clicks < MaxClicks /\ clicks' = clicks + 1
    /\ ~Contains(queue[gen], "on") /\ ~Contains(queue[gen], "off")
    /\ Asks(gen, job)
    /\ clicked' = IF stage = "loaded" THEN clicked ELSE clicked \cup {gen}
    /\ UNCHANGED <<lights, entry, isOn, restored, phase, todo, timer, onUntil, store, troubles>>

Others(l) ==
    /\ Trouble
    /\ lit' = IF l \in lit THEN lit \ {l} ELSE lit \cup {l}
    /\ ours' = ours \ {l}
    /\ UNCHANGED <<due, lost, entry, switch, work, timer, onUntil, store>>

-----------------------------------------------------------------------------
(* The entry. *)

\* async_unload_entry, up to the stop it waits for.
Unload ==
    /\ stage = "loaded" /\ ~Contains(queue[gen], "unload")
    /\ stage' = "stopping" /\ resume' = (gen \in timer)
    /\ Asks(gen, "unload")
    /\ clicked' = IF \E job \in {"on", "off"} : Contains(queue[gen], job)
                  THEN clicked \cup {gen} ELSE clicked
    /\ UNCHANGED <<lights, gen, isOn, restored, clicks, phase, todo, timer, onUntil, store, troubles>>

\* The platforms are unloaded, the switch among them, and the manager is dropped.
PlatformsUnloaded ==
    /\ stage = "platforms"
    /\ stage' = "unloaded" /\ restored' = isOn /\ isOn' = FALSE
    /\ UNCHANGED <<lights, gen, resume, clicked, clicks, work, timer, onUntil, store, troubles>>

\* Mutant: holiday mode is resumed whether it ran or not.
PlatformsRefuseResumes ==
    /\ stage = "platforms" /\ Trouble
    /\ stage' = "loaded" /\ Asks(gen, "resume")
    /\ UNCHANGED <<lights, gen, resume, switch, phase, todo, timer, onUntil, store>>

\* A platform refuses: holiday mode goes on if it ran.
PlatformsRefuse ==
    /\ stage = "platforms" /\ Trouble
    /\ stage' = "loaded"
    /\ IF resume THEN Asks(gen, "resume") ELSE UNCHANGED queue
    /\ UNCHANGED <<lights, gen, resume, switch, phase, todo, timer, onUntil, store>>

\* A new manager and a switch, which starts it if it was on.  (Bound: no further load beside a
\* manager that may have been left running.)
SetUp ==
    /\ stage = "unloaded" /\ gen < MaxLoads /\ clicked = {}
    /\ gen' = gen + 1 /\ stage' = "loaded"
    /\ isOn' = restored
    /\ queue' = [queue EXCEPT ![gen'] = IF restored THEN <<"restore">> ELSE <<>>]
    /\ UNCHANGED <<lights, resume, restored, clicked, clicks, phase, todo, timer, onUntil, store, troubles>>

\* Home Assistant stops, or it crashes and may not have written the switch's state since it was
\* loaded.  What memory alone knew is forgotten, and all of it when the switch comes back off.
Crash ==
    /\ Loaded /\ Trouble
    /\ stage' = "unloaded" /\ isOn' = FALSE /\ resume' = FALSE
    /\ timer' = {} /\ onUntil' = [g \in Gens |-> {}]
    /\ queue' = [g \in Gens |-> <<>>]
    /\ phase' = [g \in Gens |-> "begin"] /\ todo' = [g \in Gens |-> {}]
    /\ restored' \in {isOn, restored} /\ clicked' = {}
    /\ lost' = lost \cup (IF restored' THEN ours \ store ELSE ours)
    /\ UNCHANGED <<gen, clicks, lit, due, ours, store>>

Job(g) == Start(g) \/ Stop(g) \/ BeginTick(g) \/ TurnOff(g) \/ Pick(g) \/ TurnOn(g) \/ Persist(g)

Next ==
    \/ \E g \in Gens : Job(g) \/ Tick(g)
    \/ \E l \in Lights : Expires(l) \/ Others(l)
    \/ \E job \in {"on", "off"} : Click(job)
    \/ Unload \/ PlatformsUnloaded \/ PlatformsRefuse \/ SetUp \/ Crash

\* The timer fires, jobs go on, time passes.
Fairness ==
    /\ \A g \in Gens : WF_vars(Job(g)) /\ WF_vars(Tick(g))
    /\ \A l \in Lights : WF_vars(Expires(l))

Spec == Init /\ [][Next]_vars
FairSpec == Spec /\ Fairness

-----------------------------------------------------------------------------
(* Properties. *)

\* No timer runs behind a switch that shows off or is gone, unless the switch was being used
\* while the entry was unloaded (async_unload_entry's comment; holiday_mode.py's lock).
NoHiddenTimer == timer \ clicked \subseteq (IF Loaded /\ isOn THEN {gen} ELSE {})

\* Every light that holiday mode has turned on is in its memory or in its store, across stops that
\* fail, reloads and restarts, but for what a crash has lost.
OursAreTracked == ours \ lost \subseteq onUntil[gen] \cup store

\* While holiday mode runs, every light it has turned on goes out again, whatever call fails.
LightsGoOut == \A l \in Lights : []<>(l \notin ours \ lost \/ gen \notin timer)
=============================================================================
