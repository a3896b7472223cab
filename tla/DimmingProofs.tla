----------------------------- MODULE DimmingProofs -----------------------------
(***************************************************************************)
(* Proofs about hold-to-dim.                                               *)
(*                                                                         *)
(* The ramps (DimRamp), for any lights, tasks and levels: none runs out of *)
(* reach of a release or an unload, and they implement Hold.               *)
(*                                                                         *)
(* The bindings (DimBindings): types, nothing past the teardown, the list  *)
(* and the triggers that agree, and ramps that can be stopped.  The        *)
(* inductive invariant is DimBindings!IInv.                                *)
(***************************************************************************)
EXTENDS DimRamp, DimBindings, TLAPS

\* A level commanded is in the dimmer's range; a task is cancelled only while it exists.
LevelInv ==
    \A i \in Tasks : task[i] # Nil =>
        /\ task[i].level = Nil \/ task[i].level \in DimMin..DimMax
        /\ task[i].pc \in {"writing", "sleeping"} => task[i].level # Nil
        /\ task[i].pc = "new" => task[i].level = Nil

\* A ramp between two commands has not reached its bound.
PaceInv ==
    \A i \in Tasks : RampAt(i, "sleeping") => task[i].level > DimMin /\ task[i].level < DimMax

\* After the unload no ramp is registered, and none is cancelled that is not a task.
UnloadedInv ==
    /\ \A k \in Keys : registered[k] # Nil => task[registered[k]] # Nil /\ task[registered[k]].key = k
    /\ \A i \in cancelled : task[i] # Nil
    /\ unloaded => \A k \in Keys : registered[k] = Nil

RampIInv == RampTypeOK /\ LevelInv /\ PaceInv /\ UnloadedInv /\ LiveIsRegistered

-----------------------------------------------------------------------------
(* Helpers. *)

\* The next level is in range, and beyond the last one unless that was a bound.
LEMMA BoundedInRange ==
    ASSUME NEW l \in Int
    PROVE  /\ Bounded(l + Step) \in DimMin..DimMax
           /\ Bounded(l - Step) \in DimMin..DimMax
           /\ l < DimMax => Bounded(l + Step) > l
           /\ l > DimMin => Bounded(l - Step) < l
BY DimRampAssumption DEF Bounded

\* What a command does to its task.
LEMMA CommandStep ==
    ASSUME RampIInv, NEW i \in Tasks, task[i] # Nil, NEW from \in Int, Command(i, from)
    PROVE  \E r \in RampTask :
              /\ task' = [task EXCEPT ![i] = r]
              /\ r.key = task[i].key /\ r.dir = task[i].dir /\ r.pc = "writing"
              /\ r.level \in DimMin..DimMax
              /\ task[i].dir = Up /\ from < DimMax => r.level > from
              /\ task[i].dir = Down /\ from > DimMin => r.level < from
<1>. DEFINE next == Bounded(IF task[i].dir = Up THEN from + Step ELSE from - Step)
            r == [task[i] EXCEPT !.pc = "writing", !.level = next]
<1>0. task[i] \in RampTask
  BY DEF RampIInv, RampTypeOK
<1>1. /\ next \in DimMin..DimMax
      /\ task[i].dir = Up /\ from < DimMax => next > from
      /\ task[i].dir = Down /\ from > DimMin => next < from
  BY BoundedInRange, DimRampAssumption
<1>2. task' = [task EXCEPT ![i] = r]
  BY DEF Command
<1>. HIDE DEF next
<1>3. next \in Levels
  BY <1>1, DimRampAssumption DEF Levels
<1>4. r.key = task[i].key /\ r.dir = task[i].dir /\ r.pc = "writing" /\ r.level = next
  BY <1>0 DEF RampTask
<1>5. r \in RampTask
  BY <1>0, <1>3 DEF RampTask, Running
<1>. HIDE DEF r
<1>. QED
  BY <1>1, <1>2, <1>4, <1>5

\* A step of one task that leaves the registry and the cancelled alone keeps the invariant, if
\* the task comes out right.
LEMMA OneTask ==
    ASSUME RampIInv, NEW i \in Tasks, task[i] # Nil, NEW r \in RampTask,
           task' = [task EXCEPT ![i] = r],
           r.key = task[i].key,
           r.pc \in Running => task[i].pc \in Running,
           r.level = Nil \/ r.level \in DimMin..DimMax,
           r.pc \in {"writing", "sleeping"} => r.level # Nil,
           r.pc = "new" => r.level = Nil,
           r.pc = "sleeping" => r.level > DimMin /\ r.level < DimMax,
           light' \in [Keys -> Levels],
           UNCHANGED <<registered, cancelled, unloaded>>
    PROVE  RampIInv'
<1>0. r # Nil
  BY NilIsNoRamp
<1>1. RampTypeOK'
  BY DEF RampIInv, RampTypeOK
<1>2. LevelInv'
  BY DEF RampIInv, RampTypeOK, LevelInv
<1>3. PaceInv'
  BY DEF RampIInv, RampTypeOK, PaceInv, RampAt
<1>4. UnloadedInv'
  BY <1>0 DEF RampIInv, RampTypeOK, UnloadedInv
<1>5. LiveIsRegistered'
  <2>1. ASSUME NEW j \in Tasks, Live(j)' PROVE Live(j) /\ task'[j].key = task[j].key
    BY <2>1 DEF RampIInv, RampTypeOK, Live
  <2>. QED
    BY <2>1 DEF RampIInv, LiveIsRegistered
<1>. QED
  BY <1>1, <1>2, <1>3, <1>4, <1>5 DEF RampIInv

-----------------------------------------------------------------------------
(* The invariant. *)

\* No task exists at first.
LEMMA InitRampIInv == RampInit => RampIInv
<1>. SUFFICES ASSUME RampInit PROVE RampIInv
  OBVIOUS
<1>1. RampTypeOK
  <2>1. light \in [Keys -> Levels]
    <3>1. {0, DimMin, DimMax} \subseteq Levels
      BY DimRampAssumption DEF Levels
    <3>. QED
      BY <3>1 DEF RampInit
  <2>. QED
    BY <2>1 DEF RampInit, RampTypeOK
<1>. QED
  BY <1>1 DEF RampInit, RampIInv, LevelInv, PaceInv, UnloadedInv, LiveIsRegistered, Live, RampAt

\* The steps of those who press, release, unload and switch.
LEMMA OthersStep ==
    ASSUME RampIInv, (\E k \in Keys : Stop(k) \/ Switch(k) \/ \E d \in {Up, Down} : Start(k, d)) \/ Shutdown
    PROVE  RampIInv'
<1>. USE DEF RampIInv
<1>1. ASSUME NEW k \in Keys, Stop(k) PROVE RampIInv'
  BY <1>1 DEF Stop, Cancel, RampTypeOK, LevelInv, PaceInv, RampAt, UnloadedInv, LiveIsRegistered, Live
<1>2. ASSUME NEW k \in Keys, Switch(k) PROVE RampIInv'
  <2>1. RampTypeOK'
    BY <1>2, DimRampAssumption DEF Switch, RampTypeOK, Levels
  <2>. QED
    BY <1>2, <2>1 DEF Switch, LevelInv, PaceInv, RampAt, UnloadedInv, LiveIsRegistered, Live
<1>3. ASSUME NEW k \in Keys, NEW d \in {Up, Down}, Start(k, d) PROVE RampIInv'
  <2>. DEFINE new == [key |-> k, dir |-> d, level |-> Nil, pc |-> "new"]
  <2>1. PICK i \in Tasks : /\ task[i] = Nil
                           /\ task' = [task EXCEPT ![i] = new]
                           /\ registered' = [registered EXCEPT ![k] = i]
    BY <1>3 DEF Start
  <2>2. new \in RampTask
    BY DEF RampTask, Running
  <2>3. new # Nil /\ new.key = k /\ new.pc = "new" /\ new.level = Nil
    BY <2>2, NilIsNoRamp
  <2>4. /\ cancelled' = cancelled \cup ({registered[k]} \ {Nil})
        /\ UNCHANGED <<light, unloaded>> /\ ~unloaded
    BY <1>3 DEF Start, Cancel
  <2>5. i \notin cancelled'
    BY <2>1, <2>4 DEF UnloadedInv, RampTypeOK
  <2>. HIDE DEF new
  <2>6. RampTypeOK'
    BY <2>1, <2>2, <2>4 DEF RampTypeOK
  <2>7. LevelInv' /\ PaceInv'
    BY <2>1, <2>3 DEF LevelInv, PaceInv, RampAt, RampTypeOK
  <2>8. UnloadedInv'
    BY <2>1, <2>3, <2>4 DEF UnloadedInv, RampTypeOK
  <2>9. ASSUME NEW j \in Tasks, Live(j)' PROVE registered'[task'[j].key] = j
    <3>1. CASE j = i
      BY <2>1, <2>3, <3>1 DEF RampTypeOK
    <3>2. CASE j # i
      <4>1. task'[j] = task[j] /\ Live(j) /\ j \notin cancelled'
        BY <2>1, <2>4, <2>9, <3>2 DEF Live, RampTypeOK
      <4>2. registered[task[j].key] = j /\ task[j].key # k
        BY <2>4, <4>1, DimRampAssumption DEF LiveIsRegistered
      <4>. QED
        BY <2>1, <4>1, <4>2 DEF RampTypeOK
    <3>. QED
      BY <3>1, <3>2
  <2>. QED
    BY <2>6, <2>7, <2>8, <2>9 DEF LiveIsRegistered
<1>4. ASSUME Shutdown PROVE RampIInv'
  BY <1>4 DEF Shutdown, Cancel, RampTypeOK, LevelInv, PaceInv, RampAt, UnloadedInv, LiveIsRegistered, Live, RampTask
<1>. QED
  BY <1>1, <1>2, <1>3, <1>4

\* The steps of a task up to its end.
LEMMA TaskStep ==
    ASSUME RampIInv, NEW i \in Tasks,
           Begin(i) \/ Written(i) \/ Fails(i) \/ Wake(i) \/ Unwind(i)
    PROVE  RampIInv'
<1>1. task[i] # Nil
  BY DEF Begin, Written, Fails, Wake, Unwind, RampAt
<1>2. task[i] \in RampTask /\ task[i].key \in Keys
  BY <1>1 DEF RampIInv, RampTypeOK, RampTask
<1>3. light[task[i].key] \in Int /\ light \in [Keys -> Levels]
  BY <1>2, DimRampAssumption DEF RampIInv, RampTypeOK, Levels
<1>4. RampAt(i, "writing") \/ RampAt(i, "sleeping") => task[i].level \in DimMin..DimMax
  BY DEF RampIInv, LevelInv, RampAt
<1>5. RampAt(i, "writing") /\ Lands(i) => light' \in [Keys -> Levels]
  BY <1>2, <1>3, <1>4, DimRampAssumption DEF Lands, Levels
<1>6. ASSUME NEW place \in {"done", "sleeping"}, RampGoes(i, place), light' \in [Keys -> Levels],
             UNCHANGED <<registered, cancelled, unloaded>>,
             task[i].pc \in Running,
             place = "sleeping" => RampAt(i, "writing") /\ task[i].level > DimMin /\ task[i].level < DimMax
      PROVE  RampIInv'
  <2>. DEFINE r == [task[i] EXCEPT !.pc = place]
  <2>1. task' = [task EXCEPT ![i] = r]
    BY <1>6 DEF RampGoes
  <2>2. r \in RampTask /\ r.key = task[i].key /\ r.level = task[i].level /\ r.pc = place
    BY <1>2 DEF RampTask, Running
  <2>3. task[i].level = Nil \/ task[i].level \in DimMin..DimMax
    BY <1>1 DEF RampIInv, LevelInv
  <2>. HIDE DEF r
  <2>4. r.pc = "sleeping" => r.level > DimMin /\ r.level < DimMax
    BY <1>6, <2>2
  <2>5. r.pc = "sleeping" => r.level # Nil
    BY <1>4, <1>6, <2>2, DimRampAssumption
  <2>6. /\ r.key = task[i].key
        /\ r.pc \in Running => task[i].pc \in Running
        /\ r.level = Nil \/ r.level \in DimMin..DimMax
        /\ r.pc \in {"writing", "sleeping"} => r.level # Nil
        /\ r.pc = "new" => r.level = Nil
    BY <1>6, <2>2, <2>3, <2>5
  <2>. QED
    BY <1>1, <1>6, <2>1, <2>2, <2>4, <2>6, OneTask
<1>7. ASSUME NEW from \in Int, Command(i, from), task[i].pc \in Running,
             UNCHANGED <<light, registered, cancelled, unloaded>>
      PROVE  RampIInv'
  <2>1. PICK r \in RampTask : /\ task' = [task EXCEPT ![i] = r]
                              /\ r.key = task[i].key /\ r.pc = "writing"
                              /\ r.level \in DimMin..DimMax
    BY <1>1, <1>7, CommandStep
  <2>2. /\ r.key = task[i].key
        /\ r.pc \in Running => task[i].pc \in Running
        /\ r.level = Nil \/ r.level \in DimMin..DimMax
        /\ r.pc \in {"writing", "sleeping"} => r.level # Nil
        /\ r.pc = "new" => r.level = Nil
        /\ r.pc = "sleeping" => r.level > DimMin /\ r.level < DimMax
    BY <1>7, <2>1, DimRampAssumption
  <2>3. light' \in [Keys -> Levels] /\ UNCHANGED <<registered, cancelled, unloaded>>
    BY <1>3, <1>7
  <2>. QED
    BY <1>1, <2>1, <2>2, <2>3, OneTask
<1>8. CASE Begin(i)
  <2>1. task[i].pc \in Running /\ ~RampAt(i, "sleeping") /\ UNCHANGED <<light, registered, cancelled, unloaded>>
    BY <1>8 DEF Begin, RampAt, Running
  <2>2. CASE RampGoes(i, "done")
    BY <1>3, <1>6, <2>1, <2>2
  <2>3. CASE Command(i, light[task[i].key])
    BY <1>3, <1>7, <2>1, <2>3
  <2>. QED
    BY <1>8, <2>2, <2>3 DEF Begin
<1>9. CASE Written(i)
  <2>1. RampAt(i, "writing") /\ Lands(i) /\ UNCHANGED <<registered, cancelled, unloaded>>
    BY <1>9 DEF Written
  <2>2. CASE task[i].level <= DimMin \/ task[i].level >= DimMax
    <3>1. RampGoes(i, "done") /\ task[i].pc \in Running
      BY <1>9, <2>1, <2>2 DEF Written, RampAt, Running
    <3>. QED
      BY <1>5, <1>6, <2>1, <3>1
  <2>3. CASE ~(task[i].level <= DimMin \/ task[i].level >= DimMax)
    <3>1. task[i].level > DimMin /\ task[i].level < DimMax
      BY <1>4, <2>1, <2>3, DimRampAssumption
    <3>. QED
      BY <1>5, <1>6, <1>9, <2>1, <2>3, <3>1 DEF Written, RampAt, Running
  <2>. QED
    BY <2>2, <2>3
<1>10. CASE Fails(i)
  BY <1>3, <1>6, <1>10 DEF Fails, RampAt, Running
<1>11. CASE Wake(i)
  BY <1>4, <1>7, <1>11, DimRampAssumption DEF Wake, RampAt, Running
<1>12. CASE Unwind(i)
  <2>1. light' \in [Keys -> Levels]
    BY <1>3, <1>5, <1>12 DEF Unwind
  <2>. QED
    BY <1>6, <1>12, <2>1 DEF Unwind
<1>. QED
  BY <1>8, <1>9, <1>10, <1>11, <1>12

\* The call-back of a task that is over.
LEMMA ForgetStep ==
    ASSUME RampIInv, NEW i \in Tasks, Forget(i)
    PROVE  RampIInv'
<1>. USE DEF RampIInv
<1>. DEFINE key == task[i].key
<1>0. /\ task[i] # Nil /\ key \in Keys /\ ~Live(i)
      /\ registered' = [registered EXCEPT ![key] = IF registered[key] = i THEN Nil ELSE registered[key]]
      /\ task' = [task EXCEPT ![i] = Nil]
      /\ cancelled' = cancelled \ {i}
      /\ UNCHANGED <<light, unloaded>>
  BY DEF Forget, RampAt, RampTypeOK, RampTask, Live, Running
<1>. HIDE DEF key
<1>1. RampTypeOK'
  BY <1>0 DEF RampTypeOK
<1>2. LevelInv' /\ PaceInv'
  BY <1>0 DEF LevelInv, PaceInv, RampAt, RampTypeOK
<1>3. UnloadedInv'
  BY <1>0 DEF UnloadedInv, RampTypeOK, key
<1>4. ASSUME NEW j \in Tasks, Live(j)' PROVE registered'[task'[j].key] = j
  <2>1. j # i /\ task'[j] = task[j] /\ Live(j)
    BY <1>0, <1>4 DEF Live, RampTypeOK
  <2>2. registered[task[j].key] = j /\ task[j].key \in Keys
    BY <2>1 DEF LiveIsRegistered, Live, RampTypeOK, RampTask
  <2>. QED
    BY <1>0, <2>1, <2>2 DEF RampTypeOK
<1>. QED
  BY <1>1, <1>2, <1>3, <1>4 DEF LiveIsRegistered

\* Every step keeps the invariant.
LEMMA RampNextStep == RampIInv /\ [RampNext]_rampVars => RampIInv'
<1>. SUFFICES ASSUME RampIInv, [RampNext]_rampVars PROVE RampIInv'
  OBVIOUS
<1>1. CASE UNCHANGED rampVars
  BY <1>1 DEF rampVars, RampIInv, RampTypeOK, LevelInv, PaceInv, RampAt, UnloadedInv, LiveIsRegistered, Live
<1>2. CASE RampNext
  BY <1>2, OthersStep, TaskStep, ForgetStep DEF RampNext, Run
<1>. QED
  BY <1>1, <1>2

\* In every reachable state: the shapes of the data, and the invariant.
THEOREM RampTypeCorrect == RampSpec => []RampTypeOK
<1>1. RampIInv => RampTypeOK
  BY DEF RampIInv
<1>. QED
  BY <1>1, InitRampIInv, RampNextStep, PTL DEF RampSpec

\* No running ramp is out of reach of stop(), start() and shutdown().
THEOREM RampsReachable == RampSpec => []LiveIsRegistered
<1>1. RampIInv => LiveIsRegistered
  BY DEF RampIInv
<1>. QED
  BY <1>1, InitRampIInv, RampNextStep, PTL DEF RampSpec

-----------------------------------------------------------------------------
(* The refinement: every step of DimRamp is a step of Hold, or none. *)

\* A step that changes what is seen of one light only is Hold's, if that light's change is.
LEMMA OneKey ==
    ASSUME NEW k \in Keys,
           \A q \in Keys \ {k} : Dir(q)' = Dir(q) /\ Level(q)' = Level(q),
           \/ Dir(k)' = Nil /\ Level(k)' = Nil
           \/ Dir(k)' \in {Up, Down} /\ Level(k)' = Nil
           \/ /\ Level(k)' \in DimMin..DimMax
              /\ Dir(k)' = Dir(k) /\ Dir(k) # Nil
              /\ \/ Level(k) = Nil
                 \/ Dir(k) = Up /\ Level(k)' > Level(k)
                 \/ Dir(k) = Down /\ Level(k)' < Level(k)
           \/ Dir(k)' = Dir(k) /\ Level(k)' = Level(k)
    PROVE  [Dimmer!Next]_(Dimmer!vars)
<1>. DEFINE hold == [q \in Keys |-> Dir(q)]
            at == [q \in Keys |-> Level(q)]
<1>1. /\ hold' = [hold EXCEPT ![k] = Dir(k)']
      /\ at' = [at EXCEPT ![k] = Level(k)']
      /\ hold[k] = Dir(k) /\ at[k] = Level(k)
  OBVIOUS
<1>2. CASE Dir(k)' = Nil /\ Level(k)' = Nil
  <2>1. Dimmer!Release(k)
    BY <1>1, <1>2 DEF Dimmer!Release, Dir, Level
  <2>. QED
    BY <2>1 DEF Dimmer!Next
<1>3. CASE Dir(k)' \in {Up, Down} /\ Level(k)' = Nil
  <2>1. \E d \in {Up, Down} : Dimmer!Press(k, d)
    BY <1>1, <1>3 DEF Dimmer!Press, Dir, Level
  <2>. QED
    BY <2>1 DEF Dimmer!Next
<1>4. CASE /\ Level(k)' \in DimMin..DimMax
           /\ Dir(k)' = Dir(k) /\ Dir(k) # Nil
           /\ \/ Level(k) = Nil
              \/ Dir(k) = Up /\ Level(k)' > Level(k)
              \/ Dir(k) = Down /\ Level(k)' < Level(k)
  <2>1. hold' = hold
    BY <1>4
  <2>2. Dimmer!Advance(k)
    BY <1>1, <1>4, <2>1 DEF Dimmer!Advance, Dir, Level
  <2>. QED
    BY <2>2 DEF Dimmer!Next
<1>5. CASE Dir(k)' = Dir(k) /\ Level(k)' = Level(k)
  <2>1. hold' = hold /\ at' = at
    BY <1>5
  <2>. QED
    BY <2>1 DEF Dimmer!vars, Dir, Level
<1>. QED
  BY <1>2, <1>3, <1>4, <1>5

\* What is seen of a light that a step leaves alone.
LEMMA Unseen ==
    ASSUME RampIInv, NEW q \in Keys, registered'[q] = registered[q],
           registered[q] # Nil =>
              /\ task'[registered[q]] = task[registered[q]]
              /\ registered[q] \in cancelled' <=> registered[q] \in cancelled
    PROVE  Dir(q)' = Dir(q) /\ Level(q)' = Level(q) /\ (Holds(q)' <=> Holds(q))
BY DEF Dir, Level, Holds, Live

\* Two lights never share a task.
LEMMA OwnTask ==
    ASSUME RampIInv, NEW k \in Keys, NEW q \in Keys, registered[k] = registered[q], registered[k] # Nil
    PROVE  k = q
BY DEF RampIInv, UnloadedInv

\* Releases and presses.
LEMMA OthersRefine ==
    ASSUME RampIInv, (\E k \in Keys : Stop(k) \/ Switch(k) \/ \E d \in {Up, Down} : Start(k, d)) \/ Shutdown
    PROVE  [Dimmer!Next]_(Dimmer!vars)
<1>1. ASSUME NEW k \in Keys, Stop(k) PROVE [Dimmer!Next]_(Dimmer!vars)
  <2>1. ~Holds(k)'
    BY <1>1 DEF Stop, Cancel, Holds, Live
  <2>2. ASSUME NEW q \in Keys \ {k} PROVE Dir(q)' = Dir(q) /\ Level(q)' = Level(q)
    <3>1. registered[q] # Nil => (registered[q] \in cancelled' <=> registered[q] \in cancelled)
      BY <1>1, <2>2, OwnTask DEF Stop, Cancel
    <3>. QED
      BY <1>1, <2>2, <3>1, Unseen DEF Stop
  <2>3. Dir(k)' = Nil /\ Level(k)' = Nil
    BY <2>1 DEF Dir, Level
  <2>. QED
    BY <2>2, <2>3, OneKey
<1>2. ASSUME NEW k \in Keys, Switch(k) PROVE [Dimmer!Next]_(Dimmer!vars)
  <2>1. \A q \in Keys : Dir(q)' = Dir(q) /\ Level(q)' = Level(q)
    BY <1>2 DEF Switch, Dir, Level, Holds, Live
  <2>. QED
    BY <2>1, OneKey
<1>3. ASSUME NEW k \in Keys, NEW d \in {Up, Down}, Start(k, d) PROVE [Dimmer!Next]_(Dimmer!vars)
  <2>1. PICK i \in Tasks : /\ task[i] = Nil
                           /\ task' = [task EXCEPT ![i] = [key |-> k, dir |-> d, level |-> Nil, pc |-> "new"]]
                           /\ registered' = [registered EXCEPT ![k] = i]
    BY <1>3 DEF Start
  <2>2. registered \in [Keys -> Tasks \cup {Nil}] /\ task \in [Tasks -> RampTask \cup {Nil}]
    BY DEF RampIInv, RampTypeOK
  <2>3. i \notin cancelled' /\ i # Nil
    BY <1>3, <2>1, DimRampAssumption DEF Start, Cancel, RampIInv, UnloadedInv
  <2>4. registered'[k] = i /\ task'[i] = [key |-> k, dir |-> d, level |-> Nil, pc |-> "new"]
    BY <2>1, <2>2
  <2>5. task'[i] # Nil
    <3>1. task'[i] \in RampTask
      BY <2>4 DEF RampTask, Running
    <3>. QED
      BY <3>1, NilIsNoRamp
  <2>6. Dir(k)' = d /\ Level(k)' = Nil
    BY <2>3, <2>4, <2>5 DEF Dir, Level, Holds, Live, Running
  <2>7. ASSUME NEW q \in Keys \ {k} PROVE Dir(q)' = Dir(q) /\ Level(q)' = Level(q)
    <3>1. registered[q] # i /\ registered'[q] = registered[q]
      BY <2>1, <2>2, <2>3, <2>7 DEF RampIInv, UnloadedInv
    <3>2. registered[q] # Nil => task'[registered[q]] = task[registered[q]]
      BY <2>1, <2>2, <3>1
    <3>3. registered[q] # Nil => (registered[q] \in cancelled' <=> registered[q] \in cancelled)
      BY <1>3, <2>7, OwnTask DEF Start, Cancel
    <3>. QED
      BY <3>1, <3>2, <3>3, Unseen
  <2>. QED
    BY <2>6, <2>7, OneKey
<1>4. ASSUME Shutdown PROVE [Dimmer!Next]_(Dimmer!vars)
  <2>1. \A q \in Keys : Dir(q)' = Nil /\ Level(q)' = Nil
    BY <1>4 DEF Shutdown, Dir, Level, Holds
  <2>2. Dimmer!ReleaseAll
    BY <2>1 DEF Dimmer!ReleaseAll, Dimmer!Init
  <2>. QED
    BY <2>2 DEF Dimmer!Next
<1>. QED
  BY <1>1, <1>2, <1>3, <1>4

\* A running task that ends, rests or goes further.
LEMMA RunsOn ==
    ASSUME RampIInv, NEW i \in Tasks, Live(i), NEW r \in RampTask,
           task' = [task EXCEPT ![i] = r], r.key = task[i].key, r.dir = task[i].dir,
           UNCHANGED <<registered, cancelled>>,
           \/ r.pc = "done"
           \/ r.pc \in Running /\ r.level = task[i].level
           \/ /\ r.pc \in Running /\ r.level \in DimMin..DimMax
              /\ \/ task[i].level = Nil
                 \/ r.dir = Up /\ r.level > task[i].level
                 \/ r.dir = Down /\ r.level < task[i].level
    PROVE  [Dimmer!Next]_(Dimmer!vars)
<1>1. /\ registered \in [Keys -> Tasks \cup {Nil}] /\ task \in [Tasks -> RampTask \cup {Nil}]
      /\ task[i] \in RampTask /\ task[i].key \in Keys /\ task[i].dir # Nil
  BY DimRampAssumption DEF RampIInv, RampTypeOK, Live, RampTask
<1>0. PICK k \in Keys : k = task[i].key
  BY <1>1
<1>2. registered[k] = i /\ i # Nil
  BY <1>0, <1>1, DimRampAssumption DEF RampIInv, LiveIsRegistered
<1>3. Dir(k) = task[i].dir /\ Level(k) = task[i].level
  BY <1>2 DEF Dir, Level, Holds
<1>4. task'[i] = r /\ r # Nil /\ registered'[k] = i
  BY <1>1, <1>2, NilIsNoRamp
<1>5. ASSUME NEW q \in Keys \ {k} PROVE Dir(q)' = Dir(q) /\ Level(q)' = Level(q)
  <2>1. registered[q] # i
    BY <1>0, <1>2, <1>5, DimRampAssumption DEF RampIInv, UnloadedInv
  <2>2. registered[q] # Nil => task'[registered[q]] = task[registered[q]]
    BY <1>1, <2>1
  <2>. QED
    BY <2>2, Unseen
<1>6. CASE r.pc = "done"
  <2>1. ~Holds(k)'
    BY <1>4, <1>6 DEF Holds, Live, Running
  <2>2. Dir(k)' = Nil /\ Level(k)' = Nil
    BY <2>1 DEF Dir, Level
  <2>. QED
    BY <1>1, <1>5, <2>2, OneKey
<1>7. CASE r.pc \in Running
  <2>1. Holds(k)'
    BY <1>2, <1>4, <1>7 DEF Holds, Live
  <2>2. Dir(k)' = Dir(k) /\ Level(k)' = r.level
    BY <1>3, <1>4, <2>1 DEF Dir, Level
  <2>3. CASE r.level = task[i].level
    BY <1>1, <1>3, <1>5, <2>2, <2>3, OneKey
  <2>4. CASE /\ r.level \in DimMin..DimMax
             /\ \/ task[i].level = Nil
                \/ r.dir = Up /\ r.level > task[i].level
                \/ r.dir = Down /\ r.level < task[i].level
    <3>1. /\ Level(k)' \in DimMin..DimMax
          /\ Dir(k)' = Dir(k) /\ Dir(k) # Nil
          /\ \/ Level(k) = Nil
             \/ Dir(k) = Up /\ Level(k)' > Level(k)
             \/ Dir(k) = Down /\ Level(k)' < Level(k)
      BY <1>1, <1>3, <2>2, <2>4
    <3>. QED
      BY <1>1, <1>5, <3>1, OneKey
  <2>. QED
    BY <1>6, <1>7, <2>3, <2>4 DEF Running
<1>. QED
  BY <1>6, <1>7

\* The end of a cancelled task, and the call-back of one that is over, are not seen.
LEMMA UnseenEnd ==
    ASSUME RampIInv, NEW i \in Tasks, Unwind(i) \/ Forget(i)
    PROVE  [Dimmer!Next]_(Dimmer!vars)
<1>1. ~Live(i) /\ task[i] # Nil
  BY DEF Unwind, Forget, Live, RampAt, Running
<1>2. \A j \in Tasks \ {i} : /\ task'[j] = task[j]
                             /\ j \in cancelled' <=> j \in cancelled
  BY DEF Unwind, Forget, RampGoes, RampIInv, RampTypeOK
<1>3. ~Live(i)'
  BY DEF Unwind, Forget, RampGoes, Live, Running, RampIInv, RampTypeOK
<1>4. \A q \in Keys : registered'[q] = registered[q] \/ (registered[q] = i /\ registered'[q] = Nil)
  BY DEF Unwind, Forget, RampIInv, RampTypeOK
<1>5. ASSUME NEW q \in Keys PROVE Dir(q)' = Dir(q) /\ Level(q)' = Level(q)
  <2>1. CASE registered[q] = i
    <3>1. ~Holds(q) /\ ~Holds(q)'
      BY <1>1, <1>3, <1>4, <2>1 DEF Holds
    <3>. QED
      BY <3>1 DEF Dir, Level
  <2>2. CASE registered[q] # i
    <3>1. registered'[q] = registered[q] /\ registered[q] \in Tasks \cup {Nil}
      BY <1>4, <2>2 DEF RampIInv, RampTypeOK
    <3>. QED
      BY <1>2, <2>2, <3>1, Unseen
  <2>. QED
    BY <2>1, <2>2
<1>6. [q \in Keys |-> Dir(q)]' = [q \in Keys |-> Dir(q)] /\ [q \in Keys |-> Level(q)]' = [q \in Keys |-> Level(q)]
  BY <1>5
<1>. QED
  BY <1>6 DEF Dimmer!vars

\* The steps of a task that was not cancelled.
LEMMA TaskRefines ==
    ASSUME RampIInv, NEW i \in Tasks, Begin(i) \/ Written(i) \/ Fails(i) \/ Wake(i)
    PROVE  [Dimmer!Next]_(Dimmer!vars)
<1>1. Live(i) /\ task[i] # Nil /\ UNCHANGED <<registered, cancelled>>
  BY DEF Begin, Written, Fails, Wake, RampAt, Live, Running
<1>2. task[i] \in RampTask /\ task[i].dir \in {Up, Down}
  BY <1>1 DEF RampIInv, RampTypeOK, RampTask
<1>3. ASSUME NEW place \in {"done", "sleeping"}, RampGoes(i, place) PROVE [Dimmer!Next]_(Dimmer!vars)
  <2>. DEFINE r == [task[i] EXCEPT !.pc = place]
  <2>1. task' = [task EXCEPT ![i] = r]
    BY <1>3 DEF RampGoes
  <2>2. r \in RampTask /\ r.key = task[i].key /\ r.dir = task[i].dir /\ r.level = task[i].level /\ r.pc = place
    BY <1>2 DEF RampTask, Running
  <2>. HIDE DEF r
  <2>3. r.pc = "done" \/ (r.pc \in Running /\ r.level = task[i].level)
    BY <2>2 DEF Running
  <2>. QED
    BY <1>1, <2>1, <2>2, <2>3, RunsOn
<1>4. ASSUME NEW from \in Int, Command(i, from),
             \/ task[i].level = Nil
             \/ from = task[i].level /\ from > DimMin /\ from < DimMax
      PROVE  [Dimmer!Next]_(Dimmer!vars)
  <2>1. PICK r \in RampTask : /\ task' = [task EXCEPT ![i] = r]
                              /\ r.key = task[i].key /\ r.dir = task[i].dir /\ r.pc = "writing"
                              /\ r.level \in DimMin..DimMax
                              /\ task[i].dir = Up /\ from < DimMax => r.level > from
                              /\ task[i].dir = Down /\ from > DimMin => r.level < from
    BY <1>1, <1>4, CommandStep
  <2>2. /\ r.pc \in Running
        /\ \/ task[i].level = Nil
           \/ r.dir = Up /\ r.level > task[i].level
           \/ r.dir = Down /\ r.level < task[i].level
    BY <1>2, <1>4, <2>1 DEF Running
  <2>. QED
    BY <1>1, <2>1, <2>2, RunsOn
<1>5. CASE Begin(i)
  <2>1. task[i].level = Nil /\ light[task[i].key] \in Int
    BY <1>2, <1>5 DEF Begin, RampAt, RampIInv, LevelInv, RampTypeOK, RampTask, Levels
  <2>. QED
    BY <1>3, <1>4, <1>5, <2>1 DEF Begin
<1>6. CASE Written(i) \/ Fails(i)
  BY <1>3, <1>6 DEF Written, Fails
<1>7. CASE Wake(i)
  <2>1. task[i].level \in DimMin..DimMax /\ task[i].level > DimMin /\ task[i].level < DimMax
    BY <1>7 DEF Wake, RampAt, RampIInv, LevelInv, PaceInv
  <2>2. task[i].level \in Int /\ Command(i, task[i].level)
    BY <1>7, <2>1, DimRampAssumption DEF Wake
  <2>. QED
    BY <1>4, <2>1, <2>2
<1>. QED
  BY <1>5, <1>6, <1>7

\* The ramps implement hold-to-dim as Hold states it: one direction at a time, ever further and
\* within the range, and never a command after the release.
THEOREM Implements == RampSpec => HoldKept
<1>1. RampInit => Dimmer!Init
  BY DEF RampInit, Dimmer!Init, Dir, Level, Holds
<1>2. RampIInv /\ [RampNext]_rampVars => [Dimmer!Next]_(Dimmer!vars)
  <2>. SUFFICES ASSUME RampIInv, [RampNext]_rampVars PROVE [Dimmer!Next]_(Dimmer!vars)
    OBVIOUS
  <2>1. CASE UNCHANGED rampVars
    <3>1. [q \in Keys |-> Dir(q)]' = [q \in Keys |-> Dir(q)] /\ [q \in Keys |-> Level(q)]' = [q \in Keys |-> Level(q)]
      BY <2>1 DEF rampVars, Dir, Level, Holds, Live
    <3>. QED
      BY <3>1 DEF Dimmer!vars
  <2>2. CASE RampNext
    BY <2>2, OthersRefine, TaskRefines, UnseenEnd DEF RampNext, Run
  <2>. QED
    BY <2>1, <2>2
<1>. QED
  BY <1>1, <1>2, InitRampIInv, RampNextStep, PTL DEF RampSpec, HoldKept, Dimmer!Spec

-----------------------------------------------------------------------------
(* The bindings. *)

USE DimBindingsAssumption DEF DimBindingsAssumption

\* What a step of a job leaves of the jobs.
Moves(i) == \A j \in Ids :
    /\ job'[j].mgr = job[j].mgr /\ job'[j].kind = job[j].kind /\ job'[j].list = job[j].list
    /\ j # i => job'[j] = job[j]

\* What the steps of a job write.
LEMMA GoesTo ==
    ASSUME TypeOK, NEW i \in Ids, NEW place, NEW left, Goes(i, place, left)
    PROVE  job'[i].phase = place /\ job'[i].todo = left /\ job'[i].at = job[i].at
  BY DEF TypeOK, Goes, Job

LEMMA PlacesTo ==
    ASSUME TypeOK, NEW i \in Ids, NEW place, NEW b, NEW left, Places(i, place, b, left)
    PROVE  job'[i].phase = place /\ job'[i].todo = left /\ job'[i].at = b
  BY DEF TypeOK, Places, Job

\* They keep the types and leave the other jobs alone.
LEMMA GoesMoves ==
    ASSUME TypeOK, NEW i \in Ids, NEW place \in Phases, NEW left \in SUBSET Bindings,
           Goes(i, place, left)
    PROVE  /\ job' \in [Ids -> Job] /\ Moves(i)
           /\ job'[i].phase = place /\ job'[i].todo = left /\ job'[i].at = job[i].at
  <1>1. [job[i] EXCEPT !.phase = place, !.todo = left] \in Job
    BY DEF TypeOK, Job
  <1>2. job' = [job EXCEPT ![i] = [job[i] EXCEPT !.phase = place, !.todo = left]]
    BY DEF Goes, TypeOK
  <1>3. Moves(i)
    BY <1>2 DEF Moves, TypeOK, Job
  <1> QED
    BY <1>1, <1>2, <1>3, GoesTo DEF TypeOK

LEMMA PlacesMoves ==
    ASSUME TypeOK, NEW i \in Ids, NEW place \in Phases, NEW b \in Bindings \cup {None},
           NEW left \in SUBSET Bindings, Places(i, place, b, left)
    PROVE  /\ job' \in [Ids -> Job] /\ Moves(i)
           /\ job'[i].phase = place /\ job'[i].todo = left /\ job'[i].at = b
  <1>1. [job[i] EXCEPT !.phase = place, !.at = b, !.todo = left] \in Job
    BY DEF TypeOK, Job
  <1>2. job' = [job EXCEPT ![i] = [job[i] EXCEPT !.phase = place, !.at = b, !.todo = left]]
    BY DEF Places, TypeOK
  <1>3. Moves(i)
    BY <1>2 DEF Moves, TypeOK, Job
  <1> QED
    BY <1>1, <1>2, <1>3, PlacesTo DEF TypeOK

\* A job that is asked for is a new one.
LEMMA AsksNew ==
    ASSUME TypeOK, NEW g \in Gens, NEW kind \in {"load", "save"}, NEW list \in SUBSET Bindings,
           Asks(g, kind, list), asked + 1 \in Ids
    PROVE  /\ job' \in [Ids -> Job] /\ asked' = asked + 1
           /\ \A j \in Ids : j # asked' => job'[j] = job[j]
           /\ job'[asked'] = [mgr |-> g, kind |-> kind, list |-> list, phase |-> "waiting",
                              todo |-> {}, at |-> None]
  BY DEF TypeOK, Asks, Job, Phases, Gens

-----------------------------------------------------------------------------
(* Types. *)

\* A trigger is a job, a binding and a slot.
LEMMA TriggerTypes ==
    ASSUME TypeOK, NEW t \in live
    PROVE  t[1] \in Ids /\ t[2] \in Bindings /\ t[3] \in Slots /\ t = <<t[1], t[2], t[3]>>
  BY DEF TypeOK, Triggers

\* A trigger belongs to a manager that was made.
LEMMA LiveManager ==
    ASSUME TypeOK, JobInv, LiveInv, NEW t \in live
    PROVE  job[t[1]].mgr \in 1..gen /\ job[t[1]].mgr \in Gens
  <1>1. t[1] \in Ids /\ InOrder(t[1])
    BY TriggerTypes DEF LiveInv, LiveOK
  <1>2. job[t[1]].mgr \in 1..gen
    BY <1>1 DEF JobInv
  <1> QED
    BY <1>2 DEF TypeOK, Gens

\* A job under way belongs to a manager that was made.
LEMMA WorkManager ==
    ASSUME TypeOK, JobInv, NEW i \in Ids, Under(i)
    PROVE  /\ InOrder(i) /\ job[i].mgr \in 1..gen /\ job[i].mgr \in Gens
           /\ job[i].list \subseteq Bindings /\ job[i].todo \subseteq Bindings
           /\ job[i].kind \in {"load", "save"} /\ job[i].at \in Bindings \cup {None}
  <1>1. InOrder(i)
    BY DEF JobInv, Under, Unused
  <1>2. job[i].mgr \in 1..gen
    BY <1>1 DEF JobInv
  <1> QED
    BY <1>1, <1>2 DEF TypeOK, Gens, Job

\* The binding being attached is one its manager lists.
LEMMA HalfIsListed ==
    ASSUME TypeOK, JobInv, AttachInv, NEW i \in Ids, At(i, "half") \/ At(i, "whole")
    PROVE  job[i].at \in Bindings /\ job[i].at \in listed[job[i].mgr] \ Stopless
  <1>1. Under(i)
    BY DEF At, Under
  <1>2. job[i].mgr \in Gens
    BY <1>1, WorkManager
  <1>3. job[i].at \in listed[job[i].mgr] \ Stopless
    BY DEF AttachInv, AttachOK, At
  <1> QED
    BY <1>2, <1>3 DEF TypeOK

\* Once whole, a binding has both its triggers.
LEMMA StopIsLive ==
    ASSUME TypeOK, AttachInv, LiveInv, NEW i \in Ids, At(i, "whole")
    PROVE  /\ job[i].at \in Bindings
           /\ \A s \in Slots : <<i, job[i].at, s>> \in live
  <1>1. <<i, job[i].at, "start">> \in live
    BY DEF AttachInv, AttachOK, At
  <1>2. <<i, job[i].at, "stop">> \in live
    BY <1>1 DEF LiveInv, LiveOK, At
  <1> QED
    BY <1>1, <1>2, TriggerTypes DEF Slots

\* Types hold at the start.
LEMMA TypeInit == Init => TypeOK
  <1> SUFFICES ASSUME Init PROVE TypeOK
    OBVIOUS
  <1>1. Unused \in Job
    BY DEF Unused, Job, Phases
  <1>2. job \in [Ids -> Job]
    BY <1>1 DEF Init
  <1>3. unsubs \in [Gens -> SUBSET Triggers] /\ \A g \in Gens : unsubs[g] \subseteq Of(g)
    BY DEF Init
  <1>0. 0 \in 0..MaxLoads /\ 0 \in 0..(MaxLoads + MaxSaves)
    OBVIOUS
  <1>4. gen \in 0..MaxLoads /\ asked \in 0..(MaxLoads + MaxSaves)
    BY <1>0 DEF Init
  <1>8. stale \in BOOLEAN
    BY DEF Init
  <1>5. stage \in {"unloaded", "loading", "loaded"} /\ closed \subseteq Gens /\ store \subseteq Bindings
    BY DEF Init
  <1>6. listed \in [Gens -> SUBSET Bindings]
    BY DEF Init
  <1>7. live \subseteq Triggers /\ ramps \subseteq Ramps /\ loose \subseteq ramps
    BY DEF Init
  <1> QED
    BY <1>2, <1>3, <1>4, <1>5, <1>6, <1>7, <1>8 DEF TypeOK

\* A new job leaves the triggers to their managers.
LEMMA AsksType ==
    ASSUME TypeOK, LiveInv, NEW g \in Gens, NEW kind \in {"load", "save"},
           NEW list \in SUBSET Bindings, Asks(g, kind, list), asked + 1 \in Ids,
           live' = live, unsubs' = unsubs
    PROVE  /\ job' \in [Ids -> Job] /\ asked' \in Ids
           /\ \A h \in Gens : unsubs'[h] \subseteq Of(h)'
  <1>1. job' \in [Ids -> Job] /\ asked' = asked + 1 /\ \A j \in Ids : j # asked' => job'[j] = job[j]
    BY AsksNew
  <1>2. \A t \in live : t[1] \in Ids /\ t[1] <= asked
    BY TriggerTypes DEF LiveInv, LiveOK, InOrder
  <1>3. \A t \in live : job'[t[1]] = job[t[1]]
    BY <1>1, <1>2 DEF TypeOK, Ids
  <1> QED
    BY <1>1, <1>3 DEF TypeOK, Of

\* A job goes on only under the lock.
LEMMA WorkHolds ==
    ASSUME NEW i \in Ids, Work(i)
    PROVE  HasLock(i) /\ Under(i)
  BY DEF Work, Read, ReadFails, Write, WriteFails, Swap, StopNative, StopNativeFails, Attach, Skip,
     AttachStart, AttachStop, Commit, Rollback, Finish, HasLock

\* A step of a job: the types, the other jobs, and the set-up it may end.
LEMMA WorkMoves ==
    ASSUME IInv, NEW i \in Ids, Work(i)
    PROVE  /\ job' \in [Ids -> Job] /\ Moves(i) /\ asked' = asked
           /\ job'[i].phase \notin {"unused", "waiting"}
           /\ stage' = stage \/ (stage' = "loaded" /\ job[i].kind = "load" /\ job'[i].phase = "done")
  <1>0. TypeOK /\ JobInv
    BY DEF IInv
  <1>1. /\ Under(i) /\ job[i].mgr \in Gens
        /\ job[i].list \subseteq Bindings /\ job[i].todo \subseteq Bindings
    BY <1>0, WorkHolds, WorkManager
  <1>2. CASE Read(i)
    BY <1>0, <1>2, GoesMoves DEF Read, entry, TypeOK, Phases
  <1>3. CASE ReadFails(i)
    BY <1>0, <1>3, GoesMoves DEF ReadFails, Publish, Phases
  <1>4. CASE Write(i) \/ WriteFails(i)
    <2>1. Goes(i, "saved", {}) /\ asked' = asked /\ stage' = stage
      BY <1>4 DEF Write, WriteFails, entry
    <2> QED
      BY <1>0, <2>1, GoesMoves DEF Phases
  <1>5. CASE Swap(i)
    BY <1>0, <1>1, <1>5, GoesMoves DEF Swap, entry, Phases, TypeOK
  <1>6. CASE StopNative(i) \/ StopNativeFails(i)
    <2>1. /\ \E b \in job[i].todo : Goes(i, "stopping", job[i].todo \ {b})
          /\ asked' = asked /\ stage' = stage
      BY <1>6 DEF entry, StopNative, StopNativeFails
    <2> QED
      BY <1>0, <1>1, <2>1, GoesMoves DEF Phases
  <1>7. CASE Attach(i)
    BY <1>0, <1>1, <1>7, GoesMoves DEF Attach, entry, Phases
  <1>8. CASE Skip(i)
    BY <1>0, <1>1, <1>8, GoesMoves DEF Skip, entry, Phases
  <1>9. CASE AttachStart(i)
    BY <1>0, <1>1, <1>9, PlacesMoves DEF AttachStart, entry, Phases
  <1>10. CASE AttachStop(i)
    BY <1>0, <1>1, <1>10, GoesMoves DEF AttachStop, entry, Phases
  <1>11. CASE Commit(i) \/ Rollback(i)
    BY <1>0, <1>1, <1>11, PlacesMoves DEF entry, Commit, Rollback, Phases
  <1>12. CASE Finish(i)
    BY <1>0, <1>1, <1>12, GoesMoves DEF Finish, Publish, Phases
  <1> QED
    BY <1>2, <1>3, <1>4, <1>5, <1>6, <1>7, <1>8, <1>9, <1>10, <1>11, <1>12 DEF Work

\* Types are kept.
LEMMA TypeStep == IInv /\ [Next]_vars => TypeOK'
  <1> SUFFICES ASSUME IInv, [Next]_vars PROVE TypeOK'
    OBVIOUS
  <1>0. TypeOK /\ JobInv /\ LiveInv /\ EntryInv /\ AttachInv
    BY DEF IInv
  <1>1. CASE SetUp
    <2>1. asked + 1 \in Ids /\ gen + 1 \in Gens
      BY <1>0, <1>1 DEF SetUp, EntryInv, Ids, Gens, TypeOK
    <2>2. /\ job' \in [Ids -> Job] /\ asked' \in Ids
          /\ \A h \in Gens : unsubs'[h] \subseteq Of(h)'
      BY <1>0, <1>1, <2>1, AsksType DEF SetUp, triggers
    <2> QED
      BY <1>0, <1>1, <2>1, <2>2 DEF SetUp, TypeOK, Ids, Gens, triggers, bounds
  <1>2. CASE Unload
    <2>1. gen \in Gens
      BY <1>0, <1>2 DEF Unload, EntryInv
    <2>2. \A g \in Gens : unsubs'[g] \subseteq Of(g)'
      BY <1>0, <1>2, <2>1 DEF Unload, Of, TypeOK
    <2> QED
      BY <1>0, <1>2, <2>1, <2>2 DEF Unload, TypeOK, RampsBecome, bounds
  <1>3. CASE \E list \in SUBSET Bindings : Save(list)
    <2>1. PICK list \in SUBSET Bindings : Save(list)
      BY <1>3
    <2>2. asked + 1 \in Ids /\ gen \in Gens
      BY <1>0, <2>1 DEF Save, EntryInv, Ids, Gens, TypeOK
    <2>3. /\ job' \in [Ids -> Job] /\ asked' \in Ids
          /\ \A h \in Gens : unsubs'[h] \subseteq Of(h)'
      BY <1>0, <2>1, <2>2, AsksType DEF Save, triggers
    <2> QED
      BY <1>0, <2>1, <2>2, <2>3 DEF Save, TypeOK, Ids, Gens, triggers, entry
  <1>4. ASSUME NEW i \in Ids, Work(i) PROVE TypeOK'
    <2>1. /\ Under(i) /\ job[i].mgr \in Gens
          /\ job[i].list \subseteq Bindings /\ job[i].todo \subseteq Bindings
      BY <1>0, <1>4, WorkHolds, WorkManager DEF HasLock
    <2>2. job' \in [Ids -> Job] /\ Moves(i) /\ asked' = asked
      BY <1>4, WorkMoves
    <2>4. \A g \in Gens : \A t \in unsubs[g] : t \in live /\ job'[t[1]].mgr = g
      BY <1>0, <2>2, TriggerTypes DEF TypeOK, Of, Moves
    <2> USE DEF entry, triggers, bounds
    <2>5. CASE Read(i)
      BY <1>0, <2>1, <2>2, <2>4, <2>5 DEF Read, TypeOK, Of
    <2>13. CASE Write(i)
      BY <1>0, <2>1, <2>2, <2>4, <2>13 DEF Write, TypeOK, Of
    <2>17. CASE WriteFails(i)
      <3>1. stale' \in BOOLEAN
        BY <2>17 DEF WriteFails
      <3> QED
        BY <1>0, <2>1, <2>2, <2>4, <2>17, <3>1 DEF WriteFails, TypeOK, Of
    <2>14. CASE Attach(i)
      BY <1>0, <2>1, <2>2, <2>4, <2>14 DEF Attach, TypeOK, Of
    <2>15. CASE Skip(i)
      BY <1>0, <2>1, <2>2, <2>4, <2>15 DEF Skip, Trouble, TypeOK, Of
    <2>6. CASE ReadFails(i)
      BY <1>0, <2>1, <2>2, <2>4, <2>6 DEF ReadFails, Trouble, Publish, TypeOK, Of
    <2>7. CASE Swap(i)
      BY <1>0, <2>1, <2>2, <2>4, <2>7 DEF Swap, RampsBecome, TypeOK, Of, Triggers
    <2>8. CASE StopNative(i) \/ StopNativeFails(i)
      BY <1>0, <2>1, <2>2, <2>4, <2>8 DEF StopNative, StopNativeFails, RampsBecome, TypeOK, Of
    <2>9. CASE AttachStart(i)
      <3>2. PICK b \in job[i].todo : live' = live \cup {<<i, b, "start">>}
        BY <2>9 DEF AttachStart
      <3>3. <<i, b, "start">> \in Triggers
        BY <2>1, <3>2 DEF Triggers, Slots
      <3>4. live \subseteq Triggers
        BY <1>0 DEF TypeOK
      <3>1. live \subseteq live' /\ live' \subseteq Triggers
        BY <3>2, <3>3, <3>4
      <3> QED
        BY <1>0, <2>1, <2>2, <2>4, <2>9, <3>1 DEF AttachStart, TypeOK, Of
    <2>10. CASE AttachStop(i)
      <3>0. job[i].at \in Bindings
        BY <1>0, <2>1, <2>10, HalfIsListed DEF AttachStop
      <3>2. <<i, job[i].at, "stop">> \in Triggers
        BY <3>0 DEF Triggers, Slots
      <3>3. live \subseteq Triggers
        BY <1>0 DEF TypeOK
      <3>1. live \subseteq live' /\ live' \subseteq Triggers
        BY <2>10, <3>2, <3>3 DEF AttachStop
      <3> QED
        BY <1>0, <2>1, <2>2, <2>4, <2>10, <3>1 DEF AttachStop, TypeOK, Of
    <2>11. CASE Commit(i)
      <3>1. \A s \in Slots : <<i, job[i].at, s>> \in live
        BY <1>0, <2>11, StopIsLive DEF Commit
      <3>2. \A g \in Gens : unsubs'[g] \subseteq Of(g)'
        BY <1>0, <2>1, <2>2, <2>4, <2>11, <3>1 DEF Commit, TypeOK, Of, Moves
      <3>3. unsubs' \in [Gens -> SUBSET Triggers]
        BY <1>0, <2>1, <2>11, <3>1 DEF Commit, TypeOK
      <3> QED
        BY <1>0, <2>1, <2>2, <2>11, <3>2, <3>3 DEF Commit, TypeOK
    <2>12. CASE Rollback(i)
      <3>1. \A s \in Slots : <<i, job[i].at, s>> \notin unsubs[job[i].mgr]
        BY <1>0, <2>12 DEF Rollback, At, AttachInv, AttachOK
      <3>2. \A g \in Gens : \A t \in unsubs[g] : t \in live'
        BY <1>0, <2>1, <2>4, <2>12, <3>1 DEF Rollback, Of, TypeOK
      <3> QED
        BY <1>0, <2>1, <2>2, <2>4, <2>12, <3>2 DEF Rollback, Trouble, TypeOK, Of
    <2>16. CASE Finish(i)
      BY <1>0, <2>1, <2>2, <2>4, <2>16 DEF Finish, Publish, TypeOK, Of, Triggers
    <2> QED
      BY <1>4, <2>5, <2>6, <2>7, <2>8, <2>9, <2>10, <2>11, <2>12, <2>13, <2>14, <2>15, <2>16, <2>17 DEF Work
  <1>5. ASSUME NEW t \in live, Press(t) \/ Release(t) PROVE TypeOK'
    <2>1. t[1] \in Ids /\ t[2] \in Bindings /\ job[t[1]].mgr \in 0..MaxLoads
      BY <1>0, TriggerTypes DEF TypeOK, Job
    <2>2. CASE Press(t)
      <3>1. job[t[1]].mgr \in Gens
        BY <1>0, <2>1, LiveManager DEF IInv
      <3> QED
        BY <1>0, <2>1, <3>1, <2>2 DEF Press, TypeOK, Ramps, entry, triggers, bounds, Of
    <2>3. CASE Release(t)
      BY <1>0, <2>1, <2>3 DEF Release, RampsBecome, TypeOK, Ramps, entry, triggers, bounds, Of
    <2> QED
      BY <1>5, <2>2, <2>3
  <1>6. ASSUME NEW r \in ramps, RampEnds(r) PROVE TypeOK'
    BY <1>0, <1>6 DEF RampEnds, RampsBecome, TypeOK, entry, triggers, bounds, Of
  <1>7. CASE UNCHANGED vars
    BY <1>0, <1>7 DEF vars, TypeOK, entry, triggers, bounds, Of
  <1> QED
    BY <1>1, <1>2, <1>3, <1>4, <1>5, <1>6, <1>7 DEF Next

-----------------------------------------------------------------------------
(* What a step leaves alone. *)

\* The remote and the end of a ramp touch nothing but the ramps.
Still == UNCHANGED <<gen, stage, closed, store, listed, live, unsubs, job, asked, stale, saves>>

\* The steps: of the entry, of a job, or of the remote.
LEMMA NextSplits ==
    ASSUME [Next]_vars
    PROVE  \/ SetUp \/ Unload \/ \E list \in SUBSET Bindings : Save(list)
           \/ \E i \in Ids : Work(i)
           \/ Still
  BY DEF Next, Still, Press, Release, RampEnds, vars, entry, triggers, bounds

\* Of a manager's jobs only the one that holds the lock is past it, and its load came first.
LEMMA OthersIdle ==
    ASSUME TypeOK, JobInv, LockInv, NEW i \in Ids, HasLock(i), NEW j \in Ids, j # i,
           job[j].mgr = job[i].mgr
    PROVE  /\ Under(j) => At(j, "waiting") /\ job[j].kind = "save"
           /\ job[j].phase \notin Active \cup {"stopping", "saved"}
  <1>1. CASE ~Under(j)
    BY <1>1 DEF Under, Active
  <1>2. CASE Under(j)
    <2>1. i < j
      BY <1>2 DEF HasLock, Ids
    <2>2. At(j, "waiting")
      BY <1>2, <2>1 DEF LockInv, HasLock
    <2>3. job[j].kind # "load"
      BY <1>2, <2>1, WorkManager DEF JobInv, HasLock, Ids
    <2>4. job[j].kind \in {"load", "save"}
      BY <1>2, WorkManager
    <2> QED
      BY <2>2, <2>3, <2>4 DEF At, Active
  <1> QED
    BY <1>1, <1>2

\* A job leaves the other managers and their triggers alone.
LEMMA WorkFrame ==
    ASSUME IInv, NEW i \in Ids, Work(i)
    PROVE  /\ \A g \in Gens : g # job[i].mgr => listed'[g] = listed[g] /\ unsubs'[g] = unsubs[g]
           /\ \A t \in live' : t \in live \/ t[1] = i
           /\ \A t \in live : job[t[1]].mgr # job[i].mgr => t \in live'
           /\ UNCHANGED <<gen, closed, saves>>
  <1>0. TypeOK /\ AttachInv
    BY DEF IInv
  <1>2. job[i].mgr \in Gens /\ i \in DOMAIN job
    BY <1>0, WorkHolds, WorkManager DEF TypeOK, IInv
  <1>3. \A t \in unsubs[job[i].mgr] : job[t[1]].mgr = job[i].mgr
    BY <1>0, <1>2 DEF TypeOK, Of
  <1> USE DEF entry, triggers, bounds
  <1>4. CASE Read(i) \/ ReadFails(i) \/ Write(i) \/ WriteFails(i)
    BY <1>0, <1>2, <1>4 DEF Read, ReadFails, Write, WriteFails, Trouble, TypeOK
  <1>5. CASE Swap(i)
    BY <1>0, <1>2, <1>3, <1>5 DEF Swap, TypeOK
  <1>6. CASE StopNative(i) \/ StopNativeFails(i) \/ Attach(i) \/ Skip(i)
    BY <1>0, <1>2, <1>6 DEF StopNative, StopNativeFails, Attach, Skip, Trouble, TypeOK
  <1>7. CASE AttachStart(i) \/ AttachStop(i)
    <2>1. PICK b, s : live' = live \cup {<<i, b, s>>}
      BY <1>7 DEF AttachStart, AttachStop
    <2>2. UNCHANGED <<listed, unsubs, gen, closed, saves>>
      BY <1>7 DEF AttachStart, AttachStop
    <2> QED
      BY <2>1, <2>2
  <1>8. CASE Commit(i) \/ Rollback(i)
    BY <1>0, <1>2, <1>8 DEF Commit, Rollback, Trouble, TypeOK
  <1>9. CASE Finish(i)
    BY <1>0, <1>2, <1>3, <1>9 DEF Finish, TypeOK
  <1> QED
    BY <1>4, <1>5, <1>6, <1>7, <1>8, <1>9 DEF Work

-----------------------------------------------------------------------------
(* The entry, the jobs and the lock. *)

\* Managers are shut down in the order they were made.
LEMMA EntryStep == IInv /\ [Next]_vars => EntryInv'
  <1> SUFFICES ASSUME IInv, [Next]_vars PROVE EntryInv'
    OBVIOUS
  <1>0. TypeOK /\ JobInv /\ EntryInv
    BY DEF IInv
  <1>1. CASE SetUp
    BY <1>0, <1>1 DEF SetUp, Asks, EntryInv, TypeOK, Gens, bounds
  <1>2. CASE Unload
    BY <1>0, <1>2 DEF Unload, EntryInv, TypeOK, Gens, bounds
  <1>3. CASE \E list \in SUBSET Bindings : Save(list)
    BY <1>0, <1>3 DEF Save, Asks, EntryInv, TypeOK, entry
  <1>4. ASSUME NEW i \in Ids, Work(i) PROVE EntryInv'
    <2>1. asked' = asked /\ UNCHANGED <<gen, closed, saves>>
      BY <1>4, WorkMoves, WorkFrame
    <2>2. stage' = stage \/ (stage' = "loaded" /\ job[i].kind = "load")
      BY <1>4, WorkMoves
    <2>3. job[i].kind = "load" => stage = "loading"
      BY <1>0, <1>4, WorkHolds, WorkManager DEF JobInv
    <2> QED
      BY <1>0, <2>1, <2>2, <2>3 DEF EntryInv
  <1>5. CASE Still
    BY <1>0, <1>5 DEF Still, EntryInv
  <1> QED
    BY <1>1, <1>2, <1>3, <1>4, <1>5, NextSplits

\* Jobs come in order, the load of a manager first.
LEMMA JobStep == IInv /\ [Next]_vars => JobInv'
  <1> SUFFICES ASSUME IInv, [Next]_vars PROVE JobInv'
    OBVIOUS
  <1>0. TypeOK /\ JobInv /\ EntryInv
    BY DEF IInv
  <1>1. CASE SetUp
    <2>0. Asks(gen + 1, "load", {}) /\ gen' = gen + 1
      BY <1>1 DEF SetUp
    <2>1. asked + 1 \in Ids /\ gen + 1 \in Gens /\ gen' = gen + 1
      BY <1>0, <1>1 DEF SetUp, EntryInv, Ids, Gens, TypeOK
    <2>2. /\ asked' = asked + 1 /\ \A j \in Ids : j # asked' => job'[j] = job[j]
          /\ job'[asked'] = [mgr |-> gen', kind |-> "load", list |-> {}, phase |-> "waiting",
                             todo |-> {}, at |-> None]
      BY <1>0, <2>0, <2>1, AsksNew
    <2>3. PICK n \in Ids : n = asked + 1
      BY <2>1
    <2>4. /\ stage' = "loading" /\ asked \in Nat /\ gen \in Nat
          /\ \A j \in Ids : j \in Nat /\ (j # n => (j <= n <=> j <= asked))
      BY <1>0, <1>1, <2>3 DEF SetUp, TypeOK, Ids
    <2>5. /\ job'[n].mgr = gen + 1 /\ job'[n].phase = "waiting" /\ job'[n].kind = "load"
          /\ \A j \in Ids : j # n => job'[j] = job[j]
          /\ \A j \in Ids : InOrder(j)' <=> j <= n
      BY <2>1, <2>2, <2>3 DEF InOrder
    <2>6. \A j \in Ids : j # n => (InOrder(j)' <=> InOrder(j))
      BY <2>4, <2>5 DEF InOrder
    <2>7. \A j \in Ids : j # n /\ InOrder(j) => job[j].phase # "unused" /\ job[j].mgr \in 1..gen
      BY <1>0 DEF JobInv
    <2>8. \A j \in Ids : ~InOrder(j)' => job'[j] = Unused
      <3>1. n <= n
        BY <2>4
      <3> QED
        BY <1>0, <2>5, <2>6, <3>1 DEF JobInv
    <2>9. \A j \in Ids : InOrder(j)' => job'[j].phase # "unused" /\ job'[j].mgr \in 1..gen'
      <3>1. gen + 1 \in 1..gen' /\ \A g \in 1..gen : g \in 1..gen'
        BY <2>1, <2>4
      <3> QED
        BY <2>5, <2>6, <2>7, <3>1
    <2>10. \A j \in Ids : InOrder(j)' /\ job'[j].kind = "load" /\ Under(j)'
                          => stage' = "loading" /\ job'[j].mgr = gen'
      <3>1. \A j \in Ids : InOrder(j) /\ job[j].kind = "load" => ~Under(j)
        BY <1>0, <1>1 DEF SetUp, JobInv
      <3> QED
        BY <2>1, <2>4, <2>5, <2>6, <3>1 DEF Under
    <2>11. ASSUME NEW i \in Ids, InOrder(i)', job'[i].kind = "load",
                  NEW j \in Ids, InOrder(j)', job'[j].mgr = job'[i].mgr
           PROVE  i <= j
      <3>1. CASE j = n
        BY <3>1, <2>5, <2>11
      <3>2. CASE j # n
        <4>1. job'[j] = job[j] /\ job[j].mgr \in 1..gen /\ InOrder(j)
          BY <3>2, <2>5, <2>6, <2>7, <2>11
        <4>2. i # n
          BY <4>1, <2>4, <2>5, <2>11
        <4> QED
          BY <4>1, <4>2, <1>0, <2>5, <2>6, <2>11 DEF JobInv
      <3> QED
        BY <3>1, <3>2
    <2> QED
      BY <2>8, <2>9, <2>10, <2>11 DEF JobInv
  <1>2. CASE Unload
    BY <1>0, <1>2 DEF Unload, JobInv, InOrder, Under
  <1>3. ASSUME NEW list \in SUBSET Bindings, Save(list) PROVE JobInv'
    <2>0. Asks(gen, "save", list)
      BY <1>3 DEF Save
    <2>1. asked + 1 \in Ids /\ gen \in Gens
      BY <1>0, <1>3 DEF Save, EntryInv, Ids, Gens, TypeOK
    <2>2. /\ asked' = asked + 1 /\ \A j \in Ids : j # asked' => job'[j] = job[j]
          /\ job'[asked'] = [mgr |-> gen, kind |-> "save", list |-> list, phase |-> "waiting",
                             todo |-> {}, at |-> None]
      BY <1>0, <2>0, <2>1, AsksNew
    <2>3. \A j \in Ids : InOrder(j)' <=> InOrder(j) \/ j = asked'
      BY <1>0, <2>2 DEF InOrder, TypeOK, Ids
    <2>4. UNCHANGED <<stage, gen>> /\ stage = "loaded"
      BY <1>3 DEF Save, entry
    <2>5. \A j \in Ids : Under(j) => job[j].kind # "load"
      BY <1>0, <2>4 DEF JobInv, Under, Unused
    <2>6. ~InOrder(asked')
      BY <1>0, <2>2 DEF InOrder, TypeOK
    <2>7. \A j \in Ids : /\ ~InOrder(j)' => job'[j] = Unused
                         /\ InOrder(j)' => job'[j].phase # "unused" /\ job'[j].mgr \in 1..gen'
      BY <1>0, <2>1, <2>2, <2>3, <2>4 DEF JobInv, Gens, TypeOK
    <2>8. ASSUME NEW j \in Ids, InOrder(j)', job'[j].kind = "load"
          PROVE  /\ ~Under(j)'
                 /\ \A k \in Ids : InOrder(k)' /\ job'[k].mgr = job'[j].mgr => j <= k
      <3>1. InOrder(j) /\ job'[j] = job[j] /\ j <= asked
        BY <2>2, <2>3, <2>8 DEF InOrder
      <3>2. ~Under(j)'
        BY <2>5, <2>8, <3>1 DEF Under
      <3>3. ASSUME NEW k \in Ids, InOrder(k)', job'[k].mgr = job'[j].mgr PROVE j <= k
        <4>1. CASE k = asked'
          BY <1>0, <2>2, <3>1, <4>1 DEF TypeOK, Ids
        <4>2. CASE k # asked'
          BY <1>0, <2>2, <2>3, <2>8, <3>1, <3>3, <4>2 DEF JobInv
        <4> QED
          BY <4>1, <4>2
      <3> QED
        BY <3>2, <3>3
    <2>9. \A j \in Ids : InOrder(j)' /\ job'[j].kind = "load" =>
            /\ Under(j)' => stage' = "loading" /\ job'[j].mgr = gen'
            /\ \A k \in Ids : InOrder(k)' /\ job'[k].mgr = job'[j].mgr => j <= k
      BY <2>8
    <2> QED
      BY <2>7, <2>9 DEF JobInv
  <1>4. ASSUME NEW i \in Ids, Work(i) PROVE JobInv'
    <2>1. Moves(i) /\ asked' = asked /\ gen' = gen
      BY <1>4, WorkMoves, WorkFrame
    <2>2. Under(i) /\ InOrder(i)
      BY <1>0, <1>4, WorkHolds, WorkManager
    <2>3. stage' = stage \/ (stage' = "loaded" /\ job[i].kind = "load" /\ job'[i].phase = "done")
      BY <1>4, WorkMoves
    <2>4. job'[i].phase # "unused"
      BY <1>4, WorkMoves
    <2>5. \A j \in Ids : Under(j)' => Under(j)
      BY <2>1, <2>2 DEF Moves, Under
    <2>6. ASSUME NEW j \in Ids, InOrder(j), job[j].kind = "load", Under(j)' PROVE stage' = "loading" /\ job[j].mgr = gen
      <3>1. Under(j) /\ stage = "loading" /\ job[j].mgr = gen
        BY <1>0, <2>5, <2>6 DEF JobInv
      <3>2. CASE stage' # stage
        <4>1. job[i].mgr = gen
          BY <1>0, <2>2, <2>3, <3>2 DEF JobInv
        <4>2. i <= j /\ j <= i
          BY <1>0, <2>2, <2>3, <2>6, <3>1, <3>2, <4>1 DEF JobInv
        <4>3. i = j
          BY <4>2 DEF Ids
        <4> QED
          BY <2>3, <2>6, <3>2, <4>3 DEF Under
      <3> QED
        BY <3>1, <3>2
    <2> QED
      BY <1>0, <2>1, <2>2, <2>4, <2>5, <2>6 DEF JobInv, Moves, InOrder
  <1>5. CASE Still
    BY <1>0, <1>5 DEF Still, JobInv, InOrder, Under
  <1> QED
    BY <1>1, <1>2, <1>3, <1>4, <1>5, NextSplits

\* One job of a manager at most is past its lock.
LEMMA LockStep == IInv /\ [Next]_vars => LockInv'
  <1> SUFFICES ASSUME IInv, [Next]_vars PROVE LockInv'
    OBVIOUS
  <1>0. TypeOK /\ JobInv /\ EntryInv /\ LockInv
    BY DEF IInv
  <1>6. \A j \in Ids : Under(j) => j <= asked /\ job[j].mgr \in 1..gen
    BY <1>0, WorkManager DEF InOrder
  <1>1. CASE SetUp
    <2>0. Asks(gen + 1, "load", {}) /\ gen' = gen + 1
      BY <1>1 DEF SetUp
    <2>1. asked + 1 \in Ids /\ gen + 1 \in Gens
      BY <1>0, <1>1 DEF SetUp, EntryInv, Ids, Gens, TypeOK
    <2>3. /\ asked' = asked + 1 /\ \A j \in Ids : j # asked' => job'[j] = job[j]
          /\ job'[asked'] = [mgr |-> gen + 1, kind |-> "load", list |-> {}, phase |-> "waiting",
                             todo |-> {}, at |-> None]
      BY <1>0, <2>0, <2>1, AsksNew
    <2>2. /\ \A j \in Ids : j # asked + 1 => job'[j] = job[j]
          /\ job'[asked + 1].mgr = gen + 1 /\ job'[asked + 1].phase = "waiting"
      BY <2>3
    <2> QED
      BY <1>0, <1>6, <2>1, <2>2 DEF LockInv, Under, At, TypeOK, Ids
  <1>2. CASE Unload
    BY <1>0, <1>2 DEF Unload, LockInv, Under, At
  <1>3. ASSUME NEW list \in SUBSET Bindings, Save(list) PROVE LockInv'
    <2>0. Asks(gen, "save", list)
      BY <1>3 DEF Save
    <2>1. asked + 1 \in Ids /\ gen \in Gens
      BY <1>0, <1>3 DEF Save, EntryInv, Ids, Gens, TypeOK
    <2>3. /\ asked' = asked + 1 /\ \A j \in Ids : j # asked' => job'[j] = job[j]
          /\ job'[asked'] = [mgr |-> gen, kind |-> "save", list |-> list, phase |-> "waiting",
                             todo |-> {}, at |-> None]
      BY <1>0, <2>0, <2>1, AsksNew
    <2>2. /\ \A j \in Ids : j # asked + 1 => job'[j] = job[j]
          /\ job'[asked + 1].phase = "waiting"
      BY <2>3
    <2> QED
      BY <1>0, <1>6, <2>1, <2>2 DEF LockInv, Under, At, TypeOK, Ids
  <1>4. ASSUME NEW i \in Ids, Work(i) PROVE LockInv'
    <2>1. Moves(i) /\ HasLock(i) /\ Under(i)
      BY <1>4, WorkMoves, WorkHolds
    <2>2. \A j \in Ids : Under(j)' => Under(j)
      BY <2>1 DEF Moves, Under
    <2>3. \A j \in Ids : j < i /\ job[j].mgr = job[i].mgr => ~Under(j)
      BY <2>1 DEF HasLock, Ids
    <2> QED
      BY <1>0, <2>1, <2>2, <2>3 DEF LockInv, Moves, At
  <1>5. CASE Still
    BY <1>0, <1>5 DEF Still, LockInv, Under, At
  <1> QED
    BY <1>1, <1>2, <1>3, <1>4, <1>5, NextSplits

-----------------------------------------------------------------------------
(* The triggers. *)

\* A job that is asked for leaves the rest as it is.
LEMMA NewJob ==
    ASSUME IInv, SetUp \/ \E list \in SUBSET Bindings : Save(list)
    PROVE  /\ asked' \in Ids /\ \A j \in Ids : j # asked' => job'[j] = job[j]
           /\ job'[asked'].mgr = gen' /\ job'[asked'].phase = "waiting"
           /\ job'[asked'].kind = IF stage = "loaded" THEN "save" ELSE "load"
           /\ job[asked'] = Unused /\ asked' = asked + 1
           /\ UNCHANGED <<closed, listed, store, live, unsubs, ramps, loose, stale>>
  <1>0. TypeOK /\ EntryInv /\ JobInv
    BY DEF IInv
  <1>1. /\ asked + 1 \in Ids /\ gen' \in Gens
        /\ \E kind \in {"load", "save"}, list \in SUBSET Bindings :
              Asks(gen', kind, list) /\ kind = IF stage = "loaded" THEN "save" ELSE "load"
    <2>1. CASE SetUp
      BY <1>0, <2>1 DEF SetUp, EntryInv, TypeOK, Ids, Gens
    <2>2. CASE \E list \in SUBSET Bindings : Save(list)
      BY <1>0, <2>2 DEF Save, entry, EntryInv, TypeOK, Ids, Gens
    <2> QED
      BY <2>1, <2>2
  <1>2. PICK kind \in {"load", "save"}, list \in SUBSET Bindings :
           Asks(gen', kind, list) /\ kind = IF stage = "loaded" THEN "save" ELSE "load"
    BY <1>1
  <1>3. /\ asked' = asked + 1 /\ \A j \in Ids : j # asked' => job'[j] = job[j]
        /\ job'[asked'] = [mgr |-> gen', kind |-> kind, list |-> list, phase |-> "waiting",
                           todo |-> {}, at |-> None]
    BY <1>0, <1>1, <1>2, AsksNew
  <1>4. job[asked'] = Unused
    BY <1>0, <1>1, <1>3 DEF JobInv, InOrder, TypeOK
  <1>5. UNCHANGED <<closed, listed, store, live, unsubs, ramps, loose, stale>>
    BY DEF SetUp, Save, entry, triggers
  <1> QED
    BY <1>1, <1>2, <1>3, <1>4, <1>5

\* A trigger of a job comes with one of its later phases.
LEMMA LiveOfJob ==
    ASSUME TypeOK, LiveInv, NEW i \in Ids, NEW t \in live, t[1] = i
    PROVE  job[i].phase \in Active \cup {"done"}
  BY DEF LiveInv, LiveOK

\* What a job has left to attach is listed and not attached.
LEMMA AttachStep == IInv /\ [Next]_vars => AttachInv'
  <1> SUFFICES ASSUME IInv, [Next]_vars, NEW j \in Ids PROVE AttachOK(j)'
    BY DEF AttachInv
  <1>0. TypeOK /\ JobInv /\ LockInv /\ LiveInv /\ AttachOK(j)
    BY DEF IInv, AttachInv
  <1>7. Under(j) => job[j].mgr \in Gens
    BY <1>0, WorkManager
  <1>1. CASE SetUp \/ \E list \in SUBSET Bindings : Save(list)
    BY <1>0, <1>1, NewJob DEF AttachOK, At, Active
  <1>2. CASE Unload
    <2>0. gen \in Gens
      BY <1>2 DEF IInv, EntryInv, Unload
    <2>1. \A t \in unsubs[gen] : job[t[1]].mgr = gen
      BY <1>0, <2>0 DEF TypeOK, Of
    <2>2. live' = live \ unsubs[gen] /\ UNCHANGED <<job, listed>>
      BY <1>2 DEF Unload
    <2>3. \A g \in Gens : unsubs'[g] \subseteq unsubs[g]
      BY <1>0, <1>2, <2>0 DEF Unload, TypeOK
    <2>4. ASSUME job[j].phase \in {"half", "whole"}
          PROVE  /\ \A s \in Slots : <<j, job[j].at, s>> \notin unsubs'[job[j].mgr]
                 /\ <<j, job[j].at, "start">> \in live'
      <3>1. /\ \A s \in Slots : <<j, job[j].at, s>> \notin unsubs[job[j].mgr]
            /\ <<j, job[j].at, "start">> \in live
        BY <1>0, <2>4 DEF AttachOK
      <3>2. job[j].mgr \in Gens
        BY <1>7, <2>4 DEF Under
      <3>3. <<j, job[j].at, "start">> \notin unsubs[gen]
        BY <2>1, <3>1 DEF Slots
      <3> QED
        BY <2>2, <2>3, <3>1, <3>2, <3>3
    <2> QED
      BY <1>0, <2>2, <2>4 DEF AttachOK, At
  <1>3. ASSUME NEW i \in Ids, Work(i), j # i PROVE AttachOK(j)'
    <2>1. HasLock(i) /\ job'[j] = job[j]
      BY <1>3, WorkHolds, WorkMoves DEF Moves
    <2>2. CASE job[j].mgr = job[i].mgr
      BY <1>0, <1>3, <2>1, <2>2, OthersIdle DEF AttachOK, At, Active
    <2>3. CASE job[j].mgr # job[i].mgr /\ Under(j)
      <3>1. listed'[job[j].mgr] = listed[job[j].mgr] /\ unsubs'[job[j].mgr] = unsubs[job[j].mgr]
        BY <1>3, <1>7, <2>3, WorkFrame
      <3>2. \A b \in Bindings, s \in Slots : <<j, b, s>> \in live' <=> <<j, b, s>> \in live
        BY <1>3, <2>3, WorkFrame
      <3>3. job[j].todo \subseteq Bindings
        BY <1>0 DEF TypeOK, Job
      <3>4. job[j].phase \in {"half", "whole"} => job[j].at \in Bindings
        BY <1>0, HalfIsListed DEF IInv, At
      <3> QED
        BY <1>0, <2>1, <3>1, <3>2, <3>3, <3>4 DEF AttachOK, At, Slots, Active
    <2>4. CASE ~Under(j)
      BY <2>1, <2>4 DEF Under, AttachOK, At, Active
    <2> QED
      BY <2>2, <2>3, <2>4
  <1>4. ASSUME Work(j) PROVE AttachOK(j)'
    <2>1. HasLock(j) /\ Under(j) /\ job[j].mgr \in Gens
      BY <1>4, <1>7, WorkHolds
    <2>2. \A t \in live : t[1] = j => job[j].phase \in Active \cup {"done"}
      BY <1>0, LiveOfJob
    <2>3. job'[j].mgr = job[j].mgr /\ job'[j].list = job[j].list
      BY <1>4, WorkMoves DEF Moves
    <2>4. job \in [Ids -> Job] /\ listed \in [Gens -> SUBSET Bindings] /\ job[j].todo \subseteq Bindings
      BY <1>0 DEF TypeOK, Job
    <2> USE DEF triggers
    <2>5. CASE Read(j)
      <3>1. job'[j].phase = "attaching" /\ job'[j].todo = store /\ listed'[job[j].mgr] = store
        BY <1>0, <2>1, <2>4, <2>5, GoesTo DEF Read
      <3>2. \A b \in store, s \in Slots : <<j, b, s>> \notin live'
        BY <2>2, <2>5 DEF Read, At, Active
      <3> QED
        BY <2>3, <3>1, <3>2 DEF AttachOK, At
    <2>6. CASE ReadFails(j) \/ Write(j) \/ WriteFails(j) \/ Finish(j)
      <3>1. job'[j].phase \in {"done", "saved"}
        BY <1>0, <2>6, GoesTo DEF ReadFails, Write, WriteFails, Finish
      <3> QED
        BY <3>1 DEF AttachOK, At, Active
    <2>7. CASE Swap(j)
      <3>1. job'[j].phase = "stopping" /\ listed'[job[j].mgr] = job[j].list
        BY <1>0, <2>1, <2>4, <2>7, GoesTo DEF Swap
      <3> QED
        BY <2>3, <3>1 DEF AttachOK, At, Active
    <2>8. CASE StopNative(j) \/ StopNativeFails(j)
      <3>1. job'[j].phase = "stopping" /\ listed' = listed
        BY <1>0, <2>8, GoesTo DEF StopNative, StopNativeFails
      <3>2. At(j, "stopping")
        BY <2>8 DEF StopNative, StopNativeFails
      <3> QED
        BY <1>0, <2>3, <3>1, <3>2 DEF AttachOK, At, Active
    <2>9. CASE Attach(j)
      <3>1. /\ job'[j].phase = "done" \/ (job'[j].phase = "attaching" /\ job'[j].todo = job[j].list)
            /\ listed' = listed /\ live' = live /\ At(j, "stopping")
        BY <1>0, <2>9, GoesTo DEF Attach
      <3>2. \A b \in Bindings, s \in Slots : <<j, b, s>> \notin live'
        BY <2>2, <3>1 DEF At, Active
      <3>3. job[j].list \subseteq Bindings
        BY <2>4 DEF Job
      <3> QED
        BY <1>0, <2>3, <3>1, <3>2, <3>3 DEF AttachOK, At, Active
    <2>10. CASE Skip(j)
      <3>1. /\ job'[j].phase = "attaching" /\ job'[j].todo \subseteq job[j].todo
            /\ listed' = listed /\ live' = live /\ At(j, "attaching")
        BY <1>0, <2>10, GoesTo DEF Skip
      <3> QED
        BY <1>0, <2>3, <3>1 DEF AttachOK, At, Active
    <2>11. CASE AttachStart(j)
      <3>1. PICK b \in job[j].todo \ Stopless :
               live' = live \cup {<<j, b, "start">>} /\ Places(j, "half", b, job[j].todo \ {b})
        BY <2>11 DEF AttachStart
      <3>2. /\ job'[j].phase = "half" /\ job'[j].at = b /\ job'[j].todo = job[j].todo \ {b}
            /\ listed' = listed /\ unsubs' = unsubs /\ At(j, "attaching")
        BY <1>0, <2>11, <3>1, PlacesTo DEF AttachStart
      <3>3. \A s \in Slots : <<j, b, s>> \notin unsubs[job[j].mgr]
        BY <1>0, <2>1, <3>1, <3>2 DEF AttachOK, At, Active, TypeOK, Of
      <3> QED
        BY <1>0, <2>3, <3>1, <3>2, <3>3 DEF AttachOK, At, Active
    <2>12. CASE AttachStop(j)
      <3>1. /\ live' = live \cup {<<j, job[j].at, "stop">>}
            /\ job'[j].phase = "whole" /\ job'[j].at = job[j].at /\ job'[j].todo = job[j].todo
            /\ listed' = listed /\ unsubs' = unsubs /\ At(j, "half")
        BY <1>0, <2>12, GoesTo DEF AttachStop
      <3> QED
        BY <1>0, <2>3, <3>1 DEF AttachOK, At, Active
    <2>13. CASE Commit(j) \/ Rollback(j)
      <3>1. /\ live' \subseteq live
            /\ job'[j].phase = "attaching" /\ job'[j].todo = job[j].todo
            /\ listed' = listed /\ job[j].phase \in Active
        BY <1>0, <2>13, PlacesTo DEF Commit, Rollback, At, Active
      <3> QED
        BY <1>0, <2>3, <3>1 DEF AttachOK, At
    <2> QED
      BY <1>4, <2>5, <2>6, <2>7, <2>8, <2>9, <2>10, <2>11, <2>12, <2>13 DEF Work
  <1>5. CASE Still
    BY <1>0, <1>5 DEF Still, AttachOK, At
  <1> QED
    BY <1>1, <1>2, <1>3, <1>4, <1>5, NextSplits

\* A trigger stays as it is while a job of another manager moves.
LEMMA LiveElsewhere ==
    ASSUME IInv, NEW i \in Ids, Work(i), NEW t \in live', job'[t[1]].mgr # job[i].mgr
    PROVE  LiveOK(t)'
  <1>0. TypeOK /\ JobInv /\ LiveInv
    BY DEF IInv
  <1>1. t \in live /\ t[1] # i
    BY WorkFrame, WorkMoves DEF Moves
  <1>2. t[1] \in Ids /\ t[2] \in Bindings /\ t[3] \in Slots /\ job[t[1]].mgr \in Gens
    BY <1>0, <1>1, TriggerTypes, LiveManager
  <1> DEFINE h == job[t[1]].mgr
  <1>3. h # job[i].mgr /\ job'[t[1]].mgr = h
    BY <1>1, <1>2, WorkMoves DEF Moves
  <1>4. \A j \in Ids : job'[j].mgr = h => job'[j] = job[j] /\ job[j].mgr = h
    BY <1>3, WorkMoves DEF Moves
  <1>5. listed'[h] = listed[h] /\ unsubs'[h] = unsubs[h] /\ closed' = closed /\ asked' = asked
    BY <1>2, <1>3, WorkFrame, WorkMoves
  <1>6. \A u \in live' : job'[u[1]].mgr = h => u \in live /\ job[u[1]].mgr = h
    <2> SUFFICES ASSUME NEW u \in live', job'[u[1]].mgr = h
                 PROVE  u \in live /\ job[u[1]].mgr = h
      OBVIOUS
    <2>1. u[1] # i
      BY <1>3, WorkMoves DEF Moves
    <2>2. u \in live
      BY <2>1, WorkFrame
    <2> QED
      BY <1>0, <1>4, <2>2, TriggerTypes
  <1>7. \A u \in live : job[u[1]].mgr = h => u \in live'
    BY <1>3, WorkFrame
  <1>8. LiveOK(t)
    BY <1>0, <1>1 DEF LiveInv
  <1>9. <<t[1], t[2], "stop">> \in live => <<t[1], t[2], "stop">> \in live'
    BY <1>7
  <1>10. job'[t[1]] = job[t[1]]
    BY <1>2, <1>3, <1>4
  <1>11. \A u \in Of(h)' : u \in Of(h)
    BY <1>3, <1>6 DEF Of
  <1>12. h \in closed => \E j \in Ids : job'[j].mgr = h /\ job'[j].phase \in Active
    <2>1. \A j \in Ids : job[j].mgr = h => job'[j] = job[j]
      BY <1>3, WorkMoves DEF Moves
    <2> QED
      BY <1>8, <2>1 DEF LiveOK
  <1>13. ASSUME NEW j \in Ids, job'[j].mgr = h
         PROVE  /\ job'[j].phase \in Active \cup {"stopping"} => j = t[1]
                /\ At(j, "waiting")' => job'[j].kind = "save"
    BY <1>4, <1>8, <1>13 DEF LiveOK, At
  <1>14. /\ InOrder(t[1])' /\ job'[t[1]].phase \in Active \cup {"done"}
         /\ t \in unsubs'[h] \/ (job'[t[1]].phase \in {"half", "whole"} /\ job'[t[1]].at = t[2])
         /\ t[2] \in listed'[h] \ Stopless
         /\ <<t[1], t[2], "stop">> \in live' \/ (At(t[1], "half")' /\ job'[t[1]].at = t[2])
    BY <1>5, <1>8, <1>9, <1>10 DEF LiveOK, InOrder, At
  <1>15. \A u \in Of(h)' : u[1] = t[1]
    BY <1>8, <1>11 DEF LiveOK
  <1> QED
    BY <1>3, <1>5, <1>12, <1>13, <1>14, <1>15 DEF LiveOK

\* What is said of a trigger of job i, its manager's last.
Mine(t, i) ==
    /\ t \in unsubs[job[i].mgr] \/ (job[i].phase \in {"half", "whole"} /\ job[i].at = t[2])
    /\ t[2] \in listed[job[i].mgr] \ Stopless
    /\ <<i, t[2], "stop">> \in live \/ (job[i].phase = "half" /\ job[i].at = t[2])

\* While a job attaches, the triggers of its manager are its own.
LEMMA LiveMine ==
    ASSUME IInv, NEW i \in Ids, Work(i), job[i].phase \in Active,
           job'[i].phase \in Active \cup {"done"},
           job[i].mgr \in closed => job'[i].phase \in Active,
           NEW t \in live', job'[t[1]].mgr = job[i].mgr, Mine(t, i)'
    PROVE  LiveOK(t)'
  <1>0. TypeOK /\ JobInv /\ LiveInv /\ LockInv
    BY DEF IInv
  <1> DEFINE g == job[i].mgr
  <1>1. \A u \in live : job[u[1]].mgr = g => u[1] = i
    BY <1>0 DEF LiveInv, LiveOK
  <1>2. \A u \in live' : job'[u[1]].mgr = g => u[1] = i
    <2> SUFFICES ASSUME NEW u \in live', job'[u[1]].mgr = g, u[1] # i PROVE FALSE
      OBVIOUS
    <2>1. u \in live /\ u[1] \in Ids
      BY <1>0, WorkFrame, TriggerTypes
    <2>2. job[u[1]].mgr = g
      BY <2>1, WorkMoves DEF Moves
    <2> QED
      BY <1>1, <2>1, <2>2
  <1>3. t[1] = i /\ job'[i].mgr = g
    BY <1>2, WorkMoves DEF Moves
  <1>4. HasLock(i) /\ InOrder(i) /\ asked' = asked /\ closed' = closed
    BY <1>0, WorkHolds, WorkManager, WorkMoves, WorkFrame
  <1>5. ASSUME NEW j \in Ids, job'[j].mgr = g
        PROVE  /\ job'[j].phase \in Active \cup {"stopping"} => j = i
               /\ At(j, "waiting")' => job'[j].kind = "save"
    <2>1. CASE j = i
      BY <2>1 DEF At, Active
    <2>2. CASE j # i
      <3>1. job'[j] = job[j] /\ job[j].mgr = g
        BY <1>5, <2>2, WorkMoves DEF Moves
      <3>2. /\ Under(j) => At(j, "waiting") /\ job[j].kind = "save"
            /\ job[j].phase \notin Active \cup {"stopping", "saved"}
        BY <1>0, <1>4, <2>2, <3>1, OthersIdle
      <3> QED
        BY <3>1, <3>2 DEF At, Under
    <2> QED
      BY <2>1, <2>2
  <1>6. \A u \in Of(g)' : u[1] = i
    BY <1>2 DEF Of
  <1>7. g \in closed' => \E j \in Ids : job'[j].mgr = g /\ job'[j].phase \in Active
    BY <1>3, <1>4
  <1>8. /\ InOrder(i)' /\ job'[i].phase \in Active \cup {"done"}
        /\ t \in unsubs'[g] \/ (job'[i].phase \in {"half", "whole"} /\ job'[i].at = t[2])
        /\ t[2] \in listed'[g] \ Stopless
        /\ <<i, t[2], "stop">> \in live' \/ (At(i, "half")' /\ job'[i].at = t[2])
    BY <1>3, <1>4 DEF Mine, InOrder, At
  <1> QED
    BY <1>3, <1>5, <1>6, <1>7, <1>8 DEF LiveOK

\* A trigger belongs to the last job of its manager.
LEMMA LiveStep == IInv /\ [Next]_vars => LiveInv'
  <1> SUFFICES ASSUME IInv, [Next]_vars, NEW t \in live' PROVE LiveOK(t)'
    BY DEF LiveInv
  <1>0. TypeOK /\ EntryInv /\ JobInv /\ LockInv /\ AttachInv /\ LiveInv
    BY DEF IInv
  <1>6. \A u \in live : LiveOK(u) /\ u[1] \in Ids /\ job[u[1]].mgr \in 1..gen /\ job[u[1]].mgr \in Gens
    BY <1>0, TriggerTypes, LiveManager DEF LiveInv
  <1>1. CASE SetUp \/ \E list \in SUBSET Bindings : Save(list)
    <2>1. /\ asked' \in Ids /\ \A j \in Ids : j # asked' => job'[j] = job[j]
          /\ job'[asked'].mgr = gen' /\ job'[asked'].phase = "waiting"
          /\ job'[asked'].kind = IF stage = "loaded" THEN "save" ELSE "load"
          /\ job[asked'] = Unused /\ asked' = asked + 1
          /\ UNCHANGED <<closed, listed, store, live, unsubs, ramps, loose, stale>>
      BY <1>1, NewJob
    <2>2. stage # "loaded" => gen' = gen + 1
      BY <1>1 DEF SetUp, Save
    <2>3. LiveOK(t) /\ t \in live /\ t[1] \in Ids /\ job[t[1]].mgr \in 1..gen
      BY <1>6, <2>1
    <2>4. ASSUME NEW u \in live PROVE u[1] # asked' /\ job'[u[1]] = job[u[1]]
      <3>1. u[1] \in Ids /\ job[u[1]].phase \in Active \cup {"done"}
        BY <1>6 DEF LiveOK
      <3>2. u[1] # asked'
        BY <2>1, <3>1 DEF Active, Unused
      <3> QED
        BY <2>1, <3>1, <3>2
    <2>5. asked \in Nat /\ gen \in Nat
      BY <1>0 DEF TypeOK
    <2>6. Of(job[t[1]].mgr)' = Of(job[t[1]].mgr)
      BY <2>1, <2>3, <2>4 DEF Of
    <2>7. ASSUME NEW j \in Ids, job'[j].mgr = job[t[1]].mgr
          PROVE  /\ job'[j].phase \in Active \cup {"stopping"} => j = t[1]
                 /\ At(j, "waiting")' => job'[j].kind = "save"
      <3>1. CASE j = asked'
        BY <2>1, <2>2, <2>3, <2>5, <2>7, <3>1 DEF Active
      <3>2. CASE j # asked'
        BY <2>1, <2>3, <2>7, <3>2 DEF LiveOK, At
      <3> QED
        BY <3>1, <3>2
    <2>8. job[t[1]].mgr \in closed => \E j \in Ids : job'[j].mgr = job[t[1]].mgr /\ job'[j].phase \in Active
      BY <2>1, <2>3 DEF LiveOK, Unused, Active
    <2>9. job'[t[1]] = job[t[1]]
      BY <2>3, <2>4
    <2>10. t[1] <= asked'
      BY <2>1, <2>3, <2>5 DEF LiveOK, InOrder, Ids
    <2> QED
      BY <2>1, <2>3, <2>6, <2>7, <2>8, <2>9, <2>10 DEF LiveOK, InOrder, At
  <1>2. CASE Unload
    <2>0. gen \in Gens
      BY <1>0, <1>2 DEF EntryInv, Unload
    <2>1. live' = live \ unsubs[gen] /\ closed' = closed \cup {gen} /\ UNCHANGED <<job, listed, asked>>
      BY <1>2 DEF Unload
    <2>2. unsubs' = [unsubs EXCEPT ![gen] = {}]
      BY <1>2 DEF Unload
    <2>3. \A u \in unsubs[gen] : job[u[1]].mgr = gen
      BY <1>0, <2>0 DEF TypeOK, Of
    <2>4. LiveOK(t) /\ t \in live /\ t \notin unsubs[gen] /\ t[1] \in Ids /\ job[t[1]].mgr \in Gens
      BY <1>6, <2>1
    <2>5. \A u \in Of(job[t[1]].mgr)' : u \in Of(job[t[1]].mgr)
      BY <2>1 DEF Of
    <2>6. CASE job[t[1]].mgr # gen
      <3>1. <<t[1], t[2], "stop">> \notin unsubs[gen]
        BY <2>3, <2>6
      <3>2. unsubs'[job[t[1]].mgr] = unsubs[job[t[1]].mgr]
        BY <1>0, <2>2, <2>4, <2>6 DEF TypeOK
      <3> QED
        BY <2>1, <2>4, <2>5, <2>6, <3>1, <3>2 DEF LiveOK, InOrder, At
    <2>7. CASE job[t[1]].mgr = gen
      <3>1. job[t[1]].phase \in {"half", "whole"} /\ job[t[1]].at = t[2]
        BY <2>4, <2>7 DEF LiveOK
      <3>2. <<t[1], t[2], "stop">> \notin unsubs[gen]
        BY <1>0, <2>4, <2>7, <3>1 DEF AttachInv, AttachOK, Slots
      <3> QED
        BY <2>1, <2>4, <2>5, <2>7, <3>1, <3>2 DEF LiveOK, InOrder, At, Active
    <2> QED
      BY <2>6, <2>7
  <1>3. ASSUME NEW i \in Ids, Work(i) PROVE LiveOK(t)'
    <2> DEFINE g == job[i].mgr
    <2>0. HasLock(i) /\ Under(i) /\ InOrder(i) /\ g \in Gens /\ job'[i].mgr = g /\ AttachOK(i)
      BY <1>0, <1>3, WorkHolds, WorkManager, WorkMoves DEF Moves, AttachInv
    <2>1. CASE job'[t[1]].mgr # g
      BY <1>3, <2>1, LiveElsewhere
    <2>2. CASE job'[t[1]].mgr = g
      <3>1. \A u \in live : job[u[1]].mgr = g =>
               /\ job[u[1]].phase \in Active \cup {"done"}
               /\ \A j \in Ids : job[j].mgr = g =>
                     /\ job[j].phase \in Active \cup {"stopping"} => j = u[1]
                     /\ At(j, "waiting") => job[j].kind = "save"
        <4>1. ASSUME NEW u \in live, LiveOK(u), job[u[1]].mgr = g
              PROVE  /\ job[u[1]].phase \in Active \cup {"done"}
                     /\ \A j \in Ids : job[j].mgr = g =>
                           /\ job[j].phase \in Active \cup {"stopping"} => j = u[1]
                           /\ At(j, "waiting") => job[j].kind = "save"
          BY <4>1 DEF LiveOK
        <4> QED
          BY <1>6, <4>1
      <3>2. t \in live => job[t[1]].mgr = g
        <4>1. Moves(i)
          BY <1>3, WorkMoves
        <4>2. t \in live => t[1] \in Ids
          BY <1>6
        <4> QED
          BY <2>2, <4>1, <4>2 DEF Moves
      <3>3. t \in live /\ job[i].phase \in Active => t[1] = i /\ Mine(t, i)
        <4>1. t \in live /\ job[i].phase \in Active => t[1] = i
          BY <3>1, <3>2
        <4>2. t \in live => LiveOK(t)
          BY <1>6
        <4>3. t[1] = i /\ LiveOK(t) => Mine(t, i)
          BY DEF LiveOK, Mine, At
        <4> QED
          BY <4>1, <4>2, <4>3
      <3> USE DEF triggers
      <3>4. CASE Read(i) \/ ReadFails(i)
        BY <2>0, <3>1, <3>2, <3>4 DEF Read, ReadFails
      <3>5. CASE StopNative(i) \/ StopNativeFails(i) \/ Attach(i)
        BY <2>0, <3>1, <3>2, <3>5 DEF StopNative, StopNativeFails, Attach, At, Active
      <3>6. CASE Swap(i)
        <4>1. t \in live /\ t \notin unsubs[g] /\ At(i, "saved")
          BY <3>6 DEF Swap
        <4>2. job[t[1]].phase \in {"half", "whole"} /\ t[1] \in Ids /\ job[t[1]].mgr = g
          BY <1>6, <3>2, <4>1 DEF LiveOK
        <4> QED
          BY <1>0, <2>0, <4>1, <4>2, OthersIdle DEF At, Active
      <3>7. CASE Write(i) \/ WriteFails(i)
        <4>1. UNCHANGED <<live, unsubs, listed, closed, asked>> /\ At(i, "waiting") /\ job'[i].phase = "saved"
          BY <1>0, <3>7, GoesTo DEF Write, WriteFails, entry
        <4>2. t[1] # i /\ LiveOK(t)
          BY <1>6, <3>1, <3>2, <4>1 DEF At, Active
        <4>3. \A j \in Ids : j # i => job'[j] = job[j]
          BY <1>3, WorkMoves DEF Moves
        <4>4. job'[t[1]] = job[t[1]]
          BY <1>6, <4>1, <4>2, <4>3
        <4>5. Of(job[t[1]].mgr)' = Of(job[t[1]].mgr)
          BY <1>3, <1>6, <4>1, <4>4, WorkMoves DEF Of, Moves
        <4>6. g \in closed => \E j \in Ids : job'[j].mgr = g /\ job'[j].phase \in Active
          BY <3>2, <4>1, <4>2, <4>3 DEF LiveOK, At, Active
        <4>7. ASSUME NEW j \in Ids, job'[j].mgr = g
              PROVE  /\ job'[j].phase \in Active \cup {"stopping"} => j = t[1]
                     /\ At(j, "waiting")' => job'[j].kind = "save"
          BY <3>1, <3>2, <4>1, <4>3, <4>7 DEF At, Active
        <4>8. t \in live /\ job[t[1]].mgr = g
          BY <3>2, <4>1
        <4>9. <<t[1], t[2], "stop">> \in live' \/ (At(t[1], "half")' /\ job'[t[1]].at = t[2])
          BY <4>1, <4>2, <4>4 DEF LiveOK, At
        <4> QED
          BY <4>1, <4>2, <4>4, <4>5, <4>6, <4>7, <4>8, <4>9 DEF LiveOK, InOrder
      <3>8. CASE Skip(i)
        <4>1. UNCHANGED <<live, unsubs, listed>> /\ job'[i].phase = "attaching" /\ At(i, "attaching")
          BY <1>0, <3>8, GoesTo DEF Skip
        <4>2. Mine(t, i)'
          BY <2>0, <3>3, <4>1 DEF Mine, At, Active
        <4> QED
          BY <1>3, <2>2, <4>1, <4>2, LiveMine DEF At, Active
      <3>9. CASE AttachStart(i)
        <4>1. PICK b \in job[i].todo \ Stopless :
                 live' = live \cup {<<i, b, "start">>} /\ Places(i, "half", b, job[i].todo \ {b})
          BY <3>9 DEF AttachStart
        <4>2. /\ job'[i].phase = "half" /\ job'[i].at = b
              /\ UNCHANGED <<unsubs, listed>> /\ At(i, "attaching")
          BY <1>0, <3>9, <4>1, PlacesTo DEF AttachStart
        <4>3. ASSUME t \in live PROVE Mine(t, i)'
          BY <2>0, <3>3, <4>1, <4>2, <4>3 DEF Mine, At, Active
        <4>4. ASSUME t = <<i, b, "start">> PROVE Mine(t, i)'
          BY <2>0, <4>1, <4>2, <4>4 DEF Mine, AttachOK, At, Active
        <4>5. Mine(t, i)'
          BY <4>1, <4>3, <4>4
        <4> QED
          BY <1>3, <2>2, <4>2, <4>5, LiveMine DEF At, Active
      <3>10. CASE AttachStop(i)
        <4>1. /\ live' = live \cup {<<i, job[i].at, "stop">>} /\ UNCHANGED <<unsubs, listed>>
              /\ At(i, "half") /\ job'[i].phase = "whole" /\ job'[i].at = job[i].at
          BY <1>0, <3>10, GoesTo DEF AttachStop
        <4>2. ASSUME t \in live PROVE Mine(t, i)'
          BY <2>0, <3>3, <4>1, <4>2 DEF Mine, At, Active
        <4>3. ASSUME t = <<i, job[i].at, "stop">> PROVE Mine(t, i)'
          BY <2>0, <4>1, <4>3 DEF Mine, AttachOK, At, Active
        <4>4. Mine(t, i)'
          BY <4>1, <4>2, <4>3
        <4> QED
          BY <1>3, <2>2, <4>1, <4>4, LiveMine DEF At, Active
      <3>11. CASE Commit(i)
        <4>1. /\ UNCHANGED <<live, listed>> /\ At(i, "whole") /\ job'[i].phase = "attaching"
              /\ unsubs'[g] = unsubs[g] \cup {<<i, job[i].at, s>> : s \in Slots}
          BY <1>0, <2>0, <3>11, PlacesTo DEF Commit, TypeOK
        <4>2. t[1] = i /\ Mine(t, i) /\ t[3] \in Slots /\ t = <<t[1], t[2], t[3]>>
          BY <1>0, <3>3, <4>1, TriggerTypes DEF At, Active
        <4>3. t \in unsubs'[g]
          BY <4>1, <4>2 DEF Mine
        <4>4. Mine(t, i)'
          BY <2>0, <4>1, <4>2, <4>3 DEF Mine, At
        <4> QED
          BY <1>3, <2>2, <4>1, <4>4, LiveMine DEF At, Active
      <3>12. CASE Rollback(i)
        <4>1. /\ live' = live \ {<<i, job[i].at, s>> : s \in Slots} /\ UNCHANGED <<unsubs, listed>>
              /\ job[i].phase \in {"half", "whole"} /\ job'[i].phase = "attaching"
          BY <1>0, <3>12, PlacesTo DEF Rollback, At
        <4>2. t \in live /\ t[1] = i /\ Mine(t, i) /\ t[3] \in Slots /\ t = <<t[1], t[2], t[3]>>
          BY <1>0, <3>3, <4>1, TriggerTypes DEF Active
        <4>3. t[2] # job[i].at
          BY <4>1, <4>2
        <4>4. t \in unsubs'[g] /\ <<i, t[2], "stop">> \in live'
          BY <4>1, <4>2, <4>3 DEF Mine
        <4>5. Mine(t, i)'
          BY <2>0, <4>1, <4>2, <4>4 DEF Mine
        <4> QED
          BY <1>3, <2>2, <4>1, <4>5, LiveMine DEF Active
      <3>13. CASE Finish(i)
        <4>1. At(i, "attaching") /\ job'[i].phase = "done" /\ UNCHANGED listed /\ live' \subseteq live
          BY <1>0, <3>13, GoesTo DEF Finish
        <4>2. t \in live /\ t[1] = i /\ Mine(t, i)
          BY <3>3, <4>1 DEF At, Active
        <4>3. t \in unsubs[g] /\ <<i, t[2], "stop">> \in live
          BY <4>1, <4>2 DEF Mine, At
        <4>4. g \notin closed /\ live' = live /\ unsubs' = unsubs
          BY <3>13, <4>3 DEF Finish
        <4>5. Mine(t, i)'
          BY <2>0, <4>1, <4>2, <4>3, <4>4 DEF Mine
        <4> QED
          BY <1>3, <2>2, <4>1, <4>4, <4>5, LiveMine DEF At, Active
      <3> QED
        BY <1>3, <3>4, <3>5, <3>6, <3>7, <3>8, <3>9, <3>10, <3>11, <3>12, <3>13 DEF Work
    <2> QED
      BY <2>1, <2>2
  <1>4. CASE Still
    BY <1>4, <1>6 DEF Still, LiveOK, InOrder, At, Of
  <1> QED
    BY <1>1, <1>2, <1>3, <1>4, NextSplits

-----------------------------------------------------------------------------
(* The store, the ramps and their stop triggers. *)

\* The list of the latest manager follows the store.
LEMMA SyncStep == IInv /\ [Next]_vars => SyncInv'
  <1> SUFFICES ASSUME IInv, [Next]_vars, (stage # "unloaded")', ~stale' PROVE
        /\ \A j \in Ids : job'[j].mgr = gen' /\ job'[j].phase = "saved" => job'[j].list = store'
        /\ \/ listed'[gen'] = store'
           \/ \E j \in Ids : /\ job'[j].mgr = gen'
                             /\ \/ job'[j].phase = "saved"
                                \/ job'[j].phase = "waiting" /\ job'[j].kind = "load"
    BY DEF SyncInv, At
  <1>0. TypeOK /\ EntryInv /\ JobInv /\ LockInv /\ SyncInv
    BY DEF IInv
  <1>1. CASE SetUp
    <2>1. /\ asked' \in Ids /\ \A j \in Ids : j # asked' => job'[j] = job[j]
          /\ job'[asked'].mgr = gen' /\ job'[asked'].phase = "waiting"
          /\ job'[asked'].kind = "load" /\ gen' = gen + 1
      BY <1>1, NewJob DEF SetUp
    <2>2. \A j \in Ids : Under(j) => job[j].mgr \in 1..gen
      BY <1>0, WorkManager
    <2>3. ASSUME NEW j \in Ids, job'[j].mgr = gen' PROVE job'[j].phase # "saved"
      BY <1>0, <2>1, <2>2, <2>3 DEF Under, TypeOK
    <2> QED
      BY <2>1, <2>3
  <1>2. CASE Unload
    BY <1>2 DEF Unload
  <1>3. CASE \E list \in SUBSET Bindings : Save(list)
    <2>1. /\ asked' \in Ids /\ \A j \in Ids : j # asked' => job'[j] = job[j]
          /\ job'[asked'].phase = "waiting" /\ job[asked'] = Unused
          /\ UNCHANGED <<listed, store, stale, gen, stage>>
      BY <1>3, NewJob DEF Save, entry
    <2> QED
      BY <1>0, <2>1 DEF SyncInv, At, Unused
  <1>4. ASSUME NEW i \in Ids, Work(i) PROVE
          /\ \A j \in Ids : job'[j].mgr = gen /\ job'[j].phase = "saved" => job'[j].list = store'
          /\ \/ listed'[gen] = store'
             \/ \E j \in Ids : /\ job'[j].mgr = gen
                               /\ \/ job'[j].phase = "saved"
                                  \/ job'[j].phase = "waiting" /\ job'[j].kind = "load"
    <2>1. HasLock(i) /\ Under(i) /\ job[i].mgr \in Gens /\ Moves(i) /\ gen' = gen
      BY <1>0, <1>4, WorkHolds, WorkManager, WorkMoves, WorkFrame
    <2>2. job[i].kind = "load" => stage = "loading" /\ job[i].mgr = gen
      BY <1>0, <2>1, WorkManager DEF JobInv
    <2>3. stage # "unloaded" /\ gen \in Gens
      BY <1>0, <1>4, <2>2, WorkMoves DEF EntryInv
    <2>4. \A j \in Ids : j # i => job'[j] = job[j]
      BY <2>1 DEF Moves
    <2>5. job[i].mgr = gen => \A j \in Ids : j # i /\ job[j].mgr = gen => ~At(j, "saved")
      BY <1>0, <2>1, OthersIdle DEF At
    <2>6. ~stale => /\ \A j \in Ids : job[j].mgr = gen /\ At(j, "saved") => job[j].list = store
                    /\ \/ listed[gen] = store
                       \/ \E j \in Ids : /\ job[j].mgr = gen
                                         /\ At(j, "saved") \/ (At(j, "waiting") /\ job[j].kind = "load")
      BY <1>0, <2>3 DEF SyncInv
    <2>7. CASE Read(i)
      <3>1. listed'[gen] = store /\ store' = store /\ job'[i].phase = "attaching"
        BY <1>0, <2>1, <2>2, <2>7, GoesTo DEF Read, TypeOK
      <3> QED
        BY <2>2, <2>4, <2>5, <2>7, <3>1 DEF Read, At
    <2>8. CASE ReadFails(i)
      BY <2>8 DEF ReadFails
    <2>9. CASE Write(i)
      <3>1. store' = job[i].list /\ job'[i].phase = "saved" /\ job[i].mgr \notin closed
        BY <1>0, <2>9, GoesTo DEF Write
      <3>2. job[i].mgr \in 1..gen
        BY <1>0, <2>1, WorkManager
      <3>3. job[i].mgr = gen
        BY <1>0, <2>3, <3>1, <3>2 DEF EntryInv, TypeOK
      <3> QED
        BY <2>1, <2>4, <2>5, <3>1, <3>3 DEF Moves, At
    <2>12. CASE WriteFails(i)
      <3>1. /\ job'[i].phase = "saved" /\ UNCHANGED <<listed, store>>
            /\ job[i].mgr \in closed /\ ~stale
        BY <1>0, <1>4, <2>12, GoesTo DEF WriteFails
      <3>2. job[i].mgr # gen
        BY <1>0, <2>3, <3>1 DEF EntryInv, TypeOK
      <3> QED
        BY <2>1, <2>4, <2>6, <3>1, <3>2 DEF Moves, At
    <2>10. CASE Swap(i)
      <3>1. /\ job'[i].phase = "stopping" /\ listed'[job[i].mgr] = job[i].list /\ At(i, "saved")
            /\ UNCHANGED <<store, stale>>
        BY <1>0, <2>1, <2>10, GoesTo DEF Swap, TypeOK
      <3>2. CASE job[i].mgr = gen
        BY <2>4, <2>5, <2>6, <3>1, <3>2 DEF At
      <3>3. CASE job[i].mgr # gen
        <4>1. listed'[gen] = listed[gen]
          BY <1>4, <2>3, <3>3, WorkFrame
        <4> QED
          BY <2>1, <2>4, <2>6, <3>1, <3>3, <4>1 DEF Moves, At
      <3> QED
        BY <3>2, <3>3
    <2>11. CASE StopNative(i) \/ StopNativeFails(i) \/ Attach(i) \/ Skip(i) \/ AttachStart(i)
                \/ AttachStop(i) \/ Commit(i) \/ Rollback(i) \/ Finish(i)
      <3>1. UNCHANGED <<listed, store, stale>> /\ ~At(i, "saved") /\ ~At(i, "waiting")
        BY <2>11 DEF StopNative, StopNativeFails, Attach, Skip, AttachStart, AttachStop, Commit,
           Rollback, Finish, At
      <3>2. job'[i].phase # "saved"
        <4>1. CASE StopNative(i) \/ StopNativeFails(i) \/ Skip(i)
          <5>1. \E b : Goes(i, "stopping", job[i].todo \ {b}) \/ Goes(i, "attaching", job[i].todo \ {b})
            BY <4>1 DEF StopNative, StopNativeFails, Skip
          <5> QED
            BY <1>0, <5>1, GoesTo
        <4>3. CASE Attach(i)
          BY <1>0, <4>3, GoesTo DEF Attach
        <4>4. CASE AttachStop(i)
          BY <1>0, <4>4, GoesTo DEF AttachStop
        <4>5. CASE Finish(i)
          BY <1>0, <4>5, GoesTo DEF Finish
        <4>2. CASE AttachStart(i) \/ Commit(i) \/ Rollback(i)
          BY <1>0, <4>2, PlacesTo DEF AttachStart, Commit, Rollback
        <4> QED
          BY <2>11, <4>1, <4>2, <4>3, <4>4, <4>5
      <3> QED
        BY <2>4, <2>6, <3>1, <3>2 DEF At
    <2> QED
      BY <1>4, <2>7, <2>8, <2>9, <2>10, <2>11, <2>12 DEF Work
  <1>5. CASE Still
    BY <1>0, <1>5 DEF Still, SyncInv, At
  <1> QED
    BY <1>1, <1>2, <1>3, <1>4, <1>5, NextSplits, WorkFrame

\* But for the start of one, the ramps only become fewer.
LEMMA FewerRamps ==
    ASSUME [Next]_vars
    PROVE  \/ ramps' \subseteq ramps
           \/ \E t \in live : Press(t) /\ ramps' = ramps \cup {<<job[t[1]].mgr, t[2]>>}
                              /\ job[t[1]].mgr \notin closed
  BY DEF Next, SetUp, Unload, Save, Work, Read, ReadFails, Write, WriteFails, Swap, StopNative,
     StopNativeFails, Attach, Skip, AttachStart, AttachStop, Commit, Rollback, Finish, Press, Release,
     RampEnds, RampsBecome, vars

\* A ramp is one of the latest manager, not shut down.
LEMMA RampStep == IInv /\ [Next]_vars => RampInv'
  <1> SUFFICES ASSUME IInv, [Next]_vars, NEW r \in ramps' PROVE r[1] \notin closed' /\ r[1] <= gen'
    BY DEF RampInv
  <1>0. TypeOK /\ EntryInv /\ JobInv /\ LiveInv /\ RampInv
    BY DEF IInv
  <1>1. r[1] \notin closed /\ r[1] \in 1..gen
    <2>1. CASE r \in ramps
      BY <1>0, <2>1 DEF RampInv, TypeOK, Ramps, Gens
    <2>2. CASE \E t \in live : r = <<job[t[1]].mgr, t[2]>> /\ job[t[1]].mgr \notin closed
      BY <1>0, <2>2, LiveManager
    <2> QED
      BY <2>1, <2>2, FewerRamps
  <1>2. CASE SetUp
    BY <1>0, <1>1, <1>2 DEF SetUp, TypeOK
  <1>3. CASE Unload
    BY <1>0, <1>1, <1>3 DEF Unload, RampsBecome
  <1>4. CASE ~SetUp /\ ~Unload
    <2>1. gen' = gen /\ closed' = closed
      BY <1>4, NextSplits, WorkFrame DEF Save, entry, Still
    <2> QED
      BY <1>0, <1>1, <2>1 DEF TypeOK
  <1> QED
    BY <1>2, <1>3, <1>4

\* A ramp that could be stopped and goes on can be stopped while its manager's triggers, and the
\* job that replaces or attaches its binding, are as they were.
LEMMA StillStoppable ==
    ASSUME NEW r, r \in ramps', r \in ramps, Stoppable(r), r \in loose => r \in loose',
           \A t \in Of(r[1]) : t[2] = r[2] /\ t[3] = "stop" => t \in Of(r[1])',
           \A i \in Ids : job[i].mgr = r[1] /\ job[i].phase \in {"stopping", "half"}
                          => job'[i] = job[i]
    PROVE  Stoppable(r)'
  BY DEF Stoppable, At

\* A ramp keeps its stop trigger, or a job that will stop or attach it.
LEMMA StopStep == IInv /\ [Next]_vars => CanBeStopped'
  <1> SUFFICES ASSUME IInv, [Next]_vars, NEW r \in ramps' PROVE Stoppable(r)'
    BY DEF CanBeStopped
  <1>0. /\ TypeOK /\ EntryInv /\ JobInv /\ LockInv /\ AttachInv /\ LiveInv /\ RampInv /\ CanBeStopped
        /\ TypeOK'
    BY TypeStep DEF IInv
  <1>1. CASE SetUp \/ \E list \in SUBSET Bindings : Save(list)
    <2>1. /\ asked' \in Ids /\ \A j \in Ids : j # asked' => job'[j] = job[j]
          /\ job[asked'] = Unused
          /\ UNCHANGED <<closed, listed, store, live, unsubs, ramps, loose, stale>>
      BY <1>1, NewJob
    <2>2. ASSUME NEW t \in live PROVE t[1] # asked' /\ t[1] \in Ids
      <3>1. t[1] \in Ids /\ job[t[1]].phase \in Active \cup {"done"}
        BY <1>0, TriggerTypes, LiveOfJob
      <3> QED
        BY <2>1, <3>1 DEF Active, Unused
    <2>3. \A t \in Of(r[1]) : t \in Of(r[1])'
      BY <2>1, <2>2 DEF Of
    <2> QED
      BY <1>0, <2>1, <2>3, StillStoppable DEF CanBeStopped, Unused
  <1>2. CASE Unload
    <2>1. r \in ramps /\ r[1] # gen
      BY <1>2 DEF Unload, RampsBecome
    <2>2. r[1] \in closed
      BY <1>0, <1>2, <2>1 DEF Unload, RampInv, EntryInv, TypeOK, Ramps, Gens
    <2> QED
      BY <1>0, <2>1, <2>2 DEF RampInv
  <1>3. ASSUME NEW i \in Ids, Work(i) PROVE Stoppable(r)'
    <2> DEFINE g == job[i].mgr
    <2>1. /\ HasLock(i) /\ Moves(i) /\ job'[i].mgr = g /\ g \in 1..gen /\ g \in Gens
      BY <1>0, <1>3, WorkHolds, WorkManager, WorkMoves DEF Moves
    <2>2. r \in ramps /\ Stoppable(r)
      <3>1. ramps' \subseteq ramps
        BY <1>3 DEF Work, Read, ReadFails, Write, WriteFails, Swap, StopNative, StopNativeFails, Attach, Skip,
           AttachStart, AttachStop, Commit, Rollback, Finish, RampsBecome
      <3> QED
        BY <1>0, <3>1 DEF CanBeStopped
    <2>3. r \in loose => r \in loose'
      BY <1>3 DEF Work, Read, ReadFails, Write, WriteFails, Swap, StopNative, StopNativeFails, Attach, Skip,
         AttachStart, AttachStop, Commit, Rollback, Finish, RampsBecome
    <2>4. \A t \in live : job'[t[1]].mgr = job[t[1]].mgr
      BY <1>0, <2>1, TriggerTypes DEF Moves
    <2>5. \A j \in Ids : j # i => job'[j] = job[j]
      BY <2>1 DEF Moves
    <2>6. CASE r[1] # g
      <3>1. \A t \in Of(r[1]) : t \in Of(r[1])'
        BY <1>3, <2>4, <2>6, WorkFrame DEF Of
      <3> QED
        BY <2>2, <2>3, <2>5, <2>6, <3>1, StillStoppable
    <2>7. CASE r[1] = g /\ live \subseteq live' /\ job[i].phase \notin {"stopping", "half"}
      <3>1. \A t \in Of(r[1]) : t \in Of(r[1])'
        BY <2>4, <2>7 DEF Of
      <3> QED
        BY <2>2, <2>3, <2>5, <2>7, <3>1, StillStoppable
    <2>8. r[1] = g => g = gen
      BY <1>0, <2>1, <2>2 DEF RampInv, EntryInv, TypeOK
    <2>9. \A j \in Ids : j # i /\ job[j].mgr = g => job[j].phase \notin {"stopping", "half"}
      BY <1>0, <2>1, OthersIdle DEF Active
    <2> USE DEF triggers
    <2>10. CASE Read(i) \/ ReadFails(i) \/ Write(i) \/ WriteFails(i) \/ Skip(i) \/ AttachStart(i) \/ Commit(i)
      <3>1. live \subseteq live' /\ job[i].phase \notin {"stopping", "half"}
        BY <2>10 DEF Read, ReadFails, Write, WriteFails, Skip, AttachStart, Commit, At
      <3> QED
        BY <2>6, <2>7, <3>1
    <2>11. CASE Swap(i) /\ r[1] = g
      <3>1. /\ At(i, "saved") /\ r[2] \in Native
            /\ job'[i].phase = "stopping" /\ job'[i].todo = listed[g] \cap Native
        BY <1>0, <2>11, GoesTo DEF Swap, RampsBecome
      <3>2. r \in loose \/ \E t \in Of(g) : t[2] = r[2] /\ t[3] = "stop"
        BY <2>2, <2>9, <2>11, <3>1 DEF Stoppable, At
      <3>3. \A t \in Of(g) : t[2] \in listed[g]
        BY <1>0 DEF LiveInv, LiveOK, Of
      <3> QED
        BY <2>1, <2>3, <2>11, <3>1, <3>2, <3>3 DEF Stoppable, At
    <2>12. CASE (StopNative(i) \/ StopNativeFails(i)) /\ r[1] = g
      <3>1. PICK b \in job[i].todo : /\ Goes(i, "stopping", job[i].todo \ {b})
                                     /\ r # <<gen, b>> \/ r \in loose'
        BY <2>2, <2>12 DEF StopNative, StopNativeFails, RampsBecome
      <3>2. live' = live /\ At(i, "stopping")
        BY <2>12 DEF StopNative, StopNativeFails
      <3>3. job'[i].phase = "stopping" /\ job'[i].todo = job[i].todo \ {b}
        BY <1>0, <3>1, GoesTo
      <3>4. r = <<r[1], r[2]>>
        BY <1>0, <2>2 DEF TypeOK, Ramps
      <3>5. CASE \E t \in Of(g) : t[2] = r[2] /\ t[3] = "stop"
        BY <2>4, <2>12, <3>2, <3>5 DEF Stoppable, Of
      <3>6. CASE r[2] \in job[i].todo
        <4>1. r[2] # b \/ r \in loose'
          BY <2>8, <2>12, <3>1, <3>4
        <4> QED
          BY <2>1, <2>12, <3>3, <3>6, <4>1 DEF Stoppable, At
      <3> QED
        BY <2>2, <2>3, <2>9, <2>12, <3>2, <3>5, <3>6 DEF Stoppable, At
    <2>13. CASE Attach(i) /\ r[1] = g
      <3>1. live' = live /\ At(i, "stopping") /\ job[i].todo = {}
        BY <2>13 DEF Attach
      <3>2. r \in loose \/ \E t \in Of(g) : t[2] = r[2] /\ t[3] = "stop"
        BY <2>2, <2>9, <2>13, <3>1 DEF Stoppable, At
      <3> QED
        BY <2>3, <2>4, <2>13, <3>1, <3>2 DEF Stoppable, Of
    <2>14. CASE AttachStop(i) /\ r[1] = g
      <3>1. live' = live \cup {<<i, job[i].at, "stop">>} /\ At(i, "half")
        BY <2>14 DEF AttachStop
      <3>2. <<i, job[i].at, "stop">> \in Of(g)'
        BY <2>1, <3>1 DEF Of
      <3>3. \A t \in Of(g) : t \in Of(r[1])'
        BY <2>4, <2>14, <3>1 DEF Of
      <3> QED
        BY <2>1, <2>2, <2>3, <2>9, <2>14, <3>1, <3>2, <3>3 DEF Stoppable, At, Of
    <2>15. CASE Rollback(i) /\ r[1] = g
      <3>1. /\ live' = live \ {<<i, job[i].at, s>> : s \in Slots} /\ (At(i, "half") \/ At(i, "whole"))
            /\ loose' = loose \cup ({<<g, job[i].at>>} \cap ramps)
        BY <2>15 DEF Rollback
      <3>2. r = <<r[1], r[2]>>
        BY <1>0, <2>2 DEF TypeOK, Ramps
      <3>3. CASE r[2] = job[i].at
        BY <2>2, <2>15, <3>1, <3>2, <3>3 DEF Stoppable
      <3>4. CASE r[2] # job[i].at
        <4>1. r \in loose \/ \E t \in Of(g) : t[2] = r[2] /\ t[3] = "stop"
          BY <2>2, <2>9, <2>15, <3>1, <3>4 DEF Stoppable, At
        <4>2. \A t \in Of(g) : t[2] = r[2] => t \in Of(r[1])'
          BY <2>4, <2>15, <3>1, <3>4 DEF Of
        <4> QED
          BY <2>3, <2>15, <4>1, <4>2 DEF Stoppable
      <3> QED
        BY <3>3, <3>4
    <2>16. CASE Finish(i) /\ r[1] = g
      <3>1. g \notin closed
        BY <1>0, <2>2, <2>16 DEF RampInv
      <3> QED
        BY <2>7, <2>16, <3>1 DEF Finish, At
    <2> QED
      BY <1>3, <2>6, <2>10, <2>11, <2>12, <2>13, <2>14, <2>15, <2>16 DEF Work
  <1>4. CASE Still /\ ramps' \subseteq ramps
    <2>1. \A t \in Of(r[1]) : t \in Of(r[1])'
      BY <1>4 DEF Still, Of
    <2>2. r \in loose => r \in loose'
      BY <1>0, <1>4 DEF Next, vars, SetUp, Unload, Save, Work, Read, ReadFails, Write, WriteFails, Swap, StopNative,
         StopNativeFails, Attach, Skip, AttachStart, AttachStop, Commit, Rollback, Finish, Press, Release,
         RampEnds, RampsBecome
    <2> QED
      BY <1>0, <1>4, <2>1, <2>2, StillStoppable DEF CanBeStopped, Still
  <1>5. ASSUME NEW t \in live, Press(t), ramps' = ramps \cup {<<job[t[1]].mgr, t[2]>>}
        PROVE  Stoppable(r)'
    <2>1. UNCHANGED <<live, unsubs, job, loose>>
      BY <1>5 DEF Press, triggers
    <2>2. CASE r \in ramps
      BY <1>0, <2>1, <2>2, StillStoppable DEF CanBeStopped, Of
    <2>3. CASE r = <<job[t[1]].mgr, t[2]>>
      <3>1. LiveOK(t) /\ t[1] \in Ids
        BY <1>0, TriggerTypes DEF LiveInv
      <3>2. CASE <<t[1], t[2], "stop">> \in live
        BY <2>1, <2>3, <3>2 DEF Stoppable, Of
      <3>3. CASE At(t[1], "half") /\ job[t[1]].at = t[2]
        BY <2>1, <2>3, <3>1, <3>3 DEF Stoppable, At
      <3> QED
        BY <3>1, <3>2, <3>3 DEF LiveOK
    <2> QED
      BY <1>5, <2>2, <2>3
  <1> QED
    BY <1>1, <1>2, <1>3, <1>4, <1>5, NextSplits, FewerRamps

-----------------------------------------------------------------------------
(* The theorems. *)

\* The invariant holds at the start.
LEMMA InvInit == Init => IInv
  <1> SUFFICES ASSUME Init PROVE IInv
    OBVIOUS
  <1>1. EntryInv
    BY DEF Init, EntryInv
  <1>2. \A i \in Ids : job[i] = Unused /\ ~InOrder(i)
    BY DEF Init, InOrder, Ids
  <1>3. JobInv /\ LockInv /\ AttachInv
    BY <1>2 DEF JobInv, LockInv, AttachInv, AttachOK, Under, At, Unused, Active
  <1>4. LiveInv /\ SyncInv /\ RampInv /\ CanBeStopped
    BY DEF Init, LiveInv, SyncInv, RampInv, CanBeStopped
  <1> QED
    BY <1>1, <1>3, <1>4, TypeInit DEF IInv

\* Every step keeps the invariant.
LEMMA InvStep == IInv /\ [Next]_vars => IInv'
  BY TypeStep, EntryStep, JobStep, LockStep, AttachStep, LiveStep, SyncStep, RampStep, StopStep DEF IInv

\* The inductive invariant holds in every reachable state.
THEOREM Reachable == Spec => []IInv
  BY InvInit, InvStep, PTL DEF Spec

\* Every variable keeps its type, and what a manager would detach is attached.
THEOREM TypeCorrect == Spec => []TypeOK
  <1>1. IInv => TypeOK
    BY DEF IInv
  <1> QED
    BY <1>1, Reachable, PTL

\* A teardown stops the manager's ramps for good, and the save that raced it leaves no trigger.
THEOREM Quiet == Spec => []QuietAfterTeardown
  <1>1. ASSUME IInv, NEW g \in closed PROVE \A r \in ramps : r[1] # g
    BY <1>1 DEF IInv, RampInv
  <1>2. ASSUME IInv, NEW g \in closed, \A i \in Ids : job[i].mgr = g => ~Under(i) PROVE Of(g) = {}
    <2>1. ASSUME NEW t \in Of(g) PROVE FALSE
      <3>1. t \in live /\ job[t[1]].mgr = g
        BY DEF Of
      <3>2. \E j \in Ids : job[j].mgr = g /\ job[j].phase \in Active
        BY <1>2, <3>1 DEF IInv, LiveInv, LiveOK
      <3> QED
        BY <1>2, <3>2 DEF Active, Under
    <2> QED
      BY <2>1
  <1>3. IInv => QuietAfterTeardown
    BY <1>1, <1>2 DEF QuietAfterTeardown
  <1> QED
    BY <1>3, Reachable, PTL

\* Between saves the list and the triggers agree, and the list is what the store holds unless the
\* store failed or a save of a manager that was shut down went behind the manager's back.
THEOREM Saved == Spec => []SavedIsLive
  <1>1. ASSUME IInv, stage = "loaded", \A i \in Ids : job[i].mgr = gen => ~Under(i)
        PROVE  /\ stale \/ listed[gen] = store
               /\ \A t \in Of(gen) :
                     /\ t[2] \in listed[gen] \ Stopless
                     /\ <<t[1], t[2], "stop">> \in live
                     /\ \A u \in Of(gen) : u[2] = t[2] /\ u[3] = t[3] => u = t
    <2>0. TypeOK /\ LiveInv /\ SyncInv
      BY <1>1 DEF IInv
    <2>1. stale \/ listed[gen] = store
      BY <1>1, <2>0 DEF SyncInv, Under, At
    <2>2. ASSUME NEW t \in Of(gen)
          PROVE  /\ t[2] \in listed[gen] \ Stopless
                 /\ <<t[1], t[2], "stop">> \in live
                 /\ \A u \in Of(gen) : u[2] = t[2] /\ u[3] = t[3] => u = t
      <3>1. t \in live /\ job[t[1]].mgr = gen /\ t[1] \in Ids /\ LiveOK(t)
        BY <2>0, TriggerTypes DEF Of, LiveInv
      <3>2. ~At(t[1], "half")
        BY <1>1, <3>1 DEF Under, At
      <3>3. \A u \in Of(gen) : u[1] = t[1] /\ u = <<u[1], u[2], u[3]>>
        BY <2>0, <3>1, TriggerTypes DEF LiveOK, Of
      <3> QED
        BY <3>1, <3>2, <3>3 DEF LiveOK
    <2> QED
      BY <2>1, <2>2
  <1>2. IInv => SavedIsLive
    BY <1>1 DEF SavedIsLive
  <1> QED
    BY <1>2, Reachable, PTL

\* A ramp that runs can be stopped, unless a failure has left it loose.
THEOREM Stops == Spec => []CanBeStopped
  <1>1. IInv => CanBeStopped
    BY DEF IInv
  <1> QED
    BY <1>1, Reachable, PTL
=============================================================================
