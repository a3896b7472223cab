--------------------------- MODULE HolidayModeProofs ---------------------------
(***************************************************************************)
(* Proofs about holiday mode: types, no timer behind a switch that shows   *)
(* off, and no light that is forgotten.  A manager's jobs are a queue, and *)
(* most of the invariant says which job may stand behind which.            *)
(***************************************************************************)
EXTENDS HolidayMode, SequenceTheorems, TLAPS

\* No a stands before a b.
Ahead(q, b, a) == \A i, j \in 1..Len(q) : q[i] = b /\ q[j] = a => i < j

Queued(job) == Contains(queue[gen], job)
Seen == ours \ lost

\* The managers but the latest have stopped, and have ticks left to do at most.
OldInv == \A g \in Gens \ {gen} :
    /\ g \notin timer /\ phase[g] = "begin"
    /\ \A job \in Jobs \ {"tick"} : ~Contains(queue[g], job)
    /\ g > gen => queue[g] = <<>> /\ onUntil[g] = {}

\* Which job of the latest manager stands behind which.
QueueInv ==
    /\ Queued("unload") <=> stage = "stopping"
    /\ stage \in {"platforms", "unloaded"} => ~Queued("restore") /\ ~Queued("resume")
    /\ \A job \in Jobs \ {"restore"} : Ahead(queue[gen], "restore", job)
    /\ Ahead(queue[gen], "resume", "unload")
    /\ Queued("restore") => gen \notin timer /\ phase[gen] = "begin"
    /\ clicked = {} =>
          /\ Ahead(queue[gen], "resume", "off")
          /\ stage # "loaded" => ~Queued("on") /\ ~Queued("off")

\* How far the job that holds the lock has come.
PhaseInv ==
    /\ phase[gen] = "begin" => onUntil[gen] \subseteq store
    /\ phase[gen] = "stop" =>
          /\ gen \notin timer
          /\ Runs(gen, "off") \/ Runs(gen, "unload")
    /\ phase[gen] \in {"expire", "light"} => gen \in timer /\ Runs(gen, "tick")

\* The timer runs, or a job or a refused unload will start it again.
WillRun ==
    \/ gen \in timer \/ Queued("restore") \/ Queued("resume")
    \/ resume /\ stage \in {"stopping", "platforms"}

\* Then the switch shows on.
SwitchInv ==
    /\ clicked \subseteq {gen}
    /\ clicked = {} /\ WillRun => Loaded /\ isOn
    /\ clicked = {} /\ stage = "platforms" => gen \notin timer

\* A light of ours is in the memory of the manager, or in the store that it is about to read;
\* and there is none when the switch will not come back on.
TrackInv ==
    /\ \/ Seen \subseteq onUntil[gen]
       \/ Seen \subseteq store /\ (Queued("restore") \/ (~Loaded /\ clicked = {}))
    /\ clicked = {} /\ (IF Loaded THEN ~isOn ELSE ~restored) => Seen = {}

IInv == TypeOK /\ OldInv /\ QueueInv /\ PhaseInv /\ SwitchInv /\ TrackInv

USE HolidayAssumption DEF HolidayAssumption

-----------------------------------------------------------------------------
(* Queues. *)

LEMMA HeadOf ==
    ASSUME NEW q \in Seq(Jobs), q # <<>>
    PROVE  Len(q) \in Nat \ {0} /\ Head(q) = q[1]
  BY EmptySeq

LEMMA TailOf ==
    ASSUME NEW q \in Seq(Jobs), q # <<>>, IsInjective(q)
    PROVE  /\ Tail(q) \in Seq(Jobs) /\ IsInjective(Tail(q))
           /\ Head(q) \in Jobs /\ Contains(q, Head(q))
           /\ \A x : Contains(Tail(q), x) <=> Contains(q, x) /\ x # Head(q)
           /\ \A a, b : Ahead(q, b, a) => Ahead(Tail(q), b, a)
  <1>1. /\ Tail(q) \in Seq(Jobs) /\ Len(Tail(q)) = Len(q) - 1
        /\ \A i \in 1..Len(Tail(q)) : Tail(q)[i] = q[i + 1]
    BY HeadTailProperties
  <1>2. /\ Len(q) \in Nat \ {0} /\ Head(q) = q[1] /\ Head(q) \in Jobs
        /\ DOMAIN q = 1..Len(q) /\ DOMAIN Tail(q) = 1..Len(Tail(q))
    BY <1>1, HeadOf, HeadTailProperties, LenProperties
  <1>3. IsInjective(Tail(q))
    BY <1>1, <1>2 DEF IsInjective
  <1>4. \A i \in 1..Len(Tail(q)) : i + 1 \in 1..Len(q) /\ i + 1 # 1
    BY <1>1, <1>2
  <1>5. \A i \in 1..Len(q) : i # 1 => i - 1 \in 1..Len(Tail(q)) /\ Tail(q)[i - 1] = q[i]
    BY <1>1, <1>2
  <1>6. ASSUME NEW x, Contains(Tail(q), x)
        PROVE  Contains(q, x) /\ x # Head(q)
    <2>1. PICK i \in 1..Len(Tail(q)) : Tail(q)[i] = x
      BY <1>6 DEF Contains
    <2> QED
      BY <2>1, <1>1, <1>2, <1>4 DEF Contains, IsInjective
  <1>7. ASSUME NEW x, Contains(q, x), x # Head(q)
        PROVE  Contains(Tail(q), x)
    <2>1. PICK i \in 1..Len(q) : q[i] = x
      BY <1>7 DEF Contains
    <2> QED
      BY <2>1, <1>2, <1>5, <1>7 DEF Contains
  <1>8. ASSUME NEW a, NEW b, Ahead(q, b, a)
        PROVE  Ahead(Tail(q), b, a)
    BY <1>1, <1>2, <1>4, <1>8 DEF Ahead
  <1>9. Contains(q, Head(q))
    BY <1>2 DEF Contains
  <1> QED
    BY <1>1, <1>2, <1>3, <1>6, <1>7, <1>8, <1>9

LEMMA AppendTo ==
    ASSUME NEW q \in Seq(Jobs), NEW job \in Jobs, IsInjective(q), ~Contains(q, job)
    PROVE  /\ Append(q, job) \in Seq(Jobs) /\ IsInjective(Append(q, job))
           /\ Append(q, job) # <<>>
           /\ q # <<>> => Head(Append(q, job)) = Head(q)
           /\ \A x : Contains(Append(q, job), x) <=> Contains(q, x) \/ x = job
           /\ \A a, b : Ahead(q, b, a) /\ b # job => Ahead(Append(q, job), b, a)
           /\ \A a : ~Contains(q, a) /\ a # job => Ahead(Append(q, job), job, a)
  <1> DEFINE p == Append(q, job)
  <1>1. /\ p \in Seq(Jobs) /\ p # <<>> /\ Len(p) = Len(q) + 1
        /\ \A i \in 1..Len(q) : p[i] = q[i]
        /\ p[Len(q) + 1] = job
    BY AppendProperties
  <1>2. Len(q) \in Nat /\ DOMAIN q = 1..Len(q) /\ DOMAIN p = 1..Len(p)
    BY <1>1, LenProperties
  <1> HIDE DEF p
  <1>3. \A i \in 1..Len(p) : i = Len(q) + 1 \/ i \in 1..Len(q)
    BY <1>1, <1>2
  <1>4. \A i \in 1..Len(q) : i \in 1..Len(p) /\ i < Len(q) + 1
    BY <1>1, <1>2
  <1>5. Len(q) + 1 \in 1..Len(p)
    BY <1>1, <1>2
  <1>6. \A i \in 1..Len(q) : q[i] # job
    BY DEF Contains
  <1>7. IsInjective(p)
    BY <1>1, <1>2, <1>3, <1>6 DEF IsInjective
  <1>8. ASSUME NEW x
        PROVE  Contains(p, x) <=> Contains(q, x) \/ x = job
    BY <1>1, <1>3, <1>4, <1>5 DEF Contains
  <1>9. ASSUME NEW a, NEW b, Ahead(q, b, a), b # job
        PROVE  Ahead(p, b, a)
    BY <1>1, <1>3, <1>4, <1>9 DEF Ahead
  <1>10. ASSUME NEW a, ~Contains(q, a), a # job
         PROVE  Ahead(p, job, a)
    BY <1>1, <1>3, <1>10 DEF Ahead, Contains
  <1>11. q # <<>> => Head(p) = Head(q)
    <2>1. ASSUME q # <<>>
          PROVE  Head(p) = Head(q)
      BY <2>1, <1>1, HeadOf, EmptySeq
    <2> QED
      BY <2>1
  <1> QED
    BY <1>1, <1>7, <1>8, <1>9, <1>10, <1>11 DEF p

\* The job at the head has nothing ahead of it.
LEMMA HeadFirst ==
    ASSUME NEW q \in Seq(Jobs), q # <<>>, NEW b, Ahead(q, b, Head(q)), b # Head(q)
    PROVE  ~Contains(q, b)
  BY HeadOf DEF Ahead, Contains

LEMMA NoneIn == \A x : ~Contains(<<>>, x)
  BY DEF Contains

LEMMA NoneAhead ==
    ASSUME NEW q, NEW a, NEW b, ~Contains(q, a) \/ ~Contains(q, b)
    PROVE  Ahead(q, b, a)
  BY DEF Ahead, Contains

\* What asking for a job and the end of one leave of a manager's queue.
LEMMA AskQueue ==
    ASSUME TypeOK, NEW g \in Gens, NEW job \in Jobs, ~Contains(queue[g], job), Asks(g, job)
    PROVE  /\ queue' \in [Gens -> Seq(Jobs)] /\ \A h \in Gens : IsInjective(queue'[h])
           /\ \A h \in Gens \ {g} : queue'[h] = queue[h]
           /\ \A x : Contains(queue'[g], x) <=> Contains(queue[g], x) \/ x = job
           /\ \A a, b : Ahead(queue[g], b, a) /\ b # job => Ahead(queue'[g], b, a)
           /\ \A a : ~Contains(queue[g], a) /\ a # job => Ahead(queue'[g], job, a)
           /\ queue[g] # <<>> => queue'[g] # <<>> /\ Head(queue'[g]) = Head(queue[g])
  <1>1. queue[g] \in Seq(Jobs) /\ IsInjective(queue[g])
    BY DEF TypeOK
  <1>2. queue' = [queue EXCEPT ![g] = Append(queue[g], job)]
    BY DEF Asks
  <1>3. /\ queue'[g] = Append(queue[g], job)
        /\ \A h \in Gens \ {g} : queue'[h] = queue[h]
        /\ Append(queue[g], job) \in Seq(Jobs) => queue' \in [Gens -> Seq(Jobs)]
    BY <1>2 DEF TypeOK
  <1>4. /\ Append(queue[g], job) \in Seq(Jobs) /\ IsInjective(queue'[g])
        /\ queue'[g] # <<>>
        /\ queue[g] # <<>> => Head(queue'[g]) = Head(queue[g])
        /\ \A x : Contains(queue'[g], x) <=> Contains(queue[g], x) \/ x = job
        /\ \A a, b : Ahead(queue[g], b, a) /\ b # job => Ahead(queue'[g], b, a)
        /\ \A a : ~Contains(queue[g], a) /\ a # job => Ahead(queue'[g], job, a)
    BY <1>1, <1>3, AppendTo
  <1>5. \A h \in Gens : IsInjective(queue'[h])
    <2>1. \A h \in Gens \ {g} : IsInjective(queue'[h])
      BY <1>3 DEF TypeOK
    <2> QED
      BY <2>1, <1>4
  <1> QED
    BY <1>3, <1>4, <1>5

LEMMA DoneQueue ==
    ASSUME TypeOK, NEW g \in Gens, queue[g] # <<>>, Done(g)
    PROVE  /\ queue' \in [Gens -> Seq(Jobs)] /\ \A h \in Gens : IsInjective(queue'[h])
           /\ \A h \in Gens \ {g} : queue'[h] = queue[h]
           /\ Head(queue[g]) \in Jobs /\ Contains(queue[g], Head(queue[g]))
           /\ \A x : Contains(queue'[g], x) <=> Contains(queue[g], x) /\ x # Head(queue[g])
           /\ \A a, b : Ahead(queue[g], b, a) => Ahead(queue'[g], b, a)
           /\ \A b : Ahead(queue[g], b, Head(queue[g])) /\ b # Head(queue[g])
                     => ~Contains(queue[g], b)
  <1>1. queue[g] \in Seq(Jobs) /\ IsInjective(queue[g])
    BY DEF TypeOK
  <1>2. queue' = [queue EXCEPT ![g] = Tail(queue[g])]
    BY DEF Done
  <1>3. /\ queue'[g] = Tail(queue[g])
        /\ \A h \in Gens \ {g} : queue'[h] = queue[h]
        /\ Tail(queue[g]) \in Seq(Jobs) => queue' \in [Gens -> Seq(Jobs)]
    BY <1>2 DEF TypeOK
  <1>4. \A b : Ahead(queue[g], b, Head(queue[g])) /\ b # Head(queue[g]) => ~Contains(queue[g], b)
    BY <1>1, HeadFirst
  <1>5. /\ Tail(queue[g]) \in Seq(Jobs) /\ IsInjective(queue'[g])
        /\ Head(queue[g]) \in Jobs /\ Contains(queue[g], Head(queue[g]))
        /\ \A x : Contains(queue'[g], x) <=> Contains(queue[g], x) /\ x # Head(queue[g])
        /\ \A a, b : Ahead(queue[g], b, a) => Ahead(queue'[g], b, a)
    BY <1>1, <1>3, TailOf
  <1>6. \A h \in Gens : IsInjective(queue'[h])
    <2>1. \A h \in Gens \ {g} : IsInjective(queue'[h])
      BY <1>3 DEF TypeOK
    <2> QED
      BY <2>1, <1>5
  <1> QED
    BY <1>3, <1>4, <1>5, <1>6

-----------------------------------------------------------------------------
(* The invariant. *)

LEMMA InitIInv == Init => IInv
  <1> SUFFICES ASSUME Init PROVE IInv
    OBVIOUS
  <1>1. \A g \in Gens : queue[g] = <<>>
    BY DEF Init
  <1>2. TypeOK
    <2>1. <<>> \in Seq(Jobs) /\ IsInjective(<<>>)
      BY EmptySeq, LenProperties DEF IsInjective
    <2>2. queue \in [Gens -> Seq(Jobs)]
      BY <2>1 DEF Init
    <2>3. \A g \in Gens : IsInjective(queue[g])
      BY <1>1, <2>1
    <2>4. gen \in Gens /\ phase \in [Gens -> {"begin", "expire", "light", "stop"}]
          /\ onUntil \in [Gens -> SUBSET Lights] /\ todo \in [Gens -> SUBSET Lights]
      BY DEF Init, Gens
    <2> QED
      BY <2>2, <2>3, <2>4 DEF Init, TypeOK
  <1>3. gen \in Gens
    BY DEF Init, Gens
  <1>4. \A a, b : Ahead(queue[gen], b, a)
    BY <1>1, <1>3, NoneIn, NoneAhead
  <1>5. OldInv
    BY <1>1, NoneIn DEF Init, OldInv
  <1>6. QueueInv /\ SwitchInv
    BY <1>1, <1>3, <1>4, NoneIn DEF Init, QueueInv, SwitchInv, WillRun, Queued
  <1>7. PhaseInv
    BY <1>3 DEF Init, PhaseInv
  <1>8. TrackInv
    BY <1>3 DEF Init, TrackInv, Seen
  <1> QED
    BY <1>2, <1>5, <1>6, <1>7, <1>8 DEF IInv

\* A manager that was dropped only has ticks left, which do nothing.
LEMMA OldJob ==
    ASSUME IInv, NEW g \in Gens, g # gen, Job(g)
    PROVE  /\ Runs(g, "tick") /\ Done(g)
           /\ UNCHANGED <<lights, entry, switch, phase, todo, timer, onUntil, store, troubles>>
  <1>1. g \notin timer /\ phase[g] = "begin"
    BY DEF IInv, OldInv
  <1>2. \A job \in Jobs \ {"tick"} : ~Runs(g, job)
    <2>1. \A job \in Jobs \ {"tick"} : ~Contains(queue[g], job)
      BY DEF IInv, OldInv
    <2>2. queue[g] # <<>> => Contains(queue[g], Head(queue[g]))
      BY TailOf DEF IInv, TypeOK
    <2> QED
      BY <2>1, <2>2 DEF Runs
  <1>3. BeginTick(g)
    <2>1. ~Start(g) /\ ~Stop(g)
      BY <1>2 DEF Start, Stop, Starts, Stops, Jobs
    <2> QED
      BY <1>1, <2>1 DEF Job, TurnOff, Pick, TurnOn, Persist
  <1> QED
    BY <1>1, <1>3 DEF BeginTick

LEMMA OldJobStep ==
    ASSUME IInv, NEW g \in Gens, g # gen, Job(g)
    PROVE  IInv'
  <1>1. /\ Runs(g, "tick") /\ Done(g)
        /\ UNCHANGED <<lights, entry, switch, phase, todo, timer, onUntil, store, troubles>>
    BY OldJob
  <1>2. TypeOK /\ gen \in Gens
    BY DEF IInv, TypeOK
  <1>3. /\ queue' \in [Gens -> Seq(Jobs)] /\ \A h \in Gens : IsInjective(queue'[h])
        /\ \A h \in Gens \ {g} : queue'[h] = queue[h]
        /\ \A x : Contains(queue'[g], x) => Contains(queue[g], x)
    BY <1>1, <1>2, DoneQueue DEF Runs
  <1>4. TypeOK'
    BY <1>1, <1>2, <1>3 DEF TypeOK, lights, entry, switch
  <1>5. OldInv'
    BY <1>1, <1>3 DEF IInv, OldInv, entry, Runs
  <1>6. /\ queue'[gen] = queue[gen]
        /\ UNCHANGED <<gen, stage, resume, isOn, restored, clicked, clicks, lit, due, ours, lost>>
    BY <1>1, <1>2, <1>3 DEF entry, switch, lights
  <1>7. QueueInv' /\ PhaseInv' /\ SwitchInv' /\ TrackInv'
    BY <1>1, <1>6 DEF IInv, QueueInv, PhaseInv, SwitchInv, WillRun, TrackInv, Seen, Queued, Runs, Loaded
  <1> QED
    BY <1>4, <1>5, <1>7 DEF IInv

-----------------------------------------------------------------------------
(* The latest manager's jobs. *)

\* What is known of the older managers stays so when only the latest one acts.
LEMMA OldKept ==
    ASSUME IInv, UNCHANGED gen,
           \A h \in Gens \ {gen} :
              /\ h \in timer' => h \in timer
              /\ phase'[h] = phase[h] /\ queue'[h] = queue[h] /\ onUntil'[h] = onUntil[h]
    PROVE  OldInv'
  BY DEF IInv, OldInv

\* What the invariant says of the lock's holder.
LEMMA HolderJob ==
    ASSUME IInv
    PROVE  /\ gen \in Gens /\ phase[gen] \in {"begin", "expire", "light", "stop"}
           /\ queue[gen] # <<>> => Contains(queue[gen], Head(queue[gen]))
           /\ queue[gen] # <<>> /\ Head(queue[gen]) # "restore" => ~Queued("restore")
           /\ Runs(gen, "unload") => ~Queued("resume")
           /\ Runs(gen, "off") /\ clicked = {} => ~Queued("resume")
  <1>1. /\ gen \in Gens /\ phase[gen] \in {"begin", "expire", "light", "stop"}
        /\ queue[gen] \in Seq(Jobs) /\ IsInjective(queue[gen])
    BY DEF IInv, TypeOK
  <1>2. queue[gen] # <<>> => Head(queue[gen]) \in Jobs /\ Contains(queue[gen], Head(queue[gen]))
    BY <1>1, TailOf
  <1>3. \A b : queue[gen] # <<>> /\ Ahead(queue[gen], b, Head(queue[gen])) /\ b # Head(queue[gen])
               => ~Contains(queue[gen], b)
    BY <1>1, HeadFirst
  <1> QED
    BY <1>1, <1>2, <1>3 DEF IInv, QueueInv, Queued, Runs

LEMMA StartStep ==
    ASSUME IInv, Start(gen)
    PROVE  IInv'
  <1>1. PICK job \in Starts : Runs(gen, job) /\ IF job = "on" THEN Shows(gen, TRUE) ELSE UNCHANGED isOn
    BY DEF Start
  <1>2. /\ TypeOK /\ OldInv /\ QueueInv /\ PhaseInv /\ SwitchInv /\ TrackInv
        /\ gen \in Gens /\ job \in {"on", "restore", "resume"}
    BY <1>1, HolderJob DEF IInv, Starts
  <1>3. /\ queue[gen] # <<>> /\ Head(queue[gen]) = job /\ Queued(job) /\ phase[gen] = "begin"
        /\ job # "restore" => ~Queued("restore")
    BY <1>1, <1>2, HolderJob DEF Runs, Queued, PhaseInv
  <1>4. /\ queue' \in [Gens -> Seq(Jobs)] /\ \A h \in Gens : IsInjective(queue'[h])
        /\ \A h \in Gens \ {gen} : queue'[h] = queue[h]
        /\ \A x : Contains(queue'[gen], x) <=> Contains(queue[gen], x) /\ x # job
        /\ \A a, b : Ahead(queue[gen], b, a) => Ahead(queue'[gen], b, a)
    BY <1>2, <1>3, DoneQueue DEF Start
  <1>5. /\ UNCHANGED <<lit, due, ours, lost, gen, stage, resume, restored, clicked, phase, todo, store>>
        /\ timer' = timer \cup {gen}
        /\ onUntil' = IF gen \in timer THEN onUntil ELSE [onUntil EXCEPT ![gen] = store]
        /\ onUntil'[gen] = IF gen \in timer THEN onUntil[gen] ELSE store
    BY <1>2 DEF Start, lights, entry, TypeOK
  <1>6. isOn' \in BOOLEAN /\ (job = "on" /\ Loaded => isOn') /\ (job # "on" => isOn' = isOn)
    BY <1>1, <1>2 DEF Shows, TypeOK
  <1>7. TypeOK'
    BY <1>2, <1>4, <1>5, <1>6 DEF TypeOK
  <1>8. OldInv'
    BY <1>2, <1>4, <1>5, OldKept DEF TypeOK
  <1>9. QueueInv'
    BY <1>2, <1>3, <1>4, <1>5 DEF QueueInv, Queued
  <1>10. PhaseInv'
    BY <1>2, <1>3, <1>5 DEF PhaseInv
  <1>11. SwitchInv'
    <2>1. clicked = {} /\ job = "on" => stage = "loaded"
      BY <1>2, <1>3 DEF QueueInv
    <2>2. clicked = {} /\ job # "on" => Loaded /\ isOn
      BY <1>2, <1>3 DEF SwitchInv, WillRun
    <2>3. clicked = {} => stage # "platforms"
      BY <1>2, <1>3, <2>1 DEF QueueInv
    <2> QED
      BY <1>2, <1>5, <1>6, <2>1, <2>2, <2>3 DEF SwitchInv, Loaded
  <1>12. TrackInv'
    <2>1. Seen \subseteq onUntil'[gen]
      <3>1. CASE gen \in timer
        BY <3>1, <1>2, <1>5 DEF TrackInv, QueueInv, SwitchInv, WillRun
      <3>2. CASE gen \notin timer
        BY <3>2, <1>2, <1>3, <1>5 DEF TrackInv, PhaseInv
      <3> QED
        BY <3>1, <3>2
    <2>2. clicked' = {} => Loaded' /\ isOn'
      BY <1>5, <1>11 DEF SwitchInv, WillRun
    <2> QED
      BY <1>5, <2>1, <2>2 DEF TrackInv, Seen
  <1> QED
    BY <1>7, <1>8, <1>9, <1>10, <1>11, <1>12 DEF IInv

LEMMA StopStep ==
    ASSUME IInv, Stop(gen)
    PROVE  IInv'
  <1>1. /\ TypeOK /\ OldInv /\ QueueInv /\ PhaseInv /\ SwitchInv /\ TrackInv
        /\ gen \in Gens
    BY HolderJob DEF IInv
  <1>2. /\ queue[gen] # <<>> /\ ~Queued("restore")
        /\ Runs(gen, "off") \/ Runs(gen, "unload")
    BY HolderJob DEF Stop, Runs, Stops
  <1>3. /\ UNCHANGED <<lit, due, ours, lost, gen, stage, resume, isOn, restored, clicked, queue,
                       onUntil, store>>
        /\ timer' = timer \ {gen}
        /\ phase' = [phase EXCEPT ![gen] = "stop"] /\ todo' = [todo EXCEPT ![gen] = onUntil[gen]]
        /\ phase'[gen] = "stop"
    BY <1>1 DEF Stop, Enters, lights, entry, switch, TypeOK
  <1>4. TypeOK'
    BY <1>1, <1>3 DEF TypeOK
  <1>5. OldInv'
    BY <1>1, <1>3, OldKept DEF TypeOK
  <1>6. QueueInv' /\ PhaseInv'
    BY <1>1, <1>2, <1>3 DEF QueueInv, PhaseInv, Queued, Runs
  <1>7. SwitchInv' /\ TrackInv'
    BY <1>1, <1>3 DEF SwitchInv, TrackInv, WillRun, Queued, Loaded, Seen
  <1> QED
    BY <1>4, <1>5, <1>6, <1>7 DEF IInv

LEMMA BeginTickStep ==
    ASSUME IInv, BeginTick(gen)
    PROVE  IInv'
  <1>1. /\ TypeOK /\ OldInv /\ QueueInv /\ PhaseInv /\ SwitchInv /\ TrackInv
        /\ gen \in Gens
    BY HolderJob DEF IInv
  <1>2. /\ Runs(gen, "tick") /\ queue[gen] # <<>> /\ phase[gen] = "begin"
        /\ UNCHANGED <<lit, due, ours, lost, gen, stage, resume, isOn, restored, clicked, timer,
                       onUntil, store>>
    BY DEF BeginTick, Runs, lights, entry, switch
  <1>3. CASE gen \in timer
    <2>1. /\ UNCHANGED queue
          /\ phase' = [phase EXCEPT ![gen] = "expire"] /\ phase'[gen] = "expire"
          /\ todo' = [todo EXCEPT ![gen] = onUntil[gen] \cap due]
      BY <1>1, <1>3 DEF BeginTick, Enters, TypeOK
    <2>2. TypeOK'
      BY <1>1, <1>2, <2>1 DEF TypeOK
    <2>3. OldInv'
      BY <1>1, <1>2, <2>1, OldKept DEF TypeOK
    <2>4. QueueInv' /\ PhaseInv'
      BY <1>1, <1>2, <1>3, <2>1 DEF QueueInv, PhaseInv, Queued, Runs
    <2>5. SwitchInv' /\ TrackInv'
      BY <1>1, <1>2, <2>1 DEF SwitchInv, TrackInv, WillRun, Queued, Loaded, Seen
    <2> QED
      BY <2>2, <2>3, <2>4, <2>5 DEF IInv
  <1>4. CASE gen \notin timer
    <2>1. Done(gen) /\ UNCHANGED <<phase, todo>>
      BY <1>4 DEF BeginTick
    <2>2. /\ queue' \in [Gens -> Seq(Jobs)] /\ \A h \in Gens : IsInjective(queue'[h])
          /\ \A h \in Gens \ {gen} : queue'[h] = queue[h]
          /\ \A x : Contains(queue'[gen], x) <=> Contains(queue[gen], x) /\ x # "tick"
          /\ \A a, b : Ahead(queue[gen], b, a) => Ahead(queue'[gen], b, a)
      BY <1>1, <1>2, <2>1, DoneQueue DEF Runs
    <2>3. TypeOK'
      BY <1>1, <1>2, <2>1, <2>2 DEF TypeOK
    <2>4. OldInv'
      BY <1>1, <1>2, <2>1, <2>2, OldKept
    <2>5. QueueInv' /\ PhaseInv'
      BY <1>1, <1>2, <1>4, <2>1, <2>2 DEF QueueInv, PhaseInv, Queued
    <2>6. SwitchInv' /\ TrackInv'
      BY <1>1, <1>2, <2>1, <2>2 DEF SwitchInv, TrackInv, WillRun, Queued, Loaded, Seen
    <2> QED
      BY <2>3, <2>4, <2>5, <2>6 DEF IInv
  <1> QED
    BY <1>3, <1>4

LEMMA TurnOffStep ==
    ASSUME IInv, TurnOff(gen)
    PROVE  IInv'
  <1>1. /\ TypeOK /\ OldInv /\ QueueInv /\ PhaseInv /\ SwitchInv /\ TrackInv
        /\ gen \in Gens /\ phase[gen] \in {"expire", "stop"}
    BY HolderJob DEF IInv, TurnOff
  <1>2. PICK l \in todo[gen] :
          /\ Enters(gen, phase[gen], todo[gen] \ {l})
          /\ \/ /\ onUntil' = [onUntil EXCEPT ![gen] = @ \ {l}]
                /\ lit' = lit \ {l} /\ ours' = ours \ {l} /\ due' = due \ {l} /\ UNCHANGED troubles
             \/ Trouble /\ UNCHANGED <<onUntil, lit, ours, due>>
    BY DEF TurnOff
  <1>3. /\ UNCHANGED <<lost, gen, stage, resume, isOn, restored, clicked, queue, timer, store>>
        /\ phase' = phase /\ todo' = [todo EXCEPT ![gen] = todo[gen] \ {l}]
    BY <1>1, <1>2 DEF TurnOff, Enters, entry, switch, TypeOK
  <1>4. /\ onUntil' \in [Gens -> SUBSET Lights]
        /\ \A h \in Gens \ {gen} : onUntil'[h] = onUntil[h]
        /\ \/ onUntil'[gen] = onUntil[gen] \ {l} /\ ours' = ours \ {l}
           \/ onUntil'[gen] = onUntil[gen] /\ ours' = ours
        /\ lit' \subseteq Lights /\ due' \subseteq Lights /\ ours' \subseteq lit'
    BY <1>1, <1>2 DEF TypeOK
  <1>5. TypeOK'
    BY <1>1, <1>3, <1>4 DEF TypeOK
  <1>6. OldInv'
    BY <1>1, <1>3, <1>4, OldKept
  <1>7. QueueInv' /\ PhaseInv'
    BY <1>1, <1>3 DEF QueueInv, PhaseInv, Queued, Runs
  <1>8. SwitchInv' /\ TrackInv'
    BY <1>1, <1>3, <1>4 DEF SwitchInv, TrackInv, WillRun, Queued, Loaded, Seen
  <1> QED
    BY <1>5, <1>6, <1>7, <1>8 DEF IInv

LEMMA PickStep ==
    ASSUME IInv, Pick(gen)
    PROVE  IInv'
  <1>1. /\ TypeOK /\ OldInv /\ QueueInv /\ PhaseInv /\ SwitchInv /\ TrackInv
        /\ gen \in Gens /\ phase[gen] = "expire"
    BY HolderJob DEF IInv, Pick
  <1>2. PICK some \in SUBSET (Lights \ (onUntil[gen] \cup lit)) : Enters(gen, "light", some)
    BY DEF Pick
  <1>3. /\ UNCHANGED <<lit, due, ours, lost, gen, stage, resume, isOn, restored, clicked, queue,
                       timer, onUntil, store>>
        /\ phase' = [phase EXCEPT ![gen] = "light"] /\ phase'[gen] = "light"
        /\ todo' = [todo EXCEPT ![gen] = some]
    BY <1>1, <1>2 DEF Pick, Enters, lights, entry, switch, TypeOK
  <1>4. TypeOK'
    BY <1>1, <1>3 DEF TypeOK
  <1>5. OldInv'
    BY <1>1, <1>3, OldKept DEF TypeOK
  <1>6. QueueInv' /\ PhaseInv'
    BY <1>1, <1>3 DEF QueueInv, PhaseInv, Queued, Runs
  <1>7. SwitchInv' /\ TrackInv'
    BY <1>1, <1>3 DEF SwitchInv, TrackInv, WillRun, Queued, Loaded, Seen
  <1> QED
    BY <1>4, <1>5, <1>6, <1>7 DEF IInv

LEMMA TurnOnStep ==
    ASSUME IInv, TurnOn(gen)
    PROVE  IInv'
  <1>1. /\ TypeOK /\ OldInv /\ QueueInv /\ PhaseInv /\ SwitchInv /\ TrackInv
        /\ gen \in Gens /\ phase[gen] = "light"
    BY HolderJob DEF IInv, TurnOn
  <1>2. PICK l \in todo[gen] :
          /\ Enters(gen, "light", todo[gen] \ {l})
          /\ \/ /\ onUntil' = [onUntil EXCEPT ![gen] = @ \cup {l}]
                /\ ours' = IF l \in lit THEN ours ELSE ours \cup {l}
                /\ lit' = lit \cup {l} /\ due' = due \ {l} /\ UNCHANGED troubles
             \/ Trouble /\ UNCHANGED <<onUntil, lit, due, ours>>
    BY DEF TurnOn
  <1>3. /\ UNCHANGED <<lost, gen, stage, resume, isOn, restored, clicked, queue, timer, store>>
        /\ phase' = phase /\ todo' = [todo EXCEPT ![gen] = todo[gen] \ {l}]
    BY <1>1, <1>2 DEF TurnOn, Enters, entry, switch, TypeOK
  <1>4. /\ onUntil' \in [Gens -> SUBSET Lights]
        /\ \A h \in Gens \ {gen} : onUntil'[h] = onUntil[h]
        /\ \/ onUntil'[gen] = onUntil[gen] \cup {l} /\ ours' \subseteq ours \cup {l}
           \/ onUntil'[gen] = onUntil[gen] /\ ours' = ours
        /\ lit' \subseteq Lights /\ due' \subseteq Lights /\ ours' \subseteq lit'
    <2>1. l \in Lights /\ onUntil[gen] \subseteq Lights
      BY <1>1 DEF TypeOK
    <2>2. CASE onUntil' = [onUntil EXCEPT ![gen] = @ \cup {l}]
      <3>1. /\ onUntil' \in [Gens -> SUBSET Lights] /\ onUntil'[gen] = onUntil[gen] \cup {l}
            /\ \A h \in Gens \ {gen} : onUntil'[h] = onUntil[h]
        BY <1>1, <2>1, <2>2 DEF TypeOK
      <3> QED
        BY <1>1, <1>2, <2>1, <3>1 DEF TypeOK
    <2>3. CASE UNCHANGED <<onUntil, lit, due, ours>>
      BY <1>1, <2>3 DEF TypeOK
    <2> QED
      BY <1>2, <2>2, <2>3
  <1>5. TypeOK'
    BY <1>1, <1>3, <1>4 DEF TypeOK
  <1>6. OldInv'
    BY <1>1, <1>3, <1>4, OldKept
  <1>7. QueueInv' /\ PhaseInv' /\ SwitchInv'
    BY <1>1, <1>3 DEF QueueInv, PhaseInv, SwitchInv, WillRun, Queued, Runs, Loaded
  <1>8. TrackInv'
    <2>1. Seen \subseteq onUntil[gen] /\ (clicked = {} => Loaded /\ isOn)
      BY <1>1 DEF PhaseInv, QueueInv, SwitchInv, TrackInv, WillRun
    <2> QED
      BY <1>3, <1>4, <2>1 DEF TrackInv, Seen, Loaded
  <1> QED
    BY <1>5, <1>6, <1>7, <1>8 DEF IInv

LEMMA PersistStep ==
    ASSUME IInv, Persist(gen)
    PROVE  IInv'
  <1>1. /\ TypeOK /\ OldInv /\ QueueInv /\ PhaseInv /\ SwitchInv /\ TrackInv
        /\ gen \in Gens
    BY HolderJob DEF IInv
  <1>2. /\ phase[gen] \in {"light", "stop"}
        /\ phase[gen] = "light" => gen \in timer /\ Runs(gen, "tick")
        /\ phase[gen] = "stop" => gen \notin timer /\ (Runs(gen, "off") \/ Runs(gen, "unload"))
    BY <1>1 DEF Persist, PhaseInv
  <1> DEFINE head == Head(queue[gen])
  <1>3. /\ queue[gen] # <<>> /\ Queued(head) /\ ~Queued("restore")
        /\ head = "unload" => ~Queued("resume")
        /\ head = "off" /\ clicked = {} => ~Queued("resume")
        /\ head \in {"tick", "off", "unload"} /\ (head = "tick" <=> gen \in timer)
    BY <1>2, HolderJob DEF Runs, Queued
  <1>4. /\ queue' \in [Gens -> Seq(Jobs)] /\ \A h \in Gens : IsInjective(queue'[h])
        /\ \A h \in Gens \ {gen} : queue'[h] = queue[h]
        /\ \A x : Contains(queue'[gen], x) <=> Contains(queue[gen], x) /\ x # head
        /\ \A a, b : Ahead(queue[gen], b, a) => Ahead(queue'[gen], b, a)
    BY <1>1, <1>3, DoneQueue DEF Persist
  <1>5. /\ UNCHANGED <<lit, due, ours, lost, gen, resume, restored, clicked, timer, onUntil>>
        /\ store' = onUntil[gen]
        /\ phase' = [phase EXCEPT ![gen] = "begin"] /\ phase'[gen] = "begin"
        /\ todo' = [todo EXCEPT ![gen] = {}]
        /\ stage' = IF head = "unload" THEN "platforms" ELSE stage
    BY <1>1, <1>3 DEF Persist, Enters, lights, Runs, TypeOK
  <1>6. /\ isOn' \in BOOLEAN /\ Loaded' = Loaded
        /\ isOn' # isOn => head = "off" /\ onUntil[gen] = {} /\ Loaded
    BY <1>1, <1>3, <1>5 DEF Persist, Shows, Runs, TypeOK, QueueInv, Loaded
  <1> HIDE DEF head
  <1>7. TypeOK'
    BY <1>1, <1>4, <1>5, <1>6 DEF TypeOK
  <1>8. OldInv'
    BY <1>1, <1>4, <1>5, OldKept DEF TypeOK
  <1>9. QueueInv'
    <2>1. head = "unload" => stage = "stopping"
      BY <1>1, <1>3 DEF QueueInv
    <2> QED
      BY <1>1, <1>3, <1>4, <1>5, <2>1 DEF QueueInv, Queued
  <1>10. PhaseInv'
    BY <1>5 DEF PhaseInv
  <1>11. SwitchInv'
    <2>1. ASSUME clicked = {}, WillRun'
          PROVE  Loaded /\ isOn /\ head # "off"
      <3>1. WillRun
        BY <2>1, <1>1, <1>3, <1>4, <1>5 DEF WillRun, Queued, QueueInv
      <3>2. head # "off"
        BY <2>1, <1>1, <1>3, <1>4, <1>5 DEF WillRun, Queued, QueueInv
      <3> QED
        BY <2>1, <3>1, <3>2, <1>1 DEF SwitchInv
    <2>2. clicked = {} /\ stage' = "platforms" => gen \notin timer
      BY <1>1, <1>3, <1>5 DEF SwitchInv
    <2> QED
      BY <1>1, <1>5, <1>6, <2>1, <2>2 DEF SwitchInv
  <1>12. TrackInv'
    <2>1. clicked = {} => Loaded
      BY <1>1, <1>3 DEF QueueInv, SwitchInv, WillRun, Loaded
    <2>2. Seen \subseteq onUntil[gen]
      BY <1>1, <1>3, <2>1 DEF TrackInv
    <2> QED
      BY <1>1, <1>5, <1>6, <2>2 DEF TrackInv, Seen
  <1> QED
    BY <1>7, <1>8, <1>9, <1>10, <1>11, <1>12 DEF IInv

LEMMA LatestJobStep ==
    ASSUME IInv, Job(gen)
    PROVE  IInv'
  BY StartStep, StopStep, BeginTickStep, TurnOffStep, PickStep, TurnOnStep, PersistStep DEF Job

-----------------------------------------------------------------------------
(* The timer, the user and everybody else. *)

LEMMA TickStep ==
    ASSUME IInv, NEW g \in Gens, Tick(g)
    PROVE  IInv'
  <1>1. /\ TypeOK /\ OldInv /\ QueueInv /\ PhaseInv /\ SwitchInv /\ TrackInv
        /\ gen \in Gens /\ g = gen /\ gen \in timer
    BY HolderJob DEF IInv, Tick, OldInv
  <1>2. /\ UNCHANGED <<lit, due, ours, lost, gen, stage, resume, isOn, restored, clicked, phase, todo,
                       timer, onUntil, store>>
        /\ Asks(gen, "tick") /\ ~Contains(queue[gen], "tick")
    BY <1>1 DEF Tick, lights, entry, switch
  <1>3. /\ queue' \in [Gens -> Seq(Jobs)] /\ \A h \in Gens : IsInjective(queue'[h])
        /\ \A h \in Gens \ {gen} : queue'[h] = queue[h]
        /\ \A x : Contains(queue'[gen], x) <=> Contains(queue[gen], x) \/ x = "tick"
        /\ \A a, b : Ahead(queue[gen], b, a) /\ b # "tick" => Ahead(queue'[gen], b, a)
        /\ queue[gen] # <<>> => queue'[gen] # <<>> /\ Head(queue'[gen]) = Head(queue[gen])
    BY <1>1, <1>2, AskQueue DEF Jobs
  <1>4. TypeOK'
    BY <1>1, <1>2, <1>3 DEF TypeOK
  <1>5. OldInv'
    BY <1>1, <1>2, <1>3, OldKept
  <1>6. QueueInv'
    BY <1>1, <1>2, <1>3 DEF QueueInv, Queued
  <1>7. PhaseInv' /\ SwitchInv' /\ TrackInv'
    BY <1>1, <1>2, <1>3 DEF PhaseInv, SwitchInv, TrackInv, WillRun, Queued, Runs, Loaded, Seen
  <1> QED
    BY <1>4, <1>5, <1>6, <1>7 DEF IInv

LEMMA ExpiresStep ==
    ASSUME IInv, NEW l \in Lights, Expires(l)
    PROVE  IInv'
  <1>1. /\ UNCHANGED <<lit, ours, lost, gen, stage, resume, isOn, restored, clicked, queue, phase, todo,
                       timer, onUntil, store>>
        /\ due' = due \cup {l}
    BY DEF Expires, entry, switch, work
  <1>2. TypeOK'
    BY <1>1 DEF IInv, TypeOK
  <1>3. OldInv' /\ QueueInv' /\ PhaseInv' /\ SwitchInv' /\ TrackInv'
    BY <1>1 DEF IInv, OldInv, QueueInv, PhaseInv, SwitchInv, TrackInv, WillRun, Queued, Runs, Loaded, Seen
  <1> QED
    BY <1>2, <1>3 DEF IInv

LEMMA OthersStep ==
    ASSUME IInv, NEW l \in Lights, Others(l)
    PROVE  IInv'
  <1>1. /\ UNCHANGED <<due, lost, gen, stage, resume, isOn, restored, clicked, queue, phase, todo,
                       timer, onUntil, store>>
        /\ ours' = ours \ {l} /\ Seen' \subseteq Seen
        /\ lit' = IF l \in lit THEN lit \ {l} ELSE lit \cup {l}
    BY DEF Others, entry, switch, work, Seen
  <1>2. TypeOK'
    BY <1>1 DEF IInv, TypeOK
  <1>3. OldInv' /\ QueueInv' /\ PhaseInv' /\ SwitchInv' /\ TrackInv'
    BY <1>1 DEF IInv, OldInv, QueueInv, PhaseInv, SwitchInv, TrackInv, WillRun, Queued, Runs, Loaded
  <1> QED
    BY <1>2, <1>3 DEF IInv

LEMMA ClickStep ==
    ASSUME IInv, NEW job \in {"on", "off"}, Click(job)
    PROVE  IInv'
  <1>1. /\ TypeOK /\ OldInv /\ QueueInv /\ PhaseInv /\ SwitchInv /\ TrackInv
        /\ gen \in Gens
    BY HolderJob DEF IInv
  <1>2. /\ UNCHANGED <<lit, due, ours, lost, gen, stage, resume, isOn, restored, phase, todo,
                       timer, onUntil, store>>
        /\ Asks(gen, job) /\ ~Contains(queue[gen], job) /\ job \in Jobs /\ Loaded
    BY DEF Click, lights, entry, Jobs, Starts, Stops
  <1>3. clicked' = IF stage = "loaded" THEN clicked ELSE clicked \cup {gen}
    BY DEF Click
  <1>4. /\ queue' \in [Gens -> Seq(Jobs)] /\ \A h \in Gens : IsInjective(queue'[h])
        /\ \A h \in Gens \ {gen} : queue'[h] = queue[h]
        /\ \A x : Contains(queue'[gen], x) <=> Contains(queue[gen], x) \/ x = job
        /\ \A a, b : Ahead(queue[gen], b, a) /\ b # job => Ahead(queue'[gen], b, a)
        /\ queue[gen] # <<>> => queue'[gen] # <<>> /\ Head(queue'[gen]) = Head(queue[gen])
    BY <1>1, <1>2, AskQueue
  <1>5. TypeOK'
    BY <1>1, <1>2, <1>3, <1>4 DEF TypeOK
  <1>6. OldInv'
    BY <1>1, <1>2, <1>4, OldKept
  <1>7. QueueInv'
    BY <1>1, <1>2, <1>3, <1>4 DEF QueueInv, Queued
  <1>8. PhaseInv' /\ SwitchInv' /\ TrackInv'
    BY <1>1, <1>2, <1>3, <1>4
       DEF PhaseInv, SwitchInv, TrackInv, WillRun, Queued, Runs, Loaded, Seen
  <1> QED
    BY <1>5, <1>6, <1>7, <1>8 DEF IInv

-----------------------------------------------------------------------------
(* The entry. *)

LEMMA UnloadStep ==
    ASSUME IInv, Unload
    PROVE  IInv'
  <1>1. /\ TypeOK /\ OldInv /\ QueueInv /\ PhaseInv /\ SwitchInv /\ TrackInv
        /\ gen \in Gens
    BY HolderJob DEF IInv
  <1>2. /\ UNCHANGED <<lit, due, ours, lost, gen, isOn, restored, phase, todo, timer, onUntil, store>>
        /\ Asks(gen, "unload") /\ ~Contains(queue[gen], "unload")
        /\ stage = "loaded" /\ stage' = "stopping" /\ resume' = (gen \in timer)
        /\ clicked' = IF Queued("on") \/ Queued("off") THEN clicked \cup {gen} ELSE clicked
    BY DEF Unload, lights, Queued
  <1>3. /\ queue' \in [Gens -> Seq(Jobs)] /\ \A h \in Gens : IsInjective(queue'[h])
        /\ \A h \in Gens \ {gen} : queue'[h] = queue[h]
        /\ \A x : Contains(queue'[gen], x) <=> Contains(queue[gen], x) \/ x = "unload"
        /\ \A a, b : Ahead(queue[gen], b, a) /\ b # "unload" => Ahead(queue'[gen], b, a)
        /\ queue[gen] # <<>> => queue'[gen] # <<>> /\ Head(queue'[gen]) = Head(queue[gen])
    <2>1. "unload" \in Jobs
      BY DEF Jobs, Stops
    <2> QED
      BY <1>1, <1>2, <2>1, AskQueue
  <1>4. TypeOK'
    BY <1>1, <1>2, <1>3 DEF TypeOK
  <1>5. OldInv'
    BY <1>1, <1>2, <1>3, OldKept
  <1>6. QueueInv'
    BY <1>1, <1>2, <1>3 DEF QueueInv, Queued
  <1>7. PhaseInv' /\ SwitchInv' /\ TrackInv'
    BY <1>1, <1>2, <1>3 DEF PhaseInv, SwitchInv, TrackInv, WillRun, Queued, Runs, Loaded, Seen
  <1> QED
    BY <1>4, <1>5, <1>6, <1>7 DEF IInv

LEMMA PlatformsUnloadedStep ==
    ASSUME IInv, PlatformsUnloaded
    PROVE  IInv'
  <1>1. /\ TypeOK /\ OldInv /\ QueueInv /\ PhaseInv /\ SwitchInv /\ TrackInv
        /\ gen \in Gens
    BY HolderJob DEF IInv
  <1>2. /\ UNCHANGED <<lit, due, ours, lost, gen, resume, clicked, queue, phase, todo, timer, onUntil,
                       store>>
        /\ stage = "platforms" /\ stage' = "unloaded" /\ restored' = isOn /\ isOn' = FALSE
    BY DEF PlatformsUnloaded, lights, work
  <1>3. TypeOK'
    BY <1>1, <1>2 DEF TypeOK
  <1>4. OldInv'
    BY <1>1, <1>2, OldKept
  <1>5. QueueInv' /\ PhaseInv'
    BY <1>1, <1>2 DEF QueueInv, PhaseInv, Queued, Runs
  <1>6. SwitchInv' /\ TrackInv'
    BY <1>1, <1>2 DEF QueueInv, SwitchInv, TrackInv, WillRun, Queued, Loaded, Seen
  <1> QED
    BY <1>3, <1>4, <1>5, <1>6 DEF IInv

LEMMA PlatformsRefuseStep ==
    ASSUME IInv, PlatformsRefuse
    PROVE  IInv'
  <1>1. /\ TypeOK /\ OldInv /\ QueueInv /\ PhaseInv /\ SwitchInv /\ TrackInv
        /\ gen \in Gens
    BY HolderJob DEF IInv
  <1>2. /\ UNCHANGED <<lit, due, ours, lost, gen, resume, isOn, restored, clicked, phase, todo, timer,
                       onUntil, store>>
        /\ stage = "platforms" /\ stage' = "loaded"
    BY DEF PlatformsRefuse, lights, switch
  <1>3. ~Queued("unload") /\ ~Queued("restore") /\ ~Queued("resume")
        /\ (clicked = {} => ~Queued("on") /\ ~Queued("off"))
    BY <1>1, <1>2 DEF QueueInv
  <1>4. CASE resume
    <2>1. Asks(gen, "resume") /\ ~Contains(queue[gen], "resume")
      BY <1>3, <1>4 DEF PlatformsRefuse, Queued
    <2>2. /\ queue' \in [Gens -> Seq(Jobs)] /\ \A h \in Gens : IsInjective(queue'[h])
          /\ \A h \in Gens \ {gen} : queue'[h] = queue[h]
          /\ \A x : Contains(queue'[gen], x) <=> Contains(queue[gen], x) \/ x = "resume"
          /\ \A a, b : Ahead(queue[gen], b, a) /\ b # "resume" => Ahead(queue'[gen], b, a)
          /\ \A a : ~Contains(queue[gen], a) /\ a # "resume" => Ahead(queue'[gen], "resume", a)
          /\ queue[gen] # <<>> => queue'[gen] # <<>> /\ Head(queue'[gen]) = Head(queue[gen])
      BY <1>1, <2>1, AskQueue DEF Jobs, Starts
    <2>3. TypeOK'
      BY <1>1, <1>2, <2>2 DEF TypeOK
    <2>4. OldInv'
      BY <1>1, <1>2, <2>2, OldKept
    <2>5. QueueInv'
      BY <1>1, <1>2, <1>3, <2>2 DEF QueueInv, Queued
    <2>6. PhaseInv' /\ SwitchInv' /\ TrackInv'
      BY <1>1, <1>2, <1>3, <1>4, <2>2
         DEF PhaseInv, SwitchInv, TrackInv, WillRun, Queued, Runs, Loaded, Seen
    <2> QED
      BY <2>3, <2>4, <2>5, <2>6 DEF IInv
  <1>5. CASE ~resume
    <2>1. UNCHANGED queue
      BY <1>5 DEF PlatformsRefuse
    <2>2. TypeOK'
      BY <1>1, <1>2, <2>1 DEF TypeOK
    <2>3. OldInv'
      BY <1>1, <1>2, <2>1, OldKept
    <2>4. QueueInv' /\ PhaseInv' /\ SwitchInv' /\ TrackInv'
      BY <1>1, <1>2, <1>3, <1>5, <2>1
         DEF QueueInv, PhaseInv, SwitchInv, TrackInv, WillRun, Queued, Runs, Loaded, Seen
    <2> QED
      BY <2>2, <2>3, <2>4 DEF IInv
  <1> QED
    BY <1>1, <1>4, <1>5 DEF TypeOK

LEMMA SetUpStep ==
    ASSUME IInv, SetUp
    PROVE  IInv'
  <1>1. /\ TypeOK /\ OldInv /\ QueueInv /\ PhaseInv /\ SwitchInv /\ TrackInv
        /\ gen \in Gens /\ phase[gen] \in {"begin", "expire", "light", "stop"}
        /\ queue[gen] # <<>> => Contains(queue[gen], Head(queue[gen]))
    BY HolderJob DEF IInv
  <1>2. /\ UNCHANGED <<lit, due, ours, lost, resume, restored, clicked, phase, todo, timer, onUntil, store>>
        /\ stage = "unloaded" /\ stage' = "loaded" /\ clicked = {} /\ isOn' = restored
        /\ gen' = gen + 1 /\ gen < MaxLoads
        /\ queue' = [queue EXCEPT ![gen'] = IF restored THEN <<"restore">> ELSE <<>>]
    BY DEF SetUp, lights
  <1>3. gen' \in Gens /\ gen' > gen /\ \A g \in Gens : g > gen' => g > gen /\ g # gen'
    BY <1>1, <1>2 DEF Gens
  <1>4. /\ queue'[gen'] = IF restored THEN <<"restore">> ELSE <<>>
        /\ \A g \in Gens \ {gen'} : queue'[g] = queue[g]
    BY <1>1, <1>2, <1>3 DEF TypeOK
  <1>5. /\ ~Queued("restore") /\ ~Queued("resume") /\ ~Queued("on") /\ ~Queued("off")
        /\ ~Queued("unload") /\ gen \notin timer
    BY <1>1, <1>2 DEF QueueInv, SwitchInv, WillRun, Loaded
  <1>6. phase[gen] = "begin"
    BY <1>1, <1>5 DEF PhaseInv, Runs, Queued
  <1>7. \A q \in {<<>>, <<"restore">>} :
           /\ q \in Seq(Jobs) /\ IsInjective(q)
           /\ \A x : Contains(q, x) <=> q = <<"restore">> /\ x = "restore"
    <2>1. <<"restore">> \in Seq(Jobs) /\ <<>> \in Seq(Jobs)
      BY DEF Jobs, Starts
    <2>2. /\ DOMAIN <<"restore">> = 1..1 /\ Len(<<"restore">>) = 1 /\ <<"restore">>[1] = "restore"
          /\ DOMAIN <<>> = {} /\ Len(<<>>) = 0 /\ <<>> # <<"restore">>
      OBVIOUS
    <2>3. IsInjective(<<>>) /\ IsInjective(<<"restore">>)
      BY <2>2 DEF IsInjective
    <2>4. \A x : Contains(<<"restore">>, x) <=> x = "restore"
      BY <2>2 DEF Contains
    <2> QED
      BY <2>1, <2>2, <2>3, <2>4, NoneIn
  <1>8. \A x : Contains(queue'[gen'], x) <=> restored /\ x = "restore"
    BY <1>4, <1>7
  <1>9. TypeOK'
    <2>1. queue' \in [Gens -> Seq(Jobs)]
      BY <1>1, <1>2, <1>7 DEF TypeOK
    <2>2. \A g \in Gens : IsInjective(queue'[g])
      BY <1>1, <1>4, <1>7 DEF TypeOK
    <2> QED
      BY <1>1, <1>2, <1>3, <2>1, <2>2 DEF TypeOK
  <1>10. gen' \notin timer /\ phase[gen'] = "begin" /\ onUntil[gen'] = {}
    BY <1>1, <1>3 DEF OldInv
  <1>11. OldInv'
    <2> SUFFICES ASSUME NEW g \in Gens, g # gen'
                 PROVE  /\ g \notin timer /\ phase[g] = "begin"
                        /\ \A job \in Jobs \ {"tick"} : ~Contains(queue[g], job)
                        /\ g > gen' => queue[g] = <<>> /\ onUntil[g] = {}
      BY <1>2, <1>3, <1>4 DEF OldInv
    <2>1. CASE g = gen
      BY <2>1, <1>1, <1>3, <1>5, <1>6 DEF Jobs, Starts, Stops, Queued, Gens
    <2>2. CASE g # gen
      BY <2>2, <1>1, <1>3 DEF OldInv
    <2> QED
      BY <2>1, <2>2
  <1>12. QueueInv'
    <2>1. \A a, b : ~Contains(queue'[gen'], a) => Ahead(queue'[gen'], b, a) /\ Ahead(queue'[gen'], a, b)
      BY NoneAhead
    <2> QED
      BY <1>2, <1>8, <1>10, <2>1 DEF QueueInv, Queued
  <1>13. PhaseInv'
    BY <1>2, <1>10 DEF PhaseInv
  <1>14. SwitchInv'
    BY <1>2, <1>8, <1>10 DEF SwitchInv, WillRun, Queued, Loaded
  <1>15. TrackInv'
    <2>1. Seen \subseteq store /\ (~restored => Seen = {})
      BY <1>1, <1>2, <1>6 DEF TrackInv, PhaseInv, Loaded
    <2> QED
      BY <1>2, <1>8, <2>1 DEF TrackInv, Seen, Queued
  <1> QED
    BY <1>9, <1>11, <1>12, <1>13, <1>14, <1>15 DEF IInv

LEMMA CrashStep ==
    ASSUME IInv, Crash
    PROVE  IInv'
  <1>1. /\ TypeOK /\ gen \in Gens
    BY HolderJob DEF IInv
  <1>2. /\ UNCHANGED <<gen, lit, due, ours, store>>
        /\ stage' = "unloaded" /\ isOn' = FALSE /\ resume' = FALSE
        /\ timer' = {} /\ onUntil' = [g \in Gens |-> {}] /\ queue' = [g \in Gens |-> <<>>]
        /\ phase' = [g \in Gens |-> "begin"] /\ todo' = [g \in Gens |-> {}]
        /\ restored' \in {isOn, restored} /\ clicked' = {}
        /\ lost' = lost \cup (IF restored' THEN ours \ store ELSE ours)
    BY DEF Crash
  <1>3. \A g \in Gens : queue'[g] = <<>> /\ phase'[g] = "begin" /\ onUntil'[g] = {}
    BY <1>2
  <1>4. \A x : ~Contains(queue'[gen], x)
    BY <1>1, <1>3, NoneIn
  <1>5. TypeOK'
    <2>1. <<>> \in Seq(Jobs) /\ IsInjective(<<>>)
      BY EmptySeq, LenProperties DEF IsInjective
    <2>2. queue' \in [Gens -> Seq(Jobs)] /\ \A g \in Gens : IsInjective(queue'[g])
      BY <1>2, <2>1
    <2>3. /\ phase' \in [Gens -> {"begin", "expire", "light", "stop"}]
          /\ onUntil' \in [Gens -> SUBSET Lights] /\ todo' \in [Gens -> SUBSET Lights]
      BY <1>2
    <2> QED
      BY <1>1, <1>2, <2>2, <2>3 DEF TypeOK
  <1>6. OldInv'
    BY <1>2, <1>3, NoneIn DEF OldInv
  <1>7. QueueInv'
    BY <1>2, <1>4, NoneAhead DEF QueueInv, Queued
  <1>8. PhaseInv' /\ SwitchInv'
    BY <1>1, <1>2, <1>3, <1>4 DEF PhaseInv, SwitchInv, WillRun, Queued
  <1>9. TrackInv'
    BY <1>1, <1>2 DEF TrackInv, Seen, Loaded, TypeOK
  <1> QED
    BY <1>5, <1>6, <1>7, <1>8, <1>9 DEF IInv

LEMMA NextStep == IInv /\ [Next]_vars => IInv'
  <1> SUFFICES ASSUME IInv, [Next]_vars PROVE IInv'
    OBVIOUS
  <1>1. ASSUME NEW g \in Gens, Job(g) PROVE IInv'
    BY <1>1, LatestJobStep, OldJobStep
  <1>2. ASSUME NEW l \in Lights, Expires(l) \/ Others(l) PROVE IInv'
    BY <1>2, ExpiresStep, OthersStep
  <1>3. CASE UNCHANGED vars
    BY <1>3 DEF vars, lights, entry, switch, work, IInv, TypeOK, OldInv, QueueInv, PhaseInv, SwitchInv,
                TrackInv, WillRun, Queued, Runs, Loaded, Seen
  <1> QED
    BY <1>1, <1>2, <1>3, TickStep, ClickStep, UnloadStep, PlatformsUnloadedStep, PlatformsRefuseStep,
       SetUpStep, CrashStep DEF Next

-----------------------------------------------------------------------------
(* Theorems. *)

\* What every state of holiday mode satisfies: which job of a manager stands behind which, how far
\* the lock's holder has come, and where the lights it has turned on are remembered.
THEOREM Reachable == Spec => []IInv
  BY InitIInv, NextStep, PTL DEF Spec

\* The variables hold values of their types; no job stands in a manager's queue twice.
THEOREM TypeCorrect == Spec => []TypeOK
  <1>1. IInv => TypeOK
    BY DEF IInv
  <1> QED
    BY <1>1, Reachable, PTL

\* However clicks, ticks, unloads, refused unloads, set-ups and crashes interleave, no timer runs
\* behind a switch that shows off or is gone, but after a click in the middle of an unload.
THEOREM NoTimerHidden == Spec => []NoHiddenTimer
  <1>1. IInv => NoHiddenTimer
    <2> SUFFICES ASSUME IInv, NEW g \in timer \ clicked
                 PROVE  Loaded /\ isOn /\ g = gen
      BY DEF NoHiddenTimer
    <2>1. g = gen
      BY DEF IInv, OldInv, TypeOK
    <2>2. clicked = {}
      BY <2>1 DEF IInv, SwitchInv
    <2> QED
      BY <2>1, <2>2 DEF IInv, SwitchInv, WillRun
  <1> QED
    BY <1>1, Reachable, PTL

\* A light that holiday mode has turned on stays in its memory or in its store until it is off or
\* somebody else touches it, across stops that fail, reloads and restarts, but for what a crash
\* has lost.
THEOREM NothingForgotten == Spec => []OursAreTracked
  <1>1. IInv => OursAreTracked
    BY DEF IInv, TrackInv, Seen, OursAreTracked
  <1> QED
    BY <1>1, Reachable, PTL
=============================================================================
