------------------------- MODULE CloudSchedulesProofs -------------------------
(***************************************************************************)
(* Proofs about the schedules in the Plejd cloud: types, nothing in the    *)
(* cloud that no schedule of the entry accounts for, and an entry that     *)
(* says of each schedule what the cloud does.  Between calls these are     *)
(* facts about the entry and the cloud; in the middle of a call they are   *)
(* facts about how far the call that holds the lock has come.              *)
(***************************************************************************)
EXTENDS CloudSchedules, SequenceTheorems, TLAPS

\* n is a schedule's number to the cloud or to the entry.
Entry(n) == events[n] # None \/ known[n] # None

\* n is the scene of i's night reduction, to the cloud or to the entry.
Reduces(i, n) ==
    \/ events[i] # None /\ events[i].night = n
    \/ known[i] # None /\ known[i].night = n

\* A number is one schedule's, as its own or as its night reduction's.
UniqueInv == \A i, n \in Numbers :
    Reduces(i, n) => ~Entry(n) /\ \A j \in Numbers : Reduces(j, n) => i = j

\* Numbers that have not been given yet stand nowhere.
NextInv ==
    /\ next \in Nat \ {0}
    /\ \A n \in Numbers : n >= next =>
          scenes[n] = None /\ ~Entry(n) /\ \A i \in Numbers : ~Reduces(i, n)

\* Calls that wait have made nothing, and every call was asked for something.
IdleInv == \A o \in Ops :
    /\ pc[o] # "idle" => want[o] # None
    /\ o # lock => made[o] = <<>>

\* How far a creation, an update and a removal have come, and what they have made by then.
CreateInv(o) ==
    /\ pc[o] \in {"scene", "night", "event", "cleanup", "list", "sync", "refresh"}
    /\ pc[o] = "scene" => made[o] = <<>>
    /\ pc[o] = "night" => \E a \in Numbers : made[o] = <<a>>
    /\ pc[o] \in {"night", "event"} => scenes[made[o][1]] = want[o].title
    /\ pc[o] \in {"event", "list", "sync", "refresh"} =>
          \/ ~want[o].night /\ \E a \in Numbers : made[o] = <<a>>
          \/ want[o].night /\ \E a, b \in Numbers : a # b /\ made[o] = <<a, b>>
    /\ pc[o] \in {"list", "sync", "refresh"} =>
          /\ updated[o] # None
          /\ updated[o].night = IF want[o].night THEN made[o][2] ELSE 0
    /\ pc[o] = "refresh" => known[made[o][1]] = updated[o]

UpdateInv(o) ==
    /\ pc[o] \in {"scene", "night", "event", "cleanup", "list", "refresh"}
    /\ updated[o] # None
    /\ pc[o] = "scene" => want[o].title # None
    /\ pc[o] \in {"scene", "night"} => made[o] = <<>>
    /\ pc[o] \in {"scene", "night", "event", "cleanup"} => updated[o].night = cached[o].night
    /\ pc[o] = "event" =>
          \/ made[o] = <<>> /\ (want[o].night => cached[o].night # 0)
          \/ want[o].night /\ cached[o].night = 0 /\ \E n \in Numbers : made[o] = <<n>>
    /\ pc[o] \in {"list", "refresh"} =>
          \/ made[o] = <<>> /\ updated[o].night = cached[o].night
          \/ cached[o].night = 0 /\ updated[o].night # 0 /\ made[o] = <<updated[o].night>>

RemoveInv(o) ==
    /\ pc[o] \in {"mark", "unlink", "empty", "list", "refresh"}
    /\ pc[o] # "empty" => made[o] = <<>>
    /\ pc[o] \in {"mark", "unlink"} => updated[o] = cached[o]
    /\ pc[o] \in {"empty", "list", "refresh"} =>
          /\ events[want[o].id] = None
          /\ \A n \in Numbers : Contains(made[o], n) => n \in {want[o].id, cached[o].night}
          /\ \A n \in Numbers : n \in {want[o].id, cached[o].night} =>
                scenes[n] = None \/ n \in lost \/ Contains(made[o], n)

HolderOf(o) ==
    /\ want[o].kind = "create" => CreateInv(o)
    /\ want[o].kind = "update" => UpdateInv(o)
    /\ want[o].kind = "remove" => RemoveInv(o)
    /\ want[o].kind # "create" => cached[o] = known[want[o].id] /\ cached[o] # None
    /\ pc[o] \in {"sync", "refresh"} =>
          list[o] = [known EXCEPT ![Id(o)] = IF want[o].kind = "remove" THEN None ELSE updated[o]]

\* What a call has made is its own, and it is there until the call cleans it up.
MadeOf(o) == want[o].kind # "remove" => \A n \in Numbers : Contains(made[o], n) =>
    /\ pc[o] # "refresh" \/ want[o].kind = "update" =>
          n < next /\ known[n] = None /\ \A j \in Numbers : known[j] # None => known[j].night # n
    /\ pc[o] \in {"night", "event"} =>
          scenes[n] # None /\ events[n] = None /\ \A i \in Numbers : ~Reduces(i, n)
    /\ pc[o] \in {"list", "sync", "refresh"} =>
          \A j \in Numbers : events[j] # None /\ n \in {j, events[j].night} => j = Id(o)

\* The cloud does what s says of the schedule.
Does(id, s) ==
    /\ events[id] = [trigger |-> s.trigger, night |-> s.night]
    /\ scenes[id] = s.title
    /\ s.night # 0 => scenes[s.night] # None

\* The cloud does what the call knows to be done.
ToldOf(o) ==
    /\ \/ want[o].kind = "update"
       \/ want[o].kind = "create" /\ pc[o] \in {"list", "sync"}
       \/ want[o].kind = "remove" /\ pc[o] \in {"mark", "unlink"}
    /\ Id(o) \notin unsure
    => Does(Id(o), updated[o])

CallInv == \A o \in Ops : lock = o => HolderOf(o) /\ MadeOf(o) /\ ToldOf(o)

\* The schedule that a call changes or removes.
Changing(id) == \E o \in Ops : lock = o /\ want[o].kind # "create" /\ id = want[o].id

\* The cloud does what the entry says of the others.
TellInv == \A id \in Numbers \ unsure : known[id] # None /\ ~Changing(id) => Does(id, known[id])

\* Everything in the cloud that is not lost is known, or the call that made it is not over.
EventInv == \A n \in Numbers \ lost : events[n] # None =>
    \/ known[n] # None
    \/ \E o \in Ops : lock = o /\ want[o].kind = "create" /\ pc[o] \in {"list", "sync"} /\ n = Id(o)

SceneInv == \A n \in Numbers \ lost : scenes[n] # None =>
    \/ \E id \in Numbers : known[id] # None /\ n \in {id, known[id].night}
    \/ \E o \in Ops : lock = o /\ Contains(made[o], n)

CoreInv == DataOK /\ UniqueInv /\ NextInv /\ IdleInv /\ CallInv /\ TellInv /\ EventInv /\ SceneInv

\* The call that is between the two steps of id's removal.
Removing(id) == \E o \in Ops : lock = o /\ pc[o] = "unlink" /\ want[o].kind = "remove" /\ id = want[o].id

\* A trigger stays marked only while it is being removed, or when that has failed half-way.
MarkInv == \A id \in marked \ unsure : id \in halfway \/ Removing(id)

IInv == CoreInv /\ TypeOK /\ MarkInv

-----------------------------------------------------------------------------
(* Requests, schedules, and the short sequences of what a call has made. *)

LEMMA NoneIs ==
    /\ None \notin Ops /\ None \notin Titles /\ None \notin Triggers
    /\ None \notin Event /\ None \notin Schedule /\ None \notin Requests
  BY CloudSchedulesAssumption

LEMMA NumbersAre == (\A n \in Numbers : n \in Nat \ {0}) /\ 0 \notin Numbers /\ MaxScenes \in Nat
  BY CloudSchedulesAssumption DEF Numbers

LEMMA RequestParts ==
    ASSUME NEW r \in Requests
    PROVE  /\ r.kind \in {"create", "update", "remove"}
           /\ r.kind # "create" => r.id \in Numbers
           /\ r.kind = "create" => r.title \in Titles /\ r.trigger \in Triggers
           /\ r.kind = "update" => r.title \in Titles \cup {None} /\ r.trigger \in Triggers \cup {None}
           /\ r.kind # "remove" => r.night \in BOOLEAN
  BY DEF Requests

LEMMA ScheduleParts ==
    /\ \A s \in Schedule : s.title \in Titles /\ s.trigger \in Triggers /\ s.night \in Numbers \cup {0}
    /\ \A t \in Titles, g \in Triggers, n \in Numbers \cup {0} :
          [title |-> t, trigger |-> g, night |-> n] \in Schedule
  BY DEF Schedule, Night

LEMMA EventParts ==
    /\ \A e \in Event : e.trigger \in Triggers /\ e.night \in Numbers \cup {0}
    /\ \A g \in Triggers, n \in Numbers \cup {0} : [trigger |-> g, night |-> n] \in Event
  BY DEF Event, Night

LEMMA Joined ==
    ASSUME NEW a \in Numbers, NEW b \in Numbers
    PROVE  Append(<<a>>, b) = <<a, b>> /\ <<a>> \o <<b>> = <<a, b>>
  <1>1. /\ <<a>> \in Seq(Numbers) /\ Len(<<a>>) = 1 /\ <<a>>[1] = a
        /\ <<b>> \in Seq(Numbers) /\ Len(<<b>>) = 1 /\ <<b>>[1] = b
    OBVIOUS
  <1>2. \A q \in Seq(Numbers) : Len(q) = 2 /\ q[1] = a /\ q[2] = b => q = <<a, b>>
    OBVIOUS
  <1>3. Append(<<a>>, b) = <<a, b>>
    <2>1. /\ Append(<<a>>, b) \in Seq(Numbers) /\ Len(Append(<<a>>, b)) = 2
          /\ Append(<<a>>, b)[1] = a /\ Append(<<a>>, b)[2] = b
      BY <1>1, AppendProperties
    <2> QED
      BY <1>2, <2>1
  <1>4. <<a>> \o <<b>> = <<a, b>>
    <2>1. <<a>> \o <<b>> \in Seq(Numbers) /\ Len(<<a>> \o <<b>>) = 2
      BY <1>1, ConcatProperties
    <2>2. (<<a>> \o <<b>>)[1] = a /\ (<<a>> \o <<b>>)[2] = b
      BY <1>1, ConcatProperties
    <2> QED
      BY <1>2, <2>1, <2>2
  <1> QED
    BY <1>3, <1>4

LEMMA Shapes ==
    /\ <<>> \in Seq(Numbers) /\ Len(<<>>) = 0 /\ \A x : ~Contains(<<>>, x)
    /\ \A a \in Numbers :
          /\ <<a>> \in Seq(Numbers) /\ Len(<<a>>) = 1 /\ <<a>> # <<>> /\ <<a>>[1] = a
          /\ Head(<<a>>) = a /\ Last(<<a>>) = a /\ Tail(<<a>>) = <<>> /\ Append(<<>>, a) = <<a>>
          /\ <<a>> \o <<>> = <<a>>
          /\ \A x : Contains(<<a>>, x) <=> x = a
    /\ \A a, b \in Numbers :
          /\ <<a, b>> \in Seq(Numbers) /\ Len(<<a, b>>) = 2 /\ <<a, b>> # <<>>
          /\ <<a, b>>[1] = a /\ <<a, b>>[2] = b /\ Head(<<a, b>>) = a /\ Last(<<a, b>>) = b
          /\ Tail(<<a, b>>) = <<b>> /\ Append(<<a>>, b) = <<a, b>> /\ <<a>> \o <<b>> = <<a, b>>
          /\ \A x : Contains(<<a, b>>, x) <=> x \in {a, b}
  <1>1. <<>> \in Seq(Numbers) /\ Len(<<>>) = 0 /\ \A x : ~Contains(<<>>, x)
    BY DEF Contains
  <1>2. ASSUME NEW a \in Numbers
        PROVE  /\ <<a>> \in Seq(Numbers) /\ Len(<<a>>) = 1 /\ <<a>> # <<>> /\ <<a>>[1] = a
               /\ Head(<<a>>) = a /\ Last(<<a>>) = a /\ Tail(<<a>>) = <<>> /\ Append(<<>>, a) = <<a>>
               /\ <<a>> \o <<>> = <<a>>
               /\ \A x : Contains(<<a>>, x) <=> x = a
    <2>1. /\ <<a>> \in Seq(Numbers) /\ Len(<<a>>) = 1 /\ <<a>> # <<>> /\ <<a>>[1] = a
          /\ Head(<<a>>) = a /\ Tail(<<a>>) = <<>> /\ Append(<<>>, a) = <<a>> /\ <<a>> \o <<>> = <<a>>
      OBVIOUS
    <2>2. Last(<<a>>) = a
      BY <2>1 DEF Last
    <2>3. \A x : Contains(<<a>>, x) <=> x = a
      BY <2>1 DEF Contains
    <2> QED
      BY <2>1, <2>2, <2>3
  <1>3. ASSUME NEW a \in Numbers, NEW b \in Numbers
        PROVE  /\ <<a, b>> \in Seq(Numbers) /\ Len(<<a, b>>) = 2 /\ <<a, b>> # <<>>
               /\ <<a, b>>[1] = a /\ <<a, b>>[2] = b /\ Head(<<a, b>>) = a /\ Last(<<a, b>>) = b
               /\ Tail(<<a, b>>) = <<b>> /\ Append(<<a>>, b) = <<a, b>> /\ <<a>> \o <<b>> = <<a, b>>
               /\ \A x : Contains(<<a, b>>, x) <=> x \in {a, b}
    <2>1. /\ <<a, b>> \in Seq(Numbers) /\ Len(<<a, b>>) = 2 /\ <<a, b>> # <<>>
          /\ <<a, b>>[1] = a /\ <<a, b>>[2] = b /\ Head(<<a, b>>) = a
      OBVIOUS
    <2>4. Tail(<<a, b>>) = <<b>>
      OBVIOUS
    <2>2. Last(<<a, b>>) = b
      BY <2>1 DEF Last
    <2>3. \A x : Contains(<<a, b>>, x) <=> x \in {a, b}
      BY <2>1 DEF Contains
    <2> QED
      BY <2>1, <2>2, <2>3, <2>4, Joined
  <1> QED
    BY <1>1, <1>2, <1>3

LEMMA TailOf ==
    ASSUME NEW q \in Seq(Numbers), q # <<>>
    PROVE  /\ Head(q) \in Numbers /\ Tail(q) \in Seq(Numbers)
           /\ Len(q) \in Nat /\ Len(Tail(q)) = Len(q) - 1
           /\ \A x : Contains(q, x) <=> x = Head(q) \/ Contains(Tail(q), x)
  <1>1. /\ Len(q) \in Nat \ {0} /\ Head(q) = q[1] /\ Head(q) \in Numbers
        /\ Tail(q) \in Seq(Numbers) /\ Len(Tail(q)) = Len(q) - 1
        /\ \A i \in 1..Len(Tail(q)) : Tail(q)[i] = q[i + 1]
    BY HeadTailProperties, EmptySeq
  <1>2. ASSUME NEW x, Contains(q, x), x # Head(q)
        PROVE  Contains(Tail(q), x)
    <2>1. PICK i \in 1..Len(q) : q[i] = x
      BY <1>2 DEF Contains
    <2>2. i - 1 \in 1..Len(Tail(q)) /\ Tail(q)[i - 1] = q[i]
      BY <1>1, <1>2, <2>1
    <2> QED
      BY <2>1, <2>2 DEF Contains
  <1>3. ASSUME NEW x, Contains(Tail(q), x)
        PROVE  Contains(q, x)
    <2>1. PICK i \in 1..Len(Tail(q)) : Tail(q)[i] = x
      BY <1>3 DEF Contains
    <2>2. i + 1 \in 1..Len(q) /\ q[i + 1] = x
      BY <1>1, <2>1
    <2> QED
      BY <2>2 DEF Contains
  <1>4. Contains(q, Head(q))
    BY <1>1 DEF Contains
  <1> QED
    BY <1>1, <1>2, <1>3, <1>4

-----------------------------------------------------------------------------
(* The parts of the invariant that every call shares. *)

\* The call past its wait holds the lock, was asked for something, and works on a schedule.
LEMMA Holding ==
    ASSUME CoreInv, NEW o \in Ops, pc[o] \notin {"idle", "ask"}
    PROVE  /\ lock = o /\ \A p \in Ops : lock = p <=> p = o
           /\ DataOK /\ HolderOf(o) /\ MadeOf(o) /\ ToldOf(o)
           /\ want[o] \in Requests /\ want[o].kind \in {"create", "update", "remove"}
           /\ want[o].kind # "create" => Id(o) = want[o].id /\ want[o].id \in Numbers
           /\ want[o].kind = "create" => Id(o) = Head(made[o])
           /\ cached[o] \in Schedule \cup {None} /\ updated[o] \in Schedule \cup {None}
           /\ made[o] \in Seq(Numbers) /\ Len(made[o]) <= 2
  <1>1. lock = o /\ DataOK /\ want[o] # None
    BY DEF CoreInv, DataOK, IdleInv
  <1>2. /\ want[o] \in Requests /\ cached[o] \in Schedule \cup {None}
        /\ updated[o] \in Schedule \cup {None} /\ made[o] \in Seq(Numbers) /\ Len(made[o]) <= 2
    BY <1>1 DEF DataOK
  <1>3. /\ want[o].kind \in {"create", "update", "remove"}
        /\ want[o].kind # "create" => want[o].id \in Numbers
    BY <1>2, RequestParts
  <1> QED
    BY <1>1, <1>2, <1>3 DEF CoreInv, CallInv, Id

\* A schedule's number and night reduction in events that have one.
LEMMA InCloud ==
    ASSUME DataOK, NEW j \in Numbers
    PROVE  /\ events[j] # None => events[j] \in Event /\ events[j].night \in Numbers \cup {0}
           /\ known[j] # None => known[j] \in Schedule /\ known[j].night \in Numbers \cup {0}
           /\ scenes[j] # None => scenes[j] \in Titles
  BY EventParts, ScheduleParts DEF DataOK

\* A schedule keeps its number and its night reduction's when one of them is set anew.
LEMMA UniquePut ==
    ASSUME UniqueInv, NEW id \in Numbers, NEW k, id # k,
           \A i, n \in Numbers : Reduces(i, n)' => Reduces(i, n) \/ (i = id /\ n = k),
           \A n \in Numbers : Entry(n)' => Entry(n) \/ n = id,
           \A i \in Numbers : ~Reduces(i, id),
           k \in Numbers => ~Entry(k) /\ \A j \in Numbers : Reduces(j, k) => j = id
    PROVE  UniqueInv'
  <1> SUFFICES ASSUME NEW i \in Numbers, NEW n \in Numbers, Reduces(i, n)'
               PROVE  ~Entry(n)' /\ \A j \in Numbers : Reduces(j, n)' => i = j
    BY DEF UniqueInv
  <1> QED
    BY DEF UniqueInv

LEMMA UniqueLess ==
    ASSUME UniqueInv,
           \A i, n \in Numbers : Reduces(i, n)' => Reduces(i, n),
           \A n \in Numbers : Entry(n)' => Entry(n)
    PROVE  UniqueInv'
  <1> SUFFICES ASSUME NEW i \in Numbers, NEW n \in Numbers, Reduces(i, n)'
               PROVE  ~Entry(n)' /\ \A j \in Numbers : Reduces(j, n)' => i = j
    BY DEF UniqueInv
  <1> QED
    BY DEF UniqueInv

\* Numbers not given yet are of no schedule.
LEMMA NextKept ==
    ASSUME NextInv, next' \in Nat \ {0}, next' >= next,
           \A n \in Numbers : n >= next' =>
              /\ scenes'[n] # None => scenes[n] # None
              /\ Entry(n)' => Entry(n)
              /\ \A i \in Numbers : Reduces(i, n)' => Reduces(i, n)
    PROVE  NextInv'
  <1>1. \A n \in Numbers : n >= next' => n >= next
    BY NumbersAre DEF NextInv
  <1> QED
    BY <1>1 DEF NextInv

-----------------------------------------------------------------------------
(* Calls that wait. *)

LEMMA InitCoreInv == Init => CoreInv
  <1> SUFFICES ASSUME Init PROVE CoreInv
    OBVIOUS
  <1>1. /\ \A n \in Numbers : scenes[n] = None /\ events[n] = None /\ known[n] = None
        /\ lock = None /\ \A o \in Ops : pc[o] = "idle" /\ made[o] = <<>> /\ o # lock
    BY NoneIs DEF Init
  <1>2. DataOK
    BY <1>1, Shapes DEF Init, DataOK, Places
  <1>3. UniqueInv /\ NextInv /\ IdleInv
    BY <1>1 DEF Init, UniqueInv, NextInv, IdleInv, Reduces, Entry
  <1>4. CallInv /\ TellInv /\ EventInv /\ SceneInv
    BY <1>1 DEF CallInv, TellInv, EventInv, SceneInv
  <1> QED
    BY <1>2, <1>3, <1>4 DEF CoreInv

\* What waiting calls do leaves the others' call, the entry and the cloud alone.
LEMMA Waiting ==
    ASSUME CoreInv,
           UNCHANGED <<scenes, events, known, lock, cached, updated, made, list, lost, unsure, next>>,
           \A p \in Ops : lock = p => want'[p] = want[p] /\ pc'[p] = pc[p]
    PROVE  UniqueInv' /\ NextInv' /\ CallInv' /\ TellInv' /\ EventInv' /\ SceneInv'
  <1>1. UniqueInv' /\ NextInv'
    BY DEF CoreInv, UniqueInv, NextInv, Reduces, Entry
  <1>2. ASSUME NEW o \in Ops, lock = o
        PROVE  HolderOf(o)' /\ MadeOf(o)' /\ ToldOf(o)'
    <2>1. HolderOf(o) /\ MadeOf(o) /\ ToldOf(o) /\ want'[o] = want[o] /\ pc'[o] = pc[o]
      BY <1>2 DEF CoreInv, CallInv
    <2>2. HolderOf(o)'
      BY <2>1 DEF HolderOf, CreateInv, UpdateInv, RemoveInv, Id
    <2>3. MadeOf(o)' /\ ToldOf(o)'
      BY <2>1 DEF MadeOf, ToldOf, Does, Reduces, Id
    <2> QED
      BY <2>2, <2>3
  <1>3. CallInv'
    BY <1>2 DEF CallInv
  <1>4. TellInv' /\ EventInv' /\ SceneInv'
    BY DEF CoreInv, TellInv, EventInv, SceneInv, Changing, Does, Id
  <1> QED
    BY <1>1, <1>3, <1>4

LEMMA AskStep ==
    ASSUME CoreInv, NEW o \in Ops, Ask(o)
    PROVE  CoreInv'
  <1>1. PICK r \in Requests : want' = [want EXCEPT ![o] = r]
    BY DEF Ask
  <1>2. /\ DataOK /\ IdleInv /\ pc[o] = "idle" /\ lock # o /\ pc' = [pc EXCEPT ![o] = "ask"]
        /\ UNCHANGED <<scenes, events, known, lock, cached, updated, made, list, lost, unsure, next>>
    BY DEF CoreInv, DataOK, Ask, Goto, cloud
  <1>3. DataOK'
    BY <1>1, <1>2 DEF DataOK, Places
  <1>4. IdleInv'
    BY <1>1, <1>2, NoneIs DEF IdleInv, DataOK
  <1>5. UniqueInv' /\ NextInv' /\ CallInv' /\ TellInv' /\ EventInv' /\ SceneInv'
    BY <1>1, <1>2, Waiting DEF DataOK
  <1> QED
    BY <1>3, <1>4, <1>5 DEF CoreInv

LEMMA RefusedStep ==
    ASSUME CoreInv, NEW o \in Ops, Refused(o)
    PROVE  CoreInv'
  <1>1. /\ DataOK /\ IdleInv /\ pc[o] = "ask" /\ lock # o /\ pc' = [pc EXCEPT ![o] = "idle"]
        /\ want' = [want EXCEPT ![o] = None]
        /\ UNCHANGED <<scenes, events, known, lock, cached, updated, made, list, lost, unsure, next>>
    BY DEF CoreInv, DataOK, Refused, Goto, cloud
  <1>2. DataOK'
    BY <1>1 DEF DataOK, Places
  <1>3. IdleInv'
    BY <1>1 DEF IdleInv, DataOK
  <1>4. UniqueInv' /\ NextInv' /\ CallInv' /\ TellInv' /\ EventInv' /\ SceneInv'
    BY <1>1, Waiting DEF DataOK
  <1> QED
    BY <1>2, <1>3, <1>4 DEF CoreInv

LEMMA BeginStep ==
    ASSUME CoreInv, NEW o \in Ops, Begin(o)
    PROVE  CoreInv'
  <1>1. /\ DataOK /\ pc[o] = "ask" /\ lock = None /\ \A p \in Ops : lock # p
        /\ made[o] = <<>> /\ want[o] \in Requests /\ want[o].kind \in {"create", "update", "remove"}
        /\ want[o].kind # "create" => want[o].id \in Numbers
    BY NoneIs, RequestParts DEF CoreInv, DataOK, IdleInv, Begin
  <1>2. /\ UNCHANGED <<scenes, events, known, lost, unsure, want, made, list, next>>
        /\ lock' = o /\ \A p \in Ops : lock' = p <=> p = o
        /\ cached' = [cached EXCEPT ![o] = Record(o)] /\ updated' = [updated EXCEPT ![o] = Record(o)]
        /\ pc' = [pc EXCEPT ![o] = FirstStep(o)]
    BY DEF Begin, Goto, cloud, bounds
  <1>3. /\ pc'[o] = FirstStep(o) /\ cached'[o] = Record(o) /\ updated'[o] = Record(o)
        /\ \A p \in Ops : p # o => pc'[p] = pc[p]
    BY <1>1, <1>2 DEF DataOK
  <1>4. /\ want[o].kind = "create" => FirstStep(o) = "scene" /\ Record(o) = None
        /\ want[o].kind = "update" => FirstStep(o) \in {"scene", "night"}
        /\ want[o].kind = "update" /\ FirstStep(o) = "scene" => want[o].title # None
        /\ want[o].kind = "remove" => FirstStep(o) = "mark"
        /\ want[o].kind # "create" => Record(o) = known[want[o].id] /\ Record(o) # None
    BY DEF FirstStep, Record, Usable, Begin
  <1>5. Record(o) \in Schedule \cup {None} /\ FirstStep(o) \in Places \ {"idle", "ask"}
    <2>1. Record(o) \in Schedule \cup {None}
      BY <1>1, <1>4 DEF DataOK
    <2>2. FirstStep(o) \in Places \ {"idle", "ask"}
      BY <1>1, <1>4 DEF Places
    <2> QED
      BY <2>1, <2>2
  <1>6. DataOK'
    BY <1>1, <1>2, <1>3, <1>5 DEF DataOK
  <1>7. UniqueInv' /\ NextInv' /\ IdleInv'
    BY <1>1, <1>2, <1>3, NoneIs DEF CoreInv, UniqueInv, NextInv, IdleInv, Reduces, Entry
  <1>8. HolderOf(o)'
    BY <1>1, <1>2, <1>3, <1>4 DEF HolderOf, CreateInv, UpdateInv, RemoveInv
  <1>9. MadeOf(o)'
    BY <1>1, <1>2, Shapes DEF MadeOf
  <1>10. ToldOf(o)'
    <2>1. CASE want[o].kind = "create"
      BY <2>1, <1>2, <1>3, <1>4 DEF ToldOf
    <2>2. CASE want[o].kind # "create"
      <3>1. want[o].id \notin unsure => Does(want[o].id, known[want[o].id])
        BY <2>2, <1>1, <1>4 DEF CoreInv, TellInv, Changing
      <3> QED
        BY <2>2, <3>1, <1>2, <1>3, <1>4 DEF ToldOf, Does, Id
    <2> QED
      BY <2>1, <2>2
  <1>11. TellInv'
    BY <1>1, <1>2 DEF CoreInv, TellInv, Changing, Does
  <1>12. EventInv' /\ SceneInv'
    BY <1>1, <1>2 DEF CoreInv, EventInv, SceneInv
  <1> QED
    BY <1>2, <1>6, <1>7, <1>8, <1>9, <1>10, <1>11, <1>12 DEF CoreInv, CallInv

-----------------------------------------------------------------------------
(* The call that holds the lock: it goes on, or it ends. *)

\* It goes on without touching the cloud or the entry.
LEMMA MoveStep ==
    ASSUME CoreInv, NEW o \in Ops, pc[o] \notin {"idle", "ask"}, NEW place \in Places \ {"idle", "ask"},
           pc' = [pc EXCEPT ![o] = place],
           UNCHANGED <<scenes, events, known, lock, want, cached, updated, made, lost, unsure, next>>,
           list' \in [Ops -> [Numbers -> Schedule \cup {None}] \cup {None}],
           want[o].kind = "create" /\ pc[o] \in {"list", "sync"} => place \in {"list", "sync"},
           HolderOf(o)', MadeOf(o)', ToldOf(o)'
    PROVE  CoreInv'
  <1>1. lock = o /\ DataOK /\ \A p \in Ops : lock = p <=> p = o
    BY Holding
  <1>2. pc'[o] = place /\ \A p \in Ops : p # o => pc'[p] = pc[p]
    BY <1>1 DEF DataOK
  <1>3. DataOK'
    BY <1>1, <1>2 DEF DataOK
  <1>4. UniqueInv' /\ NextInv'
    BY DEF CoreInv, UniqueInv, NextInv, Reduces, Entry
  <1>5. IdleInv'
    BY <1>1, <1>2 DEF CoreInv, IdleInv
  <1>6. CallInv'
    BY <1>1 DEF CallInv
  <1>7. TellInv' /\ SceneInv'
    BY DEF CoreInv, TellInv, SceneInv, Changing, Does
  <1>8. EventInv'
    BY <1>1, <1>2 DEF CoreInv, EventInv, Id
  <1> QED
    BY <1>3, <1>4, <1>5, <1>6, <1>7, <1>8 DEF CoreInv

\* It ends and leaves the cloud and the entry in order.
LEMMA FinishStep ==
    ASSUME CoreInv, NEW o \in Ops, pc[o] \notin {"idle", "ask"}, Finish(o), UNCHANGED next,
           scenes' \in [Numbers -> Titles \cup {None}], events' \in [Numbers -> Event \cup {None}],
           known' \in [Numbers -> Schedule \cup {None}], lost' \subseteq Numbers, unsure' \subseteq Numbers,
           UniqueInv', NextInv',
           \A id \in Numbers \ unsure' : known'[id] # None => Does(id, known[id])',
           \A n \in Numbers \ lost' :
              /\ events'[n] # None => known'[n] # None
              /\ scenes'[n] # None => \E id \in Numbers : known'[id] # None /\ n \in {id, known'[id].night}
    PROVE  CoreInv'
  <1>1. /\ lock = o /\ DataOK /\ \A p \in Ops : lock = p <=> p = o
        /\ lock' = None /\ \A p \in Ops : lock' # p
    BY Holding, NoneIs DEF Finish
  <1>2. /\ pc' = [pc EXCEPT ![o] = "idle"] /\ want' = [want EXCEPT ![o] = None]
        /\ cached' = [cached EXCEPT ![o] = None] /\ updated' = [updated EXCEPT ![o] = None]
        /\ list' = [list EXCEPT ![o] = None] /\ made' = [made EXCEPT ![o] = <<>>]
    BY DEF Finish, Goto
  <1>3. /\ pc'[o] = "idle" /\ made'[o] = <<>>
        /\ \A p \in Ops : p # o => pc'[p] = pc[p] /\ made'[p] = made[p] /\ want'[p] = want[p]
    BY <1>1, <1>2 DEF DataOK
  <1>4. DataOK'
    <2>1. /\ want' \in [Ops -> Requests \cup {None}] /\ cached' \in [Ops -> Schedule \cup {None}]
          /\ updated' \in [Ops -> Schedule \cup {None}] /\ made' \in [Ops -> Seq(Numbers)]
          /\ list' \in [Ops -> [Numbers -> Schedule \cup {None}] \cup {None}] /\ pc' \in [Ops -> Places]
      BY <1>1, <1>2, Shapes DEF DataOK, Places
    <2>2. \A p \in Ops : pc'[p] \in {"idle", "ask"}
      BY <1>1, <1>3 DEF DataOK
    <2>3. \A p \in Ops : Len(made'[p]) <= 2
      <3>1. \A p \in Ops : p # o => Len(made'[p]) <= 2
        BY <1>1, <1>3 DEF DataOK
      <3>2. Len(made'[o]) <= 2
        BY <1>3
      <3> QED
        BY <3>1, <3>2
    <2> QED
      BY <1>1, <2>1, <2>2, <2>3 DEF DataOK
  <1>5. IdleInv'
    BY <1>1, <1>3 DEF CoreInv, IdleInv
  <1>6. CallInv' /\ TellInv' /\ EventInv' /\ SceneInv'
    BY <1>1 DEF CallInv, TellInv, EventInv, SceneInv
  <1> QED
    BY <1>4, <1>5, <1>6 DEF CoreInv

-----------------------------------------------------------------------------
(* Scenes. *)

\* When calls make scenes.
Makes(o, title, place) ==
    \/ want[o].kind = "create" /\ pc[o] = "scene" /\ place = "night" /\ title = want[o].title
    \/ want[o].kind = "create" /\ pc[o] = "night" /\ want[o].night = TRUE /\ place = "event"
    \/ /\ want[o].kind = "update" /\ pc[o] = "night" /\ want[o].night = TRUE /\ cached[o].night = 0
       /\ place = "event"

LEMMA MakeSceneStep ==
    ASSUME CoreInv, NEW o \in Ops, NEW title \in Titles, NEW place, MakeScene(o, title, place),
           Makes(o, title, place)
    PROVE  CoreInv'
  <1>1. /\ lock = o /\ \A p \in Ops : lock = p <=> p = o
        /\ DataOK /\ HolderOf(o) /\ MadeOf(o) /\ ToldOf(o)
        /\ want[o].kind \in {"create", "update"} /\ pc[o] \in {"scene", "night"}
        /\ place \in {"night", "event"} /\ (want[o].kind = "update" => place = "event")
        /\ want[o].kind = "update" => Id(o) = want[o].id /\ want[o].id \in Numbers
    BY Holding DEF Makes
  <1>2. /\ next \in Numbers /\ next \in Nat \ {0} /\ next' = next + 1
        /\ scenes[next] = None /\ ~Entry(next) /\ \A i \in Numbers : ~Reduces(i, next)
    BY CloudSchedulesAssumption DEF MakeScene, CoreInv, NextInv, Numbers
  <1>3. /\ UNCHANGED <<events, unsure, known, lock, want, cached, updated, list>>
        /\ \A n \in Numbers : (Entry(n)' <=> Entry(n)) /\ \A i \in Numbers : Reduces(i, n)' <=> Reduces(i, n)
    BY DEF MakeScene, Entry, Reduces
  <1>4. \/ made[o] = <<>>
        \/ want[o].kind = "create" /\ pc[o] = "night" /\ \E a \in Numbers : made[o] = <<a>>
    BY <1>1 DEF HolderOf, CreateInv, UpdateInv, Makes
  <1>5. title # None /\ \A j \in Numbers : known[j] # None => j # next
    BY <1>2, NoneIs DEF Entry
  <1>6. want[o].kind = "update" => known[want[o].id] # None
    BY <1>1 DEF HolderOf
  <1>7. UniqueInv'
    BY <1>3, UniqueLess DEF CoreInv
  <1>8. /\ want[o].kind = "update" => updated[o].night \in Numbers \cup {0}
        /\ \A j \in Numbers : known[j] # None => known[j].night \in Numbers \cup {0}
    <2>1. want[o].kind = "update" => updated[o] \in Schedule
      BY <1>1, Holding DEF HolderOf, UpdateInv
    <2> QED
      BY <2>1, <1>1, InCloud, ScheduleParts
  <1>9. CASE /\ scenes' = [scenes EXCEPT ![next] = title]
             /\ made' = [made EXCEPT ![o] = Append(@, next)]
             /\ Goto(o, place) /\ UNCHANGED <<lost, troubles>>
    <2>1. /\ scenes'[next] = title /\ \A n \in Numbers : n # next => scenes'[n] = scenes[n]
          /\ made'[o] = Append(made[o], next) /\ \A p \in Ops : p # o => made'[p] = made[p]
          /\ pc'[o] = place /\ \A p \in Ops : p # o => pc'[p] = pc[p]
          /\ pc' = [pc EXCEPT ![o] = place]
      BY <1>1, <1>2, <1>9 DEF Goto, DataOK
    <2>2. \/ made[o] = <<>> /\ made'[o] = <<next>>
          \/ /\ want[o].kind = "create" /\ pc[o] = "night"
             /\ \E a \in Numbers : made[o] = <<a>> /\ made'[o] = <<a, next>> /\ a # next
      <3>1. CASE made[o] = <<>>
        BY <3>1, <2>1, <1>2, Shapes
      <3>2. ASSUME NEW a \in Numbers, made[o] = <<a>>, want[o].kind = "create", pc[o] = "night"
            PROVE  made'[o] = <<a, next>> /\ a # next
        <4>1. Contains(made[o], a)
          BY <3>2, Shapes
        <4>2. a < next
          BY <4>1, <3>2, <1>1 DEF MadeOf
        <4>3. a # next
          BY <4>2, <1>2, NumbersAre
        <4>4. Append(<<a>>, next) = <<a, next>>
          BY <1>2, Joined
        <4> QED
          BY <4>3, <4>4, <3>2, <2>1
      <3> QED
        BY <3>1, <3>2, <1>4
    <2>3. /\ made'[o] \in Seq(Numbers) /\ Len(made'[o]) <= 2
          /\ \A n : Contains(made'[o], n) <=> Contains(made[o], n) \/ n = next
          /\ \A n : Contains(made[o], n) => pc[o] = "night" /\ want[o].kind = "create"
      <3>1. CASE made[o] = <<>> /\ made'[o] = <<next>>
        BY <3>1, <1>2, Shapes
      <3>2. ASSUME NEW a \in Numbers, made[o] = <<a>>, made'[o] = <<a, next>>
            PROVE  /\ made'[o] \in Seq(Numbers) /\ Len(made'[o]) <= 2
                   /\ \A n : Contains(made'[o], n) <=> Contains(made[o], n) \/ n = next
        <4>1. /\ <<a, next>> \in Seq(Numbers) /\ Len(<<a, next>>) = 2
              /\ \A n : Contains(<<a, next>>, n) <=> n \in {a, next}
              /\ \A n : Contains(<<a>>, n) <=> n = a
          BY <1>2, Shapes
        <4> QED
          BY <3>2, <4>1
      <3> QED
        BY <2>2, <3>1, <3>2, Shapes
    <2>4. DataOK'
      BY <1>1, <1>2, <1>3, <1>9, <2>1, <2>3 DEF DataOK, Places
    <2>5. NextInv'
      <3>1. next' \in Nat \ {0} /\ next' >= next /\ \A n \in Numbers : n >= next' => n # next
        BY <1>2, NumbersAre
      <3> QED
        BY <3>1, <1>3, <2>1, NextKept DEF CoreInv
    <2>6. IdleInv'
      BY <1>1, <1>3, <2>1 DEF CoreInv, IdleInv
    <2>7. HolderOf(o)'
      <3>1. want[o].kind = "create" => CreateInv(o)'
        <4>1. CASE want[o].kind = "create" /\ pc[o] = "scene"
          <5>1. place = "night" /\ title = want[o].title /\ made[o] = <<>> /\ made'[o] = <<next>>
            BY <4>1, <1>1, <2>2 DEF Makes, HolderOf, CreateInv
          <5>2. made'[o][1] = next
            BY <5>1, <1>2, Shapes
          <5> QED
            BY <5>1, <5>2, <1>2, <1>3, <2>1 DEF CreateInv
        <4>2. CASE want[o].kind = "create" /\ pc[o] = "night"
          <5>1. place = "event" /\ want[o].night = TRUE /\ scenes[made[o][1]] = want[o].title
            BY <4>2, <1>1 DEF Makes, HolderOf, CreateInv
          <5>2. made[o] # <<>>
            BY <4>2, <1>1, Shapes DEF HolderOf, CreateInv
          <5>3. PICK a \in Numbers : made[o] = <<a>> /\ made'[o] = <<a, next>> /\ a # next
            BY <2>2, <5>2
          <5>4. made[o][1] = a /\ made'[o][1] = a /\ scenes'[a] = scenes[a]
            BY <5>3, <1>2, <2>1, Shapes
          <5> QED
            BY <5>1, <5>3, <5>4, <1>2, <1>3, <2>1 DEF CreateInv
        <4> QED
          BY <4>1, <4>2, <1>1
      <3>2. want[o].kind = "update" => UpdateInv(o)'
        BY <1>1, <1>2, <1>3, <2>1, <2>2 DEF HolderOf, UpdateInv, Makes
      <3> QED
        BY <1>1, <1>3, <2>1, <3>1, <3>2 DEF HolderOf
    <2>8. MadeOf(o)'
      <3> SUFFICES ASSUME NEW n \in Numbers, Contains(made'[o], n)
                   PROVE  /\ n < next' /\ known[n] = None
                          /\ \A j \in Numbers : known[j] # None => known[j].night # n
                          /\ scenes'[n] # None /\ events[n] = None /\ \A i \in Numbers : ~Reduces(i, n)
        BY <1>1, <1>3, <2>1 DEF MadeOf
      <3>1. CASE n = next
        BY <3>1, <1>2, <1>5, <2>1 DEF Entry, Reduces
      <3>2. CASE n # next
        <4>1. Contains(made[o], n) /\ pc[o] = "night"
          BY <3>2, <2>3
        <4>2. /\ n < next /\ known[n] = None /\ scenes[n] # None /\ events[n] = None
              /\ \A j \in Numbers : known[j] # None => known[j].night # n
              /\ \A i \in Numbers : ~Reduces(i, n)
          BY <4>1, <1>1 DEF MadeOf
        <4>3. n < next'
          BY <4>2, <1>2, NumbersAre
        <4> QED
          BY <3>2, <4>2, <4>3, <2>1
      <3> QED
        BY <3>1, <3>2
    <2>9. ToldOf(o)'
      <3>1. \A n \in Numbers : scenes[n] # None => scenes'[n] = scenes[n]
        BY <1>2, <2>1
      <3> QED
        BY <3>1, <1>1, <1>3, <1>5, <1>6, <1>8, <2>1 DEF ToldOf, Does, Id
    <2>10. TellInv'
      <3>1. \A n \in Numbers : scenes[n] # None => scenes'[n] = scenes[n]
        BY <1>2, <2>1
      <3> SUFFICES ASSUME NEW id \in Numbers \ unsure, known[id] # None, ~Changing(id)
                   PROVE  Does(id, known[id])'
        BY <1>1, <1>3 DEF TellInv, Changing
      <3>2. Does(id, known[id])
        BY DEF CoreInv, TellInv
      <3>3. scenes'[id] = scenes[id] /\ known[id].night \in Numbers \cup {0}
        BY <1>5, <1>8, <2>1
      <3> QED
        BY <3>1, <3>2, <3>3, <1>3 DEF Does
    <2>11. EventInv'
      BY <1>1, <1>3, <1>9 DEF CoreInv, EventInv
    <2>12. SceneInv'
      BY <1>1, <1>3, <1>9, <2>1, <2>3 DEF CoreInv, SceneInv
    <2> QED
      BY <1>1, <1>3, <1>7, <2>4, <2>5, <2>6, <2>7, <2>8, <2>9, <2>10, <2>11, <2>12 DEF CoreInv, CallInv
  <1>10. CASE /\ \/ UNCHANGED <<scenes, lost>>
                 \/ scenes' = [scenes EXCEPT ![next] = title] /\ lost' = lost \cup {next}
              /\ Goto(o, "cleanup") /\ UNCHANGED made
    <2>1. /\ \A n \in Numbers : n # next => scenes'[n] = scenes[n]
          /\ scenes'[next] # None => next \in lost'
          /\ \A n \in Numbers \ lost' : n \notin lost
          /\ pc'[o] = "cleanup" /\ \A p \in Ops : p # o => pc'[p] = pc[p]
          /\ pc' = [pc EXCEPT ![o] = "cleanup"]
      BY <1>1, <1>2, <1>10 DEF Goto, DataOK
    <2>2. DataOK'
      <3>1. scenes' \in [Numbers -> Titles \cup {None}]
        BY <1>1, <1>10 DEF DataOK
      <3>4. lost' \subseteq Numbers
        <4>1. lost \subseteq Numbers
          BY <1>1 DEF DataOK
        <4> QED
          BY <4>1, <1>2, <1>10
      <3>2. pc' \in [Ops -> Places]
        <4>1. pc \in [Ops -> Places]
          BY <1>1 DEF DataOK
        <4> QED
          BY <4>1, <2>1 DEF Places
      <3>3. \A p \in Ops : pc'[p] \notin {"idle", "ask"} <=> lock' = p
        BY <1>1, <1>3, <2>1 DEF DataOK
      <3> QED
        <4>1. UNCHANGED <<events, unsure, known, lock, want, cached, updated, list, made>>
          BY <1>3, <1>10
        <4> QED
          BY <1>1, <3>1, <3>2, <3>3, <3>4, <4>1 DEF DataOK
    <2>3. NextInv'
      <3>1. next' \in Nat \ {0} /\ next' >= next /\ \A n \in Numbers : n >= next' => n # next
        BY <1>2, NumbersAre
      <3> QED
        BY <3>1, <1>3, <2>1, NextKept DEF CoreInv
    <2>4. IdleInv'
      BY <1>1, <1>3, <1>10, <2>1 DEF CoreInv, IdleInv
    <2>5. HolderOf(o)'
      BY <1>1, <1>3, <1>10, <2>1 DEF HolderOf, CreateInv, UpdateInv
    <2>6. MadeOf(o)'
      <3>1. \A n \in Numbers : n < next => n < next'
        BY <1>2, NumbersAre
      <3> QED
        BY <3>1, <1>1, <1>3, <1>10, <2>1 DEF MadeOf
    <2>7. ToldOf(o)'
      <3>1. CASE want[o].kind = "update"
        <4>1. \A n \in Numbers : scenes[n] # None => scenes'[n] = scenes[n]
          BY <1>2, <2>1
        <4> QED
          BY <3>1, <4>1, <1>1, <1>3, <1>5, <1>6, <1>8, <2>1 DEF ToldOf, Does, Id
      <3>2. CASE want[o].kind = "create"
        BY <3>2, <1>3, <2>1 DEF ToldOf
      <3> QED
        BY <1>1, <3>1, <3>2
    <2>8. TellInv'
      <3>1. \A n \in Numbers : scenes[n] # None => scenes'[n] = scenes[n]
        BY <1>2, <2>1
      <3> SUFFICES ASSUME NEW id \in Numbers \ unsure, known[id] # None, ~Changing(id)
                   PROVE  Does(id, known[id])'
        BY <1>1, <1>3 DEF TellInv, Changing
      <3>2. Does(id, known[id])
        BY DEF CoreInv, TellInv
      <3>3. scenes'[id] = scenes[id] /\ known[id].night \in Numbers \cup {0}
        BY <1>5, <1>8, <2>1
      <3> QED
        BY <3>1, <3>2, <3>3, <1>3 DEF Does
    <2>9. EventInv'
      BY <1>1, <1>3, <2>1 DEF CoreInv, EventInv
    <2>10. SceneInv'
      BY <1>1, <1>3, <1>10, <2>1 DEF CoreInv, SceneInv
    <2> QED
      BY <1>1, <1>3, <1>7, <2>2, <2>3, <2>4, <2>5, <2>6, <2>7, <2>8, <2>9, <2>10 DEF CoreInv, CallInv
  <1>11. \/ /\ scenes' = [scenes EXCEPT ![next] = title]
            /\ made' = [made EXCEPT ![o] = Append(@, next)]
            /\ Goto(o, place) /\ UNCHANGED <<lost, troubles>>
         \/ /\ \/ UNCHANGED <<scenes, lost>>
               \/ scenes' = [scenes EXCEPT ![next] = title] /\ lost' = lost \cup {next}
            /\ Goto(o, "cleanup") /\ UNCHANGED made
    BY DEF MakeScene, Failing
  <1> QED
    BY <1>9, <1>10, <1>11

LEMMA SceneStep ==
    ASSUME CoreInv, NEW o \in Ops, Scene(o)
    PROVE  CoreInv'
  <1>1. /\ lock = o /\ \A p \in Ops : lock = p <=> p = o
        /\ DataOK /\ HolderOf(o) /\ MadeOf(o) /\ ToldOf(o) /\ pc[o] = "scene"
        /\ want[o] \in Requests /\ want[o].kind \in {"create", "update"}
        /\ want[o].kind = "update" => Id(o) = want[o].id /\ want[o].id \in Numbers
        /\ updated[o] \in Schedule \cup {None}
    BY Holding DEF Scene
  <1>2. CASE want[o].kind = "create"
    <2>1. want[o].title \in Titles /\ MakeScene(o, want[o].title, "night")
      BY <1>1, <1>2, RequestParts DEF Scene
    <2>2. Makes(o, want[o].title, "night")
      BY <1>1, <1>2 DEF Makes
    <2> QED
      BY <2>1, <2>2, MakeSceneStep
  <1>3. CASE want[o].kind = "update"
    <2>1. PICK id \in Numbers, title \in Titles \cup {None} : id = want[o].id /\ title = want[o].title
      BY <1>1, <1>3, RequestParts
    <2>2. /\ UNCHANGED <<events, lost, known, lock, want, cached, made, list, next>>
          /\ \/ /\ scenes' = [scenes EXCEPT ![id] = title]
                /\ updated' = [updated EXCEPT ![o].title = title]
                /\ pc' = [pc EXCEPT ![o] = "night"] /\ UNCHANGED unsure
             \/ /\ \/ UNCHANGED <<scenes, unsure>>
                   \/ scenes' = [scenes EXCEPT ![id] = title] /\ unsure' = unsure \cup {id}
                /\ pc' = [pc EXCEPT ![o] = "cleanup"] /\ UNCHANGED updated
      BY <1>1, <1>3, <2>1 DEF Scene, Goto, Failing
    <2>3. /\ id \in Numbers /\ known[id] # None /\ title \in Titles /\ title # None
          /\ made[o] = <<>> /\ updated[o] \in Schedule
      BY <1>1, <1>3, <2>1 DEF HolderOf, UpdateInv
    <2>4. /\ scenes' \in [Numbers -> Titles \cup {None}]
          /\ \A n \in Numbers : n # id => scenes'[n] = scenes[n]
          /\ \A n \in Numbers : scenes[n] # None => scenes'[n] # None
          /\ scenes'[id] = title \/ (scenes' = scenes /\ unsure' = unsure /\ pc'[o] = "cleanup")
      BY <1>1, <2>2, <2>3 DEF DataOK
    <2>5. /\ updated' \in [Ops -> Schedule \cup {None}] /\ updated'[o] \in Schedule
          /\ updated'[o].trigger = updated[o].trigger /\ updated'[o].night = updated[o].night
          /\ \/ updated'[o].title = title /\ pc'[o] = "night" /\ unsure' = unsure /\ scenes'[id] = title
             \/ /\ pc'[o] = "cleanup" /\ updated' = updated
                /\ (scenes' = scenes /\ unsure' = unsure) \/ unsure' = unsure \cup {id}
      <3>1. CASE /\ scenes' = [scenes EXCEPT ![id] = title]
                 /\ updated' = [updated EXCEPT ![o].title = title]
                 /\ pc' = [pc EXCEPT ![o] = "night"] /\ UNCHANGED unsure
        <4>1. updated'[o] = [updated[o] EXCEPT !.title = title] /\ pc'[o] = "night" /\ scenes'[id] = title
          BY <3>1, <1>1, <2>3 DEF DataOK
        <4>2. /\ updated'[o] \in Schedule /\ updated'[o].title = title
              /\ updated'[o].trigger = updated[o].trigger /\ updated'[o].night = updated[o].night
          BY <4>1, <2>3 DEF Schedule
        <4>3. updated' \in [Ops -> Schedule \cup {None}]
          BY <3>1, <4>1, <4>2, <1>1 DEF DataOK
        <4> QED
          BY <3>1, <4>1, <4>2, <4>3
      <3>2. CASE /\ \/ UNCHANGED <<scenes, unsure>>
                    \/ scenes' = [scenes EXCEPT ![id] = title] /\ unsure' = unsure \cup {id}
                 /\ pc' = [pc EXCEPT ![o] = "cleanup"] /\ UNCHANGED updated
        BY <3>2, <1>1, <2>3 DEF DataOK
      <3> QED
        BY <2>2, <3>1, <3>2
    <2>6. /\ pc'[o] \in {"night", "cleanup"} /\ pc' \in [Ops -> Places]
          /\ \A p \in Ops : p # o => pc'[p] = pc[p]
          /\ unsure \subseteq unsure' /\ unsure' \subseteq Numbers
      BY <1>1, <2>2, <2>3 DEF DataOK, Places
    <2>7. DataOK'
      BY <1>1, <2>2, <2>4, <2>5, <2>6 DEF DataOK
    <2>8. UniqueInv' /\ IdleInv'
      BY <1>1, <2>2, <2>6 DEF CoreInv, UniqueInv, IdleInv, Reduces, Entry
    <2>9. NextInv'
      BY <2>2, <2>3, <2>4 DEF CoreInv, NextInv, Reduces, Entry
    <2>10. HolderOf(o)'
      BY <1>1, <1>3, <2>2, <2>3, <2>5, <2>6, NoneIs DEF HolderOf, UpdateInv
    <2>11. MadeOf(o)'
      BY <2>2, <2>3, Shapes DEF MadeOf
    <2>12. ToldOf(o)'
      <3>1. Id(o)' = id /\ Id(o) = id
        BY <1>1, <1>3, <2>2, <2>1 DEF Id
      <3>2. id \notin unsure => Does(id, updated[o])
        BY <1>1, <1>3, <3>1 DEF ToldOf
      <3>3. id \notin unsure' => Does(id, updated[o])'
        <4>1. updated[o].night \in Numbers \cup {0}
          BY <2>3, ScheduleParts
        <4>2. ASSUME id \notin unsure'
              PROVE  Does(id, updated[o]) /\ scenes'[id] = updated'[o].title
          BY <3>2, <4>2, <2>5, <2>6 DEF Does
        <4> QED
          BY <4>1, <4>2, <2>2, <2>4, <2>5 DEF Does
      <3> QED
        BY <3>1, <3>3 DEF ToldOf
    <2>13. TellInv'
      <3> SUFFICES ASSUME NEW j \in Numbers \ unsure, known[j] # None, ~Changing(j)
                   PROVE  Does(j, known[j])'
        BY <1>1, <2>2, <2>6 DEF TellInv, Changing
      <3>1. Does(j, known[j])
        BY DEF CoreInv, TellInv
      <3>2. j # id /\ known[j].night \in Numbers \cup {0}
        BY <1>1, <1>3, <2>1, InCloud DEF Changing
      <3> QED
        BY <3>1, <3>2, <2>2, <2>4 DEF Does
    <2>14. EventInv'
      BY <1>1, <1>3, <2>2 DEF CoreInv, EventInv
    <2>15. SceneInv'
      BY <1>1, <2>2, <2>3, <2>4 DEF CoreInv, SceneInv
    <2> QED
      BY <1>1, <2>2, <2>7, <2>8, <2>9, <2>10, <2>11, <2>12, <2>13, <2>14, <2>15 DEF CoreInv, CallInv
  <1> QED
    BY <1>1, <1>2, <1>3

LEMMA NightSceneStep ==
    ASSUME CoreInv, NEW o \in Ops, NightScene(o)
    PROVE  CoreInv'
  <1>1. /\ lock = o /\ DataOK /\ HolderOf(o) /\ MadeOf(o) /\ ToldOf(o) /\ pc[o] = "night"
        /\ want[o] \in Requests /\ want[o].kind \in {"create", "update"}
        /\ updated[o] \in Schedule \cup {None} /\ want[o].night \in BOOLEAN
    BY Holding, RequestParts DEF NightScene, HolderOf, RemoveInv
  <1> DEFINE wanted == want[o].night
             has == want[o].kind = "update" /\ cached[o].night # 0
             title == IF want[o].kind = "create" THEN want[o].title ELSE updated[o].title
  <1>2. CASE wanted /\ ~has /\ MakeScene(o, title, "event")
    <2>1. title \in Titles
      BY <1>1, RequestParts, ScheduleParts DEF HolderOf, UpdateInv
    <2>2. Makes(o, title, "event")
      BY <1>1, <1>2 DEF Makes
    <2> QED
      BY <1>2, <2>1, <2>2, MakeSceneStep
  <1>3. CASE /\ ~wanted \/ has
             /\ \/ Goto(o, "event") /\ UNCHANGED troubles
                \/ wanted /\ Trouble /\ Goto(o, "cleanup")
             /\ UNCHANGED <<cloud, known, lock, calling, next, calls>>
    <2>1. /\ UNCHANGED <<scenes, events, known, lock, want, cached, updated, made, list, lost, unsure, next>>
          /\ \E place \in {"event", "cleanup"} : pc' = [pc EXCEPT ![o] = place]
      BY <1>3 DEF Goto, cloud, calling
    <2>2. PICK place \in {"event", "cleanup"} : pc' = [pc EXCEPT ![o] = place]
      BY <2>1
    <2>3. pc'[o] = place
      BY <1>1, <2>2 DEF DataOK
    <2>4. HolderOf(o)'
      BY <1>1, <1>3, <2>1, <2>2, <2>3 DEF HolderOf, CreateInv, UpdateInv
    <2>5. MadeOf(o)' /\ ToldOf(o)'
      BY <1>1, <2>1, <2>2, <2>3 DEF MadeOf, ToldOf, Reduces, Does, Id
    <2> QED
      BY <1>1, <2>1, <2>2, <2>4, <2>5, MoveStep DEF DataOK, Places
  <1> QED
    BY <1>2, <1>3 DEF NightScene

\* The first scene of those made, or of a schedule that is removed, goes or is lost.
Drops(o, h) ==
    /\ made' = [made EXCEPT ![o] = Tail(@)]
    /\ \/ scenes' = [scenes EXCEPT ![h] = None] /\ UNCHANGED lost
       \/ lost' = lost \cup {h} /\ UNCHANGED scenes

LEMMA DropStep ==
    ASSUME CoreInv, NEW o \in Ops, pc[o] \in {"cleanup", "empty"}, made[o] # <<>>, Drops(o, Head(made[o])),
           UNCHANGED <<events, known, lock, pc, want, cached, updated, list, unsure, next>>
    PROVE  CoreInv'
  <1>1. /\ lock = o /\ \A p \in Ops : lock = p <=> p = o
        /\ DataOK /\ HolderOf(o) /\ MadeOf(o) /\ ToldOf(o)
        /\ want[o].kind \in {"create", "update", "remove"}
        /\ want[o].kind # "create" => Id(o) = want[o].id /\ want[o].id \in Numbers
        /\ made[o] \in Seq(Numbers) /\ Len(made[o]) <= 2
    BY Holding
  <1>2. PICK h \in Numbers :
           /\ h = Head(made[o]) /\ Tail(made[o]) \in Seq(Numbers) /\ Len(Tail(made[o])) <= 2
           /\ \A n : Contains(made[o], n) <=> n = h \/ Contains(Tail(made[o]), n)
    <2>1. /\ Head(made[o]) \in Numbers /\ Tail(made[o]) \in Seq(Numbers)
          /\ Len(Tail(made[o])) = Len(made[o]) - 1 /\ Len(made[o]) \in Nat
          /\ \A n : Contains(made[o], n) <=> n = Head(made[o]) \/ Contains(Tail(made[o]), n)
      BY <1>1, TailOf
    <2> QED
      BY <2>1, <1>1
  <1>3. /\ made'[o] = Tail(made[o]) /\ \A p \in Ops : p # o => made'[p] = made[p]
        /\ made' \in [Ops -> Seq(Numbers)]
    BY <1>1, <1>2 DEF Drops, DataOK
  <1>4. /\ scenes' \in [Numbers -> Titles \cup {None}] /\ lost' \subseteq Numbers /\ lost \subseteq lost'
        /\ \A n \in Numbers : n # h => scenes'[n] = scenes[n]
        /\ scenes'[h] = None \/ h \in lost'
        /\ \A n \in Numbers : scenes'[n] # None => scenes[n] # None
    BY <1>1, <1>2 DEF Drops, DataOK
  <1>5. DataOK'
    BY <1>1, <1>2, <1>3, <1>4 DEF DataOK
  <1>6. UniqueInv' /\ IdleInv'
    BY <1>1, <1>3 DEF CoreInv, UniqueInv, IdleInv, Reduces, Entry
  <1>7. NextInv'
    BY <1>4 DEF CoreInv, NextInv, Reduces, Entry
  <1>8. HolderOf(o)'
    <2>1. want[o].kind = "create" => CreateInv(o)'
      BY <1>1 DEF HolderOf, CreateInv
    <2>2. want[o].kind = "update" => UpdateInv(o)'
      BY <1>1 DEF HolderOf, UpdateInv
    <2>3. want[o].kind = "remove" => RemoveInv(o)'
      BY <1>1, <1>2, <1>3, <1>4 DEF HolderOf, RemoveInv
    <2> QED
      BY <1>1, <2>1, <2>2, <2>3 DEF HolderOf
  <1>9. MadeOf(o)'
    BY <1>1, <1>2, <1>3 DEF MadeOf, HolderOf, CreateInv, UpdateInv
  <1>10. ToldOf(o)'
    <2>1. CASE want[o].kind = "update"
      <3>1. pc[o] = "cleanup" /\ updated[o].night = known[want[o].id].night /\ known[want[o].id] # None
        BY <2>1, <1>1 DEF HolderOf, UpdateInv
      <3>2. known[h] = None /\ \A j \in Numbers : known[j] # None => known[j].night # h
        BY <2>1, <3>1, <1>1, <1>2 DEF MadeOf
      <3>3. updated[o].night \in Numbers \cup {0} /\ updated[o].night # h /\ want[o].id # h
        BY <2>1, <3>1, <3>2, <1>1, InCloud
      <3>4. Id(o)' = want[o].id
        BY <2>1 DEF Id
      <3>5. want[o].id \notin unsure => Does(want[o].id, updated[o])
        BY <2>1, <1>1 DEF ToldOf
      <3> QED
        BY <3>3, <3>4, <3>5, <1>1, <1>4 DEF ToldOf, Does
    <2>2. CASE want[o].kind # "update"
      BY <2>2, <1>1 DEF ToldOf
    <2> QED
      BY <2>1, <2>2
  <1>11. TellInv'
    <2> SUFFICES ASSUME NEW j \in Numbers \ unsure, known[j] # None, ~Changing(j)
                 PROVE  Does(j, known[j])'
      BY DEF TellInv, Changing
    <2>1. Does(j, known[j]) /\ known[j].night \in Numbers \cup {0}
      BY <1>1, InCloud DEF CoreInv, TellInv
    <2>2. j # h /\ known[j].night # h
      <3>1. CASE want[o].kind # "remove"
        BY <3>1, <1>1, <1>2 DEF MadeOf, HolderOf, CreateInv, UpdateInv
      <3>2. CASE want[o].kind = "remove"
        <4>1. /\ h = want[o].id \/ h = known[want[o].id].night
              /\ known[want[o].id] # None /\ j # want[o].id
          BY <3>2, <1>1, <1>2 DEF HolderOf, RemoveInv, Changing
        <4>2. h # want[o].id => Reduces(want[o].id, h)
          BY <4>1 DEF Reduces
        <4>3. Entry(j) /\ Entry(want[o].id) /\ (known[j].night = h => Reduces(j, h))
          BY <4>1 DEF Entry, Reduces
        <4> QED
          BY <3>2, <4>1, <4>2, <4>3, <1>1, <1>2 DEF CoreInv, UniqueInv
      <3> QED
        BY <3>1, <3>2
    <2> QED
      BY <2>1, <2>2, <1>4 DEF Does
  <1>12. EventInv'
    BY <1>1, <1>4 DEF CoreInv, EventInv
  <1>13. SceneInv'
    BY <1>1, <1>2, <1>3, <1>4 DEF CoreInv, SceneInv
  <1> QED
    BY <1>1, <1>5, <1>6, <1>7, <1>8, <1>9, <1>10, <1>11, <1>12, <1>13 DEF CoreInv, CallInv

LEMMA CleanupStep ==
    ASSUME CoreInv, NEW o \in Ops, Cleanup(o)
    PROVE  CoreInv'
  <1>1. /\ lock = o /\ \A p \in Ops : lock = p <=> p = o
        /\ DataOK /\ HolderOf(o) /\ ToldOf(o) /\ pc[o] = "cleanup"
        /\ want[o].kind \in {"create", "update"}
    BY Holding DEF Cleanup, HolderOf, RemoveInv
  <1>2. UNCHANGED <<events, unsure, known, next>>
    BY DEF Cleanup
  <1>3. CASE made[o] # <<>>
    <2>1. Drops(o, Head(made[o])) /\ UNCHANGED <<lock, pc, want, cached, updated, list>>
      BY <1>3 DEF Cleanup, Drops
    <2> QED
      BY <2>1, <1>1, <1>2, <1>3, DropStep
  <1>4. CASE made[o] = <<>> /\ want[o].kind = "create"
    <2>1. Finish(o) /\ UNCHANGED <<scenes, lost>>
      BY <1>4 DEF Cleanup
    <2>2. UniqueInv' /\ NextInv'
      BY <2>1, <1>2 DEF CoreInv, UniqueInv, NextInv, Reduces, Entry
    <2>3. \A id \in Numbers \ unsure' : known'[id] # None => Does(id, known[id])'
      BY <2>1, <1>1, <1>2, <1>4 DEF CoreInv, TellInv, Changing, Does
    <2>4. \A n \in Numbers \ lost' :
             /\ events'[n] # None => known'[n] # None
             /\ scenes'[n] # None => \E id \in Numbers : known'[id] # None /\ n \in {id, known'[id].night}
      BY <2>1, <1>1, <1>2, <1>4, Shapes DEF CoreInv, EventInv, SceneInv
    <2> QED
      BY <2>1, <2>2, <2>3, <2>4, <1>1, <1>2, FinishStep DEF DataOK
  <1>5. CASE made[o] = <<>> /\ want[o].kind # "create"
    <2>1. pc' = [pc EXCEPT ![o] = "list"] /\ UNCHANGED <<scenes, lost, lock, want, cached, updated, made, list>>
      BY <1>5 DEF Cleanup, Goto, calling
    <2>2. pc'[o] = "list"
      BY <2>1, <1>1 DEF DataOK
    <2>3. HolderOf(o)'
      BY <2>1, <2>2, <1>1, <1>2, <1>5 DEF HolderOf, UpdateInv
    <2>4. MadeOf(o)'
      BY <2>1, <1>5, Shapes DEF MadeOf
    <2>5. ToldOf(o)'
      BY <2>1, <2>2, <1>1, <1>2, <1>5 DEF ToldOf, Does, Id
    <2> QED
      BY <2>1, <2>3, <2>4, <2>5, <1>1, <1>2, MoveStep DEF DataOK, Places
  <1> QED
    BY <1>3, <1>4, <1>5

LEMMA RemoveScenesStep ==
    ASSUME CoreInv, NEW o \in Ops, RemoveScenes(o)
    PROVE  CoreInv'
  <1>1. /\ lock = o /\ DataOK /\ HolderOf(o) /\ ToldOf(o) /\ pc[o] = "empty" /\ want[o].kind = "remove"
    BY Holding DEF RemoveScenes, HolderOf, CreateInv, UpdateInv
  <1>2. UNCHANGED <<events, unsure, known, lock, want, cached, updated, list, next>>
    BY DEF RemoveScenes
  <1>3. CASE made[o] # <<>>
    <2>1. Drops(o, Head(made[o])) /\ UNCHANGED pc
      BY <1>3 DEF RemoveScenes, Drops
    <2> QED
      BY <2>1, <1>1, <1>2, <1>3, DropStep
  <1>4. CASE made[o] = <<>>
    <2>1. pc' = [pc EXCEPT ![o] = "list"] /\ UNCHANGED <<scenes, lost, made>>
      BY <1>4 DEF RemoveScenes, Goto
    <2>2. pc'[o] = "list"
      BY <2>1, <1>1 DEF DataOK
    <2>3. HolderOf(o)'
      BY <2>1, <2>2, <1>1, <1>2, <1>4 DEF HolderOf, RemoveInv
    <2>4. MadeOf(o)' /\ ToldOf(o)'
      BY <2>2, <1>1, <1>2 DEF MadeOf, ToldOf
    <2> QED
      BY <2>1, <2>3, <2>4, <1>1, <1>2, MoveStep DEF DataOK, Places
  <1> QED
    BY <1>3, <1>4

-----------------------------------------------------------------------------
(* Triggers. *)

\* The scenes that a creation has made when it makes the trigger, lists the schedule and writes it:
\* a its own, k its night reduction's if there is one.
LEMMA Created ==
    ASSUME CoreInv, NEW o \in Ops, want[o].kind = "create", pc[o] \in {"event", "list", "sync", "refresh"}
    PROVE  \E a \in Numbers, k \in Numbers \cup {0} :
              /\ Id(o) = a /\ a # k /\ made[o] # <<>> /\ Head(made[o]) = a /\ made[o][1] = a
              /\ k = IF want[o].night THEN Last(made[o]) ELSE 0
              /\ k = IF want[o].night THEN made[o][2] ELSE 0
              /\ \A n \in Numbers : Contains(made[o], n) <=> n \in {a, k}
              /\ want[o].night \in BOOLEAN
  <1>1. CreateInv(o) /\ Id(o) = Head(made[o]) /\ want[o].night \in BOOLEAN
    BY Holding, RequestParts DEF HolderOf
  <1>2. CASE ~want[o].night
    <2>1. PICK a \in Numbers : made[o] = <<a>>
      BY <1>1, <1>2 DEF CreateInv
    <2>2. /\ Head(made[o]) = a /\ made[o][1] = a /\ made[o] # <<>>
          /\ \A n : Contains(made[o], n) <=> n = a
      BY <2>1, Shapes
    <2> QED
      BY <1>1, <1>2, <2>2, NumbersAre
  <1>3. CASE want[o].night
    <2>1. PICK a \in Numbers, b \in Numbers : a # b /\ made[o] = <<a, b>>
      BY <1>1, <1>3 DEF CreateInv
    <2>2. Head(<<a, b>>) = a /\ <<a, b>>[1] = a /\ <<a, b>> # <<>>
      BY Shapes
    <2>3. <<a, b>>[2] = b
      OBVIOUS
    <2>5. Last(<<a, b>>) = b
      <3>1. Len(<<a, b>>) = 2
        OBVIOUS
      <3> QED
        BY <2>3, <3>1 DEF Last
    <2>4. \A n : Contains(<<a, b>>, n) <=> n \in {a, b}
      BY Shapes
    <2> QED
      BY <1>1, <1>3, <2>1, <2>2, <2>3, <2>4, <2>5
  <1> QED
    BY <1>1, <1>2, <1>3

LEMMA CreateEventStep ==
    ASSUME CoreInv, NEW o \in Ops, CreateEvent(o)
    PROVE  CoreInv'
  <1>1. /\ lock = o /\ \A p \in Ops : lock = p <=> p = o
        /\ DataOK /\ HolderOf(o) /\ CreateInv(o) /\ MadeOf(o) /\ pc[o] = "event"
        /\ want[o] \in Requests /\ want[o].kind = "create"
        /\ want[o].title \in Titles /\ want[o].trigger \in Triggers /\ want[o].trigger # None
    BY Holding, RequestParts, NoneIs DEF CreateEvent, HolderOf
  <1>2. PICK a \in Numbers, k \in Numbers \cup {0} :
          /\ Id(o) = a /\ a # k /\ made[o] # <<>> /\ Head(made[o]) = a /\ made[o][1] = a
          /\ k = IF want[o].night THEN Last(made[o]) ELSE 0
          /\ k = IF want[o].night THEN made[o][2] ELSE 0
          /\ \A n \in Numbers : Contains(made[o], n) <=> n \in {a, k}
          /\ want[o].night \in BOOLEAN
    BY <1>1, Created
  <1>3. PICK trigger \in Triggers, title \in Titles : trigger = want[o].trigger /\ title = want[o].title
    BY <1>1
  <1>4. Sent(o) = [trigger |-> trigger, night |-> k]
    BY <1>1, <1>2, <1>3 DEF Sent
  <1> DEFINE sent == [trigger |-> trigger, night |-> k]
             told == [title |-> title, trigger |-> trigger, night |-> k]
  <1>5. /\ sent \in Event /\ sent # None /\ sent.night = k /\ sent.trigger = trigger
        /\ told \in Schedule /\ told # None
        /\ told.night = k /\ told.trigger = trigger /\ told.title = title
    BY EventParts, ScheduleParts, NoneIs
  <1>6. /\ UNCHANGED <<scenes, unsure, known, lock, want, cached, made, list, next>>
        /\ \/ /\ events' = [events EXCEPT ![a] = sent]
              /\ updated' = [updated EXCEPT ![o] = told]
              /\ pc' = [pc EXCEPT ![o] = "list"] /\ UNCHANGED lost
           \/ /\ \/ UNCHANGED <<events, lost>>
                 \/ events' = [events EXCEPT ![a] = sent] /\ lost' = lost \cup {a}
              /\ pc' = [pc EXCEPT ![o] = "cleanup"] /\ UNCHANGED updated
    <2>1. Sent(o).trigger = trigger /\ Sent(o).night = k
      BY <1>4, <1>5
    <2> QED
      BY <2>1, <1>2, <1>3, <1>4 DEF CreateEvent, Goto, Failing
  <1> HIDE DEF sent, told
  <1>7. /\ events' \in [Numbers -> Event \cup {None}]
        /\ \A j \in Numbers : j # a => events'[j] = events[j]
        /\ events'[a] = sent \/ events' = events
    <2>1. CASE events' = [events EXCEPT ![a] = sent]
      BY <2>1, <1>1, <1>5 DEF DataOK
    <2>2. CASE events' = events
      BY <2>2, <1>1 DEF DataOK
    <2> QED
      BY <1>6, <2>1, <2>2
  <1>8. /\ lost \subseteq lost' /\ lost' \subseteq Numbers /\ pc' \in [Ops -> Places]
        /\ updated' \in [Ops -> Schedule \cup {None}]
        /\ \A p \in Ops : p # o => pc'[p] = pc[p]
        /\ \/ pc'[o] = "list" /\ updated'[o] = told /\ events'[a] = sent
           \/ pc'[o] = "cleanup" /\ (events' = events \/ a \in lost')
    <2>1. CASE /\ events' = [events EXCEPT ![a] = sent]
               /\ updated' = [updated EXCEPT ![o] = told]
               /\ pc' = [pc EXCEPT ![o] = "list"] /\ UNCHANGED lost
      BY <2>1, <1>1, <1>5 DEF DataOK, Places
    <2>2. CASE /\ \/ UNCHANGED <<events, lost>>
                  \/ events' = [events EXCEPT ![a] = sent] /\ lost' = lost \cup {a}
               /\ pc' = [pc EXCEPT ![o] = "cleanup"] /\ UNCHANGED updated
      BY <2>2, <1>1 DEF DataOK, Places
    <2> QED
      BY <1>6, <2>1, <2>2
  <1>9. DataOK'
    BY <1>1, <1>6, <1>7, <1>8 DEF DataOK
  <1>10. \A n \in Numbers : n \in {a, k} =>
            /\ n < next /\ known[n] = None /\ \A j \in Numbers : known[j] # None => known[j].night # n
            /\ scenes[n] # None /\ events[n] = None /\ \A i \in Numbers : ~Reduces(i, n)
    BY <1>1, <1>2 DEF MadeOf
  <1>11. /\ \A i, n \in Numbers : Reduces(i, n)' => Reduces(i, n) \/ (i = a /\ n = k)
         /\ \A n \in Numbers : Entry(n)' => Entry(n) \/ n = a
    BY <1>5, <1>6, <1>7 DEF Reduces, Entry
  <1>12. UniqueInv'
    <2>1. \A i \in Numbers : ~Reduces(i, a)
      BY <1>10
    <2>2. k \in Numbers => ~Entry(k) /\ \A j \in Numbers : Reduces(j, k) => j = a
      BY <1>10 DEF Entry
    <2> QED
      BY <1>2, <1>11, <2>1, <2>2, UniquePut DEF CoreInv
  <1>13. NextInv'
    <2>1. \A n \in Numbers : n >= next => n # a /\ n # k
      BY <1>2, <1>10, NumbersAre DEF CoreInv, NextInv
    <2> QED
      BY <1>6, <1>11, <2>1, NextKept DEF CoreInv, NextInv
  <1>14. IdleInv'
    BY <1>1, <1>6, <1>8 DEF CoreInv, IdleInv
  <1>15. HolderOf(o)'
    <2>1. CreateInv(o)'
      BY <1>1, <1>2, <1>5, <1>6, <1>8 DEF CreateInv
    <2> QED
      BY <1>1, <1>6, <1>8, <2>1 DEF HolderOf
  <1>16. MadeOf(o)'
    <2>1. Id(o)' = a
      BY <1>1, <1>2, <1>6 DEF Id
    <2>2. ASSUME NEW n \in Numbers, n \in {a, k}, NEW j \in Numbers,
                 events'[j] # None, n \in {j, events'[j].night}
          PROVE  j = a
      <3>1. ASSUME j # a
            PROVE  FALSE
        <4>1. events'[j] = events[j]
          BY <3>1, <1>7
        <4> QED
          BY <2>2, <4>1, <1>10 DEF Reduces
      <3> QED
        BY <3>1
    <2> QED
      BY <1>1, <1>2, <1>6, <1>8, <1>10, <2>1, <2>2 DEF MadeOf
  <1>17. ToldOf(o)'
    <2>1. Id(o)' = a
      BY <1>1, <1>2, <1>6 DEF Id
    <2>2. pc'[o] = "list" => events'[a] = sent /\ updated'[o] = told
      BY <1>8
    <2>3. scenes[a] = title /\ (k # 0 => scenes[k] # None)
      BY <1>1, <1>2, <1>3, <1>10 DEF CreateInv
    <2>4. pc'[o] = "list" => Does(a, updated[o])'
      BY <1>5, <1>6, <2>2, <2>3 DEF Does, sent
    <2> QED
      BY <1>1, <1>6, <1>8, <2>1, <2>4 DEF ToldOf
  <1>18. TellInv'
    <2> SUFFICES ASSUME NEW j \in Numbers \ unsure, known[j] # None, ~Changing(j)
                 PROVE  Does(j, known[j])'
      BY <1>6 DEF TellInv, Changing
    <2>1. j # a
      BY <1>10
    <2> QED
      BY <2>1, <1>6, <1>7 DEF CoreInv, TellInv, Does
  <1>19. EventInv'
    <2> SUFFICES ASSUME NEW n \in Numbers \ lost', events'[n] # None, known[n] = None
                 PROVE  pc'[o] \in {"list", "sync"} /\ n = Id(o)'
      BY <1>1, <1>6 DEF EventInv
    <2>1. events[n] = None
      BY <1>1, <1>8 DEF CoreInv, EventInv
    <2>2. n = a /\ pc'[o] = "list"
      BY <2>1, <1>7, <1>8
    <2> QED
      BY <2>2, <1>1, <1>2, <1>6 DEF Id
  <1>20. SceneInv'
    BY <1>1, <1>6, <1>8 DEF CoreInv, SceneInv
  <1> QED
    BY <1>1, <1>6, <1>9, <1>12, <1>13, <1>14, <1>15, <1>16, <1>17, <1>18, <1>19, <1>20 DEF CoreInv, CallInv

LEMMA UpdateEventStep ==
    ASSUME CoreInv, NEW o \in Ops, UpdateEvent(o)
    PROVE  CoreInv'
  <1>1. /\ lock = o /\ \A p \in Ops : lock = p <=> p = o
        /\ DataOK /\ HolderOf(o) /\ UpdateInv(o) /\ MadeOf(o) /\ ToldOf(o) /\ pc[o] = "event"
        /\ want[o] \in Requests /\ want[o].kind = "update" /\ want[o].id \in Numbers
        /\ Id(o) = want[o].id /\ want[o].night \in BOOLEAN
        /\ want[o].trigger \in Triggers \cup {None}
        /\ cached[o] \in Schedule /\ updated[o] \in Schedule /\ updated[o].night = cached[o].night
    BY Holding, RequestParts DEF UpdateEvent, HolderOf, UpdateInv
  <1>2. PICK id \in Numbers : id = want[o].id /\ known[id] = cached[o] /\ known[id] # None
    BY <1>1 DEF HolderOf
  <1>3. PICK trigger \in Triggers :
           trigger = IF want[o].trigger = None THEN cached[o].trigger ELSE want[o].trigger
    BY <1>1, ScheduleParts
  <1>4. PICK k \in Numbers \cup {0} :
          /\ k = IF want[o].night /\ made[o] # <<>> THEN Last(made[o]) ELSE cached[o].night
          /\ \/ made[o] = <<>> /\ k = cached[o].night
             \/ cached[o].night = 0 /\ k \in Numbers /\ made[o] = <<k>>
    <2>1. CASE made[o] = <<>>
      BY <2>1, <1>1, ScheduleParts
    <2>2. ASSUME NEW n \in Numbers, made[o] = <<n>>, cached[o].night = 0, want[o].night
          PROVE  made[o] # <<>> /\ Last(made[o]) = n
      BY <2>2, Shapes
    <2> QED
      BY <2>1, <2>2, <1>1 DEF UpdateInv
  <1>5. Sent(o) = [trigger |-> trigger, night |-> k]
    BY <1>1, <1>3, <1>4 DEF Sent
  <1> DEFINE sent == [trigger |-> trigger, night |-> k]
             told == [updated[o] EXCEPT !.trigger = trigger, !.night = k]
  <1>6. /\ sent \in Event /\ sent # None /\ sent.night = k /\ sent.trigger = trigger
        /\ Sent(o).trigger = trigger /\ Sent(o).night = k
    BY <1>5, EventParts, NoneIs
  <1>7. /\ told \in Schedule /\ told # None
        /\ told.night = k /\ told.trigger = trigger /\ told.title = updated[o].title
    BY <1>1, NoneIs DEF Schedule, Night
  <1>8. UNCHANGED <<scenes, lost, known, lock, want, cached, made, list, next>>
    BY DEF UpdateEvent
  <1>9. \/ /\ ~want[o].night /\ pc' = [pc EXCEPT ![o] = "list"] /\ UNCHANGED <<events, unsure, updated>>
        \/ /\ events' = [events EXCEPT ![id] = sent] /\ updated' = [updated EXCEPT ![o] = told]
           /\ pc' = [pc EXCEPT ![o] = "list"] /\ UNCHANGED unsure
        \/ /\ events' = [events EXCEPT ![id] = sent] /\ unsure' = unsure \cup {id}
           /\ pc' = [pc EXCEPT ![o] = "cleanup"] /\ UNCHANGED updated
        \/ pc' = [pc EXCEPT ![o] = "cleanup"] /\ UNCHANGED <<events, unsure, updated>>
    <2>1. [updated EXCEPT ![o].trigger = Sent(o).trigger, ![o].night = Sent(o).night]
             = [updated EXCEPT ![o] = told]
      BY <1>1, <1>6 DEF DataOK
    <2> HIDE DEF told
    <2> QED
      BY <2>1, <1>2, <1>5 DEF UpdateEvent, Goto, Failing
  <1> HIDE DEF sent, told
  <1>10. CASE ~want[o].night /\ pc' = [pc EXCEPT ![o] = "list"] /\ UNCHANGED <<events, unsure, updated>>
    <2>1. pc'[o] = "list" /\ made[o] = <<>>
      BY <1>1, <1>10 DEF DataOK, UpdateInv
    <2>2. HolderOf(o)'
      BY <1>1, <1>8, <1>10, <2>1 DEF HolderOf, UpdateInv
    <2>3. MadeOf(o)'
      BY <1>8, <2>1, Shapes DEF MadeOf
    <2>4. ToldOf(o)'
      BY <1>1, <1>8, <1>10, <2>1 DEF ToldOf, Does, Id
    <2> QED
      BY <1>1, <1>8, <1>10, <2>2, <2>3, <2>4, MoveStep DEF DataOK, Places
  <1>11. CASE pc' = [pc EXCEPT ![o] = "cleanup"] /\ UNCHANGED <<events, unsure, updated>>
    <2>1. pc'[o] = "cleanup"
      BY <1>1, <1>11 DEF DataOK
    <2>2. HolderOf(o)'
      BY <1>1, <1>8, <1>11, <2>1 DEF HolderOf, UpdateInv
    <2>3. MadeOf(o)'
      BY <1>1, <1>8, <2>1 DEF MadeOf
    <2>4. ToldOf(o)'
      BY <1>1, <1>8, <1>11, <2>1 DEF ToldOf, Does, Id
    <2> QED
      BY <1>1, <1>8, <1>11, <2>2, <2>3, <2>4, MoveStep DEF DataOK, Places
  <1>12. CASE /\ events' = [events EXCEPT ![id] = sent]
              /\ \/ /\ updated' = [updated EXCEPT ![o] = told]
                    /\ pc' = [pc EXCEPT ![o] = "list"] /\ UNCHANGED unsure
                 \/ /\ unsure' = unsure \cup {id}
                    /\ pc' = [pc EXCEPT ![o] = "cleanup"] /\ UNCHANGED updated
    <2>1. /\ events' \in [Numbers -> Event \cup {None}] /\ events'[id] = sent
          /\ \A j \in Numbers : j # id => events'[j] = events[j]
      BY <1>1, <1>6, <1>12 DEF DataOK
    <2>2. /\ pc' \in [Ops -> Places] /\ \A p \in Ops : p # o => pc'[p] = pc[p]
          /\ updated' \in [Ops -> Schedule \cup {None}]
          /\ unsure \subseteq unsure' /\ unsure' \subseteq Numbers
          /\ \/ pc'[o] = "list" /\ updated'[o] = told /\ unsure' = unsure
             \/ pc'[o] = "cleanup" /\ updated' = updated /\ id \in unsure'
      <3>1. CASE /\ updated' = [updated EXCEPT ![o] = told]
                 /\ pc' = [pc EXCEPT ![o] = "list"] /\ UNCHANGED unsure
        BY <3>1, <1>1, <1>7 DEF DataOK, Places
      <3>2. CASE /\ unsure' = unsure \cup {id}
                 /\ pc' = [pc EXCEPT ![o] = "cleanup"] /\ UNCHANGED updated
        BY <3>2, <1>1 DEF DataOK, Places
      <3> QED
        BY <1>12, <3>1, <3>2
    <2>3. DataOK'
      BY <1>1, <1>8, <2>1, <2>2 DEF DataOK
    <2>4. Entry(id) /\ \A i \in Numbers : ~Reduces(i, id)
      BY <1>2 DEF CoreInv, UniqueInv, Entry
    <2>5. \A n \in Numbers : Contains(made[o], n) =>
             /\ n = k /\ n # id /\ n < next /\ known[n] = None /\ scenes[n] # None /\ events[n] = None
             /\ \A j \in Numbers : known[j] # None => known[j].night # n
             /\ \A i \in Numbers : ~Reduces(i, n)
      <3> SUFFICES ASSUME NEW n \in Numbers, Contains(made[o], n)
                   PROVE  /\ n = k /\ n # id /\ n < next /\ known[n] = None
                          /\ scenes[n] # None /\ events[n] = None
                          /\ \A j \in Numbers : known[j] # None => known[j].night # n
                          /\ \A i \in Numbers : ~Reduces(i, n)
        OBVIOUS
      <3>1. made[o] # <<>>
        BY Shapes
      <3>2. n = k
        <4>1. k \in Numbers /\ made[o] = <<k>>
          BY <3>1, <1>4
        <4> QED
          BY <4>1, Shapes
      <3>3. /\ n < next /\ known[n] = None /\ scenes[n] # None /\ events[n] = None
            /\ \A j \in Numbers : known[j] # None => known[j].night # n
            /\ \A i \in Numbers : ~Reduces(i, n)
        BY <1>1 DEF MadeOf
      <3> QED
        BY <3>2, <3>3, <1>2
    <2>6. k \in Numbers => Reduces(id, k) \/ Contains(made[o], k)
      <3>1. CASE k = cached[o].night
        BY <3>1, <1>2 DEF Reduces
      <3>2. CASE k \in Numbers /\ made[o] = <<k>>
        BY <3>2, Shapes
      <3> QED
        BY <1>4, <3>1, <3>2
    <2>7. /\ id # k
          /\ k \in Numbers => ~Entry(k) /\ \A j \in Numbers : Reduces(j, k) => j = id
      <3>1. CASE k \in Numbers /\ Reduces(id, k)
        BY <3>1, <2>4 DEF CoreInv, UniqueInv
      <3>2. CASE k \in Numbers /\ Contains(made[o], k)
        BY <3>2, <2>5 DEF Entry
      <3> QED
        BY <2>6, <3>1, <3>2, NumbersAre
    <2>8. /\ \A i, n \in Numbers : Reduces(i, n)' => Reduces(i, n) \/ (i = id /\ n = k)
          /\ \A n \in Numbers : Entry(n)' => Entry(n)
      BY <1>6, <1>8, <2>1, <2>4 DEF Reduces, Entry
    <2>9. UniqueInv'
      BY <2>4, <2>7, <2>8, UniquePut DEF CoreInv
    <2>10. NextInv'
      <3>1. k \in Numbers => ~(k >= next)
        <4>1. CASE k \in Numbers /\ Reduces(id, k)
          BY <4>1 DEF CoreInv, NextInv
        <4>2. CASE k \in Numbers /\ Contains(made[o], k)
          <5>1. k < next
            BY <4>2, <2>5
          <5> QED
            BY <4>2, <5>1, NumbersAre DEF CoreInv, NextInv
        <4> QED
          BY <2>6, <4>1, <4>2
      <3>2. next \in Nat \ {0} /\ next >= next /\ next' = next
        BY <1>8 DEF CoreInv, NextInv
      <3> QED
        BY <2>8, <3>1, <3>2, <1>8, NextKept DEF CoreInv
    <2>11. IdleInv'
      BY <1>1, <1>8, <2>2 DEF CoreInv, IdleInv
    <2>12. HolderOf(o)'
      <3>1. UpdateInv(o)'
        BY <1>1, <1>4, <1>7, <1>8, <2>2, NumbersAre DEF UpdateInv
      <3> QED
        BY <3>1, <1>1, <1>8, <2>2 DEF HolderOf
    <2>13. MadeOf(o)'
      <3>1. Id(o)' = id
        BY <1>1, <1>2, <1>8 DEF Id
      <3>2. ASSUME NEW n \in Numbers, Contains(made[o], n), NEW j \in Numbers,
                   events'[j] # None, n \in {j, events'[j].night}
            PROVE  j = id
        <4>1. ASSUME j # id
              PROVE  FALSE
          <5>1. events'[j] = events[j]
            BY <4>1, <2>1
          <5> QED
            BY <3>2, <5>1, <2>5 DEF Reduces
        <4> QED
          BY <4>1
      <3> QED
        BY <1>1, <1>8, <2>2, <2>5, <3>1, <3>2 DEF MadeOf
    <2>14. ToldOf(o)'
      <3>1. Id(o)' = id
        BY <1>1, <1>2, <1>8 DEF Id
      <3>2. ASSUME pc'[o] = "list", id \notin unsure
            PROVE  Does(id, updated[o])'
        <4>1. Does(id, updated[o])
          BY <3>2, <1>1, <1>2 DEF ToldOf
        <4>2. k # 0 => scenes[k] # None
          <5>1. CASE made[o] = <<>> /\ k = cached[o].night
            BY <5>1, <4>1, <1>1 DEF Does
          <5>2. CASE k \in Numbers /\ made[o] = <<k>>
            <6>1. Contains(made[o], k)
              BY <5>2, Shapes
            <6> QED
              BY <5>2, <6>1, <2>5
          <5> QED
            BY <1>4, <5>1, <5>2
        <4>3. updated'[o] = told
          BY <3>2, <2>2
        <4> QED
          BY <4>1, <4>2, <4>3, <1>7, <1>8, <2>1 DEF Does, sent
      <3> QED
        BY <3>1, <3>2, <2>2 DEF ToldOf
    <2>15. TellInv'
      <3> SUFFICES ASSUME NEW j \in Numbers \ unsure, known[j] # None, ~Changing(j)
                   PROVE  Does(j, known[j])'
        BY <1>8, <2>2 DEF TellInv, Changing
      <3>1. j # id /\ Does(j, known[j])
        BY <1>1, <1>2 DEF CoreInv, TellInv, Changing
      <3> QED
        BY <3>1, <1>8, <2>1 DEF Does
    <2>16. EventInv'
      <3> SUFFICES ASSUME NEW n \in Numbers \ lost, events'[n] # None
                   PROVE  known[n] # None
        BY <1>8 DEF EventInv
      <3> QED
        BY <1>1, <1>2, <2>1 DEF CoreInv, EventInv
    <2>17. SceneInv'
      BY <1>8 DEF CoreInv, SceneInv
    <2> QED
      BY <1>1, <1>8, <2>3, <2>9, <2>10, <2>11, <2>12, <2>13, <2>14, <2>15, <2>16, <2>17 DEF CoreInv, CallInv
  <1> QED
    BY <1>9, <1>10, <1>11, <1>12

\* A removal sends what the entry says of the schedule, which changes nothing but the mark, unless
\* the cloud is unsure; and it leaves when the schedule is not there.
LEMMA MarkRemovedStep ==
    ASSUME CoreInv, NEW o \in Ops, MarkRemoved(o)
    PROVE  CoreInv'
  <1>1. /\ lock = o /\ \A p \in Ops : lock = p <=> p = o
        /\ DataOK /\ HolderOf(o) /\ ToldOf(o) /\ pc[o] = "mark" /\ made[o] = <<>>
        /\ want[o].kind = "remove" /\ Id(o) = want[o].id /\ want[o].id \in Numbers
        /\ updated[o] = cached[o] /\ cached[o] = known[want[o].id] /\ cached[o] # None
        /\ cached[o] \in Schedule
    BY Holding DEF MarkRemoved, HolderOf, CreateInv, UpdateInv, RemoveInv
  <1>2. PICK id \in Numbers, s \in Schedule : id = want[o].id /\ s = cached[o]
    BY <1>1
  <1> DEFINE sent == [trigger |-> s.trigger, night |-> s.night]
  <1>3. sent \in Event /\ sent # None /\ sent.night = s.night
    BY ScheduleParts, EventParts, NoneIs
  <1>4. /\ UNCHANGED <<scenes, lost, known, next>>
        /\ \/ events' = events /\ unsure' = unsure
           \/ events[id] # None /\ events' = [events EXCEPT ![id] = sent] /\ unsure' = unsure
           \/ events[id] # None /\ events' = [events EXCEPT ![id] = sent] /\ unsure' = unsure \cup {id}
        /\ \/ Goto(o, "unlink") /\ UNCHANGED <<unsure, lock, calling>>
           \/ Finish(o)
    BY <1>2 DEF MarkRemoved, Failing
  <1> HIDE DEF sent
  <1>5. /\ events' \in [Numbers -> Event \cup {None}] /\ unsure' \subseteq Numbers
        /\ \A n \in Numbers : events'[n] # None => events[n] # None
        /\ \A n \in Numbers : n # id => events'[n] = events[n]
        /\ events'[id] = events[id] \/ events'[id] = sent
    BY <1>1, <1>3, <1>4 DEF DataOK
  <1>6. \A n \in Numbers : (Entry(n)' => Entry(n)) /\ \A i \in Numbers : Reduces(i, n)' => Reduces(i, n)
    <2>1. ASSUME NEW n \in Numbers PROVE Entry(n)' => Entry(n)
      BY <1>4, <1>5 DEF Entry
    <2>2. ASSUME NEW n \in Numbers, NEW i \in Numbers, Reduces(i, n)' PROVE Reduces(i, n)
      <3>1. CASE i = id
        BY <3>1, <2>2, <1>1, <1>2, <1>3, <1>4, <1>5 DEF Reduces
      <3>2. CASE i # id
        BY <3>2, <2>2, <1>4, <1>5 DEF Reduces
      <3> QED
        BY <3>1, <3>2
    <2> QED
      BY <2>1, <2>2
  <1>7. UniqueInv'
    BY <1>6, UniqueLess DEF CoreInv
  <1>8. NextInv'
    BY <1>4, <1>6 DEF CoreInv, NextInv
  <1>9. ASSUME NEW j \in Numbers \ unsure', known[j] # None
        PROVE  Does(j, known[j]) /\ Does(j, known[j])'
    <2>1. j \notin unsure
      BY <1>4, <1>9
    <2>2. CASE j = id
      <3>1. Does(id, s) /\ known[id] = s
        BY <2>1, <2>2, <1>1, <1>2 DEF ToldOf
      <3>2. events'[id] = events[id]
        BY <3>1, <1>5 DEF Does, sent
      <3> QED
        BY <2>2, <3>1, <3>2, <1>4 DEF Does
    <2>3. CASE j # id
      <3>1. Does(j, known[j])
        BY <2>1, <2>3, <1>1, <1>2, <1>9 DEF CoreInv, TellInv, Changing
      <3> QED
        BY <2>3, <3>1, <1>4, <1>5 DEF Does
    <2> QED
      BY <2>2, <2>3
  <1>10. CASE Goto(o, "unlink") /\ UNCHANGED <<unsure, lock, calling>>
    <2>1. UNCHANGED <<lock, want, cached, updated, made, list, unsure>>
      BY <1>10 DEF calling
    <2>2. /\ pc' \in [Ops -> Places] /\ pc'[o] = "unlink" /\ \A p \in Ops : p # o => pc'[p] = pc[p]
      BY <1>1, <1>10 DEF DataOK, Goto, Places
    <2>3. DataOK'
      BY <1>1, <1>4, <1>5, <2>1, <2>2 DEF DataOK
    <2>4. IdleInv'
      BY <1>1, <2>1, <2>2 DEF CoreInv, IdleInv
    <2>5. HolderOf(o)'
      BY <1>1, <1>4, <2>1, <2>2 DEF HolderOf, RemoveInv
    <2>6. MadeOf(o)'
      BY <1>1, <2>1 DEF MadeOf
    <2>7. ToldOf(o)'
      <3>1. Id(o)' = id /\ updated'[o] = known'[id]
        BY <1>1, <1>2, <1>4, <2>1 DEF Id
      <3>2. id \notin unsure' => Does(id, known[id])'
        BY <1>1, <1>2, <1>9
      <3> QED
        BY <3>1, <3>2 DEF ToldOf, Does
    <2>8. CallInv'
      BY <1>1, <2>1, <2>5, <2>6, <2>7 DEF CallInv
    <2>9. TellInv'
      BY <1>4, <1>9 DEF TellInv
    <2>10. EventInv' /\ SceneInv'
      BY <1>1, <1>4, <1>5, <2>1 DEF CoreInv, EventInv, SceneInv
    <2> QED
      BY <1>7, <1>8, <2>3, <2>4, <2>8, <2>9, <2>10 DEF CoreInv
  <1>11. CASE Finish(o)
    <2>1. \A n \in Numbers \ lost :
             /\ events[n] # None => known[n] # None
             /\ scenes[n] # None => \E i \in Numbers : known[i] # None /\ n \in {i, known[i].night}
      BY <1>1, Shapes DEF CoreInv, EventInv, SceneInv
    <2>2. \A j \in Numbers \ unsure' : known'[j] # None => Does(j, known[j])'
      BY <1>4, <1>9
    <2> QED
      BY <1>1, <1>4, <1>5, <1>7, <1>8, <1>11, <2>1, <2>2, FinishStep DEF DataOK
  <1> QED
    BY <1>4, <1>10, <1>11

LEMMA RemoveEventStep ==
    ASSUME CoreInv, NEW o \in Ops, RemoveEvent(o)
    PROVE  CoreInv'
  <1>1. /\ lock = o /\ \A p \in Ops : lock = p <=> p = o
        /\ DataOK /\ HolderOf(o) /\ ToldOf(o) /\ pc[o] = "unlink" /\ made[o] = <<>>
        /\ want[o].kind = "remove" /\ Id(o) = want[o].id /\ want[o].id \in Numbers
        /\ updated[o] = cached[o] /\ cached[o] = known[want[o].id] /\ cached[o] # None
        /\ cached[o] \in Schedule
    BY Holding DEF RemoveEvent, HolderOf, CreateInv, UpdateInv, RemoveInv
  <1>2. PICK id \in Numbers, k \in Numbers \cup {0} : id = want[o].id /\ k = cached[o].night /\ id # k
    <2>1. Reduces(want[o].id, cached[o].night) /\ Entry(want[o].id)
      BY <1>1 DEF Reduces, Entry
    <2> QED
      BY <1>1, <2>1, ScheduleParts, NumbersAre DEF CoreInv, UniqueInv
  <1>3. UNCHANGED <<scenes, lost, known, next>>
    BY DEF RemoveEvent
  <1>4. ASSUME events' = [events EXCEPT ![id] = None]
        PROVE  /\ events' \in [Numbers -> Event \cup {None}] /\ events'[id] = None
               /\ \A j \in Numbers : j # id => events'[j] = events[j]
    BY <1>4, <1>1, <1>2 DEF DataOK
  <1>5. ASSUME events' = events \/ events' = [events EXCEPT ![id] = None]
        PROVE  UniqueInv' /\ NextInv'
    <2>1. \A n \in Numbers : (Entry(n)' => Entry(n)) /\ \A i \in Numbers : Reduces(i, n)' => Reduces(i, n)
      BY <1>3, <1>4, <1>5 DEF Entry, Reduces
    <2>2. UniqueInv'
      BY <2>1, UniqueLess DEF CoreInv
    <2>3. NextInv'
      BY <2>1, <1>3 DEF CoreInv, NextInv
    <2> QED
      BY <2>2, <2>3
  <1>6. \A j \in Numbers \ unsure : j # id /\ known[j] # None => Does(j, known[j])
    BY <1>1, <1>2 DEF CoreInv, TellInv, Changing
  <1>7. \A n \in Numbers \ lost :
           /\ events[n] # None => known[n] # None
           /\ scenes[n] # None => \E j \in Numbers : known[j] # None /\ n \in {j, known[j].night}
    BY <1>1, Shapes DEF CoreInv, EventInv, SceneInv
  <1>8. CASE /\ events' = [events EXCEPT ![id] = None]
             /\ Goto(o, "empty") /\ UNCHANGED <<unsure, lock, want, cached, updated, list>>
             /\ made' = [made EXCEPT ![o] = <<id>> \o (IF k = 0 THEN <<>> ELSE <<k>>)]
    <2> DEFINE drop == <<id>> \o (IF k = 0 THEN <<>> ELSE <<k>>)
    <2>1. /\ drop \in Seq(Numbers) /\ Len(drop) <= 2
          /\ \A n \in Numbers : Contains(drop, n) <=> n \in {id, k}
      <3>1. CASE k = 0
        <4>1. drop = <<id>>
          BY <3>1, <1>2, Shapes
        <4> HIDE DEF drop
        <4>2. drop \in Seq(Numbers) /\ Len(drop) = 1 /\ \A n : Contains(drop, n) <=> n = id
          BY <4>1, <1>2, Shapes
        <4> QED
          BY <4>2, <3>1, NumbersAre
      <3>2. CASE k # 0
        <4>1. drop = <<id, k>> /\ k \in Numbers
          BY <3>2, Joined
        <4> HIDE DEF drop
        <4>2. drop \in Seq(Numbers) /\ Len(drop) = 2
          BY <4>1, <1>2
        <4>3. \A n : Contains(drop, n) <=> n \in {id, k}
          <5>1. \A n : Contains(<<id, k>>, n) <=> n \in {id, k}
            BY <4>1, Shapes
          <5> QED
            BY <4>1, <5>1
        <4> QED
          BY <4>2, <4>3
      <3> QED
        BY <3>1, <3>2
    <2> HIDE DEF drop
    <2>2. /\ made' = [made EXCEPT ![o] = drop] /\ made' \in [Ops -> Seq(Numbers)] /\ made'[o] = drop
          /\ \A p \in Ops : p # o => made'[p] = made[p]
      BY <1>1, <1>8, <2>1 DEF DataOK, drop
    <2>3. /\ pc' \in [Ops -> Places] /\ pc'[o] = "empty" /\ \A p \in Ops : p # o => pc'[p] = pc[p]
      BY <1>1, <1>8 DEF DataOK, Places, Goto
    <2>4. DataOK'
      <3>1. \A p \in Ops : Len(made'[p]) <= 2 /\ (pc'[p] \notin {"idle", "ask"} <=> lock' = p)
        BY <1>1, <1>8, <2>1, <2>2, <2>3 DEF DataOK
      <3> QED
        BY <3>1, <1>1, <1>3, <1>4, <1>8, <2>2, <2>3 DEF DataOK
    <2>5. IdleInv'
      BY <1>1, <1>8, <2>2, <2>3 DEF CoreInv, IdleInv
    <2>6. HolderOf(o)'
      <3>1. RemoveInv(o)'
        BY <1>1, <1>2, <1>4, <1>8, <2>1, <2>2, <2>3 DEF RemoveInv
      <3> QED
        BY <3>1, <1>1, <1>2, <1>3, <1>8, <2>3 DEF HolderOf
    <2>7. MadeOf(o)' /\ ToldOf(o)'
      BY <1>1, <1>8, <2>3 DEF MadeOf, ToldOf
    <2>8. TellInv'
      <3> SUFFICES ASSUME NEW j \in Numbers \ unsure, known[j] # None, ~Changing(j)
                   PROVE  Does(j, known[j])'
        BY <1>3, <1>8 DEF TellInv, Changing
      <3>1. j # id
        BY <1>1, <1>2 DEF Changing
      <3> QED
        BY <3>1, <1>3, <1>4, <1>6, <1>8 DEF Does
    <2>9. EventInv' /\ SceneInv'
      BY <1>3, <1>4, <1>7, <1>8 DEF EventInv, SceneInv
    <2> QED
      BY <1>1, <1>5, <1>8, <2>4, <2>5, <2>6, <2>7, <2>8, <2>9 DEF CoreInv, CallInv
  <1>9. CASE /\ \/ UNCHANGED <<events, unsure>>
                \/ events' = [events EXCEPT ![id] = None] /\ unsure' = unsure \cup {id}
             /\ Finish(o)
    <2>1. /\ events' \in [Numbers -> Event \cup {None}] /\ unsure' \subseteq Numbers
          /\ \A n \in Numbers : events'[n] # None => events[n] # None
      BY <1>1, <1>2, <1>4, <1>9 DEF DataOK
    <2>2. ASSUME NEW j \in Numbers \ unsure', known[j] # None
          PROVE  Does(j, known[j])'
      <3>1. CASE j = id
        <4>1. Does(j, known[j]) /\ events' = events
          BY <3>1, <2>2, <1>1, <1>2, <1>9 DEF ToldOf
        <4> QED
          BY <4>1, <1>3 DEF Does
      <3>2. CASE j # id
        <4>1. Does(j, known[j]) /\ events'[j] = events[j]
          BY <3>2, <2>2, <1>4, <1>6, <1>9
        <4> QED
          BY <4>1, <1>3 DEF Does
      <3> QED
        BY <3>1, <3>2
    <2>3. UniqueInv' /\ NextInv'
      BY <1>5, <1>9
    <2> QED
      BY <1>1, <1>3, <1>7, <1>9, <2>1, <2>2, <2>3, FinishStep DEF DataOK
  <1> QED
    BY <1>2, <1>8, <1>9 DEF RemoveEvent, Failing

-----------------------------------------------------------------------------
(* The entry. *)

\* The number of the schedule that a call is about to write.
LEMMA Writing ==
    ASSUME CoreInv, NEW o \in Ops, pc[o] \in {"list", "sync", "refresh"}
    PROVE  Id(o) \in Numbers
  <1>1. want[o].kind # "create" => Id(o) \in Numbers
    BY Holding
  <1>2. want[o].kind = "create" => Id(o) \in Numbers
    BY Created
  <1> QED
    BY <1>1, <1>2

LEMMA ListStep ==
    ASSUME CoreInv, NEW o \in Ops, List(o)
    PROVE  CoreInv'
  <1>1. /\ lock = o /\ DataOK /\ HolderOf(o) /\ MadeOf(o) /\ ToldOf(o) /\ pc[o] = "list"
        /\ want[o].kind \in {"create", "update", "remove"}
        /\ updated[o] \in Schedule \cup {None}
    BY Holding DEF List
  <1>2. PICK id \in Numbers : id = Id(o)
    BY <1>1, Writing
  <1>3. PICK s \in Schedule \cup {None} : s = IF want[o].kind = "remove" THEN None ELSE updated[o]
    BY <1>1
  <1>4. PICK place \in {"sync", "refresh"} : place = IF want[o].kind = "create" THEN "sync" ELSE "refresh"
    OBVIOUS
  <1>5. /\ list' = [list EXCEPT ![o] = [known EXCEPT ![id] = s]]
        /\ pc' = [pc EXCEPT ![o] = place]
        /\ UNCHANGED <<scenes, events, known, lock, want, cached, updated, made, lost, unsure, next>>
    BY <1>2, <1>3, <1>4 DEF List, Goto, cloud, bounds
  <1>6. pc'[o] = place /\ list'[o] = [known EXCEPT ![id] = s] /\ Id(o)' = id
    BY <1>1, <1>2, <1>5 DEF DataOK, Id
  <1>7. list' \in [Ops -> [Numbers -> Schedule \cup {None}] \cup {None}]
    <2>1. [known EXCEPT ![id] = s] \in [Numbers -> Schedule \cup {None}]
      BY <1>1 DEF DataOK
    <2> QED
      BY <2>1, <1>1, <1>5 DEF DataOK
  <1>8. HolderOf(o)'
    <2>1. want[o].kind = "create" => CreateInv(o)'
      BY <1>1, <1>4, <1>5, <1>6 DEF HolderOf, CreateInv
    <2>2. want[o].kind = "update" => UpdateInv(o)'
      BY <1>1, <1>4, <1>5, <1>6 DEF HolderOf, UpdateInv
    <2>3. want[o].kind = "remove" => RemoveInv(o)'
      BY <1>1, <1>4, <1>5, <1>6 DEF HolderOf, RemoveInv
    <2>4. list'[o] = [known' EXCEPT ![Id(o)'] = IF want'[o].kind = "remove" THEN None ELSE updated'[o]]
      BY <1>3, <1>5, <1>6
    <2> QED
      BY <1>1, <1>4, <1>5, <1>6, <2>1, <2>2, <2>3, <2>4 DEF HolderOf
  <1>9. MadeOf(o)'
    BY <1>1, <1>2, <1>4, <1>5, <1>6 DEF MadeOf
  <1>10. ToldOf(o)'
    BY <1>1, <1>2, <1>4, <1>5, <1>6 DEF ToldOf, Does
  <1> QED
    BY <1>1, <1>4, <1>5, <1>7, <1>8, <1>9, <1>10, MoveStep DEF Places

LEMMA SyncStep ==
    ASSUME CoreInv, NEW o \in Ops, Sync(o)
    PROVE  CoreInv'
  <1>1. /\ lock = o /\ \A p \in Ops : lock = p <=> p = o
        /\ DataOK /\ HolderOf(o) /\ MadeOf(o) /\ ToldOf(o) /\ pc[o] = "sync"
        /\ want[o].kind = "create" /\ CreateInv(o) /\ updated[o] # None /\ updated[o] \in Schedule
    BY Holding DEF Sync, HolderOf, CreateInv, UpdateInv, RemoveInv
  <1>2. PICK a \in Numbers, k \in Numbers \cup {0} :
          /\ Id(o) = a /\ a # k /\ made[o] # <<>> /\ made[o][1] = a
          /\ k = IF want[o].night THEN made[o][2] ELSE 0
          /\ \A n \in Numbers : Contains(made[o], n) <=> n \in {a, k}
    BY <1>1, Created
  <1>3. PICK s \in Schedule : s = updated[o] /\ s.night = k /\ s # None
    BY <1>1, <1>2 DEF CreateInv
  <1>4. /\ UNCHANGED <<scenes, events, lock, want, cached, updated, made, list, lost, unsure, next>>
        /\ known' = [known EXCEPT ![a] = s]
        /\ pc' = [pc EXCEPT ![o] = "refresh"]
    BY <1>1, <1>2, <1>3 DEF Sync, Goto, cloud, calling, bounds, HolderOf
  <1>5. /\ known' \in [Numbers -> Schedule \cup {None}] /\ known'[a] = s
        /\ \A j \in Numbers : j # a => known'[j] = known[j]
        /\ pc' \in [Ops -> Places] /\ pc'[o] = "refresh" /\ \A p \in Ops : p # o => pc'[p] = pc[p]
    BY <1>1, <1>3, <1>4 DEF DataOK, Places
  <1>6. DataOK'
    BY <1>1, <1>4, <1>5 DEF DataOK
  <1>7. \A n \in Numbers : n \in {a, k} =>
           /\ n < next /\ known[n] = None /\ \A j \in Numbers : known[j] # None => known[j].night # n
           /\ \A j \in Numbers : events[j] # None /\ n \in {j, events[j].night} => j = a
    BY <1>1, <1>2 DEF MadeOf
  <1>8. /\ \A i, n \in Numbers : Reduces(i, n)' => Reduces(i, n) \/ (i = a /\ n = k)
        /\ \A n \in Numbers : Entry(n)' => Entry(n) \/ n = a
    BY <1>3, <1>4, <1>5 DEF Reduces, Entry
  <1>9. UniqueInv'
    <2>1. \A i \in Numbers : ~Reduces(i, a)
      <3> SUFFICES ASSUME NEW i \in Numbers, Reduces(i, a)
                   PROVE  FALSE
        OBVIOUS
      <3>1. events[i] # None /\ i = a
        BY <1>7 DEF Reduces
      <3> QED
        BY <3>1 DEF CoreInv, UniqueInv, Entry
    <2>2. k \in Numbers => ~Entry(k) /\ \A j \in Numbers : Reduces(j, k) => j = a
      BY <1>2, <1>7 DEF Entry, Reduces
    <2> QED
      BY <1>2, <1>8, <2>1, <2>2, UniquePut DEF CoreInv
  <1>10. NextInv'
    <2>1. \A n \in Numbers : n >= next => n # a /\ n # k
      BY <1>2, <1>7, NumbersAre DEF CoreInv, NextInv
    <2> QED
      BY <1>4, <1>8, <2>1, NextKept DEF CoreInv, NextInv
  <1>11. IdleInv'
    BY <1>1, <1>4, <1>5 DEF CoreInv, IdleInv
  <1>12. HolderOf(o)'
    <2>1. CreateInv(o)'
      BY <1>1, <1>2, <1>3, <1>4, <1>5 DEF CreateInv
    <2>2. list'[o] = [known' EXCEPT ![Id(o)'] = updated'[o]]
      <3>1. Id(o)' = a
        BY <1>2, <1>4 DEF Id
      <3>2. list[o] = [known EXCEPT ![a] = s]
        BY <1>1, <1>2, <1>3 DEF HolderOf
      <3>3. known' = [known' EXCEPT ![a] = s]
        BY <1>5
      <3> QED
        BY <1>3, <1>4, <3>1, <3>2, <3>3
    <2> QED
      BY <1>1, <1>4, <2>1, <2>2 DEF HolderOf
  <1>13. MadeOf(o)'
    <2>1. Id(o)' = a
      BY <1>2, <1>4 DEF Id
    <2> QED
      BY <1>1, <1>2, <1>4, <1>5, <1>7, <2>1 DEF MadeOf
  <1>14. ToldOf(o)'
    BY <1>1, <1>4, <1>5 DEF ToldOf
  <1>15. TellInv'
    <2> SUFFICES ASSUME NEW j \in Numbers \ unsure, known'[j] # None
                 PROVE  Does(j, known[j])'
      BY <1>4 DEF TellInv
    <2>1. CASE j = a
      <3>1. Does(a, s)
        BY <2>1, <1>1, <1>2, <1>3 DEF ToldOf
      <3> QED
        BY <2>1, <3>1, <1>4, <1>5 DEF Does
    <2>2. CASE j # a
      <3>1. Does(j, known[j]) /\ known'[j] = known[j]
        BY <2>2, <1>1, <1>5 DEF CoreInv, TellInv, Changing
      <3> QED
        BY <3>1, <1>4 DEF Does
    <2> QED
      BY <2>1, <2>2
  <1>16. EventInv'
    <2> SUFFICES ASSUME NEW n \in Numbers \ lost, events[n] # None
                 PROVE  known'[n] # None
      BY <1>4 DEF EventInv
    <2> QED
      BY <1>1, <1>2, <1>3, <1>5 DEF CoreInv, EventInv
  <1>17. SceneInv'
    <2>1. \A j \in Numbers : known[j] # None => known'[j] = known[j]
      BY <1>5, <1>7
    <2> QED
      BY <2>1, <1>4 DEF CoreInv, SceneInv
  <1> QED
    BY <1>1, <1>4, <1>6, <1>9, <1>10, <1>11, <1>12, <1>13, <1>14, <1>15, <1>16, <1>17 DEF CoreInv, CallInv

LEMMA RefreshStep ==
    ASSUME CoreInv, NEW o \in Ops, Refresh(o)
    PROVE  CoreInv'
  <1>1. /\ lock = o /\ \A p \in Ops : lock = p <=> p = o
        /\ DataOK /\ HolderOf(o) /\ MadeOf(o) /\ ToldOf(o) /\ pc[o] = "refresh"
        /\ want[o].kind \in {"create", "update", "remove"}
        /\ want[o].kind # "create" => Id(o) = want[o].id
        /\ updated[o] \in Schedule \cup {None}
    BY Holding DEF Refresh
  <1>2. PICK id \in Numbers : id = Id(o)
    BY <1>1, Writing
  <1>3. PICK s \in Schedule \cup {None} : s = IF want[o].kind = "remove" THEN None ELSE updated[o]
    BY <1>1
  <1>4. /\ UNCHANGED <<scenes, events, lost, unsure, next>> /\ Finish(o)
        /\ known' = [known EXCEPT ![id] = s]
    BY <1>1, <1>2, <1>3 DEF Refresh, cloud, bounds, HolderOf
  <1>5. /\ known' \in [Numbers -> Schedule \cup {None}] /\ known'[id] = s
        /\ \A j \in Numbers : j # id => known'[j] = known[j]
    BY <1>1, <1>3, <1>4 DEF DataOK
  <1>6. \A j \in Numbers \ unsure : j # id /\ known[j] # None => Does(j, known[j])
    BY <1>1, <1>2 DEF CoreInv, TellInv, Changing
  <1>7. CASE want[o].kind = "create"
    <2>1. PICK k \in Numbers \cup {0} :
            /\ made[o] # <<>> /\ made[o][1] = id
            /\ k = IF want[o].night THEN made[o][2] ELSE 0
            /\ \A n \in Numbers : Contains(made[o], n) <=> n \in {id, k}
      BY <1>1, <1>2, <1>7, Created
    <2>2. updated[o] # None /\ updated[o].night = k /\ known[id] = updated[o]
      BY <2>1, <1>1, <1>7 DEF HolderOf, CreateInv
    <2>3. known' = known
      BY <2>2, <1>1, <1>3, <1>4, <1>7 DEF DataOK
    <2>4. UniqueInv' /\ NextInv'
      BY <2>3, <1>4 DEF CoreInv, UniqueInv, NextInv, Reduces, Entry
    <2>5. \A j \in Numbers \ unsure : known[j] # None => Does(j, known[j])'
      BY <2>3, <1>1, <1>4, <1>7 DEF CoreInv, TellInv, Changing, Does
    <2>6. \A n \in Numbers \ lost : events[n] # None => known[n] # None
      BY <1>1 DEF CoreInv, EventInv
    <2>7. \A n \in Numbers \ lost :
             scenes[n] # None => \E j \in Numbers : known[j] # None /\ n \in {j, known[j].night}
      BY <2>1, <2>2, <1>1 DEF CoreInv, SceneInv
    <2> QED
      <3>1. /\ scenes' \in [Numbers -> Titles \cup {None}] /\ events' \in [Numbers -> Event \cup {None}]
            /\ known' \in [Numbers -> Schedule \cup {None}] /\ lost' \subseteq Numbers /\ unsure' \subseteq Numbers
        BY <2>3, <1>1, <1>4 DEF DataOK
      <3> QED
        BY <3>1, <2>3, <2>4, <2>5, <2>6, <2>7, <1>1, <1>4, FinishStep
  <1>8. CASE want[o].kind = "update"
    <2>1. /\ UpdateInv(o) /\ s = updated[o] /\ s # None /\ s \in Schedule /\ known[id] # None
          /\ known[id] = cached[o]
      BY <1>1, <1>2, <1>3, <1>8 DEF HolderOf, UpdateInv
    <2>2. PICK k \in Numbers \cup {0} : k = s.night
      BY <2>1, ScheduleParts
    <2>3. \/ k = known[id].night /\ made[o] = <<>>
          \/ k \in Numbers /\ known[id].night = 0 /\ made[o] = <<k>>
      BY <2>1, <2>2, <1>1, <1>8 DEF UpdateInv
    <2>4. Entry(id) /\ \A i \in Numbers : ~Reduces(i, id)
      BY <2>1 DEF CoreInv, UniqueInv, Entry
    <2>5. /\ id # k
          /\ k \in Numbers => ~Entry(k) /\ \A j \in Numbers : Reduces(j, k) => j = id
      <3>1. CASE k = known[id].night
        <4>1. Reduces(id, k)
          BY <3>1, <2>1 DEF Reduces
        <4> QED
          BY <4>1, <2>2, <2>4 DEF CoreInv, UniqueInv
      <3>2. CASE k \in Numbers /\ made[o] = <<k>>
        <4>1. Contains(made[o], k)
          BY <3>2, Shapes
        <4>2. /\ known[k] = None /\ \A j \in Numbers : known[j] # None => known[j].night # k
              /\ \A j \in Numbers : events[j] # None /\ k \in {j, events[j].night} => j = id
          BY <3>2, <4>1, <1>1, <1>2, <1>8 DEF MadeOf
        <4>3. k # id
          BY <4>2, <2>1
        <4>4. events[k] = None
          BY <4>2, <4>3, <3>2
        <4> QED
          BY <4>2, <4>3, <4>4 DEF Entry, Reduces
      <3> QED
        BY <2>3, <3>1, <3>2
    <2>6. /\ \A i, n \in Numbers : Reduces(i, n)' => Reduces(i, n) \/ (i = id /\ n = k)
          /\ \A n \in Numbers : Entry(n)' => Entry(n)
      BY <2>1, <2>2, <1>4, <1>5 DEF Reduces, Entry
    <2>7. UniqueInv'
      BY <2>4, <2>5, <2>6, UniquePut DEF CoreInv
    <2>8. NextInv'
      <3>1. k \in Numbers => ~(k >= next)
        <4>1. CASE k = known[id].night /\ k \in Numbers
          <5>1. Reduces(id, k)
            BY <4>1, <2>1 DEF Reduces
          <5> QED
            BY <5>1, <4>1 DEF CoreInv, NextInv
        <4>2. CASE k \in Numbers /\ made[o] = <<k>>
          <5>1. Contains(made[o], k)
            BY <4>2, Shapes
          <5>2. k < next
            BY <4>2, <5>1, <1>1, <1>8 DEF MadeOf
          <5> QED
            BY <5>2, NumbersAre DEF CoreInv, NextInv
        <4> QED
          BY <2>3, <4>1, <4>2
      <3>2. next \in Nat \ {0} /\ next >= next /\ next' = next
        BY <1>4 DEF CoreInv, NextInv
      <3> QED
        BY <2>6, <3>1, <3>2, <1>4, NextKept DEF CoreInv
    <2>9. ASSUME NEW j \in Numbers \ unsure, known'[j] # None
          PROVE  Does(j, known[j])'
      <3>1. CASE j = id
        <4>1. Does(id, s)
          BY <3>1, <2>1, <1>1, <1>2, <1>8 DEF ToldOf
        <4> QED
          BY <3>1, <4>1, <1>4, <1>5 DEF Does
      <3>2. CASE j # id
        <4>1. Does(j, known[j]) /\ known'[j] = known[j]
          BY <3>2, <2>9, <1>5, <1>6
        <4> QED
          BY <4>1, <1>4 DEF Does
      <3> QED
        BY <3>1, <3>2
    <2>10. \A n \in Numbers \ lost : events[n] # None => known'[n] # None
      BY <2>1, <1>1, <1>5, <1>8 DEF CoreInv, EventInv
    <2>11. ASSUME NEW n \in Numbers \ lost, scenes[n] # None
           PROVE  \E j \in Numbers : known'[j] # None /\ n \in {j, known'[j].night}
      <3>1. CASE Contains(made[o], n)
        <4>1. made[o] # <<>>
          BY <3>1, Shapes
        <4>2. k \in Numbers /\ made[o] = <<k>>
          BY <4>1, <2>3
        <4>3. n = k
          BY <3>1, <4>2, Shapes
        <4> QED
          BY <4>3, <2>1, <2>2, <1>5
      <3>2. CASE ~Contains(made[o], n)
        <4>1. PICK j \in Numbers : known[j] # None /\ n \in {j, known[j].night}
          BY <2>11, <3>2, <1>1 DEF CoreInv, SceneInv
        <4>2. CASE j = id
          BY <4>1, <4>2, <2>1, <2>2, <2>3, <1>5, NumbersAre
        <4>3. CASE j # id
          BY <4>1, <4>3, <1>5
        <4> QED
          BY <4>2, <4>3
      <3> QED
        BY <3>1, <3>2
    <2> QED
      BY <2>7, <2>8, <2>9, <2>10, <2>11, <1>1, <1>4, <1>5, FinishStep DEF DataOK
  <1>9. CASE want[o].kind = "remove"
    <2>1. RemoveInv(o) /\ s = None /\ made[o] = <<>> /\ known[id] = cached[o]
      BY <1>1, <1>2, <1>3, <1>9 DEF HolderOf, RemoveInv
    <2>2. /\ events[id] = None
          /\ \A n \in Numbers : n \in {id, known[id].night} => scenes[n] = None \/ n \in lost
      BY <2>1, <1>1, <1>2, <1>9, Shapes DEF RemoveInv
    <2>3. \A n \in Numbers : (Entry(n)' => Entry(n)) /\ \A i \in Numbers : Reduces(i, n)' => Reduces(i, n)
      BY <2>1, <1>4, <1>5 DEF Reduces, Entry
    <2>4. UniqueInv'
      BY <2>3, UniqueLess DEF CoreInv
    <2>5. NextInv'
      BY <2>3, <1>4 DEF CoreInv, NextInv
    <2>6. ASSUME NEW j \in Numbers \ unsure, known'[j] # None
          PROVE  Does(j, known[j])'
      <3>1. j # id /\ Does(j, known[j]) /\ known'[j] = known[j]
        BY <2>1, <2>6, <1>5, <1>6
      <3> QED
        BY <3>1, <1>4 DEF Does
    <2>7. \A n \in Numbers \ lost : events[n] # None => known'[n] # None
      BY <2>2, <1>1, <1>5, <1>9 DEF CoreInv, EventInv
    <2>8. ASSUME NEW n \in Numbers \ lost, scenes[n] # None
          PROVE  \E j \in Numbers : known'[j] # None /\ n \in {j, known'[j].night}
      <3>1. PICK j \in Numbers : known[j] # None /\ n \in {j, known[j].night}
        BY <2>1, <2>8, <1>1, Shapes DEF CoreInv, SceneInv
      <3>2. j # id
        BY <2>2, <2>8, <3>1
      <3> QED
        BY <3>1, <3>2, <1>5
    <2> QED
      BY <2>4, <2>5, <2>6, <2>7, <2>8, <1>1, <1>4, <1>5, FinishStep DEF DataOK
  <1> QED
    BY <1>1, <1>7, <1>8, <1>9

-----------------------------------------------------------------------------
(* The Plejd app. *)

LEMMA AppRemovesStep ==
    ASSUME CoreInv, AppRemoves
    PROVE  CoreInv'
  <1>1. PICK id \in Numbers, k \in Numbers \cup {0} :
          /\ events[id] # None /\ k = events[id].night
          /\ scenes' = [n \in Numbers |-> IF n \in {id, k} THEN None ELSE scenes[n]]
          /\ events' = [events EXCEPT ![id] = None]
          /\ unsure' = unsure \cup {id}
    BY InCloud DEF AppRemoves, CoreInv
  <1>2. DataOK /\ UNCHANGED <<lost, known, lock, pc, want, cached, updated, made, list, next>>
    BY DEF AppRemoves, CoreInv, calling
  <1>3. /\ events'[id] = None /\ \A j \in Numbers : j # id => events'[j] = events[j]
        /\ \A n \in Numbers : scenes'[n] # None => scenes'[n] = scenes[n]
        /\ \A n \in Numbers : n \notin {id, k} => scenes'[n] = scenes[n]
    BY <1>1, <1>2 DEF DataOK
  <1>4. DataOK'
    BY <1>1, <1>2 DEF DataOK
  <1>5. \A n \in Numbers : (Entry(n)' => Entry(n)) /\ \A i \in Numbers : Reduces(i, n)' => Reduces(i, n)
    BY <1>2, <1>3 DEF Entry, Reduces
  <1>6. UniqueInv'
    BY <1>5, UniqueLess DEF CoreInv
  <1>7. NextInv'
    BY <1>2, <1>3, <1>5 DEF CoreInv, NextInv
  <1>8. IdleInv'
    BY <1>2 DEF CoreInv, IdleInv
  <1>9. /\ Entry(id) /\ \A i \in Numbers : ~Reduces(i, id)
        /\ k \in Numbers => ~Entry(k) /\ \A i \in Numbers : Reduces(i, k) => i = id
    <2>1. Entry(id) /\ Reduces(id, k)
      BY <1>1 DEF Entry, Reduces
    <2> QED
      BY <2>1 DEF CoreInv, UniqueInv
  <1>10. ASSUME NEW j \in Numbers, j # id, Entry(j)
         PROVE  j \notin {id, k}
    BY <1>9, <1>10
  <1>11. ASSUME NEW j \in Numbers, j # id, NEW s \in Schedule, Does(j, s)
         PROVE  Does(j, s)'
    <2>1. s.night \in Numbers \cup {0} /\ [trigger |-> s.trigger, night |-> s.night] \in Event
      BY ScheduleParts, EventParts
    <2>2. events[j] # None /\ events[j].night = s.night
      BY <1>11, <2>1, NoneIs DEF Does
    <2>3. Entry(j) /\ Reduces(j, s.night)
      BY <2>2 DEF Entry, Reduces
    <2>4. s.night \in Numbers => s.night \notin {id, k}
      BY <2>3, <1>9, <1>11
    <2>5. scenes'[j] = scenes[j] /\ (s.night # 0 => scenes'[s.night] = scenes[s.night])
      BY <2>1, <2>3, <2>4, <1>3, <1>10, <1>11
    <2> QED
      BY <2>5, <1>3, <1>11 DEF Does
  <1>12. ASSUME NEW o \in Ops, lock = o
         PROVE  HolderOf(o)' /\ MadeOf(o)' /\ ToldOf(o)'
    <2>1. /\ pc[o] \notin {"idle", "ask"} /\ HolderOf(o) /\ MadeOf(o) /\ ToldOf(o)
          /\ want[o].kind \in {"create", "update", "remove"} /\ Id(o)' = Id(o)
          /\ updated[o] \in Schedule \cup {None}
      <3>1. pc[o] \notin {"idle", "ask"}
        BY <1>2, <1>12 DEF DataOK
      <3> QED
        BY <3>1, <1>2, Holding DEF Id
    <2>2. ASSUME NEW n \in Numbers, scenes[n] # None, events[n] = None, \A i \in Numbers : ~Reduces(i, n)
          PROVE  scenes'[n] = scenes[n] /\ events'[n] = None
      <3>1. Reduces(id, k)
        BY <1>1 DEF Reduces
      <3> QED
        BY <3>1, <2>2, <1>1, <1>3
    <2>3. MadeOf(o)'
      BY <2>1, <2>2, <1>2, <1>3, <1>5 DEF MadeOf
    <2>4. want[o].kind = "create" => CreateInv(o)'
      <3>1. CASE want[o].kind = "create" /\ pc[o] \in {"night", "event"}
        <4>1. PICK n \in Numbers : made[o][1] = n /\ Contains(made[o], n)
          <5>1. made[o] # <<>> /\ made[o] \in Seq(Numbers)
            BY <3>1, <2>1, <1>2, <1>12, Shapes DEF HolderOf, CreateInv, DataOK
          <5> QED
            BY <5>1, TailOf, HeadTailProperties
        <4>2. scenes'[n] = scenes[n]
          BY <4>1, <3>1, <2>1, <2>2 DEF MadeOf
        <4> QED
          BY <4>1, <4>2, <3>1, <2>1, <1>2 DEF HolderOf, CreateInv
      <3>2. CASE want[o].kind = "create" /\ pc[o] \notin {"night", "event"}
        BY <3>2, <2>1, <1>2 DEF HolderOf, CreateInv
      <3> QED
        BY <3>1, <3>2
    <2>5. want[o].kind = "update" => UpdateInv(o)'
      BY <2>1, <1>2 DEF HolderOf, UpdateInv
    <2>6. want[o].kind = "remove" => RemoveInv(o)'
      <3>1. want[o].kind = "remove" => want[o].id \in Numbers
        BY <1>2, <1>12, RequestParts, Holding, <2>1
      <3> QED
        BY <3>1, <2>1, <1>2, <1>3, <1>5 DEF HolderOf, RemoveInv
    <2>7. HolderOf(o)'
      BY <2>1, <2>4, <2>5, <2>6, <1>2 DEF HolderOf
    <2>8. ToldOf(o)'
      <3> SUFFICES ASSUME \/ want[o].kind = "update"
                          \/ want[o].kind = "create" /\ pc[o] \in {"list", "sync"}
                          \/ want[o].kind = "remove" /\ pc[o] \in {"mark", "unlink"},
                          Id(o) \notin unsure'
                   PROVE  Does(Id(o), updated[o])'
        BY <2>1, <1>2 DEF ToldOf
      <3>1. Id(o) \in Numbers
        BY <2>1, Holding, Writing
      <3>2. updated[o] # None
        BY <2>1 DEF HolderOf, CreateInv, UpdateInv, RemoveInv
      <3>3. PICK j \in Numbers, s \in Schedule : j = Id(o) /\ s = updated[o]
        BY <3>1, <3>2, <2>1
      <3>4. j # id /\ Does(j, s)
        BY <3>3, <2>1, <1>1 DEF ToldOf
      <3>5. Does(j, s)'
        BY <3>4, <1>11
      <3> QED
        BY <3>3, <3>5, <2>1, <1>2 DEF Does
    <2> QED
      BY <2>3, <2>7, <2>8
  <1>13. CallInv'
    BY <1>2, <1>12 DEF CallInv
  <1>14. TellInv'
    <2> SUFFICES ASSUME NEW j \in Numbers \ unsure', known[j] # None, ~Changing(j)
                 PROVE  Does(j, known[j])'
      BY <1>2 DEF TellInv, Changing
    <2>1. PICK s \in Schedule : s = known[j]
      BY <1>2, InCloud
    <2>2. Does(j, s)'
      BY <2>1, <1>1, <1>11 DEF CoreInv, TellInv
    <2> QED
      BY <2>1, <2>2, <1>2 DEF Does
  <1>15. EventInv' /\ SceneInv'
    <2>1. \A o \in Ops : Id(o)' = Id(o)
      BY <1>2 DEF Id
    <2> QED
      BY <2>1, <1>2, <1>3 DEF CoreInv, EventInv, SceneInv
  <1> QED
    BY <1>4, <1>6, <1>7, <1>8, <1>13, <1>14, <1>15 DEF CoreInv

-----------------------------------------------------------------------------
(* Every step. *)

LEMMA CoreStep == CoreInv /\ [Next]_vars => CoreInv'
  <1> SUFFICES ASSUME CoreInv, [Next]_vars PROVE CoreInv'
    OBVIOUS
  <1>1. CASE UNCHANGED vars
    <2>1. /\ UNCHANGED <<scenes, events, known, lock, cached, updated, made, list, lost, unsure, next>>
          /\ UNCHANGED <<want, pc>>
      BY <1>1 DEF vars, cloud, calling, bounds
    <2>2. DataOK' /\ IdleInv'
      BY <2>1 DEF CoreInv, DataOK, IdleInv
    <2> QED
      BY <2>1, <2>2, Waiting DEF CoreInv
  <1>2. ASSUME NEW o \in Ops,
               \/ Ask(o) \/ Refused(o) \/ Begin(o)
               \/ Scene(o) \/ NightScene(o) \/ Cleanup(o)
               \/ CreateEvent(o) \/ UpdateEvent(o)
               \/ MarkRemoved(o) \/ RemoveEvent(o) \/ RemoveScenes(o)
               \/ List(o) \/ Sync(o) \/ Refresh(o)
        PROVE  CoreInv'
    BY <1>2, AskStep, RefusedStep, BeginStep, SceneStep, NightSceneStep, CleanupStep, CreateEventStep,
       UpdateEventStep, MarkRemovedStep, RemoveEventStep, RemoveScenesStep, ListStep, SyncStep, RefreshStep
  <1>3. CASE AppRemoves
    BY <1>3, AppRemovesStep
  <1> QED
    BY <1>1, <1>2, <1>3 DEF Next

-----------------------------------------------------------------------------
(* The marks. *)

\* A whole-state call sends a trigger.
LEMMA SentIs ==
    ASSUME CoreInv, NEW o \in Ops, pc[o] = "event"
    PROVE  Sent(o) \in Event /\ Sent(o) # None
  <1>1. /\ HolderOf(o) /\ want[o] \in Requests /\ want[o].kind \in {"create", "update"}
        /\ cached[o] \in Schedule \cup {None}
    BY Holding DEF HolderOf, RemoveInv
  <1>2. CASE want[o].kind = "create"
    <2>1. want[o].trigger \in Triggers /\ want[o].trigger # None /\ want[o].night \in BOOLEAN
      BY <1>1, <1>2, RequestParts, NoneIs
    <2>2. PICK k \in Numbers \cup {0} : k = (IF want[o].night THEN Last(made[o]) ELSE 0) /\ made[o] # <<>>
      BY <1>2, Created
    <2>3. Sent(o) = [trigger |-> want[o].trigger, night |-> k]
      BY <1>2, <2>1, <2>2 DEF Sent
    <2> QED
      BY <2>1, <2>3, EventParts, NoneIs
  <1>3. CASE want[o].kind = "update"
    <2>1. /\ want[o].trigger \in Triggers \cup {None} /\ cached[o] \in Schedule /\ UpdateInv(o)
          /\ cached[o].trigger \in Triggers /\ cached[o].night \in Numbers \cup {0}
      BY <1>1, <1>3, RequestParts, ScheduleParts DEF HolderOf
    <2>2. PICK trigger \in Triggers :
             trigger = IF want[o].trigger = None THEN cached[o].trigger ELSE want[o].trigger
      BY <2>1
    <2>3. made[o] # <<>> => Last(made[o]) \in Numbers
      <3>1. made[o] # <<>> => \E n \in Numbers : made[o] = <<n>>
        BY <2>1 DEF UpdateInv
      <3>2. \A n \in Numbers : Last(<<n>>) = n
        BY Shapes
      <3> QED
        BY <3>1, <3>2
    <2>4. PICK k \in Numbers \cup {0} :
             k = IF want[o].night /\ made[o] # <<>> THEN Last(made[o]) ELSE cached[o].night
      BY <2>1, <2>3
    <2>5. Sent(o) = [trigger |-> trigger, night |-> k]
      BY <1>3, <2>2, <2>4 DEF Sent
    <2> QED
      BY <2>5, EventParts, NoneIs
  <1> QED
    BY <1>1, <1>2, <1>3

\* No step but a removal's marks a trigger, and none takes away what excuses a mark.
LEMMA KeepsMarks ==
    ASSUME TypeOK, MarkInv, DataOK',
           marked' \subseteq marked, halfway' \subseteq Numbers,
           \A id \in marked' :
              /\ events'[id] # None
              /\ id \in unsure => id \in unsure'
              /\ id \in halfway => id \in halfway'
              /\ Removing(id) => Removing(id)' \/ id \in halfway'
    PROVE  TypeOK' /\ MarkInv'
  BY DEF TypeOK, MarkInv

\* The steps of calls that wait.
LEMMA WaitingMarks ==
    ASSUME IInv, CoreInv', NEW o \in Ops, Ask(o) \/ Refused(o) \/ Begin(o)
    PROVE  TypeOK' /\ MarkInv'
  <1>1. /\ TypeOK /\ MarkInv /\ DataOK /\ DataOK' /\ UNCHANGED <<events, marked, unsure, halfway>>
    BY DEF IInv, CoreInv, Ask, Refused, Begin, cloud, marks
  <1>2. ASSUME NEW id, Removing(id) PROVE Removing(id)'
    <2>1. PICK p \in Ops : lock = p /\ pc[p] = "unlink" /\ want[p].kind = "remove" /\ id = want[p].id
      BY <1>2 DEF Removing
    <2>2. lock # None
      BY <2>1, NoneIs
    <2>3. Ask(o) /\ p # o
      BY <2>1, <2>2 DEF Ask, Refused, Begin
    <2>4. pc'[p] = pc[p] /\ want'[p] = want[p] /\ lock' = lock
      BY <1>1, <2>3 DEF Ask, Goto, DataOK
    <2> QED
      BY <2>1, <2>4 DEF Removing
  <1>3. \A id \in marked' : /\ events'[id] # None /\ id \in Numbers
                            /\ id \in unsure => id \in unsure'
                            /\ id \in halfway => id \in halfway'
                            /\ Removing(id) => Removing(id)'
    BY <1>1, <1>2 DEF TypeOK
  <1> QED
    BY <1>1, <1>3, KeepsMarks DEF TypeOK

\* The steps of the call under way that is not between the two steps of a removal.
LEMMA CallMarks ==
    ASSUME IInv, CoreInv', NEW o \in Ops,
           \/ Scene(o) \/ NightScene(o) \/ Cleanup(o) \/ CreateEvent(o) \/ UpdateEvent(o)
           \/ RemoveScenes(o) \/ List(o) \/ Sync(o) \/ Refresh(o)
    PROVE  TypeOK' /\ MarkInv'
  <1>1. /\ TypeOK /\ MarkInv /\ CoreInv /\ DataOK /\ DataOK' /\ pc[o] \notin {"idle", "ask", "unlink"}
    BY DEF IInv, CoreInv, Scene, NightScene, Cleanup, CreateEvent, UpdateEvent, RemoveScenes, List,
       Sync, Refresh
  <1>2. ASSUME NEW id PROVE ~Removing(id)
    BY <1>1, Holding DEF Removing
  <1>3. CASE ~CreateEvent(o) /\ ~UpdateEvent(o)
    <2>1. UNCHANGED <<events, marked, halfway>> /\ unsure \subseteq unsure'
      BY <1>3 DEF Scene, MakeScene, Failing, NightScene, Cleanup, RemoveScenes, List, Sync, Refresh, cloud, marks
    <2> QED
      BY <1>1, <1>2, <2>1, KeepsMarks DEF TypeOK
  <1>4. CASE CreateEvent(o)
    <2>1. Id(o) \in Numbers /\ Sent(o) # None
      BY <1>1, <1>4, Created, SentIs DEF CreateEvent
    <2>2. /\ UNCHANGED <<marked, halfway, unsure>>
          /\ events' = events \/ events' = [events EXCEPT ![Id(o)] = Sent(o)]
      BY <1>4 DEF CreateEvent, Failing, marks
    <2>3. \A id \in marked : events'[id] # None
      BY <1>1, <2>1, <2>2 DEF TypeOK, DataOK
    <2> QED
      BY <1>1, <1>2, <2>2, <2>3, KeepsMarks DEF TypeOK
  <1>5. CASE UpdateEvent(o)
    <2>1. want[o].id \in Numbers /\ Sent(o) # None
      BY <1>1, <1>5, Holding, SentIs DEF UpdateEvent
    <2>2. /\ unsure \subseteq unsure'
          /\ \/ UNCHANGED <<events, marked, halfway>>
             \/ /\ events' = [events EXCEPT ![want[o].id] = Sent(o)]
                /\ marked' = marked \ {want[o].id}
                /\ halfway' = halfway \/ halfway' = halfway \ {want[o].id}
      BY <1>5 DEF UpdateEvent, Failing, marks
    <2>3. /\ marked' \subseteq marked /\ halfway' \subseteq Numbers
          /\ \A id \in marked' : events'[id] # None /\ (id \in halfway => id \in halfway')
      BY <1>1, <2>1, <2>2 DEF TypeOK, DataOK
    <2> QED
      BY <1>1, <1>2, <2>2, <2>3, KeepsMarks
  <1> QED
    BY <1>3, <1>4, <1>5

\* The two steps of a removal: the mark is set for the second one, which takes it away, is unsure,
\* or leaves the removal half-way.
LEMMA RemovalMarks ==
    ASSUME IInv, CoreInv', NEW o \in Ops, MarkRemoved(o) \/ RemoveEvent(o)
    PROVE  TypeOK' /\ MarkInv'
  <1>1. /\ TypeOK /\ MarkInv /\ CoreInv /\ DataOK /\ DataOK' /\ lock = o
        /\ \A p \in Ops : lock = p <=> p = o
        /\ want[o].kind = "remove" /\ want[o].id \in Numbers /\ Id(o) = want[o].id
    <2>1. pc[o] \in {"mark", "unlink"} /\ CoreInv
      BY DEF MarkRemoved, RemoveEvent, IInv
    <2> QED
      BY <2>1, Holding DEF IInv, CoreInv, HolderOf, CreateInv, UpdateInv
  <1>2. PICK id \in Numbers : id = want[o].id
    BY <1>1
  <1>3. CASE MarkRemoved(o)
    <2>1. cached[o] \in Schedule
      BY <1>1, <1>3, Holding DEF MarkRemoved, HolderOf
    <2> DEFINE sent == [trigger |-> cached[o].trigger, night |-> cached[o].night]
    <2>2. sent # None
      BY <2>1, ScheduleParts, EventParts, NoneIs
    <2>3. /\ UNCHANGED halfway /\ unsure \subseteq unsure' /\ pc[o] = "mark"
          /\ \/ UNCHANGED <<events, marked>>
             \/ /\ events' = [events EXCEPT ![id] = sent] /\ marked' = marked \cup {id}
                /\ id \in unsure' \/ (Goto(o, "unlink") /\ UNCHANGED <<lock, want>>)
      BY <1>2, <1>3 DEF MarkRemoved, Failing, calling
    <2> HIDE DEF sent
    <2>4. /\ \A i \in marked' : events'[i] # None /\ i \in Numbers
          /\ \A i \in marked' : i \in marked \/ i = id
      BY <1>1, <2>2, <2>3 DEF TypeOK, DataOK
    <2>5. \A i : ~Removing(i)
      BY <1>1, <2>3 DEF Removing
    <2>6. Goto(o, "unlink") /\ UNCHANGED <<lock, want>> => Removing(id)'
      BY <1>1, <1>2 DEF Goto, Removing, DataOK
    <2>7. MarkInv'
      BY <1>1, <2>3, <2>4, <2>5, <2>6 DEF MarkInv
    <2> QED
      BY <1>1, <2>3, <2>4, <2>7 DEF TypeOK
  <1>4. CASE RemoveEvent(o)
    <2>1. /\ unsure \subseteq unsure'
          /\ \/ /\ events' = [events EXCEPT ![id] = None] /\ marked' = marked \ {id}
                /\ UNCHANGED halfway
             \/ UNCHANGED <<events, marked>> /\ halfway' = halfway \cup {id}
      BY <1>2, <1>4 DEF RemoveEvent, Failing
    <2>2. ASSUME NEW i, Removing(i) PROVE i = id
      BY <1>1, <1>2, <2>2 DEF Removing
    <2>3. /\ marked' \subseteq marked /\ halfway' \subseteq Numbers /\ halfway \subseteq halfway'
          /\ \A i \in marked' : events'[i] # None /\ (i = id => i \in halfway')
      BY <1>1, <2>1 DEF TypeOK, DataOK
    <2> QED
      BY <1>1, <2>1, <2>2, <2>3, KeepsMarks
  <1> QED
    BY <1>3, <1>4

LEMMA AppMarks ==
    ASSUME IInv, CoreInv', AppRemoves
    PROVE  TypeOK' /\ MarkInv'
  <1>1. PICK id \in Numbers : /\ events' = [events EXCEPT ![id] = None]
                              /\ marked' = marked \ {id} /\ unsure' = unsure \cup {id}
    BY DEF AppRemoves
  <1>2. TypeOK /\ MarkInv /\ DataOK /\ DataOK' /\ UNCHANGED <<halfway, lock, pc, want>>
    BY DEF IInv, CoreInv, AppRemoves, calling
  <1>3. \A i : Removing(i) => Removing(i)'
    BY <1>2 DEF Removing
  <1>4. marked' \subseteq marked /\ halfway' \subseteq Numbers /\ \A i \in marked' : events'[i] # None
    BY <1>1, <1>2 DEF TypeOK, DataOK
  <1> QED
    BY <1>1, <1>2, <1>3, <1>4, KeepsMarks

-----------------------------------------------------------------------------
(* The theorems. *)

LEMMA InitIInv == Init => IInv
  <1>1. Init => TypeOK /\ MarkInv
    BY InitCoreInv DEF Init, TypeOK, MarkInv, CoreInv
  <1> QED
    BY <1>1, InitCoreInv DEF IInv

LEMMA NextStep == IInv /\ [Next]_vars => IInv'
  <1> SUFFICES ASSUME IInv, [Next]_vars PROVE IInv'
    OBVIOUS
  <1>1. CoreInv'
    BY CoreStep DEF IInv
  <1>2. CASE UNCHANGED vars
    <2>1. UNCHANGED <<events, marked, unsure, halfway, lock, pc, want>>
      BY <1>2 DEF vars, cloud, marks, calling
    <2>2. TypeOK' /\ MarkInv'
      BY <1>1, <2>1 DEF IInv, CoreInv, TypeOK, MarkInv, Removing
    <2> QED
      BY <1>1, <2>2 DEF IInv
  <1>3. CASE Next
    <2>1. TypeOK' /\ MarkInv'
      BY <1>1, <1>3, WaitingMarks, CallMarks, RemovalMarks, AppMarks DEF Next
    <2> QED
      BY <1>1, <2>1 DEF IInv
  <1> QED
    BY <1>2, <1>3

\* The invariant that the others rest on: between calls and in the middle of each, the marks of
\* removals among it.
THEOREM Reachable == Spec => []IInv
  BY InitIInv, NextStep, PTL DEF Spec

\* Every variable has its type, only a trigger that is there is marked, and at most one call is past
\* its wait: the one that holds the lock (manage_schedule.py's lock for schedules).
THEOREM TypeCorrect == Spec => []TypeOK
  <1>1. IInv => TypeOK
    BY DEF IInv
  <1> QED
    BY <1>1, Reachable, PTL

\* Whatever calls to the cloud fail, or succeed and lose their answer, and whatever the app removes:
\* between calls everything of ours in the cloud belongs to a schedule of the entry, but for what a
\* failed making, removal or clean-up has left.
THEOREM NoOrphans == Spec => []NothingOrphaned
  <1>1. IInv => NothingOrphaned
    <2> SUFFICES ASSUME IInv, lock = None
                 PROVE  \A n \in Numbers \ lost :
                          /\ events[n] # None => known[n] # None
                          /\ scenes[n] # None => \E id \in Numbers : known[id] # None /\ n \in {id, known[id].night}
      BY DEF NothingOrphaned
    <2>1. \A o \in Ops : lock # o
      BY NoneIs
    <2> QED
      BY <2>1 DEF IInv, CoreInv, EventInv, SceneInv
  <1> QED
    BY <1>1, Reachable, PTL

\* Between calls the entry says of a schedule what the cloud does, after calls that failed in the
\* middle as well, unless the cloud did what it answered it had not or the app removed it; and the
\* cloud's record is not marked for removal, unless a removal has failed between its two steps.
THEOREM EntryTruthful == Spec => []EntryTellsCloud
  <1>1. IInv => EntryTellsCloud
    <2> SUFFICES ASSUME IInv, lock = None, NEW id \in Numbers \ unsure, known[id] # None
                 PROVE  Does(id, known[id]) /\ (id \in marked => id \in halfway)
      BY DEF EntryTellsCloud, Does
    <2>1. ~Changing(id) /\ ~Removing(id)
      BY NoneIs DEF Changing, Removing
    <2> QED
      BY <2>1 DEF IInv, CoreInv, TellInv, MarkInv
  <1> QED
    BY <1>1, Reachable, PTL
=============================================================================
