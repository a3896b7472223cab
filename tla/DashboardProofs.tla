-------------------------- MODULE DashboardProofs ---------------------------
(***************************************************************************)
(* Proofs about the dashboard, in two parts.                               *)
(*                                                                         *)
(* The edit mode of the Lights (LightsEdit), for any lamps, names, values  *)
(* and bounds: types, no lamp type undone by another one's, lamps that are *)
(* drawn as they are stored, and a draft that is only closed by a Save     *)
(* that has saved it.                                                      *)
(*                                                                         *)
(* The control of one light (LightControl), for any slider positions and   *)
(* bounds: types, the last value dragged stands in the end, and what is    *)
(* shown instead of the light's own state goes.                            *)
(***************************************************************************)
EXTENDS LightControl, LightsEdit, SequenceTheorems, FiniteSetTheorems, TLAPS

Askers == Lamps \cup {Other}

\* Messages on their way to the dashboard.
SetMsg(i, l) == inbox[i].kind = "set" /\ inbox[i].lamp = l
ReadMsg(i) == inbox[i].kind = "read"
Shows(i) == inbox[i].kind = "set" /\ inbox[i].types # None

\* The request that holds the lock, and no other, has loaded what is stored.
LockInv == \A r \in Askers :
    /\ lock = r <=> request[r] \in Types
    /\ lock = r => request[r] = store

\* A Save has a draft, the values it began with and what it is about to save.
BusyInv ==
    /\ busy => draft # None /\ work # None
    /\ ~busy => saving = {} /\ todo = <<>>
    /\ draft # None <=> base # None
    /\ \A l \in saving : work[l] # base[l]
    /\ \A i \in DOMAIN todo : work[todo[i]] # base[todo[i]]
    /\ busy => \A f \in Fields \ typed : draft[f] = work[f]

\* A lamp's type is being saved as long as its request, or the answer to it, is under way.
SetInv == \A l \in Lamps :
    /\ l \in saving <=> request[l] # None \/ \E i \in DOMAIN inbox : SetMsg(i, l)
    /\ \A i \in DOMAIN inbox : SetMsg(i, l) => request[l] = None /\ \A j \in DOMAIN inbox : SetMsg(j, l) => i = j

\* So is a read, and one that no save has overlapped knows what is stored.
ReadInv ==
    /\ read = "asked" <=> reader # None \/ \E i \in DOMAIN inbox : ReadMsg(i)
    /\ \A i \in DOMAIN inbox : ReadMsg(i) => reader = None /\ \A j \in DOMAIN inbox : ReadMsg(j) => i = j
    /\ saving # {} => stale

Fresh(types) == \A l \in Lamps : (l \notin foreign \/ l \notin unseen) => types[l] = store[l]

FreshInv == ~stale =>
    /\ reader \in Types => Fresh(reader)
    /\ \A i \in DOMAIN inbox : ReadMsg(i) /\ inbox[i].types # None => Fresh(inbox[i].types)

\* What the dashboard takes for confirmed once it has seen all answers is what is stored.
View(some) ==
    /\ \A i \in DOMAIN inbox : Shows(i) /\ (\A j \in DOMAIN inbox : j > i => ~Shows(j)) =>
          \A l \in some : inbox[i].types[l] = store[l]
    /\ (\A i \in DOMAIN inbox : ~Shows(i)) => \A l \in some : confirmed[l] = store[l]

ViewInv == View(Lamps \ foreign) /\ (read = "idle" => View(Lamps \ unseen))

ShownInv == \A l \in Lamps \ saving : styles[l] = confirmed[l]

\* A field that has not been sent, and one that has and did not fail.
Changed(f) == work[f] # base[f]
Pending(f) ==
    \/ f \in Lamps /\ (request[f] # None \/ \E i \in DOMAIN inbox : SetMsg(i, f) /\ inbox[i].types = None)
    \/ f \in Names /\ \E i \in DOMAIN todo : todo[i] = f

SameInv == draft # None =>
    \A f \in Fields \ (foreign \cup kept) : (busy => ~Changed(f)) => ServerHas(f) = base[f]

DoneInv == busy /\ ~failed =>
    \A f \in Fields \ foreign : Changed(f) /\ ~Pending(f) => ServerHas(f) = work[f]

IInv ==
    /\ TypeOK /\ LockInv /\ BusyInv /\ SetInv /\ ReadInv /\ FreshInv
    /\ ViewInv /\ ShownInv /\ SameInv /\ DoneInv

-----------------------------------------------------------------------------
(* Values, messages and sequences of them. *)

LEMMA NoneIs ==
    /\ Default \in Values /\ Other \notin Lamps /\ Lamps \cap Names = {}
    /\ None # Waiting /\ None \notin Lamps \cup {Other} /\ None \notin Types /\ Waiting \notin Types
    /\ None \notin [Fields -> Values] /\ IsFiniteSet(Names)
  BY LightsEditAssumption DEF Types, Fields

LEMMA MessagesAre ==
    /\ \A l \in Lamps, t \in Types \cup {None} : [kind |-> "set", lamp |-> l, types |-> t] \in Messages
    /\ \A t \in Types \cup {None} : [kind |-> "read", types |-> t] \in Messages
    /\ \A m \in Messages : /\ m.kind \in {"set", "read"} /\ m.types \in Types \cup {None}
                           /\ m.kind = "set" => m.lamp \in Lamps
  BY DEF Messages

\* A message more.
LEMMA Appended ==
    ASSUME TypeOK, NEW m \in Messages, inbox' = Append(inbox, m)
    PROVE  /\ inbox' \in Seq(Messages)
           /\ \E e \in Nat : /\ e \notin DOMAIN inbox /\ DOMAIN inbox' = DOMAIN inbox \cup {e}
                             /\ inbox'[e] = m
                             /\ \A i \in DOMAIN inbox : inbox'[i] = inbox[i] /\ e > i /\ ~(i > e)
                             /\ ~(e > e)
  <1>1. inbox \in Seq(Messages) /\ Len(inbox) \in Nat /\ DOMAIN inbox = 1..Len(inbox)
    BY DEF TypeOK
  <1>2. /\ inbox' \in Seq(Messages) /\ Len(inbox') = Len(inbox) + 1 /\ DOMAIN inbox' = 1..Len(inbox')
        /\ \A i \in 1..Len(inbox) : inbox'[i] = inbox[i]
        /\ inbox'[Len(inbox) + 1] = m
    BY <1>1, AppendProperties
  <1>3. PICK e \in Nat : e = Len(inbox) + 1
    BY <1>1
  <1>4. /\ e \notin 1..Len(inbox) /\ 1..Len(inbox') = 1..Len(inbox) \cup {e}
        /\ \A i \in 1..Len(inbox) : e > i /\ ~(i > e)
        /\ ~(e > e)
    BY <1>1, <1>2, <1>3
  <1> QED
    BY <1>1, <1>2, <1>3, <1>4

\* A message less: where each of the others was and is.
Moved(k, was, is) ==
    /\ was \in [DOMAIN inbox' -> DOMAIN inbox \ {k}] /\ is \in [DOMAIN inbox \ {k} -> DOMAIN inbox']
    /\ \A i \in DOMAIN inbox' : inbox'[i] = inbox[was[i]] /\ is[was[i]] = i
    /\ \A i \in DOMAIN inbox \ {k} : was[is[i]] = i
    /\ \A i, j \in DOMAIN inbox' : i > j <=> was[i] > was[j]

LEMMA Removed ==
    ASSUME TypeOK, NEW k \in DOMAIN inbox, inbox' = RemoveAt(inbox, k)
    PROVE  inbox' \in Seq(Messages) /\ \E was, is : Moved(k, was, is)
  <1>1. /\ inbox \in Seq(Messages) /\ Len(inbox) \in Nat /\ DOMAIN inbox = 1..Len(inbox)
        /\ k \in Nat /\ 1 <= k /\ k <= Len(inbox)
    BY DEF TypeOK
  <1> DEFINE before == SubSeq(inbox, 1, k - 1)
             after == SubSeq(inbox, k + 1, Len(inbox))
  <1>2. /\ before \in Seq(Messages) /\ Len(before) = k - 1
        /\ \A i \in 1..(k - 1) : before[i] = inbox[i]
    <2>1. \A i \in 1..(k - 1) : inbox[i] \in Messages
      BY <1>1
    <2> QED
      BY <1>1, <2>1, SubSeqProperties
  <1>3. /\ after \in Seq(Messages) /\ Len(after) = Len(inbox) - k
        /\ \A i \in 1..(Len(inbox) - k) : after[i] = inbox[k + i]
    <2>1. \A i \in (k + 1)..Len(inbox) : inbox[i] \in Messages
      BY <1>1
    <2>2. /\ after \in Seq(Messages)
          /\ Len(after) = IF k + 1 <= Len(inbox) THEN Len(inbox) - (k + 1) + 1 ELSE 0
          /\ \A i \in 1..(Len(inbox) - (k + 1) + 1) : after[i] = inbox[(k + 1) + i - 1]
      BY <1>1, <2>1, SubSeqProperties
    <2> HIDE DEF after
    <2>3. \A i \in 1..(Len(inbox) - k) : i \in 1..(Len(inbox) - (k + 1) + 1) /\ (k + 1) + i - 1 = k + i
      BY <1>1
    <2>4. Len(after) = Len(inbox) - k
      BY <1>1, <2>2
    <2> QED
      BY <2>2, <2>3, <2>4
  <1>4. inbox' = before \o after
    BY DEF RemoveAt
  <1> HIDE DEF before, after
  <1>5. /\ inbox' \in Seq(Messages) /\ Len(inbox') = Len(inbox) - 1 /\ DOMAIN inbox' = 1..(Len(inbox) - 1)
        /\ \A i \in 1..(Len(inbox) - 1) : inbox'[i] = IF i <= k - 1 THEN before[i] ELSE after[i - (k - 1)]
    <2>1. /\ inbox' \in Seq(Messages) /\ Len(inbox') = Len(before) + Len(after)
          /\ \A i \in 1..(Len(before) + Len(after)) :
                inbox'[i] = IF i <= Len(before) THEN before[i] ELSE after[i - Len(before)]
      BY <1>2, <1>3, <1>4, ConcatProperties
    <2>2. Len(before) + Len(after) = Len(inbox) - 1 /\ Len(before) = k - 1
      BY <1>1, <1>2, <1>3
    <2> QED
      BY <2>1, <2>2
  <1>6. \A i \in 1..(Len(inbox) - 1) : inbox'[i] = inbox[IF i < k THEN i ELSE i + 1]
    <2> SUFFICES ASSUME NEW i \in 1..(Len(inbox) - 1)
                 PROVE  inbox'[i] = inbox[IF i < k THEN i ELSE i + 1]
      OBVIOUS
    <2>1. CASE i < k
      BY <2>1, <1>1, <1>2, <1>5
    <2>2. CASE ~(i < k)
      <3>1. i - (k - 1) \in 1..(Len(inbox) - k) /\ k + (i - (k - 1)) = i + 1 /\ ~(i <= k - 1)
        BY <2>2, <1>1
      <3> QED
        BY <3>1, <2>2, <1>3, <1>5
    <2> QED
      BY <2>1, <2>2
  <1>7. PICK was : was = [i \in DOMAIN inbox' |-> IF i < k THEN i ELSE i + 1]
    OBVIOUS
  <1>8. PICK is : is = [i \in DOMAIN inbox \ {k} |-> IF i < k THEN i ELSE i - 1]
    OBVIOUS
  <1>9. was \in [DOMAIN inbox' -> DOMAIN inbox \ {k}] /\ is \in [DOMAIN inbox \ {k} -> DOMAIN inbox']
    BY <1>1, <1>5, <1>7, <1>8
  <1>10. /\ \A i \in DOMAIN inbox' : inbox'[i] = inbox[was[i]] /\ is[was[i]] = i
         /\ \A i \in DOMAIN inbox \ {k} : was[is[i]] = i
    <2>1. \A i \in DOMAIN inbox' : inbox'[i] = inbox[was[i]]
      BY <1>5, <1>6, <1>7
    <2>2. \A i \in DOMAIN inbox' : is[was[i]] = i
      BY <1>1, <1>5, <1>7, <1>8, <1>9
    <2>3. \A i \in DOMAIN inbox \ {k} : was[is[i]] = i
      BY <1>1, <1>5, <1>7, <1>8, <1>9
    <2> QED
      BY <2>1, <2>2, <2>3
  <1>11. \A i, j \in DOMAIN inbox' : i > j <=> was[i] > was[j]
    BY <1>1, <1>5, <1>7
  <1>12. Moved(k, was, is)
    BY <1>9, <1>10, <1>11 DEF Moved
  <1> QED
    BY <1>5, <1>12

LEMMA Taken ==
    ASSUME TypeOK, inbox # <<>>, inbox' = Tail(inbox)
    PROVE  /\ 1 \in DOMAIN inbox /\ Head(inbox) = inbox[1] /\ Head(inbox) \in Messages
           /\ \A i \in DOMAIN inbox : (i = 1 \/ i > 1) /\ ~(1 > i)
           /\ inbox' \in Seq(Messages) /\ \E was, is : Moved(1, was, is)
  <1>1. /\ inbox \in Seq(Messages) /\ Len(inbox) \in Nat \ {0} /\ DOMAIN inbox = 1..Len(inbox)
    BY EmptySeq DEF TypeOK
  <1>2. /\ Head(inbox) = inbox[1] /\ Head(inbox) \in Messages
        /\ inbox' \in Seq(Messages) /\ Len(inbox') = Len(inbox) - 1
        /\ \A i \in 1..Len(inbox') : inbox'[i] = inbox[i + 1]
    BY <1>1, HeadTailProperties
  <1>3. DOMAIN inbox' = 1..(Len(inbox) - 1)
    BY <1>2
  <1>4. PICK was : was = [i \in DOMAIN inbox' |-> i + 1]
    OBVIOUS
  <1>5. PICK is : is = [i \in DOMAIN inbox \ {1} |-> i - 1]
    OBVIOUS
  <1>6. was \in [DOMAIN inbox' -> DOMAIN inbox \ {1}] /\ is \in [DOMAIN inbox \ {1} -> DOMAIN inbox']
    BY <1>1, <1>3, <1>4, <1>5
  <1>7. /\ \A i \in DOMAIN inbox' : inbox'[i] = inbox[was[i]] /\ is[was[i]] = i
        /\ \A i \in DOMAIN inbox \ {1} : was[is[i]] = i
        /\ \A i, j \in DOMAIN inbox' : i > j <=> was[i] > was[j]
    BY <1>1, <1>2, <1>3, <1>4, <1>5, <1>6
  <1>8. 1 \in DOMAIN inbox /\ \A i \in DOMAIN inbox : (i = 1 \/ i > 1) /\ ~(1 > i)
    BY <1>1
  <1>9. Moved(1, was, is)
    BY <1>6, <1>7 DEF Moved
  <1> QED
    BY <1>2, <1>8, <1>9

\* The names that are to be saved are all of those that differ.
LEMMA ToDo ==
    ASSUME NEW some, some \subseteq Names
    PROVE  SetToSeq(some) \in Seq(Names) /\ Range(SetToSeq(some)) = some
  <1>1. IsFiniteSet(some)
    BY NoneIs, FS_Subset
  <1>2. PICK n \in Nat : n = Cardinality(some) /\ IsFiniteSet(1..n) /\ Cardinality(1..n) = n
    BY <1>1, FS_CardinalityType, FS_Interval
  <1>3. \E f \in [1..n -> some] : IsInjective(f)
    <2>1. ExistsBijection(1..n, some)
      BY <1>1, <1>2, FS_CardinalityType
    <2>2. PICK f \in Bijection(1..n, some) : TRUE
      BY <2>1 DEF ExistsBijection
    <2> QED
      BY <2>2 DEF Bijection, Injection, IsInjective
  <1>4. SetToSeq(some) \in [1..n -> some] /\ IsInjective(SetToSeq(some))
    BY <1>2, <1>3 DEF SetToSeq
  <1>5. PICK f \in [1..n -> some] : f = SetToSeq(some) /\ IsInjective(f)
    BY <1>4
  <1>6. f \in Injection(1..n, some)
    BY <1>5 DEF Injection, IsInjective
  <1>7. f \in Surjection(1..n, some)
    BY <1>1, <1>2, <1>6, FS_Injection
  <1>8. Range(f) = some
    BY <1>5, <1>7 DEF Surjection, Range
  <1>9. f \in Seq(Names)
    BY <1>5
  <1> QED
    BY <1>5, <1>8, <1>9

-----------------------------------------------------------------------------
(* What a step leaves alone.  The parts of the invariant are about few     *)
(* variables each.                                                         *)

LEMMA LockKept == LockInv /\ UNCHANGED <<store, lock, request>> => LockInv'
  BY DEF LockInv

LEMMA BusyKept == BusyInv /\ UNCHANGED <<busy, draft, work, base, saving, todo, typed>> => BusyInv'
  BY DEF BusyInv

LEMMA SetKept ==
    /\ SetInv /\ UNCHANGED <<saving, inbox>>
    /\ \A l \in Lamps : request'[l] # None <=> request[l] # None
    => SetInv'
  BY DEF SetInv, SetMsg

LEMMA ReadKept == ReadInv /\ UNCHANGED <<read, reader, inbox, saving, stale>> => ReadInv'
  BY DEF ReadInv, ReadMsg

LEMMA FreshKept ==
    /\ FreshInv /\ UNCHANGED <<stale, reader, inbox, store, unseen>>
    /\ \A l \in Lamps : l \in foreign <=> l \in foreign'
    => FreshInv'
  BY DEF FreshInv, Fresh, ReadMsg

LEMMA ViewKept ==
    /\ ViewInv /\ UNCHANGED <<inbox, store, confirmed, read, unseen>>
    /\ \A l \in Lamps : l \in foreign <=> l \in foreign'
    => ViewInv'
  BY DEF ViewInv, View, Shows

LEMMA ShownKept == ShownInv /\ UNCHANGED <<styles, confirmed, saving>> => ShownInv'
  BY DEF ShownInv

LEMMA SameKept ==
    /\ SameInv /\ UNCHANGED <<draft, busy, work, base, kept>>
    /\ \A f \in Fields \ foreign' : f \notin foreign /\ ServerHas(f)' = ServerHas(f)
    => SameInv'
  BY DEF SameInv, Changed

LEMMA DoneKept ==
    /\ DoneInv /\ UNCHANGED <<busy, failed, work, base>>
    /\ \A f \in Fields : Pending(f) => Pending(f)'
    /\ \A f \in Fields \ foreign' : f \notin foreign /\ ServerHas(f)' = ServerHas(f)
    => DoneInv'
  BY DEF DoneInv, Changed

LEMMA PendingKept ==
    ASSUME UNCHANGED <<inbox, todo>>, \A l \in Lamps : request[l] # None => request'[l] # None
    PROVE  \A f \in Fields : Pending(f) => Pending(f)'
  BY DEF Pending, SetMsg

LEMMA InitIInv == Init => IInv
  <1> SUFFICES ASSUME Init PROVE IInv
    OBVIOUS
  <1>1. /\ store \in Types /\ names = [n \in Names |-> Default] /\ lock = None
        /\ request = [r \in Lamps \cup {Other} |-> None] /\ reader = Waiting /\ inbox = <<>>
        /\ styles = [l \in Lamps |-> Default] /\ confirmed = styles /\ saving = {} /\ read = "asked"
        /\ stale = FALSE /\ draft = None /\ base = None /\ busy = FALSE /\ work = None /\ failed = FALSE
        /\ todo = <<>> /\ foreign = {l \in Lamps : store[l] # Default} /\ unseen = {}
        /\ kept = {} /\ typed = {}
    BY DEF Init
  <1>2. DOMAIN inbox = {} /\ inbox \in Seq(Messages) /\ DOMAIN todo = {} /\ todo \in Seq(Names)
    BY <1>1
  <1>3. styles \in Types /\ names \in [Names -> Values]
    BY <1>1, NoneIs DEF Types
  <1>4. TypeOK
    BY <1>1, <1>2, <1>3, NoneIs DEF TypeOK, Fields
  <1>5. LockInv /\ BusyInv /\ SetInv /\ ReadInv
    BY <1>1, <1>2, NoneIs DEF LockInv, BusyInv, SetInv, ReadInv, Askers
  <1>6. FreshInv /\ ViewInv
    BY <1>1, <1>2, <1>3, NoneIs DEF FreshInv, ViewInv, View, Types
  <1>7. ShownInv /\ SameInv /\ DoneInv
    BY <1>1 DEF ShownInv, SameInv, DoneInv
  <1> QED
    BY <1>4, <1>5, <1>6, <1>7 DEF IInv

-----------------------------------------------------------------------------
(* The server. *)

LEMMA SetLoadsStep ==
    ASSUME IInv, NEW r \in Askers, SetLoads(r)
    PROVE  IInv'
  <1>1. /\ lock = None /\ request[r] = Waiting /\ lock' = r /\ request' = [request EXCEPT ![r] = store]
        /\ UNCHANGED <<store, names, reader, inbox, styles, confirmed, saving, read, stale, draft, base,
                       busy, work, failed, todo, kept, typed, foreign, unseen>>
    BY DEF SetLoads, shown, reading, editing, others
  <1>2. TypeOK'
    BY <1>1 DEF IInv, TypeOK, Askers
  <1>3. LockInv'
    BY <1>1, NoneIs DEF IInv, TypeOK, LockInv, Askers
  <1>4. \A l \in Lamps : request'[l] # None <=> request[l] # None
    BY <1>1, NoneIs DEF IInv, TypeOK, Askers
  <1>5. BusyInv' /\ SetInv' /\ ReadInv' /\ FreshInv' /\ ViewInv' /\ ShownInv'
    BY <1>1, <1>4, BusyKept, SetKept, ReadKept, FreshKept, ViewKept, ShownKept DEF IInv
  <1>6. SameInv' /\ DoneInv'
    <2>1. \A f \in Fields : Pending(f) => Pending(f)'
      BY <1>1, <1>4, PendingKept
    <2> QED
      BY <1>1, <2>1, SameKept, DoneKept DEF IInv, ServerHas
  <1> QED
    BY <1>2, <1>3, <1>5, <1>6 DEF IInv

LEMMA OtherSetsStep ==
    ASSUME IInv, OtherSets
    PROVE  IInv'
  <1>1. /\ request[Other] = None /\ request' = [request EXCEPT ![Other] = Waiting]
        /\ UNCHANGED <<store, lock, names, reader, inbox, styles, confirmed, saving, read, stale, draft,
                       base, busy, work, failed, todo, kept, typed, foreign, unseen>>
    BY DEF OtherSets, shown, reading, editing, others
  <1>2. TypeOK'
    BY <1>1 DEF IInv, TypeOK
  <1>3. LockInv'
    BY <1>1, NoneIs DEF IInv, TypeOK, LockInv, Askers
  <1>4. \A l \in Lamps : request'[l] # None <=> request[l] # None
    BY <1>1, NoneIs DEF IInv, TypeOK
  <1>5. BusyInv' /\ SetInv' /\ ReadInv' /\ FreshInv' /\ ViewInv' /\ ShownInv'
    BY <1>1, <1>4, BusyKept, SetKept, ReadKept, FreshKept, ViewKept, ShownKept DEF IInv
  <1>6. SameInv' /\ DoneInv'
    <2>1. \A f \in Fields : Pending(f) => Pending(f)'
      BY <1>1, <1>4, PendingKept
    <2> QED
      BY <1>1, <2>1, SameKept, DoneKept DEF IInv, ServerHas
  <1> QED
    BY <1>2, <1>3, <1>5, <1>6 DEF IInv

\* The request that saves is the one that holds the lock, and what it saves differs from what is
\* stored in its own lamp's type only.
LEMMA Saved ==
    ASSUME IInv, NEW r \in Askers, NEW l \in Lamps, NEW v \in Values, Saves(r, l, v)
    PROVE  /\ store' = [store EXCEPT ![l] = v] /\ store' \in Types
           /\ store'[l] = v /\ \A k \in Lamps : k # l => store'[k] = store[k]
           /\ lock = r /\ lock' = None /\ request' = [request EXCEPT ![r] = None]
           /\ request'[r] = None /\ request[r] # None
           /\ \A s \in Askers : s # r => request'[s] = request[s] /\ request[s] \notin Types
           /\ LockInv'
  <1>1. /\ request[r] \in Types /\ store' = [request[r] EXCEPT ![l] = v]
        /\ request' = [request EXCEPT ![r] = None] /\ lock' = None
    BY DEF Saves
  <1>2. lock = r /\ request[r] = store /\ store \in Types /\ request \in [Askers -> {None, Waiting} \cup Types]
    BY <1>1 DEF IInv, LockInv, TypeOK, Askers
  <1>3. store' = [store EXCEPT ![l] = v]
    BY <1>1, <1>2
  <1>4. store' \in Types /\ store'[l] = v /\ \A k \in Lamps : k # l => store'[k] = store[k]
    BY <1>2, <1>3 DEF Types
  <1>5. request'[r] = None /\ request[r] # None
    BY <1>1, <1>2, NoneIs
  <1>6. \A s \in Askers : s # r => request'[s] = request[s] /\ request[s] \notin Types
    BY <1>1, <1>2 DEF IInv, LockInv
  <1>7. LockInv'
    BY <1>1, <1>5, <1>6, NoneIs DEF LockInv, Askers
  <1> QED
    BY <1>1, <1>2, <1>3, <1>4, <1>5, <1>6, <1>7

LEMMA OtherSavesStep ==
    ASSUME IInv, OtherSaves
    PROVE  IInv'
  <1>1. /\ UNCHANGED <<names, reader, inbox, styles, confirmed, saving, read, stale, draft,
                       base, busy, work, failed, todo, kept, typed>>
        /\ \E l \in Lamps, v \in Values :
              Saves(Other, l, v) /\ foreign' = foreign \cup {l} /\ unseen' = unseen \cup {l}
    BY DEF OtherSaves, shown, reading, editing
  <1>2. PICK l \in Lamps, v \in Values :
           Saves(Other, l, v) /\ foreign' = foreign \cup {l} /\ unseen' = unseen \cup {l}
    BY <1>1
  <1>3. /\ store' \in Types /\ \A k \in Lamps : k # l => store'[k] = store[k]
        /\ lock' = None /\ request' = [request EXCEPT ![Other] = None] /\ LockInv'
    BY <1>2, Saved DEF Askers
  <1>4. TypeOK'
    BY <1>1, <1>2, <1>3 DEF IInv, TypeOK, Fields
  <1>5. \A k \in Lamps : request'[k] # None <=> request[k] # None
    BY <1>3, NoneIs DEF IInv, TypeOK
  <1>6. BusyInv' /\ SetInv' /\ ReadInv' /\ ShownInv'
    BY <1>1, <1>5, BusyKept, SetKept, ReadKept, ShownKept DEF IInv
  <1>7. FreshInv'
    BY <1>1, <1>2, <1>3, NoneIs DEF IInv, FreshInv, Fresh, ReadMsg, TypeOK
  <1>8. ViewInv'
    BY <1>1, <1>2, <1>3 DEF IInv, ViewInv, View, Shows
  <1>9. SameInv' /\ DoneInv'
    <2>1. \A f \in Fields : Pending(f) => Pending(f)'
      BY <1>1, <1>5, PendingKept
    <2>2. \A f \in Fields \ foreign' : f \notin foreign /\ ServerHas(f)' = ServerHas(f)
      BY <1>1, <1>2, <1>3 DEF ServerHas
    <2> QED
      BY <1>1, <2>1, <2>2, SameKept, DoneKept DEF IInv
  <1> QED
    BY <1>3, <1>4, <1>6, <1>7, <1>8, <1>9 DEF IInv

LEMMA OtherRenamesStep ==
    ASSUME IInv, OtherRenames
    PROVE  IInv'
  <1>1. PICK n \in Names, v \in Values : names' = [names EXCEPT ![n] = v] /\ foreign' = foreign \cup {n}
    BY DEF OtherRenames
  <1>2. UNCHANGED <<store, lock, request, reader, inbox, styles, confirmed, saving, read, stale, draft,
                    base, busy, work, failed, todo, kept, typed, unseen>>
    BY DEF OtherRenames, shown, reading, editing
  <1>3. TypeOK'
    BY <1>1, <1>2 DEF IInv, TypeOK, Fields
  <1>4. \A l \in Lamps : l \in foreign <=> l \in foreign'
    BY <1>1, NoneIs
  <1>5. LockInv' /\ BusyInv' /\ SetInv' /\ ReadInv' /\ FreshInv' /\ ViewInv' /\ ShownInv'
    BY <1>2, <1>4, LockKept, BusyKept, SetKept, ReadKept, FreshKept, ViewKept, ShownKept DEF IInv
  <1>6. SameInv' /\ DoneInv'
    <2>1. \A f \in Fields : Pending(f) => Pending(f)'
      BY <1>2, PendingKept
    <2>2. \A f \in Fields \ foreign' : f \notin foreign /\ ServerHas(f)' = ServerHas(f)
      BY <1>1, <1>2 DEF IInv, TypeOK, ServerHas, Fields
    <2> QED
      BY <1>2, <2>1, <2>2, SameKept, DoneKept DEF IInv
  <1> QED
    BY <1>3, <1>5, <1>6 DEF IInv

LEMMA ReadLoadsStep ==
    ASSUME IInv, ReadLoads
    PROVE  IInv'
  <1>1. /\ reader = Waiting /\ reader' = store /\ unseen' = {}
        /\ UNCHANGED <<store, names, lock, request, inbox, styles, confirmed, saving, read, stale, draft,
                       base, busy, work, failed, todo, kept, typed, foreign>>
    BY DEF ReadLoads, shown, reading, editing
  <1>2. read = "asked" /\ (\A i \in DOMAIN inbox : ~ReadMsg(i)) /\ store \in Types /\ store # None
    BY <1>1, NoneIs DEF IInv, ReadInv, TypeOK
  <1>3. TypeOK'
    BY <1>1, <1>2 DEF IInv, TypeOK
  <1>4. LockInv' /\ BusyInv' /\ SetInv' /\ ShownInv'
    BY <1>1, LockKept, BusyKept, SetKept, ShownKept DEF IInv
  <1>5. ReadInv'
    BY <1>1, <1>2, NoneIs DEF IInv, ReadInv, ReadMsg
  <1>6. FreshInv'
    BY <1>1, <1>2 DEF FreshInv, Fresh, ReadMsg
  <1>7. ViewInv'
    BY <1>1, <1>2 DEF IInv, ViewInv, View, Shows
  <1>8. SameInv' /\ DoneInv'
    <2>1. \A f \in Fields : Pending(f) => Pending(f)'
      BY <1>1, PendingKept
    <2> QED
      BY <1>1, <2>1, SameKept, DoneKept DEF IInv, ServerHas
  <1> QED
    BY <1>3, <1>4, <1>5, <1>6, <1>7, <1>8 DEF IInv

\* The answer that is sent shows what is stored, and comes last.
LEMMA SetSavesStep ==
    ASSUME IInv, NEW l \in Lamps, SetSaves(l)
    PROVE  IInv'
  <1>1. /\ Saves(l, l, work[l]) /\ foreign' = foreign \ {l} /\ unseen' = {}
        /\ inbox' = Append(inbox, [kind |-> "set", lamp |-> l, types |-> store'])
        /\ UNCHANGED <<names, reader, styles, confirmed, saving, read, stale, draft, base, busy, work,
                       failed, todo, kept, typed>>
    BY DEF SetSaves, reading, editing
  <1>2. l \in saving /\ stale /\ busy /\ work \in [Fields -> Values] /\ Changed(l) /\ work[l] \in Values
    <2>1. request[l] # None
      BY <1>1, NoneIs DEF Saves
    <2>2. l \in saving
      BY <2>1 DEF IInv, SetInv
    <2>3. stale /\ busy /\ work # None /\ Changed(l)
      BY <2>2 DEF IInv, ReadInv, BusyInv, Changed
    <2> QED
      BY <2>2, <2>3 DEF IInv, TypeOK, Fields
  <1>3. /\ store' \in Types /\ store'[l] = work[l] /\ \A k \in Lamps : k # l => store'[k] = store[k]
        /\ lock' = None /\ request' = [request EXCEPT ![l] = None] /\ LockInv'
        /\ request'[l] = None /\ request[l] # None
        /\ \A k \in Lamps : k # l => request'[k] = request[k]
    BY <1>1, <1>2, Saved DEF Askers
  <1>4. PICK m \in Messages : m = [kind |-> "set", lamp |-> l, types |-> store']
    BY <1>3, MessagesAre
  <1>5. m.kind = "set" /\ m.lamp = l /\ m.types = store' /\ m.types # None
    BY <1>3, <1>4, NoneIs
  <1>6. TypeOK /\ inbox' = Append(inbox, m)
    BY <1>1, <1>4 DEF IInv
  <1>7. inbox' \in Seq(Messages)
    BY <1>6, Appended
  <1>8. PICK e \in Nat : /\ e \notin DOMAIN inbox /\ DOMAIN inbox' = DOMAIN inbox \cup {e}
                         /\ inbox'[e] = m
                         /\ \A i \in DOMAIN inbox : inbox'[i] = inbox[i] /\ e > i /\ ~(i > e)
                         /\ ~(e > e)
    BY <1>6, Appended
  <1>9. TypeOK'
    BY <1>1, <1>3, <1>7 DEF IInv, TypeOK
  <1>10. BusyInv' /\ ShownInv'
    BY <1>1, BusyKept, ShownKept DEF IInv
  <1>11. SetInv'
    <2>1. \A i \in DOMAIN inbox : ~SetMsg(i, l)
      BY <1>3 DEF IInv, SetInv
    <2>2. SetMsg(e, l)' /\ \A k \in Lamps : k # l => ~SetMsg(e, k)'
      BY <1>5, <1>8 DEF SetMsg
    <2>3. \A i \in DOMAIN inbox, k \in Lamps : SetMsg(i, k)' <=> SetMsg(i, k)
      BY <1>8 DEF SetMsg
    <2> SUFFICES ASSUME NEW k \in Lamps
                 PROVE  /\ k \in saving' <=> request'[k] # None \/ \E i \in DOMAIN inbox' : SetMsg(i, k)'
                        /\ \A i \in DOMAIN inbox' : SetMsg(i, k)' =>
                              request'[k] = None /\ \A j \in DOMAIN inbox' : SetMsg(j, k)' => i = j
      BY DEF SetInv
    <2>4. CASE k = l
      BY <2>4, <2>1, <2>2, <2>3, <1>1, <1>2, <1>3, <1>8
    <2>5. CASE k # l
      BY <2>5, <2>2, <2>3, <1>1, <1>3, <1>8 DEF IInv, SetInv
    <2> QED
      BY <2>4, <2>5
  <1>12. ReadInv'
    <2>1. ~ReadMsg(e)' /\ \A i \in DOMAIN inbox : ReadMsg(i)' <=> ReadMsg(i)
      BY <1>5, <1>8 DEF ReadMsg
    <2> QED
      BY <2>1, <1>1, <1>8 DEF IInv, ReadInv
  <1>13. FreshInv'
    BY <1>1, <1>2 DEF FreshInv
  <1>14. ViewInv'
    <2>1. Shows(e)' /\ inbox'[e].types = store'
      BY <1>5, <1>8 DEF Shows
    <2>2. \A i \in DOMAIN inbox' : i = e \/ e > i
      BY <1>8
    <2>3. \A some : View(some)'
      BY <2>1, <2>2, <1>8 DEF View
    <2> QED
      BY <2>3 DEF ViewInv
  <1>15. \A f \in Fields \ foreign' : f # l => f \notin foreign /\ ServerHas(f)' = ServerHas(f)
    BY <1>1, <1>3 DEF ServerHas, Fields
  <1>16. SameInv'
    BY <1>1, <1>2, <1>15 DEF IInv, SameInv, Changed
  <1>17. DoneInv'
    <2>1. ServerHas(l)' = work'[l]
      BY <1>1, <1>3 DEF ServerHas
    <2>2. \A f \in Fields : f # l /\ Pending(f) => Pending(f)'
      BY <1>1, <1>3, <1>8 DEF Pending, SetMsg
    <2> QED
      BY <2>1, <2>2, <1>1, <1>15 DEF IInv, DoneInv, Changed
  <1> QED
    BY <1>3, <1>9, <1>10, <1>11, <1>12, <1>13, <1>14, <1>16, <1>17 DEF IInv

LEMMA SetFailsStep ==
    ASSUME IInv, NEW l \in Lamps, SetFails(l)
    PROVE  IInv'
  <1>1. /\ request[l] # None /\ request' = [request EXCEPT ![l] = None]
        /\ lock' = IF lock = l THEN None ELSE lock
        /\ inbox' = Append(inbox, [kind |-> "set", lamp |-> l, types |-> None])
        /\ UNCHANGED <<store, names, reader, styles, confirmed, saving, read, stale, draft, base, busy, work,
                       failed, todo, kept, typed, foreign, unseen>>
    BY DEF SetFails, reading, editing, others
  <1>2. l \in saving
    BY <1>1 DEF IInv, SetInv
  <1>3. /\ request' \in [Askers -> {None, Waiting} \cup Types] /\ request'[l] = None
        /\ \A r \in Askers : r # l => request'[r] = request[r]
    BY <1>1 DEF IInv, TypeOK, Askers
  <1>4. PICK m \in Messages : m = [kind |-> "set", lamp |-> l, types |-> None]
    BY MessagesAre
  <1>5. m.kind = "set" /\ m.lamp = l /\ m.types = None
    BY <1>4
  <1>6. TypeOK /\ inbox' = Append(inbox, m)
    BY <1>1, <1>4 DEF IInv
  <1>7. inbox' \in Seq(Messages)
    BY <1>6, Appended
  <1>8. PICK e \in Nat : /\ e \notin DOMAIN inbox /\ DOMAIN inbox' = DOMAIN inbox \cup {e}
                         /\ inbox'[e] = m
                         /\ \A i \in DOMAIN inbox : inbox'[i] = inbox[i] /\ e > i /\ ~(i > e)
                         /\ ~(e > e)
    BY <1>6, Appended
  <1>9. TypeOK'
    BY <1>1, <1>3, <1>7 DEF IInv, TypeOK, Askers
  <1>10. BusyInv' /\ ShownInv'
    BY <1>1, BusyKept, ShownKept DEF IInv
  <1>11. LockInv'
    BY <1>1, <1>3, NoneIs DEF IInv, LockInv, TypeOK, Askers
  <1>12. SetInv'
    <2>1. \A i \in DOMAIN inbox : ~SetMsg(i, l)
      BY <1>1 DEF IInv, SetInv
    <2>2. SetMsg(e, l)' /\ \A k \in Lamps : k # l => ~SetMsg(e, k)'
      BY <1>5, <1>8 DEF SetMsg
    <2>3. \A i \in DOMAIN inbox, k \in Lamps : SetMsg(i, k)' <=> SetMsg(i, k)
      BY <1>8 DEF SetMsg
    <2> SUFFICES ASSUME NEW k \in Lamps
                 PROVE  /\ k \in saving' <=> request'[k] # None \/ \E i \in DOMAIN inbox' : SetMsg(i, k)'
                        /\ \A i \in DOMAIN inbox' : SetMsg(i, k)' =>
                              request'[k] = None /\ \A j \in DOMAIN inbox' : SetMsg(j, k)' => i = j
      BY DEF SetInv
    <2>4. CASE k = l
      BY <2>4, <2>1, <2>2, <2>3, <1>1, <1>2, <1>3, <1>8
    <2>5. CASE k # l
      BY <2>5, <2>2, <2>3, <1>1, <1>3, <1>8 DEF IInv, SetInv, Askers
    <2> QED
      BY <2>4, <2>5
  <1>13. ReadInv'
    <2>1. ~ReadMsg(e)' /\ \A i \in DOMAIN inbox : ReadMsg(i)' <=> ReadMsg(i)
      BY <1>5, <1>8 DEF ReadMsg
    <2> QED
      BY <2>1, <1>1, <1>8 DEF IInv, ReadInv
  <1>14. FreshInv'
    BY <1>1, <1>2 DEF IInv, ReadInv, FreshInv
  <1>15. ViewInv'
    <2>1. ~Shows(e)' /\ \A i \in DOMAIN inbox : (Shows(i)' <=> Shows(i)) /\ inbox'[i] = inbox[i]
      BY <1>5, <1>8 DEF Shows
    <2>2. \A some : View(some) => View(some)'
      BY <2>1, <1>1, <1>8 DEF View
    <2> QED
      BY <2>2, <1>1 DEF IInv, ViewInv
  <1>16. SameInv' /\ DoneInv'
    <2>1. Pending(l)'
      BY <1>5, <1>8 DEF Pending, SetMsg
    <2>2. \A f \in Fields : f # l /\ Pending(f) => Pending(f)'
      BY <1>1, <1>3, <1>8 DEF Pending, SetMsg, Askers
    <2> QED
      BY <2>1, <2>2, <1>1, SameKept, DoneKept DEF IInv, ServerHas
  <1> QED
    BY <1>9, <1>10, <1>11, <1>12, <1>13, <1>14, <1>15, <1>16 DEF IInv

\* The answer to a read: what it has loaded, or None when it failed.
LEMMA ReadAnsweredStep ==
    ASSUME IInv, NEW types \in Types \cup {None}, reader # None, reader' = None,
           types # None => types = reader,
           inbox' = Append(inbox, [kind |-> "read", types |-> types]),
           UNCHANGED <<store, names, lock, request, styles, confirmed, saving, read, stale, draft, base,
                       busy, work, failed, todo, kept, typed, foreign, unseen>>
    PROVE  IInv'
  <1>1. PICK m \in Messages : m = [kind |-> "read", types |-> types]
    BY MessagesAre
  <1>2. m.kind = "read" /\ m.types = types
    BY <1>1
  <1>3. TypeOK /\ inbox' = Append(inbox, m)
    BY <1>1 DEF IInv
  <1>4. inbox' \in Seq(Messages)
    BY <1>3, Appended
  <1>5. PICK e \in Nat : /\ e \notin DOMAIN inbox /\ DOMAIN inbox' = DOMAIN inbox \cup {e}
                         /\ inbox'[e] = m
                         /\ \A i \in DOMAIN inbox : inbox'[i] = inbox[i] /\ e > i /\ ~(i > e)
                         /\ ~(e > e)
    BY <1>3, Appended
  <1>6. TypeOK'
    BY <1>4 DEF IInv, TypeOK
  <1>7. LockInv' /\ BusyInv' /\ ShownInv'
    BY LockKept, BusyKept, ShownKept DEF IInv
  <1>8. /\ \A l \in Lamps : ~SetMsg(e, l)'
        /\ \A i \in DOMAIN inbox, l \in Lamps : SetMsg(i, l)' <=> SetMsg(i, l)
    BY <1>2, <1>5 DEF SetMsg
  <1>9. SetInv'
    BY <1>5, <1>8 DEF IInv, SetInv
  <1>10. /\ ReadMsg(e)' /\ read = "asked"
         /\ \A i \in DOMAIN inbox : ~ReadMsg(i) /\ ~ReadMsg(i)'
    BY <1>2, <1>5 DEF IInv, ReadInv, ReadMsg
  <1>11. ReadInv'
    BY <1>5, <1>10 DEF IInv, ReadInv
  <1>12. FreshInv'
    <2>1. types # None => types \in Types /\ reader \in Types
      OBVIOUS
    <2>2. reader' \notin Types
      BY NoneIs
    <2> QED
      BY <2>1, <2>2, <1>2, <1>5, <1>10 DEF IInv, FreshInv, Fresh
  <1>13. ViewInv'
    <2>1. ~Shows(e)' /\ \A i \in DOMAIN inbox : (Shows(i)' <=> Shows(i)) /\ inbox'[i] = inbox[i]
      BY <1>2, <1>5 DEF Shows
    <2>2. \A some : View(some) => View(some)'
      BY <2>1, <1>5 DEF View
    <2> QED
      BY <2>2, <1>10 DEF IInv, ViewInv
  <1>14. SameInv' /\ DoneInv'
    <2>1. \A f \in Fields : Pending(f) => Pending(f)'
      BY <1>5 DEF Pending, SetMsg
    <2> QED
      BY <2>1, SameKept, DoneKept DEF IInv, ServerHas
  <1> QED
    BY <1>6, <1>7, <1>9, <1>11, <1>12, <1>13, <1>14 DEF IInv

LEMMA ReadAnswersStep ==
    ASSUME IInv, ReadAnswers
    PROVE  IInv'
  <1>1. /\ reader \in Types /\ inbox' = Append(inbox, [kind |-> "read", types |-> reader])
        /\ reader' = None
        /\ UNCHANGED <<store, names, lock, request, styles, confirmed, saving, read, stale, draft, base,
                       busy, work, failed, todo, kept, typed, foreign, unseen>>
    BY DEF ReadAnswers, reading, editing, others
  <1>2. reader # None
    BY <1>1, NoneIs
  <1> QED
    BY <1>1, <1>2, ReadAnsweredStep

LEMMA ReadFailsStep ==
    ASSUME IInv, ReadFails
    PROVE  IInv'
  <1>1. /\ reader = Waiting /\ inbox' = Append(inbox, [kind |-> "read", types |-> None])
        /\ reader' = None
        /\ UNCHANGED <<store, names, lock, request, styles, confirmed, saving, read, stale, draft, base,
                       busy, work, failed, todo, kept, typed, foreign, unseen>>
    BY DEF ReadFails, reading, editing, others
  <1> QED
    BY <1>1, NoneIs, ReadAnsweredStep

-----------------------------------------------------------------------------
(* Reading the lamp types. *)

LEMMA AskedStep ==
    ASSUME IInv, Ask, \A i \in DOMAIN inbox : ~ReadMsg(i),
           UNCHANGED <<store, names, lock, request, inbox, styles, confirmed, saving, draft, base,
                       busy, work, failed, todo, kept, typed, foreign, unseen>>
    PROVE  IInv'
  <1>1. reader' = Waiting /\ read' = "asked" /\ stale' = (saving # {})
    BY DEF Ask
  <1>2. TypeOK'
    BY <1>1 DEF IInv, TypeOK
  <1>3. LockInv' /\ BusyInv' /\ SetInv' /\ ShownInv'
    BY LockKept, BusyKept, SetKept, ShownKept DEF IInv
  <1>4. ReadInv'
    BY <1>1, NoneIs DEF ReadInv, ReadMsg
  <1>5. FreshInv'
    BY <1>1, NoneIs DEF FreshInv, ReadMsg
  <1>6. ViewInv'
    BY <1>1 DEF IInv, ViewInv, View, Shows
  <1>7. SameInv' /\ DoneInv'
    <2>1. \A f \in Fields : Pending(f) => Pending(f)'
      BY PendingKept
    <2> QED
      BY <2>1, SameKept, DoneKept DEF IInv, ServerHas
  <1> QED
    BY <1>2, <1>3, <1>4, <1>5, <1>6, <1>7 DEF IInv

LEMMA TimerFiresStep ==
    ASSUME IInv, TimerFires
    PROVE  IInv'
  <1>1. /\ read = "timer" /\ Ask
        /\ UNCHANGED <<store, names, lock, request, inbox, styles, confirmed, saving, draft, base,
                       busy, work, failed, todo, kept, typed, foreign, unseen>>
    BY DEF TimerFires, shown, editing, others
  <1>2. \A i \in DOMAIN inbox : ~ReadMsg(i)
    BY <1>1 DEF IInv, ReadInv
  <1> QED
    BY <1>1, <1>2, AskedStep

\* The last message that shows something is still the last when one that shows nothing is dropped.
LEMMA Dropped ==
    ASSUME NEW k \in DOMAIN inbox, ~Shows(k), NEW was, NEW is, Moved(k, was, is),
           UNCHANGED <<store, confirmed>>, NEW some, View(some)
    PROVE  View(some)'
  <1>1. /\ \A i \in DOMAIN inbox' : was[i] \in DOMAIN inbox \ {k} /\ inbox'[i] = inbox[was[i]]
        /\ \A i \in DOMAIN inbox \ {k} : is[i] \in DOMAIN inbox' /\ was[is[i]] = i
        /\ \A i, j \in DOMAIN inbox' : i > j <=> was[i] > was[j]
    BY DEF Moved
  <1>2. \A i \in DOMAIN inbox' : Shows(i)' <=> Shows(was[i])
    BY <1>1 DEF Shows
  <1>3. ASSUME NEW i \in DOMAIN inbox', Shows(i)', \A j \in DOMAIN inbox' : j > i => ~Shows(j)',
               NEW l \in some
        PROVE  inbox'[i].types[l] = store[l]
    <2>1. was[i] \in DOMAIN inbox /\ Shows(was[i])
      BY <1>1, <1>2, <1>3
    <2>2. ASSUME NEW j \in DOMAIN inbox, j > was[i], Shows(j)
          PROVE  FALSE
      <3>1. is[j] \in DOMAIN inbox' /\ was[is[j]] = j
        BY <1>1, <2>2
      <3>2. is[j] > i /\ Shows(is[j])'
        BY <3>1, <1>1, <1>2, <2>2
      <3> QED
        BY <3>1, <3>2, <1>3
    <2> QED
      BY <1>1, <2>1, <2>2 DEF View
  <1>4. ASSUME \A i \in DOMAIN inbox' : ~Shows(i)', NEW l \in some
        PROVE  confirmed[l] = store[l]
    <2>1. \A j \in DOMAIN inbox : ~Shows(j)
      BY <1>1, <1>2, <1>4
    <2> QED
      BY <2>1 DEF View
  <1> QED
    BY <1>3, <1>4 DEF View

\* An answer that is about the other lamps, or about reading, leaves those of a lamp alone.
LEMMA OthersAnswered ==
    ASSUME NEW k \in DOMAIN inbox, NEW was, NEW is, Moved(k, was, is), NEW l, ~SetMsg(k, l)
    PROVE  /\ (\E i \in DOMAIN inbox' : SetMsg(i, l)') <=> \E i \in DOMAIN inbox : SetMsg(i, l)
           /\ (\E i \in DOMAIN inbox' : SetMsg(i, l)' /\ inbox'[i].types = None)
              <=> \E i \in DOMAIN inbox : SetMsg(i, l) /\ inbox[i].types = None
           /\ (\A i, j \in DOMAIN inbox : SetMsg(i, l) /\ SetMsg(j, l) => i = j)
              => \A i, j \in DOMAIN inbox' : SetMsg(i, l)' /\ SetMsg(j, l)' => i = j
  <1>1. /\ \A i \in DOMAIN inbox' : was[i] \in DOMAIN inbox \ {k} /\ inbox'[i] = inbox[was[i]] /\ is[was[i]] = i
        /\ \A i \in DOMAIN inbox \ {k} : is[i] \in DOMAIN inbox' /\ was[is[i]] = i
    BY DEF Moved
  <1>2. \A i \in DOMAIN inbox' : SetMsg(i, l)' <=> SetMsg(was[i], l)
    BY <1>1 DEF SetMsg
  <1>3. (\E i \in DOMAIN inbox' : SetMsg(i, l)') <=> \E i \in DOMAIN inbox : SetMsg(i, l)
    BY <1>1, <1>2
  <1>4. (\E i \in DOMAIN inbox' : SetMsg(i, l)' /\ inbox'[i].types = None)
        <=> \E i \in DOMAIN inbox : SetMsg(i, l) /\ inbox[i].types = None
    BY <1>1, <1>2
  <1>5. ASSUME \A i, j \in DOMAIN inbox : SetMsg(i, l) /\ SetMsg(j, l) => i = j
        PROVE  \A i, j \in DOMAIN inbox' : SetMsg(i, l)' /\ SetMsg(j, l)' => i = j
    BY <1>1, <1>2, <1>5
  <1> QED
    BY <1>3, <1>4, <1>5

\* The answer to the read is dropped: none is left, and those about lamps are the same.
LEMMA ReadDropped ==
    ASSUME IInv, NEW k \in DOMAIN inbox, ReadMsg(k), NEW was, NEW is, Moved(k, was, is),
           UNCHANGED <<saving, request, todo>>
    PROVE  /\ ~Shows(k) /\ \A i \in DOMAIN inbox' : ~ReadMsg(i)'
           /\ SetInv' /\ \A f \in Fields : Pending(f) => Pending(f)'
  <1>1. ~Shows(k) /\ \A l : ~SetMsg(k, l)
    BY DEF ReadMsg, Shows, SetMsg
  <1>2. \A i \in DOMAIN inbox' : ~ReadMsg(i)'
    <2>1. \A i \in DOMAIN inbox' : was[i] \in DOMAIN inbox \ {k} /\ inbox'[i] = inbox[was[i]]
      BY DEF Moved
    <2>2. \A i \in DOMAIN inbox \ {k} : ~ReadMsg(i)
      BY DEF IInv, ReadInv
    <2> QED
      BY <2>1, <2>2 DEF ReadMsg
  <1>3. SetInv'
    <2> SUFFICES ASSUME NEW l \in Lamps
                 PROVE  /\ l \in saving' <=> request'[l] # None \/ \E i \in DOMAIN inbox' : SetMsg(i, l)'
                        /\ \A i \in DOMAIN inbox' : SetMsg(i, l)' =>
                              request'[l] = None /\ \A j \in DOMAIN inbox' : SetMsg(j, l)' => i = j
      BY DEF SetInv
    <2>1. /\ l \in saving <=> request[l] # None \/ \E i \in DOMAIN inbox : SetMsg(i, l)
          /\ \A i \in DOMAIN inbox : SetMsg(i, l) => request[l] = None
          /\ \A i, j \in DOMAIN inbox : SetMsg(i, l) /\ SetMsg(j, l) => i = j
      BY DEF IInv, SetInv
    <2>2. /\ (\E i \in DOMAIN inbox' : SetMsg(i, l)') <=> \E i \in DOMAIN inbox : SetMsg(i, l)
          /\ \A i, j \in DOMAIN inbox' : SetMsg(i, l)' /\ SetMsg(j, l)' => i = j
      BY <1>1, <2>1, OthersAnswered
    <2> QED
      BY <2>1, <2>2
  <1>4. \A f \in Fields : Pending(f) => Pending(f)'
    BY <1>1, OthersAnswered DEF Pending
  <1> QED
    BY <1>1, <1>2, <1>3, <1>4

LEMMA EffectStep ==
    ASSUME IInv, Effect
    PROVE  IInv'
  <1>1. /\ Ask
        /\ IF \E i \in DOMAIN inbox : ReadMsg(i)
           THEN \E i \in DOMAIN inbox : ReadMsg(i) /\ inbox' = RemoveAt(inbox, i)
           ELSE UNCHANGED inbox
        /\ UNCHANGED <<store, names, lock, request, styles, confirmed, saving, draft, base,
                       busy, work, failed, todo, kept, typed, foreign, unseen>>
    BY DEF Effect, editing, others, ReadMsg
  <1>2. CASE ~\E i \in DOMAIN inbox : ReadMsg(i)
    BY <1>1, <1>2, AskedStep
  <1>3. CASE \E i \in DOMAIN inbox : ReadMsg(i)
    <2>1. PICK k \in DOMAIN inbox : ReadMsg(k) /\ inbox' = RemoveAt(inbox, k)
      BY <1>1, <1>3
    <2>2. inbox' \in Seq(Messages) /\ \E was, is : Moved(k, was, is)
      BY <2>1, Removed DEF IInv
    <2>3. PICK was, is : Moved(k, was, is)
      BY <2>2
    <2>4. reader' = Waiting /\ read' = "asked" /\ stale' = (saving # {})
      BY <1>1 DEF Ask
    <2>5. /\ ~Shows(k) /\ \A i \in DOMAIN inbox' : ~ReadMsg(i)'
          /\ SetInv' /\ \A f \in Fields : Pending(f) => Pending(f)'
      BY <1>1, <2>1, <2>3, ReadDropped
    <2>6. TypeOK'
      BY <1>1, <2>2, <2>4 DEF IInv, TypeOK
    <2>7. LockInv' /\ BusyInv' /\ ShownInv'
      BY <1>1, LockKept, BusyKept, ShownKept DEF IInv
    <2>8. ReadInv'
      BY <1>1, <2>4, <2>5, NoneIs DEF ReadInv
    <2>9. FreshInv'
      BY <2>4, <2>5, NoneIs DEF FreshInv
    <2>10. ViewInv'
      <3>1. View(Lamps \ foreign)'
        <4>1. View(Lamps \ foreign)
          BY DEF IInv, ViewInv
        <4>2. PICK some : some = Lamps \ foreign /\ some = Lamps \ foreign'
          BY <1>1
        <4>3. View(some)'
          BY <1>1, <2>3, <2>5, <4>1, <4>2, Dropped
        <4> QED
          BY <4>2, <4>3
      <3> QED
        BY <2>4, <3>1 DEF ViewInv
    <2>11. SameInv' /\ DoneInv'
      BY <1>1, <2>5, SameKept, DoneKept DEF IInv, ServerHas
    <2> QED
      BY <2>5, <2>6, <2>7, <2>8, <2>9, <2>10, <2>11 DEF IInv
  <1> QED
    BY <1>2, <1>3

\* What is taken over is what is stored: no save is under way, and none has overlapped the read.
LEMMA ReadArrivesStep ==
    ASSUME IInv, ReadArrives
    PROVE  IInv'
  <1>1. /\ inbox # <<>> /\ Head(inbox).kind = "read" /\ inbox' = Tail(inbox)
        /\ IF Head(inbox).types = None \/ stale \/ saving # {}
           THEN read' = "timer" /\ UNCHANGED <<styles, confirmed>>
           ELSE read' = "idle" /\ styles' = Head(inbox).types /\ confirmed' = styles'
        /\ UNCHANGED <<store, names, lock, request, reader, saving, stale, draft, base,
                       busy, work, failed, todo, kept, typed, foreign, unseen>>
    BY DEF ReadArrives, server, editing, others
  <1>2. /\ 1 \in DOMAIN inbox /\ Head(inbox) = inbox[1] /\ Head(inbox) \in Messages
        /\ inbox' \in Seq(Messages) /\ \E was, is : Moved(1, was, is)
    BY <1>1, Taken DEF IInv
  <1>3. PICK k \in DOMAIN inbox : k = 1 /\ Head(inbox) = inbox[k]
    BY <1>2
  <1>4. PICK was, is : Moved(k, was, is)
    BY <1>2, <1>3
  <1>5. ReadMsg(k) /\ inbox[k].types \in Types \cup {None}
    BY <1>1, <1>2, <1>3, MessagesAre DEF ReadMsg
  <1>6. /\ ~Shows(k) /\ \A i \in DOMAIN inbox' : ~ReadMsg(i)'
        /\ SetInv' /\ \A f \in Fields : Pending(f) => Pending(f)'
    BY <1>1, <1>4, <1>5, ReadDropped
  <1>7. reader = None /\ reader' = None
    BY <1>1, <1>5 DEF IInv, ReadInv
  <1>8. LockInv' /\ BusyInv'
    BY <1>1, LockKept, BusyKept DEF IInv
  <1>9. ReadInv'
    BY <1>1, <1>6, <1>7 DEF IInv, ReadInv
  <1>10. FreshInv'
    BY <1>6, <1>7, NoneIs DEF FreshInv
  <1>11. SameInv' /\ DoneInv'
    BY <1>1, <1>6, SameKept, DoneKept DEF IInv, ServerHas
  <1>12. CASE inbox[k].types = None \/ stale \/ saving # {}
    <2>1. read' = "timer" /\ UNCHANGED <<styles, confirmed>>
      BY <1>1, <1>3, <1>12
    <2>2. TypeOK'
      BY <1>1, <1>2, <2>1 DEF IInv, TypeOK
    <2>3. ShownInv'
      BY <1>1, <2>1, ShownKept DEF IInv
    <2>4. View(Lamps \ foreign)'
      <3>1. View(Lamps \ foreign)
        BY DEF IInv, ViewInv
      <3>2. PICK some : some = Lamps \ foreign /\ some = Lamps \ foreign'
        BY <1>1
      <3>3. View(some)'
        BY <1>1, <1>4, <1>6, <2>1, <3>1, <3>2, Dropped
      <3> QED
        BY <3>2, <3>3
    <2>5. ViewInv'
      BY <2>1, <2>4 DEF ViewInv
    <2> QED
      BY <1>6, <1>8, <1>9, <1>10, <1>11, <2>2, <2>3, <2>5 DEF IInv
  <1>13. CASE inbox[k].types # None /\ ~stale /\ saving = {}
    <2>1. read' = "idle" /\ styles' = inbox[k].types /\ confirmed' = inbox[k].types
      BY <1>1, <1>3, <1>13
    <2>2. TypeOK'
      BY <1>1, <1>2, <1>5, <1>13, <2>1 DEF IInv, TypeOK
    <2>3. ShownInv'
      BY <2>1 DEF ShownInv
    <2>4. Fresh(inbox[k].types)
      BY <1>5, <1>13 DEF IInv, FreshInv
    <2>5. \A i \in DOMAIN inbox' : ~Shows(i)'
      <3>1. \A l \in Lamps, i \in DOMAIN inbox' : ~SetMsg(i, l)'
        BY <1>1, <1>6, <1>13 DEF SetInv
      <3>2. \A i \in DOMAIN inbox' : inbox'[i] \in Messages
        BY <1>2
      <3> QED
        BY <3>1, <3>2, MessagesAre DEF SetMsg, Shows
    <2>6. ViewInv'
      BY <1>1, <2>1, <2>4, <2>5 DEF ViewInv, View, Fresh
    <2> QED
      BY <1>6, <1>8, <1>9, <1>10, <1>11, <2>2, <2>3, <2>6 DEF IInv
  <1> QED
    BY <1>12, <1>13

-----------------------------------------------------------------------------
(* Edit mode. *)

\* No save is under way when an edit starts, so the dashboard shows what is stored.
LEMMA StartEditStep ==
    ASSUME IInv, StartEdit
    PROVE  IInv'
  <1>1. /\ draft = None /\ base' = [f \in Fields |-> IF f \in Lamps THEN styles[f] ELSE names[f]]
        /\ draft' = base' /\ kept' = {} /\ typed' = {}
        /\ UNCHANGED <<store, names, lock, request, reader, inbox, styles, confirmed, saving, read, stale,
                       busy, work, failed, todo, foreign, unseen>>
    BY DEF StartEdit, server, shown, reading, others
  <1>2. ~busy /\ saving = {} /\ todo = <<>>
    BY <1>1 DEF IInv, BusyInv
  <1>3. base' \in [Fields -> Values] /\ base' # None
    <2>1. base' \in [Fields -> Values]
      BY <1>1 DEF IInv, TypeOK, Types, Fields
    <2> QED
      BY <2>1, NoneIs
  <1>4. TypeOK'
    BY <1>1, <1>3 DEF IInv, TypeOK
  <1>5. LockInv' /\ ReadInv' /\ ShownInv'
    BY <1>1, LockKept, ReadKept, ShownKept DEF IInv
  <1>6. SetInv' /\ FreshInv' /\ ViewInv'
    BY <1>1, SetKept, FreshKept, ViewKept DEF IInv
  <1>7. BusyInv'
    BY <1>1, <1>2, <1>3 DEF BusyInv
  <1>8. \A l \in Lamps \ foreign : styles[l] = store[l]
    <2>1. \A i \in DOMAIN inbox : inbox[i] \in Messages
      BY DEF IInv, TypeOK
    <2>2. \A l \in Lamps, i \in DOMAIN inbox : ~SetMsg(i, l)
      BY <1>2 DEF IInv, SetInv
    <2>3. \A i \in DOMAIN inbox : ~Shows(i)
      BY <2>1, <2>2, MessagesAre DEF SetMsg, Shows
    <2> QED
      BY <1>2, <2>3 DEF IInv, ViewInv, View, ShownInv
  <1>9. SameInv'
    BY <1>1, <1>8 DEF SameInv, ServerHas, Fields
  <1>10. DoneInv'
    BY <1>1, <1>2 DEF DoneInv
  <1> QED
    BY <1>4, <1>5, <1>6, <1>7, <1>9, <1>10 DEF IInv

LEMMA PatchStep ==
    ASSUME IInv, NEW f \in Fields, NEW v \in Values, Patch(f, v)
    PROVE  IInv'
  <1>1. /\ draft # None /\ draft' = [draft EXCEPT ![f] = v]
        /\ typed' = IF busy THEN typed \cup {f} ELSE typed
        /\ UNCHANGED <<store, names, lock, request, reader, inbox, styles, confirmed, saving, read, stale,
                       base, busy, work, failed, todo, kept, foreign, unseen>>
    BY DEF Patch, server, shown, reading, others
  <1>2. draft \in [Fields -> Values] /\ draft' \in [Fields -> Values] /\ draft' # None
    <2>1. draft \in [Fields -> Values] /\ draft' \in [Fields -> Values]
      BY <1>1 DEF IInv, TypeOK
    <2> QED
      BY <2>1, NoneIs
  <1>3. \A g \in Fields : g # f => draft'[g] = draft[g]
    BY <1>1, <1>2
  <1>4. TypeOK'
    BY <1>1, <1>2 DEF IInv, TypeOK
  <1>5. LockInv' /\ ReadInv' /\ ShownInv'
    BY <1>1, LockKept, ReadKept, ShownKept DEF IInv
  <1>6. SetInv' /\ FreshInv' /\ ViewInv'
    BY <1>1, SetKept, FreshKept, ViewKept DEF IInv
  <1>7. BusyInv'
    <2>1. busy' => \A g \in Fields \ typed' : draft'[g] = work'[g]
      BY <1>1, <1>3 DEF IInv, BusyInv
    <2> QED
      BY <2>1, <1>1, <1>2 DEF IInv, BusyInv
  <1>8. SameInv'
    BY <1>1 DEF IInv, SameInv, Changed, ServerHas
  <1>9. DoneInv'
    <2>1. \A g \in Fields : Pending(g) => Pending(g)'
      BY <1>1, PendingKept
    <2> QED
      BY <2>1, <1>1, DoneKept DEF IInv, ServerHas
  <1> QED
    BY <1>4, <1>5, <1>6, <1>7, <1>8, <1>9 DEF IInv

LEMMA CancelEditStep ==
    ASSUME IInv, CancelEdit
    PROVE  IInv'
  <1>1. /\ ~busy /\ draft' = None /\ base' = None
        /\ UNCHANGED <<store, names, lock, request, reader, inbox, styles, confirmed, saving, read, stale,
                       busy, work, failed, todo, kept, typed, foreign, unseen>>
    BY DEF CancelEdit, server, shown, reading, others
  <1>2. TypeOK'
    BY <1>1 DEF IInv, TypeOK
  <1>3. LockInv' /\ ReadInv' /\ ShownInv'
    BY <1>1, LockKept, ReadKept, ShownKept DEF IInv
  <1>4. SetInv' /\ FreshInv' /\ ViewInv'
    BY <1>1, SetKept, FreshKept, ViewKept DEF IInv
  <1>5. BusyInv'
    BY <1>1 DEF IInv, BusyInv
  <1>6. SameInv' /\ DoneInv'
    BY <1>1 DEF SameInv, DoneInv
  <1> QED
    BY <1>2, <1>3, <1>4, <1>5, <1>6 DEF IInv

\* All fields that differ are sent; nothing was under way before.
LEMMA SaveStep ==
    ASSUME IInv, Save
    PROVE  IInv'
  <1> DEFINE changed == {f \in Fields : draft[f] # base[f]}
             lamps == changed \cap Lamps
  <1>1. /\ draft # None /\ ~busy /\ busy' = TRUE /\ work' = draft /\ failed' = FALSE
        /\ saving' = lamps
        /\ request' = [r \in DOMAIN request |-> IF r \in lamps THEN Waiting ELSE request[r]]
        /\ styles' = [l \in Lamps |-> IF l \in lamps THEN draft[l] ELSE styles[l]]
        /\ stale' = (stale \/ lamps # {})
        /\ todo' = SetToSeq(changed \cap Names)
        /\ UNCHANGED <<store, names, lock, reader, inbox, confirmed, read, draft, base, kept,
                       typed, foreign, unseen>>
    BY DEF Save, others
  <1>2. PICK ls, ns : ls = lamps /\ ns = changed \cap Names
    OBVIOUS
  <1>3. /\ ls \subseteq Lamps /\ ns \subseteq Names
        /\ \A l \in Lamps : l \in ls <=> draft[l] # base[l]
        /\ \A n \in Names : n \in ns <=> draft[n] # base[n]
    BY <1>2 DEF Fields
  <1> HIDE DEF changed, lamps
  <1>4. /\ saving' = ls /\ stale' = (stale \/ ls # {}) /\ todo' = SetToSeq(ns)
        /\ request' = [r \in DOMAIN request |-> IF r \in ls THEN Waiting ELSE request[r]]
        /\ styles' = [l \in Lamps |-> IF l \in ls THEN draft[l] ELSE styles[l]]
    BY <1>1, <1>2
  <1>5. saving = {} /\ draft \in [Fields -> Values]
    BY <1>1 DEF IInv, BusyInv, TypeOK
  <1>6. todo' \in Seq(Names) /\ Range(todo') = ns
    BY <1>3, <1>4, ToDo
  <1>7. /\ \A i \in DOMAIN todo' : todo'[i] \in ns
        /\ \A n \in ns : \E j \in DOMAIN todo' : todo'[j] = n
    BY <1>6 DEF Range
  <1>8. \A l \in Lamps : request[l] = None /\ \A i \in DOMAIN inbox : ~SetMsg(i, l)
    BY <1>5 DEF IInv, SetInv
  <1>9. /\ request \in [Askers -> {None, Waiting} \cup Types]
        /\ request' \in [Askers -> {None, Waiting} \cup Types]
        /\ \A r \in Askers : request'[r] = IF r \in ls THEN Waiting ELSE request[r]
    <2>1. request \in [Askers -> {None, Waiting} \cup Types]
      BY DEF IInv, TypeOK, Askers
    <2> QED
      BY <2>1, <1>4
  <1>10. styles' \in Types
    BY <1>3, <1>4, <1>5 DEF IInv, TypeOK, Types, Fields
  <1>11. TypeOK'
    BY <1>1, <1>3, <1>4, <1>6, <1>9, <1>10 DEF IInv, TypeOK, Askers
  <1>12. LockInv'
    BY <1>1, <1>3, <1>8, <1>9, NoneIs DEF IInv, LockInv, Askers
  <1>13. BusyInv'
    BY <1>1, <1>3, <1>4, <1>7 DEF IInv, BusyInv
  <1>14. SetInv'
    BY <1>1, <1>3, <1>4, <1>8, <1>9, NoneIs DEF SetInv, SetMsg, Askers
  <1>15. ReadInv'
    BY <1>1, <1>4 DEF IInv, ReadInv, ReadMsg
  <1>16. FreshInv'
    BY <1>1, <1>4 DEF IInv, FreshInv, Fresh, ReadMsg
  <1>17. ViewInv'
    BY <1>1, ViewKept DEF IInv
  <1>18. ShownInv'
    BY <1>1, <1>4, <1>5 DEF IInv, ShownInv
  <1>19. SameInv'
    BY <1>1 DEF IInv, SameInv, ServerHas
  <1>20. DoneInv'
    <2>1. \A f \in Fields : Changed(f)' => Pending(f)'
      BY <1>1, <1>3, <1>7, <1>9, NoneIs DEF Changed, Pending, Fields, Askers
    <2> QED
      BY <2>1 DEF DoneInv
  <1> QED
    BY <1>11, <1>12, <1>13, <1>14, <1>15, <1>16, <1>17, <1>18, <1>19, <1>20 DEF IInv

\* The first message that shows something is taken over: the last one still decides, if another is
\* left, and otherwise it was the last.
LEMMA TakenOver ==
    ASSUME NEW k \in DOMAIN inbox, Shows(k), \A i \in DOMAIN inbox : (i = k \/ i > k) /\ ~(k > i),
           NEW was, NEW is, Moved(k, was, is), UNCHANGED store, confirmed' = inbox[k].types,
           NEW some, View(some)
    PROVE  View(some)'
  <1>1. /\ \A i \in DOMAIN inbox' : was[i] \in DOMAIN inbox \ {k} /\ inbox'[i] = inbox[was[i]]
        /\ \A i \in DOMAIN inbox \ {k} : is[i] \in DOMAIN inbox' /\ was[is[i]] = i
        /\ \A i, j \in DOMAIN inbox' : i > j <=> was[i] > was[j]
    BY DEF Moved
  <1>2. \A i \in DOMAIN inbox' : Shows(i)' <=> Shows(was[i])
    BY <1>1 DEF Shows
  <1>3. ASSUME NEW i \in DOMAIN inbox', Shows(i)', \A j \in DOMAIN inbox' : j > i => ~Shows(j)',
               NEW l \in some
        PROVE  inbox'[i].types[l] = store[l]
    <2>1. was[i] \in DOMAIN inbox \ {k} /\ Shows(was[i])
      BY <1>1, <1>2, <1>3
    <2>2. ASSUME NEW j \in DOMAIN inbox \ {k}, j > was[i], Shows(j)
          PROVE  FALSE
      <3>1. is[j] \in DOMAIN inbox' /\ was[is[j]] = j
        BY <1>1
      <3>2. is[j] > i /\ Shows(is[j])'
        BY <3>1, <1>1, <1>2, <2>2
      <3> QED
        BY <3>1, <3>2, <1>3
    <2>3. ~(k > was[i])
      BY <2>1
    <2>4. \A j \in DOMAIN inbox : j > was[i] => ~Shows(j)
      BY <2>2, <2>3
    <2> QED
      BY <1>1, <2>1, <2>4 DEF View
  <1>4. ASSUME \A i \in DOMAIN inbox' : ~Shows(i)', NEW l \in some
        PROVE  confirmed'[l] = store[l]
    <2>1. \A j \in DOMAIN inbox \ {k} : ~Shows(j)
      BY <1>1, <1>2, <1>4
    <2>2. \A j \in DOMAIN inbox : j > k => ~Shows(j)
      BY <2>1
    <2> QED
      BY <2>2 DEF View
  <1> QED
    BY <1>3, <1>4 DEF View

\* The one answer about a lamp ends its save; a lamp that was not saved goes back.
LEMMA SetAnsweredStep ==
    ASSUME IInv, SetAnswered
    PROVE  IInv'
  <1>1. /\ inbox # <<>> /\ Head(inbox).kind = "set" /\ inbox' = Tail(inbox)
        /\ saving' = saving \ {Head(inbox).lamp}
        /\ IF Head(inbox).types # None
           THEN styles' = Head(inbox).types /\ confirmed' = Head(inbox).types /\ UNCHANGED failed
           ELSE /\ failed' = TRUE
                /\ styles' = [styles EXCEPT ![Head(inbox).lamp] = confirmed[Head(inbox).lamp]]
                /\ UNCHANGED confirmed
        /\ UNCHANGED <<store, names, lock, request, reader, read, stale, draft, base, busy, work, todo,
                       kept, typed, foreign, unseen>>
    BY DEF SetAnswered, server, reading, others
  <1>2. /\ 1 \in DOMAIN inbox /\ Head(inbox) = inbox[1] /\ Head(inbox) \in Messages
        /\ \A i \in DOMAIN inbox : (i = 1 \/ i > 1) /\ ~(1 > i)
        /\ inbox' \in Seq(Messages) /\ \E was, is : Moved(1, was, is)
    BY <1>1, Taken DEF IInv
  <1>3. PICK k \in DOMAIN inbox : k = 1 /\ Head(inbox) = inbox[k]
    BY <1>2
  <1>4. PICK was, is : Moved(k, was, is)
    BY <1>2, <1>3
  <1>5. PICK l \in Lamps : l = inbox[k].lamp
    BY <1>1, <1>2, <1>3, MessagesAre
  <1>6. SetMsg(k, l) /\ ~ReadMsg(k) /\ saving' = saving \ {l} /\ inbox[k].types \in Types \cup {None}
    BY <1>1, <1>2, <1>3, <1>5, MessagesAre DEF SetMsg, ReadMsg
  <1>7. /\ l \in saving /\ request[l] = None /\ \A i \in DOMAIN inbox : SetMsg(i, l) => i = k
        /\ stale
    <2>1. l \in saving /\ request[l] = None /\ \A i \in DOMAIN inbox : SetMsg(i, l) => i = k
      BY <1>6 DEF IInv, SetInv
    <2> QED
      BY <2>1 DEF IInv, ReadInv
  <1>8. /\ \A i \in DOMAIN inbox' : was[i] \in DOMAIN inbox \ {k} /\ inbox'[i] = inbox[was[i]] /\ is[was[i]] = i
        /\ \A i \in DOMAIN inbox \ {k} : is[i] \in DOMAIN inbox' /\ was[is[i]] = i
    BY <1>4 DEF Moved
  <1>9. \A i \in DOMAIN inbox' : ~SetMsg(i, l)'
    BY <1>7, <1>8 DEF SetMsg
  <1>10. \A m \in Lamps : m # l => ~SetMsg(k, m)
    BY <1>6 DEF SetMsg
  <1>11. TypeOK'
    <2>1. styles' \in Types /\ confirmed' \in Types /\ failed' \in BOOLEAN
      <3>1. CASE Head(inbox).types # None
        BY <3>1, <1>1, <1>3, <1>6 DEF IInv, TypeOK
      <3>2. CASE Head(inbox).types = None
        BY <3>2, <1>1, <1>3, <1>5 DEF IInv, TypeOK, Types
      <3> QED
        BY <3>1, <3>2
    <2> QED
      BY <2>1, <1>1, <1>2, <1>6 DEF IInv, TypeOK
  <1>12. LockInv'
    BY <1>1, LockKept DEF IInv
  <1>13. BusyInv'
    BY <1>1, <1>6, <1>7 DEF IInv, BusyInv
  <1>14. SetInv'
    <2> SUFFICES ASSUME NEW m \in Lamps
                 PROVE  /\ m \in saving' <=> request'[m] # None \/ \E i \in DOMAIN inbox' : SetMsg(i, m)'
                        /\ \A i \in DOMAIN inbox' : SetMsg(i, m)' =>
                              request'[m] = None /\ \A j \in DOMAIN inbox' : SetMsg(j, m)' => i = j
      BY DEF SetInv
    <2>1. CASE m = l
      BY <2>1, <1>1, <1>6, <1>7, <1>9
    <2>2. CASE m # l
      <3>1. /\ m \in saving <=> request[m] # None \/ \E i \in DOMAIN inbox : SetMsg(i, m)
            /\ \A i \in DOMAIN inbox : SetMsg(i, m) => request[m] = None
            /\ \A i, j \in DOMAIN inbox : SetMsg(i, m) /\ SetMsg(j, m) => i = j
        BY DEF IInv, SetInv
      <3>2. /\ (\E i \in DOMAIN inbox' : SetMsg(i, m)') <=> \E i \in DOMAIN inbox : SetMsg(i, m)
            /\ \A i, j \in DOMAIN inbox' : SetMsg(i, m)' /\ SetMsg(j, m)' => i = j
        BY <2>2, <3>1, <1>4, <1>10, OthersAnswered
      <3> QED
        BY <2>2, <3>1, <3>2, <1>1, <1>6
    <2> QED
      BY <2>1, <2>2
  <1>15. ReadInv'
    <2>1. \A i \in DOMAIN inbox' : ReadMsg(i)' <=> ReadMsg(was[i])
      BY <1>8 DEF ReadMsg
    <2>2. (\E i \in DOMAIN inbox' : ReadMsg(i)') <=> \E i \in DOMAIN inbox : ReadMsg(i)
      BY <2>1, <1>6, <1>8
    <2>3. \A i \in DOMAIN inbox' : ReadMsg(i)' => reader = None /\ \A j \in DOMAIN inbox' : ReadMsg(j)' => i = j
      BY <2>1, <1>8 DEF IInv, ReadInv
    <2> QED
      BY <2>2, <2>3, <1>1, <1>7 DEF IInv, ReadInv
  <1>16. FreshInv'
    BY <1>1, <1>7 DEF FreshInv
  <1>17. SameInv'
    BY <1>1, SameKept DEF IInv, ServerHas
  <1>18. CASE inbox[k].types # None
    <2>1. styles' = inbox[k].types /\ confirmed' = inbox[k].types /\ UNCHANGED failed
      BY <1>1, <1>3, <1>18
    <2>2. ShownInv'
      BY <2>1 DEF ShownInv
    <2>3. Shows(k)
      BY <1>6, <1>18 DEF Shows, SetMsg
    <2>4. \A some : View(some) => View(some)'
      <3>1. \A i \in DOMAIN inbox : (i = k \/ i > k) /\ ~(k > i)
        BY <1>2, <1>3
      <3> QED
        BY <3>1, <2>1, <2>3, <1>1, <1>4, TakenOver
    <2>5. ViewInv'
      BY <2>4, <1>1 DEF IInv, ViewInv
    <2>6. DoneInv'
      <3>1. ~Pending(l)
        BY <1>7, <1>18, NoneIs DEF Pending
      <3>2. \A f \in Fields : f # l /\ Pending(f) => Pending(f)'
        BY <1>1, <1>4, <1>10, OthersAnswered DEF Pending
      <3> QED
        BY <3>1, <3>2, <2>1, <1>1, DoneKept DEF IInv, ServerHas
    <2> QED
      BY <1>11, <1>12, <1>13, <1>14, <1>15, <1>16, <1>17, <2>2, <2>5, <2>6 DEF IInv
  <1>19. CASE inbox[k].types = None
    <2>1. failed' = TRUE /\ styles' = [styles EXCEPT ![l] = confirmed[l]] /\ UNCHANGED confirmed
      BY <1>1, <1>3, <1>5, <1>19
    <2>2. ShownInv'
      BY <2>1, <1>6 DEF IInv, ShownInv, TypeOK, Types
    <2>3. ~Shows(k)
      BY <1>19 DEF Shows
    <2>4. \A some : View(some) => View(some)'
      BY <2>1, <2>3, <1>1, <1>4, Dropped
    <2>5. ViewInv'
      BY <2>4, <1>1 DEF IInv, ViewInv
    <2>6. DoneInv'
      BY <2>1 DEF DoneInv
    <2> QED
      BY <1>11, <1>12, <1>13, <1>14, <1>15, <1>16, <1>17, <2>2, <2>5, <2>6 DEF IInv
  <1> QED
    BY <1>18, <1>19

LEMMA RenameStep ==
    ASSUME IInv, Rename
    PROVE  IInv'
  <1>1. /\ busy /\ saving = {} /\ todo # <<>> /\ todo' = Tail(todo)
        /\ \/ /\ names' = [names EXCEPT ![Head(todo)] = work[Head(todo)]]
              /\ foreign' = foreign \ {Head(todo)} /\ UNCHANGED failed
           \/ failed' = TRUE /\ UNCHANGED <<names, foreign>>
        /\ UNCHANGED <<store, lock, request, reader, inbox, styles, confirmed, saving, read, stale, draft,
                       base, busy, work, kept, typed, unseen>>
    BY DEF Rename, shown, reading
  <1>2. /\ Len(todo) \in Nat \ {0} /\ DOMAIN todo = 1..Len(todo) /\ Head(todo) = todo[1] /\ Head(todo) \in Names
        /\ todo' \in Seq(Names) /\ Len(todo') = Len(todo) - 1
        /\ \A i \in 1..Len(todo') : todo'[i] = todo[i + 1]
    BY <1>1, EmptySeq, HeadTailProperties DEF IInv, TypeOK
  <1>3. PICK n \in Names : n = Head(todo) /\ n = todo[1]
    BY <1>2
  <1>4. /\ \A i \in DOMAIN todo' : \E j \in DOMAIN todo : todo'[i] = todo[j]
        /\ \A j \in DOMAIN todo : todo[j] = n \/ \E i \in DOMAIN todo' : todo'[i] = todo[j]
    <2>1. DOMAIN todo' = 1..(Len(todo) - 1)
      BY <1>2
    <2>2. \A i \in DOMAIN todo' : i + 1 \in DOMAIN todo /\ todo'[i] = todo[i + 1]
      BY <2>1, <1>2
    <2>3. \A j \in DOMAIN todo : j = 1 \/ (j - 1 \in DOMAIN todo' /\ (j - 1) + 1 = j)
      BY <2>1, <1>2
    <2> QED
      BY <2>2, <2>3, <1>3
  <1>5. work \in [Fields -> Values] /\ work[n] \in Values /\ Changed(n) /\ n \notin Lamps
    <2>1. work \in [Fields -> Values]
      BY <1>1 DEF IInv, BusyInv, TypeOK
    <2>2. 1 \in DOMAIN todo
      BY <1>2
    <2>3. Changed(n)
      BY <2>2, <1>3 DEF IInv, BusyInv, Changed
    <2> QED
      BY <2>1, <2>3, NoneIs DEF Fields
  <1>6. \/ /\ names' = [names EXCEPT ![n] = work[n]]
           /\ foreign' = foreign \ {n} /\ UNCHANGED failed
        \/ failed' = TRUE /\ UNCHANGED <<names, foreign>>
    BY <1>1, <1>3
  <1>7. TypeOK'
    <2>1. names' \in [Names -> Values] /\ foreign' \subseteq Fields /\ failed' \in BOOLEAN
      BY <1>5, <1>6 DEF IInv, TypeOK
    <2> QED
      BY <2>1, <1>1, <1>2 DEF IInv, TypeOK
  <1>8. \A l \in Lamps : l \in foreign <=> l \in foreign'
    BY <1>5, <1>6
  <1>9. LockInv' /\ SetInv' /\ ReadInv' /\ FreshInv' /\ ViewInv' /\ ShownInv'
    BY <1>1, <1>8, LockKept, SetKept, ReadKept, FreshKept, ViewKept, ShownKept DEF IInv
  <1>10. BusyInv'
    BY <1>1, <1>4 DEF IInv, BusyInv
  <1>11. \A f \in Fields \ foreign' : f # n => f \notin foreign /\ ServerHas(f)' = ServerHas(f)
    BY <1>1, <1>6 DEF IInv, TypeOK, ServerHas, Fields
  <1>12. SameInv'
    BY <1>1, <1>5, <1>11 DEF IInv, SameInv, Changed
  <1>13. DoneInv'
    <2>1. CASE failed' = TRUE
      BY <2>1 DEF DoneInv
    <2>2. CASE names' = [names EXCEPT ![n] = work[n]] /\ UNCHANGED failed
      <3>1. ServerHas(n)' = work'[n]
        BY <2>2, <1>1, <1>5 DEF IInv, TypeOK, ServerHas
      <3>2. \A f \in Fields : f # n /\ Pending(f) => Pending(f)'
        BY <1>1, <1>4 DEF Pending, SetMsg
      <3> QED
        BY <2>2, <3>1, <3>2, <1>1, <1>11 DEF IInv, DoneInv, Changed
    <2> QED
      BY <2>1, <2>2, <1>6
  <1> QED
    BY <1>7, <1>9, <1>10, <1>12, <1>13 DEF IInv

LEMMA FinishStep ==
    ASSUME IInv, Finish
    PROVE  IInv'
  <1>1. /\ busy /\ saving = {} /\ todo = <<>> /\ busy' = FALSE /\ work' = None
        /\ IF failed
           THEN /\ kept' = kept \cup {f \in Fields : work[f] # base[f]} /\ typed' = {}
                /\ UNCHANGED <<draft, base>>
           ELSE draft' = None /\ base' = None /\ UNCHANGED <<kept, typed>>
        /\ UNCHANGED <<store, names, lock, request, reader, inbox, styles, confirmed, saving, read, stale,
                       failed, todo, foreign, unseen>>
    BY DEF Finish, server, shown, reading, others
  <1>2. TypeOK'
    BY <1>1 DEF IInv, TypeOK
  <1>3. LockInv' /\ SetInv' /\ ReadInv' /\ FreshInv' /\ ViewInv' /\ ShownInv'
    BY <1>1, LockKept, SetKept, ReadKept, FreshKept, ViewKept, ShownKept DEF IInv
  <1>4. BusyInv'
    BY <1>1 DEF IInv, BusyInv
  <1>5. SameInv'
    BY <1>1 DEF IInv, SameInv, Changed, ServerHas
  <1>6. DoneInv'
    BY <1>1 DEF DoneInv
  <1> QED
    BY <1>2, <1>3, <1>4, <1>5, <1>6 DEF IInv

LEMMA NextStep == IInv /\ [Next]_vars => IInv'
  <1> SUFFICES ASSUME IInv, [Next]_vars PROVE IInv'
    OBVIOUS
  <1>1. CASE UNCHANGED vars
    <2>1. UNCHANGED <<store, names, lock, request, reader, inbox, styles, confirmed, saving, read, stale,
                      draft, base, busy, work, failed, todo, kept, typed, foreign, unseen>>
      BY <1>1 DEF vars, server, shown, reading, editing, others
    <2>2. TypeOK'
      BY <2>1 DEF IInv, TypeOK
    <2>3. LockInv' /\ BusyInv' /\ SetInv' /\ ReadInv' /\ FreshInv' /\ ViewInv' /\ ShownInv'
      BY <2>1, LockKept, BusyKept, SetKept, ReadKept, FreshKept, ViewKept, ShownKept DEF IInv
    <2>4. SameInv' /\ DoneInv'
      BY <2>1, PendingKept, SameKept, DoneKept DEF IInv, ServerHas
    <2> QED
      BY <2>2, <2>3, <2>4 DEF IInv
  <1>2. CASE \E r \in Lamps \cup {Other} : SetLoads(r)
    BY <1>2, SetLoadsStep DEF Askers
  <1>3. CASE \E l \in Lamps : SetSaves(l) \/ SetFails(l)
    BY <1>3, SetSavesStep, SetFailsStep
  <1>4. CASE OtherSets \/ OtherSaves \/ OtherRenames
    BY <1>4, OtherSetsStep, OtherSavesStep, OtherRenamesStep
  <1>5. CASE ReadLoads \/ ReadAnswers \/ ReadFails
    BY <1>5, ReadLoadsStep, ReadAnswersStep, ReadFailsStep
  <1>6. CASE Effect \/ TimerFires \/ ReadArrives
    BY <1>6, EffectStep, TimerFiresStep, ReadArrivesStep
  <1>7. CASE StartEdit \/ CancelEdit \/ Save
    BY <1>7, StartEditStep, CancelEditStep, SaveStep
  <1>8. CASE \E f \in Fields, v \in Values : Patch(f, v)
    BY <1>8, PatchStep
  <1>9. CASE SetAnswered \/ Rename \/ Finish
    BY <1>9, SetAnsweredStep, RenameStep, FinishStep
  <1> QED
    BY <1>1, <1>2, <1>3, <1>4, <1>5, <1>6, <1>7, <1>8, <1>9 DEF Next

-----------------------------------------------------------------------------
(* The theorems. *)

\* The invariant that the others rest on (App.tsx's Lights, room_ws.py).
THEOREM Reachable == Spec => []IInv
  BY InitIInv, NextStep, PTL DEF Spec

\* Every variable has its type: requests, answers and what is shown (loadStyles, setStyle).
THEOREM TypeCorrect == Spec => []TypeOK
  <1>1. IInv => TypeOK
    BY DEF IInv
  <1> QED
    BY <1>1, Reachable, PTL

\* Whatever reads, saves, failures and other dashboards overlap: once nothing is being saved or
\* read, a lamp is drawn as the type that is stored, unless somebody else has set it since the
\* types were last loaded (loadStyles, setStyle).
THEOREM ShownAsStored == Spec => []StylesSettle
  <1>1. IInv => StylesSettle
    <2> SUFFICES ASSUME IInv, Quiet, NEW l \in Lamps \ unseen
                 PROVE  styles[l] = store[l]
      BY DEF StylesSettle
    <2>1. saving = {} /\ read = "idle"
      BY DEF Quiet
    <2>2. \A i \in DOMAIN inbox : inbox[i] \in Messages
      BY DEF IInv, TypeOK
    <2>3. \A k \in Lamps, i \in DOMAIN inbox : ~SetMsg(i, k)
      BY <2>1 DEF IInv, SetInv
    <2>4. \A i \in DOMAIN inbox : ~Shows(i)
      BY <2>2, <2>3, MessagesAre DEF SetMsg, Shows
    <2> QED
      BY <2>1, <2>4 DEF IInv, ViewInv, View, ShownInv
  <1> QED
    BY <1>1, Reachable, PTL

\* A request to set a lamp's type changes that type only: what it loaded is still what is stored
\* when it saves (ws_styles_set's lock).
THEOREM NoneUndone == Spec => NoTypeUndone
  <1>1. ASSUME IInv, [Next]_vars, NEW l \in Lamps, NEW k \in Lamps,
               store'[l] # store[l], store'[k] # store[k]
        PROVE  l = k
    <2>1. ASSUME NEW r \in Askers, NEW m \in Lamps, NEW v \in Values, Saves(r, m, v)
          PROVE  l = k
      BY <1>1, <2>1, Saved
    <2>2. ASSUME NEW m \in Lamps, SetSaves(m)
          PROVE  l = k
      <3>1. Saves(m, m, work[m])
        BY <2>2 DEF SetSaves
      <3>2. request[m] # None
        BY <3>1, NoneIs DEF Saves
      <3>3. work[m] \in Values
        BY <1>1, <3>2 DEF IInv, SetInv, BusyInv, TypeOK, Fields
      <3> QED
        BY <2>1, <3>1, <3>3 DEF Askers
    <2>3. CASE OtherSaves
      BY <2>1, <2>3 DEF OtherSaves, Askers
    <2>4. store' # store
      BY <1>1
    <2>5. OtherSaves \/ \E m \in Lamps : SetSaves(m)
      BY <1>1, <2>4 DEF Next, vars, server, SetLoads, SetFails, OtherSets, OtherRenames, ReadLoads,
                        ReadAnswers, ReadFails, Effect, TimerFires, ReadArrives, StartEdit, CancelEdit,
                        Save, Patch, SetAnswered, Rename, Finish
    <2> QED
      BY <2>2, <2>3, <2>5
  <1>2. IInv /\ [Next]_vars => [\A l, k \in Lamps : store'[l] # store[l] /\ store'[k] # store[k] => l = k]_vars
    BY <1>1
  <1> QED
    BY <1>2, Reachable, PTL DEF Spec, NoTypeUndone

\* A Save that closes the draft has saved every field of it that nobody else has written since, that
\* was not edited while it ran and that no earlier, failed Save had sent (saveEdit).
THEOREM DraftSaved == Spec => DraftIsSaved
  <1>1. ASSUME IInv, [Next]_vars, busy, draft' = None, NEW f \in Fields \ (foreign \cup typed \cup kept)
        PROVE  ServerHas(f) = draft[f]
    <2>1. draft # None /\ base # None /\ draft[f] = work[f]
      BY <1>1 DEF IInv, BusyInv
    <2>2. Finish
      <3>1. ~(\E g \in Fields, v \in Values : Patch(g, v))
        <4> SUFFICES ASSUME NEW g \in Fields, NEW v \in Values, Patch(g, v) PROVE FALSE
          OBVIOUS
        <4>1. draft' = [draft EXCEPT ![g] = v] /\ draft \in [Fields -> Values]
          BY <2>1, <1>1 DEF Patch, IInv, TypeOK
        <4>2. draft' \in [Fields -> Values]
          BY <4>1
        <4> QED
          BY <1>1, <4>2, NoneIs
      <3>2. draft' # draft /\ ~StartEdit /\ ~CancelEdit
        BY <1>1, <2>1 DEF StartEdit, CancelEdit
      <3> QED
        BY <1>1, <3>1, <3>2 DEF Next, vars, editing, SetLoads, SetSaves, SetFails, OtherSets, OtherSaves,
                                OtherRenames, ReadLoads, ReadAnswers, ReadFails, Effect, TimerFires,
                                ReadArrives, Save, SetAnswered, Rename
    <2>3. saving = {} /\ todo = <<>> /\ ~failed
      BY <1>1, <2>1, <2>2 DEF Finish
    <2>4. CASE ~Changed(f)
      BY <1>1, <2>1, <2>4 DEF IInv, SameInv, Changed
    <2>5. CASE Changed(f)
      <3>1. ~Pending(f)
        BY <1>1, <2>3 DEF Pending, IInv, SetInv
      <3> QED
        BY <1>1, <2>1, <2>3, <2>5, <3>1 DEF IInv, DoneInv
    <2> QED
      BY <2>4, <2>5
  <1>2. IInv /\ [Next]_vars =>
           [busy /\ draft' = None =>
               \A f \in Fields \ (foreign \cup typed \cup kept) : ServerHas(f) = draft[f]]_vars
    BY <1>1
  <1> QED
    BY <1>2, Reachable, PTL DEF Spec, DraftIsSaved

-----------------------------------------------------------------------------
(* The control of one light: what is under way, and the inductive invariant. *)

\* Messages: a push, the answer to a brightness of a visit, a failure of a command of it.
IsPush(m) == m.kind = "push"
AnswersPct(m, v) == m.kind = "answer" /\ m.call.kind = "pct" /\ m.call.visit = v
Rejects(m, v) == m.kind = "answer" /\ ~m.ok /\ m.call.visit = v

\* The brightness of a visit that Home Assistant is working on.
Flying(v) == {c \in calls : c.kind = "pct" /\ c.visit = v}
Queued == {v \in Visits : send[v].queued # Nil}
Alone(v) == \A w \in Visits \ {v} : ~send[w].sending
ToSend == send[visit].pending # Nil \/ send[visit].queued # Nil
TurnsOn(c) == c.kind # "off"

\* An act of the user is at most two commands: a value may wait for the timer, then in the queue.
CountInv ==
    commands + Cardinality(Queued) + (IF \E v \in Visits : send[v].pending # Nil THEN 2 ELSE 0) <= 2 * acts

\* A visit has a brightness under way, one call or one answer, if and only if it says so;
\* only the visit on screen holds one back.
SenderOK(v) ==
    /\ send[v].pending # Nil => v = visit /\ mounted
    /\ send[v].queued # Nil => send[v].sending
    /\ send[v].sending => Flying(v) # {} \/ \E i \in DOMAIN arriving : AnswersPct(arriving[i], v)
    /\ \A c \in Flying(v) : /\ send[v].sending /\ c.pct \in Pcts
                            /\ \A d \in Flying(v) : c = d
                            /\ \A i \in DOMAIN arriving : ~AnswersPct(arriving[i], v)
    /\ \A i \in DOMAIN arriving : AnswersPct(arriving[i], v) =>
           send[v].sending /\ \A j \in DOMAIN arriving : AnswersPct(arriving[j], v) => i = j
SenderInv == \A v \in Visits : SenderOK(v)

\* Where the value is that was dragged to last: held, queued, under way or at the light.
CarryInv == ~disturbed /\ wanted # Nil =>
    \/ send[visit].pending = wanted
    \/ /\ send[visit].pending = Nil
       /\ \E v \in Visits : /\ Alone(v)
                            /\ \/ send[v].queued = wanted
                               \/ send[v].queued = Nil /\ \E c \in Flying(v) : c.pct = wanted
    \/ /\ send[visit].pending = Nil /\ light.pct = wanted
       /\ \A v \in Visits : send[v].queued = Nil /\ Flying(v) = {}

\* An override is there only while it differs from what was pushed.
OverrideInv ==
    /\ onOverride # Nil => mounted /\ onOverride # pushed.on
    /\ pctOverride # Nil => mounted /\ pctOverride # RealPct(pushed)

\* The last push is the light as it is.
PushInv ==
    \/ pushed = light /\ \A i \in DOMAIN arriving : ~IsPush(arriving[i])
    \/ \E i \in DOMAIN arriving : /\ IsPush(arriving[i]) /\ arriving[i].state = light
                                  /\ \A j \in DOMAIN arriving : IsPush(arriving[j]) => j <= i

\* An override of the switch will go: a value is still to be sent, or the newest command is
\* under way, or the push that fits it, or the failure that takes it back.
OnComes(on) ==
    \/ ToSend
    \/ \E c \in calls : c.visit = visit /\ c.id = token /\ TurnsOn(c) = on
    \/ \E i \in DOMAIN arriving : IsPush(arriving[i]) /\ arriving[i].state.on = on
    \/ \E i \in DOMAIN arriving : Rejects(arriving[i], visit) /\ arriving[i].call.id = token
OnInv == ~stranded /\ onOverride # Nil => OnComes(onOverride)

\* An override of the brightness likewise; the failure of a brightness takes it back or is stranded.
PctComes(pct) ==
    \/ ToSend
    \/ \E c \in Flying(visit) : c.pct = pct
    \/ \E i \in DOMAIN arriving : IsPush(arriving[i]) /\ RealPct(arriving[i].state) = pct
    \/ \E i \in DOMAIN arriving : Rejects(arriving[i], visit) /\ arriving[i].call.kind = "pct"
PctInv == ~stranded /\ pctOverride # Nil => PctComes(pctOverride)

LightIInv ==
    /\ LightTypeOK /\ CountInv /\ SenderInv
    /\ CarryInv
    /\ OverrideInv /\ PushInv /\ OnInv /\ PctInv

LEMMA LightConstants ==
    /\ Full \in Pcts /\ Nil \notin Pcts /\ Nil \notin BOOLEAN
    /\ MaxVisits \in Nat \ {0} /\ MaxActs \in Nat /\ MaxLightTroubles \in Nat
  BY LightControlAssumption DEF LightControlAssumption

LEMMA LightInitIInv == LightInit => LightIInv
  <1> SUFFICES ASSUME LightInit PROVE LightIInv
    OBVIOUS
  <1> USE LightConstants
  <1>1. LightTypeOK
    <2>1. send \in [Visits -> Senders]
      BY DEF LightInit, Senders
    <2>2. calls \subseteq Calls /\ arriving \in Seq(Arrivals) /\ visit \in Visits
      BY EmptySeq DEF LightInit, Visits
    <2>3. token \in 0..commands /\ commands \in 0..(2 * MaxActs) /\ acts \in 0..MaxActs /\ lightTroubles \in 0..MaxLightTroubles
      BY DEF LightInit
    <2>4. /\ light \in States /\ pushed \in States /\ onOverride \in BOOLEAN \cup {Nil} /\ pctOverride \in Pcts \cup {Nil}
          /\ mounted \in BOOLEAN /\ wanted \in Pcts \cup {Nil} /\ disturbed \in BOOLEAN /\ stranded \in BOOLEAN
      BY DEF LightInit
    <2> QED
      BY <2>1, <2>2, <2>3, <2>4 DEF LightTypeOK
  <1>2. CountInv
    <2>1. Queued = {} /\ ~\E v \in Visits : send[v].pending # Nil
      BY DEF LightInit, Queued
    <2>2. Cardinality(Queued) = 0
      BY <2>1, FS_EmptySet
    <2> QED
      BY <2>1, <2>2 DEF LightInit, CountInv
  <1>3. SenderInv
    BY DEF LightInit, SenderInv, SenderOK, Flying
  <1>4. CarryInv /\ OverrideInv /\ PushInv /\ OnInv /\ PctInv
    BY DEF LightInit, CarryInv, OverrideInv, PushInv, OnInv, PctInv
  <1> QED
    BY <1>1, <1>2, <1>3, <1>4 DEF LightIInv

-----------------------------------------------------------------------------
(* What arrives. *)

LEMMA GrownByOne ==
    ASSUME NEW S, NEW s \in Seq(S), NEW e \in S
    PROVE  /\ s \o <<e>> \in Seq(S) /\ Len(s) + 1 \notin DOMAIN s
           /\ DOMAIN (s \o <<e>>) = DOMAIN s \cup {Len(s) + 1}
           /\ \A i \in DOMAIN s : (s \o <<e>>)[i] = s[i] /\ i \in Nat /\ i <= Len(s) + 1
           /\ (s \o <<e>>)[Len(s) + 1] = e /\ Len(s) \in Nat
  <1>1. <<e>> \in Seq(S) /\ Len(<<e>>) = 1 /\ <<e>>[1] = e
    OBVIOUS
  <1>2. /\ s \o <<e>> \in Seq(S) /\ Len(s \o <<e>>) = Len(s) + 1
        /\ \A i \in 1..Len(s) + 1 : (s \o <<e>>)[i] = IF i <= Len(s) THEN s[i] ELSE <<e>>[i - Len(s)]
    BY <1>1, ConcatProperties
  <1>3. Len(s) \in Nat /\ DOMAIN s = 1..Len(s) /\ DOMAIN (s \o <<e>>) = 1..Len(s) + 1
    BY <1>2, LenProperties
  <1>4. (s \o <<e>>)[Len(s) + 1] = e
    BY <1>1, <1>2, <1>3
  <1> QED
    BY <1>2, <1>3, <1>4

\* A change of the light is pushed, and the answer comes after it.
LEMMA ChangesIs ==
    ASSUME LightTypeOK, NEW state \in States, NEW more, Changes(state, more),
           more = <<>> \/ \E m \in Arrivals : more = <<m>> /\ m.kind = "answer"
    PROVE  /\ light' = state /\ arriving' \in Seq(Arrivals)
           /\ \A i \in DOMAIN arriving : i \in DOMAIN arriving' /\ arriving'[i] = arriving[i]
           /\ \A i \in DOMAIN arriving' \ DOMAIN arriving :
                 \/ state # light /\ arriving'[i] = [kind |-> "push", state |-> state]
                 \/ more # <<>> /\ arriving'[i] = more[1]
           /\ state # light => \E i \in DOMAIN arriving' \ DOMAIN arriving :
                 /\ arriving'[i] = [kind |-> "push", state |-> state]
                 /\ \A j \in DOMAIN arriving' : IsPush(arriving'[j]) => j <= i
           /\ more # <<>> => \E i \in DOMAIN arriving' \ DOMAIN arriving :
                 /\ arriving'[i] = more[1]
                 /\ \A j \in DOMAIN arriving' \ DOMAIN arriving : arriving'[j].kind = "answer" => i = j
  <1> DEFINE p == [kind |-> "push", state |-> state]
             mid == arriving \o (IF state = light THEN <<>> ELSE <<p>>)
  <1>1. light' = state /\ arriving' = mid \o more
    BY DEF Changes
  <1>2. arriving \in Seq(Arrivals) /\ p \in Arrivals /\ p.kind = "push"
    BY DEF LightTypeOK, Arrivals
  <1>3. CASE state = light
    <2>1. mid = arriving
      BY <1>2, <1>3, ConcatEmptySeq
    <2> HIDE DEF mid
    <2>2. CASE more = <<>>
      <3>1. arriving' = arriving
        BY <1>1, <1>2, <2>1, <2>2, ConcatEmptySeq
      <3> QED
        BY <1>1, <1>2, <1>3, <2>2, <3>1
    <2>3. ASSUME NEW m \in Arrivals, more = <<m>>, m.kind = "answer"
          PROVE  /\ arriving' \in Seq(Arrivals) /\ more # <<>> /\ more[1] = m
                 /\ Len(arriving) + 1 \notin DOMAIN arriving
                 /\ DOMAIN arriving' = DOMAIN arriving \cup {Len(arriving) + 1}
                 /\ \A i \in DOMAIN arriving : arriving'[i] = arriving[i]
                 /\ arriving'[Len(arriving) + 1] = m
      BY <1>1, <1>2, <2>1, <2>3, GrownByOne
    <2>4. ASSUME NEW m \in Arrivals, more = <<m>>, m.kind = "answer"
          PROVE  /\ \A i \in DOMAIN arriving : i \in DOMAIN arriving' /\ arriving'[i] = arriving[i]
                 /\ \A i \in DOMAIN arriving' \ DOMAIN arriving : arriving'[i] = more[1]
                 /\ \E i \in DOMAIN arriving' \ DOMAIN arriving :
                       /\ arriving'[i] = more[1]
                       /\ \A j \in DOMAIN arriving' \ DOMAIN arriving : arriving'[j].kind = "answer" => i = j
      BY <2>3, <2>4
    <2> QED
      BY <1>1, <1>3, <2>2, <2>3, <2>4
  <1>4. CASE state # light
    <2> DEFINE n == Len(arriving)
    <2>1. mid = arriving \o <<p>>
      BY <1>4
    <2>2. /\ mid \in Seq(Arrivals) /\ n + 1 \notin DOMAIN arriving
          /\ DOMAIN mid = DOMAIN arriving \cup {n + 1}
          /\ \A i \in DOMAIN arriving : mid[i] = arriving[i] /\ i <= n + 1
          /\ mid[n + 1] = p /\ n \in Nat
      BY <1>2, <2>1, GrownByOne
    <2> HIDE DEF mid, p
    <2>3. CASE more = <<>>
      <3>1. arriving' = mid
        BY <1>1, <2>2, <2>3, ConcatEmptySeq
      <3>2. \A j \in DOMAIN arriving' : j <= n + 1
        BY <2>2, <3>1
      <3>3. n + 1 \in DOMAIN arriving' \ DOMAIN arriving /\ arriving'[n + 1] = p /\ \A i \in DOMAIN arriving' \ DOMAIN arriving : i = n + 1
        BY <2>2, <3>1
      <3>4. /\ \A i \in DOMAIN arriving : i \in DOMAIN arriving' /\ arriving'[i] = arriving[i]
            /\ arriving' \in Seq(Arrivals)
        BY <2>2, <3>1
      <3> HIDE DEF n
      <3>5. \A i \in DOMAIN arriving' \ DOMAIN arriving : arriving'[i] = p
        BY <3>3
      <3>6. \E i \in DOMAIN arriving' \ DOMAIN arriving : arriving'[i] = p /\ \A j \in DOMAIN arriving' : IsPush(arriving'[j]) => j <= i
        BY <3>2, <3>3
      <3> QED
        BY <1>1, <1>4, <2>3, <3>4, <3>5, <3>6 DEF p
    <2>4. ASSUME NEW m \in Arrivals, more = <<m>>, m.kind = "answer"
          PROVE  /\ arriving' \in Seq(Arrivals) /\ more # <<>> /\ more[1] = m
                 /\ n + 1 \notin DOMAIN arriving /\ n + 2 \notin DOMAIN arriving
                 /\ DOMAIN arriving' = DOMAIN arriving \cup {n + 1, n + 2}
                 /\ \A i \in DOMAIN arriving : arriving'[i] = arriving[i]
                 /\ arriving'[n + 1] = p /\ arriving'[n + 2] = m
      <3>1. Len(mid) = n + 1
        BY <1>2, <2>1, ConcatProperties
      <3>2. /\ mid \o <<m>> \in Seq(Arrivals) /\ n + 1 + 1 \notin DOMAIN mid
            /\ DOMAIN (mid \o <<m>>) = DOMAIN mid \cup {n + 1 + 1}
            /\ \A i \in DOMAIN mid : (mid \o <<m>>)[i] = mid[i]
            /\ (mid \o <<m>>)[n + 1 + 1] = m
        BY <2>2, <3>1, GrownByOne
      <3>3. n + 1 + 1 = n + 2 /\ n + 2 # n + 1
        BY <2>2
      <3>4. arriving' = mid \o <<m>>
        BY <1>1, <2>4
      <3> QED
        BY <2>2, <2>4, <3>2, <3>3, <3>4
    <2>5. ASSUME NEW m \in Arrivals, more = <<m>>, m.kind = "answer"
          PROVE  /\ \A j \in DOMAIN arriving' : IsPush(arriving'[j]) => j <= n + 1
                 /\ \A j \in DOMAIN arriving' \ DOMAIN arriving : arriving'[j].kind = "answer" => n + 2 = j
      BY <1>2, <2>2, <2>4, <2>5 DEF IsPush, p
    <2>6. ASSUME NEW m \in Arrivals, more = <<m>>, m.kind = "answer"
          PROVE  /\ \A i \in DOMAIN arriving : i \in DOMAIN arriving' /\ arriving'[i] = arriving[i]
                 /\ \A i \in DOMAIN arriving' \ DOMAIN arriving : arriving'[i] = p \/ arriving'[i] = more[1]
                 /\ \E i \in DOMAIN arriving' \ DOMAIN arriving : arriving'[i] = p /\ \A j \in DOMAIN arriving' : IsPush(arriving'[j]) => j <= i
                 /\ \E i \in DOMAIN arriving' \ DOMAIN arriving :
                       /\ arriving'[i] = more[1]
                       /\ \A j \in DOMAIN arriving' \ DOMAIN arriving : arriving'[j].kind = "answer" => i = j
      <3>1. /\ n + 1 \in DOMAIN arriving' \ DOMAIN arriving /\ n + 2 \in DOMAIN arriving' \ DOMAIN arriving
            /\ \A i \in DOMAIN arriving' \ DOMAIN arriving : i = n + 1 \/ i = n + 2
        BY <2>4, <2>6
      <3> HIDE DEF n
      <3> QED
        BY <2>4, <2>5, <2>6, <3>1
    <2> HIDE DEF n
    <2> QED
      BY <1>1, <1>4, <2>3, <2>4, <2>6 DEF p
  <1> QED
    BY <1>3, <1>4

\* The first message is taken; the others move up.
LEMMA FirstTaken ==
    ASSUME LightTypeOK, arriving # <<>>, arriving' = Tail(arriving)
    PROVE  /\ arriving' \in Seq(Arrivals)
           /\ 1 \in DOMAIN arriving /\ Head(arriving) = arriving[1] /\ Head(arriving) \in Arrivals
           /\ \A i \in DOMAIN arriving' : i \in Nat /\ i + 1 # 1 /\ i + 1 \in DOMAIN arriving /\ arriving'[i] = arriving[i + 1]
           /\ \A i \in DOMAIN arriving : i \in Nat /\ i >= 1 /\
                 (i # 1 => i - 1 \in DOMAIN arriving' /\ arriving'[i - 1] = arriving[i])
  <1>1. arriving \in Seq(Arrivals)
    BY DEF LightTypeOK
  <1>2. /\ Head(arriving) \in Arrivals /\ arriving' \in Seq(Arrivals) /\ Len(arriving') = Len(arriving) - 1
        /\ \A i \in 1..Len(arriving') : arriving'[i] = arriving[i + 1]
    BY <1>1, HeadTailProperties
  <1>3. /\ Len(arriving) \in Nat \ {0} /\ DOMAIN arriving = 1..Len(arriving)
        /\ DOMAIN arriving' = 1..Len(arriving) - 1
    BY <1>1, <1>2, LenProperties, EmptySeq
  <1>4. Head(arriving) = arriving[1]
    OBVIOUS
  <1> QED
    BY <1>2, <1>3, <1>4

LEMMA ArrivalsAre ==
    ASSUME NEW m \in Arrivals
    PROVE  /\ m.kind \in {"push", "answer"}
           /\ m.kind = "push" => m.state \in States
           /\ m.kind = "answer" => /\ m.call \in Calls /\ m.ok \in BOOLEAN /\ m.call.visit \in Visits
                                   /\ m.call.kind \in {"on", "off", "pct"} /\ m.call.id \in Nat /\ m.call.id >= 1
  BY LightConstants DEF Arrivals, Calls

-----------------------------------------------------------------------------
(* Commands. *)

LEMMA SenderFields ==
    ASSUME NEW s \in Senders
    PROVE  /\ s.sending \in BOOLEAN /\ s.queued \in Pcts \cup {Nil} /\ s.pending \in Pcts \cup {Nil}
           /\ [s EXCEPT !.pending = Nil] \in Senders
           /\ \A p \in Pcts : [s EXCEPT !.pending = p] \in Senders
           /\ [s EXCEPT !.sending = FALSE] \in Senders
           /\ [s EXCEPT !.sending = FALSE, !.queued = Nil] \in Senders
  BY DEF Senders

\* What an answer leaves of a sender.
LEMMA AnsweredFields ==
    ASSUME NEW s \in Senders
    PROVE  /\ [s EXCEPT !.sending = FALSE].pending = s.pending
           /\ [s EXCEPT !.sending = FALSE].queued = s.queued
           /\ ~[s EXCEPT !.sending = FALSE].sending
           /\ [s EXCEPT !.sending = FALSE, !.queued = Nil].pending = s.pending
           /\ [s EXCEPT !.sending = FALSE, !.queued = Nil].queued = Nil
           /\ ~[s EXCEPT !.sending = FALSE, !.queued = Nil].sending
  BY DEF Senders

LEMMA SendPctIs ==
    ASSUME LightTypeOK, NEW v \in Visits, NEW p \in Pcts, NEW s \in Senders, SendPct(v, p, s)
    PROVE  /\ commands' = commands + 1 /\ token' = IF v = visit THEN commands + 1 ELSE token
           /\ \E t \in Senders :
                 /\ send' = [send EXCEPT ![v] = t] /\ t.pending = s.pending /\ t.sending
                 /\ \/ s.sending /\ t.queued = p /\ calls' = calls
                    \/ /\ ~s.sending /\ t.queued = s.queued
                       /\ calls' = calls \cup {[id |-> commands + 1, visit |-> v, kind |-> "pct", pct |-> p]}
  <1>1. commands' = commands + 1 /\ token' = IF v = visit THEN commands + 1 ELSE token
    BY DEF SendPct, Stamp
  <1>2. CASE s.sending
    <2> DEFINE t == [s EXCEPT !.queued = p]
    <2>1. t \in Senders /\ t.pending = s.pending /\ t.sending /\ t.queued = p
      BY <1>2 DEF Senders
    <2>2. send' = [send EXCEPT ![v] = t] /\ calls' = calls
      BY <1>2 DEF SendPct
    <2> HIDE DEF t
    <2> QED
      BY <1>1, <1>2, <2>1, <2>2
  <1>3. CASE ~s.sending
    <2> DEFINE t == [s EXCEPT !.sending = TRUE]
    <2>1. t \in Senders /\ t.pending = s.pending /\ t.sending /\ t.queued = s.queued
      BY DEF Senders
    <2>2. /\ send' = [send EXCEPT ![v] = t]
          /\ calls' = calls \cup {[id |-> commands + 1, visit |-> v, kind |-> "pct", pct |-> p]}
      BY <1>3 DEF SendPct, Issue
    <2> HIDE DEF t
    <2> QED
      BY <1>1, <1>3, <2>1, <2>2
  <1> QED
    BY <1>2, <1>3

\* How many values are queued.
LEMMA QueuedAre ==
    ASSUME LightTypeOK, NEW v \in Visits, NEW t \in Senders, send' = [send EXCEPT ![v] = t]
    PROVE  /\ Cardinality(Queued) \in Nat /\ Cardinality(Queued)' \in Nat
           /\ Cardinality(Queued)' <= Cardinality(Queued) + 1
           /\ t.queued = Nil \/ send[v].queued # Nil => Cardinality(Queued)' <= Cardinality(Queued)
           /\ t.queued = Nil /\ send[v].queued # Nil => Cardinality(Queued)' + 1 = Cardinality(Queued)
  <1>1. IsFiniteSet(Visits)
    BY LightConstants, FS_Interval DEF Visits
  <1>2. Queued \subseteq Visits /\ IsFiniteSet(Queued) /\ Cardinality(Queued) \in Nat
    BY <1>1, FS_Subset, FS_CardinalityType DEF Queued
  <1>3. Queued' = IF t.queued # Nil THEN Queued \cup {v} ELSE Queued \ {v}
    BY DEF LightTypeOK, Queued
  <1>4. v \in Queued <=> send[v].queued # Nil
    BY DEF Queued
  <1>5. /\ Cardinality(Queued \cup {v}) = IF v \in Queued THEN Cardinality(Queued) ELSE Cardinality(Queued) + 1
        /\ Cardinality(Queued \ {v}) = IF v \in Queued THEN Cardinality(Queued) - 1 ELSE Cardinality(Queued)
    BY <1>2, FS_AddElement, FS_RemoveElement
  <1>6. v \in Queued => Cardinality(Queued) # 0
    BY <1>2, FS_EmptySet
  <1> QED
    BY <1>2, <1>3, <1>4, <1>5, <1>6

\* The visits that hold a value back, of which there is one at most.
LEMMA HeldIs ==
    ASSUME LightTypeOK, SenderInv, NEW v \in Visits, NEW t \in Senders, send' = [send EXCEPT ![v] = t]
    PROVE  /\ v = visit /\ t.pending = Nil => \A w \in Visits : send'[w].pending = Nil
           /\ t.pending = send[v].pending => \A w \in Visits : send'[w].pending = send[w].pending
  BY DEF LightTypeOK, SenderInv, SenderOK

LEMMA CountStep ==
    ASSUME LightTypeOK, SenderInv, CountInv, [LightNext]_lightVars
    PROVE  CountInv' /\ Cardinality(Queued)' \in Nat
  <1> DEFINE held == IF \E v \in Visits : send[v].pending # Nil THEN 2 ELSE 0
  <1>1. /\ commands \in Nat /\ acts \in Nat /\ Cardinality(Queued) \in Nat
        /\ commands + Cardinality(Queued) + held <= 2 * acts
        /\ visit \in Visits
    <2>1. IsFiniteSet(Visits)
      BY LightConstants, FS_Interval DEF Visits
    <2>2. Queued \subseteq Visits
      BY DEF Queued
    <2> QED
      BY <2>1, <2>2, FS_Subset, FS_CardinalityType DEF LightTypeOK, CountInv
  <1>2. send[visit] \in Senders /\ \A w \in Visits : send[w] \in Senders
    BY <1>1 DEF LightTypeOK
  <1>3. held \in {0, 2} /\ held' \in {0, 2}
    OBVIOUS
  <1>4. SUFFICES commands' + Cardinality(Queued)' + held' <= 2 * acts' /\ Cardinality(Queued)' \in Nat
    BY DEF CountInv
  <1>5. ASSUME UNCHANGED send, \/ commands' = commands /\ acts' = acts
                               \/ commands' = commands + 1 /\ acts' = acts + 1
        PROVE  commands' + Cardinality(Queued)' + held' <= 2 * acts' /\ Cardinality(Queued)' \in Nat
    <2>1. Cardinality(Queued)' = Cardinality(Queued) /\ held' = held
      BY <1>5 DEF Queued
    <2> QED
      BY <1>1, <1>5, <2>1
  <1>6. ASSUME NEW t \in Senders, send' = [send EXCEPT ![visit] = t], t.pending = Nil,
               commands' = commands + 1, acts' = acts + 1 \/ (acts' = acts /\ send[visit].pending # Nil)
        PROVE  commands' + Cardinality(Queued)' + held' <= 2 * acts' /\ Cardinality(Queued)' \in Nat
    <2>1. held' = 0
      BY <1>1, <1>6, HeldIs
    <2>2. Cardinality(Queued)' \in Nat /\ Cardinality(Queued)' <= Cardinality(Queued) + 1
      BY <1>1, <1>6, QueuedAre
    <2>3. acts' = acts => held = 2
      BY <1>1, <1>6
    <2> HIDE DEF held
    <2> QED
      BY <1>1, <1>3, <1>6, <2>1, <2>2, <2>3
  <1>7. CASE Toggle
    BY <1>5, <1>7 DEF Toggle, Stamp
  <1>8. ASSUME NEW p \in Pcts, Slide(p)
        PROVE  commands' + Cardinality(Queued)' + held' <= 2 * acts' /\ Cardinality(Queued)' \in Nat
    <2> DEFINE s == [send[visit] EXCEPT !.pending = Nil]
    <2>1. acts' = acts + 1
      BY <1>8 DEF Slide
    <2>2. CASE SendPct(visit, p, s)
      <3>1. s \in Senders /\ s.pending = Nil
        BY <1>2, SenderFields DEF Senders
      <3> HIDE DEF s
      <3>2. PICK t \in Senders : send' = [send EXCEPT ![visit] = t] /\ t.pending = s.pending
        BY <1>1, <2>2, <3>1, SendPctIs
      <3> QED
        BY <1>1, <1>6, <2>1, <2>2, <3>1, <3>2, SendPctIs
    <2>3. CASE send' = [send EXCEPT ![visit].pending = p] /\ commands' = commands
      <3> DEFINE t == [send[visit] EXCEPT !.pending = p]
      <3>1. t \in Senders /\ t.queued = send[visit].queued
        BY <1>2, SenderFields DEF Senders
      <3>2. send' = [send EXCEPT ![visit] = t]
        BY <2>3
      <3> HIDE DEF t
      <3>3. Cardinality(Queued)' \in Nat /\ Cardinality(Queued)' <= Cardinality(Queued)
        BY <1>1, <3>1, <3>2, QueuedAre
      <3> HIDE DEF held
      <3> QED
        BY <1>1, <1>3, <2>1, <2>3, <3>3
    <2> QED
      BY <1>8, <2>2, <2>3 DEF Slide
  <1>9. CASE TimerSends \/ (Leave /\ send[visit].pending # Nil)
    <2> DEFINE s == [send[visit] EXCEPT !.pending = Nil]
    <2>1. SendPct(visit, send[visit].pending, s) /\ send[visit].pending \in Pcts /\ acts' = acts /\ send[visit].pending # Nil
      BY <1>2, <1>9, SenderFields DEF TimerSends, Leave
    <2>2. s \in Senders /\ s.pending = Nil
      BY <1>2, SenderFields DEF Senders
    <2> HIDE DEF s
    <2>3. PICK t \in Senders : send' = [send EXCEPT ![visit] = t] /\ t.pending = s.pending
      BY <1>1, <2>1, <2>2, SendPctIs
    <2> QED
      BY <1>1, <1>6, <2>1, <2>2, <2>3, SendPctIs
  <1>10. CASE (Leave /\ send[visit].pending = Nil) \/ Return \/ Others \/ Push \/ Switched \/ UNCHANGED lightVars
    BY <1>5, <1>10 DEF Leave, Return, Others, Push, Switched, lightVars
  <1>11. ASSUME NEW c \in calls, Lands(c) \/ Fails(c)
         PROVE  commands' + Cardinality(Queued)' + held' <= 2 * acts' /\ Cardinality(Queued)' \in Nat
    BY <1>5, <1>11 DEF Lands, Fails
  <1>12. CASE Dimmed
    <2> DEFINE v == Head(arriving).call.visit
    <2>1. v \in Visits
      BY <1>12, FirstTaken, ArrivalsAre DEF Dimmed
    <2>2. acts' = acts
      BY <1>12 DEF Dimmed
    <2>3. CASE send[v].queued # Nil
      <3> DEFINE s == [send[v] EXCEPT !.sending = FALSE, !.queued = Nil]
      <3>1. SendPct(v, send[v].queued, s)
        BY <1>12, <2>3 DEF Dimmed
      <3>2. s \in Senders /\ s.pending = send[v].pending /\ ~s.sending /\ s.queued = Nil /\ send[v].queued \in Pcts
        <4>1. send[v] \in Senders
          BY <1>2, <2>1
        <4> QED
          BY <2>3, <4>1, SenderFields, AnsweredFields
      <3> HIDE DEF s, v
      <3>3. PICK t \in Senders : send' = [send EXCEPT ![v] = t] /\ t.pending = s.pending /\ t.queued = Nil
        BY <2>1, <3>1, <3>2, SendPctIs
      <3>4. commands' = commands + 1
        BY <2>1, <3>1, <3>2, SendPctIs
      <3>5. Cardinality(Queued)' \in Nat /\ Cardinality(Queued)' + 1 = Cardinality(Queued)
        BY <2>1, <2>3, <3>3, QueuedAre
      <3>6. \A w \in Visits : send'[w].pending = send[w].pending
        BY <2>1, <3>2, <3>3, HeldIs
      <3>7. held' = held
        BY <3>6
      <3> HIDE DEF held
      <3> QED
        BY <1>1, <1>3, <2>2, <3>4, <3>5, <3>7
    <2>4. CASE send[v].queued = Nil
      <3> DEFINE t == [send[v] EXCEPT !.sending = FALSE]
      <3>1. send' = [send EXCEPT ![v] = t] /\ commands' = commands
        BY <1>12, <2>4 DEF Dimmed
      <3>2. t \in Senders /\ t.pending = send[v].pending /\ t.queued = Nil
        <4>1. send[v] \in Senders
          BY <1>2, <2>1
        <4>2. t \in Senders
          BY <4>1, SenderFields
        <4> QED
          BY <2>4, <4>1, <4>2, AnsweredFields
      <3> HIDE DEF t, v
      <3>3. Cardinality(Queued)' \in Nat /\ Cardinality(Queued)' <= Cardinality(Queued)
        BY <2>1, <3>1, <3>2, QueuedAre
      <3>4. \A w \in Visits : send'[w].pending = send[w].pending
        BY <2>1, <3>1, <3>2, HeldIs
      <3>5. held' = held
        BY <3>4
      <3> HIDE DEF held
      <3> QED
        BY <1>1, <1>3, <2>2, <3>1, <3>3, <3>5
    <2> QED
      BY <2>3, <2>4
  <1> QED
    BY <1>7, <1>8, <1>9, <1>10, <1>11, <1>12 DEF LightNext

\* What is shown instead is what was asked for, or nothing if the light is like that already.
LEMMA OverrideIs ==
    ASSUME NEW on \in BOOLEAN \cup {Nil}, NEW pct \in Pcts \cup {Nil}, NEW state \in States, Override(on, pct, state)
    PROVE  /\ onOverride' \in BOOLEAN \cup {Nil} /\ pctOverride' \in Pcts \cup {Nil}
           /\ onOverride' # Nil => onOverride' = on /\ on # state.on
           /\ pctOverride' # Nil => pctOverride' = pct /\ pct # RealPct(state)
           /\ on # Nil /\ onOverride' = Nil => on = state.on
  <1>1. /\ onOverride' = IF on # state.on THEN on ELSE Nil
        /\ pctOverride' = IF pct # RealPct(state) THEN pct ELSE Nil
    BY DEF Override
  <1>2. onOverride' \in BOOLEAN \cup {Nil} /\ pctOverride' \in Pcts \cup {Nil}
    BY <1>1, Zenon
  <1>3. (onOverride' # Nil => onOverride' = on /\ on # state.on) /\ (pctOverride' # Nil => pctOverride' = pct /\ pct # RealPct(state))
    BY <1>1, Zenon
  <1>4. on # Nil /\ onOverride' = Nil => on = state.on
    BY <1>1, Zenon
  <1> QED
    BY <1>2, <1>3, <1>4

LEMMA OverrideType ==
    ASSUME LightTypeOK, NEW on \in BOOLEAN \cup {Nil}, NEW pct \in Pcts \cup {Nil},
           Override(on, pct, pushed) \/ NoOverride \/ UNCHANGED overrides
    PROVE  onOverride' \in BOOLEAN \cup {Nil} /\ pctOverride' \in Pcts \cup {Nil}
  <1>1. CASE Override(on, pct, pushed)
    BY <1>1, OverrideIs DEF LightTypeOK
  <1>2. CASE NoOverride \/ UNCHANGED overrides
    BY <1>2, Zenon DEF NoOverride, overrides, LightTypeOK
  <1> QED
    BY <1>1, <1>2

LEMMA OnType ==
    ASSUME LightTypeOK
    PROVE  On \in BOOLEAN /\ (~On) \in BOOLEAN
  <1>1. pushed.on \in BOOLEAN /\ (onOverride # Nil => onOverride \in BOOLEAN)
    BY DEF LightTypeOK, States
  <1>2. On \in BOOLEAN
    BY <1>1, Zenon DEF On
  <1> QED
    BY <1>2, Zenon

\* A command is one of the calls, as long as they can be counted.
LEMMA IssueType ==
    ASSUME LightTypeOK, commands' = commands + 1, commands' <= 2 * MaxActs, NEW v \in Visits,
           token' = IF v = visit THEN commands + 1 ELSE token
    PROVE  /\ commands' \in 0..(2 * MaxActs) /\ token' \in 0..commands'
           /\ \A kind \in {"on", "off", "pct"}, p \in Pcts \cup {Nil} :
                 [id |-> commands + 1, visit |-> v, kind |-> kind, pct |-> p] \in Calls
  <1>1. commands \in Nat /\ MaxActs \in Nat /\ commands' \in 0..(2 * MaxActs) /\ commands + 1 \in 1..(2 * MaxActs)
    BY LightConstants DEF LightTypeOK
  <1>2. token' \in 0..commands'
    BY <1>1 DEF LightTypeOK
  <1> QED
    BY <1>1, <1>2 DEF Calls

LEMMA SendPctType ==
    ASSUME LightTypeOK, NEW v \in Visits, NEW p \in Pcts, NEW s \in Senders, SendPct(v, p, s),
           commands' <= 2 * MaxActs
    PROVE  /\ commands' \in 0..(2 * MaxActs) /\ token' \in 0..commands'
           /\ send' \in [Visits -> Senders] /\ calls' \subseteq Calls
  <1>1. commands' = commands + 1 /\ token' = IF v = visit THEN commands + 1 ELSE token
    BY SendPctIs
  <1>2. PICK t \in Senders :
                 /\ send' = [send EXCEPT ![v] = t]
                 /\ \/ calls' = calls
                    \/ calls' = calls \cup {[id |-> commands + 1, visit |-> v, kind |-> "pct", pct |-> p]}
    BY SendPctIs
  <1>3. [id |-> commands + 1, visit |-> v, kind |-> "pct", pct |-> p] \in Calls
    BY <1>1, IssueType
  <1>4. commands' \in 0..(2 * MaxActs) /\ token' \in 0..commands'
    BY <1>1, IssueType
  <1> QED
    BY <1>2, <1>3, <1>4 DEF LightTypeOK

LEMMA Twice ==
    ASSUME NEW a \in Nat, NEW b \in Nat, NEW c \in Nat, NEW n \in Nat, NEW h \in Nat, c + n + h <= 2 * a, a <= b
    PROVE  c <= 2 * b
  OBVIOUS

\* Every step keeps the types; that commands stay within their bound is CountInv.
LEMMA LightTypeStep ==
    ASSUME LightTypeOK, SenderInv, CountInv, [LightNext]_lightVars
    PROVE  LightTypeOK'
  <1>1. acts' <= MaxActs /\ acts' \in Nat /\ commands' \in Nat => commands' <= 2 * MaxActs
    <2>1. CountInv' /\ Cardinality(Queued)' \in Nat
      BY CountStep
    <2> DEFINE n == Cardinality(Queued)'
               h == IF \E v \in Visits : send'[v].pending # Nil THEN 2 ELSE 0
    <2>2. commands' + n + h <= 2 * acts' /\ n \in Nat /\ h \in Nat
      BY <2>1 DEF CountInv
    <2> HIDE DEF n, h
    <2> SUFFICES ASSUME acts' <= MaxActs, acts' \in Nat, commands' \in Nat PROVE commands' <= 2 * MaxActs
      OBVIOUS
    <2> QED
      BY <2>2, Twice, LightConstants
  <1>2. /\ visit \in Visits /\ commands \in Nat /\ acts \in Nat /\ acts <= MaxActs /\ MaxActs \in Nat
        /\ \A w \in Visits : send[w] \in Senders
        /\ lightTroubles \in Nat /\ MaxLightTroubles \in Nat
    BY LightConstants DEF LightTypeOK
  <1>3. CASE Toggle
    <2>1. /\ acts' = acts + 1 /\ acts < MaxActs /\ commands' = commands + 1 /\ token' = commands + 1
          /\ UNCHANGED <<light, arriving, pushed, send, visit, mounted, lightTroubles, wanted, disturbed, stranded>>
          /\ Issue(visit, IF On THEN "off" ELSE "on", Nil) /\ Override(~On, pctOverride, pushed)
      BY <1>3 DEF Toggle, Stamp, ghosts
    <2>2. acts' \in 0..MaxActs
      BY <1>2, <2>1
    <2>3. commands' <= 2 * MaxActs
      BY <1>1, <1>2, <2>1, <2>2
    <2>4. /\ commands' \in 0..(2 * MaxActs) /\ token' \in 0..commands'
          /\ [id |-> commands + 1, visit |-> visit, kind |-> IF On THEN "off" ELSE "on", pct |-> Nil] \in Calls
      BY <1>2, <2>1, <2>3, IssueType
    <2>5. calls' \subseteq Calls
      BY <2>1, <2>4 DEF Issue, LightTypeOK
    <2>6. onOverride' \in BOOLEAN \cup {Nil} /\ pctOverride' \in Pcts \cup {Nil}
      BY <2>1, OnType, OverrideType DEF LightTypeOK
    <2> QED
      BY <2>1, <2>2, <2>4, <2>5, <2>6 DEF LightTypeOK
  <1>4. ASSUME NEW p \in Pcts, Slide(p) PROVE LightTypeOK'
    <2>1. /\ acts' = acts + 1 /\ acts < MaxActs /\ wanted' = p /\ stranded' = FALSE
          /\ UNCHANGED <<light, arriving, pushed, visit, mounted, lightTroubles>>
      BY <1>4 DEF Slide
    <2>2. acts' \in 0..MaxActs
      BY <1>2, <2>1
    <2>3. CASE SendPct(visit, p, [send[visit] EXCEPT !.pending = Nil]) /\ Override(TRUE, p, pushed) /\ disturbed' = Overlap(visit)
      <3>1. commands' <= 2 * MaxActs
        BY <1>1, <1>2, <2>2, <2>3, LightConstants DEF SendPct, Stamp
      <3>2. /\ commands' \in 0..(2 * MaxActs) /\ token' \in 0..commands'
            /\ send' \in [Visits -> Senders] /\ calls' \subseteq Calls
        BY <1>2, <2>3, <3>1, SendPctType, SenderFields
      <3>3. onOverride' \in BOOLEAN \cup {Nil} /\ pctOverride' \in Pcts \cup {Nil}
        BY <2>3, OverrideType
      <3>4. disturbed' \in BOOLEAN
        BY <2>3 DEF Overlap
      <3> QED
        BY <2>1, <2>2, <3>2, <3>3, <3>4 DEF LightTypeOK
    <2>4. CASE /\ send' = [send EXCEPT ![visit].pending = p] /\ Override(onOverride, p, pushed)
               /\ disturbed' = FALSE /\ UNCHANGED <<calls, token, commands>>
      <3>1. send' \in [Visits -> Senders]
        BY <1>2, <2>4, SenderFields DEF LightTypeOK
      <3>2. onOverride' \in BOOLEAN \cup {Nil} /\ pctOverride' \in Pcts \cup {Nil}
        BY <2>4, OverrideType DEF LightTypeOK
      <3> QED
        BY <2>1, <2>2, <2>4, <3>1, <3>2 DEF LightTypeOK
    <2> QED
      BY <1>4, <2>3, <2>4 DEF Slide
  <1>5. CASE TimerSends \/ Leave
    <2>1. /\ mounted' \in BOOLEAN
          /\ UNCHANGED <<light, arriving, pushed, visit, acts, lightTroubles, wanted, stranded>>
          /\ Override(TRUE, send[visit].pending, pushed) \/ NoOverride
      BY <1>5 DEF TimerSends, Leave, LightTypeOK
    <2>2. /\ onOverride' \in BOOLEAN \cup {Nil} /\ pctOverride' \in Pcts \cup {Nil}
      BY <1>2, <2>1, OverrideType, SenderFields
    <2>3. CASE /\ SendPct(visit, send[visit].pending, [send[visit] EXCEPT !.pending = Nil]) /\ send[visit].pending # Nil
               /\ disturbed' = (disturbed \/ Overlap(visit))
      <3>1. commands' <= 2 * MaxActs
        BY <1>1, <1>2, <2>1, <2>3 DEF SendPct, Stamp
      <3>2. send[visit].pending \in Pcts /\ [send[visit] EXCEPT !.pending = Nil] \in Senders
        BY <1>2, <2>3, SenderFields
      <3>3. /\ commands' \in 0..(2 * MaxActs) /\ token' \in 0..commands'
            /\ send' \in [Visits -> Senders] /\ calls' \subseteq Calls
        BY <1>2, <2>3, <3>1, <3>2, SendPctType
      <3>4. disturbed' \in BOOLEAN
        BY <2>3 DEF Overlap
      <3> QED
        BY <2>1, <2>2, <3>3, <3>4 DEF LightTypeOK
    <2>4. CASE UNCHANGED <<calls, token, send, commands, disturbed>>
      BY <2>1, <2>2, <2>4 DEF LightTypeOK
    <2> QED
      BY <1>5, <2>3, <2>4 DEF TimerSends, Leave
  <1>6. CASE Return
    <2>1. visit' \in Visits
      BY <1>2, <1>6, LightConstants DEF Return, Visits
    <2>2. 0 \in 0..commands
      BY <1>2
    <2>3. UNCHANGED <<onOverride, pctOverride>> /\ token' = 0 /\ mounted' = TRUE /\ stranded' = FALSE
      BY <1>6 DEF Return, overrides
    <2> QED
      BY <1>6, <2>1, <2>2, <2>3 DEF Return, LightTypeOK
  <1>7. ASSUME NEW c \in calls, Lands(c) PROVE LightTypeOK'
    <2> DEFINE state == IF c.kind = "pct" THEN [on |-> TRUE, pct |-> c.pct] ELSE [light EXCEPT !.on = c.kind = "on"]
    <2>1. c \in Calls /\ c.visit \in Visits /\ (c.kind = "pct" => c.pct \in Pcts)
      BY DEF LightTypeOK, SenderInv, SenderOK, Flying, Calls
    <2>2. state \in States
      BY <2>1 DEF States, LightTypeOK
    <2>3. [kind |-> "answer", call |-> c, ok |-> TRUE] \in Arrivals
      BY <2>1 DEF Arrivals
    <2>4. Changes(state, <<[kind |-> "answer", call |-> c, ok |-> TRUE]>>)
      BY <1>7 DEF Lands, Answer
    <2> HIDE DEF state
    <2>5. light' = state /\ arriving' \in Seq(Arrivals)
      BY <2>2, <2>3, <2>4, ChangesIs
    <2>6. /\ UNCHANGED <<pushed, onOverride, pctOverride, token, send, visit, mounted, commands, acts, lightTroubles, wanted, disturbed, stranded>>
          /\ calls' \subseteq calls
      BY <1>7 DEF Lands, overrides, ghosts
    <2> QED
      BY <2>2, <2>5, <2>6 DEF LightTypeOK
  <1>8. ASSUME NEW c \in calls, Fails(c) PROVE LightTypeOK'
    <2>1. [kind |-> "answer", call |-> c, ok |-> FALSE] \in Arrivals
      BY DEF Arrivals, LightTypeOK
    <2>2. arriving' \in Seq(Arrivals)
      BY <1>8, <2>1, GrownByOne DEF Fails, Answer, LightTypeOK
    <2>3. lightTroubles' \in 0..MaxLightTroubles
      BY <1>2, <1>8 DEF Fails
    <2>4. disturbed' \in BOOLEAN
      BY <1>8 DEF Fails
    <2>5. /\ UNCHANGED <<light, pushed, onOverride, pctOverride, token, send, visit, mounted, commands, acts, wanted, stranded>>
          /\ calls' \subseteq calls
      BY <1>8 DEF Fails, overrides
    <2> QED
      BY <2>2, <2>3, <2>4, <2>5 DEF LightTypeOK
  <1>9. CASE Others
    <2>1. PICK state \in States : Changes(state, <<>>)
      BY <1>9 DEF Others
    <2>2. light' = state /\ arriving' \in Seq(Arrivals)
      BY <2>1, ChangesIs
    <2>3. lightTroubles' \in 0..MaxLightTroubles
      BY <1>2, <1>9 DEF Others
    <2>4. /\ UNCHANGED <<calls, pushed, onOverride, pctOverride, token, send, visit, mounted, commands, acts, wanted, stranded>>
          /\ disturbed' = TRUE
      BY <1>9 DEF Others, overrides
    <2> QED
      BY <2>2, <2>3, <2>4 DEF LightTypeOK
  <1>10. CASE Push
    <2>1. Head(arriving).state \in States /\ arriving' \in Seq(Arrivals) /\ pushed' = Head(arriving).state
      BY <1>10, FirstTaken, ArrivalsAre DEF Push
    <2>2. onOverride' \in BOOLEAN \cup {Nil} /\ pctOverride' \in Pcts \cup {Nil}
      BY <1>10, <2>1, OverrideIs DEF Push, LightTypeOK
    <2>3. UNCHANGED <<light, calls, token, send, visit, mounted, commands, acts, lightTroubles, wanted, disturbed, stranded>>
      BY <1>10 DEF Push, ghosts
    <2> QED
      BY <2>1, <2>2, <2>3 DEF LightTypeOK
  <1>11. CASE Switched
    <2>1. arriving' \in Seq(Arrivals)
      BY <1>11, FirstTaken DEF Switched
    <2>2. onOverride' \in BOOLEAN \cup {Nil}
      BY <1>11, Zenon DEF Switched, LightTypeOK
    <2>3. UNCHANGED <<light, calls, pushed, pctOverride, token, send, visit, mounted, commands, acts, lightTroubles, wanted, disturbed, stranded>>
      BY <1>11 DEF Switched, ghosts
    <2> QED
      BY <2>1, <2>2, <2>3 DEF LightTypeOK
  <1>12. CASE Dimmed
    <2> DEFINE c == Head(arriving).call
               s == send[c.visit]
               t == [s EXCEPT !.sending = FALSE, !.queued = Nil]
    <2>1. /\ arriving' \in Seq(Arrivals) /\ c.visit \in Visits
          /\ UNCHANGED <<light, pushed, visit, mounted, acts, lightTroubles, wanted>>
      BY <1>12, FirstTaken, ArrivalsAre DEF Dimmed
    <2>2. s \in Senders /\ t \in Senders /\ [s EXCEPT !.sending = FALSE] \in Senders
      BY <1>2, <2>1, SenderFields
    <2>3. CASE s.queued # Nil
      <3>1. /\ SendPct(c.visit, s.queued, t) /\ disturbed' = (disturbed \/ Overlap(c.visit)) /\ UNCHANGED stranded
            /\ Override(TRUE, s.queued, pushed) \/ UNCHANGED overrides
        BY <1>12, <2>3 DEF Dimmed
      <3>2. s.queued \in Pcts
        BY <2>2, <2>3, SenderFields
      <3> HIDE DEF t, s, c
      <3>3. commands' <= 2 * MaxActs
        BY <1>1, <1>2, <2>1, <3>1 DEF SendPct, Stamp
      <3>4. /\ commands' \in 0..(2 * MaxActs) /\ token' \in 0..commands'
            /\ send' \in [Visits -> Senders] /\ calls' \subseteq Calls
        BY <2>1, <2>2, <3>1, <3>2, <3>3, SendPctType
      <3>5. onOverride' \in BOOLEAN \cup {Nil} /\ pctOverride' \in Pcts \cup {Nil}
        BY <3>1, <3>2, OverrideType
      <3>6. disturbed' \in BOOLEAN
        BY <3>1 DEF Overlap
      <3> QED
        BY <2>1, <3>1, <3>4, <3>5, <3>6 DEF LightTypeOK
    <2>4. CASE s.queued = Nil
      <3>1. /\ send' = [send EXCEPT ![c.visit] = [s EXCEPT !.sending = FALSE]]
            /\ stranded' \in BOOLEAN /\ UNCHANGED <<calls, token, commands, disturbed>>
            /\ NoOverride \/ UNCHANGED overrides
        BY <1>12, <2>4 DEF Dimmed, LightTypeOK
      <3>2. send' \in [Visits -> Senders]
        BY <2>1, <2>2, <3>1 DEF LightTypeOK
      <3> HIDE DEF t, s, c
      <3>3. onOverride' \in BOOLEAN \cup {Nil} /\ pctOverride' \in Pcts \cup {Nil}
        BY <3>1, Zenon DEF LightTypeOK, NoOverride, overrides
      <3> QED
        BY <2>1, <3>1, <3>2, <3>3 DEF LightTypeOK
    <2> QED
      BY <2>3, <2>4
  <1>13. CASE UNCHANGED lightVars
    BY <1>13 DEF lightVars, LightTypeOK
  <1> QED
    BY <1>3, <1>4, <1>5, <1>6, <1>7, <1>8, <1>9, <1>10, <1>11, <1>12, <1>13 DEF LightNext

-----------------------------------------------------------------------------
(* What each visit has under way. *)

\* A held value is sent, or put in the queue.
LEMMA SenderSends ==
    ASSUME LightTypeOK, SenderInv, NEW p \in Pcts, NEW s \in Senders, UNCHANGED <<arriving, visit>>,
           s.pending = Nil, s.sending = send[visit].sending, s.queued = send[visit].queued,
           SendPct(visit, p, s)
    PROVE  SenderInv'
  <1>1. visit \in Visits /\ commands \in Nat
    BY DEF LightTypeOK
  <1>2. PICK t \in Senders :
                 /\ send' = [send EXCEPT ![visit] = t] /\ t.pending = s.pending /\ t.sending
                 /\ \/ s.sending /\ t.queued = p /\ calls' = calls
                    \/ /\ ~s.sending /\ t.queued = s.queued
                       /\ calls' = calls \cup {[id |-> commands + 1, visit |-> visit, kind |-> "pct", pct |-> p]}
    BY <1>1, SendPctIs
  <1> SUFFICES ASSUME NEW w \in Visits PROVE SenderOK(w)'
    BY DEF SenderInv
  <1>3. send'[w] = IF w = visit THEN t ELSE send[w]
    BY <1>1, <1>2 DEF LightTypeOK
  <1>4. SenderOK(w) /\ SenderOK(visit)
    BY <1>1 DEF SenderInv
  <1>5. CASE calls' = calls
    <2>1. Flying(w)' = Flying(w)
      BY <1>5 DEF Flying
    <2>2. s.sending
      <3>1. CASE ~s.sending
        <4> DEFINE c == [id |-> commands + 1, visit |-> visit, kind |-> "pct", pct |-> p]
        <4>1. c \in Flying(visit)
          BY <1>2, <1>5, <3>1 DEF Flying
        <4> QED
          BY <1>4, <3>1, <4>1 DEF SenderOK
      <3> QED
        BY <3>1
    <2> QED
      BY <1>2, <1>3, <1>4, <2>1, <2>2 DEF SenderOK
  <1>6. CASE ~s.sending
    <2> DEFINE c == [id |-> commands + 1, visit |-> visit, kind |-> "pct", pct |-> p]
    <2>1. calls' = calls \cup {c} /\ c.kind = "pct" /\ c.visit = visit /\ c.pct = p
      BY <1>2, <1>6
    <2> HIDE DEF c
    <2>2. Flying(w)' = IF w = visit THEN Flying(w) \cup {c} ELSE Flying(w)
      BY <2>1 DEF Flying
    <2>3. Flying(visit) = {} /\ send[visit].queued = Nil /\ \A i \in DOMAIN arriving : ~AnswersPct(arriving[i], visit)
      BY <1>4, <1>6 DEF SenderOK
    <2>4. t.queued = Nil
      BY <1>2, <1>6, <2>3
    <2> QED
      BY <1>2, <1>3, <1>4, <2>1, <2>2, <2>3, <2>4 DEF SenderOK
  <1> QED
    BY <1>2, <1>5, <1>6

\* A call ends and is answered, or something else arrives.
LEMMA SenderGrown ==
    ASSUME LightTypeOK, SenderInv, UNCHANGED <<send, visit, mounted>>,
           \A i \in DOMAIN arriving : i \in DOMAIN arriving' /\ arriving'[i] = arriving[i],
           \/ /\ calls' = calls
              /\ \A i \in DOMAIN arriving' \ DOMAIN arriving : arriving'[i].kind # "answer"
           \/ \E c \in calls, k \in DOMAIN arriving' \ DOMAIN arriving :
                 /\ calls' = calls \ {c} /\ arriving'[k].kind = "answer" /\ arriving'[k].call = c
                 /\ \A j \in DOMAIN arriving' \ DOMAIN arriving : arriving'[j].kind = "answer" => j = k
    PROVE  SenderInv'
  <1> SUFFICES ASSUME NEW v \in Visits PROVE SenderOK(v)'
    BY DEF SenderInv
  <1>1. SenderOK(v)
    BY DEF SenderInv
  <1>2. CASE calls' = calls /\ \A i \in DOMAIN arriving' \ DOMAIN arriving : arriving'[i].kind # "answer"
    <2>1. Flying(v)' = Flying(v)
      BY <1>2 DEF Flying
    <2>2. \A i \in DOMAIN arriving' : AnswersPct(arriving'[i], v) => i \in DOMAIN arriving /\ AnswersPct(arriving[i], v)
      BY <1>2 DEF AnswersPct
    <2>3. \A i \in DOMAIN arriving : AnswersPct(arriving[i], v) => i \in DOMAIN arriving' /\ AnswersPct(arriving'[i], v)
      OBVIOUS
    <2> QED
      BY <1>1, <2>1, <2>2, <2>3 DEF SenderOK
  <1>3. ASSUME NEW c \in calls, NEW k \in DOMAIN arriving', k \notin DOMAIN arriving,
               calls' = calls \ {c}, arriving'[k].kind = "answer", arriving'[k].call = c,
               \A j \in DOMAIN arriving' \ DOMAIN arriving : arriving'[j].kind = "answer" => j = k
        PROVE  SenderOK(v)'
    <2>1. \A i \in DOMAIN arriving' : AnswersPct(arriving'[i], v) =>
              \/ i \in DOMAIN arriving /\ AnswersPct(arriving[i], v)
              \/ i = k /\ c.kind = "pct" /\ c.visit = v
      BY <1>3 DEF AnswersPct
    <2>2. \A i \in DOMAIN arriving : AnswersPct(arriving[i], v) => i \in DOMAIN arriving' /\ AnswersPct(arriving'[i], v)
      OBVIOUS
    <2>3. CASE c.kind = "pct" /\ c.visit = v
      <3>1. c \in Flying(v)
        BY <2>3 DEF Flying
      <3>2. Flying(v)' = {}
        BY <1>1, <1>3, <2>3, <3>1 DEF Flying, SenderOK
      <3>3. AnswersPct(arriving'[k], v)
        BY <1>3, <2>3 DEF AnswersPct
      <3>4. \A i \in DOMAIN arriving' : AnswersPct(arriving'[i], v) => i = k
        BY <1>1, <2>1, <3>1 DEF SenderOK
      <3> QED
        BY <1>1, <3>1, <3>2, <3>3, <3>4 DEF SenderOK
    <2>4. CASE ~(c.kind = "pct" /\ c.visit = v)
      <3>1. Flying(v)' = Flying(v)
        BY <1>3, <2>4 DEF Flying
      <3> QED
        BY <1>1, <2>1, <2>2, <2>4, <3>1 DEF SenderOK
    <2> QED
      BY <2>3, <2>4
  <1> QED
    BY <1>2, <1>3

\* Where an answer was and is, when the first message has been taken.
LEMMA AnswersTaken ==
    ASSUME LightTypeOK, arriving # <<>>, arriving' = Tail(arriving), NEW v
    PROVE  /\ \A i \in DOMAIN arriving' : AnswersPct(arriving'[i], v) =>
                 i \in Nat /\ i + 1 \in DOMAIN arriving /\ i + 1 # 1 /\ AnswersPct(arriving[i + 1], v)
           /\ \A i \in DOMAIN arriving : AnswersPct(arriving[i], v) =>
                 i \in Nat /\ (i = 1 \/ \E j \in DOMAIN arriving' : AnswersPct(arriving'[j], v))
  BY FirstTaken

LEMMA SenderTaken ==
    ASSUME LightTypeOK, SenderInv, UNCHANGED <<send, calls, visit, mounted>>, arriving # <<>>, arriving' = Tail(arriving),
           \A v \in Visits : ~AnswersPct(Head(arriving), v)
    PROVE  SenderInv'
  <1> SUFFICES ASSUME NEW v \in Visits PROVE SenderOK(v)'
    BY DEF SenderInv
  <1>1. SenderOK(v) /\ Flying(v)' = Flying(v) /\ ~AnswersPct(arriving[1], v)
    BY FirstTaken DEF SenderInv, Flying
  <1>2. /\ \A i \in DOMAIN arriving' : AnswersPct(arriving'[i], v) =>
              i \in Nat /\ i + 1 \in DOMAIN arriving /\ i + 1 # 1 /\ AnswersPct(arriving[i + 1], v)
        /\ \A i \in DOMAIN arriving : AnswersPct(arriving[i], v) => \E j \in DOMAIN arriving' : AnswersPct(arriving'[j], v)
    BY <1>1, AnswersTaken
  <1>3. ASSUME NEW i \in DOMAIN arriving', NEW j \in DOMAIN arriving', AnswersPct(arriving'[i], v), AnswersPct(arriving'[j], v)
        PROVE  i = j
    <2>1. i + 1 = j + 1 /\ i \in Nat /\ j \in Nat
      BY <1>1, <1>2, <1>3 DEF SenderOK
    <2> QED
      BY <2>1
  <1> QED
    BY <1>1, <1>2, <1>3 DEF SenderOK

\* The answer to a brightness: the one that waits is sent, or there is none under way.
LEMMA SenderDimmed ==
    ASSUME LightTypeOK, SenderInv, Dimmed
    PROVE  SenderInv'
  <1>0. PICK v \in Visits : v = Head(arriving).call.visit
    BY FirstTaken, ArrivalsAre DEF Dimmed
  <1> DEFINE s == [send[v] EXCEPT !.sending = FALSE, !.queued = Nil]
             u == [send[v] EXCEPT !.sending = FALSE]
  <1>1. /\ arriving # <<>> /\ arriving' = Tail(arriving) /\ UNCHANGED <<visit, mounted>>
        /\ AnswersPct(arriving[1], v) /\ 1 \in DOMAIN arriving
        /\ \/ send[v].queued # Nil /\ SendPct(v, send[v].queued, s)
           \/ send[v].queued = Nil /\ send' = [send EXCEPT ![v] = u] /\ calls' = calls
    BY <1>0, FirstTaken DEF Dimmed, AnswersPct
  <1>2. /\ s \in Senders /\ s.pending = send[v].pending /\ ~s.sending /\ s.queued = Nil
        /\ u \in Senders /\ u.pending = send[v].pending /\ ~u.sending /\ u.queued = send[v].queued
        /\ send[v].queued \in Pcts \cup {Nil}
    <2>1. send[v] \in Senders
      BY DEF LightTypeOK
    <2> QED
      BY <2>1, SenderFields DEF Senders
  <1> HIDE DEF s, u
  <1>3. /\ Flying(v) = {}
        /\ \A i \in DOMAIN arriving' : ~AnswersPct(arriving'[i], v)
    <2>1. Flying(v) = {} /\ \A i \in DOMAIN arriving : AnswersPct(arriving[i], v) => i = 1
      BY <1>1 DEF SenderInv, SenderOK
    <2> QED
      BY <1>1, <2>1, AnswersTaken
  <1>4. ASSUME NEW w \in Visits \ {v}, send'[w] = send[w], Flying(w)' = Flying(w) PROVE SenderOK(w)'
    <2>1. SenderOK(w) /\ ~AnswersPct(arriving[1], w)
      BY <1>1, <1>4 DEF SenderInv, AnswersPct
    <2>2. /\ \A i \in DOMAIN arriving' : AnswersPct(arriving'[i], w) =>
              i \in Nat /\ i + 1 \in DOMAIN arriving /\ i + 1 # 1 /\ AnswersPct(arriving[i + 1], w)
          /\ \A i \in DOMAIN arriving : AnswersPct(arriving[i], w) => \E j \in DOMAIN arriving' : AnswersPct(arriving'[j], w)
      BY <1>1, <2>1, AnswersTaken
    <2>3. ASSUME NEW i \in DOMAIN arriving', NEW j \in DOMAIN arriving', AnswersPct(arriving'[i], w), AnswersPct(arriving'[j], w)
          PROVE  i = j
      <3>1. i + 1 = j + 1 /\ i \in Nat /\ j \in Nat
        BY <2>1, <2>2, <2>3 DEF SenderOK
      <3> QED
        BY <3>1
    <2> QED
      BY <1>1, <1>4, <2>1, <2>2, <2>3 DEF SenderOK
  <1>5. CASE send[v].queued # Nil
    <2>1. PICK t \in Senders :
                 /\ send' = [send EXCEPT ![v] = t] /\ t.pending = s.pending /\ t.sending /\ t.queued = Nil
                 /\ calls' = calls \cup {[id |-> commands + 1, visit |-> v, kind |-> "pct", pct |-> send[v].queued]}
      BY <1>1, <1>2, <1>5, SendPctIs
    <2> DEFINE c == [id |-> commands + 1, visit |-> v, kind |-> "pct", pct |-> send[v].queued]
    <2>2. calls' = calls \cup {c} /\ c.kind = "pct" /\ c.visit = v /\ c.pct \in Pcts
      BY <1>2, <1>5, <2>1
    <2> HIDE DEF c
    <2>3. Flying(v)' = {c} /\ \A w \in Visits \ {v} : Flying(w)' = Flying(w)
      BY <1>3, <2>2 DEF Flying
    <2>4. send'[v] = t /\ \A w \in Visits \ {v} : send'[w] = send[w]
      BY <1>1, <2>1 DEF LightTypeOK
    <2>5. SenderOK(v)
      BY <1>1 DEF SenderInv
    <2>6. SenderOK(v)'
      BY <1>1, <1>2, <1>3, <2>1, <2>2, <2>3, <2>4, <2>5 DEF SenderOK
    <2> QED
      BY <1>4, <2>3, <2>4, <2>6 DEF SenderInv
  <1>6. CASE send[v].queued = Nil
    <2>1. send' = [send EXCEPT ![v] = u] /\ calls' = calls
      BY <1>1, <1>6
    <2>2. \A w \in Visits : Flying(w)' = Flying(w)
      BY <2>1 DEF Flying
    <2>3. send'[v] = u /\ \A w \in Visits \ {v} : send'[w] = send[w]
      BY <1>1, <2>1 DEF LightTypeOK
    <2>4. SenderOK(v)
      BY <1>1 DEF SenderInv
    <2>5. SenderOK(v)'
      BY <1>1, <1>2, <1>3, <1>6, <2>2, <2>3, <2>4 DEF SenderOK
    <2> QED
      BY <1>4, <2>2, <2>3, <2>5 DEF SenderInv
  <1> QED
    BY <1>5, <1>6

LEMMA SenderStep ==
    ASSUME LightTypeOK, SenderInv, [LightNext]_lightVars
    PROVE  SenderInv'
  <1>1. /\ visit \in Visits /\ \A w \in Visits : send[w] \in Senders /\ SenderOK(w)
    BY DEF LightTypeOK, SenderInv
  <1>2. ASSUME UNCHANGED <<send, arriving>>, \A w \in Visits : Flying(w)' = Flying(w),
               UNCHANGED <<visit, mounted>> \/ \A w \in Visits : send[w].pending = Nil
        PROVE  SenderInv'
    BY <1>1, <1>2 DEF SenderInv, SenderOK
  <1>3. CASE Toggle
    <2>1. \A w \in Visits : Flying(w)' = Flying(w)
      BY <1>3 DEF Toggle, Issue, Flying
    <2> QED
      BY <1>2, <1>3, <2>1 DEF Toggle
  <1> DEFINE s == [send[visit] EXCEPT !.pending = Nil]
  <1>4. s \in Senders /\ s.pending = Nil /\ s.sending = send[visit].sending /\ s.queued = send[visit].queued
    BY <1>1, SenderFields DEF Senders
  <1> HIDE DEF s
  <1>5. ASSUME NEW p \in Pcts, Slide(p) PROVE SenderInv'
    <2>1. UNCHANGED <<arriving, visit, mounted>> /\ mounted
      BY <1>5 DEF Slide
    <2>2. CASE SendPct(visit, p, s)
      BY <1>4, <2>1, <2>2, SenderSends
    <2>3. CASE send' = [send EXCEPT ![visit].pending = p] /\ UNCHANGED calls
      <3> DEFINE t == [send[visit] EXCEPT !.pending = p]
      <3>1. t.sending = send[visit].sending /\ t.queued = send[visit].queued /\ send' = [send EXCEPT ![visit] = t]
        BY <1>1, <2>3 DEF Senders
      <3> HIDE DEF t
      <3>2. \A w \in Visits : send'[w] = IF w = visit THEN t ELSE send[w]
        BY <3>1 DEF LightTypeOK
      <3>3. \A w \in Visits : Flying(w)' = Flying(w)
        BY <2>3 DEF Flying
      <3> QED
        BY <1>1, <2>1, <3>1, <3>2, <3>3 DEF SenderInv, SenderOK
    <2> QED
      BY <1>5, <2>2, <2>3 DEF Slide, s
  <1>6. CASE TimerSends \/ (Leave /\ send[visit].pending # Nil)
    <2>1. SendPct(visit, send[visit].pending, s) /\ send[visit].pending \in Pcts /\ UNCHANGED <<arriving, visit>>
      BY <1>1, <1>6, SenderFields DEF TimerSends, Leave, s
    <2> QED
      BY <1>4, <2>1, SenderSends
  <1>7. CASE Leave /\ send[visit].pending = Nil
    <2>1. UNCHANGED <<send, arriving, calls>> /\ \A w \in Visits : send[w].pending = Nil
      BY <1>1, <1>7 DEF Leave, SenderOK
    <2> QED
      BY <1>2, <2>1 DEF Flying
  <1>8. CASE Return
    <2>1. UNCHANGED <<send, arriving, calls>> /\ \A w \in Visits : send[w].pending = Nil
      BY <1>1, <1>8 DEF Return, SenderOK
    <2> QED
      BY <1>2, <2>1 DEF Flying
  <1>9. ASSUME NEW c \in calls, Lands(c) PROVE SenderInv'
    <2> DEFINE state == IF c.kind = "pct" THEN [on |-> TRUE, pct |-> c.pct] ELSE [light EXCEPT !.on = c.kind = "on"]
               a == [kind |-> "answer", call |-> c, ok |-> TRUE]
    <2>1. c \in Calls /\ c.visit \in Visits /\ (c.kind = "pct" => c.pct \in Pcts)
      BY <1>1 DEF LightTypeOK, SenderOK, Flying, Calls
    <2>2. state \in States
      BY <2>1 DEF States, LightTypeOK
    <2>3. a \in Arrivals /\ a.kind = "answer" /\ a.call = c /\ <<a>>[1] = a /\ <<a>> # <<>>
      BY <2>1 DEF Arrivals
    <2>4. Changes(state, <<a>>) /\ calls' = calls \ {c} /\ UNCHANGED <<send, visit, mounted>>
      BY <1>9 DEF Lands, Answer
    <2> HIDE DEF state, a
    <2>5. /\ \A i \in DOMAIN arriving : i \in DOMAIN arriving' /\ arriving'[i] = arriving[i]
          /\ \E k \in DOMAIN arriving' \ DOMAIN arriving :
                 /\ arriving'[k] = a
                 /\ \A j \in DOMAIN arriving' \ DOMAIN arriving : arriving'[j].kind = "answer" => k = j
      BY <2>2, <2>3, <2>4, ChangesIs
    <2> QED
      BY <2>3, <2>4, <2>5, SenderGrown
  <1>10. ASSUME NEW c \in calls, Fails(c) PROVE SenderInv'
    <2> DEFINE a == [kind |-> "answer", call |-> c, ok |-> FALSE]
               n == Len(arriving) + 1
    <2>1. a \in Arrivals /\ a.kind = "answer" /\ a.call = c
      BY DEF Arrivals, LightTypeOK
    <2>2. arriving' = arriving \o <<a>> /\ calls' = calls \ {c} /\ UNCHANGED <<send, visit, mounted>>
      BY <1>10 DEF Fails, Answer
    <2> HIDE DEF a
    <2>3. /\ \A i \in DOMAIN arriving : i \in DOMAIN arriving' /\ arriving'[i] = arriving[i]
          /\ n \in DOMAIN arriving' /\ n \notin DOMAIN arriving /\ arriving'[n] = a
          /\ \A j \in DOMAIN arriving' \ DOMAIN arriving : j = n
      BY <2>1, <2>2, GrownByOne DEF LightTypeOK
    <2> HIDE DEF n
    <2> QED
      BY <2>1, <2>2, <2>3, SenderGrown
  <1>11. CASE Others
    <2>1. PICK state \in States : Changes(state, <<>>)
      BY <1>11 DEF Others
    <2>2. /\ \A i \in DOMAIN arriving : i \in DOMAIN arriving' /\ arriving'[i] = arriving[i]
          /\ \A i \in DOMAIN arriving' \ DOMAIN arriving : arriving'[i] = [kind |-> "push", state |-> state]
      BY <2>1, ChangesIs
    <2>3. \A i \in DOMAIN arriving' \ DOMAIN arriving : arriving'[i].kind # "answer"
      BY <2>2
    <2> QED
      BY <1>11, <2>2, <2>3, SenderGrown DEF Others
  <1>12. CASE Push \/ Switched
    <2>1. \A v \in Visits : ~AnswersPct(Head(arriving), v)
      BY <1>12 DEF Push, Switched, AnswersPct
    <2> QED
      BY <1>12, <2>1, SenderTaken DEF Push, Switched
  <1>13. CASE UNCHANGED lightVars
    BY <1>2, <1>13 DEF lightVars, Flying
  <1> QED
    BY <1>3, <1>5, <1>6, <1>7, <1>8, <1>9, <1>10, <1>11, <1>12, <1>13, SenderDimmed DEF LightNext

-----------------------------------------------------------------------------
(* Where the value is that was dragged to last. *)

\* It is sent, and nothing else is under way.
LEMMA CarrySends ==
    ASSUME LightTypeOK, SenderInv, NEW p \in Pcts, NEW s \in Senders, wanted' = p, visit' = visit,
           s.pending = Nil, s.sending = send[visit].sending, s.queued = send[visit].queued,
           SendPct(visit, p, s), disturbed' \/ ~Overlap(visit)
    PROVE  CarryInv'
  <1>1. visit \in Visits /\ SenderOK(visit)
    BY DEF LightTypeOK, SenderInv
  <1>2. PICK t \in Senders :
                 /\ send' = [send EXCEPT ![visit] = t] /\ t.pending = s.pending /\ t.sending
                 /\ \/ s.sending /\ t.queued = p /\ calls' = calls
                    \/ /\ ~s.sending /\ t.queued = s.queued
                       /\ calls' = calls \cup {[id |-> commands + 1, visit |-> visit, kind |-> "pct", pct |-> p]}
    BY <1>1, SendPctIs
  <1>3. \A w \in Visits : send'[w] = IF w = visit THEN t ELSE send[w]
    BY <1>1, <1>2 DEF LightTypeOK
  <1> SUFFICES ASSUME ~disturbed'
               PROVE  /\ send'[visit].pending = Nil /\ Alone(visit)'
                      /\ \/ send'[visit].queued = p
                         \/ send'[visit].queued = Nil /\ \E c \in Flying(visit)' : c.pct = p
    BY <1>1 DEF CarryInv
  <1>4. Alone(visit)'
    BY <1>3 DEF Alone, Overlap
  <1>5. CASE ~s.sending /\ calls' = calls \cup {[id |-> commands + 1, visit |-> visit, kind |-> "pct", pct |-> p]}
    <2> DEFINE c == [id |-> commands + 1, visit |-> visit, kind |-> "pct", pct |-> p]
    <2>1. c \in Flying(visit)' /\ c.pct = p
      BY <1>5 DEF Flying
    <2>2. send[visit].queued = Nil
      BY <1>1, <1>5 DEF SenderOK
    <2>3. t.queued = Nil
      BY <1>2, <1>5, <2>2
    <2> HIDE DEF c
    <2> QED
      BY <1>1, <1>2, <1>3, <1>4, <2>1, <2>3
  <1> QED
    BY <1>1, <1>2, <1>3, <1>4, <1>5

LEMMA CarryStep ==
    ASSUME LightTypeOK, SenderInv, CarryInv, [LightNext]_lightVars
    PROVE  CarryInv'
  <1>1. /\ visit \in Visits /\ \A w \in Visits : send[w] \in Senders /\ SenderOK(w)
    BY DEF LightTypeOK, SenderInv
  <1>2. ASSUME UNCHANGED <<send, visit, wanted>>, light'.pct = light.pct, disturbed => disturbed',
               \A w \in Visits : Flying(w)' = Flying(w)
        PROVE  CarryInv'
    BY <1>2 DEF CarryInv, Alone
  <1>3. CASE Toggle
    <2>1. \A w \in Visits : Flying(w)' = Flying(w)
      BY <1>3 DEF Toggle, Issue, Flying
    <2> QED
      BY <1>2, <1>3, <2>1 DEF Toggle, ghosts
  <1> DEFINE s == [send[visit] EXCEPT !.pending = Nil]
  <1>4. s \in Senders /\ s.pending = Nil /\ s.sending = send[visit].sending /\ s.queued = send[visit].queued
    BY <1>1, SenderFields DEF Senders
  <1> HIDE DEF s
  <1>5. ASSUME NEW p \in Pcts, Slide(p) PROVE CarryInv'
    <2>1. wanted' = p /\ visit' = visit
      BY <1>5 DEF Slide
    <2>2. CASE SendPct(visit, p, s) /\ disturbed' = Overlap(visit)
      BY <1>4, <2>1, <2>2, CarrySends
    <2>3. CASE send' = [send EXCEPT ![visit].pending = p]
      <3>1. send'[visit].pending = p
        BY <1>1, <2>3 DEF LightTypeOK, Senders
      <3> QED
        BY <2>1, <3>1 DEF CarryInv
    <2> QED
      BY <1>5, <2>2, <2>3 DEF Slide, s
  <1>6. CASE TimerSends \/ (Leave /\ send[visit].pending # Nil)
    <2>1. /\ SendPct(visit, send[visit].pending, s) /\ send[visit].pending \in Pcts /\ UNCHANGED <<visit, wanted>>
          /\ disturbed' = (disturbed \/ Overlap(visit)) /\ send[visit].pending # Nil
      BY <1>1, <1>6, SenderFields DEF TimerSends, Leave, s
    <2>2. CASE disturbed' \/ wanted = Nil
      BY <2>1, <2>2 DEF CarryInv
    <2>3. CASE ~disturbed' /\ wanted # Nil
      <3>1. wanted' = send[visit].pending /\ ~Overlap(visit)
        BY <2>1, <2>3 DEF CarryInv
      <3> QED
        BY <1>4, <2>1, <3>1, CarrySends
    <2> QED
      BY <2>2, <2>3
  <1>7. CASE Leave /\ send[visit].pending = Nil
    BY <1>2, <1>7 DEF Leave, Flying
  <1>8. CASE Return
    <2>1. /\ UNCHANGED <<light, calls, send, wanted, disturbed>>
          /\ send'[visit'].pending = Nil /\ send[visit].pending = Nil
      <3>1. visit' \in Visits /\ ~mounted /\ send' = send
        BY <1>1, <1>8, LightConstants DEF Return, Visits
      <3> QED
        BY <1>1, <1>8, <3>1 DEF Return, SenderOK
    <2>2. \A w \in Visits : Flying(w)' = Flying(w)
      BY <2>1 DEF Flying
    <2> QED
      BY <2>1, <2>2 DEF CarryInv, Alone
  <1>9. ASSUME NEW c \in calls, Lands(c) PROVE CarryInv'
    <2>1. /\ UNCHANGED <<send, visit, wanted, disturbed>> /\ calls' = calls \ {c}
          /\ light' = IF c.kind = "pct" THEN [on |-> TRUE, pct |-> c.pct] ELSE [light EXCEPT !.on = c.kind = "on"]
      BY <1>9 DEF Lands, Changes, ghosts
    <2>2. CASE c.kind # "pct"
      <3>1. \A w \in Visits : Flying(w)' = Flying(w)
        BY <2>1, <2>2 DEF Flying
      <3>2. light'.pct = light.pct
        BY <2>1, <2>2 DEF LightTypeOK, States
      <3> QED
        BY <1>2, <2>1, <3>1, <3>2
    <2>3. CASE c.kind = "pct"
      <3>1. PICK u \in Visits : c.visit = u
        BY DEF LightTypeOK, Calls
      <3>2. c \in Flying(u) /\ send[u].sending /\ light'.pct = c.pct
        BY <1>1, <2>1, <2>3, <3>1 DEF Flying, SenderOK
      <3> SUFFICES ASSUME ~disturbed, wanted # Nil PROVE CarryInv'
        BY <2>1 DEF CarryInv
      <3>3. CASE send[visit].pending = wanted
        BY <2>1, <3>3 DEF CarryInv
      <3>4. ASSUME NEW v \in Visits, send[visit].pending = Nil, Alone(v), send[v].queued = wanted PROVE CarryInv'
        BY <2>1, <3>4 DEF CarryInv, Alone
      <3>5. ASSUME NEW v \in Visits, send[visit].pending = Nil, Alone(v), send[v].queued = Nil,
                   NEW d \in Flying(v), d.pct = wanted
            PROVE  CarryInv'
        <4>1. u = v
          BY <3>2, <3>5 DEF Alone
        <4>2. d = c
          BY <1>1, <3>2, <3>5, <4>1 DEF SenderOK
        <4>3. \A w \in Visits : send[w].queued = Nil /\ Flying(w) \subseteq {c}
          BY <1>1, <3>2, <3>5, <4>1 DEF SenderOK, Alone
        <4>4. \A w \in Visits : Flying(w)' = {}
          BY <2>1, <4>3 DEF Flying
        <4> QED
          BY <2>1, <3>2, <3>5, <4>2, <4>3, <4>4 DEF CarryInv
      <3> QED
        BY <3>2, <3>3, <3>4, <3>5 DEF CarryInv
    <2> QED
      BY <2>2, <2>3
  <1>10. ASSUME NEW c \in calls, Fails(c) PROVE CarryInv'
    <2>1. CASE c.kind = "pct"
      BY <1>10, <2>1 DEF Fails, CarryInv
    <2>2. CASE c.kind # "pct"
      <3>1. \A w \in Visits : Flying(w)' = Flying(w)
        BY <1>10, <2>2 DEF Fails, Flying
      <3> QED
        BY <1>2, <1>10, <3>1 DEF Fails
    <2> QED
      BY <2>1, <2>2
  <1>11. CASE Others
    BY <1>11 DEF Others, CarryInv
  <1>12. CASE Push \/ Switched \/ UNCHANGED lightVars
    BY <1>2, <1>12 DEF Push, Switched, ghosts, lightVars, Flying
  <1>13. CASE Dimmed
    <2>1. PICK v \in Visits : v = Head(arriving).call.visit
      BY <1>13, FirstTaken, ArrivalsAre DEF Dimmed
    <2> DEFINE s2 == [send[v] EXCEPT !.sending = FALSE, !.queued = Nil]
               u == [send[v] EXCEPT !.sending = FALSE]
    <2>2. /\ UNCHANGED <<light, visit, wanted>> /\ send[v].sending
          /\ \/ /\ send[v].queued # Nil /\ SendPct(v, send[v].queued, s2)
                /\ disturbed' = (disturbed \/ Overlap(v))
             \/ send[v].queued = Nil /\ send' = [send EXCEPT ![v] = u] /\ calls' = calls /\ disturbed' = disturbed
      <3>1. 1 \in DOMAIN arriving /\ AnswersPct(arriving[1], v)
        BY <1>13, <2>1, FirstTaken DEF Dimmed, AnswersPct
      <3>2. send[v].sending
        BY <1>1, <3>1 DEF SenderOK
      <3> QED
        BY <1>13, <2>1, <3>2 DEF Dimmed
    <2>3. /\ s2 \in Senders /\ s2.pending = send[v].pending /\ ~s2.sending /\ s2.queued = Nil
          /\ u \in Senders /\ u.pending = send[v].pending /\ ~u.sending /\ u.queued = send[v].queued
          /\ send[v].queued \in Pcts \cup {Nil}
      <3>1. send[v] \in Senders
        BY <1>1
      <3>2. s2 \in Senders /\ u \in Senders /\ send[v].queued \in Pcts \cup {Nil}
        BY <3>1, SenderFields
      <3> QED
        BY <3>1, <3>2, AnsweredFields
    <2> HIDE DEF s2, u
    <2> SUFFICES ASSUME ~disturbed', wanted # Nil PROVE CarryInv'
      BY <2>2 DEF CarryInv
    <2>4. CASE send[v].queued # Nil
      <3>1. PICK t \in Senders :
                   /\ send' = [send EXCEPT ![v] = t] /\ t.pending = s2.pending /\ t.queued = Nil
                   /\ calls' = calls \cup {[id |-> commands + 1, visit |-> v, kind |-> "pct", pct |-> send[v].queued]}
        BY <2>2, <2>3, <2>4, SendPctIs
      <3>2. \A w \in Visits : send'[w] = IF w = v THEN t ELSE send[w]
        BY <3>1 DEF LightTypeOK
      <3> DEFINE c == [id |-> commands + 1, visit |-> v, kind |-> "pct", pct |-> send[v].queued]
      <3>3. c \in Flying(v)' /\ c.pct = send[v].queued
        BY <3>1 DEF Flying
      <3> HIDE DEF c
      <3>4. CASE send[visit].pending = wanted
        BY <1>1, <2>2, <2>3, <3>1, <3>2, <3>4 DEF CarryInv
      <3>5. ASSUME NEW w \in Visits, send[visit].pending = Nil, Alone(w),
                   send[w].queued = wanted \/ send[w].queued = Nil
            PROVE  CarryInv'
        <4>1. w = v /\ send[v].queued = wanted
          BY <2>2, <2>4, <3>5 DEF Alone
        <4>2. Alone(v)'
          BY <3>2, <3>5, <4>1 DEF Alone
        <4>3. send'[visit].pending = Nil
          BY <1>1, <2>3, <3>1, <3>2, <3>5
        <4> QED
          BY <2>2, <3>1, <3>2, <3>3, <4>1, <4>2, <4>3 DEF CarryInv
      <3> QED
        BY <2>2, <2>4, <3>4, <3>5 DEF CarryInv
    <2>5. CASE send[v].queued = Nil
      <3>1. \A w \in Visits : /\ send'[w].pending = send[w].pending /\ send'[w].queued = send[w].queued
                              /\ send'[w].sending => send[w].sending
                              /\ Flying(w)' = Flying(w)
        BY <2>2, <2>3, <2>5 DEF LightTypeOK, Flying
      <3> QED
        BY <1>1, <2>2, <2>5, <3>1 DEF CarryInv, Alone
    <2> QED
      BY <2>4, <2>5
  <1> QED
    BY <1>3, <1>5, <1>6, <1>7, <1>8, <1>9, <1>10, <1>11, <1>12, <1>13 DEF LightNext

-----------------------------------------------------------------------------
(* What was pushed, and what is shown instead of it. *)

LEMMA OverrideKeeps ==
    ASSUME NEW on \in BOOLEAN \cup {Nil}, NEW pct \in Pcts \cup {Nil}, NEW state \in States,
           Override(on, pct, state), pushed' = state, mounted'
    PROVE  OverrideInv'
  <1>1. /\ onOverride' # Nil => onOverride' = on /\ on # state.on
        /\ pctOverride' # Nil => pctOverride' = pct /\ pct # RealPct(state)
    BY OverrideIs
  <1>2. onOverride' # Nil => mounted' /\ onOverride' # pushed'.on
    BY <1>1, Zenon
  <1>3. pctOverride' # Nil => mounted' /\ pctOverride' # RealPct(pushed')
    BY <1>1, Zenon
  <1> QED
    BY <1>2, <1>3 DEF OverrideInv

LEMMA OverrideStep ==
    ASSUME LightTypeOK, SenderInv, OverrideInv, [LightNext]_lightVars
    PROVE  OverrideInv'
  <1>1. /\ pushed \in States /\ visit \in Visits /\ send[visit] \in Senders
        /\ onOverride \in BOOLEAN \cup {Nil} /\ pctOverride \in Pcts \cup {Nil}
        /\ TRUE \in BOOLEAN \cup {Nil}
    BY DEF LightTypeOK
  <1>2. ASSUME NoOverride PROVE OverrideInv'
    BY <1>2 DEF NoOverride, OverrideInv
  <1>3. ASSUME UNCHANGED <<onOverride, pctOverride, pushed, mounted>> PROVE OverrideInv'
    BY <1>3 DEF OverrideInv
  <1>4. CASE Toggle
    <2>1. mounted' /\ pushed' = pushed /\ Override(~On, pctOverride, pushed) /\ (~On) \in BOOLEAN \cup {Nil}
      BY <1>4, OnType DEF Toggle
    <2> QED
      BY <1>1, <2>1, OverrideKeeps
  <1>5. ASSUME NEW p \in Pcts, Slide(p) PROVE OverrideInv'
    <2>1. mounted' /\ pushed' = pushed /\ (Override(TRUE, p, pushed) \/ Override(onOverride, p, pushed))
      BY <1>5 DEF Slide
    <2> QED
      BY <1>1, <2>1, OverrideKeeps
  <1>6. CASE TimerSends
    <2>1. /\ mounted' /\ pushed' = pushed /\ send[visit].pending \in Pcts
          /\ Override(TRUE, send[visit].pending, pushed)
      BY <1>1, <1>6, SenderFields DEF TimerSends
    <2> QED
      BY <1>1, <2>1, OverrideKeeps
  <1>7. CASE Leave
    BY <1>2, <1>7 DEF Leave
  <1>8. CASE Return
    BY <1>8 DEF Return, overrides, OverrideInv
  <1>9. ASSUME NEW c \in calls, Lands(c) \/ Fails(c) PROVE OverrideInv'
    BY <1>3, <1>9 DEF Lands, Fails, overrides
  <1>10. CASE Others \/ UNCHANGED lightVars
    BY <1>3, <1>10 DEF Others, overrides, lightVars
  <1>11. CASE Push
    <2>1. /\ Head(arriving).state \in States /\ pushed' = Head(arriving).state /\ mounted' = mounted
          /\ Override(onOverride, pctOverride, Head(arriving).state)
      BY <1>11, FirstTaken, ArrivalsAre DEF Push
    <2>2. CASE mounted
      BY <1>1, <2>1, <2>2, OverrideKeeps
    <2>3. CASE ~mounted
      <3>1. onOverride = Nil /\ pctOverride = Nil
        BY <2>3 DEF OverrideInv
      <3>2. onOverride' = Nil /\ pctOverride' = Nil
        BY <1>1, <2>1, <3>1, OverrideIs
      <3> QED
        BY <3>2 DEF OverrideInv
    <2> QED
      BY <2>2, <2>3
  <1>12. CASE Switched
    <2>1. UNCHANGED <<pushed, pctOverride, mounted>> /\ (onOverride' = Nil \/ onOverride' = onOverride)
      BY <1>12, Zenon DEF Switched
    <2> QED
      BY <2>1 DEF OverrideInv
  <1>13. CASE Dimmed
    <2>1. PICK v \in Visits : v = Head(arriving).call.visit
      BY <1>13, FirstTaken, ArrivalsAre DEF Dimmed
    <2>2. UNCHANGED <<pushed, mounted>>
      BY <1>13 DEF Dimmed
    <2>3. \/ NoOverride \/ UNCHANGED overrides
          \/ mounted /\ send[v].queued # Nil /\ Override(TRUE, send[v].queued, pushed)
      BY <1>13, <2>1 DEF Dimmed
    <2>4. ASSUME mounted, send[v].queued # Nil, Override(TRUE, send[v].queued, pushed) PROVE OverrideInv'
      <3>1. send[v].queued \in Pcts
        BY <2>4, SenderFields DEF LightTypeOK
      <3> QED
        BY <1>1, <2>2, <2>4, <3>1, OverrideKeeps
    <2> QED
      BY <1>2, <1>3, <2>2, <2>3, <2>4 DEF overrides
  <1> QED
    BY <1>4, <1>5, <1>6, <1>7, <1>8, <1>9, <1>10, <1>11, <1>12, <1>13 DEF LightNext

\* The light changes and the change is pushed last, or it does not change.
LEMMA PushGrown ==
    ASSUME PushInv, pushed' = pushed, NEW state, light' = state,
           \A i \in DOMAIN arriving : i \in DOMAIN arriving' /\ arriving'[i] = arriving[i],
           state = light => \A i \in DOMAIN arriving' \ DOMAIN arriving : ~IsPush(arriving'[i]),
           state # light => \E i \in DOMAIN arriving' :
                 /\ arriving'[i] = [kind |-> "push", state |-> state]
                 /\ \A j \in DOMAIN arriving' : IsPush(arriving'[j]) => j <= i
    PROVE  PushInv'
  <1>1. CASE state # light
    <2>1. PICK i \in DOMAIN arriving' : /\ arriving'[i] = [kind |-> "push", state |-> state]
                                        /\ \A j \in DOMAIN arriving' : IsPush(arriving'[j]) => j <= i
      BY <1>1
    <2>2. IsPush(arriving'[i]) /\ arriving'[i].state = light'
      BY <2>1 DEF IsPush
    <2> QED
      BY <2>1, <2>2 DEF PushInv, IsPush
  <1>2. CASE state = light
    BY <1>2 DEF PushInv, IsPush
  <1> QED
    BY <1>1, <1>2

LEMMA PushStep ==
    ASSUME LightTypeOK, SenderInv, PushInv, [LightNext]_lightVars
    PROVE  PushInv'
  <1>1. ASSUME UNCHANGED <<light, pushed, arriving>> PROVE PushInv'
    BY <1>1 DEF PushInv, IsPush
  <1>2. CASE Toggle \/ TimerSends \/ Leave \/ Return \/ (\E p \in Pcts : Slide(p)) \/ UNCHANGED lightVars
    BY <1>1, <1>2 DEF Toggle, TimerSends, Leave, Return, Slide, lightVars
  <1>3. ASSUME NEW c \in calls, Lands(c) PROVE PushInv'
    <2> DEFINE state == IF c.kind = "pct" THEN [on |-> TRUE, pct |-> c.pct] ELSE [light EXCEPT !.on = c.kind = "on"]
               a == [kind |-> "answer", call |-> c, ok |-> TRUE]
    <2>1. c \in Calls /\ c.visit \in Visits /\ (c.kind = "pct" => c.pct \in Pcts)
      BY DEF LightTypeOK, SenderInv, SenderOK, Flying, Calls
    <2>2. state \in States
      BY <2>1 DEF States, LightTypeOK
    <2>3. a \in Arrivals /\ a.kind = "answer" /\ <<a>>[1] = a /\ <<a>> # <<>>
      BY <2>1 DEF Arrivals
    <2>4. Changes(state, <<a>>) /\ pushed' = pushed
      BY <1>3 DEF Lands, Answer
    <2> HIDE DEF state, a
    <2>5. /\ light' = state
          /\ \A i \in DOMAIN arriving : i \in DOMAIN arriving' /\ arriving'[i] = arriving[i]
          /\ \A i \in DOMAIN arriving' \ DOMAIN arriving :
                 (state # light /\ arriving'[i] = [kind |-> "push", state |-> state]) \/ arriving'[i] = a
          /\ state # light => \E i \in DOMAIN arriving' :
                 /\ arriving'[i] = [kind |-> "push", state |-> state]
                 /\ \A j \in DOMAIN arriving' : IsPush(arriving'[j]) => j <= i
      BY <2>2, <2>3, <2>4, ChangesIs
    <2>6. state = light => \A i \in DOMAIN arriving' \ DOMAIN arriving : ~IsPush(arriving'[i])
      BY <2>3, <2>5 DEF IsPush
    <2> QED
      BY <2>4, <2>5, <2>6, PushGrown
  <1>4. ASSUME NEW c \in calls, Fails(c) PROVE PushInv'
    <2> DEFINE a == [kind |-> "answer", call |-> c, ok |-> FALSE]
               n == Len(arriving) + 1
    <2>1. a \in Arrivals /\ a.kind = "answer"
      BY DEF Arrivals, LightTypeOK
    <2>2. arriving' = arriving \o <<a>> /\ UNCHANGED <<light, pushed>>
      BY <1>4 DEF Fails, Answer
    <2> HIDE DEF a
    <2>3. /\ \A i \in DOMAIN arriving : i \in DOMAIN arriving' /\ arriving'[i] = arriving[i]
          /\ arriving'[n] = a
          /\ \A j \in DOMAIN arriving' \ DOMAIN arriving : j = n
      BY <2>1, <2>2, GrownByOne DEF LightTypeOK
    <2> HIDE DEF n
    <2>4. \A i \in DOMAIN arriving' \ DOMAIN arriving : ~IsPush(arriving'[i])
      BY <2>1, <2>3 DEF IsPush
    <2> QED
      BY <2>2, <2>3, <2>4, PushGrown
  <1>5. CASE Others
    <2>1. PICK state \in States \ {light} : Changes(state, <<>>)
      BY <1>5 DEF Others
    <2>2. pushed' = pushed
      BY <1>5 DEF Others
    <2> QED
      BY <2>1, <2>2, ChangesIs, PushGrown
  <1>6. ASSUME arriving # <<>>, arriving' = Tail(arriving), light' = light,
               IF IsPush(Head(arriving)) THEN pushed' = Head(arriving).state ELSE pushed' = pushed
        PROVE  PushInv'
    <2>1. /\ 1 \in DOMAIN arriving /\ Head(arriving) = arriving[1]
          /\ \A i \in DOMAIN arriving' : i \in Nat /\ i + 1 # 1 /\ i + 1 \in DOMAIN arriving /\ arriving'[i] = arriving[i + 1]
          /\ \A i \in DOMAIN arriving : i \in Nat /\ i >= 1 /\
                (i # 1 => i - 1 \in DOMAIN arriving' /\ arriving'[i - 1] = arriving[i])
      BY <1>6, FirstTaken
    <2>2. CASE pushed = light /\ \A i \in DOMAIN arriving : ~IsPush(arriving[i])
      BY <1>6, <2>1, <2>2 DEF PushInv, IsPush
    <2>3. ASSUME NEW i \in DOMAIN arriving, IsPush(arriving[i]), arriving[i].state = light,
                 \A j \in DOMAIN arriving : IsPush(arriving[j]) => j <= i
          PROVE  PushInv'
      <3>1. CASE i = 1
        <4>1. pushed' = light'
          BY <1>6, <2>1, <2>3, <3>1
        <4>2. \A j \in DOMAIN arriving' : ~IsPush(arriving'[j])
          <5> SUFFICES ASSUME NEW j \in DOMAIN arriving' PROVE ~IsPush(arriving'[j])
            OBVIOUS
          <5>1. j \in Nat /\ j + 1 # 1 /\ j + 1 \in DOMAIN arriving /\ arriving'[j] = arriving[j + 1] /\ j + 1 >= 1
            BY <2>1
          <5>2. ~(j + 1 <= 1)
            BY <5>1
          <5> QED
            BY <2>3, <3>1, <5>1, <5>2
        <4> QED
          BY <4>1, <4>2 DEF PushInv, IsPush
      <3>2. CASE i # 1
        <4>1. i \in Nat /\ i - 1 \in DOMAIN arriving' /\ arriving'[i - 1] = arriving[i]
          BY <2>1, <3>2
        <4>2. \A j \in DOMAIN arriving' : IsPush(arriving'[j]) => j <= i - 1
          <5> SUFFICES ASSUME NEW j \in DOMAIN arriving', IsPush(arriving'[j]) PROVE j <= i - 1
            OBVIOUS
          <5>1. j \in Nat /\ j + 1 \in DOMAIN arriving /\ arriving'[j] = arriving[j + 1]
            BY <2>1
          <5>2. j + 1 <= i
            BY <2>3, <5>1
          <5> QED
            BY <4>1, <5>1, <5>2
        <4> QED
          BY <1>6, <2>3, <4>1, <4>2 DEF PushInv, IsPush
      <3> QED
        BY <3>1, <3>2
    <2> QED
      BY <2>2, <2>3 DEF PushInv
  <1>7. CASE Push \/ Switched \/ Dimmed
    BY <1>6, <1>7 DEF Push, Switched, Dimmed, IsPush
  <1> QED
    BY <1>2, <1>3, <1>4, <1>5, <1>7 DEF LightNext

-----------------------------------------------------------------------------
(* Every override will go. *)

\* What an override waits for is still there.
LEMMA OnKept ==
    ASSUME UNCHANGED <<token, visit>>, ToSend => ToSend', NEW b, OnComes(b),
           \A c \in calls : c.visit = visit /\ c.id = token /\ TurnsOn(c) = b => c \in calls',
           \A i \in DOMAIN arriving :
               \/ IsPush(arriving[i]) /\ arriving[i].state.on = b
               \/ Rejects(arriving[i], visit) /\ arriving[i].call.id = token
               => \E j \in DOMAIN arriving' : arriving'[j] = arriving[i]
    PROVE  OnComes(b)'
  <1>1. CASE ToSend
    BY <1>1 DEF OnComes
  <1>2. ASSUME NEW c \in calls, c.visit = visit, c.id = token, TurnsOn(c) = b PROVE OnComes(b)'
    <2>1. c \in calls' /\ c.visit = visit' /\ c.id = token'
      BY <1>2
    <2> QED
      BY <1>2, <2>1 DEF OnComes, TurnsOn
  <1>3. ASSUME NEW i \in DOMAIN arriving, IsPush(arriving[i]), arriving[i].state.on = b PROVE OnComes(b)'
    BY <1>3 DEF OnComes, IsPush
  <1>4. ASSUME NEW i \in DOMAIN arriving, Rejects(arriving[i], visit), arriving[i].call.id = token PROVE OnComes(b)'
    BY <1>4 DEF OnComes, Rejects
  <1> QED
    BY <1>1, <1>2, <1>3, <1>4 DEF OnComes

LEMMA PctKept ==
    ASSUME UNCHANGED visit, ToSend => ToSend', NEW p, PctComes(p),
           \A c \in Flying(visit) : c.pct = p => c \in calls',
           \A i \in DOMAIN arriving :
               \/ IsPush(arriving[i]) /\ RealPct(arriving[i].state) = p
               \/ Rejects(arriving[i], visit) /\ arriving[i].call.kind = "pct"
               => \E j \in DOMAIN arriving' : arriving'[j] = arriving[i]
    PROVE  PctComes(p)'
  <1>1. CASE ToSend
    BY <1>1 DEF PctComes
  <1>2. ASSUME NEW c \in Flying(visit), c.pct = p PROVE PctComes(p)'
    BY <1>2 DEF PctComes, Flying
  <1>3. ASSUME NEW i \in DOMAIN arriving, IsPush(arriving[i]), RealPct(arriving[i].state) = p PROVE PctComes(p)'
    <2>1. PICK j \in DOMAIN arriving' : arriving'[j] = arriving[i]
      BY <1>3
    <2>2. IsPush(arriving'[j]) /\ RealPct(arriving'[j].state) = p
      BY <1>3, <2>1
    <2> QED
      BY <2>2 DEF PctComes, IsPush, RealPct
  <1>4. ASSUME NEW i \in DOMAIN arriving, Rejects(arriving[i], visit), arriving[i].call.kind = "pct" PROVE PctComes(p)'
    BY <1>4 DEF PctComes, Rejects
  <1> QED
    BY <1>1, <1>2, <1>3, <1>4 DEF PctComes

\* A brightness of the visit on screen is sent or queued: both overrides wait for it.
LEMMA DueSends ==
    ASSUME LightTypeOK, NEW p \in Pcts, NEW s \in Senders, SendPct(visit, p, s), visit' = visit,
           Override(TRUE, p, pushed)
    PROVE  OnInv' /\ PctInv'
  <1>1. visit \in Visits /\ p # Nil /\ pushed \in States /\ TRUE \in BOOLEAN \cup {Nil}
    BY LightConstants DEF LightTypeOK
  <1>2. PICK t \in Senders :
                 /\ send' = [send EXCEPT ![visit] = t]
                 /\ \/ t.queued = p
                    \/ calls' = calls \cup {[id |-> commands + 1, visit |-> visit, kind |-> "pct", pct |-> p]}
    BY <1>1, SendPctIs
  <1>3. send'[visit] = t /\ token' = commands + 1
    BY <1>1, <1>2, SendPctIs DEF LightTypeOK
  <1>4. CASE t.queued = p
    BY <1>1, <1>3, <1>4 DEF OnInv, PctInv, OnComes, PctComes, ToSend
  <1>5. CASE calls' = calls \cup {[id |-> commands + 1, visit |-> visit, kind |-> "pct", pct |-> p]}
    <2> DEFINE c == [id |-> commands + 1, visit |-> visit, kind |-> "pct", pct |-> p]
    <2>1. c \in calls' /\ c.visit = visit' /\ c.id = token' /\ c.kind = "pct" /\ c.pct = p
      BY <1>3, <1>5
    <2> HIDE DEF c
    <2>2. TurnsOn(c)
      BY <2>1 DEF TurnsOn
    <2>3. OnComes(TRUE)'
      BY <2>1, <2>2 DEF OnComes, TurnsOn
    <2>4. PctComes(p)'
      BY <2>1 DEF PctComes, Flying
    <2>5. (onOverride' # Nil => onOverride' = TRUE) /\ (pctOverride' # Nil => pctOverride' = p)
      BY <1>1, OverrideIs
    <2>6. onOverride' # Nil => OnComes(onOverride)'
      BY <2>3, <2>5 DEF OnComes
    <2>7. pctOverride' # Nil => PctComes(pctOverride)'
      BY <2>4, <2>5 DEF PctComes
    <2> QED
      BY <2>6, <2>7 DEF OnInv, PctInv
  <1> QED
    BY <1>2, <1>4, <1>5

\* A change is pushed; there is none only if the light is like that already, and then it was pushed.
LEMMA DuePushed ==
    ASSUME LightTypeOK, PushInv, NEW state \in States, NEW m \in Arrivals, m.kind = "answer",
           Changes(state, <<m>>), pushed # state
    PROVE  \E i \in DOMAIN arriving' : IsPush(arriving'[i]) /\ arriving'[i].state = state
  <1>1. /\ \A i \in DOMAIN arriving : i \in DOMAIN arriving' /\ arriving'[i] = arriving[i]
        /\ state # light => \E i \in DOMAIN arriving' : arriving'[i] = [kind |-> "push", state |-> state]
    BY ChangesIs
  <1>2. CASE state # light
    BY <1>1, <1>2 DEF IsPush
  <1>3. CASE state = light
    BY <1>1, <1>3 DEF PushInv, IsPush
  <1> QED
    BY <1>2, <1>3

LEMMA DueStep ==
    ASSUME LightTypeOK, SenderInv, OverrideInv, PushInv, OnInv, PctInv, [LightNext]_lightVars
    PROVE  OnInv' /\ PctInv'
  <1> PICK b : b = onOverride
    OBVIOUS
  <1> PICK p : p = pctOverride
    OBVIOUS
  <1>1. /\ pushed \in States /\ visit \in Visits /\ \A w \in Visits : send[w] \in Senders
        /\ b \in BOOLEAN \cup {Nil} /\ p \in Pcts \cup {Nil} /\ TRUE \in BOOLEAN \cup {Nil}
    BY DEF LightTypeOK
  <1>2. /\ ~stranded /\ b # Nil => OnComes(b)
        /\ ~stranded /\ p # Nil => PctComes(p)
    BY DEF OnInv, PctInv
  <1>3. ASSUME stranded' \/ onOverride' = Nil \/ (onOverride' = b /\ OnComes(b)') PROVE OnInv'
    <2>1. CASE onOverride' = b /\ OnComes(b)'
      BY <2>1 DEF OnInv, OnComes
    <2> QED
      BY <1>3, <2>1 DEF OnInv
  <1>4. ASSUME stranded' \/ pctOverride' = Nil \/ (pctOverride' = p /\ PctComes(p)') PROVE PctInv'
    <2>1. CASE pctOverride' = p /\ PctComes(p)'
      BY <2>1 DEF PctInv, PctComes
    <2> QED
      BY <1>4, <2>1 DEF PctInv
  <1>5. ASSUME NoOverride PROVE OnInv' /\ PctInv'
    BY <1>5 DEF NoOverride, OnInv, PctInv
  \* What the two wait for is in calls and in what arrives.
  <1>6. ASSUME ~stranded, UNCHANGED <<token, visit>>, ToSend => ToSend', b # Nil,
               \A c \in calls : c.visit = visit /\ c.id = token /\ TurnsOn(c) = b => c \in calls',
               \A i \in DOMAIN arriving :
                   \/ IsPush(arriving[i]) /\ arriving[i].state.on = b
                   \/ Rejects(arriving[i], visit) /\ arriving[i].call.id = token
                   => \E j \in DOMAIN arriving' : arriving'[j] = arriving[i]
        PROVE  OnComes(b)'
    BY <1>2, <1>6, OnKept
  <1>7. ASSUME ~stranded, UNCHANGED visit, ToSend => ToSend', p # Nil,
               \A c \in Flying(visit) : c.pct = p => c \in calls',
               \A i \in DOMAIN arriving :
                   \/ IsPush(arriving[i]) /\ RealPct(arriving[i].state) = p
                   \/ Rejects(arriving[i], visit) /\ arriving[i].call.kind = "pct"
                   => \E j \in DOMAIN arriving' : arriving'[j] = arriving[i]
        PROVE  PctComes(p)'
    BY <1>2, <1>7, PctKept
  <1> DEFINE s == [send[visit] EXCEPT !.pending = Nil]
  <1>8. s \in Senders
    BY <1>1, SenderFields
  <1> HIDE DEF s
  <1>9. CASE Toggle
    <2>1. /\ UNCHANGED <<light, arriving, pushed, send, visit, stranded>> /\ token' = commands + 1
          /\ Issue(visit, IF On THEN "off" ELSE "on", Nil) /\ Override(~On, p, pushed)
      BY <1>1, <1>9 DEF Toggle, Stamp, ghosts
    <2>2. On \in BOOLEAN /\ (~On) \in BOOLEAN \cup {Nil}
      BY OnType
    <2>3. (onOverride' # Nil => onOverride' = (~On)) /\ (pctOverride' # Nil => pctOverride' = p)
      BY <1>1, <2>1, <2>2, OverrideIs
    <2> PICK flip : flip = (~On)
      OBVIOUS
    <2>4. OnComes(flip)'
      <3> DEFINE c == [id |-> commands + 1, visit |-> visit, kind |-> IF On THEN "off" ELSE "on", pct |-> Nil]
      <3>1. c \in calls' /\ c.visit = visit' /\ c.id = token' /\ c.kind = IF On THEN "off" ELSE "on"
        BY <2>1 DEF Issue
      <3> HIDE DEF c
      <3>2. TurnsOn(c) = flip
        <4>1. CASE On
          BY <3>1, <4>1 DEF TurnsOn
        <4>2. CASE ~On
          BY <3>1, <4>2 DEF TurnsOn
        <4> QED
          BY <4>1, <4>2
      <3> QED
        BY <3>1, <3>2 DEF OnComes, TurnsOn
    <2>5. OnInv'
      <3>1. onOverride' # Nil => onOverride' = flip
        BY <2>3
      <3> QED
        BY <2>4, <3>1 DEF OnInv, OnComes
    <2>6. ~stranded /\ p # Nil => PctComes(p)'
      <3>1. (ToSend => ToSend') /\ \A c \in Flying(visit) : c \in calls'
        BY <2>1 DEF ToSend, Flying, Issue
      <3> QED
        BY <1>7, <2>1, <3>1
    <2>7. PctInv'
      BY <1>4, <2>1, <2>3, <2>6
    <2> QED
      BY <2>5, <2>7
  <1>10. ASSUME NEW q \in Pcts, Slide(q) PROVE OnInv' /\ PctInv'
    <2>1. visit' = visit
      BY <1>10 DEF Slide
    <2>2. CASE SendPct(visit, q, s) /\ Override(TRUE, q, pushed)
      BY <1>8, <2>1, <2>2, DueSends
    <2>3. CASE send' = [send EXCEPT ![visit].pending = q]
      <3>1. ToSend'
        BY <1>1, <2>1, <2>3, LightConstants DEF LightTypeOK, Senders, ToSend
      <3> QED
        BY <3>1 DEF OnInv, PctInv, OnComes, PctComes
    <2> QED
      BY <1>10, <2>2, <2>3 DEF Slide, s
  <1>11. CASE TimerSends
    <2>1. /\ visit' = visit /\ send[visit].pending \in Pcts
          /\ SendPct(visit, send[visit].pending, s) /\ Override(TRUE, send[visit].pending, pushed)
      BY <1>1, <1>11, SenderFields DEF TimerSends, s
    <2> QED
      BY <1>8, <2>1, DueSends
  <1>12. CASE Leave
    BY <1>5, <1>12 DEF Leave
  <1>13. CASE Return
    <2>1. ~mounted /\ UNCHANGED <<onOverride, pctOverride>>
      BY <1>13 DEF Return, overrides
    <2> QED
      BY <2>1 DEF OverrideInv, OnInv, PctInv
  <1>14. ASSUME NEW c \in calls, Lands(c) PROVE OnInv' /\ PctInv'
    <2> DEFINE state == IF c.kind = "pct" THEN [on |-> TRUE, pct |-> c.pct] ELSE [light EXCEPT !.on = c.kind = "on"]
               a == [kind |-> "answer", call |-> c, ok |-> TRUE]
    <2>1. c \in Calls /\ c.visit \in Visits /\ (c.kind = "pct" => c.pct \in Pcts)
      BY DEF LightTypeOK, SenderInv, SenderOK, Flying, Calls
    <2>2. state \in States
      BY <2>1 DEF States, LightTypeOK
    <2>3. a \in Arrivals /\ a.kind = "answer"
      BY <2>1 DEF Arrivals
    <2>4. /\ Changes(state, <<a>>) /\ calls' = calls \ {c}
          /\ UNCHANGED <<pushed, onOverride, pctOverride, token, send, visit, stranded>>
      BY <1>14 DEF Lands, Answer, overrides, ghosts
    <2>5. /\ c.kind = "pct" => state = [on |-> TRUE, pct |-> c.pct]
          /\ c.kind # "pct" => state.on = (c.kind = "on")
      BY DEF LightTypeOK, States
    <2>6. state.on = TurnsOn(c) /\ (c.kind = "pct" => RealPct(state) = c.pct)
      BY <2>1, <2>5 DEF TurnsOn, RealPct, Calls
    <2> HIDE DEF state, a
    <2>7. pushed = state \/ \E i \in DOMAIN arriving' : IsPush(arriving'[i]) /\ arriving'[i].state = state
      BY <2>2, <2>3, <2>4, DuePushed
    <2>8. /\ \A i \in DOMAIN arriving : i \in DOMAIN arriving' /\ arriving'[i] = arriving[i]
          /\ ToSend => ToSend'
      <3>1. \A i \in DOMAIN arriving : i \in DOMAIN arriving' /\ arriving'[i] = arriving[i]
        BY <2>2, <2>3, <2>4, ChangesIs
      <3> QED
        BY <2>4, <3>1 DEF ToSend
    <2>9. b # Nil /\ ~stranded => OnComes(b)'
      <3>1. CASE c.visit = visit /\ c.id = token /\ TurnsOn(c) = b
        <4> SUFFICES ASSUME b # Nil PROVE OnComes(b)'
          OBVIOUS
        <4>1. pushed.on # b
          BY DEF OverrideInv
        <4>2. PICK i \in DOMAIN arriving' : IsPush(arriving'[i]) /\ arriving'[i].state.on = b
          BY <2>6, <2>7, <3>1, <4>1
        <4> QED
          BY <4>2 DEF OnComes, IsPush
      <3>2. CASE ~(c.visit = visit /\ c.id = token /\ TurnsOn(c) = b)
        BY <1>6, <2>4, <2>8, <3>2
      <3> QED
        BY <3>1, <3>2
    <2>10. p # Nil /\ ~stranded => PctComes(p)'
      <3>1. CASE c.kind = "pct" /\ c.pct = p
        <4> SUFFICES ASSUME p # Nil PROVE PctComes(p)'
          OBVIOUS
        <4>1. RealPct(pushed) # p
          BY DEF OverrideInv
        <4>2. PICK i \in DOMAIN arriving' : IsPush(arriving'[i]) /\ RealPct(arriving'[i].state) = p
          BY <2>6, <2>7, <3>1, <4>1
        <4> QED
          BY <4>2 DEF PctComes, IsPush, RealPct
      <3>2. CASE ~(c.kind = "pct" /\ c.pct = p)
        <4>1. \A d \in Flying(visit) : d.pct = p => d \in calls'
          BY <2>4, <3>2 DEF Flying
        <4> QED
          BY <1>7, <2>4, <2>8, <4>1
      <3> QED
        BY <3>1, <3>2
    <2> QED
      BY <1>3, <1>4, <2>4, <2>9, <2>10
  <1>15. ASSUME NEW c \in calls, Fails(c) PROVE OnInv' /\ PctInv'
    <2> DEFINE a == [kind |-> "answer", call |-> c, ok |-> FALSE]
               n == Len(arriving) + 1
    <2>1. a \in Arrivals /\ a.kind = "answer" /\ a.call = c /\ ~a.ok
      BY DEF Arrivals, LightTypeOK
    <2>2. /\ arriving' = arriving \o <<a>> /\ calls' = calls \ {c}
          /\ UNCHANGED <<onOverride, pctOverride, token, send, visit, stranded>>
      BY <1>15 DEF Fails, Answer, overrides
    <2> HIDE DEF a
    <2>3. /\ \A i \in DOMAIN arriving : i \in DOMAIN arriving' /\ arriving'[i] = arriving[i]
          /\ n \in DOMAIN arriving' /\ arriving'[n] = a
      BY <2>1, <2>2, GrownByOne DEF LightTypeOK
    <2> HIDE DEF n
    <2>4. c.visit = visit => Rejects(arriving'[n], visit)
      BY <2>1, <2>3 DEF Rejects
    <2>5. ToSend => ToSend'
      BY <2>2 DEF ToSend
    <2>6. b # Nil /\ ~stranded => OnComes(b)'
      <3>1. CASE c.visit = visit /\ c.id = token
        BY <2>1, <2>2, <2>3, <2>4, <3>1 DEF OnComes, Rejects
      <3>2. CASE ~(c.visit = visit /\ c.id = token)
        BY <1>6, <2>2, <2>3, <2>5, <3>2
      <3> QED
        BY <3>1, <3>2
    <2>7. p # Nil /\ ~stranded => PctComes(p)'
      <3>1. CASE c \in Flying(visit)
        BY <2>1, <2>2, <2>3, <2>4, <3>1 DEF PctComes, Rejects, Flying
      <3>2. CASE c \notin Flying(visit)
        <4>1. \A d \in Flying(visit) : d \in calls'
          BY <2>2, <3>2 DEF Flying
        <4> QED
          BY <1>7, <2>2, <2>3, <2>5, <4>1
      <3> QED
        BY <3>1, <3>2
    <2> QED
      BY <1>3, <1>4, <2>2, <2>6, <2>7
  <1>16. CASE Others
    <2>1. PICK state \in States : Changes(state, <<>>)
      BY <1>16 DEF Others
    <2>2. \A i \in DOMAIN arriving : i \in DOMAIN arriving' /\ arriving'[i] = arriving[i]
      BY <2>1, ChangesIs
    <2>3. UNCHANGED <<calls, onOverride, pctOverride, token, send, visit, stranded>>
      BY <1>16 DEF Others, overrides
    <2>4. (ToSend => ToSend') /\ \A c \in Flying(visit) : c \in calls'
      BY <2>3 DEF ToSend, Flying
    <2> QED
      BY <1>3, <1>4, <1>6, <1>7, <2>2, <2>3, <2>4
  \* The first message is taken: it was not what they wait for.
  <1>17. ASSUME arriving # <<>>, arriving' = Tail(arriving), NEW m, m = Head(arriving)
         PROVE  /\ m \in Arrivals
                /\ \A i \in DOMAIN arriving : arriving[i] = m \/ \E j \in DOMAIN arriving' : arriving'[j] = arriving[i]
    BY <1>17, FirstTaken
  <1>18. CASE Push
    <2> PICK m : m = Head(arriving)
      OBVIOUS
    <2>1. /\ arriving # <<>> /\ arriving' = Tail(arriving) /\ IsPush(m)
          /\ UNCHANGED <<calls, token, send, visit, stranded>> /\ Override(b, p, m.state)
      BY <1>18 DEF Push, ghosts, IsPush
    <2>2. m \in Arrivals /\ m.state \in States /\ ~Rejects(m, visit)
      BY <1>17, <2>1, ArrivalsAre DEF IsPush, Rejects
    <2>3. /\ \A i \in DOMAIN arriving : arriving[i] = m \/ \E j \in DOMAIN arriving' : arriving'[j] = arriving[i]
          /\ ToSend => ToSend'
          /\ \A c \in Flying(visit) : c \in calls'
      BY <1>17, <2>1 DEF ToSend, Flying
    <2>4. /\ onOverride' # Nil => onOverride' = b /\ b # m.state.on
          /\ pctOverride' # Nil => pctOverride' = p /\ p # RealPct(m.state)
      BY <1>1, <2>1, <2>2, OverrideIs
    <2>5. onOverride' # Nil /\ ~stranded => OnComes(b)'
      BY <1>6, <2>1, <2>2, <2>3, <2>4
    <2>6. pctOverride' # Nil /\ ~stranded => PctComes(p)'
      BY <1>7, <2>1, <2>2, <2>3, <2>4
    <2> QED
      BY <1>3, <1>4, <2>1, <2>4, <2>5, <2>6
  <1>19. CASE Switched
    <2> PICK m : m = Head(arriving)
      OBVIOUS
    <2>1. /\ arriving # <<>> /\ arriving' = Tail(arriving) /\ m.kind = "answer" /\ m.call.kind # "pct"
          /\ UNCHANGED <<calls, token, send, visit, pctOverride, stranded>>
          /\ onOverride' = IF ~m.ok /\ Newest(m.call) THEN Nil ELSE b
      BY <1>19 DEF Switched, ghosts
    <2>2. /\ \A i \in DOMAIN arriving : arriving[i] = m \/ \E j \in DOMAIN arriving' : arriving'[j] = arriving[i]
          /\ ToSend => ToSend'
          /\ \A c \in Flying(visit) : c \in calls'
      BY <1>17, <2>1 DEF ToSend, Flying
    <2>3. ~IsPush(m)
      BY <2>1 DEF IsPush
    <2>4. onOverride' # Nil /\ ~stranded => onOverride' = b /\ OnComes(b)'
      <3> SUFFICES ASSUME onOverride' # Nil, ~stranded PROVE onOverride' = b /\ OnComes(b)'
        OBVIOUS
      <3>1. onOverride' = b /\ ~(~m.ok /\ Newest(m.call))
        BY <2>1, Zenon
      <3>2. mounted
        BY <3>1 DEF OverrideInv
      <3>3. ~(Rejects(m, visit) /\ m.call.id = token)
        BY <3>1, <3>2 DEF Rejects, Newest
      <3> QED
        BY <1>6, <2>1, <2>2, <2>3, <3>1, <3>3
    <2>5. p # Nil /\ ~stranded => PctComes(p)'
      BY <1>7, <2>1, <2>2, <2>3
    <2> QED
      BY <1>3, <1>4, <2>1, <2>4, <2>5
  <1>20. CASE Dimmed
    <2> PICK m : m = Head(arriving)
      OBVIOUS
    <2>1. /\ arriving # <<>> /\ arriving' = Tail(arriving) /\ m.kind = "answer" /\ m.call.kind = "pct"
          /\ UNCHANGED <<visit, mounted>>
      BY <1>20 DEF Dimmed
    <2>2. /\ \A i \in DOMAIN arriving : arriving[i] = m \/ \E j \in DOMAIN arriving' : arriving'[j] = arriving[i]
          /\ m \in Arrivals
      BY <1>17, <2>1
    <2>3. ~IsPush(m)
      BY <2>1 DEF IsPush
    <2> PICK v \in Visits : v = m.call.visit
      BY <2>1, <2>2, ArrivalsAre
    <2> DEFINE s2 == [send[v] EXCEPT !.sending = FALSE, !.queued = Nil]
               u == [send[v] EXCEPT !.sending = FALSE]
    <2>4. s2 \in Senders /\ u.pending = send[v].pending /\ u.queued = send[v].queued
      <3>1. send[v] \in Senders
        BY <1>1
      <3>2. s2 \in Senders
        BY <3>1, SenderFields
      <3>3. u.pending = send[v].pending /\ u.queued = send[v].queued
        BY <3>1, AnsweredFields
      <3> QED
        BY <3>2, <3>3
    <2>5. CASE send[v].queued # Nil
      <3>1. /\ SendPct(v, send[v].queued, s2) /\ stranded' = stranded
            /\ IF mounted /\ v = visit THEN Override(TRUE, send[v].queued, pushed) ELSE UNCHANGED overrides
        BY <1>20, <2>5 DEF Dimmed
      <3>2. send[v].queued \in Pcts
        BY <1>1, <2>5, SenderFields
      <3> HIDE DEF s2, u
      <3>3. CASE mounted /\ v = visit
        BY <2>1, <2>4, <3>1, <3>2, <3>3, DueSends
      <3>4. CASE ~mounted
        <4>1. onOverride' = Nil /\ pctOverride' = Nil
          BY <3>1, <3>4 DEF OverrideInv, overrides
        <4> QED
          BY <4>1 DEF OnInv, PctInv
      <3>5. CASE v # visit
        <4>1. send'[visit] = send[visit] /\ calls \subseteq calls'
          BY <1>1, <3>1, <3>5 DEF SendPct, Issue, LightTypeOK
        <4>2. token' = token
          BY <3>1, <3>5 DEF SendPct, Stamp
        <4>3. /\ ToSend => ToSend'
              /\ \A c \in calls : c \in calls'
              /\ \A c \in Flying(visit) : c \in calls'
          BY <2>1, <4>1 DEF ToSend, Flying
        <4>4. ~Rejects(m, visit)
          BY <3>5 DEF Rejects
        <4>5. onOverride' = b /\ pctOverride' = p
          BY <3>1, <3>5 DEF overrides
        <4> QED
          BY <1>3, <1>4, <1>6, <1>7, <2>1, <2>2, <2>3, <3>1, <4>2, <4>3, <4>4, <4>5
      <3> QED
        BY <3>3, <3>4, <3>5
    <2>6. CASE send[v].queued = Nil
      <3>1. /\ send' = [send EXCEPT ![v] = u] /\ UNCHANGED <<calls, token>>
            /\ IF ~m.ok /\ Newest(m.call) THEN NoOverride ELSE UNCHANGED overrides
            /\ stranded' = (stranded \/ (~m.ok /\ v = visit /\ ~Newest(m.call)))
        BY <1>20, <2>6 DEF Dimmed
      <3>2. /\ ToSend => ToSend'
            /\ \A c \in Flying(visit) : c \in calls'
        BY <1>1, <2>1, <2>4, <3>1 DEF ToSend, Flying, LightTypeOK
      <3> HIDE DEF s2, u
      <3>3. CASE ~m.ok /\ Newest(m.call)
        BY <1>5, <3>1, <3>3
      <3>4. CASE ~(~m.ok /\ Newest(m.call))
        <4>1. onOverride' = b /\ pctOverride' = p
          BY <3>1, <3>4 DEF overrides
        <4>2. CASE stranded'
          BY <1>3, <1>4, <4>2
        <4>3. CASE ~stranded'
          <5>1. ~stranded /\ ~Rejects(m, visit)
            BY <3>1, <3>4, <4>3 DEF Rejects
          <5> QED
            BY <1>3, <1>4, <1>6, <1>7, <2>1, <2>2, <2>3, <3>1, <3>2, <4>1, <5>1
        <4> QED
          BY <4>2, <4>3
      <3> QED
        BY <3>3, <3>4
    <2> QED
      BY <2>5, <2>6
  <1>21. CASE UNCHANGED lightVars
    BY <1>21 DEF lightVars, OnInv, PctInv, OnComes, PctComes, ToSend, Flying
  <1> QED
    BY <1>9, <1>10, <1>11, <1>12, <1>13, <1>14, <1>15, <1>16, <1>18, <1>19, <1>20, <1>21 DEF LightNext

-----------------------------------------------------------------------------
(* The control of one light: the theorems. *)

LEMMA LightNextStep == LightIInv /\ [LightNext]_lightVars => LightIInv'
  BY LightTypeStep, CountStep, SenderStep, CarryStep, OverrideStep, PushStep, DueStep DEF LightIInv

LEMMA LightInvariance == LightSpec => []LightIInv
  BY LightInitIInv, LightNextStep, PTL DEF LightSpec

\* The hook's state has its types, and the commands stay within what the user's acts allow.
THEOREM LightTypeCorrect == LightSpec => []LightTypeOK
  <1>1. LightIInv => LightTypeOK
    BY DEF LightIInv
  <1> QED
    BY <1>1, LightInvariance, PTL

\* However sends, answers and visits of the tab interleave, the light ends at the value the slider
\* was dragged to last: what the timer, the queue and the calls hold back is never lost or overtaken.
THEOREM LastDragLands == LightSpec => []DragLands
  <1>1. LightIInv => DragLands
    <2> SUFFICES ASSUME LightIInv, AtRest, ~disturbed, wanted # Nil PROVE light.pct = wanted
      BY DEF DragLands
    <2>1. \A v \in Visits : Flying(v) = {} /\ ~\E i \in DOMAIN arriving : AnswersPct(arriving[i], v)
      BY DEF AtRest, Flying
    <2>2. \A v \in Visits : ~send[v].sending /\ send[v].queued = Nil
      BY <2>1 DEF LightIInv, SenderInv, SenderOK
    <2>3. visit \in Visits /\ send[visit].pending = Nil
      BY DEF AtRest, LightIInv, LightTypeOK, SenderInv, SenderOK
    <2> QED
      BY <2>1, <2>2, <2>3 DEF LightIInv, CarryInv
  <1> QED
    BY <1>1, LightInvariance, PTL

\* No override outlives what it waits for: once all is quiet the dashboard shows the light itself.
THEOREM OverridesGo == LightSpec => []OverridesSettle
  <1>1. LightIInv => OverridesSettle
    <2> SUFFICES ASSUME LightIInv, AtRest, mounted, ~stranded PROVE onOverride = Nil /\ pctOverride = Nil
      BY DEF OverridesSettle
    <2>1. visit \in Visits /\ calls = {} /\ DOMAIN arriving = {} /\ send[visit].pending = Nil
      BY DEF AtRest, LightIInv, LightTypeOK
    <2>2. send[visit].queued = Nil
      BY <2>1 DEF LightIInv, SenderInv, SenderOK, Flying
    <2> QED
      BY <2>1, <2>2 DEF LightIInv, OnInv, PctInv, OnComes, PctComes, ToSend, Flying
  <1> QED
    BY <1>1, LightInvariance, PTL
=============================================================================
