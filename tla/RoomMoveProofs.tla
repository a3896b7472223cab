----------------------------- MODULE RoomMoveProofs -----------------------------
(***************************************************************************)
(* Proofs about RoomMove, for any devices, rooms, troubles and bounds: no  *)
(* device is ever in two rooms but for the reasons named, between calls a  *)
(* restart forgets no move, and what a move puts into the entry is where   *)
(* the devices are.  The last needs induction over the order in which      *)
(* pending moves are applied, which rests on the order of finite sets.     *)
(***************************************************************************)
EXTENDS RoomMove, FiniteSetTheorems, WellFoundedInduction, TLAPS

Calls == [pc : Working, dev : Devices, room : Rooms, old : Rooms \cup {None},
          from : Rooms \cup {None}]

-----------------------------------------------------------------------------
(* What the helpers return. *)

\* What is left of a call: nothing, a leave of the room it began in, or a join without one.
LEMMA DecidedCall ==
    ASSUME NEW d \in Devices, NEW r \in Rooms, NEW old \in Rooms \cup {None},
           NEW from \in Rooms \cup {None}
    PROVE  \/ Decided(d, r, old, from) = Idle
           \/ /\ Decided(d, r, old, from) \in Calls
              /\ Decided(d, r, old, from).dev = d /\ Decided(d, r, old, from).old = old
              /\ \/ Decided(d, r, old, from).pc = "leave"
                 \/ Decided(d, r, old, from).pc = "join" /\ old = None
  <1>1. CASE old = r
    BY <1>1 DEF Decided
  <1>2. CASE old # r
    BY <1>2 DEF Decided, Calls, Working
  <1> QED
    BY <1>1, <1>2

\* Deleting moves leaves the other moves alone.
LEMMA WithoutMoves ==
    ASSUME NEW p, p.moves \in [Devices -> Move \cup {None}], NEW ds
    PROVE  /\ Without(p, ds).moves \in [Devices -> Move \cup {None}]
           /\ \A d \in Devices : Without(p, ds).moves[d] = IF d \in ds THEN None ELSE p.moves[d]
  BY DEF Without

\* Noting a move leaves the other moves alone.
LEMMA PutMoves ==
    ASSUME NEW p, p.moves \in [Devices -> Move \cup {None}], NEW d \in Devices, NEW m \in Move
    PROVE  /\ Put(p, d, m).moves \in [Devices -> Move \cup {None}]
           /\ Put(p, d, m).moves[d] = m
           /\ \A e \in Devices \ {d} : Put(p, d, m).moves[e] = p.moves[e]
  BY DEF Put

\* A call that is under way has all its fields.
LEMMA CallFields ==
    ASSUME ShapeInv, call.pc \in Working
    PROVE  call \in Calls
  BY DEF ShapeInv, Calls, Working, Idle

\* A move that has converged is in the room that the cloud shows.
LEMMA ConvergedRoom ==
    ASSUME NEW d \in Devices, NEW m, Converged(d, m, cloudRoom, cloudIn)
    PROVE  m.room = cloudRoom[d]
  BY DEF Converged

-----------------------------------------------------------------------------
(* The initial states. *)

LEMMA InitIInv == Init => IInv
  <1> SUFFICES ASSUME Init PROVE IInv
    OBVIOUS
  <1>1. ShapeInv
    BY DEF Init, ShapeInv, NoPending
  <1>2. CacheInv
    BY DEF Init, CacheInv, Idle
  <1>3. WhereInv
    <2>1. SUFFICES ASSUME NEW d \in Devices
                   PROVE  /\ pending.moves[d] = None /\ saved.moves[d] = None
                          /\ groups[d] \subseteq {cloudRoom[d]}
                          /\ call.pc = "idle"
      BY DEF WhereInv, Calling
    <2>2. PICK r \in Rooms : groups[d] = {r}
      BY <2>1 DEF Init
    <2> QED
      BY <2>1, <2>2 DEF Init, NoPending, Idle
  <1> QED
    BY <1>1, <1>2, <1>3 DEF IInv

-----------------------------------------------------------------------------
(* The steps of a call. *)

\* A decision rests on the pending move if it stands, else on the cloud.
LEMMA BeginStep ==
    ASSUME IInv, NEW d \in Devices, NEW r \in Rooms, Begin(d, r)
    PROVE  IInv'
  <1> DEFINE m == pending.moves[d]
             over == m # None /\ (Converged(d, m, cloudRoom, cloudIn) \/ MovedByOthers(d, m))
  <1>1. call = Idle /\ pending = saved /\ UNCHANGED <<groups, cloudRoom, saved, early, late>>
    BY DEF Begin, IInv, CacheInv, Idle, mesh
  <1>2. m \in Move \cup {None} /\ cloudRoom[d] \in Rooms \cup {None}
    BY DEF IInv, ShapeInv
  <1>3. CASE over
    <2>1. /\ pending' = Without(pending, {d})
          /\ call' = [pc |-> "prune", dev |-> d, room |-> r, old |-> cloudRoom[d],
                      from |-> cloudRoom[d]]
          /\ misread' = IF ~CloudIsRight(d) THEN misread \cup {d} ELSE misread
      BY <1>3 DEF Begin
    <2>2. /\ pending'.moves \in [Devices -> Move \cup {None}]
          /\ pending'.moves[d] = None
          /\ \A e \in Devices \ {d} : pending'.moves[e] = saved.moves[e]
      <3>1. pending.moves \in [Devices -> Move \cup {None}]
        BY DEF IInv, ShapeInv
      <3>2. /\ Without(pending, {d}).moves \in [Devices -> Move \cup {None}]
            /\ \A e \in Devices : Without(pending, {d}).moves[e]
                                   = IF e \in {d} THEN None ELSE pending.moves[e]
        BY <3>1, WithoutMoves
      <3> QED
        BY <1>1, <2>1, <3>2
    <2>3. call' \in Calls
      BY <1>2, <2>1 DEF Calls, Working
    <2>4. ShapeInv'
      BY <1>1, <2>2, <2>3 DEF IInv, ShapeInv, Calls
    <2>5. CacheInv'
      BY <1>1, <2>1, <2>2 DEF CacheInv
    <2>6. d \in Excused' \/ groups[d] \subseteq {cloudRoom[d]}
      <3> SUFFICES ASSUME d \notin Excused'
                   PROVE  groups[d] \subseteq {cloudRoom[d]}
        OBVIOUS
      <3>1. d \notin Excused /\ CloudIsRight(d)
        BY <1>1, <2>1 DEF Excused
      <3>2. groups[d] \subseteq {m.room}
        BY <1>3, <3>1 DEF IInv, WhereInv
      <3> QED
        BY <1>2, <3>1, <3>2, RoomMoveAssumption DEF CloudIsRight
    <2>7. WhereInv'
      <3> SUFFICES ASSUME NEW e \in Devices, e \notin Excused'
                   PROVE  /\ pending'.moves[e] = None => groups[e] \subseteq {cloudRoom[e]}
                          /\ pending'.moves[e] # None =>
                               groups[e] \subseteq {pending'.moves[e].room}
                          /\ saved.moves[e] # None => groups[e] \subseteq {saved.moves[e].room}
                          /\ e = d => groups[e] \subseteq {cloudRoom[e]}
        BY <1>1, <2>1 DEF WhereInv, Calling
      <3>1. e \notin Excused
        BY <1>1, <2>1 DEF Excused
      <3>2. /\ saved.moves[e] = None => groups[e] \subseteq {cloudRoom[e]}
            /\ saved.moves[e] # None => groups[e] \subseteq {saved.moves[e].room}
        BY <1>1, <3>1 DEF IInv, WhereInv
      <3> QED
        BY <2>2, <2>6, <3>2
    <2> QED
      BY <2>4, <2>5, <2>7 DEF IInv
  <1>4. CASE ~over
    <2> DEFINE at == IF m = None THEN cloudRoom[d] ELSE m.room
               from == IF m = None THEN cloudRoom[d] ELSE m.from
    <2>1. pending' = pending /\ misread' = misread /\ call' = Decided(d, r, at, from)
      BY <1>4 DEF Begin
    <2>2. at \in Rooms \cup {None} /\ from \in Rooms \cup {None}
      BY <1>2 DEF Move
    <2> HIDE DEF m, over, at, from
    <2>3. \/ call' = Idle
          \/ /\ call' \in Calls /\ call'.dev = d /\ call'.old = at
             /\ call'.pc = "leave" \/ (call'.pc = "join" /\ at = None)
      BY <2>1, <2>2, DecidedCall
    <2>4. ShapeInv'
      BY <1>1, <2>1, <2>3 DEF IInv, ShapeInv, Calls
    <2>5. CacheInv'
      BY <1>1, <2>1, <2>3 DEF CacheInv, Idle
    <2>6. d \notin Excused => groups[d] \subseteq {at}
      BY DEF IInv, WhereInv, at, m
    <2>7. groups[d] \subseteq Rooms
      BY DEF IInv, ShapeInv
    <2>8. WhereInv'
      <3> SUFFICES ASSUME NEW e \in Devices, e \notin Excused
                   PROVE  /\ pending.moves[e] = None => groups[e] \subseteq {cloudRoom[e]}
                          /\ pending.moves[e] # None => groups[e] \subseteq {pending.moves[e].room}
                          /\ e = d => groups[e] \subseteq {at}
                          /\ e = d /\ at = None => groups[e] = {}
        BY <1>1, <2>1, <2>3 DEF WhereInv, Excused, Calling, Idle
      <3> QED
        BY <2>6, <2>7, RoomMoveAssumption DEF IInv, WhereInv
    <2> QED
      BY <2>4, <2>5, <2>8 DEF IInv
  <1> QED
    BY <1>3, <1>4

\* A pruned move is saved, and the call goes on with the cloud's room.
LEMMA PruneStep ==
    ASSUME IInv, Prune
    PROVE  IInv'
  <1>1. /\ call.pc = "prune" /\ saved' = pending
        /\ call' = Decided(call.dev, call.room, call.old, call.from)
        /\ UNCHANGED <<groups, cloudRoom, pending, early, late, misread>>
    BY DEF Prune, mesh, excuses
  <1>2. call \in Calls
    BY <1>1, CallFields DEF IInv, Working
  <1>3. /\ call.dev \in Devices /\ call.room \in Rooms
        /\ call.old \in Rooms \cup {None} /\ call.from \in Rooms \cup {None}
    BY <1>2 DEF Calls
  <1>4. \/ call' = Idle
        \/ /\ call' \in Calls /\ call'.dev = call.dev /\ call'.old = call.old
           /\ call'.pc = "leave" \/ (call'.pc = "join" /\ call.old = None)
    BY <1>1, <1>3, DecidedCall
  <1>5. ShapeInv'
    BY <1>1, <1>4 DEF IInv, ShapeInv, Calls
  <1>6. CacheInv'
    BY <1>1, <1>4 DEF CacheInv, Idle
  <1>7. WhereInv'
    <2> SUFFICES ASSUME NEW e \in Devices, e \notin Excused
                 PROVE  /\ pending.moves[e] = None => groups[e] \subseteq {cloudRoom[e]}
                        /\ pending.moves[e] # None => groups[e] \subseteq {pending.moves[e].room}
                        /\ e = call.dev => groups[e] \subseteq {call.old}
                        /\ e = call.dev /\ call.old = None => groups[e] = {}
      BY <1>1, <1>4 DEF WhereInv, Excused, Calling, Idle
    <2>1. groups[e] \subseteq Rooms
      BY DEF IInv, ShapeInv
    <2> QED
      BY <1>1, <2>1, RoomMoveAssumption DEF IInv, WhereInv, Calling
  <1> QED
    BY <1>5, <1>6, <1>7 DEF IInv

\* A leave leaves the device in no room, unless it is lost.
LEMMA LeaveStep ==
    ASSUME IInv, Leave
    PROVE  IInv'
  <1>1. /\ call.pc = "leave" /\ pending = saved /\ call' = [call EXCEPT !.pc = "join"]
        /\ UNCHANGED <<cloudRoom, pending, saved, late, misread>>
    BY DEF Leave, cache, IInv, CacheInv
  <1>2. call \in Calls
    BY <1>1, CallFields DEF IInv, Working
  <1>3. call' \in Calls /\ call'.pc = "join" /\ call'.dev = call.dev
    BY <1>1, <1>2 DEF Calls, Working
  <1>4. \/ groups' = [groups EXCEPT ![call.dev] = @ \ {call.old}] /\ early' = early
        \/ groups' = groups /\ early' = early \cup {call.dev}
    BY DEF Leave, Sent
  <1>5. call.dev \in Devices /\ groups \in [Devices -> SUBSET Rooms]
    BY <1>2 DEF Calls, IInv, ShapeInv
  <1>6. ShapeInv'
    BY <1>1, <1>3, <1>4, <1>5 DEF IInv, ShapeInv, Calls
  <1>7. CacheInv'
    BY <1>1, <1>3 DEF CacheInv
  <1>8. WhereInv'
    <2> SUFFICES ASSUME NEW e \in Devices, e \notin Excused'
                 PROVE  /\ pending.moves[e] = None => groups'[e] \subseteq {cloudRoom[e]}
                        /\ pending.moves[e] # None => groups'[e] \subseteq {pending.moves[e].room}
                        /\ e = call.dev => groups'[e] = {}
      BY <1>1, <1>3 DEF WhereInv, Calling
    <2>1. e \notin Excused
      BY <1>1, <1>4 DEF Excused
    <2>2. groups'[e] \subseteq groups[e]
      BY <1>4, <1>5
    <2>3. e = call.dev => groups'[e] = {}
      <3> SUFFICES ASSUME e = call.dev PROVE groups'[e] = {}
        OBVIOUS
      <3>1. groups[e] \subseteq {call.old}
        BY <1>1, <2>1 DEF IInv, WhereInv, Calling
      <3>2. groups'[e] = groups[e] \ {call.old}
        BY <1>4, <1>5 DEF Excused
      <3> QED
        BY <3>1, <3>2
    <2> QED
      BY <2>1, <2>2, <2>3 DEF IInv, WhereInv
  <1> QED
    BY <1>6, <1>7, <1>8 DEF IInv

\* A join puts a device that is in no room into one, unless it is lost.
LEMMA JoinStep ==
    ASSUME IInv, Join
    PROVE  IInv'
  <1> DEFINE m == [room |-> call.room, from |-> call.from]
  <1>1. /\ call.pc = "join" /\ pending = saved /\ call' = [call EXCEPT !.pc = "persist"]
        /\ pending' = Put(pending, call.dev, m)
        /\ UNCHANGED <<cloudRoom, saved, late, misread>>
    BY DEF Join, IInv, CacheInv
  <1>2. call \in Calls
    BY <1>1, CallFields DEF IInv, Working
  <1>3. call' \in Calls /\ call'.pc = "persist" /\ call'.dev = call.dev
    BY <1>1, <1>2 DEF Calls, Working
  <1>4. \/ groups' = [groups EXCEPT ![call.dev] = @ \cup {call.room}] /\ early' = early
        \/ groups' = groups /\ early' = early \cup {call.dev}
    BY DEF Join, Sent
  <1>5. /\ call.dev \in Devices /\ groups \in [Devices -> SUBSET Rooms]
        /\ call.room \in Rooms /\ m \in Move
    BY <1>2 DEF Calls, IInv, ShapeInv, Move
  <1>6. /\ pending'.moves \in [Devices -> Move \cup {None}]
        /\ pending'.moves[call.dev] = m
        /\ \A e \in Devices \ {call.dev} : pending'.moves[e] = saved.moves[e]
    <2>1. pending.moves \in [Devices -> Move \cup {None}]
      BY DEF IInv, ShapeInv
    <2>2. /\ Put(pending, call.dev, m).moves \in [Devices -> Move \cup {None}]
          /\ Put(pending, call.dev, m).moves[call.dev] = m
          /\ \A e \in Devices \ {call.dev} :
               Put(pending, call.dev, m).moves[e] = pending.moves[e]
      BY <1>5, <2>1, PutMoves
    <2> QED
      BY <1>1, <2>2
  <1>7. ShapeInv'
    BY <1>1, <1>3, <1>4, <1>5, <1>6 DEF IInv, ShapeInv, Calls
  <1>8. CacheInv'
    BY <1>1, <1>3, <1>6 DEF CacheInv
  <1>9. WhereInv'
    <2> SUFFICES ASSUME NEW e \in Devices, e \notin Excused'
                 PROVE  /\ pending'.moves[e] = None => groups'[e] \subseteq {cloudRoom[e]}
                        /\ pending'.moves[e] # None => groups'[e] \subseteq {pending'.moves[e].room}
                        /\ saved.moves[e] # None /\ e # call.dev =>
                             groups'[e] \subseteq {saved.moves[e].room}
      BY <1>1, <1>3 DEF WhereInv, Calling
    <2>1. e \notin Excused
      BY <1>1, <1>4 DEF Excused
    <2>2. CASE e # call.dev
      <3>1. groups'[e] = groups[e] /\ pending'.moves[e] = saved.moves[e]
        BY <1>4, <1>5, <1>6, <2>2
      <3> QED
        BY <1>1, <2>1, <2>2, <3>1 DEF IInv, WhereInv
    <2>3. CASE e = call.dev
      <3>1. groups[e] = {}
        BY <1>1, <2>1, <2>3 DEF IInv, WhereInv, Calling
      <3>2. groups'[e] = {call.room}
        BY <1>4, <1>5, <2>3, <3>1 DEF Excused
      <3>3. pending'.moves[e] = m /\ m # None /\ m.room = call.room
        BY <1>5, <1>6, <2>3, RoomMoveAssumption
      <3> QED
        BY <2>3, <3>2, <3>3
    <2> QED
      BY <2>2, <2>3
  <1> QED
    BY <1>7, <1>8, <1>9 DEF IInv

\* A call that fails between two commands has saved all there is.
LEMMA FailsStep ==
    ASSUME IInv, Fails
    PROVE  IInv'
  <1>1. /\ call.pc \in {"leave", "join", "refresh"} /\ call' = Idle /\ pending = saved
        /\ UNCHANGED <<groups, cloudRoom, pending, saved, early, late, misread>>
    BY DEF Fails, IInv, CacheInv, mesh, cache, excuses
  <1>2. ShapeInv'
    BY <1>1 DEF IInv, ShapeInv
  <1>3. CacheInv'
    BY <1>1 DEF CacheInv, Idle
  <1>4. WhereInv'
    BY <1>1 DEF IInv, WhereInv, Excused, Calling, Idle
  <1> QED
    BY <1>2, <1>3, <1>4 DEF IInv

\* The noted move is saved.
LEMMA PersistStep ==
    ASSUME IInv, Persist
    PROVE  IInv'
  <1>1. /\ call.pc = "persist" /\ call' = [call EXCEPT !.pc = "refresh"] /\ saved' = pending
        /\ UNCHANGED <<groups, cloudRoom, pending, early, late, misread>>
    BY DEF Persist, mesh, excuses
  <1>2. call \in Calls
    BY <1>1, CallFields DEF IInv, Working
  <1>3. call' \in Calls /\ call'.pc = "refresh"
    BY <1>1, <1>2 DEF Calls, Working
  <1>4. ShapeInv'
    BY <1>1, <1>3 DEF IInv, ShapeInv, Calls
  <1>5. CacheInv'
    BY <1>1, <1>3 DEF CacheInv
  <1>6. WhereInv'
    BY <1>1, <1>3 DEF IInv, WhereInv, Excused, Calling
  <1> QED
    BY <1>4, <1>5, <1>6 DEF IInv

\* Moves the cloud agrees with are over: its word is then as good as theirs.
LEMMA RefreshStep ==
    ASSUME IInv, Refresh
    PROVE  IInv'
  <1> DEFINE agreed == {d \in Devices : /\ pending.moves[d] # None
                                       /\ Converged(d, pending.moves[d], cloudRoom, cloudIn)}
  <1>1. /\ call.pc = "refresh" /\ call'.pc = "reload" /\ pending = saved
        /\ pending' = Without(pending, agreed)
        /\ UNCHANGED <<groups, cloudRoom, saved, early, late, misread>>
    BY DEF Refresh, IInv, CacheInv, mesh, excuses
  <1>2. /\ pending'.moves \in [Devices -> Move \cup {None}]
        /\ \A d \in Devices : pending'.moves[d] = IF d \in agreed THEN None ELSE saved.moves[d]
    <2>1. pending.moves \in [Devices -> Move \cup {None}]
      BY DEF IInv, ShapeInv
    <2> HIDE DEF agreed
    <2>2. /\ Without(pending, agreed).moves \in [Devices -> Move \cup {None}]
          /\ \A d \in Devices : Without(pending, agreed).moves[d]
                                 = IF d \in agreed THEN None ELSE pending.moves[d]
      BY <2>1, WithoutMoves
    <2> QED
      BY <1>1, <2>2
  <1>3. \A d \in agreed : saved.moves[d] # None /\ saved.moves[d].room = cloudRoom[d]
    BY <1>1, ConvergedRoom
  <1> HIDE DEF agreed
  <1>4. ShapeInv'
    BY <1>1, <1>2 DEF IInv, ShapeInv
  <1>5. CacheInv'
    BY <1>1, <1>2 DEF CacheInv
  <1>6. WhereInv'
    <2> SUFFICES ASSUME NEW e \in Devices, e \notin Excused
                 PROVE  /\ pending'.moves[e] = None => groups[e] \subseteq {cloudRoom[e]}
                        /\ pending'.moves[e] # None => groups[e] \subseteq {pending'.moves[e].room}
                        /\ saved.moves[e] # None => groups[e] \subseteq {saved.moves[e].room}
      BY <1>1 DEF WhereInv, Excused, Calling
    <2>1. /\ saved.moves[e] = None => groups[e] \subseteq {cloudRoom[e]}
          /\ saved.moves[e] # None => groups[e] \subseteq {saved.moves[e].room}
      BY <1>1 DEF IInv, WhereInv
    <2> QED
      BY <1>2, <1>3, <2>1
  <1> QED
    BY <1>4, <1>5, <1>6 DEF IInv

\* What is left of the moves is saved.
LEMMA ReloadStep ==
    ASSUME IInv, Reload
    PROVE  IInv'
  <1>1. /\ call.pc = "reload" /\ call' = Idle /\ saved' = pending
        /\ UNCHANGED <<groups, cloudRoom, pending, early, late, misread>>
    BY DEF Reload, mesh, excuses
  <1>2. ShapeInv'
    BY <1>1 DEF IInv, ShapeInv
  <1>3. CacheInv'
    BY <1>1 DEF CacheInv, Idle
  <1>4. WhereInv'
    BY <1>1 DEF IInv, WhereInv, Excused, Calling, Idle
  <1> QED
    BY <1>2, <1>3, <1>4 DEF IInv

-----------------------------------------------------------------------------
(* The steps of the others. *)

\* After a restart the saved moves stand in for those in memory, or the cloud does.
LEMMA RestartStep ==
    ASSUME IInv, Restart
    PROVE  IInv'
  <1>1. /\ call' = Idle /\ pending' = saved
        /\ early' = IF call.pc = "persist" THEN early \cup {call.dev} ELSE early
        /\ UNCHANGED <<groups, cloudRoom, saved, late, misread>>
    BY DEF Restart, mesh
  <1>2. ShapeInv'
    BY <1>1 DEF IInv, ShapeInv
  <1>3. CacheInv'
    BY <1>1 DEF CacheInv, Idle
  <1>4. WhereInv'
    <2> SUFFICES ASSUME NEW e \in Devices, e \notin Excused'
                 PROVE  /\ saved.moves[e] = None => groups[e] \subseteq {cloudRoom[e]}
                        /\ saved.moves[e] # None => groups[e] \subseteq {saved.moves[e].room}
      BY <1>1 DEF WhereInv, Calling, Idle
    <2>1. e \notin Excused /\ ~Calling(e, {"persist"})
      BY <1>1 DEF Excused, Calling
    <2>2. saved.moves[e] = None => pending.moves[e] = None
      <3>1. CASE call.pc \in {"idle", "leave", "join", "refresh"}
        BY <3>1 DEF IInv, CacheInv
      <3>2. CASE call.pc \in {"prune", "persist"}
        BY <2>1, <3>2 DEF IInv, CacheInv, Calling
      <3>3. CASE call.pc = "reload"
        BY <3>3 DEF IInv, CacheInv
      <3> QED
        BY <3>1, <3>2, <3>3 DEF IInv, ShapeInv, Working, Idle
    <2> QED
      BY <2>1, <2>2 DEF IInv, WhereInv
  <1> QED
    BY <1>2, <1>3, <1>4 DEF IInv

\* The cloud comes to show a group the device is in.
LEMMA CloudRoomStep ==
    ASSUME IInv, NEW d \in Devices, CloudRoomFollows(d)
    PROVE  IInv'
  <1>1. PICK r \in IF groups[d] = {} THEN {None} ELSE groups[d] :
            cloudRoom' = [cloudRoom EXCEPT ![d] = r]
    BY DEF CloudRoomFollows
  <1>2. UNCHANGED <<groups, pending, saved, call, early, late, misread>>
    BY DEF CloudRoomFollows, cache, excuses
  <1>3. /\ groups \in [Devices -> SUBSET Rooms]
        /\ cloudRoom \in [Devices -> Rooms \cup {None}]
    BY DEF IInv, ShapeInv
  <1>4. r \in Rooms \cup {None}
    BY <1>1, <1>3
  <1>5. ShapeInv'
    BY <1>1, <1>2, <1>3, <1>4 DEF IInv, ShapeInv
  <1>6. CacheInv'
    BY <1>2 DEF IInv, CacheInv
  <1>7. \A e \in Devices :
            groups[e] \subseteq {cloudRoom[e]} => groups[e] \subseteq {cloudRoom'[e]}
    BY <1>1, <1>3
  <1>8. WhereInv'
    BY <1>2, <1>7 DEF IInv, WhereInv, Excused, Calling
  <1> QED
    BY <1>5, <1>6, <1>8 DEF IInv

\* Where the groups list a device matters only to what is shown.
LEMMA CloudGroupsStep ==
    ASSUME IInv, NEW d \in Devices, CloudGroupsFollow(d)
    PROVE  IInv'
  <1>1. UNCHANGED <<groups, cloudRoom, pending, saved, call, early, late, misread>>
    BY DEF CloudGroupsFollow, cache, excuses
  <1> QED
    BY <1>1 DEF IInv, ShapeInv, CacheInv, WhereInv, Excused, Calling

\* A device that the app moves is excused, or nobody but the cloud is asked for its room.
LEMMA AppStep ==
    ASSUME IInv, NEW d \in Devices, NEW r \in Rooms, AppMoves(d, r)
    PROVE  IInv'
  <1>1. /\ groups' = [groups EXCEPT ![d] = {r}] /\ cloudRoom' = [cloudRoom EXCEPT ![d] = r]
        /\ UNCHANGED <<pending, saved, call, misread>>
    BY DEF AppMoves, cache
  <1>2. Excused \subseteq Excused'
    BY <1>1 DEF AppMoves, Excused
  <1>3. d \notin Excused' =>
            /\ pending.moves[d] = None /\ call.pc # "reload"
            /\ ~(call.pc \in Working /\ call.dev = d)
    BY DEF AppMoves, Excused
  <1>4. d \notin Excused' => saved.moves[d] = None
    <2> SUFFICES ASSUME d \notin Excused' PROVE saved.moves[d] = None
      OBVIOUS
    <2>1. CASE call.pc \in {"idle", "leave", "join", "refresh"}
      BY <1>3, <2>1 DEF IInv, CacheInv
    <2>2. CASE call.pc \in {"prune", "persist"}
      BY <1>3, <2>2 DEF IInv, CacheInv, Working
    <2> QED
      BY <1>3, <2>1, <2>2 DEF IInv, ShapeInv, Working, Idle
  <1>5. /\ groups \in [Devices -> SUBSET Rooms]
        /\ cloudRoom \in [Devices -> Rooms \cup {None}]
    BY DEF IInv, ShapeInv
  <1>6. ShapeInv'
    BY <1>1, <1>5 DEF IInv, ShapeInv
  <1>7. CacheInv'
    BY <1>1 DEF IInv, CacheInv
  <1>8. WhereInv'
    <2> SUFFICES ASSUME NEW e \in Devices, e \notin Excused'
                 PROVE  /\ pending.moves[e] = None => groups'[e] \subseteq {cloudRoom'[e]}
                        /\ pending.moves[e] # None => groups'[e] \subseteq {pending.moves[e].room}
                        /\ saved.moves[e] # None /\ ~Calling(e, {"persist"}) =>
                             groups'[e] \subseteq {saved.moves[e].room}
                        /\ Calling(e, {"prune", "leave"}) => groups'[e] \subseteq {call.old}
                        /\ Calling(e, {"join"}) => groups'[e] = {}
      BY <1>1 DEF WhereInv, Calling
    <2>1. CASE e = d
      BY <1>1, <1>3, <1>4, <1>5, <2>1 DEF Calling, Working
    <2>2. CASE e # d
      <3>1. groups'[e] = groups[e] /\ cloudRoom'[e] = cloudRoom[e] /\ e \notin Excused
        BY <1>1, <1>2, <1>5, <2>2
      <3> QED
        BY <3>1 DEF IInv, WhereInv
    <2> QED
      BY <2>1, <2>2
  <1> QED
    BY <1>6, <1>7, <1>8 DEF IInv

-----------------------------------------------------------------------------
(* One room, and nothing forgotten. *)

LEMMA NextIInv == IInv /\ [Next]_vars => IInv'
  <1> SUFFICES ASSUME IInv, [Next]_vars PROVE IInv'
    OBVIOUS
  <1>1. CASE UNCHANGED vars
    BY <1>1 DEF vars, IInv, ShapeInv, CacheInv, WhereInv, Excused, Calling
  <1>2. ASSUME NEW d \in Devices, NEW r \in Rooms, Begin(d, r) \/ AppMoves(d, r)
        PROVE  IInv'
    BY <1>2, BeginStep, AppStep
  <1>3. CASE Prune \/ Leave \/ Join \/ Fails \/ Persist \/ Refresh \/ Reload \/ Restart
    BY <1>3, PruneStep, LeaveStep, JoinStep, FailsStep, PersistStep, RefreshStep, ReloadStep,
       RestartStep
  <1>4. ASSUME NEW d \in Devices, CloudRoomFollows(d) \/ CloudGroupsFollow(d)
        PROVE  IInv'
    BY <1>4, CloudRoomStep, CloudGroupsStep
  <1> QED
    BY <1>1, <1>2, <1>3, <1>4 DEF Next

\* Whoever would be asked for the room of a device knows it, and memory and entry differ
\* only inside the steps that bring them together (manage_device_room.py).
THEOREM Invariance == Spec => []IInv
  BY InitIInv, NextIInv, PTL DEF Spec

\* No device is in two rooms' groups, but for the excuses that NeverInTwoRooms names
\* (async_move_device_to_room).
THEOREM OneRoom == Spec => []NeverInTwoRooms
  <1>1. IInv => NeverInTwoRooms
    <2> SUFFICES ASSUME IInv, NEW d \in Devices \ (early \cup late \cup misread),
                        NEW r \in groups[d], NEW s \in groups[d]
                 PROVE  r = s
      BY DEF NeverInTwoRooms
    <2>1. \/ groups[d] \subseteq {cloudRoom[d]}
          \/ groups[d] \subseteq {pending.moves[d].room}
      BY DEF IInv, WhereInv, Excused
    <2> QED
      BY <2>1
  <1> QED
    BY <1>1, Invariance, PTL

\* Between calls, memory and entry hold the same moves (_pending_moves,
\* _async_persist_pending).
THEOREM NothingForgotten == Spec => []RestartForgetsNothing
  <1>1. IInv => RestartForgetsNothing
    BY DEF IInv, CacheInv, RestartForgetsNothing
  <1> QED
    BY <1>1, Invariance, PTL


-----------------------------------------------------------------------------
(* Induction over the positions of a sequence, and what it says of a function that is *)
(* defined along them. *)

\* A set of numbers has a least one: intervals are ordered as their bounds are.
LEMMA LeastNumber ==
    ASSUME NEW T \in SUBSET Nat, T # {}
    PROVE  \E n \in T : \A k \in T : n <= k
  <1> DEFINE Below == {0..n : n \in T}
  <1>1. Below \subseteq FiniteSubsetsOf(Nat) /\ Below # {}
    <2>1. ASSUME NEW n \in T PROVE 0..n \in SUBSET Nat /\ IsFiniteSet(0..n)
      BY FS_Interval
    <2> QED
      BY <2>1 DEF FiniteSubsetsOf
  <1>2. PICK x \in Below : \A y \in Below : ~(<<y, x>> \in StrictSubsetOrdering(Nat))
    <2> HIDE DEF Below
    <2>1. IsWellFoundedOn(StrictSubsetOrdering(Nat), FiniteSubsetsOf(Nat))
      BY FS_StrictSubsetOrderingWellFounded
    <2> QED
      BY <1>1, <2>1, WFMin
  <1>3. PICK n \in T : x = 0..n
    BY <1>2
  <1>4. ASSUME NEW k \in T, ~(n <= k) PROVE FALSE
    <2>1. k \in Nat /\ n \in Nat /\ k < n
      BY <1>4
    <2>2. n \in 0..n /\ n \notin 0..k /\ 0..k \subseteq 0..n
      BY <2>1
    <2>3. <<0..k, 0..n>> \in StrictSubsetOrdering(Nat)
      BY <2>1, <2>2 DEF StrictSubsetOrdering
    <2> QED
      BY <1>2, <1>3, <2>3
  <1> QED
    BY <1>4

\* What holds of 0, and of each number if of the one before it, holds of all.
LEMMA Induction ==
    ASSUME NEW n \in Nat, NEW S, 0 \in S, \A k \in 1..n : k - 1 \in S => k \in S
    PROVE  \A k \in 0..n : k \in S
  <1> SUFFICES ASSUME {k \in 0..n : k \notin S} # {} PROVE FALSE
    OBVIOUS
  <1> DEFINE T == {k \in 0..n : k \notin S}
  <1>1. T \in SUBSET Nat /\ T # {}
    OBVIOUS
  <1>2. PICK k \in T : \A j \in T : k <= j
    <2> HIDE DEF T
    <2> QED
      BY <1>1, LeastNumber
  <1>3. k \in 0..n /\ k # 0 /\ k - 1 \in 0..n /\ k \in 1..n /\ ~(k <= k - 1)
    BY <1>2
  <1> QED
    BY <1>2, <1>3

\* The functions that begin with a value and continue by steps.
Runs(n, T, base, step) ==
    {f \in [0..n -> T] : f[0] = base /\ \A k \in 1..n : f[k] = step[k][f[k - 1]]}

\* There is one.
LEMMA Recursion ==
    ASSUME NEW n \in Nat, NEW T, NEW base \in T, NEW step \in [1..n -> [T -> T]]
    PROVE  Runs(n, T, base, step) # {}
  <1> DEFINE Upto(k, f) == f[0] = base /\ \A j \in 1..k : f[j] = step[j][f[j - 1]]
             S == {k \in 0..n : \E f \in [0..k -> T] : Upto(k, f)}
  <1>1. 0 \in S
    <2> DEFINE f == [j \in 0..0 |-> base]
    <2>1. f \in [0..0 -> T] /\ Upto(0, f)
      OBVIOUS
    <2>2. 0 \in 0..n
      OBVIOUS
    <2> QED
      BY <2>1, <2>2
  <1>2. ASSUME NEW k \in 1..n, k - 1 \in S PROVE k \in S
    <2>1. PICK f \in [0..(k - 1) -> T] : Upto(k - 1, f)
      BY <1>2
    <2> DEFINE g == [j \in 0..k |-> IF j = k THEN step[k][f[k - 1]] ELSE f[j]]
    <2>2. step[k] \in [T -> T] /\ f[k - 1] \in T
      OBVIOUS
    <2>3. /\ g \in [0..k -> T] /\ g[k] = step[k][f[k - 1]]
          /\ \A j \in 0..(k - 1) : g[j] = f[j]
      BY <2>2
    <2> HIDE DEF g
    <2>4. g[0] = base
      BY <2>1, <2>3
    <2>5. ASSUME NEW j \in 1..k PROVE g[j] = step[j][g[j - 1]]
      <3>1. CASE j = k
        BY <2>3, <3>1
      <3>2. CASE j # k
        <4>1. j \in 1..(k - 1) /\ j \in 0..(k - 1) /\ j - 1 \in 0..(k - 1)
          BY <3>2
        <4> QED
          BY <2>1, <2>3, <4>1
      <3> QED
        BY <3>1, <3>2
    <2>6. k \in 0..n
      OBVIOUS
    <2> QED
      BY <2>3, <2>4, <2>5, <2>6
  <1>3. n \in S
    <2> HIDE DEF S
    <2>1. \A k \in 0..n : k \in S
      BY <1>1, <1>2, Induction
    <2> QED
      BY <2>1
  <1> QED
    BY <1>3 DEF Runs

-----------------------------------------------------------------------------
(* The order of a dict of moves. *)

\* A new device at the end.
LEMMA AppendIs ==
    ASSUME NEW s \in Seq(Devices), IsInjective(s), NEW d \in Devices, d \notin Range(s)
    PROVE  /\ Append(s, d) \in Seq(Devices) /\ IsInjective(Append(s, d))
           /\ Range(Append(s, d)) = Range(s) \cup {d}
  <1>1. /\ Append(s, d) \in Seq(Devices) /\ Len(Append(s, d)) = Len(s) + 1
        /\ DOMAIN s = 1..Len(s) /\ DOMAIN Append(s, d) = 1..(Len(s) + 1) /\ Len(s) \in Nat
        /\ \A i \in 1..Len(s) : Append(s, d)[i] = s[i]
        /\ Append(s, d)[Len(s) + 1] = d
    OBVIOUS
  <1>2. \A i \in 1..(Len(s) + 1) : i \in 1..Len(s) \/ i = Len(s) + 1
    BY <1>1
  <1>3. \A i \in 1..Len(s) : s[i] # d /\ i \in 1..(Len(s) + 1)
    BY <1>1 DEF Range
  <1>4. IsInjective(Append(s, d))
    BY <1>1, <1>2, <1>3 DEF IsInjective
  <1>5. Range(Append(s, d)) = Range(s) \cup {d}
    <2>1. Len(s) + 1 \in 1..(Len(s) + 1)
      BY <1>1
    <2> QED
      BY <1>1, <1>2, <1>3, <2>1 DEF Range
  <1> QED
    BY <1>1, <1>4, <1>5

\* The function behind Kept.
LEMMA KeptRuns ==
    ASSUME NEW order \in Seq(Devices), NEW ds
    PROVE  \E f \in [0..Len(order) -> Seq(Devices)] :
             /\ f[0] = <<>>
             /\ \A k \in 1..Len(order) :
                  f[k] = IF order[k] \in ds THEN f[k - 1] ELSE Append(f[k - 1], order[k])
             /\ Kept(order, ds) = f[Len(order)]
  <1> DEFINE n == Len(order)
             T == Seq(Devices)
             base == <<>>
             Step(k, s) == IF order[k] \in ds THEN s ELSE Append(s, order[k])
             step == [k \in 1..n |-> [s \in T |-> Step(k, s)]]
             K == CHOOSE f : f = [k \in 0..n |-> IF k = 0 THEN base ELSE Step(k, f[k - 1])]
  <1>1. n \in Nat /\ base \in T /\ \A k \in 1..n, s \in T : Step(k, s) \in T
    OBVIOUS
  <1>2. Kept(order, ds) = K[n]
    BY DEF Kept
  <1> HIDE DEF n, T, base, Step
  <1>3. step \in [1..n -> [T -> T]] /\ \A k \in 1..n, s \in T : step[k][s] = Step(k, s)
    BY <1>1
  <1> HIDE DEF step
  <1>4. PICK f \in [0..n -> T] : f[0] = base /\ \A k \in 1..n : f[k] = step[k][f[k - 1]]
    <2>1. Runs(n, T, base, step) # {}
      BY <1>1, <1>3, Recursion
    <2> QED
      BY <2>1 DEF Runs
  <1>5. \A k \in 1..n : f[k] = Step(k, f[k - 1])
    <2> SUFFICES ASSUME NEW k \in 1..n PROVE f[k] = Step(k, f[k - 1])
      OBVIOUS
    <2>1. k - 1 \in 0..n
      BY <1>1
    <2> QED
      BY <1>3, <1>4, <2>1
  <1>6. K = [k \in 0..n |-> IF k = 0 THEN base ELSE Step(k, K[k - 1])]
    <2>1. \A k \in 0..n : f[k] = IF k = 0 THEN base ELSE Step(k, f[k - 1])
      BY <1>1, <1>4, <1>5
    <2>2. f = [k \in 0..n |-> IF k = 0 THEN base ELSE Step(k, f[k - 1])]
      BY <2>1, Zenon
    <2> QED
      BY <2>2
  <1> HIDE DEF K
  <1>7. K[0] = base /\ \A k \in 1..n : K[k] = Step(k, K[k - 1])
    BY <1>1, <1>6
  <1>8. \A k \in 0..n : K[k] \in T
    <2> DEFINE S == {k \in 0..n : K[k] \in T}
    <2>1. 0 \in S
      BY <1>1, <1>7
    <2>2. ASSUME NEW k \in 1..n, k - 1 \in S PROVE k \in S
      BY <1>1, <1>7, <2>2
    <2> HIDE DEF S
    <2>3. \A k \in 0..n : k \in S
      BY <1>1, <2>1, <2>2, Induction
    <2> QED
      BY <2>3 DEF S
  <1>9. K \in [0..n -> T]
    BY <1>6, <1>8
  <1> QED
    BY <1>2, <1>7, <1>9 DEF T, n, base, Step

\* The devices that are not deleted, each once.
LEMMA KeptIs ==
    ASSUME NEW order \in Seq(Devices), IsInjective(order), NEW ds
    PROVE  /\ Kept(order, ds) \in Seq(Devices) /\ IsInjective(Kept(order, ds))
           /\ Range(Kept(order, ds)) = Range(order) \ ds
  <1> DEFINE n == Len(order)
             Upto(k) == {order[i] : i \in 1..k} \ ds
  <1>1. PICK f \in [0..n -> Seq(Devices)] :
            /\ f[0] = <<>>
            /\ \A k \in 1..n :
                 f[k] = IF order[k] \in ds THEN f[k - 1] ELSE Append(f[k - 1], order[k])
            /\ Kept(order, ds) = f[n]
    BY KeptRuns
  <1>2. n \in Nat /\ \A k \in 1..n : order[k] \in Devices /\ k - 1 \in 0..n /\ k \in 0..n
    OBVIOUS
  <1> DEFINE S == {k \in 0..n : IsInjective(f[k]) /\ Range(f[k]) = Upto(k)}
  <1>3. 0 \in S
    <2>1. IsInjective(<<>>) /\ Range(<<>>) = {}
      BY DEF IsInjective, Range
    <2>2. Upto(0) = {} /\ 0 \in 0..n
      BY <1>2
    <2> QED
      BY <1>1, <2>1, <2>2
  <1>4. ASSUME NEW k \in 1..n, k - 1 \in S PROVE k \in S
    <2>1. /\ f[k - 1] \in Seq(Devices) /\ IsInjective(f[k - 1])
          /\ Range(f[k - 1]) = Upto(k - 1)
      BY <1>2, <1>4
    <2>2. \A i \in 1..k : i = k \/ i \in 1..(k - 1)
      BY <1>2
    <2>3. \A i \in 1..(k - 1) : i \in 1..k /\ i # k /\ i \in 1..n
      BY <1>2
    <2>4. CASE order[k] \in ds
      <3>1. Upto(k) = Upto(k - 1)
        BY <2>2, <2>3, <2>4
      <3> QED
        BY <1>1, <1>2, <2>1, <2>4, <3>1
    <2>5. CASE order[k] \notin ds
      <3>1. Upto(k) = Upto(k - 1) \cup {order[k]}
        <4>1. k \in 1..k
          BY <1>2
        <4> QED
          BY <2>2, <2>3, <2>5, <4>1
      <3>2. order[k] \notin Upto(k - 1)
        <4>1. \A i \in 1..(k - 1) : order[i] # order[k]
          BY <2>3 DEF IsInjective
        <4> QED
          BY <4>1
      <3>3. f[k] = Append(f[k - 1], order[k])
        BY <1>1, <2>5
      <3> HIDE DEF Upto
      <3>4. IsInjective(f[k]) /\ Range(f[k]) = Upto(k)
        BY <1>2, <2>1, <3>1, <3>2, <3>3, AppendIs
      <3> QED
        BY <1>2, <3>4
    <2> QED
      BY <2>4, <2>5
  <1>5. n \in S
    <2> HIDE DEF S, n
    <2>1. \A k \in 0..n : k \in S
      BY <1>2, <1>3, <1>4, Induction
    <2> QED
      BY <1>2, <2>1
  <1>6. f[n] \in Seq(Devices) /\ IsInjective(f[n]) /\ Range(f[n]) = Upto(n)
    BY <1>2, <1>5
  <1>7. Upto(n) = Range(order) \ ds
    BY DEF Range
  <1> QED
    BY <1>1, <1>6, <1>7

\* Deleting moves leaves a dict of moves, and so does noting one.
LEMMA WithoutIs ==
    ASSUME NEW p, IsPendings(p), NEW ds
    PROVE  IsPendings(Without(p, ds))
  <1> DEFINE w == Without(p, ds)
  <1>1. /\ p.moves \in [Devices -> Move \cup {None}]
        /\ p.order \in Seq(Devices) /\ IsInjective(p.order)
        /\ Range(p.order) = {d \in Devices : p.moves[d] # None}
    BY DEF IsPendings
  <1>2. /\ w.moves \in [Devices -> Move \cup {None}]
        /\ \A d \in Devices : w.moves[d] = IF d \in ds THEN None ELSE p.moves[d]
    BY <1>1, WithoutMoves
  <1>3. /\ w.order \in Seq(Devices) /\ IsInjective(w.order)
        /\ Range(w.order) = Range(p.order) \ ds
    <2>1. w.order = Kept(p.order, ds)
      BY DEF Without
    <2> HIDE DEF w
    <2> QED
      BY <1>1, <2>1, KeptIs
  <1> HIDE DEF w
  <1>4. Range(w.order) = {d \in Devices : w.moves[d] # None}
    BY <1>1, <1>2, <1>3
  <1>5. IsPendings(w)
    BY <1>2, <1>3, <1>4 DEF IsPendings
  <1> QED
    BY <1>5 DEF w

\* A repeated move keeps its place, a new one is the last.
LEMMA PutIs ==
    ASSUME NEW p, IsPendings(p), NEW d \in Devices, NEW m \in Move
    PROVE  IsPendings(Put(p, d, m))
  <1> DEFINE q == Put(p, d, m)
  <1>1. /\ p.moves \in [Devices -> Move \cup {None}]
        /\ p.order \in Seq(Devices) /\ IsInjective(p.order)
        /\ Range(p.order) = {e \in Devices : p.moves[e] # None}
    BY DEF IsPendings
  <1>2. /\ q.moves \in [Devices -> Move \cup {None}] /\ q.moves[d] = m
        /\ \A e \in Devices \ {d} : q.moves[e] = p.moves[e]
    BY <1>1, PutMoves
  <1>3. m # None
    BY RoomMoveAssumption
  <1>4. /\ q.order \in Seq(Devices) /\ IsInjective(q.order)
        /\ Range(q.order) = Range(p.order) \cup {d}
    <2>1. CASE p.moves[d] = None
      <3>1. q.order = Append(p.order, d) /\ d \notin Range(p.order)
        BY <1>1, <2>1 DEF Put
      <3> QED
        BY <1>1, <3>1, AppendIs
    <2>2. CASE p.moves[d] # None
      <3>1. q.order = p.order /\ d \in Range(p.order)
        BY <1>1, <2>2 DEF Put
      <3> QED
        BY <1>1, <3>1
    <2> QED
      BY <2>1, <2>2
  <1> HIDE DEF q
  <1>5. Range(q.order) = {e \in Devices : q.moves[e] # None}
    BY <1>1, <1>2, <1>3, <1>4
  <1>6. IsPendings(q)
    BY <1>2, <1>4, <1>5 DEF IsPendings
  <1> QED
    BY <1>6 DEF q

-----------------------------------------------------------------------------
(* The patches of the room lights. *)

Rows == [Rooms -> SUBSET Devices]

\* A patch makes room lights of room lights.
LEMMA PatchedRow ==
    ASSUME NEW rooms \in Rows, NEW d \in Devices, NEW m \in Move
    PROVE  Patched(rooms, d, m) \in Rows
  BY DEF Patched, Rows, Move

\* What a patch may do: it empties rooms, and it adds the device to the room it moves to.
LEMMA PatchAdds ==
    ASSUME NEW rooms \in Rows, NEW d \in Devices, NEW m \in Move, NEW r \in Rooms
    PROVE  /\ \A e \in Devices \ {d} : e \in Patched(rooms, d, m)[r] => e \in rooms[r]
           /\ rooms[r] = {} => Patched(rooms, d, m)[r] = {}
           /\ d \notin rooms[r] /\ d \in Patched(rooms, d, m)[r] => r = m.room
           /\ d \in lights /\ r # m.room => d \notin Patched(rooms, d, m)[r]
           /\ d \notin lights => Patched(rooms, d, m)[m.room] = {}
  <1>1. m.room \in Rooms
    BY DEF Move
  <1>2. CASE d \in lights
    BY <1>1, <1>2 DEF Patched, Rows
  <1>3. CASE d \notin lights
    BY <1>1, <1>3 DEF Patched, Rows
  <1> QED
    BY <1>2, <1>3

\* The function behind AllPatched.
LEMMA PatchedRuns ==
    ASSUME NEW rooms \in Rows, NEW p, IsPendings(p)
    PROVE  \E f \in [0..Len(p.order) -> Rows] :
             /\ f[0] = rooms
             /\ \A k \in 1..Len(p.order) :
                  f[k] = Patched(f[k - 1], p.order[k], p.moves[p.order[k]])
             /\ AllPatched(rooms, p) = f[Len(p.order)]
  <1> DEFINE n == Len(p.order)
             T == Rows
             Step(k, s) == Patched(s, p.order[k], p.moves[p.order[k]])
             step == [k \in 1..n |-> [s \in T |-> Step(k, s)]]
             K == CHOOSE f : f = [k \in 0..n |-> IF k = 0 THEN rooms ELSE Step(k, f[k - 1])]
  <1>1. n \in Nat /\ rooms \in T /\ \A k \in 1..n, s \in T : Step(k, s) \in T
    <2>1. \A k \in 1..n : p.order[k] \in Devices /\ p.moves[p.order[k]] \in Move
      BY DEF IsPendings, Range
    <2>2. n \in Nat
      BY DEF IsPendings
    <2> HIDE DEF n
    <2> QED
      BY <2>1, <2>2, PatchedRow
  <1>2. AllPatched(rooms, p) = K[n]
    BY DEF AllPatched
  <1> HIDE DEF n, T, Step
  <1>3. step \in [1..n -> [T -> T]] /\ \A k \in 1..n, s \in T : step[k][s] = Step(k, s)
    BY <1>1
  <1> HIDE DEF step
  <1>4. PICK f \in [0..n -> T] : f[0] = rooms /\ \A k \in 1..n : f[k] = step[k][f[k - 1]]
    <2>1. Runs(n, T, rooms, step) # {}
      BY <1>1, <1>3, Recursion
    <2> QED
      BY <2>1 DEF Runs
  <1>5. \A k \in 1..n : f[k] = Step(k, f[k - 1])
    <2> SUFFICES ASSUME NEW k \in 1..n PROVE f[k] = Step(k, f[k - 1])
      OBVIOUS
    <2>1. k - 1 \in 0..n
      BY <1>1
    <2> QED
      BY <1>3, <1>4, <2>1
  <1>6. K = [k \in 0..n |-> IF k = 0 THEN rooms ELSE Step(k, K[k - 1])]
    <2>1. \A k \in 0..n : f[k] = IF k = 0 THEN rooms ELSE Step(k, f[k - 1])
      BY <1>1, <1>4, <1>5
    <2>2. f = [k \in 0..n |-> IF k = 0 THEN rooms ELSE Step(k, f[k - 1])]
      BY <2>1, Zenon
    <2> QED
      BY <2>2
  <1> HIDE DEF K
  <1>7. K[0] = rooms /\ \A k \in 1..n : K[k] = Step(k, K[k - 1])
    BY <1>1, <1>6
  <1>8. \A k \in 0..n : K[k] \in T
    <2> DEFINE S == {k \in 0..n : K[k] \in T}
    <2>1. 0 \in S
      BY <1>1, <1>7
    <2>2. ASSUME NEW k \in 1..n, k - 1 \in S PROVE k \in S
      BY <1>1, <1>7, <2>2
    <2> HIDE DEF S
    <2>3. \A k \in 0..n : k \in S
      BY <1>1, <2>1, <2>2, Induction
    <2> QED
      BY <2>3 DEF S
  <1>9. K \in [0..n -> T]
    BY <1>6, <1>8
  <1> QED
    BY <1>2, <1>7, <1>9 DEF T, n, Step

\* Once every pending move is applied, a light with one is in no other room light, no room
\* light stands for the room of another device with one, and a device without one is in no
\* room light that it was not in before.
LEMMA AllPatchedShows ==
    ASSUME NEW rooms \in Rows, NEW p, IsPendings(p), NEW d \in Devices, NEW r \in Rooms
    PROVE  /\ AllPatched(rooms, p) \in Rows
           /\ d \in lights /\ p.moves[d] # None /\ r # p.moves[d].room =>
                d \notin AllPatched(rooms, p)[r]
           /\ d \notin lights /\ p.moves[d] # None => AllPatched(rooms, p)[p.moves[d].room] = {}
           /\ p.moves[d] = None /\ d \in AllPatched(rooms, p)[r] => d \in rooms[r]
  <1> DEFINE n == Len(p.order)
             m == p.moves[d]
  <1>1. PICK f \in [0..n -> Rows] :
            /\ f[0] = rooms
            /\ \A k \in 1..n : f[k] = Patched(f[k - 1], p.order[k], p.moves[p.order[k]])
            /\ AllPatched(rooms, p) = f[n]
    BY PatchedRuns
  <1>2. /\ n \in Nat /\ m \in Move \cup {None}
        /\ \A k \in 1..n : /\ p.order[k] \in Devices /\ p.moves[p.order[k]] \in Move
                           /\ k - 1 \in 0..n /\ k \in 0..n /\ f[k - 1] \in Rows
    BY DEF IsPendings, Range
  <1>3. \A i, k \in 1..n : p.order[i] = p.order[k] => i = k
    BY DEF IsPendings, IsInjective
  <1>4. m # None => \E i \in 1..n : p.order[i] = d
    BY DEF IsPendings, Range
  <1>5. m = None => \A i \in 1..n : p.order[i] # d
    BY <1>2, RoomMoveAssumption
  <1> HIDE DEF n, m
  <1>6. ASSUME d \in lights, m # None, r # m.room PROVE d \notin f[n][r]
    <2>1. PICK i \in 1..n : p.order[i] = d
      BY <1>4, <1>6
    <2> DEFINE S == {k \in 0..n : k >= i => d \notin f[k][r]}
    <2>2. 0 \in S
      BY <1>2
    <2>3. ASSUME NEW k \in 1..n, k - 1 \in S PROVE k \in S
      <3>1. CASE k = i
        <4>1. d \notin f[k][r]
          BY <1>1, <1>2, <1>6, <2>1, <3>1, PatchAdds DEF m
        <4> QED
          BY <1>2, <4>1
      <3>2. CASE k # i
        <4>1. k >= i => d \notin f[k - 1][r]
          BY <1>2, <2>3, <3>2
        <4>2. p.order[k] # d
          BY <1>3, <2>1, <3>2
        <4>3. d \in f[k][r] => d \in f[k - 1][r]
          BY <1>1, <1>2, <4>2, PatchAdds
        <4> QED
          BY <1>2, <4>1, <4>3
      <3> QED
        BY <3>1, <3>2
    <2>4. n \in S
      <3> HIDE DEF S
      <3>1. \A k \in 0..n : k \in S
        BY <1>2, <2>2, <2>3, Induction
      <3> QED
        BY <1>2, <3>1
    <2> QED
      BY <1>2, <2>4
  <1>7. ASSUME d \notin lights, m # None PROVE f[n][m.room] = {}
    <2>1. PICK i \in 1..n : p.order[i] = d
      BY <1>4, <1>7
    <2> DEFINE S == {k \in 0..n : k >= i => f[k][m.room] = {}}
    <2>2. 0 \in S
      BY <1>2
    <2>3. ASSUME NEW k \in 1..n, k - 1 \in S PROVE k \in S
      <3>1. m.room \in Rooms
        BY <1>2, <1>7 DEF Move
      <3>2. CASE k = i
        <4>1. f[k] = Patched(f[k - 1], d, m) /\ m \in Move /\ f[k - 1] \in Rows
          BY <1>1, <1>2, <1>7, <2>1, <3>2 DEF m
        <4>2. f[k][m.room] = {}
          BY <1>7, <3>1, <4>1, PatchAdds
        <4> QED
          BY <1>2, <4>2
      <3>3. CASE k # i
        <4>1. k >= i => f[k - 1][m.room] = {}
          BY <1>2, <2>3, <3>3
        <4>2. f[k - 1][m.room] = {} => f[k][m.room] = {}
          <5>1. PICK q \in Rooms : q = m.room
            BY <3>1
          <5>2. f[k - 1][q] = {} => f[k][q] = {}
            BY <1>1, <1>2, PatchAdds
          <5> QED
            BY <5>1, <5>2
        <4> QED
          BY <1>2, <4>1, <4>2
      <3> QED
        BY <3>2, <3>3
    <2>4. n \in S
      <3> HIDE DEF S
      <3>1. \A k \in 0..n : k \in S
        BY <1>2, <2>2, <2>3, Induction
      <3> QED
        BY <1>2, <3>1
    <2> QED
      BY <1>2, <2>4
  <1>8. ASSUME m = None, d \in f[n][r] PROVE d \in rooms[r]
    <2> DEFINE S == {k \in 0..n : d \in f[k][r] => d \in rooms[r]}
    <2>1. 0 \in S
      BY <1>1, <1>2
    <2>2. ASSUME NEW k \in 1..n, k - 1 \in S PROVE k \in S
      <3>1. d \in f[k][r] => d \in f[k - 1][r]
        BY <1>1, <1>2, <1>5, <1>8, PatchAdds
      <3> QED
        BY <1>2, <2>2, <3>1
    <2>3. n \in S
      <3> HIDE DEF S
      <3>1. \A k \in 0..n : k \in S
        BY <1>2, <2>1, <2>2, Induction
      <3> QED
        BY <1>2, <3>1
    <2> QED
      BY <1>8, <2>3
  <1>9. f[n] \in Rows
    BY <1>1, <1>2
  <1> QED
    BY <1>1, <1>6, <1>7, <1>8, <1>9 DEF m

\* So does the site that is fetched.
LEMMA RoomLightsRow ==
    ASSUME NEW in \in [Devices -> SUBSET Rooms]
    PROVE  RoomLights(in) \in Rows
  BY DEF RoomLights, Rows

\* Where all devices are lights, the cloud lists a converged one in the room of the move only.
LEMMA ConvergedIn ==
    ASSUME lights = Devices, NEW d \in Devices, NEW m, NEW s \in Rooms, s \in cloudIn[d],
           Converged(d, m, cloudRoom, cloudIn)
    PROVE  s = m.room
  <1>1. d \in RoomLights(cloudIn)[s]
    BY DEF RoomLights
  <1> QED
    BY <1>1 DEF Converged

-----------------------------------------------------------------------------
(* What MovesAreShown rests on besides IInv. *)

\* Where all devices are lights, the cloud lists one that no pending move stands for, or that
\* none will stand for after a restart, in no other room than the one it is in.
CloudInv == lights = Devices =>
    \A d \in Devices \ Excused :
        pending.moves[d] = None \/ (saved.moves[d] = None /\ ~Calling(d, {"persist"})) =>
            \A s \in cloudIn[d] : groups[d] \subseteq {s}

LEMMA InitMore == Init => TypeOK /\ CloudInv /\ MovesAreShown
  <1> SUFFICES ASSUME Init PROVE TypeOK /\ CloudInv /\ MovesAreShown
    OBVIOUS
  <1>1. IsPendings(NoPending)
    <2>1. IsInjective(<<>>) /\ Range(<<>>) = {} /\ <<>> \in Seq(Devices)
      BY DEF IsInjective, Range
    <2> QED
      BY <2>1 DEF IsPendings, NoPending
  <1>2. \A d \in Devices : \E r \in Rooms : groups[d] = {r}
    BY DEF Init
  <1>3. groups \in [Devices -> SUBSET Rooms] /\ cloudIn = groups
    BY DEF Init
  <1>4. TypeOK
    BY <1>1, <1>3, RoomMoveAssumption DEF Init, TypeOK
  <1>5. CloudInv
    BY <1>2, <1>3 DEF CloudInv
  <1>6. MovesAreShown
    BY DEF Init, Idle, MovesAreShown
  <1> QED
    BY <1>4, <1>5, <1>6

-----------------------------------------------------------------------------
(* Types. *)

CallOK ==
    \/ call = Idle
    \/ call \in Calls
    \/ call.pc = "reload" /\ call.room \in [Devices -> Rooms \cup {None}]
                          /\ call.in \in [Rooms -> SUBSET Devices]

\* A call that is under way has all its fields.
LEMMA CallTypes ==
    ASSUME TypeOK
    PROVE  /\ CallOK
           /\ call.pc \in Working => call \in Calls
  BY DEF TypeOK, CallOK, Calls, Working, Idle

\* A call begins, and a move that is over may be deleted.
LEMMA BeginTypes ==
    ASSUME TypeOK, NEW d \in Devices, NEW r \in Rooms, Begin(d, r)
    PROVE  TypeOK'
  <1> DEFINE m == pending.moves[d]
             over == m # None /\ (Converged(d, m, cloudRoom, cloudIn) \/ MovedByOthers(d, m))
  <1>1. /\ m \in Move \cup {None} /\ cloudRoom[d] \in Rooms \cup {None}
        /\ m # None => m.room \in Rooms /\ m.from \in Rooms \cup {None}
    <2>1. m \in Move \cup {None} /\ cloudRoom[d] \in Rooms \cup {None}
      BY DEF TypeOK, IsPendings
    <2> QED
      BY <2>1 DEF Move
  <1>2. IsPendings(pending')
    <2>1. IsPendings(Without(pending, {d})) /\ IsPendings(pending)
      BY WithoutIs DEF TypeOK
    <2>2. pending' \in {pending, Without(pending, {d})}
      BY DEF Begin
    <2> QED
      BY <2>1, <2>2
  <1>3. CallOK'
    <2>1. CASE over
      <3>1. call' = [pc |-> "prune", dev |-> d, room |-> r, old |-> cloudRoom[d],
                     from |-> cloudRoom[d]]
        BY <2>1 DEF Begin
      <3> QED
        BY <1>1, <3>1 DEF CallOK, Calls, Working
    <2>2. CASE ~over
      <3>1. \E old, from \in Rooms \cup {None} : call' = Decided(d, r, old, from)
        BY <1>1, <2>2 DEF Begin
      <3> QED
        BY <3>1, DecidedCall DEF CallOK
    <2> QED
      BY <2>1, <2>2
  <1>4. misread' \subseteq Devices /\ moves' \in 0..MaxMoves
    BY RoomMoveAssumption DEF Begin, TypeOK
  <1>5. UNCHANGED <<lights, groups, cloudRoom, cloudIn, saved, early, late, troubles>>
    BY DEF Begin, mesh
  <1> QED
    BY <1>2, <1>3, <1>4, <1>5 DEF TypeOK, CallOK, Calls

\* A command, taken or lost.
LEMMA SentTypes ==
    ASSUME TypeOK, call \in Calls, NEW effect \in SUBSET Rooms, Sent(effect)
    PROVE  /\ groups' \in [Devices -> SUBSET Rooms] /\ early' \subseteq Devices
           /\ troubles' \in 0..MaxTroubles
  <1>1. /\ call.dev \in Devices /\ groups \in [Devices -> SUBSET Rooms] /\ early \subseteq Devices
        /\ troubles \in 0..MaxTroubles
    BY DEF TypeOK, Calls
  <1>2. MaxTroubles \in Nat
    BY RoomMoveAssumption
  <1> QED
    BY <1>1, <1>2 DEF Sent, Trouble

\* The two commands, of which the second is noted.
LEMMA CommandTypes ==
    ASSUME TypeOK, Leave \/ Join
    PROVE  TypeOK'
  <1>1. call \in Calls /\ call.pc \in Working
    BY CallTypes DEF Leave, Join, Working
  <1>2. /\ call.dev \in Devices /\ call.room \in Rooms /\ groups[call.dev] \subseteq Rooms
        /\ [room |-> call.room, from |-> call.from] \in Move
    BY <1>1 DEF Calls, Move, TypeOK
  <1>3. /\ groups' \in [Devices -> SUBSET Rooms] /\ early' \subseteq Devices
        /\ troubles' \in 0..MaxTroubles
    <2>1. CASE Leave
      BY <1>1, <1>2, <2>1, SentTypes DEF Leave
    <2>2. CASE Join
      BY <1>1, <1>2, <2>2, SentTypes DEF Join
    <2> QED
      BY <2>1, <2>2
  <1>4. IsPendings(pending')
    <2>1. CASE Leave
      BY <2>1 DEF Leave, cache, TypeOK
    <2>2. CASE Join
      BY <1>2, <2>2, PutIs DEF Join, TypeOK
    <2> QED
      BY <2>1, <2>2
  <1>5. CallOK'
    BY <1>1 DEF Leave, Join, CallOK, Calls, Working
  <1>6. UNCHANGED <<lights, cloudRoom, cloudIn, saved, late, misread, moves>>
    BY DEF Leave, Join, cache
  <1> QED
    BY <1>3, <1>4, <1>5, <1>6 DEF TypeOK, CallOK, Calls

\* Steps that save, end or forget.
LEMMA SaveTypes ==
    ASSUME TypeOK, Prune \/ Fails \/ Persist \/ Reload \/ Restart
    PROVE  TypeOK'
  <1>1. IsPendings(pending') /\ IsPendings(saved')
    BY DEF TypeOK, Prune, Fails, Persist, Reload, Restart, cache
  <1>2. CallOK'
    <2>1. CASE Prune
      <3>1. call \in Calls
        BY <2>1, CallTypes DEF Prune, Working
      <3>2. /\ call.dev \in Devices /\ call.room \in Rooms
            /\ call.old \in Rooms \cup {None} /\ call.from \in Rooms \cup {None}
        BY <3>1 DEF Calls
      <3>3. call' = Decided(call.dev, call.room, call.old, call.from)
        BY <2>1 DEF Prune
      <3> QED
        BY <3>2, <3>3, DecidedCall DEF CallOK
    <2>2. CASE Persist
      <3>1. call \in Calls
        BY <2>2, CallTypes DEF Persist, Working
      <3> QED
        BY <2>2, <3>1 DEF Persist, CallOK, Calls, Working
    <2>3. CASE Fails \/ Reload \/ Restart
      BY <2>3 DEF Fails, Reload, Restart, CallOK
    <2> QED
      BY <2>1, <2>2, <2>3
  <1>3. early' \subseteq Devices /\ troubles' \in 0..MaxTroubles
    <2>1. troubles' \in 0..MaxTroubles
      BY RoomMoveAssumption DEF TypeOK, Prune, Fails, Persist, Reload, Restart, counts, Trouble
    <2>2. call.pc = "persist" => call.dev \in Devices
      BY CallTypes DEF Calls, Working
    <2> QED
      BY <2>1, <2>2 DEF TypeOK, Prune, Fails, Persist, Reload, Restart, excuses
  <1>4. UNCHANGED <<lights, groups, cloudRoom, cloudIn, late, misread, moves>>
    BY DEF Prune, Fails, Persist, Reload, Restart, mesh, excuses, counts
  <1> QED
    BY <1>1, <1>2, <1>3, <1>4 DEF TypeOK, CallOK, Calls

\* The fresh site, patched.
LEMMA RefreshTypes ==
    ASSUME TypeOK, Refresh
    PROVE  TypeOK'
  <1> DEFINE agreed == {d \in Devices : /\ pending.moves[d] # None
                                       /\ Converged(d, pending.moves[d], cloudRoom, cloudIn)}
             left == Without(pending, agreed)
  <1>1. /\ pending' = left
        /\ call' = [pc |-> "reload",
                    room |-> [d \in Devices |-> IF left.moves[d] = None THEN cloudRoom[d]
                                               ELSE left.moves[d].room],
                    in |-> AllPatched(RoomLights(cloudIn), left)]
        /\ UNCHANGED <<lights, groups, cloudRoom, cloudIn, saved, early, late, misread, moves,
                       troubles>>
    BY DEF Refresh, mesh, excuses, counts
  <1>2. IsPendings(left)
    <2> HIDE DEF agreed
    <2> QED
      BY WithoutIs DEF TypeOK
  <1> HIDE DEF left
  <1>3. /\ cloudRoom \in [Devices -> Rooms \cup {None}]
        /\ \A d \in Devices : left.moves[d] # None => left.moves[d].room \in Rooms
    BY <1>2 DEF TypeOK, IsPendings, Move
  <1>4. AllPatched(RoomLights(cloudIn), left) \in Rows
    <2>1. PICK f \in [0..Len(left.order) -> Rows] :
              AllPatched(RoomLights(cloudIn), left) = f[Len(left.order)]
      BY <1>2, RoomLightsRow, PatchedRuns DEF TypeOK
    <2>2. Len(left.order) \in 0..Len(left.order)
      BY <1>2 DEF IsPendings
    <2> QED
      BY <2>1, <2>2
  <1>5. CallOK'
    BY <1>1, <1>3, <1>4 DEF CallOK, Rows
  <1> QED
    BY <1>1, <1>2, <1>5 DEF TypeOK, CallOK, Calls

\* The cloud and the app.
LEMMA OthersTypes ==
    ASSUME TypeOK, NEW d \in Devices,
           CloudRoomFollows(d) \/ CloudGroupsFollow(d) \/ \E r \in Rooms : AppMoves(d, r)
    PROVE  TypeOK'
  <1>1. CASE CloudRoomFollows(d)
    <2>1. \E r \in Rooms \cup {None} : cloudRoom' = [cloudRoom EXCEPT ![d] = r]
      BY <1>1 DEF CloudRoomFollows, TypeOK
    <2>2. UNCHANGED <<lights, groups, cloudIn, pending, saved, call, early, late, misread, moves,
                      troubles>>
      BY <1>1 DEF CloudRoomFollows, cache, excuses, counts
    <2> QED
      BY <2>1, <2>2 DEF TypeOK
  <1>2. CASE CloudGroupsFollow(d)
    BY <1>2 DEF CloudGroupsFollow, TypeOK, cache, excuses, counts
  <1>3. ASSUME NEW r \in Rooms, AppMoves(d, r) PROVE TypeOK'
    <2>1. /\ groups' \in [Devices -> SUBSET Rooms] /\ cloudRoom' \in [Devices -> Rooms \cup {None}]
          /\ cloudIn' \in [Devices -> SUBSET Rooms]
      BY <1>3 DEF AppMoves, TypeOK
    <2>2. early' \subseteq Devices /\ late' \subseteq Devices /\ troubles' \in 0..MaxTroubles
      BY <1>3, RoomMoveAssumption DEF AppMoves, TypeOK, Trouble
    <2>3. UNCHANGED <<lights, pending, saved, call, misread, moves>>
      BY <1>3 DEF AppMoves, cache
    <2> QED
      BY <2>1, <2>2, <2>3 DEF TypeOK
  <1> QED
    BY <1>1, <1>2, <1>3

LEMMA NextTypes == TypeOK /\ [Next]_vars => TypeOK'
  <1> SUFFICES ASSUME TypeOK, [Next]_vars PROVE TypeOK'
    OBVIOUS
  <1>1. CASE UNCHANGED vars
    BY <1>1 DEF vars, TypeOK
  <1>2. ASSUME NEW d \in Devices, NEW r \in Rooms, Begin(d, r) \/ AppMoves(d, r)
        PROVE  TypeOK'
    BY <1>2, BeginTypes, OthersTypes
  <1>3. CASE Prune \/ Leave \/ Join \/ Fails \/ Persist \/ Refresh \/ Reload \/ Restart
    BY <1>3, SaveTypes, CommandTypes, RefreshTypes
  <1>4. ASSUME NEW d \in Devices, CloudRoomFollows(d) \/ CloudGroupsFollow(d)
        PROVE  TypeOK'
    BY <1>4, OthersTypes
  <1> QED
    BY <1>1, <1>2, <1>3, <1>4 DEF Next

-----------------------------------------------------------------------------
(* What is shown. *)

\* Who is not excused after a step was not before.
LEMMA ExcusedGrows == [Next]_vars => Excused \subseteq Excused'
  <1> SUFFICES ASSUME [Next]_vars PROVE Excused \subseteq Excused'
    OBVIOUS
  <1>1. early \subseteq early'
    BY DEF Next, vars, Begin, Prune, Leave, Join, Fails, Persist, Refresh, Reload, Restart, Sent,
           CloudRoomFollows, CloudGroupsFollow, AppMoves, excuses
  <1>2. late \subseteq late'
    BY DEF Next, vars, Begin, Prune, Leave, Join, Fails, Persist, Refresh, Reload, Restart, Sent,
           CloudRoomFollows, CloudGroupsFollow, AppMoves, excuses
  <1>3. misread \subseteq misread'
    BY DEF Next, vars, Begin, Prune, Leave, Join, Fails, Persist, Refresh, Reload, Restart, Sent,
           CloudRoomFollows, CloudGroupsFollow, AppMoves, excuses
  <1> QED
    BY <1>1, <1>2, <1>3 DEF Excused

\* The move that is dropped stood where the cloud lists the device, or the device is nowhere.
LEMMA BeginCloud ==
    ASSUME IInv, TypeOK, CloudInv, Excused \subseteq Excused',
           NEW d \in Devices, NEW r \in Rooms, Begin(d, r)
    PROVE  CloudInv'
  <1> DEFINE m == pending.moves[d]
             over == m # None /\ (Converged(d, m, cloudRoom, cloudIn) \/ MovedByOthers(d, m))
  <1>1. call = Idle /\ pending = saved /\ UNCHANGED <<lights, groups, cloudIn, saved>>
    BY DEF Begin, IInv, CacheInv, Idle, mesh
  <1>2. pending' = IF over THEN Without(pending, {d}) ELSE pending
    BY DEF Begin
  <1>3. \A e \in Devices : pending'.moves[e] = IF over /\ e = d THEN None ELSE saved.moves[e]
    <2>1. pending.moves \in [Devices -> Move \cup {None}]
      BY DEF IInv, ShapeInv
    <2> HIDE DEF m, over
    <2> QED
      BY <1>1, <1>2, <2>1, WithoutMoves
  <1> SUFFICES ASSUME lights = Devices, NEW e \in Devices, e \notin Excused',
                      pending'.moves[e] = None \/ saved.moves[e] = None,
                      NEW s \in cloudIn[e]
               PROVE  groups[e] \subseteq {s}
    BY <1>1 DEF CloudInv
  <1>4. CASE saved.moves[e] = None
    BY <1>1, <1>4 DEF CloudInv, Calling, Idle
  <1>5. CASE saved.moves[e] # None
    <2>1. over /\ e = d /\ d \notin Excused
      BY <1>3, <1>5
    <2>2. groups[d] \subseteq {m.room}
      BY <2>1 DEF IInv, WhereInv
    <2>3. CASE Converged(d, m, cloudRoom, cloudIn)
      <3>1. s \in Rooms
        BY DEF TypeOK
      <3> QED
        BY <2>1, <2>2, <2>3, <3>1, ConvergedIn
    <2>4. CASE MovedByOthers(d, m)
      <3>1. CloudIsRight(d)
        BY <2>1 DEF Begin, Excused
      <3>2. groups[d] = {}
        BY <2>2, <2>4, <3>1 DEF MovedByOthers, CloudIsRight
      <3> QED
        BY <2>1, <3>2
    <2> QED
      BY <2>1, <2>3, <2>4
  <1> QED
    BY <1>4, <1>5

\* A device that a call moves is in no room, and then has a pending move.
LEMMA CommandCloud ==
    ASSUME IInv, TypeOK, CloudInv, Excused \subseteq Excused', Leave \/ Join
    PROVE  CloudInv'
  <1>1. call \in Calls /\ call.pc \in {"leave", "join"} /\ UNCHANGED <<lights, cloudIn, saved>>
    BY CallTypes DEF Leave, Join, Working, cache
  <1>2. call.dev \in Devices /\ groups \in [Devices -> SUBSET Rooms]
    BY <1>1 DEF Calls, TypeOK
  <1>3. CASE Leave
    <2>1. /\ pending' = pending /\ call'.pc = "join"
          /\ \A e \in Devices : groups'[e] \subseteq groups[e]
      BY <1>1, <1>2, <1>3 DEF Leave, Sent, cache, Calls
    <2> QED
      BY <1>1, <2>1 DEF CloudInv, Calling
  <1>4. CASE Join
    <2> DEFINE m == [room |-> call.room, from |-> call.from]
    <2>1. /\ pending' = Put(pending, call.dev, m)
          /\ call'.pc = "persist" /\ call'.dev = call.dev
          /\ \A e \in Devices \ {call.dev} : groups'[e] = groups[e]
      BY <1>1, <1>2, <1>4 DEF Join, Sent, Calls
    <2>2. m \in Move /\ m # None
      BY <1>1, RoomMoveAssumption DEF Calls, Move
    <2>3. /\ pending'.moves[call.dev] # None
          /\ \A e \in Devices \ {call.dev} : pending'.moves[e] = pending.moves[e]
      <3>1. pending.moves \in [Devices -> Move \cup {None}]
        BY DEF IInv, ShapeInv
      <3> HIDE DEF m
      <3> QED
        BY <1>2, <2>1, <2>2, <3>1, PutMoves
    <2> SUFFICES ASSUME lights = Devices, NEW e \in Devices, e \notin Excused', e # call.dev,
                        pending.moves[e] = None \/ saved.moves[e] = None,
                        NEW s \in cloudIn[e]
                 PROVE  groups[e] \subseteq {s}
      BY <1>1, <2>1, <2>3 DEF CloudInv, Calling
    <2> QED
      BY <1>1 DEF CloudInv, Calling
  <1> QED
    BY <1>3, <1>4

\* Saved is what is pending, or the other way round.
LEMMA SaveCloud ==
    ASSUME IInv, TypeOK, CloudInv, Excused \subseteq Excused',
           Prune \/ Fails \/ Persist \/ Reload \/ Restart
    PROVE  CloudInv'
  <1>1. UNCHANGED <<lights, groups, cloudIn>>
    BY DEF Prune, Fails, Persist, Reload, Restart, mesh
  <1>2. CASE Prune \/ Persist \/ Reload
    <2>1. saved' = pending /\ pending' = pending
      BY <1>2 DEF Prune, Persist, Reload
    <2> QED
      BY <1>1, <2>1 DEF CloudInv
  <1>3. CASE Fails
    <2>1. UNCHANGED <<pending, saved>> /\ call.pc # "persist"
      BY <1>3 DEF Fails, cache
    <2> QED
      BY <1>1, <2>1 DEF CloudInv, Calling
  <1>4. CASE Restart
    <2>1. /\ pending' = saved /\ saved' = saved
          /\ early' = IF call.pc = "persist" THEN early \cup {call.dev} ELSE early
      BY <1>4 DEF Restart
    <2>2. \A e \in Devices \ Excused' : ~Calling(e, {"persist"})
      BY <2>1 DEF Excused, Calling
    <2> QED
      BY <1>1, <2>1, <2>2 DEF CloudInv
  <1> QED
    BY <1>2, <1>3, <1>4

\* What the entry will show is right, and the moves that are over are where the cloud says.
LEMMA RefreshShows ==
    ASSUME IInv, IInv', TypeOK, CloudInv, Refresh
    PROVE  CloudInv' /\ MovesAreShown'
  <1> DEFINE agreed == {d \in Devices : /\ pending.moves[d] # None
                                       /\ Converged(d, pending.moves[d], cloudRoom, cloudIn)}
             left == Without(pending, agreed)
             rooms == RoomLights(cloudIn)
  <1>1. /\ call.pc = "refresh" /\ pending' = left /\ pending = saved
        /\ call'.pc = "reload" /\ call'.in = AllPatched(rooms, left)
        /\ \A d \in Devices : call'.room[d] = IF left.moves[d] = None THEN cloudRoom[d]
                                              ELSE left.moves[d].room
        /\ UNCHANGED <<lights, groups, cloudRoom, cloudIn, saved, early, late, misread>>
    BY DEF Refresh, mesh, excuses, IInv, CacheInv
  <1>2. IsPendings(pending) /\ pending.moves \in [Devices -> Move \cup {None}]
    BY DEF TypeOK, IsPendings
  <1>3. \A d \in agreed : Converged(d, pending.moves[d], cloudRoom, cloudIn)
    OBVIOUS
  <1> HIDE DEF agreed
  <1>4. /\ IsPendings(left)
        /\ \A d \in Devices : left.moves[d] = IF d \in agreed THEN None ELSE pending.moves[d]
    BY <1>2, WithoutIs, WithoutMoves
  <1>5. /\ rooms \in Rows
        /\ cloudIn \in [Devices -> SUBSET Rooms] /\ groups \in [Devices -> SUBSET Rooms]
    BY RoomLightsRow DEF TypeOK
  <1> HIDE DEF left
  <1>6. ASSUME lights = Devices, NEW d \in Devices, d \notin Excused, left.moves[d] = None,
               NEW s \in cloudIn[d]
        PROVE  groups[d] \subseteq {s}
    <2>1. CASE pending.moves[d] = None
      BY <1>6, <2>1 DEF CloudInv
    <2>2. CASE pending.moves[d] # None
      <3>1. groups[d] \subseteq {pending.moves[d].room}
        BY <1>6, <2>2 DEF IInv, WhereInv
      <3>2. d \in agreed /\ s \in Rooms
        BY <1>4, <1>5, <1>6, <2>2
      <3>3. Converged(d, pending.moves[d], cloudRoom, cloudIn)
        BY <1>3, <3>2
      <3>4. s = pending.moves[d].room
        BY <1>6, <3>2, <3>3, ConvergedIn
      <3> QED
        BY <3>1, <3>4
    <2> QED
      BY <2>1, <2>2
  <1>7. CloudInv'
    <2>1. \A d \in Devices : saved.moves[d] = None => left.moves[d] = None
      BY <1>1, <1>4
    <2> QED
      BY <1>1, <1>6, <2>1 DEF CloudInv, Excused
  <1>8. MovesAreShown'
    <2> SUFFICES ASSUME NEW d \in Devices, d \notin Excused, NEW r \in groups[d]
                 PROVE  /\ call'.room[d] = r
                        /\ d \in lights /\ (lights = Devices \/ left.moves[d] # None) =>
                             \A s \in Rooms \ {r} : d \notin AllPatched(rooms, left)[s]
                        /\ d \notin lights /\ left.moves[d] # None =>
                             AllPatched(rooms, left)[r] = {}
      BY <1>1 DEF MovesAreShown, Excused
    <2>1. /\ left.moves[d] = None => r = cloudRoom[d]
          /\ left.moves[d] # None => r = left.moves[d].room
      BY <1>1 DEF IInv, WhereInv, Excused
    <2>2. call'.room[d] = r
      BY <1>1, <2>1
    <2>3. ASSUME left.moves[d] # None, d \in lights, NEW s \in Rooms \ {r}
          PROVE  d \notin AllPatched(rooms, left)[s]
      BY <1>4, <1>5, <2>1, <2>3, AllPatchedShows
    <2>4. ASSUME left.moves[d] # None, d \notin lights
          PROVE  AllPatched(rooms, left)[r] = {}
      BY <1>4, <1>5, <2>1, <2>4, AllPatchedShows
    <2>5. ASSUME lights = Devices, left.moves[d] = None, NEW s \in Rooms \ {r},
                 d \in AllPatched(rooms, left)[s]
          PROVE  FALSE
      <3>1. d \in rooms[s]
        BY <1>4, <1>5, <2>5, AllPatchedShows
      <3>2. s \in cloudIn[d]
        BY <2>5, <3>1 DEF RoomLights
      <3> QED
        BY <1>6, <2>5, <3>2
    <2> QED
      BY <2>2, <2>3, <2>4, <2>5
  <1> QED
    BY <1>7, <1>8

\* The cloud comes to list a device where it is; what the app moves is listed there, too.
LEMMA OthersCloud ==
    ASSUME IInv, TypeOK, CloudInv, Excused \subseteq Excused', NEW d \in Devices,
           CloudRoomFollows(d) \/ CloudGroupsFollow(d) \/ \E r \in Rooms : AppMoves(d, r)
    PROVE  CloudInv'
  <1>1. groups \in [Devices -> SUBSET Rooms] /\ cloudIn \in [Devices -> SUBSET Rooms]
    BY DEF TypeOK
  <1>2. UNCHANGED <<lights, pending, saved, call>>
    BY DEF CloudRoomFollows, CloudGroupsFollow, AppMoves, cache
  <1>3. \A e \in Devices \ {d} : groups'[e] = groups[e] /\ cloudIn'[e] = cloudIn[e]
    BY <1>1 DEF CloudRoomFollows, CloudGroupsFollow, AppMoves
  <1>4. ASSUME d \notin Excused', lights = Devices,
               pending.moves[d] = None \/ (saved.moves[d] = None /\ ~Calling(d, {"persist"})),
               NEW s \in cloudIn'[d]
        PROVE  groups'[d] \subseteq {s}
    <2>1. CASE CloudRoomFollows(d)
      <3>1. groups' = groups /\ cloudIn' = cloudIn
        BY <2>1 DEF CloudRoomFollows
      <3> QED
        BY <1>4, <3>1 DEF CloudInv
    <2>2. CASE CloudGroupsFollow(d)
      <3>1. groups' = groups /\ cloudIn'[d] = groups[d] /\ d \notin Excused
        BY <1>1, <1>4, <2>2 DEF CloudGroupsFollow
      <3>2. \/ groups[d] \subseteq {cloudRoom[d]}
            \/ groups[d] \subseteq {pending.moves[d].room}
        BY <3>1 DEF IInv, WhereInv
      <3> QED
        BY <1>4, <3>1, <3>2
    <2>3. ASSUME NEW r \in Rooms, AppMoves(d, r) PROVE groups'[d] \subseteq {s}
      BY <1>1, <1>4, <2>3 DEF AppMoves
    <2> QED
      BY <2>1, <2>2, <2>3
  <1> SUFFICES ASSUME lights = Devices, NEW e \in Devices, e \notin Excused',
                      \/ pending.moves[e] = None
                      \/ saved.moves[e] = None /\ ~Calling(e, {"persist"}),
                      NEW s \in cloudIn'[e]
               PROVE  groups'[e] \subseteq {s}
    BY <1>2 DEF CloudInv, Calling
  <1>5. CASE e = d
    BY <1>4, <1>5
  <1>6. CASE e # d
    BY <1>3, <1>6 DEF CloudInv
  <1> QED
    BY <1>5, <1>6

\* Every step.
LEMMA NextCloud == IInv /\ IInv' /\ TypeOK /\ CloudInv /\ [Next]_vars => CloudInv'
  <1> SUFFICES ASSUME IInv, IInv', TypeOK, CloudInv, [Next]_vars PROVE CloudInv'
    OBVIOUS
  <1>1. Excused \subseteq Excused'
    BY ExcusedGrows
  <1>2. CASE UNCHANGED vars
    BY <1>2 DEF vars, CloudInv, Excused, Calling
  <1>3. ASSUME NEW d \in Devices, NEW r \in Rooms, Begin(d, r) \/ AppMoves(d, r)
        PROVE  CloudInv'
    BY <1>1, <1>3, BeginCloud, OthersCloud
  <1>4. CASE Prune \/ Leave \/ Join \/ Fails \/ Persist \/ Refresh \/ Reload \/ Restart
    BY <1>1, <1>4, SaveCloud, CommandCloud, RefreshShows
  <1>5. ASSUME NEW d \in Devices, CloudRoomFollows(d) \/ CloudGroupsFollow(d)
        PROVE  CloudInv'
    BY <1>1, <1>5, OthersCloud
  <1> QED
    BY <1>2, <1>3, <1>4, <1>5 DEF Next

\* While the entry is being written, only the app changes where a device is.
LEMMA NextShown ==
    IInv /\ IInv' /\ TypeOK /\ CloudInv /\ MovesAreShown /\ [Next]_vars => MovesAreShown'
  <1> SUFFICES ASSUME IInv, IInv', TypeOK, CloudInv, MovesAreShown, [Next]_vars, call'.pc = "reload"
               PROVE  MovesAreShown'
    BY DEF MovesAreShown
  <1>1. Excused \subseteq Excused'
    BY ExcusedGrows
  <1>2. CASE UNCHANGED vars
    BY <1>2 DEF vars, MovesAreShown
  <1>3. ASSUME NEW d \in Devices, NEW r \in Rooms, Begin(d, r) PROVE FALSE
    <2>1. call'.pc \in {"idle", "prune", "leave", "join"}
      BY <1>3 DEF Begin, Decided, Idle
    <2> QED
      BY <2>1
  <1>4. ASSUME Prune \/ Leave \/ Join \/ Fails \/ Persist \/ Reload \/ Restart PROVE FALSE
    <2>1. CASE Prune \/ Fails \/ Reload \/ Restart
      BY <2>1 DEF Prune, Fails, Reload, Restart, Decided, Idle
    <2>2. CASE Leave \/ Join \/ Persist
      <3>1. call \in Calls
        BY <2>2, CallTypes DEF Leave, Join, Persist, Working
      <3> QED
        BY <2>2, <3>1 DEF Leave, Join, Persist, Calls
    <2> QED
      BY <1>4, <2>1, <2>2
  <1>5. CASE Refresh
    BY <1>5, RefreshShows
  <1>6. ASSUME NEW d \in Devices, CloudRoomFollows(d) \/ CloudGroupsFollow(d)
        PROVE  MovesAreShown'
    <2>1. UNCHANGED <<lights, groups, pending, call, early, late, misread>>
      BY <1>6 DEF CloudRoomFollows, CloudGroupsFollow, cache, excuses
    <2> QED
      BY <2>1 DEF MovesAreShown
  <1>7. ASSUME NEW d \in Devices, NEW r \in Rooms, AppMoves(d, r)
        PROVE  MovesAreShown'
    <2>1. UNCHANGED <<lights, pending, call>> /\ call.pc = "reload" /\ d \in Excused'
      BY <1>7 DEF AppMoves, cache, Excused
    <2>2. \A e \in Devices \ Excused' : groups'[e] = groups[e] /\ e \notin Excused
      BY <1>1, <1>7, <2>1 DEF AppMoves, TypeOK
    <2> QED
      BY <2>1, <2>2 DEF MovesAreShown, Excused
  <1> QED
    BY <1>2, <1>3, <1>4, <1>5, <1>6, <1>7 DEF Next

-----------------------------------------------------------------------------
(* The theorems. *)

\* Types, and both dicts of moves hold each of their moves once (_pending_moves).
THEOREM TypeCorrect == Spec => []TypeOK
  BY InitMore, NextTypes, PTL DEF Spec

\* What a move puts into the entry is where the devices are, whatever the cloud says and
\* whatever other moves are pending (_async_refresh_and_reload, _patch_room_membership).
THEOREM Shown == Spec => []MovesAreShown
  <1>1. Spec => []CloudInv
    BY InitMore, NextCloud, Invariance, TypeCorrect, PTL DEF Spec
  <1> QED
    BY <1>1, InitMore, NextShown, Invariance, TypeCorrect, PTL DEF Spec
=============================================================================
