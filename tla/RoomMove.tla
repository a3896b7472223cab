-------------------------------- MODULE RoomMove --------------------------------
(***************************************************************************)
(* Moving a device to another room (manage_device_room.py).  A room is a   *)
(* group of the mesh: a move leaves one group and joins another.  The      *)
(* cloud follows later, or never; until it agrees, a pending move says     *)
(* which room the device is in.  Pending moves are kept in memory and, for *)
(* a restart, in the config entry.                                         *)
(*                                                                         *)
(* One call moves a device at a time (the move lock).  The mesh and the    *)
(* cloud are external, and so is the Plejd app, which moves a device in    *)
(* both at once.                                                           *)
(***************************************************************************)
EXTENDS Naturals, Sequences, SequencesExt

CONSTANTS
    Devices,   \* devices with one output
    Rooms,
    None,
    Troubles,  \* what may happen: the app moves devices, commands fail or are lost, restarts
    MaxTroubles, \* bound: how often
    MaxMoves   \* bound: calls

Move == [room : Rooms, from : Rooms \cup {None}]

ASSUME RoomMoveAssumption ==
    /\ None \notin Rooms /\ None \notin Move
    /\ Troubles \subseteq {"app", "fail", "loss", "restart"}
    /\ MaxTroubles \in Nat /\ MaxMoves \in Nat

VARIABLES
    lights,      \* the devices that are lights, which never changes
    groups,      \* the mesh: the groups each device is in
    cloudRoom,   \* the cloud: the room of each device ...
    cloudIn,     \* ... and the rooms whose output group lists it
    pending,     \* hass.data: the pending moves
    saved,       \* entry.data: the pending moves
    call,        \* the call that holds the move lock
    early,       \* ghost: devices moved by the app before a move of ours converged, or cut
                 \* short by a lost command or a restart
    late,        \* ghost: devices moved by the app after a pending move had converged
    misread,     \* ghost: devices whose pending move was given up though it still stood
    moves,       \* calls so far, for the bound
    troubles     \* troubles so far, for the bound

mesh == <<lights, groups, cloudRoom, cloudIn>>
cache == <<pending, saved>>
excuses == <<early, late, misread>>
counts == <<moves, troubles>>
vars == <<lights, groups, cloudRoom, cloudIn, pending, saved, call, early, late, misread,
          moves, troubles>>

\* A dict of moves: what it holds, and in which order it was filled.
NoPending == [moves |-> [d \in Devices |-> None], order |-> <<>>]

Idle == [pc |-> "idle"]

IsPendings(p) ==
    /\ p.moves \in [Devices -> Move \cup {None}]
    /\ p.order \in Seq(Devices) /\ IsInjective(p.order)
    /\ Range(p.order) = {d \in Devices : p.moves[d] # None}

Working == {"prune", "leave", "join", "persist", "refresh"}

\* Types, and a dict of moves that holds every one of them once.
TypeOK ==
    /\ lights \subseteq Devices
    /\ groups \in [Devices -> SUBSET Rooms]
    /\ cloudRoom \in [Devices -> Rooms \cup {None}]
    /\ cloudIn \in [Devices -> SUBSET Rooms]
    /\ IsPendings(pending) /\ IsPendings(saved)
    /\ \/ call = Idle
       \/ call \in [pc : Working, dev : Devices, room : Rooms, old : Rooms \cup {None},
                    from : Rooms \cup {None}]
       \/ call.pc = "reload" /\ call.room \in [Devices -> Rooms \cup {None}]
                             /\ call.in \in [Rooms -> SUBSET Devices]
    /\ early \subseteq Devices /\ late \subseteq Devices /\ misread \subseteq Devices
    /\ moves \in 0..MaxMoves /\ troubles \in 0..MaxTroubles

-----------------------------------------------------------------------------
(* The site as parse_site returns it. *)

\* A room light needs members, and only lights among them.
RoomLights(in) ==
    [r \in Rooms |-> LET listed == {d \in Devices : r \in in[d]}
                     IN  IF listed \subseteq lights THEN listed ELSE {}]

Init ==
    /\ lights \in SUBSET Devices
    /\ groups \in [Devices -> {{r} : r \in Rooms}]
    /\ cloudRoom \in [Devices -> Rooms] /\ \A d \in Devices : cloudRoom[d] \in groups[d]
    /\ cloudIn = groups
    /\ pending = NoPending /\ saved = NoPending
    /\ call = Idle
    /\ early = {} /\ late = {} /\ misread = {}
    /\ moves = 0 /\ troubles = 0

-----------------------------------------------------------------------------
(* The pending moves. *)

\* Mutant: a repeated move is noted twice.
PutAgain(p, d, m) ==
    [moves |-> [p.moves EXCEPT ![d] = m], order |-> Append(p.order, d)]

Put(p, d, m) ==
    [moves |-> [p.moves EXCEPT ![d] = m],
     order |-> IF p.moves[d] = None THEN Append(p.order, d) ELSE p.order]

\* What is left of an order without some of its devices.
Kept(order, ds) ==
    LET kept[k \in 0..Len(order)] ==
          IF k = 0 THEN <<>>
          ELSE IF order[k] \in ds THEN kept[k - 1] ELSE Append(kept[k - 1], order[k])
    IN  kept[Len(order)]

Without(p, ds) ==
    [moves |-> [d \in Devices |-> IF d \in ds THEN None ELSE p.moves[d]],
     order |-> Kept(p.order, ds)]

\* Mutant: the room alone decides that a move has converged.
ConvergedByRoom(d, m, room, in) == m.room = room[d]

\* _room_membership_converged, together with the room: the cloud agrees with the move.  A
\* light whose new room also has a device that is no light is never listed there.
Converged(d, m, room, in) ==
    LET listed == RoomLights(in)
        elsewhere == \E r \in Rooms \ {m.room} : d \in listed[r]
    IN  /\ m.room = room[d]
        /\ IF d \notin lights
           THEN listed[m.room] = {}
           ELSE /\ ~elsewhere
                /\ IF listed[m.room] = {}
                   THEN \E e \in Devices \ lights : room[e] = m.room
                   ELSE d \in listed[m.room]

\* The cloud shows neither the room the pending move began in nor the one it leads to.
MovedByOthers(d, m) == cloudRoom[d] \notin {m.room, m.from}

\* _patch_room_membership of one move.  An emptied room is no longer kept, and no room light
\* is made up for one that is not there.
Patched(rooms, d, m) ==
    IF d \notin lights
    THEN [rooms EXCEPT ![m.room] = {}]
    ELSE [r \in Rooms |-> IF r # m.room THEN rooms[r] \ {d}
                          ELSE IF rooms[r] = {} THEN {} ELSE rooms[r] \cup {d}]

\* Mutant: only the move of this call is applied to what the cloud says.
AllPatchedLast(rooms, p) ==
    IF p.order = <<>> THEN rooms ELSE Patched(rooms, Last(p.order), p.moves[Last(p.order)])

AllPatched(rooms, p) ==
    LET patched[k \in 0..Len(p.order)] ==
          IF k = 0 THEN rooms ELSE Patched(patched[k - 1], p.order[k], p.moves[p.order[k]])
    IN  patched[Len(p.order)]

-----------------------------------------------------------------------------
(* A call, from the move lock on. *)

Trouble(kind) ==
    /\ kind \in Troubles
    /\ troubles < MaxTroubles /\ troubles' = troubles + 1

\* What is left of a call once it knows where the device is: rejected if it is there
\* already, else it leaves that room and joins the other.
Decided(d, r, old, from) ==
    IF old = r
    THEN Idle
    ELSE [pc |-> IF old = None THEN "join" ELSE "leave",
          dev |-> d, room |-> r, old |-> old, from |-> from]

\* Mutant: the cloud's word is taken for the room of the device.
BeginTrustsCloud(d, r) ==
    /\ call = Idle
    /\ moves < MaxMoves /\ moves' = moves + 1
    /\ call' = Decided(d, r, cloudRoom[d], cloudRoom[d])
    /\ UNCHANGED <<mesh, cache, excuses, troubles>>

\* The cloud is right about the room of the device.
CloudIsRight(d) == IF cloudRoom[d] = None THEN groups[d] = {} ELSE cloudRoom[d] \in groups[d]

\* The site is fetched and the call decided on; a pending move that has converged, or that
\* somebody else has undone, is dropped first, and that is saved.
Begin(d, r) ==
    /\ call = Idle
    /\ moves < MaxMoves /\ moves' = moves + 1
    /\ LET m == pending.moves[d]
           over == m # None /\ (Converged(d, m, cloudRoom, cloudIn) \/ MovedByOthers(d, m))
       IN  /\ pending' = IF over THEN Without(pending, {d}) ELSE pending
           /\ call' = CASE over -> [pc |-> "prune", dev |-> d, room |-> r,
                                    old |-> cloudRoom[d], from |-> cloudRoom[d]]
                      [] m = None -> Decided(d, r, cloudRoom[d], cloudRoom[d])
                      [] OTHER -> Decided(d, r, m.room, m.from)
           /\ misread' = IF over /\ ~CloudIsRight(d) THEN misread \cup {d} ELSE misread
    /\ UNCHANGED <<mesh, saved, early, late, troubles>>

Prune ==
    /\ call.pc = "prune"
    /\ saved' = pending
    /\ call' = Decided(call.dev, call.room, call.old, call.from)
    /\ UNCHANGED <<mesh, pending, excuses, counts>>

\* A command takes effect, or over the gateway it may be lost without an error.
Sent(effect) ==
    \/ /\ groups' = [groups EXCEPT ![call.dev] = effect]
       /\ UNCHANGED <<early, troubles>>
    \/ /\ Trouble("loss")
       /\ early' = early \cup {call.dev}
       /\ UNCHANGED groups

Leave ==
    /\ call.pc = "leave"
    /\ Sent(groups[call.dev] \ {call.old})
    /\ call' = [call EXCEPT !.pc = "join"]
    /\ UNCHANGED <<lights, cloudRoom, cloudIn, cache, late, misread, moves>>

\* The move is noted before anything else can fail.
Join ==
    /\ call.pc = "join"
    /\ Sent(groups[call.dev] \cup {call.room})
    /\ pending' = Put(pending, call.dev, [room |-> call.room, from |-> call.from])
    /\ call' = [call EXCEPT !.pc = "persist"]
    /\ UNCHANGED <<lights, cloudRoom, cloudIn, saved, late, misread, moves>>

\* The mesh is not connected, or the site cannot be fetched again: the call ends there.
Fails ==
    /\ call.pc \in {"leave", "join", "refresh"}
    /\ Trouble("fail")
    /\ call' = Idle
    /\ UNCHANGED <<mesh, cache, excuses, moves>>

\* Mutant: the move is only saved with the refreshed site.
PersistLater ==
    /\ call.pc = "persist"
    /\ call' = [call EXCEPT !.pc = "refresh"]
    /\ UNCHANGED <<mesh, cache, excuses, counts>>

Persist ==
    /\ call.pc = "persist"
    /\ saved' = pending
    /\ call' = [call EXCEPT !.pc = "refresh"]
    /\ UNCHANGED <<mesh, pending, excuses, counts>>

\* The fresh site, with every move it does not agree with applied to it; those it agrees
\* with are over.  The call now holds what it will put into the entry: the room of each
\* device and the members of each room light.
Refresh ==
    /\ call.pc = "refresh"
    /\ LET agreed == {d \in Devices : /\ pending.moves[d] # None
                                      /\ Converged(d, pending.moves[d], cloudRoom, cloudIn)}
           left == Without(pending, agreed)
       IN  /\ pending' = left
           /\ call' = [pc |-> "reload",
                       room |-> [d \in Devices |-> IF left.moves[d] = None THEN cloudRoom[d]
                                                  ELSE left.moves[d].room],
                       in |-> AllPatched(RoomLights(cloudIn), left)]
    /\ UNCHANGED <<mesh, saved, excuses, counts>>

\* Under the reload lock; whether the reload then succeeds changes nothing here.  Nobody
\* reads the rooms in the entry to move a device, so the entry keeps only the moves.
Reload ==
    /\ call.pc = "reload"
    /\ saved' = pending
    /\ call' = Idle
    /\ UNCHANGED <<mesh, pending, excuses, counts>>

-----------------------------------------------------------------------------
(* The others. *)

\* Home Assistant restarts: memory is what the entry says.  A join that was not saved yet
\* is forgotten.
Restart ==
    /\ Trouble("restart")
    /\ call' = Idle
    /\ pending' = saved
    /\ early' = IF call.pc = "persist" THEN early \cup {call.dev} ELSE early
    /\ UNCHANGED <<mesh, saved, late, misread, moves>>

\* The cloud follows the mesh: the room of a device, and the groups that list it.
CloudRoomFollows(d) ==
    /\ \E r \in IF groups[d] = {} THEN {None} ELSE groups[d] :
          cloudRoom' = [cloudRoom EXCEPT ![d] = r]
    /\ UNCHANGED <<lights, groups, cloudIn, cache, call, excuses, counts>>

CloudGroupsFollow(d) ==
    /\ cloudIn' = [cloudIn EXCEPT ![d] = groups[d]]
    /\ UNCHANGED <<lights, groups, cloudRoom, cache, call, excuses, counts>>

\* The app moves a device, which may be one with a pending move or in the middle of one.
AppMoves(d, r) ==
    /\ Trouble("app")
    /\ groups' = [groups EXCEPT ![d] = {r}]
    /\ cloudRoom' = [cloudRoom EXCEPT ![d] = r]
    /\ cloudIn' = [cloudIn EXCEPT ![d] = {r}]
    /\ LET m == pending.moves[d]
           calling == call.pc = "reload" \/ (call.pc \in Working /\ call.dev = d)
           converged == m = None \/ Converged(d, m, cloudRoom, cloudIn)
       IN  /\ early' = IF calling \/ ~converged THEN early \cup {d} ELSE early
           /\ late' = IF m # None /\ converged THEN late \cup {d} ELSE late
    /\ UNCHANGED <<lights, cache, call, misread, moves>>

-----------------------------------------------------------------------------
Next ==
    \/ \E d \in Devices, r \in Rooms : Begin(d, r) \/ AppMoves(d, r)
    \/ Prune \/ Leave \/ Join \/ Fails \/ Persist \/ Refresh \/ Reload
    \/ Restart
    \/ \E d \in Devices : CloudRoomFollows(d) \/ CloudGroupsFollow(d)

Spec == Init /\ [][Next]_vars

-----------------------------------------------------------------------------
(* Properties. *)

\* A device is never in two rooms' groups ("leave the device subscribed to BOTH the old and
\* new room's mesh groups"), however the cloud lags, moves are chained, fail and are retried:
\* unless the app moved it while a move of ours was pending, a leave was lost, a restart came
\* between a join and the note of it, or a move that stood was taken for undone.
NeverInTwoRooms ==
    \A d \in Devices \ (early \cup late \cup misread) : \A r, s \in groups[d] : r = s

\* Between calls, a restart forgets no move and brings none back ("so a restart doesn't lose
\* an in-flight move"; "without this a restart would reseed entry.data's own stale copy").
RestartForgetsNothing == call.pc = "idle" => pending = saved

\* What a move puts into the entry is, for every device, the room it is in; no room light
\* lists a light in another room, and while a move is pending none stands for the room that a
\* device which is no light has moved into, whatever the cloud says and whatever other moves
\* are pending (_async_refresh_and_reload, _room_membership_converged).  Where there are other
\* devices than lights, a light counts only while its move is pending: their groups have no
\* room light, and hide where the cloud still lists the light.
MovesAreShown ==
    call.pc = "reload" =>
        \A d \in Devices \ (early \cup late \cup misread) : \A r \in groups[d] :
            /\ call.room[d] = r
            /\ d \in lights /\ (lights = Devices \/ pending.moves[d] # None) =>
                 \A s \in Rooms \ {r} : d \notin call.in[s]
            /\ d \notin lights /\ pending.moves[d] # None => call.in[r] = {}

-----------------------------------------------------------------------------
(* The inductive invariant behind NeverInTwoRooms and RestartForgetsNothing. *)

Excused == early \cup late \cup misread

Calling(d, pcs) == call.pc \in pcs /\ call.dev = d

\* What the steps look at: the moves of the dicts, not their order, and the call's fields.
ShapeInv ==
    /\ groups \in [Devices -> SUBSET Rooms]
    /\ cloudRoom \in [Devices -> Rooms \cup {None}]
    /\ pending.moves \in [Devices -> Move \cup {None}]
    /\ saved.moves \in [Devices -> Move \cup {None}]
    /\ \/ call = Idle
       \/ call \in [pc : Working, dev : Devices, room : Rooms, old : Rooms \cup {None},
                    from : Rooms \cup {None}]
       \/ call.pc = "reload"

\* Where the two dicts differ, and only there.
CacheInv ==
    /\ call.pc \in {"idle", "leave", "join", "refresh"} => pending = saved
    /\ call.pc \in {"prune", "persist"} =>
         \A d \in Devices \ {call.dev} : pending.moves[d] = saved.moves[d]
    /\ call.pc = "prune" => pending.moves[call.dev] = None
    /\ call.pc = "reload" =>
         \A d \in Devices : pending.moves[d] \in {None, saved.moves[d]}

\* Whoever would be asked for the room of a device knows the group it is in, if it is in
\* one: the pending move, the saved one after a restart, the cloud, or the call.
WhereInv ==
    \A d \in Devices \ Excused :
        /\ pending.moves[d] = None => groups[d] \subseteq {cloudRoom[d]}
        /\ pending.moves[d] # None => groups[d] \subseteq {pending.moves[d].room}
        /\ saved.moves[d] # None /\ ~Calling(d, {"persist"}) =>
             groups[d] \subseteq {saved.moves[d].room}
        /\ Calling(d, {"prune", "leave"}) => groups[d] \subseteq {call.old}
        /\ Calling(d, {"join"}) => groups[d] = {}

IInv == ShapeInv /\ CacheInv /\ WhereInv
=============================================================================
