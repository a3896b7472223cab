---------------------------- MODULE CloudSchedules ----------------------------
(***************************************************************************)
(* Schedules kept in the Plejd cloud (manage_schedule.py): a trigger and   *)
(* one or two hidden scenes, made, changed and removed by several calls    *)
(* each of which may fail, or succeed and lose its answer.                 *)
(*                                                                         *)
(* Only the entry knows which schedules are ours.  Scenes are numbered; a  *)
(* schedule goes by the number of its scene.  Reloads are EntryReload's.   *)
(***************************************************************************)
EXTENDS Integers, Sequences, SequencesExt, FiniteSets

CONSTANTS
    Ops,            \* service calls that may run at a time
    Titles, Triggers, \* Triggers: days, events, offsets, fade time, whether it is active
    None,
    MaxScenes, MaxCalls, MaxTroubles  \* bounds

VARIABLES
    scenes,    \* the cloud's hidden scenes: their titles
    events,    \* the cloud's triggers
    marked,    \* those of them that are marked for removal (dirtyRemove)
    known,     \* the schedules in the entry (CONF_CLOUD_SCHEDULES)
    lock,      \* the call that holds the entry's lock for schedules
    pc,        \* where each call is
    want,      \* what it was asked for
    cached, updated, \* what the entry knew of its schedule; and knows now
    made,      \* the scenes it has made (created_scene_ids)
    list,      \* the schedules it is about to write
    lost,      \* ghost: numbers whose making, removal or clean-up has failed half-way
    unsure,    \* ghost: schedules that the cloud changed in a call that failed, or in the app
    halfway,   \* ghost: schedules whose removal has failed once they were marked
    next, calls, troubles

marks == <<marked, halfway>>
cloud == <<scenes, events, marks, lost, unsure>>
calling == <<want, cached, updated, made, list>>
bounds == <<next, calls, troubles>>
vars == <<cloud, known, lock, pc, calling, bounds>>

Numbers == 1..MaxScenes
Night == Numbers \cup {0}                                   \* 0: no night reduction
Event == [trigger : Triggers, night : Night]
Schedule == [title : Titles, trigger : Triggers, night : Night]
Requests == [kind : {"create"}, id : {0}, title : Titles, trigger : Triggers, night : BOOLEAN]
            \cup [kind : {"update"}, id : Numbers, title : Titles \cup {None},
                  trigger : Triggers \cup {None}, night : BOOLEAN]
            \cup [kind : {"remove"}, id : Numbers]

ASSUME CloudSchedulesAssumption ==
    /\ None \notin Ops \cup Titles \cup Triggers \cup Event \cup Schedule \cup Requests
    /\ MaxScenes \in Nat /\ MaxCalls \in Nat /\ MaxTroubles \in Nat

Places == {"idle", "ask", "scene", "night", "event", "cleanup", "list", "sync", "refresh", "mark",
           "unlink", "empty"}

\* The calls, the entry and the cloud, but for the marks.
DataOK ==
    /\ scenes \in [Numbers -> Titles \cup {None}]
    /\ events \in [Numbers -> Event \cup {None}]
    /\ known \in [Numbers -> Schedule \cup {None}]
    /\ lock \in Ops \cup {None}
    /\ pc \in [Ops -> Places]
    /\ want \in [Ops -> Requests \cup {None}]
    /\ cached \in [Ops -> Schedule \cup {None}] /\ updated \in [Ops -> Schedule \cup {None}]
    /\ made \in [Ops -> Seq(Numbers)]
    /\ list \in [Ops -> [Numbers -> Schedule \cup {None}] \cup {None}]
    /\ \A o \in Ops : Len(made[o]) <= 2 /\ (pc[o] \notin {"idle", "ask"} <=> lock = o)
    /\ lost \subseteq Numbers /\ unsure \subseteq Numbers

TypeOK ==
    /\ DataOK
    /\ marked \subseteq {n \in Numbers : events[n] # None}
    /\ halfway \subseteq Numbers

Init ==
    /\ scenes = [n \in Numbers |-> None] /\ events = [n \in Numbers |-> None]
    /\ known = [n \in Numbers |-> None]
    /\ lock = None /\ pc = [o \in Ops |-> "idle"]
    /\ want = [o \in Ops |-> None] /\ cached = want /\ updated = want /\ list = want
    /\ made = [o \in Ops |-> <<>>]
    /\ lost = {} /\ unsure = {} /\ marked = {} /\ halfway = {}
    /\ next = 1 /\ calls = 0 /\ troubles = 0

-----------------------------------------------------------------------------
(* What the steps are made of. *)

Trouble == troubles < MaxTroubles /\ troubles' = troubles + 1
Goto(o, place) == pc' = [pc EXCEPT ![o] = place]
Id(o) == IF want[o].kind = "create" THEN Head(made[o]) ELSE want[o].id
Record(o) == IF want[o].kind = "create" THEN None ELSE known[want[o].id]

\* The schedule is known and, for an update, its scenes are there.
Usable(o) ==
    \/ want[o].kind = "create"
    \/ /\ Record(o) # None
       /\ want[o].kind = "update" =>
             scenes[want[o].id] # None /\ (Record(o).night # 0 => scenes[Record(o).night] # None)

\* The first thing it does in the cloud.
FirstStep(o) ==
    CASE want[o].kind = "remove" -> "mark"
      [] want[o].kind = "update" /\ want[o].title = None -> "night"
      [] OTHER -> "scene"

\* A call to the cloud that fails did nothing (Missed), or what it was to do (Applied).
Failing(Missed, Applied) == Trouble /\ (Missed \/ Applied)

\* A service call with valid fields; a creation logs in before it takes the lock.
Ask(o) ==
    /\ pc[o] = "idle" /\ calls < MaxCalls /\ calls' = calls + 1
    /\ \E r \in Requests :
          /\ r.kind # "create" => scenes[r.id] # None
          /\ r.kind = "update" => <<r.title, r.trigger, r.night>> # <<None, None, FALSE>>
          /\ want' = [want EXCEPT ![o] = r]
    /\ Goto(o, "ask")
    /\ UNCHANGED <<cloud, known, lock, cached, updated, made, list, next, troubles>>

\* The call raises before it has done anything: the log-in fails, or the schedule or one of its
\* scenes is not there.
Refused(o) ==
    /\ pc[o] = "ask" /\ lock = None
    /\ (~Usable(o) /\ UNCHANGED troubles) \/ Trouble
    /\ Goto(o, "idle") /\ want' = [want EXCEPT ![o] = None]
    /\ UNCHANGED <<cloud, known, lock, cached, updated, made, list, next, calls>>

\* Mutant: calls do not wait for one another.
BeginAnytime(o) ==
    /\ pc[o] = "ask" /\ Usable(o)
    /\ lock' = o
    /\ cached' = [cached EXCEPT ![o] = Record(o)] /\ updated' = [updated EXCEPT ![o] = Record(o)]
    /\ Goto(o, FirstStep(o))
    /\ UNCHANGED <<cloud, known, want, made, list, bounds>>

\* The lock; then the entry's record of the schedule, log-in and the site's scenes.
Begin(o) ==
    /\ pc[o] = "ask" /\ lock = None /\ Usable(o)
    /\ lock' = o
    /\ cached' = [cached EXCEPT ![o] = Record(o)] /\ updated' = [updated EXCEPT ![o] = Record(o)]
    /\ Goto(o, FirstStep(o))
    /\ UNCHANGED <<cloud, known, want, made, list, bounds>>

\* The call is over and lets the lock go.
Finish(o) ==
    /\ Goto(o, "idle") /\ lock' = None
    /\ want' = [want EXCEPT ![o] = None] /\ cached' = [cached EXCEPT ![o] = None]
    /\ updated' = [updated EXCEPT ![o] = None] /\ list' = [list EXCEPT ![o] = None]
    /\ made' = [made EXCEPT ![o] = <<>>]

-----------------------------------------------------------------------------
(* Scenes. *)

\* A new scene under the title it should have, if its making is answered in time.
MakeScene(o, title, place) ==
    /\ next <= MaxScenes /\ next' = next + 1
    /\ \/ /\ scenes' = [scenes EXCEPT ![next] = title]
          /\ made' = [made EXCEPT ![o] = Append(@, next)]
          /\ Goto(o, place) /\ UNCHANGED <<lost, troubles>>
       \/ Failing(UNCHANGED <<scenes, lost>>,
                  scenes' = [scenes EXCEPT ![next] = title] /\ lost' = lost \cup {next})
          /\ Goto(o, "cleanup") /\ UNCHANGED made
    /\ UNCHANGED <<events, marks, unsure, known, lock, want, cached, updated, list, calls>>

\* The schedule's own scene: made, or renamed.
Scene(o) ==
    /\ pc[o] = "scene"
    /\ \/ want[o].kind = "create" /\ MakeScene(o, want[o].title, "night")
       \/ /\ want[o].kind = "update"
          /\ \/ /\ scenes' = [scenes EXCEPT ![want[o].id] = want[o].title]
                /\ updated' = [updated EXCEPT ![o].title = want[o].title]
                /\ Goto(o, "night") /\ UNCHANGED <<unsure, troubles>>
             \/ Failing(UNCHANGED <<scenes, unsure>>,
                        /\ scenes' = [scenes EXCEPT ![want[o].id] = want[o].title]
                        /\ unsure' = unsure \cup {want[o].id})
                /\ Goto(o, "cleanup") /\ UNCHANGED updated
          /\ UNCHANGED <<events, marks, lost, known, lock, want, cached, made, list, next, calls>>

\* The night reduction's: made when there is none yet, or its steps are replaced.
NightScene(o) ==
    /\ pc[o] = "night"
    /\ LET wanted == want[o].night
           has == want[o].kind = "update" /\ cached[o].night # 0
           title == IF want[o].kind = "create" THEN want[o].title ELSE updated[o].title
       IN  \/ wanted /\ ~has /\ MakeScene(o, title, "event")
           \/ /\ ~wanted \/ has
              /\ \/ Goto(o, "event") /\ UNCHANGED troubles
                 \/ wanted /\ Trouble /\ Goto(o, "cleanup")
              /\ UNCHANGED <<cloud, known, lock, calling, next, calls>>

\* Scenes made by a call that failed are removed, as far as that succeeds.
Cleanup(o) ==
    /\ pc[o] = "cleanup"
    /\ IF made[o] # <<>>
       THEN /\ made' = [made EXCEPT ![o] = Tail(@)]
            /\ \/ scenes' = [scenes EXCEPT ![Head(made[o])] = None] /\ UNCHANGED <<lost, troubles>>
               \/ Trouble /\ lost' = lost \cup {Head(made[o])} /\ UNCHANGED scenes
            /\ UNCHANGED <<lock, pc, want, cached, updated, list>>
       ELSE /\ IF want[o].kind = "create" THEN Finish(o)
               ELSE Goto(o, "list") /\ UNCHANGED <<lock, calling>>
            /\ UNCHANGED <<scenes, lost, troubles>>
    /\ UNCHANGED <<events, marks, unsure, known, next, calls>>

-----------------------------------------------------------------------------
(* Triggers. *)

\* What the whole-state call sends.
Sent(o) ==
    [trigger |-> IF want[o].trigger = None THEN cached[o].trigger ELSE want[o].trigger,
     night |-> IF want[o].night /\ made[o] # <<>> THEN Last(made[o])
               ELSE IF want[o].kind = "create" THEN 0 ELSE cached[o].night]

\* Mutant: what has been made so far is left when the trigger fails.
CreateEventLeaves(o) ==
    /\ pc[o] = "event" /\ want[o].kind = "create"
    /\ \/ /\ events' = [events EXCEPT ![Id(o)] = Sent(o)]
          /\ updated' = [updated EXCEPT ![o] = [title |-> want[o].title, trigger |-> Sent(o).trigger,
                                                night |-> Sent(o).night]]
          /\ Goto(o, "list") /\ UNCHANGED <<lock, want, cached, made, list, troubles>>
       \/ Trouble /\ Finish(o) /\ UNCHANGED events
    /\ UNCHANGED <<scenes, marks, lost, unsure, known, next, calls>>

\* The trigger, whose answer tells the schedule's id.
CreateEvent(o) ==
    /\ pc[o] = "event" /\ want[o].kind = "create"
    /\ \/ /\ events' = [events EXCEPT ![Id(o)] = Sent(o)]
          /\ updated' = [updated EXCEPT ![o] = [title |-> want[o].title, trigger |-> Sent(o).trigger,
                                                night |-> Sent(o).night]]
          /\ Goto(o, "list") /\ UNCHANGED <<lost, troubles>>
       \/ Failing(UNCHANGED <<events, lost>>,
                  events' = [events EXCEPT ![Id(o)] = Sent(o)] /\ lost' = lost \cup {Id(o)})
          /\ Goto(o, "cleanup") /\ UNCHANGED updated
    /\ UNCHANGED <<scenes, marks, unsure, known, lock, want, cached, made, list, next, calls>>

\* A change to the trigger or to the night reduction; the cloud may not know the schedule any more.
\* The call sends the whole state, so that a mark for removal is gone.
UpdateEvent(o) ==
    /\ pc[o] = "event" /\ want[o].kind = "update"
    /\ LET id == want[o].id
           change == events' = [events EXCEPT ![id] = Sent(o)] /\ marked' = marked \ {id}
       IN  \/ /\ want[o].trigger = None /\ ~want[o].night
              /\ Goto(o, "list") /\ UNCHANGED <<events, marks, unsure, updated, troubles>>
           \/ /\ want[o].trigger # None \/ want[o].night
              /\ \/ /\ events[id] # None /\ change /\ halfway' = halfway \ {id}
                    /\ updated' = [updated EXCEPT ![o].trigger = Sent(o).trigger, ![o].night = Sent(o).night]
                    /\ Goto(o, "list") /\ UNCHANGED <<unsure, troubles>>
                 \/ /\ Failing(UNCHANGED <<events, marked, unsure>>,
                               events[id] # None /\ change /\ unsure' = unsure \cup {id})
                    /\ Goto(o, "cleanup") /\ UNCHANGED <<halfway, updated>>
                 \/ /\ events[id] = None
                    /\ Goto(o, "cleanup") /\ UNCHANGED <<events, marks, unsure, updated, troubles>>
    /\ UNCHANGED <<scenes, lost, known, lock, want, cached, made, list, next, calls>>

\* Removal: the whole state as the entry knows it is sent with the mark (dirty_remove), ...
MarkRemoved(o) ==
    /\ pc[o] = "mark"
    /\ LET id == want[o].id
           mark == /\ events[id] # None
                   /\ events' = [events EXCEPT ![id] = [trigger |-> cached[o].trigger, night |-> cached[o].night]]
                   /\ marked' = marked \cup {id}
       IN  \/ mark /\ Goto(o, "unlink") /\ UNCHANGED <<unsure, lock, calling, troubles>>
           \/ Failing(UNCHANGED <<events, marked, unsure>>, mark /\ unsure' = unsure \cup {id}) /\ Finish(o)
           \/ events[id] = None /\ Finish(o) /\ UNCHANGED <<events, marked, unsure, troubles>>
    /\ UNCHANGED <<scenes, halfway, lost, known, next, calls>>

\* ... the trigger is removed; when that fails, the mark stays and the entry keeps the schedule; ...
RemoveEvent(o) ==
    /\ pc[o] = "unlink"
    /\ LET id == want[o].id
           remove == events' = [events EXCEPT ![id] = None] /\ marked' = marked \ {id}
       IN  \/ /\ remove /\ Goto(o, "empty")
              /\ UNCHANGED <<halfway, unsure, lock, want, cached, updated, list, troubles>>
              /\ made' = [made EXCEPT ![o] = <<id>> \o (IF cached[o].night = 0 THEN <<>> ELSE <<cached[o].night>>)]
           \/ Failing(UNCHANGED <<events, marked, unsure>> /\ halfway' = halfway \cup {id},
                      remove /\ unsure' = unsure \cup {id} /\ UNCHANGED halfway)
              /\ Finish(o)
    /\ UNCHANGED <<scenes, lost, known, next, calls>>

\* ... and then its scenes, as far as that succeeds.
RemoveScenes(o) ==
    /\ pc[o] = "empty"
    /\ IF made[o] # <<>>
       THEN /\ made' = [made EXCEPT ![o] = Tail(@)]
            /\ \/ scenes' = [scenes EXCEPT ![Head(made[o])] = None] /\ UNCHANGED <<lost, troubles>>
               \/ Trouble /\ lost' = lost \cup {Head(made[o])} /\ UNCHANGED scenes
            /\ UNCHANGED pc
       ELSE Goto(o, "list") /\ UNCHANGED <<scenes, lost, made, troubles>>
    /\ UNCHANGED <<events, marks, unsure, known, lock, want, cached, updated, list, next, calls>>

-----------------------------------------------------------------------------
(* The entry. *)

\* Mutant: an update that failed leaves the entry as it was.
ListAllOrNothing(o) ==
    /\ pc[o] = "list"
    /\ list' = [list EXCEPT ![o] =
          [known EXCEPT ![Id(o)] =
              IF want[o].kind = "remove" THEN None
              ELSE IF want[o].kind = "update" /\ updated[o].trigger # Sent(o).trigger THEN cached[o]
              ELSE updated[o]]]
    /\ Goto(o, "refresh")
    /\ UNCHANGED <<cloud, known, lock, want, cached, updated, made, bounds>>

\* The entry's schedules with this one added, replaced or gone; only what the cloud has
\* acknowledged is in it (updated).
List(o) ==
    /\ pc[o] = "list"
    /\ list' = [list EXCEPT ![o] =
          [known EXCEPT ![Id(o)] =
              IF want[o].kind = "remove" THEN None ELSE updated[o]]]
    /\ Goto(o, IF want[o].kind = "create" THEN "sync" ELSE "refresh")
    /\ UNCHANGED <<cloud, known, lock, want, cached, updated, made, bounds>>

\* A creation writes it once the reload lock is free (_sync_cloud_schedules_cache), ...
Sync(o) ==
    /\ pc[o] = "sync"
    /\ known' = list[o]
    /\ Goto(o, "refresh")
    /\ UNCHANGED <<cloud, lock, calling, bounds>>

\* ... and every call with the site's refresh, whether or not that succeeds.
Refresh(o) ==
    /\ pc[o] = "refresh"
    /\ known' = list[o]
    /\ Finish(o)
    /\ UNCHANGED <<cloud, bounds>>

\* The schedule is removed in the Plejd app.
AppRemoves ==
    /\ Trouble
    /\ \E id \in Numbers :
          /\ events[id] # None
          /\ scenes' = [n \in Numbers |-> IF n \in {id, events[id].night} THEN None ELSE scenes[n]]
          /\ events' = [events EXCEPT ![id] = None]
          /\ marked' = marked \ {id}
          /\ unsure' = unsure \cup {id}
    /\ UNCHANGED <<halfway, lost, known, lock, pc, calling, next, calls>>

Next ==
    \/ \E o \in Ops :
          \/ Ask(o) \/ Refused(o) \/ Begin(o)
          \/ Scene(o) \/ NightScene(o) \/ Cleanup(o)
          \/ CreateEvent(o) \/ UpdateEvent(o)
          \/ MarkRemoved(o) \/ RemoveEvent(o) \/ RemoveScenes(o)
          \/ List(o) \/ Sync(o) \/ Refresh(o)
    \/ AppRemoves

Spec == Init /\ [][Next]_vars

-----------------------------------------------------------------------------
(* Properties. *)

\* Between calls every trigger and every scene of ours in the cloud belongs to a schedule that the
\* entry knows, but for those whose making, removal or clean-up failed half-way: no call forgets
\* another's schedule (the lock's comment), and none leaves scenes behind.
NothingOrphaned ==
    lock = None =>
        \A n \in Numbers \ lost :
            /\ events[n] # None => known[n] # None
            /\ scenes[n] # None => \E id \in Numbers : known[id] # None /\ n \in {id, known[id].night}

\* Between calls the entry says of a schedule what the cloud does, after calls that failed in the
\* middle as well, unless the cloud did what it answered it had not (async_update_schedule's comment),
\* and none it says is there is marked for removal but those whose removal has failed half-way.
EntryTellsCloud ==
    lock = None =>
        \A id \in Numbers \ unsure :
            known[id] # None =>
                LET s == known[id]
                IN  /\ events[id] = [trigger |-> s.trigger, night |-> s.night]
                    /\ scenes[id] = s.title
                    /\ s.night # 0 => scenes[s.night] # None
                    /\ id \in marked => id \in halfway
=============================================================================
