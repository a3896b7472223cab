------------------------------ MODULE LightsEdit ------------------------------
(***************************************************************************)
(* Edit mode of the dashboard's Lights (App.tsx, Lights) and the           *)
(* server's side of it (room_ws.py): lamp types and names.                 *)
(*                                                                         *)
(* A draft is edited, then saved: lamp types in parallel, names one after  *)
(* the other.  Lamp types are also read again whenever entities or rooms   *)
(* change, and a read may overlap a save.  The server merges each type     *)
(* into the stored ones under a lock.                                      *)
(***************************************************************************)
EXTENDS FiniteSets, Sequences, SequencesExt, Integers

CONSTANTS
    Lamps, Names,      \* lights whose type can be chosen; lights and rooms that can be renamed
    Values, Default,   \* lamp types and names; the default lamp type
    None, Waiting,     \* no request; one that has not loaded anything yet
    Other,             \* somebody else's dashboard
    MaxEdits, MaxReads, MaxTroubles  \* bounds

ASSUME LightsEditAssumption ==
    /\ Default \in Values /\ Lamps \cap Names = {} /\ IsFiniteSet(Names)
    /\ Other \notin Lamps /\ None \notin Lamps \cup {Other}
    /\ None # Waiting /\ {None, Waiting} \cap (Values \cup [Lamps -> Values] \cup [Lamps \cup Names -> Values]) = {}
    /\ MaxEdits \in Nat /\ MaxReads \in Nat /\ MaxTroubles \in Nat

VARIABLES
    store,     \* the stored lamp types
    names,     \* the names, as Plejd and Home Assistant have them
    lock,      \* the request that holds the styles lock
    request,   \* the requests to set a lamp's type: waiting, or what they have loaded
    reader,    \* the request to read them: what it has loaded
    inbox,     \* answers on their way to the dashboard, in order
    styles, confirmed,  \* shown; as last confirmed by the server
    saving,    \* lamps whose type is being saved (pendingSaves)
    read,      \* the read: idle, asked, or waiting for its timer
    stale,     \* an edit or a save has overlapped it
    draft, base, \* edit mode: what is being edited, and the values it began with
    busy, work, failed, todo,  \* a Save runs; what it saves; a part of it failed; names to come
    kept,      \* ghost: fields that earlier, failed Saves of this draft have sent
    typed,     \* ghost: fields edited while the Save runs
    foreign,   \* ghost: fields that somebody else has written last
    unseen,    \* ghost: lamps that somebody else has set since the types were last loaded
    edits, reads, troubles

server == <<store, names, lock, request, reader>>
reading == <<read, stale, reads>>
shown == <<inbox, styles, confirmed, saving>>
editing == <<draft, base, busy, work, failed, todo, kept, typed, edits>>
others == <<foreign, unseen>>
vars == <<server, shown, reading, editing, others, troubles>>

Fields == Lamps \cup Names
Types == [Lamps -> Values]
Messages == [kind : {"set"}, lamp : Lamps, types : Types \cup {None}]
            \cup [kind : {"read"}, types : Types \cup {None}]

TypeOK ==
    /\ store \in Types /\ names \in [Names -> Values]
    /\ lock \in Lamps \cup {Other, None}
    /\ request \in [Lamps \cup {Other} -> {None, Waiting} \cup Types]
    /\ reader \in {None, Waiting} \cup Types
    /\ inbox \in Seq(Messages)
    /\ styles \in Types /\ confirmed \in Types
    /\ saving \subseteq Lamps
    /\ read \in {"idle", "asked", "timer"} /\ stale \in BOOLEAN
    /\ draft \in [Fields -> Values] \cup {None} /\ base \in [Fields -> Values] \cup {None}
    /\ busy \in BOOLEAN /\ failed \in BOOLEAN
    /\ work \in [Fields -> Values] \cup {None} /\ todo \in Seq(Names)
    /\ kept \subseteq Fields /\ typed \subseteq Fields /\ foreign \subseteq Fields
    /\ unseen \subseteq Lamps

\* The panel was just opened: nothing read yet, every lamp drawn as the default one.
Init ==
    /\ store \in Types /\ foreign = {l \in Lamps : store[l] # Default} /\ unseen = {}
    /\ names = [n \in Names |-> Default]
    /\ lock = None /\ request = [r \in Lamps \cup {Other} |-> None]
    /\ reader = Waiting /\ inbox = <<>>
    /\ styles = [l \in Lamps |-> Default] /\ confirmed = styles
    /\ saving = {} /\ read = "asked" /\ stale = FALSE
    /\ draft = None /\ base = None
    /\ busy = FALSE /\ work = None /\ failed = FALSE /\ todo = <<>>
    /\ kept = {} /\ typed = {}
    /\ edits = 0 /\ reads = 0 /\ troubles = 0

-----------------------------------------------------------------------------
(* The server. *)

\* Mutant: no lock.
SetLoadsUnlocked(r) ==
    /\ request[r] = Waiting
    /\ request' = [request EXCEPT ![r] = store]
    /\ UNCHANGED <<lock, store, names, reader, shown, reading, editing, others, troubles>>

\* ws_styles_set takes the lock and loads what is stored.
SetLoads(r) ==
    /\ lock = None /\ request[r] = Waiting
    /\ lock' = r
    /\ request' = [request EXCEPT ![r] = store]
    /\ UNCHANGED <<store, names, reader, shown, reading, editing, others, troubles>>

\* It saves that with the one type changed.
Saves(r, lamp, value) ==
    /\ request[r] \in Types
    /\ store' = [request[r] EXCEPT ![lamp] = value]
    /\ request' = [request EXCEPT ![r] = None]
    /\ lock' = None

\* ... and answers with all of them.
SetSaves(l) ==
    /\ Saves(l, l, work[l])
    /\ inbox' = Append(inbox, [kind |-> "set", lamp |-> l, types |-> store'])
    /\ foreign' = foreign \ {l} /\ unseen' = {}
    /\ UNCHANGED <<names, reader, styles, confirmed, saving, reading, editing, troubles>>

\* Somebody else's dashboard sets a type, by the same two steps.
OtherSets ==
    /\ troubles < MaxTroubles /\ troubles' = troubles + 1
    /\ request[Other] = None
    /\ request' = [request EXCEPT ![Other] = Waiting]
    /\ UNCHANGED <<store, names, lock, reader, shown, reading, editing, others>>

OtherSaves ==
    /\ \E l \in Lamps, v \in Values :
          Saves(Other, l, v) /\ foreign' = foreign \cup {l} /\ unseen' = unseen \cup {l}
    /\ UNCHANGED <<names, reader, shown, reading, editing, troubles>>

\* The request fails before it has saved anything.
SetFails(l) ==
    /\ troubles < MaxTroubles /\ troubles' = troubles + 1
    /\ request[l] # None
    /\ request' = [request EXCEPT ![l] = None]
    /\ lock' = IF lock = l THEN None ELSE lock
    /\ inbox' = Append(inbox, [kind |-> "set", lamp |-> l, types |-> None])
    /\ UNCHANGED <<store, names, reader, styles, confirmed, saving, reading, editing, others>>

\* ws_styles_get loads without the lock, and answers later.
ReadLoads ==
    /\ reader = Waiting
    /\ reader' = store /\ unseen' = {}
    /\ UNCHANGED <<store, names, lock, request, shown, reading, editing, foreign, troubles>>

ReadAnswers ==
    /\ reader \in Types
    /\ inbox' = Append(inbox, [kind |-> "read", types |-> reader])
    /\ reader' = None
    /\ UNCHANGED <<store, names, lock, request, styles, confirmed, saving, reading, editing, others, troubles>>

ReadFails ==
    /\ troubles < MaxTroubles /\ troubles' = troubles + 1
    /\ reader = Waiting /\ reader' = None
    /\ inbox' = Append(inbox, [kind |-> "read", types |-> None])
    /\ UNCHANGED <<store, names, lock, request, styles, confirmed, saving, reading, editing, others>>

OtherRenames ==
    /\ troubles < MaxTroubles /\ troubles' = troubles + 1
    /\ \E n \in Names, v \in Values :
          names' = [names EXCEPT ![n] = v] /\ foreign' = foreign \cup {n}
    /\ UNCHANGED <<store, lock, request, reader, shown, reading, editing, unseen>>

-----------------------------------------------------------------------------
(* Reading the lamp types (loadStyles). *)

Ask == reader' = Waiting /\ read' = "asked" /\ stale' = (saving # {})

\* Entities or rooms have changed: the effect drops the read there is and begins another.
Effect ==
    /\ reads < MaxReads /\ reads' = reads + 1
    /\ Ask
    /\ IF \E i \in DOMAIN inbox : inbox[i].kind = "read"
       THEN \E i \in DOMAIN inbox : inbox[i].kind = "read" /\ inbox' = RemoveAt(inbox, i)
       ELSE UNCHANGED inbox
    /\ UNCHANGED <<store, names, lock, request, styles, confirmed, saving, editing, others, troubles>>

TimerFires ==
    /\ read = "timer"
    /\ Ask
    /\ UNCHANGED <<store, names, lock, request, shown, editing, reads, others, troubles>>

\* Mutant: takes whatever was read.
ReadArrivesAlways ==
    /\ inbox # <<>> /\ Head(inbox).kind = "read"
    /\ inbox' = Tail(inbox)
    /\ IF Head(inbox).types = None
       THEN read' = "timer" /\ UNCHANGED <<styles, confirmed>>
       ELSE read' = "idle" /\ styles' = Head(inbox).types /\ confirmed' = styles'
    /\ UNCHANGED <<server, saving, stale, reads, editing, others, troubles>>

\* An answer that an edit or a save has overlapped may predate it: read again later.
ReadArrives ==
    /\ inbox # <<>> /\ Head(inbox).kind = "read"
    /\ inbox' = Tail(inbox)
    /\ IF Head(inbox).types = None \/ stale \/ saving # {}
       THEN read' = "timer" /\ UNCHANGED <<styles, confirmed>>
       ELSE read' = "idle" /\ styles' = Head(inbox).types /\ confirmed' = styles'
    /\ UNCHANGED <<server, saving, stale, reads, editing, others, troubles>>

-----------------------------------------------------------------------------
(* Edit mode. *)

StartEdit ==
    /\ draft = None
    /\ base' = [f \in Fields |-> IF f \in Lamps THEN styles[f] ELSE names[f]]
    /\ draft' = base'
    /\ kept' = {} /\ typed' = {}
    /\ UNCHANGED <<server, shown, reading, busy, work, failed, todo, edits, others, troubles>>

\* The fields stay enabled while a Save waits for an answer.
Patch(f, v) ==
    /\ draft # None /\ (busy => saving # {} \/ todo # <<>>)
    /\ edits < MaxEdits /\ edits' = edits + 1
    /\ draft' = [draft EXCEPT ![f] = v]
    /\ typed' = IF busy THEN typed \cup {f} ELSE typed
    /\ UNCHANGED <<server, shown, reading, base, busy, work, failed, todo, kept, others, troubles>>

CancelEdit ==
    /\ draft # None /\ ~busy
    /\ draft' = None /\ base' = None
    /\ UNCHANGED <<server, shown, reading, busy, work, failed, todo, kept, typed, edits, others, troubles>>

\* saveEdit: only what differs from the values of the start; lamp types (setStyle) all at once.
Save ==
    /\ draft # None /\ ~busy
    /\ busy' = TRUE /\ work' = draft /\ failed' = FALSE
    /\ LET changed == {f \in Fields : draft[f] # base[f]}
           lamps == changed \cap Lamps
       IN  /\ saving' = lamps
           /\ request' = [r \in DOMAIN request |-> IF r \in lamps THEN Waiting ELSE request[r]]
           /\ styles' = [l \in Lamps |-> IF l \in lamps THEN draft[l] ELSE styles[l]]
           /\ stale' = (stale \/ lamps # {})
           /\ todo' = SetToSeq(changed \cap Names)
    /\ UNCHANGED <<store, names, lock, reader, inbox, confirmed, read, reads, draft, base, kept,
                   typed, edits, others, troubles>>

\* Mutant: the outcome is not looked at.
SetAnsweredUnchecked ==
    /\ inbox # <<>> /\ Head(inbox).kind = "set"
    /\ inbox' = Tail(inbox)
    /\ saving' = saving \ {Head(inbox).lamp}
    /\ styles' = Head(inbox).types /\ confirmed' = styles'
    /\ UNCHANGED <<server, reading, editing, others, troubles>>

\* A type was saved, or it was not and the lamp goes back to what was last confirmed.
SetAnswered ==
    /\ inbox # <<>> /\ Head(inbox).kind = "set"
    /\ inbox' = Tail(inbox)
    /\ saving' = saving \ {Head(inbox).lamp}
    /\ LET types == Head(inbox).types
           l == Head(inbox).lamp
       IN  IF types # None
           THEN styles' = types /\ confirmed' = types /\ UNCHANGED failed
           ELSE failed' = TRUE /\ styles' = [styles EXCEPT ![l] = confirmed[l]] /\ UNCHANGED confirmed
    /\ UNCHANGED <<server, reading, draft, base, busy, work, todo, kept, typed, edits, others, troubles>>

\* Then the names, one at a time.
Rename ==
    /\ busy /\ saving = {} /\ todo # <<>>
    /\ todo' = Tail(todo)
    /\ \/ /\ names' = [names EXCEPT ![Head(todo)] = work[Head(todo)]]
          /\ foreign' = foreign \ {Head(todo)}
          /\ UNCHANGED <<failed, troubles>>
       \/ /\ troubles < MaxTroubles /\ troubles' = troubles + 1
          /\ failed' = TRUE
          /\ UNCHANGED <<names, foreign>>
    /\ UNCHANGED <<store, lock, request, reader, shown, reading, draft, base, busy, work, kept,
                   typed, edits, unseen>>

\* Mutant: the draft is closed whatever has failed.
FinishAlways ==
    /\ busy /\ saving = {} /\ todo = <<>>
    /\ busy' = FALSE /\ work' = None
    /\ draft' = None /\ base' = None
    /\ UNCHANGED <<server, shown, reading, failed, todo, edits, others, troubles, kept, typed>>

\* The draft is closed, or stays open with the values it began with if anything failed.
Finish ==
    /\ busy /\ saving = {} /\ todo = <<>>
    /\ busy' = FALSE /\ work' = None
    /\ IF failed
       THEN /\ kept' = kept \cup {f \in Fields : work[f] # base[f]} /\ typed' = {}
            /\ UNCHANGED <<draft, base>>
       ELSE draft' = None /\ base' = None /\ UNCHANGED <<kept, typed>>
    /\ UNCHANGED <<server, shown, reading, failed, todo, edits, others, troubles>>

Next ==
    \/ \E r \in Lamps \cup {Other} : SetLoads(r)
    \/ \E l \in Lamps : SetSaves(l) \/ SetFails(l)
    \/ OtherSets \/ OtherSaves \/ OtherRenames
    \/ ReadLoads \/ ReadAnswers \/ ReadFails
    \/ Effect \/ TimerFires \/ ReadArrives
    \/ StartEdit \/ CancelEdit \/ Save
    \/ \E f \in Fields, v \in Values : Patch(f, v)
    \/ SetAnswered \/ Rename \/ Finish

Spec == Init /\ [][Next]_vars

-----------------------------------------------------------------------------
(* Properties. *)

\* Nothing is being saved or read.
Quiet == saving = {} /\ read = "idle"

\* Once all is quiet, the lamps are drawn as the types that are stored, but for those somebody
\* else has set since the types were last loaded: no read that overlapped a save, no failed save
\* and no other lamp's answer leaves an old type on screen.
StylesSettle == Quiet => \A l \in Lamps \ unseen : styles[l] = store[l]

\* No request undoes another lamp's type, of this dashboard or another (ws_styles_set's lock).
NoTypeUndone == [][\A l, k \in Lamps : store'[l] # store[l] /\ store'[k] # store[k] => l = k]_vars

\* A Save that closes the draft has saved it, but for what somebody else has written since, for
\* edits made while it ran (typed), and for fields put back to where the draft began after a
\* failed Save had sent them (kept).
ServerHas(f) == IF f \in Lamps THEN store[f] ELSE names[f]
DraftIsSaved ==
    [][busy /\ draft' = None =>
          \A f \in Fields \ (foreign \cup typed \cup kept) : ServerHas(f) = draft[f]]_vars
=============================================================================
