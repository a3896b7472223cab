---------------------------- MODULE EntryReload ----------------------------
(***************************************************************************)
(* How the integration keeps the running coordinator in step with its      *)
(* config entry.  Home Assistant runs everything on one event loop, so an  *)
(* action below is the code between two awaits.                            *)
(*                                                                         *)
(*  - management operations (add/remove device, room and scene services,   *)
(*    dashboard settings, quiet cache writes) write the entry and reload   *)
(*    it while they hold the per-entry reload lock (schedule_ws.py);       *)
(*  - the daily cloud poll does the same and rolls its write back when the *)
(*    reload fails (coordinator.py);                                       *)
(*  - the options flow and Reconfigure write the entry without the lock;   *)
(*    the update listener (__init__.py) reloads for them, or leaves a      *)
(*    pending marker for the lock holder;                                  *)
(*  - Home Assistant unloads and sets up the entry, one reload at a time.  *)
(*                                                                         *)
(* Home Assistant starts the update listener before anything else of the   *)
(* integration runs, so the listener's part up to its first await belongs  *)
(* to the action that updates the entry.                                   *)
(***************************************************************************)
EXTENDS Naturals, FiniteSets

CONSTANTS
    Managers,     \* management operations that may be in flight
    Unguarded,    \* reloads requested outside the reload lock
    Poll,         \* the cloud poll
    Ha,           \* Home Assistant's own setup retry
    None,
    Kinds,        \* which of the management operations are used
    Preferences,  \* the transport preferences that are used
    SiteKeys,     \* the entry.data keys that mirror the cloud site
    GatewayKey,   \* the one of them that tells whether a gateway is usable
    NoGateway,    \* its versions in which none is
    MaxVersion,   \* bound: changes of one key of the cloud site
    MaxEdits,     \* bound: edits of the entry outside the lock
    MaxFailures   \* bound: unloads refused, setups failed, saves refused

AllKinds == {"site", "device", "settings", "quiet"}

ASSUME EntryReloadAssumption ==
    /\ Kinds \subseteq AllKinds
    /\ "auto" \in Preferences /\ Preferences \subseteq {"auto", "gateway", "ble"}
    /\ GatewayKey \in SiteKeys
    /\ NoGateway \subseteq Nat
    /\ MaxVersion \in Nat /\ MaxEdits \in Nat /\ MaxFailures \in Nat
    /\ Poll \notin Managers \cup Unguarded
    /\ Ha \notin Managers \cup Unguarded \cup {Poll}
    /\ None \notin Managers \cup Unguarded \cup {Poll, Ha}
    /\ Managers \cap Unguarded = {}

Procs == Managers \cup Unguarded \cup {Poll}
Site == [SiteKeys -> Nat]
Entry == [site : Site, pref : Preferences, panel : Nat]

ASSUME NoneIsNoEntry == None \notin Entry /\ None \notin Nat

(***************************************************************************)
(* What a process is doing at its current await: waiting for the cloud     *)
(* ("fetch"), for the reload lock ("want", "wantFollow", "wantRevert"),    *)
(* for async_reload ("reload", "follow", "revert"), or for the next turn   *)
(* of the event loop ("yield").                                            *)
(***************************************************************************)
Reloading == {"reload", "follow", "revert"}
PCs == {"idle", "fetch", "want", "yield", "wantFollow", "wantRevert"} \cup Reloading

VARIABLES
    cloud,      \* the site as the Plejd cloud has it: a version per key
    entry,      \* entry.data and entry.options
    live,       \* the entry as the running coordinator read it, None if none runs
    listening,  \* the update listener is registered
    lock,       \* holder of the per-entry reload lock
    expecting,  \* _DATA_EXPECTING_SELF_RELOAD is set
    pending,    \* DATA_RELOAD_PENDING is set
    seq,        \* _DATA_RELOAD_PENDING_SEQ
    pc,         \* per process: its current await
    res,        \* per process: the answer of its async_reload
    kind,       \* per manager: the operation
    choice,     \* per manager: the transport preference it will write
    snap,       \* per manager, for the poll and for the self-heal: the site fetched
    token,      \* per unguarded reload: the pending marker it may claim, None if no marker
    poll,       \* the poll's locals
    owner,      \* who Home Assistant reloads the entry for
    phase,      \* how far that reload is
    fault,      \* ghost: why live may lag behind entry with nobody left to repair it
    edits, failures

managerVars == <<kind, choice>>
markerVars == <<pending, seq, token>>
haVars == <<owner, phase, live, listening>>
vars == <<cloud, entry, live, listening, lock, expecting, pending, seq, pc, res, kind,
          choice, snap, token, poll, owner, phase, fault, edits, failures>>

Faults == {"unheard", "swallowed", "dropped", "failed"}
Phases == {"free", "unload", "load", "setup", "heal", "listening"}

TypeOK ==
    /\ cloud \in Site
    /\ entry \in Entry
    /\ live \in Entry \cup {None}
    /\ listening \in BOOLEAN /\ expecting \in BOOLEAN /\ pending \in BOOLEAN
    /\ lock \in Managers \cup {Poll, None}
    /\ seq \in Nat
    /\ pc \in [Procs -> PCs]
    /\ res \in [Procs -> {"none", "ok", "failed"}]
    /\ kind \in [Managers -> AllKinds]
    /\ choice \in [Managers -> Preferences]
    /\ snap \in [Managers \cup {Poll, Ha} -> Site]
    /\ token \in [Unguarded -> Nat \cup {None}]
    /\ poll \in [closed : BOOLEAN, pre : Site, old : Entry, wrote : Entry, ok : BOOLEAN]
    /\ owner \in Procs \cup {Ha, None}
    /\ phase \in Phases
    /\ fault \subseteq Faults
    /\ edits \in Nat /\ failures \in Nat

\* A freshly set up entry: every part agrees with the cloud.
Init ==
    /\ cloud = [k \in SiteKeys |-> 0]
    /\ \E p \in Preferences : entry = [site |-> cloud, pref |-> p, panel |-> 0]
    /\ live = entry /\ listening = TRUE
    /\ lock = None /\ expecting = FALSE
    /\ pending = FALSE /\ seq = 0
    /\ pc = [p \in Procs |-> "idle"]
    /\ res = [p \in Procs |-> "none"]
    /\ kind \in [Managers -> {"site"}]
    /\ choice = [m \in Managers |-> "auto"]
    /\ snap = [p \in Managers \cup {Poll, Ha} |-> cloud]
    /\ token = [u \in Unguarded |-> None]
    /\ poll = [closed |-> FALSE, pre |-> cloud, old |-> entry, wrote |-> entry, ok |-> TRUE]
    /\ owner = None /\ phase = "free"
    /\ fault = {}
    /\ edits = 0 /\ failures = 0

-----------------------------------------------------------------------------
(* Pieces several handlers share. *)

HasGateway(site) == site[GatewayKey] \notin NoGateway

\* The poll's _transport_for: only a gateway-only preference becomes impossible.
TransportFor(site, pref) == IF ~HasGateway(site) /\ pref = "gateway" THEN "auto" ELSE pref

\* A lock holder's own async_update_entry, the expecting marker set just before: the
\* listener, if it is registered and the entry really changes, consumes the marker.
SelfUpdate(new) ==
    /\ entry' = new
    /\ expecting' = ~(listening /\ new # entry)

\* Mutant: the pending marker is cleared without a follow-up reload.
EndSessionDrops(p, next) ==
    /\ lock' = None
    /\ expecting' = FALSE
    /\ pending' = FALSE
    /\ pc' = [pc EXCEPT ![p] = next]
    /\ res' = [res EXCEPT ![p] = "none"]
    /\ UNCHANGED <<seq, token>>

\* Mutant: the expecting marker is left behind when no listener consumed it.
EndSessionLeaks(p, next) ==
    /\ lock' = None
    /\ pending' = FALSE
    /\ pc' = [pc EXCEPT ![p] = IF pending THEN "wantFollow" ELSE next]
    /\ res' = [res EXCEPT ![p] = "none"]
    /\ UNCHANGED <<expecting, seq, token>>

\* Mutant: the follow-up is asked for before the session has released the lock.
EndSessionNested(p, next) ==
    /\ lock' = IF pending THEN lock ELSE None
    /\ expecting' = FALSE
    /\ pending' = FALSE
    /\ pc' = [pc EXCEPT ![p] = IF pending THEN "wantFollow" ELSE next]
    /\ res' = [res EXCEPT ![p] = "none"]
    /\ UNCHANGED <<seq, token>>

\* The end of a lock session: release the lock, clear the expecting marker, and claim a
\* pending marker for a follow-up reload; without one go on at `next`.
EndSession(p, next) ==
    /\ lock' = None
    /\ expecting' = FALSE
    /\ pending' = FALSE
    /\ pc' = [pc EXCEPT ![p] = IF pending THEN "wantFollow" ELSE next]
    /\ res' = [res EXCEPT ![p] = "none"]
    /\ UNCHANGED <<seq, token>>

\* async_mark_reload_pending.
MarkPending == pending' = TRUE /\ seq' = seq + 1

Fail == failures < MaxFailures /\ failures' = failures + 1

-----------------------------------------------------------------------------
(* The Plejd cloud: the user's app changes the site. *)

CloudChange(k) ==
    /\ cloud[k] < MaxVersion
    /\ cloud' = [cloud EXCEPT ![k] = @ + 1]

AppChange ==
    /\ \E k \in SiteKeys : CloudChange(k)
    /\ UNCHANGED <<entry, haVars, lock, expecting, markerVars, pc, res, managerVars, snap,
                   poll, fault, edits, failures>>

-----------------------------------------------------------------------------
(* Management operations. *)

\* A room, scene, device or schedule service: mutate the site in the cloud.
ManagerMutate(m) ==
    /\ pc[m] = "idle"
    /\ \E k \in SiteKeys : CloudChange(k)
    /\ kind' \in {[kind EXCEPT ![m] = n] : n \in Kinds \cap {"site", "device"}}
    /\ pc' = [pc EXCEPT ![m] = "fetch"]
    /\ UNCHANGED <<entry, haVars, lock, expecting, markerVars, res, choice, snap, poll,
                   fault, edits, failures>>

\* ... and fetch the site it left behind.  manage_device.py decides here, before it asks
\* for the lock, which transport preference to write.
ManagerFetch(m) ==
    /\ pc[m] = "fetch"
    /\ snap' = [snap EXCEPT ![m] = cloud]
    /\ choice' = [choice EXCEPT ![m] = IF kind[m] = "site" THEN @
                                     ELSE IF HasGateway(cloud) THEN entry.pref ELSE "auto"]
    /\ pc' = [pc EXCEPT ![m] = "want"]
    /\ UNCHANGED <<cloud, entry, haVars, lock, expecting, markerVars, res, kind, poll,
                   fault, edits, failures>>

\* The refresh fails: the operation raises, its cloud mutation stays for the poll to find.
\* (The schedule services then also store their cache: an edit like OptionsFlow below.)
ManagerFetchFails(m) ==
    /\ pc[m] = "fetch"
    /\ pc' = [pc EXCEPT ![m] = "idle"]
    /\ UNCHANGED <<cloud, entry, haVars, lock, expecting, markerVars, res, managerVars,
                   snap, poll, fault, edits, failures>>

\* plejd/settings/set, or a quiet cache write: nothing is awaited before the lock.
ManagerAsks(m) ==
    /\ pc[m] = "idle"
    /\ \/ /\ "settings" \in Kinds
          /\ kind' = [kind EXCEPT ![m] = "settings"]
          /\ \E c \in Preferences : choice' = [choice EXCEPT ![m] = c]
       \/ /\ "quiet" \in Kinds
          /\ kind' = [kind EXCEPT ![m] = "quiet"]
          /\ UNCHANGED choice
    /\ pc' = [pc EXCEPT ![m] = "want"]
    /\ UNCHANGED <<cloud, entry, haVars, lock, expecting, markerVars, res, snap, poll,
                   fault, edits, failures>>

\* The payload build_data, build_options and _build make under the lock.
Built(m) ==
    [entry EXCEPT
        !.site = IF kind[m] \in {"site", "device"} THEN snap[m] ELSE @,
        !.pref = IF kind[m] = "device" THEN choice[m]
                 ELSE IF kind[m] # "settings" THEN @
                 ELSE IF HasGateway(entry.site) THEN choice[m] ELSE "auto"]

\* async_reload_entry_with_lock and _async_persist: build, write, ask for the reload.
ManagerWrite(m) ==
    /\ pc[m] = "want" /\ kind[m] # "quiet" /\ lock = None
    /\ lock' = m
    /\ SelfUpdate(Built(m))
    /\ pc' = [pc EXCEPT ![m] = "reload"]
    /\ UNCHANGED <<cloud, haVars, markerVars, res, managerVars, snap, poll, fault, edits,
                   failures>>

\* _async_persist when the entry cannot be saved: the session ends in the same step.
ManagerSaveFails(m) ==
    /\ pc[m] = "want" /\ kind[m] = "settings" /\ lock = None
    /\ Fail
    /\ EndSession(m, "idle")
    /\ UNCHANGED <<cloud, entry, haVars, managerVars, snap, poll, fault, edits>>

\* _async_persist_pending and _sync_cloud_schedules_cache write a key no coordinator
\* reads, changed or not, and yield once so that the listener runs under the lock.
ManagerWriteQuiet(m) ==
    /\ pc[m] = "want" /\ kind[m] = "quiet" /\ lock = None
    /\ lock' = m
    /\ \E changed \in BOOLEAN : expecting' = ~(listening /\ changed)
    /\ pc' = [pc EXCEPT ![m] = "yield"]
    /\ UNCHANGED <<cloud, entry, haVars, markerVars, res, managerVars, snap, poll, fault,
                   edits, failures>>

\* The session ends.  A failed reload is raised or logged: the user knows about it.
ManagerRelease(m) ==
    /\ pc[m] = "yield" \/ (pc[m] = "reload" /\ res[m] # "none")
    /\ EndSession(m, "idle")
    /\ fault' = IF res[m] = "failed" THEN fault \cup {"failed"} ELSE fault
    /\ UNCHANGED <<cloud, entry, haVars, managerVars, snap, poll, edits, failures>>

\* The follow-up reload for the claimed marker, under the lock again.
FollowUp(p) ==
    /\ pc[p] = "wantFollow" /\ lock = None
    /\ lock' = p
    /\ pc' = [pc EXCEPT ![p] = "follow"]
    /\ UNCHANGED <<cloud, entry, haVars, expecting, markerVars, res, managerVars, snap,
                   poll, fault, edits, failures>>

\* A failed follow-up leaves its change pending, except after a quiet write.
ManagerFollowed(m) ==
    /\ pc[m] = "follow" /\ res[m] # "none"
    /\ lock' = None
    /\ IF res[m] = "failed" /\ kind[m] # "quiet"
       THEN MarkPending
       ELSE UNCHANGED <<pending, seq>>
    /\ fault' = IF res[m] = "failed" /\ kind[m] = "quiet" THEN fault \cup {"dropped"} ELSE fault
    /\ pc' = [pc EXCEPT ![m] = "idle"]
    /\ res' = [res EXCEPT ![m] = "none"]
    /\ UNCHANGED <<cloud, entry, haVars, expecting, token, managerVars, snap, poll, edits,
                   failures>>

-----------------------------------------------------------------------------
(* The daily cloud poll, _async_poll_cloud. *)

PollStart ==
    /\ pc[Poll] = "idle" /\ listening
    /\ pc' = [pc EXCEPT ![Poll] = "fetch"]
    /\ poll' = [poll EXCEPT !.closed = FALSE]
    /\ snap' = [snap EXCEPT ![Poll] = cloud]
    /\ UNCHANGED <<cloud, entry, haVars, lock, expecting, markerVars, res, managerVars,
                   fault, edits, failures>>

SiteChanged(site) == site # entry.site \/ TransportFor(site, entry.pref) # entry.pref

\* The site arrives.  A coordinator shut down meanwhile gives up, an unchanged site ends
\* the poll; otherwise remember what the diff was made against and ask for the lock.
PollArrive ==
    /\ pc[Poll] = "fetch"
    /\ IF poll.closed \/ ~SiteChanged(snap[Poll])
       THEN /\ pc' = [pc EXCEPT ![Poll] = "idle"]
            /\ UNCHANGED poll
       ELSE /\ pc' = [pc EXCEPT ![Poll] = "want"]
            /\ poll' = [poll EXCEPT !.pre = entry.site]
    /\ UNCHANGED <<cloud, entry, haVars, lock, expecting, markerVars, res, managerVars,
                   snap, fault, edits, failures>>

\* The cloud is unreachable, rejects the credentials or answers malformed.
PollGivesUp ==
    /\ pc[Poll] = "fetch"
    /\ pc' = [pc EXCEPT ![Poll] = "idle"]
    /\ UNCHANGED <<cloud, entry, haVars, lock, expecting, markerVars, res, managerVars,
                   snap, poll, fault, edits, failures>>

PollOutdated == poll.closed \/ entry.site # poll.pre

\* Under the lock, but too late: the coordinator is gone or the site keys are newer.
PollSkip ==
    /\ pc[Poll] = "want" /\ lock = None
    /\ PollOutdated
    /\ EndSession(Poll, "idle")
    /\ poll' = [poll EXCEPT !.ok = TRUE]
    /\ UNCHANGED <<cloud, entry, haVars, managerVars, snap, fault, edits, failures>>

PollWrite ==
    /\ pc[Poll] = "want" /\ lock = None
    /\ ~PollOutdated
    /\ lock' = Poll
    /\ LET new == [entry EXCEPT !.site = snap[Poll], !.pref = TransportFor(snap[Poll], @)]
       IN  /\ SelfUpdate(new)
           /\ poll' = [poll EXCEPT !.old = entry, !.wrote = new]
    /\ pc' = [pc EXCEPT ![Poll] = "reload"]
    /\ UNCHANGED <<cloud, haVars, markerVars, res, managerVars, snap, fault, edits, failures>>

\* Mutant: a failed reload is only logged, the poll's write stays in the entry.
PollReleaseWithoutRevert ==
    /\ pc[Poll] = "reload" /\ res[Poll] # "none"
    /\ EndSession(Poll, "idle")
    /\ poll' = [poll EXCEPT !.ok = TRUE]
    /\ UNCHANGED <<cloud, entry, haVars, managerVars, snap, fault, edits, failures>>

PollRelease ==
    /\ pc[Poll] = "reload" /\ res[Poll] # "none"
    /\ EndSession(Poll, IF res[Poll] = "ok" THEN "idle" ELSE "wantRevert")
    /\ poll' = [poll EXCEPT !.ok = (res[Poll] = "ok")]
    /\ UNCHANGED <<cloud, entry, haVars, managerVars, snap, fault, edits, failures>>

PollFollowed ==
    /\ pc[Poll] = "follow" /\ res[Poll] # "none"
    /\ lock' = None
    /\ IF res[Poll] = "failed" THEN MarkPending ELSE UNCHANGED <<pending, seq>>
    /\ pc' = [pc EXCEPT ![Poll] =
                 IF ~poll.ok /\ res[Poll] = "failed" THEN "wantRevert" ELSE "idle"]
    /\ res' = [res EXCEPT ![Poll] = "none"]
    /\ UNCHANGED <<cloud, entry, haVars, expecting, token, managerVars, snap, poll, fault,
                   edits, failures>>

\* Mutant: the transport preference is popped although the entry had one.
RevertedWithoutPref ==
    [entry EXCEPT
        !.site = [k \in SiteKeys |-> IF entry.site[k] = poll.wrote.site[k]
                                     THEN poll.old.site[k] ELSE entry.site[k]],
        !.pref = None]

\* Restore what the poll overwrote, key by key, where its own value still stands.
Reverted ==
    [entry EXCEPT
        !.site = [k \in SiteKeys |-> IF entry.site[k] = poll.wrote.site[k]
                                     THEN poll.old.site[k] ELSE entry.site[k]],
        !.pref = IF @ = poll.wrote.pref THEN poll.old.pref ELSE @]

PollRevert ==
    /\ pc[Poll] = "wantRevert" /\ lock = None
    /\ lock' = Poll
    /\ SelfUpdate(Reverted)
    /\ pc' = [pc EXCEPT ![Poll] = "revert"]
    /\ UNCHANGED <<cloud, haVars, markerVars, res, managerVars, snap, poll, fault, edits,
                   failures>>

\* A rejected reload of the reverted snapshot is only logged; no marker is claimed here.
PollReverted ==
    /\ pc[Poll] = "revert" /\ res[Poll] # "none"
    /\ lock' = None
    /\ expecting' = FALSE
    /\ fault' = IF res[Poll] = "failed" THEN fault \cup {"failed"} ELSE fault
    /\ pc' = [pc EXCEPT ![Poll] = "idle"]
    /\ res' = [res EXCEPT ![Poll] = "none"]
    /\ UNCHANGED <<cloud, entry, haVars, markerVars, managerVars, snap, poll, edits,
                   failures>>

-----------------------------------------------------------------------------
(* Edits outside the lock, and the update listener _async_reload_entry. *)

\* async_reload_pending_token.
PendingToken == IF pending THEN seq ELSE None

Start(us) == pc' = [p \in Procs |-> IF p \in us THEN "reload" ELSE pc[p]]

\* Nobody hears of an edit without effect, or made while no listener is registered.
EditUnheard(new, scheduled) ==
    /\ new = entry \/ ~listening
    /\ fault' = IF new # entry /\ live # None THEN fault \cup {"unheard"} ELSE fault
    /\ Start(scheduled)
    /\ UNCHANGED <<expecting, markerVars>>

\* With the lock held, the listener takes the edit for the holder's own update ...
EditSwallowed(new, scheduled) ==
    /\ new # entry /\ listening /\ lock # None /\ expecting
    /\ expecting' = FALSE
    /\ fault' = fault \cup {"swallowed"}
    /\ Start(scheduled)
    /\ UNCHANGED markerVars

\* ... or, that one seen, marks the edit pending for the holder.
EditPending(new, scheduled) ==
    /\ new # entry /\ listening /\ lock # None /\ ~expecting
    /\ MarkPending
    /\ Start(scheduled)
    /\ UNCHANGED <<expecting, token, fault>>

\* With the lock free it reloads the entry itself.
EditReload(new, scheduled) ==
    /\ new # entry /\ listening /\ lock = None
    /\ \E u \in Unguarded \ scheduled :
          /\ pc[u] = "idle"
          /\ Start(scheduled \cup {u})
          /\ token' = [token EXCEPT ![u] = PendingToken]
    /\ UNCHANGED <<expecting, pending, seq, fault>>

\* An edit to `new` and what the update listener does about it.  `scheduled` are the
\* reloads the editor asks for by itself.
Edit(new, scheduled) ==
    /\ edits < MaxEdits
    /\ edits' = edits + 1
    /\ entry' = new
    /\ \/ EditUnheard(new, scheduled) \/ EditSwallowed(new, scheduled)
       \/ EditPending(new, scheduled) \/ EditReload(new, scheduled)
    /\ UNCHANGED <<cloud, haVars, lock, res, managerVars, snap, poll, failures>>

\* The options flow shows or hides the dashboard panel.
OptionsFlow == Edit([entry EXCEPT !.panel = @ + 1], {})

\* Reconfigure stores the site as the cloud has it and schedules a reload of its own.
Reconfigure ==
    \E u \in Unguarded : pc[u] = "idle" /\ Edit([entry EXCEPT !.site = cloud], {u})

\* async_take_reload_pending_token claims the marker it was given, and only that one.
TakeToken(u) == pending /\ token[u] = seq

UnguardedDone(u) ==
    /\ pc[u] = "reload" /\ res[u] # "none"
    /\ pending' = (pending /\ ~(res[u] = "ok" /\ TakeToken(u)))
    /\ fault' = IF res[u] = "failed" THEN fault \cup {"failed"} ELSE fault
    /\ pc' = [pc EXCEPT ![u] = "idle"]
    /\ res' = [res EXCEPT ![u] = "none"]
    /\ token' = [token EXCEPT ![u] = None]
    /\ UNCHANGED <<cloud, entry, haVars, lock, expecting, seq, managerVars, snap, poll,
                   edits, failures>>

-----------------------------------------------------------------------------
(* Home Assistant: async_reload under the entry's own setup lock, and the retry of a  *)
(* setup that was not ready.                                                          *)

HaBegin(p) ==
    /\ pc[p] \in Reloading /\ res[p] = "none"
    /\ owner = None
    /\ owner' = p
    /\ phase' = IF live = None THEN "load" ELSE "unload"
    /\ UNCHANGED <<cloud, entry, live, listening, lock, expecting, markerVars, pc, res,
                   managerVars, snap, poll, fault, edits, failures>>

HaRetry ==
    /\ live = None /\ owner = None
    /\ owner' = Ha
    /\ phase' = "load"
    /\ UNCHANGED <<cloud, entry, live, listening, lock, expecting, markerVars, pc, res,
                   managerVars, snap, poll, fault, edits, failures>>

Finish(answer) ==
    /\ owner' = None
    /\ phase' = "free"
    /\ res' = IF owner \in Procs THEN [res EXCEPT ![owner] = answer] ELSE res

\* A platform refuses to unload: the old coordinator keeps running.
HaUnloadRefused ==
    /\ phase = "unload"
    /\ Fail
    /\ Finish("failed")
    /\ UNCHANGED <<cloud, entry, live, listening, lock, expecting, markerVars, pc,
                   managerVars, snap, poll, fault, edits>>

\* async_unload_entry shuts the coordinator down, and with it its poll.
HaUnload ==
    /\ phase = "unload"
    /\ live' = None /\ listening' = FALSE
    /\ poll' = [poll EXCEPT !.closed = TRUE]
    /\ phase' = "load"
    /\ UNCHANGED <<cloud, entry, lock, expecting, markerVars, pc, res, managerVars, snap,
                   owner, fault, edits, failures>>

\* async_setup_entry builds a coordinator from the entry as it is now.
HaLoad ==
    /\ phase = "load"
    /\ live' = entry
    /\ fault' = {}
    /\ phase' = "setup"
    /\ UNCHANGED <<cloud, entry, listening, lock, expecting, markerVars, pc, res,
                   managerVars, snap, poll, owner, edits, failures>>

\* The mesh does not answer.  Outside the self-heal cooldown the site is fetched once.
HaSetupFails ==
    /\ phase = "setup"
    /\ Fail
    /\ live' = None
    /\ \/ Finish("failed") /\ UNCHANGED snap
       \/ /\ snap' = [snap EXCEPT ![Ha] = cloud]
          /\ phase' = "heal"
          /\ UNCHANGED <<owner, res>>
    /\ UNCHANGED <<cloud, entry, listening, lock, expecting, markerVars, pc, managerVars,
                   poll, fault, edits>>

\* The self-heal, _async_poll_cloud(reload=False): persist the site for the next attempt.
HaHeal ==
    /\ phase = "heal"
    /\ entry' = [entry EXCEPT !.site = snap[Ha], !.pref = TransportFor(snap[Ha], @)]
    /\ Finish("failed")
    /\ UNCHANGED <<cloud, live, listening, lock, expecting, markerVars, pc, managerVars,
                   snap, poll, fault, edits, failures>>

\* The platforms are up; the update listener is registered and setup goes on ...
HaListen ==
    /\ phase = "setup"
    /\ listening' = TRUE
    /\ phase' = "listening"
    /\ UNCHANGED <<cloud, entry, live, lock, expecting, markerVars, pc, res, managerVars,
                   snap, poll, owner, fault, edits, failures>>

\* ... through area sync, bindings and the activity log.
HaDone ==
    /\ phase = "listening"
    /\ Finish("ok")
    /\ UNCHANGED <<cloud, entry, live, listening, lock, expecting, markerVars, pc,
                   managerVars, snap, poll, fault, edits, failures>>

-----------------------------------------------------------------------------
ManagerStep(m) ==
    \/ ManagerMutate(m) \/ ManagerFetch(m) \/ ManagerFetchFails(m) \/ ManagerAsks(m)
    \/ ManagerWrite(m) \/ ManagerSaveFails(m) \/ ManagerWriteQuiet(m)
    \/ ManagerRelease(m) \/ FollowUp(m) \/ ManagerFollowed(m)

PollStep ==
    \/ PollStart \/ PollArrive \/ PollGivesUp \/ PollSkip \/ PollWrite \/ PollRelease
    \/ FollowUp(Poll) \/ PollFollowed \/ PollRevert \/ PollReverted

HaStep ==
    \/ HaRetry \/ HaUnloadRefused \/ HaUnload \/ HaLoad \/ HaSetupFails \/ HaHeal
    \/ HaListen \/ HaDone

Next ==
    \/ AppChange
    \/ \E m \in Managers : ManagerStep(m)
    \/ PollStep
    \/ OptionsFlow \/ Reconfigure
    \/ \E u \in Unguarded : UnguardedDone(u)
    \/ \E p \in Procs : HaBegin(p)
    \/ HaStep

Spec == Init /\ [][Next]_vars

(***************************************************************************)
(* The event loop resumes every task that can go on, and asyncio locks are *)
(* granted in the order they were asked for: a process that again and      *)
(* again can take its next step takes it.  Nothing is assumed of users     *)
(* (AppChange, edits, new operations) and no failure is ever forced; the   *)
(* cloud answers the poll now and then.                                    *)
(***************************************************************************)
ManagerProgress(m) ==
    \/ ManagerFetch(m) \/ ManagerWrite(m) \/ ManagerWriteQuiet(m) \/ HaBegin(m)
    \/ ManagerRelease(m) \/ FollowUp(m) \/ ManagerFollowed(m)

PollProgress ==
    \/ PollStart \/ PollSkip \/ PollWrite \/ HaBegin(Poll) \/ PollRelease
    \/ FollowUp(Poll) \/ PollFollowed \/ PollRevert \/ PollReverted

HaProgress == HaRetry \/ HaUnload \/ HaLoad \/ HaHeal \/ HaListen \/ HaDone

Fairness ==
    /\ \A m \in Managers : SF_vars(ManagerProgress(m))
    /\ SF_vars(PollProgress) /\ SF_vars(PollArrive)
    /\ \A u \in Unguarded : SF_vars(HaBegin(u) \/ UnguardedDone(u))
    /\ WF_vars(HaProgress)

FairSpec == Spec /\ Fairness

-----------------------------------------------------------------------------
(* Properties. *)

\* p is still going to have the entry read anew, to put it back, or to report a failure.
Owes(p) ==
    \/ pc[p] \in {"wantFollow", "wantRevert"}
    \/ pc[p] \in Reloading /\ res[p] = "none" /\ (owner # p \/ phase \in {"unload", "load"})
    \/ res[p] = "failed"

\* A change of the entry is never lost: while the running coordinator lags behind it, the
\* change is marked pending, a process still owes a reload, or a known reason stands
\* (schedule_ws.py's lock, markers and follow-ups with __init__.py's listener).
Explained == fault # {} \/ \E p \in Procs : Owes(p)
StaleIsExplained == live # None /\ live # entry => pending \/ Explained

\* The marker for a self-triggered update never outlives the lock session that set it,
\* so the listener cannot mistake an edit in a later session for the holder's own.
ExpectingUnderLock == expecting => lock # None /\ pc[lock] \in {"yield", "reload", "revert"}

\* Once changes and failures stop, the daily poll brings the entry back to the cloud's
\* site, whatever stale snapshot an operation, a self-heal or a rollback left in it, with a
\* transport preference that site allows, and the coordinator runs on it unless a marker is
\* pending or a known fault stands.
Converges ==
    <>[](/\ entry.site = cloud /\ TransportFor(cloud, entry.pref) = entry.pref
         /\ live # None
         /\ live.site = cloud \/ pending \/ fault # {})

\* Every operation comes to an end: no session is left waiting for a lock or a reload
\* (the follow-up takes the lock again, the self-heal runs inside another's session).
SessionsEnd == \A m \in Managers : pc[m] # "idle" ~> pc[m] = "idle"

-----------------------------------------------------------------------------
(* The inductive invariant behind the safety properties. *)

Holding == {"yield", "reload", "follow", "revert"}

\* The lock's holder is the one process inside a session.
LockInv == \A p \in Managers \cup {Poll} : lock = p <=> pc[p] \in Holding

\* Only a process that awaits async_reload has an answer, or is reloaded for.
ReloadInv ==
    /\ \A p \in Procs : res[p] # "none" => pc[p] \in Reloading
    /\ owner \in Procs => pc[owner] \in Reloading /\ res[owner] = "none"
    /\ owner = None <=> phase = "free"
    /\ phase \in {"load", "heal"} => live = None
    /\ phase \in {"unload", "setup", "listening"} => live # None
    /\ listening => live # None /\ phase # "setup"

\* A reload outside the lock knows no newer marker than there is.
TokenInv ==
    \A u \in Unguarded :
        /\ pc[u] \in {"idle", "reload"}
        /\ pc[u] = "idle" => token[u] = None
        /\ token[u] # None => token[u] <= seq

\* Once an unguarded reload has read the entry, the marker it may claim explains nothing:
\* a later change has a newer marker or another reason.
ClaimInv ==
    \A u \in Unguarded :
        /\ pending /\ token[u] = seq
        /\ res[u] = "ok" \/ (owner = u /\ phase \in {"setup", "listening"})
        /\ live # None /\ live # entry
        => Explained

IInv == TypeOK /\ LockInv /\ ExpectingUnderLock /\ ReloadInv /\ TokenInv /\ ClaimInv /\ StaleIsExplained
=============================================================================
