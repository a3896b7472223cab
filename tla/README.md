# Formal model of the Plejd integration for Home Assistant

This directory holds TLA+ specifications of `src/custom_components/plejd`, the TLC
configurations that model-check them and the TLAPS proofs about them. Paths below are relative to
`src/custom_components/plejd/` unless they begin with `src/`.

The integration runs on Home Assistant's asyncio event loop: one thread, many tasks. Code between
two `await`s is atomic, so **one TLA+ action is the code between two awaits** of one task. What
makes the system hard is everything that can happen *at* an await: another task takes the lock
first, the link drops, the config entry is edited, Home Assistant unloads the integration.

## 1. Inventory

| Component (source) | State it keeps | Operations | Hard behaviour | What makes it correct |
|---|---|---|---|---|
| **Entry reload coordination** (`schedule_ws.py:60-245`, `__init__.py:454-509`, `coordinator.py:631-881`, the services' `_async_refresh_and_reload`) | `entry.data`/`entry.options`; per-entry reload lock, *expecting* and *pending* markers in `hass.data` | services, settings, quiet cache writes, daily poll with rollback, self-heal, options flow, Reconfigure, update listener, unload and set-up | writes and reloads of several tasks interleave; a listener must tell the holder's update from a foreign one; reloads fail | no change of the entry is lost; markers never leak; the poll converges; nobody deadlocks |
| **Mesh link** (`coordinator.py:1004-1226, 1442-1465`, `connection.py`, `gateway_transport.py`) | active transport, availability, reconnect task, BLE client and mesh, WebSocket and receive loop | set-up, selection with fall-back, reconnect loop, drops, shut-down | a drop during an attempt, a shut-down during an attempt, late drops of superseded links | no drop is lost; a shut-down is final; the link comes back |
| **Gateway publishes** (`gateway_transport.py:120-143, 244-288`, `gateway.py`) | queues of waiters per payload | write, acknowledge, time out, release | acknowledgements are matched by payload only; time-out against a late answer | an acknowledgement releases at most one write; nobody waits past a drop |
| **Output state** (`coordinator.py:433-467, 1259-1363`, `mesh.py`, `light.py`) | last state per address | optimistic writes, echoes, group commands | the optimistic guess against a foreign change in flight | a foreign change is never overwritten by a guess |
| **Dimming** (`dim_ramp.py`, `bindings.py`, `dim_binding_ws.py`) | a ramp task per target; bindings, their store and their triggers | start, stop, save, load, unload | restart while a cancelled step is pending; an unload or a reload against a save; presses while triggers are attached | one ramp per target that every stop reaches; nothing outlives the unload; what is listed is what is stored and attached |
| **Room moves** (`manage_device_room.py`) | pending moves in memory and in the entry | leave, join, persist, prune | stale cloud answers, restart, failure between leave and join | the room believed is the room the mesh has |
| **Cloud schedules** (`manage_schedule.py`) | the only list of schedule ids | create, update, remove, clean-up | partial failure, lost answers; concurrent calls | no id is lost; no half-made scene is left; the entry says what the cloud does |
| **Holiday mode** (`holiday_mode.py`, `switch.py:129-167`, `__init__.py`) | deadline per light, stored on disk; the timer; the switch's state, restored | tick, start, stop, unload, refused unload | jobs queued behind the lock; restart between a turn-on and the save; calls that fail | every light it turned on is turned off; no timer behind a switch that is off |
| **Dashboard** (`src/frontend/src/App.tsx`, `lamps.ts`, `room_ws.py`) | overrides, a send queue and a command token per light; an edit draft; lamp types, stored by the server | click, drag, leave; edit, save, read again | calls land out of order; reads overlap saves; fields edited while a save runs | the last value dragged stands; what is drawn is what is stored; a draft that is closed was saved |
| **Area sync** (`area_sync.py`) | area given per device, generation | sync, reset | a reset while a sync waits for the lock | a reset is not undone |
| **Activity and change origin** (`activity.py`, `coordinator.py:345-422`) | recent toggles, a bounded log | attribute, alert | events out of order | the newest candidate wins |
| **Protocol and cipher** (`protocol.py`, `crypto.py`, `const.py`) | none | encode, decode | widths and bounds | decoding inverts encoding |
| **Cloud client** (`cloud.py`) | none | HTTP calls, parsing | malformed answers | raises one of its own errors |
| **Entities, flows, panel, discovery, diagnostics, tools** | presentation | | | |

How they meet: entities, services and WebSocket commands call the coordinator; the coordinator
calls one of the two transports; a transport calls back `_on_event` and `_handle_disconnect`.
Everything that changes the config entry goes through `async_update_entry`, which wakes the update
listener `_async_reload_entry`, and through `async_reload`, which tears the coordinator down and
builds a new one. `EntryReload` and `Connection` are those two meeting points; `Outputs` is what
entities and the link have between them, and `RoomMove` and `CloudSchedules` are services that must
agree with the mesh or the cloud and with the entry at once. Holiday mode and the dim bindings are
objects that a set-up makes and an unload drops, while the store on disk and the tasks that still
refer to them live on: `HolidayMode` and `DimBindings` therefore follow several loads of the entry
side by side. `LightControl` and `LightsEdit` are the browser's end of the WebSocket.

## 2. Modules

| Module | Role |
|---|---|
| `EntryReload` | lock, markers, listener, poll, self-heal and Home Assistant's reload of the entry |
| `EntryReloadProofs` | its inductive invariant and theorems |
| `Connection` | set-up, reconnect loop, shut-down and drops of both transports |
| `ConnectionProofs` | its inductive invariant and theorems |
| `Delivery` | abstract: what `write` promises of acknowledgements |
| `Outputs` | commands over the gateway, their acknowledgements and the state recorded of outputs |
| `OutputsProofs` | its inductive invariant and theorems; sequences, injections; the refinement of `Delivery` |
| `RoomMove` | the service that moves a device to another room |
| `RoomMoveProofs` | the theorems about it; induction over sequences |
| `Hold` | abstract: what hold-to-dim promises of every light |
| `DimRamp` | the ramp tasks, which implement `Hold` |
| `DimBindings` | bindings saved, loaded, attached and torn down over several loads; its inductive invariant |
| `DimmingProofs` | theorems about both: the ramps' inductive invariant and refinement, and the bindings |
| `HolidayMode` | manager, switch, set-up and unload |
| `HolidayModeProofs` | its inductive invariant and theorems |
| `CloudSchedules` | cloud schedules made, changed and removed by overlapping calls |
| `CloudSchedulesProofs` | its inductive invariant and theorems |
| `LightControl` | the dashboard's control of one light |
| `LightsEdit` | the dashboard's edit mode and the server's side of it |
| `DashboardProofs` | inductive invariants and theorems of both |
| `MC...` | one small instance of each module that is run, with symmetry and view where they are sound |

A definition whose comment begins with `Mutant:` is a plausible bug of the definition after it;
nothing uses it. It is kept to show what the properties detect (`PROJECT.json`, `mutants`).

### 2.1 EntryReload

*Processes.* `Managers` are management operations in flight (rooms, scenes, devices, schedules,
dashboard settings, quiet cache writes), `Poll` the daily cloud poll, `Unguarded` reloads that were
requested outside the lock (by the listener, or scheduled by Reconfigure), `Ha` Home Assistant's
retry of a set-up that was not ready. `pc` says at which await each is.

*Data.* A cloud site is a version number per `entry.data` key (`Site`): the code compares and
copies keys, it never looks inside, except for "is a gateway usable" (`HasGateway`). The entry is a
site, the transport preference and a counter that stands for any other option.

| Model | Code |
|---|---|
| `lock` | `async_get_reload_lock` (`schedule_ws.py:92-99`) |
| `expecting` | `_DATA_EXPECTING_SELF_RELOAD`, `async_mark/consume_expected_self_reload` |
| `pending`, `seq`, `token` | `DATA_RELOAD_PENDING`, its sequence number, `async_reload_pending_token` and `async_take_reload_pending_token` |
| `live`, `listening` | the entry the running coordinator was built from; `entry.add_update_listener` |
| `owner`, `phase` | Home Assistant's own reload of the entry: unload, load, set-up, self-heal, listener registered |
| `EndSession` | the `finally` of `async_reload_entry_with_lock` up to its follow-up |
| `Edit` | `async_update_entry` outside the lock plus the listener's part up to its first await |
| `fault` | ghost: the reasons known and accepted for which the coordinator may lag |

*The listener is part of the edit.* Home Assistant (2024.6 or later, `src/hacs.json:3`) starts an
update listener eagerly, and none of the integration's other code runs before it; its part up to
its first await therefore belongs to the action that updates the entry. The same holds of the lock
holder's own update (`SelfUpdate`).

*Four named reasons* for which the running coordinator may lag behind the entry with nobody left to
repair it, each of them what the code does today: `unheard` (an edit between a coordinator's
construction and the registration of its listener), `swallowed` (an edit that the listener takes
for the holder's own), `dropped` (the failed follow-up of a quiet write), `failed` (a reload that
failed and was reported to the user). `HaLoad` clears them, because a new coordinator reads the
entry anew. Every other lag must be explained by a marker or a debt; that is `StaleIsExplained`.

*Left out.* The content of sites, malformed sites and the retention of `resource_set_id`
(`coordinator.py:699-722`) are data; the backfill of missing keys in `_async_poll_faults`
(`coordinator.py:1110`) is one more edit like `OptionsFlow`; so is the schedule services' cache
write when their refresh fails (`manage_schedule.py:105`). A set-up fails by being "not ready",
which Home Assistant retries; the failures after which it does not are in `Connection`. A refused
unload keeps the listener registered. The model has one poll at a time: the interval is a day.

### 2.2 Connection

*Tasks.* `setup` (`async_setup_entry`), `reconnect` (`_async_reconnect`), `shutdown`
(`async_shutdown`); the first two share `_async_select_and_connect`, so `Attempt(t)` has the task as
its parameter. Links are BLE clients and WebSockets; `open` are the ones that are really open,
`client` and `ws` the ones the code refers to. That the two may differ is the point: an attempt
that fails leaves its client open, and bleak calls back for *every* client that drops.

| Model | Code |
|---|---|
| `Select`, `Fallback`, `GatewayFails` | `_async_select_and_connect`: gateway first, then Bluetooth unless forbidden |
| `SocketOpens`, `GatewayUp` | `PlejdGatewayConnection.connect` up to and after the subscription |
| `BleConnects`, `BleAuthenticates`, `BleUp` | `_async_connect_ble`, `PlejdConnection.connect` |
| `Raise` | what becomes of a failed attempt: set-up retry or error, or another turn of the loop |
| `AttemptOver` | the loop's test `while not self._closed and not self.available` |
| `Disconnected` | `_handle_disconnect` of the coordinator |
| `BleDrops`, `SocketDrops`, `ReceiveLoopEnds` | the links and the receive loop's `finally` |
| `Shutdown`, `GatewayClosed`, `BleClosed` | `async_shutdown` between its awaits |

*Assumptions.* What a set-up awaits of a client that has dropped settles within the reconnect
loop's first second of sleep (a guard of `Select`). A new link is one that is not open. The pool of
clients and sockets is larger than the number of failures, so that a link can always be found;
`MaxFailures` bounds drops and failures, not attempts. The delay between attempts is a fairness
matter and its doubling is left out. A coordinator whose set-up failed is followed until the next
set-up begins, not beyond: two coordinators that compete for the mesh are not modelled.

### 2.3 Delivery and Outputs

`Delivery` is the promise of `write`: the echo of a command releases the task that has waited longest
for that command, and no other; a task that has given up takes no acknowledgement from those behind
it; a new socket starts with nobody waiting. It knows who waits (`waiting`) and who published first
(`older`), and nothing of queues. `Outputs` is the code, and `OldestFirst` the refinement: `Waiting`
are the tasks whose future is pending, `Older` the order in which the queue of a command holds them,
`Acks` the frames that are still to be handled, as the acknowledgements they carry.

*Tasks.* `Writes` are commands in flight: a service call on a light or on a room's light, each a
task that publishes, waits for the cloud's echo for at most two seconds, and records the state it
expects. The receive loop is one more task; `HandleFrame` handles one frame, and several in a row
without a woken task running in between, as `_receive_loop` does with frames that are there already.

| Model | Code |
|---|---|
| `state` | `PlejdGatewayConnection._state`, read through `state_for` |
| `ackWaiters` | `_ack_waiters`: a queue per payload; a payload is a command, so equal commands share one |
| `Write`, `TimesOut`, `Cancel`, `Resume` | `write` up to its await, and the ways that await ends |
| `Record` | the rest of `async_set_output` and `async_set_group_output` |
| `AckResolved`, `Without`, `Reconnect` | `_resolve_ack_waiter`, `_discard_ack_waiter`, `_release_ack_waiters` |
| `HandleCommand`, `RecordMembers` | an echo or a push, with `_fan_group_state_to_members` |
| `HandleReport` | the snapshot that `connect` asks for |

*External.* The cloud relays in order and echoes what it relays; a device reports every change of
its output and keeps its level while off; a switch or the app changes an output or a room at any
time. A publish may be lost; a socket may drop, and what was on its way with it.

*Ghosts.* `blind` are the outputs whose last record rests on something the code cannot see: a
publish that was lost, or a change whose frame was handled between a task's wake-up and its turn and
that either ended at the value the task had read before, or concerned a member of a room, which is
recorded unconditionally (`coordinator.py:1327`). `lost` and `overtaken` keep track of these.

*Left out.* Bluetooth, where the write is not acknowledged and the record follows at once; frames
that are not about outputs; the ping loop, which to this model is one more way for a socket to drop.

### 2.4 RoomMove

*One call at a time*, because of the move lock; `call` is where it awaits and what it has decided.
The mesh (`groups`), the cloud's two records of it (`cloudRoom`, `cloudIn`), which follow
independently and in any order, and the app are external.

| Model | Code |
|---|---|
| `pending`, `saved` | the pending moves in `hass.data` and in `entry.data`, with the dict's order |
| `Begin`, `Decided` | `async_move_device_to_room` from the lock to its first command |
| `Prune`, `Persist` | `_async_persist_pending`, the quiet write (its locking is in `EntryReload`) |
| `Leave`, `Join`, `Fails` | the two mesh commands; a command over the gateway may be lost silently |
| `Converged`, `MovedByOthers` | when a pending move is given up |
| `Refresh`, `Kept`, `Patched`, `AllPatched`, `Reload` | `_async_refresh_and_reload` |
| `RoomLights` | `parse_site`: a group with a member that is no light has no room light |

*Ghosts.* `early`, `late` and `misread` are the excuses: the app moved the device before a move of
ours had converged, a command was lost or a restart fell between a join and the note of it; the app
moved it after the pending move had converged but was still kept; a pending move was given up though
it stood.

*Left out.* What other operations write over the shown rooms before the cloud follows, which the
module's docstring accepts; devices without an output address, which are not tracked; devices of
several outputs, unknown devices and rooms without an address, which are rejected before any
command; the removal of a device with a pending move.

### 2.5 Hold and DimRamp

`Hold` is the promise: while a button is held a light is commanded one way only, ever further and
within the dimmer's range; after a release, a press the other way or an unload no command of the old
hold follows. `DimRamp` is the code, and `HoldKept` the refinement: a light's hold is the direction
and the last level of the live task registered for it.

| Model | Code |
|---|---|
| `registered`, `task`, `cancelled` | `PlejdDimRamp._tasks`, the tasks there are, those `cancel()` was called on |
| `Start`, `Stop`, `Shutdown` | `start`, `stop`, `shutdown` (`dim_ramp.py:45-76`) |
| `Begin`, `Written`, `Fails`, `Wake` | `_run` between its awaits (`dim_ramp.py:88-114`) |
| `Unwind`, `Forget` | what the event loop does with a cancelled task, and its done call-back |

Between `cancel()` and the call-back a key has two tasks, of which one is registered: that is the
window `LiveIsRegistered` and the refinement are about. *Left out:* rooms, which have no level of
their own and are given the level to start from; the generic ramp of `bindings.py` on foreign lights
keeps its tasks in the same way.

### 2.6 LightControl

The `useLight` hook (`App.tsx:385-451`). The browser runs one handler after the other, so an action
is a handler with the effects that follow it. Home Assistant works on calls side by side and they
may end in any order (`calls`); what it sends arrives in order
(`arriving`). The module's top names begin with `Light` (`LightInit`, `LightNext`, `LightSpec`), so that
one module can prove about it and about `LightsEdit`.

| Model | Code |
|---|---|
| `onOverride`, `pctOverride`, `Override` | the optimistic values and the two effects that clear them |
| `token`, `Newest` | the counter by which a failure knows whether a newer command has come after it |
| `send` | `sending`, `queued`, `pending`: one brightness under way, one waiting, one held by the timer |
| `Slide`, `TimerSends`, `Leave`, `Return` | a drag, its throttle, the flush on unmount, a hook of its own per visit |
| `Lands`, `Fails`, `Others` | external: the light in Home Assistant |

*Ghosts.* `wanted` is the last value dragged; `disturbed` and `stranded` name the excuses of the two
properties (findings 8 and 9, a failed brightness, a change by others). *Left out:* colour and the look of it.

### 2.7 LightsEdit

Edit mode of the lights (`App.tsx`, `Lights`) with `room_ws.py`'s styles: a draft of lamp types and
names, a Save that sends the types in parallel and then the names one by one, and reads of the types
that may overlap it. The server loads, merges one type and saves under a lock; another dashboard
does the same.

| Model | Code |
|---|---|
| `store`, `lock`, `request`, `reader` | `ws_styles_set` and `ws_styles_get` between their awaits |
| `read`, `stale`, `saving`, `confirmed` | `loadStyles` with its retry timer, `pendingSaves`, the last answer |
| `draft`, `base`, `Save`, `SetAnswered`, `Rename`, `Finish` | `startEdit`, `saveEdit`, `setStyle` |

*Ghosts.* `foreign`: fields somebody else has written last; `unseen`: lamps somebody else has set
since the types were last loaded; `typed` and `kept`: findings 10 and 11.
*Left out.* The layout of the rooms, whose read (`loadLayout`) has no protection against an
overlapping save; a WebSocket that is down. `setStyle`'s own sequence number never decides anything:
only `saveEdit` calls it, once per lamp, and a Save waits for all of them.

### 2.8 HolidayMode

Each load of the entry makes a manager and a switch; the store, the restored state and the lights
outlive them. A manager's jobs wait for its lock in the order they asked (`queue`), and the first
one advances at each await (`phase`, `todo`).

| Model | Code |
|---|---|
| `Start`, `Stop`, `BeginTick`, `TurnOff`, `Pick`, `TurnOn`, `Persist` | `async_start`, `async_stop`, `_async_tick` (`holiday_mode.py`) |
| `Click`, `Shows` | `PlejdHolidaySwitch.async_turn_on` and `async_turn_off` |
| `Unload`, `PlatformsUnloaded`, `PlatformsRefuse` | `async_unload_entry` (`__init__.py:486-509`) |
| `SetUp`, `Crash` | `async_setup_entry`'s part, the switch's restore; Home Assistant stopping or dying |

*Ghosts.* `ours`: lights that holiday mode has turned on and nobody has touched since; `lost`: those
a crash made it forget; `clicked`: loads whose switch was used during their unload (finding 12). No
load follows one that is `clicked`: what the abandoned timer does beside the next manager's is the
finding, not modelled further. *Left out.* A store that cannot be written; the set-up that fails
after it has started holiday mode; the random choice of lights and times, which is `\E`.

### 2.9 CloudSchedules

A cloud schedule is a trigger and one or two hidden scenes; only the entry knows which are ours.
Every request to the cloud may do nothing and raise, or do what it should and raise all the same (a
lost answer); each of the three services has clean-up of its own.

| Model | Code |
|---|---|
| `Ask`, `Refused`, `Begin` | a service call up to the lock and through its checks |
| `Scene`, `NightScene`, `CreateEvent`, `UpdateEvent` | the steps of create and update |
| `MarkRemoved`, `RemoveEvent`, `RemoveScenes` | the steps of remove; `marked`: the records sent with `dirty_remove` |
| `AppRemoves` | the schedule is removed in the app |
| `Cleanup` | removal of `created_scene_ids` after a failure |
| `List`, `Sync`, `Refresh` | the list in the entry, extended or replaced and written |

A removal sends the trigger's whole state with the mark for removal and then removes the trigger; an
update sends it without, so that a mark that was left is gone.

*Ghosts.* `lost`: numbers whose making, removal or clean-up has failed half-way; `unsure`: schedules
the cloud changed in a call that failed, or that the app removed; `halfway`: schedules whose removal
has failed once they were marked (finding 18). *Left out.* Tags, steps and device ids of scenes; what
the cloud and the app make of a marked record in the end (it may stay, or the app may remove it); a
crash between a request and the write of the entry; the waiting for the reload lock, which is
`EntryReload`'s.

### 2.10 DimBindings

`PlejdDimBindings` over several loads of the entry: the load at set-up and the editor's saves are
*jobs* of the manager they found, which take its lock in order; teardown does not take the lock. A
binding is a start and a stop trigger; one on a single Plejd light is dimmed over the service
`plejd.start_dim` and so by whichever coordinator is there, the others by the manager's own ramps.

| Model | Code |
|---|---|
| `Read`, `ReadFails`, `Finish` | `async_load` and the set-up around it (`__init__.py:404-413`) |
| `Save`, `Write`, `WriteFails`, `Swap`, `StopNative`, `Attach` | `ws_save`, `async_replace` (`bindings.py:247-288`) |
| `AttachStart`, `AttachStop`, `Commit`, `Skip`, `Rollback` | `_attach`, one binding after the other |
| `Unload` | `shutdown`, and the coordinator's own ramps before it |
| `Press`, `Release`, `RampEnds` | the remote, whose triggers fire whenever they are attached |

A write that fails is only logged by Home Assistant's store, and the save goes on: the bindings are
attached, listed and answered as saved, and the store keeps what it had. The code says so ("durability
is best-effort", `bindings.py:258-260`), so this is no finding.

*Ghosts.* `loose`: ramps a failure has left without their stop trigger (finding 17); `stale`: the
store was written behind the manager's back, could not be read (findings 15 and 16) or could not be
written, until the next read, or write of a manager that still runs, succeeds. *Left out.* The write
that gives legacy data their ids at load, which changes no binding; presses, which do one thing at
once; one start trigger stands for up and down; a list that is not valid is rejected before anything
happens.

## 3. What is checked

| Run | Configuration | Shows | Instance |
|---|---|---|---|
| `entry_reload` | `MCEntryReload.cfg` | `TypeOK`, `StaleIsExplained`, `ExpectingUnderLock` | 2 operations, poll, 1 unguarded reload; 1 change per cloud key, 2 edits, 1 failure; 1.8 million states |
| `entry_reload_live` | `MCEntryReloadLive.cfg` | `Converges`, `SessionsEnd` | 1 operation, poll, 1 unguarded reload; preferences auto and gateway; 1 change, 1 edit, 1 failure; 114 thousand states |
| `connection` | `MCConnection.cfg` | `TypeOK`, `DropNotLost`, `ShutdownIsFinal`, `LoopIsHeld`, `ClosedOpensNothing`, `Recovers` | 3 clients, 4 sockets, 3 failures; 30 thousand states |
| `available_without_mesh` | `MCConnectionAvailableCanWrite.cfg` | counterexample to `AvailableCanWrite` | as above |
| `outputs` | `MCOutputs.cfg` | `TypeOK`, `WaitersWait`, `StateIsReal` | 2 lights in a room, 1 level, 2 commands, 1 trouble |
| `room_move` | `MCRoomMove.cfg` | `TypeOK`, `NeverInTwoRooms`, `RestartForgetsNothing`, `MovesAreShown` | 2 devices, lights or not, 3 rooms, 3 calls, 1 trouble; 1.7 million states |
| `dim_ramp` | `MCDimRamp.cfg` | `RampTypeOK`, `LiveIsRegistered`, `HoldKept`, `EveryRampEnds` | 2 lights, 2 tasks, steps of 2 in 1..4 |
| `dim_bindings` | `MCDimBindings.cfg` | `TypeOK`, `QuietAfterTeardown`, `SavedIsLive`, `CanBeStopped` | 3 bindings (Plejd light, other light, legacy without a stop), 2 loads, 3 saves, 1 trouble; 2.5 million states |
| `holiday_mode` | `MCHolidayMode.cfg` | `TypeOK`, `NoHiddenTimer`, `OursAreTracked`, `LightsGoOut` | 2 lights, 2 loads, 2 troubles, 3 clicks |
| `cloud_schedules` | `MCCloudSchedules.cfg` | `TypeOK`, `NothingOrphaned`, `EntryTellsCloud` | 2 calls at a time of 3, 2 titles, 2 triggers, 4 scenes, 2 troubles |
| `light_control` | `MCLightControl.cfg` | `LightTypeOK`, `DragLands`, `OverridesSettle` | 2 positions, 2 visits, 4 acts, 1 trouble; 5.3 million states |
| `lights_edit` | `MCLightsEdit.cfg` | `TypeOK`, `StylesSettle`, `NoTypeUndone`, `DraftIsSaved` | 2 lamps, 1 name, 2 values, 3 edits, 1 more read, 2 troubles; 3.5 million states |

Every action, and every disjunct of one, fires in the passing runs. Deadlock is checked in
`EntryReload` and `Connection`; the other systems do stop: once every command, call, act or load
that the bounds allow has been made and every trouble is spent, nothing need happen.

**Bounds.** In `entry_reload`, two operations are what the lock needs to be contended by equals,
with the poll as a third party that rolls back; the markers need one more edit than there are
sessions to confuse (`MaxEdits = 2`); one refused unload or failed set-up separates every follow-up
from its failure. The `View` leaves out locals of processes that do not use them (each sets its
locals before it reads them), and operations and unguarded reloads are interchangeable
(`SYMMETRY`); the liveness run uses neither. In the liveness run there is no `settings` operation:
a user who toggles a preference for ever never lets the system settle, and nothing forbids that.
In `connection`, three failures allow a leaked client, a drop during the attempt that follows and
one more failure; three clients and four sockets are then more than can be open at once.
In `outputs`, two commands make two waiters in one queue, a room and a member, or an on and an off;
one level is enough, because off carries level 0 and a light that is off remembers its level; the
trouble is a foreign command, a lost publish or a drop (two of them, and two levels with one, were
run and hold as well, but take five minutes). In `room_move`, three rooms make a chain of two moves
whose ends differ; two devices are what the patches of one move need to disturb another's; three
calls are a chain and one more. In `dim_ramp`, two tasks are a restart before the old task has
ended; steps of 2 in 1..4 overshoot both bounds. In
`dim_bindings`, one binding of each kind, two loads and three saves make a save that outlives its
manager overlap one of the next manager. In `holiday_mode`, two troubles are a failed call and the
crash, or the refused unload, that follows; three clicks an on, an off and one more during the
unload. In `cloud_schedules`, four scenes are two schedules with night reduction, and three calls
change or remove what the first has made while another creates; two troubles are a step and its
clean-up failing. In `light_control`, four acts in two visits are a drag left behind and one that
overtakes it, with a switch in between. In `lights_edit`, three edits are both lamps and a name, or
a field typed, saved and put back; two troubles a failure and another dashboard. All of these bounds
(`MaxMoves`, `MaxTroubles`, `MaxLoads`, `MaxSaves`, `MaxClicks`, `MaxCalls`, `MaxScenes`,
`MaxVisits`, `MaxActs`, `MaxEdits`, `MaxReads`) are conjuncts of guards; the theorems of section 4
hold for every value of them.

**Fairness.** Home Assistant's event loop resumes every task whose await is over: weak fairness of
every continuing step. asyncio locks are granted first come, first served, so a process that waits
for the reload lock gets it although others take it in between: strong fairness of the steps of
operations and the poll. The cloud answers the poll infinitely often (`SF_vars(PollArrive)`; a poll
that fails, `PollGivesUp`, is never forced and never counted on). Nothing is assumed of users, of
the Plejd app, of links or of failures: they may stop at any time, and each is bounded by a
constant, so "once changes and failures stop" is every behaviour's future. In `Connection` the
receive loop is only relied on when its socket has closed, and Home Assistant's retry only in the
state it retries. `DimRamp` assumes that the event loop gets round to every task, that a write
returns or raises (it has a time-out) and that timers fire; nothing of presses and releases.
`HolidayMode` assumes the same of a manager's jobs and of its timer, and that deadlines pass;
nothing of the switch, of unloads and of set-ups, so `LightsGoOut` speaks of a timer that runs. The
other modules state no fairness and no liveness.

### Properties

* `StaleIsExplained` - while the running coordinator lags behind the entry, the change is marked
  pending, somebody still owes a reload (or a rollback, or a report), or one of the four named
  reasons stands.
* `ExpectingUnderLock` - the marker that makes the listener ignore an update never outlives the
  lock session that set it.
* `Converges` - once changes and failures stop, the entry agrees with the cloud, with a transport
  preference that its site allows, and the coordinator runs on it, whatever an old snapshot, a
  self-heal or a rollback left behind.
* `SessionsEnd` - every operation comes to an end; the follow-up, which takes the lock that the
  session has just released, does not deadlock with it.
* `DropNotLost` - a loaded entry without a link is always being seen to.
* `LoopIsHeld` - the reconnect flag, the running loop and the task that a shut-down would cancel
  are always the same thing.
* `ShutdownIsFinal`, `ClosedOpensNothing` - a shut-down ends every task and leaves no link
  referred to; from its first await on, no link is opened.
* `Recovers` - a loaded entry without a link gets one, asks for credentials or is unloaded.
* `WaitersWait` - whoever waits for an acknowledgement is in its queue, once, and a queue holds
  nobody else, whichever of echo, time-out, cancellation and drop comes first.
* `StateIsReal` - when everything sent has arrived, what is shown of an output is what it is, unless
  the last record was made blindly.
* `NeverInTwoRooms` - a device is never in two rooms' groups, however the cloud lags, moves are
  chained, fail and are retried, but for the named excuses. That it is in one of them is not said: a
  join that fails after its leave raises and leaves it in none until the call is repeated.
* `RestartForgetsNothing` - between calls, the entry holds the pending moves that memory holds.
* `MovesAreShown` - a move writes the room each device is in, and no room light lists a light in
  another room. Where devices other than lights share rooms this is only said of a light with a
  pending move: such a device's group has no room light, so the cloud may still list a light there
  unseen, and the move counts as converged too early.
* `LiveIsRegistered`, `HoldKept` - a running ramp is the one that a stop, a restart or an unload
  reaches; the ramps implement `Hold`, in every interleaving of cancelled tasks and their call-backs.
* `EveryRampEnds` - a ramp whose release was missed ends at its bound.
* `QuietAfterTeardown` - past the teardown no ramp of a manager runs, and no trigger is left once the
  saves that raced it are over.
* `SavedIsLive` - between saves, what is listed is what is attached, each trigger once and none
  without its stop, and what is stored, unless the store failed or an old manager wrote behind it.
* `CanBeStopped` - a ramp that runs has a stop trigger, or somebody about to stop it or attach one.
* `NoHiddenTimer` - no timer runs behind a switch that is off or gone.
* `OursAreTracked` - a light that holiday mode turned on is in its memory or its store, unless a crash
  lost it before the tick's end saved it (`holiday_mode.py:241`), which no property can promise.
* `LightsGoOut` - while it runs, such a light goes out again, whatever call fails.
* `NothingOrphaned` - between calls, every trigger and scene of ours in the cloud belongs to a
  schedule the entry knows.
* `EntryTellsCloud` - between calls, the entry says of a schedule what the cloud does, after updates
  that failed in the middle as well, and none it keeps is marked for removal, unless its removal
  failed between the mark and the removal.
* `DragLands` - the light ends where the slider was left, in whatever order calls land.
* `OverridesSettle` - once all is quiet, what is shown is the light.
* `StylesSettle` - once all is quiet, the lamps are drawn as what is stored, but for those that
  somebody else has set since the types were last loaded.
* `NoTypeUndone` - no request undoes another lamp's type.
* `DraftIsSaved` - a Save that closes the draft has saved it.

Many of these hold but for excuses, which the property names and a ghost variable records: a crash
that lost what only memory knew, a cloud that did what it answered it had not, a change by somebody
else. Where an excuse is a flaw of the code, it is one of the findings below.

### Findings

Only the fourth has a run of its own (`available_without_mesh`); the others were met while modelling,
and where one of the properties is concerned, it excuses exactly the case where they bite.

1. **A failed follow-up after a quiet write is forgotten** (`manage_device_room.py:137`,
   `manage_schedule.py:156`). The other three places that do this put the marker back. Excuse:
   `dropped`.
2. **An operation's site can be older than the entry's** (`manage_device.py:63` and its siblings):
   the payload is a closure over a site fetched before the lock was asked for. The poll repairs it
   within a day (`Converges`).
3. **A Bluetooth read that fails after the connect ends the set-up for good**
   (`coordinator.py:1051`), although the connect itself is written to make Home Assistant retry.
4. **The late drop of a superseded client takes the current client's mesh** (`connection.py:61`):
   outputs are shown available and every write raises, until the link drops.
5. **Nothing reconciles the state after a lost publish** (`gateway_transport.py:130`): the comment
   counts on a periodic snapshot, but the snapshot is only requested on connect (line 116). Excuse:
   `blind`.
6. **A pending move that stands can be taken for undone** (`manage_device_room.py:433`). The comment
   says only somebody else's move can make the cloud show a room that is neither the move's target
   nor its origin. The cloud as it was between our own leave and join does, and so does a chain r1
   to r2 to r3 when the cloud's room followed to r2 before the second move, which inherits r1 as its
   origin. The next move then leaves the wrong room. Excuse: `misread`.
7. **The window for a move by the app is not narrow** (`manage_device_room.py:17-27`): a pending move
   is only given up by a later move call, so one that converged days ago still hides an app move back
   to where it began. Excuse: `late`.
8. **A brightness that fails after a newer switch rolls nothing back** (`App.tsx:430`): switching and
   dimming share the token. Excuse: `stranded`.
9. **Two brightness sends can be in flight** (`App.tsx:399`), one of each visit of the tab; the older
   may land last. Excuse: `Overlap`.
10. **What is typed while a Save runs is dropped with the draft** (`App.tsx:247`). Excuse: `typed`.
11. **A field saved by a Save that partly failed cannot be put back** (`App.tsx:223`): it equals the
    snapshot of the start and is not sent. Excuse: `kept`.
12. **A switch used while its entry unloads leaves a hidden timer** (`__init__.py:497`). Excuse:
    `clicked`.
13. **A stop of a manager that never started wipes the store** (`holiday_mode.py:123`), after a crash
    that lost the switch's unsaved on state. Excuse: `lost`.
14. **A lost answer of createTimeEvent leaves a live trigger whose scenes the clean-up removes**
    (`manage_schedule.py:360`); excuse: `lost`. And a refresh that cannot fetch the site makes a
    create or remove look failed (`manage_schedule.py:106`), which the code avoids for the reload.
15. **A binding store that cannot be read is published as an empty list** (`__init__.py:410`), which
    the editor's next save writes over it. Excuse: `stale`.
16. **A save that waits while the entry reloads writes the store behind the new manager**
    (`bindings.py:262`). Excuse: `stale`.
17. **A ramp started while its binding is being attached is not stopped by the roll-back**
    (`bindings.py:322`). Excuse: `loose`.
18. **A removal that fails at its second request leaves the record marked**
    (`manage_schedule.py:658`): the entry keeps the schedule, the dashboard's list skips it as one
    being removed (`cloud.py:783`), and only another removal or a change of its trigger settles it.
    Excuse: `halfway`.

Observations without a finding.

* Two lone lights that swap rooms lose their room lights until the cloud follows, because each patch
  empties a room before the next one fills it (`manage_device_room.py:208-241`).
* Of two equal writes of which one publish was lost, the echo releases the older and the other waits
  for its time-out. A change by others that ends at the value read before the write, or that concerns
  a room's member, is recorded over (`coordinator.py:1282`, `1327`).
* A light switched off in the dashboard while a brightness is under way or queued comes on again. An
  override is cleared when it equals the pushed state, however old, so a third rapid click may repeat
  the second.
* A holiday switch whose lights could not all be turned off stays on with no timer, as its error
  says, and is restored on by a restart. A deadline turns off a light that the user has meanwhile
  switched off and on.
* After a removal whose answer is lost, or one in the app, the entry's record of a cloud schedule can
  never be removed: the removal raises on the trigger that is gone.
* A save of bindings is answered as done though its entry is being unloaded, and the old manager's
  `plejd.stop_dim` stops the new coordinator's ramp.

## 4. What is proved

`EntryReloadProofs` proves, for every set of operations, every site, every preference and every
bound (`EntryReloadAssumption` and `NoneIsNoEntry` are the only assumptions, and they only say that
the names of processes and the sentinel are distinct and that bounds are numbers):

* `TypeCorrect`: `Spec => []TypeOK`
* `Invariance`: `Spec => []IInv`
* `MarkerIsLocal`: `Spec => []ExpectingUnderLock`
* `NoChangeLost`: `Spec => []StaleIsExplained`

`StaleIsExplained` is not inductive: that a finished reload covers a change depends on *which*
change was marked. `IInv` adds who holds the lock (`LockInv`: exactly the process inside a session,
so that a session's end clears its own marker and no one else's), how Home Assistant's reload and
the process it is done for go together (`ReloadInv`), that an unguarded reload knows no marker newer
than there is (`TokenInv`), and the heart of it, `ClaimInv`: once an unguarded reload has read the
entry, the marker it may claim no longer explains a lag, because a later change carries a newer
number or has another reason. The proof has one lemma per group of actions, and in it one step per
conjunct that the action can disturb; the temporal steps are at the end.

`ConnectionProofs` proves, for any number of clients, sockets and failures (`ConnectionAssumption`:
distinct names, a bound that is a number), `TypeCorrect`, `DropsAreSeen` (`DropNotLost`), `LoopHeld`
(`LoopIsHeld`), `ShutdownFinal` (`ShutdownIsFinal`) and `NothingOpens` (`ClosedOpensNothing`). None
of them is inductive alone: what a step may find depends on which tasks run together. `IInv` says
what each task may await (`TaskInv`), that flag, loop and cancellable task agree (`LoopInv`), what a
shut-down has ended (`ClosedInv`), that a set-up still connecting is alone but for a sleeping loop
whose client dropped (`SetupInv`), that a gateway in use has a receive loop on its socket
(`GatewayInv`), and that a drop is followed by somebody (`DropFollowed`).

`RoomMoveProofs` proves, for any devices, rooms, troubles and bounds (`RoomMoveAssumption`: the
sentinel is no room and no move), `OneRoom` (`NeverInTwoRooms`) and `NothingForgotten`
(`RestartForgetsNothing`). The heart of `IInv` is `WhereInv`: whoever would be asked next for the
room of a device, the pending move, the saved one after a restart, the cloud if there is neither, or
the call that has decided already, names the only group the device can be in. `CacheInv` says where
memory and entry may differ: only inside the steps that bring them together, and there only for the
device of the call or by moves that are over. `misread` is a ghost of exactly the case in which
giving up a pending move breaks `WhereInv`.

On top of it, `RoomMoveProofs` proves `TypeCorrect` and `Shown` (`MovesAreShown`). What a move puts
into the entry comes from a fold over the pending moves in the order of their dict, and the dict is
pruned along that order. Both are recursive functions of a position, and what they compute is proved
by induction. The library's induction theorems take operators, which the provers cannot instantiate;
`Induction` here takes a set, and follows from `LeastNumber`: intervals are well-founded as finite
sets ordered by inclusion (`FS_StrictSubsetOrderingWellFounded`, `WFMin`). `Recursion` then gives the
function that a recursive definition chooses. `KeptIs` says what pruning leaves, `AllPatchedShows`
that a later patch undoes none of what an earlier one is for: `PatchAdds` is why, each patch adds its
own device only and fills no empty room. For lights without a pending move `CloudInv` is needed as
well: the cloud lists none in another room than it is in, where every device is a light.

`DimmingProofs` proves of the ramps, for any lights, tasks, step and range (`DimRampAssumption`,
`NilIsNoRamp`: sentinels are distinct, the range is not empty), `RampTypeCorrect`, `RampsReachable`
(`LiveIsRegistered`) and `Implements` (`HoldKept`, the refinement of `Hold`). `RampIInv` adds to them
that a ramp's level is within the range (`LevelInv`), that a task that will command again has not
reached its bound (`PaceInv`), and that nothing is registered once unloaded (`UnloadedInv`). A step of the code that touches one key is
one step of `Hold` on that key (`OneKey`), a task that runs on without a command is none (`RunsOn`),
and the end of a task that was cancelled or replaced is not seen (`UnseenEnd`).

Of the bindings it proves, for any bindings, loads, saves and troubles (`DimBindingsAssumption`: the
kinds are subsets of the bindings, the bounds numbers), `TypeCorrect`, `Quiet`
(`QuietAfterTeardown`), `Saved` (`SavedIsLive`) and `Stops` (`CanBeStopped`). The heart of `IInv` is
`LiveInv`: a trigger that is attached belongs to the last job of its manager that got past the lock,
is either the manager's or about to be, and one of a manager that was shut down belongs to a job
that will still detach it. It rests on `LockInv` (one job of a manager is past the lock, so a step of
one finds the others idle) and on `JobInv` (a load is a manager's first job). `SyncInv` says of the
latest manager that its list is the store, or that the job which will make it so is under way; two
successive managers may both be writing, and a read or write of the store may fail, which is what
`stale` marks.

`HolidayModeProofs` proves, for any lights and bounds (`HolidayAssumption`: the bounds are numbers),
`TypeCorrect`, `NoTimerHidden` (`NoHiddenTimer`) and `NothingForgotten` (`OursAreTracked`). A timer
that runs is not the only one to watch: `SwitchInv` says the switch is on wherever a timer runs or a
queued job or a refused unload will start one. That needs to know what can stand in the queue behind
what (`QueueInv`: a restored start before every other job, the start after a refused unload before an
off of the switch or the next unload), that a manager replaced by a later load has only ticks left
(`OldInv`), and how far the job at the head can be (`PhaseInv`). `TrackInv` finds each light of ours
in the memory of the latest manager, or in the store which that manager or the next will read first.
The queue needs only `Head`, `Tail`, `Append` and positions.

`CloudSchedulesProofs` proves, for any calls, titles, triggers and bounds
(`CloudSchedulesAssumption`: the sentinel is none of the names and records, the bounds are numbers),
`TypeCorrect`, `NoOrphans` (`NothingOrphaned`) and `EntryTruthful` (`EntryTellsCloud`). `CallInv` is
the heart: for each place of the call that holds the lock it says which scenes and trigger of the
cloud are the call's own, not yet in the entry, and everything else the entry has (`EventInv`,
`SceneInv`). `TellInv` says what the entry and the cloud agree on meanwhile, `UniqueInv` and
`NextInv` that numbers are given once, which is what makes "the scene of that number" mean one. All
this is `CoreInv`, which does not look at the marks; `MarkInv` adds that a mark stands only while its
removal is between its two steps, or where a removal has failed there or an answer was lost.

`OutputsProofs` proves, for any outputs, any finite room of them, any levels, tasks and bound on
troubles (`OutputsAssumption`, and `NoneIsNoState`: the sentinel is no state), `TypeCorrect`,
`NobodyStranded` (`WaitersWait`), `ShownIsReal` (`StateIsReal`) and `EchoForEveryWaiter`. The room is
finite because every device in it reports after a command to it. That what is shown is real is a
statement about what is still in flight: `TruthInv` says that it is right of an output, or a command
or a request that will make the output tell of itself is on its way up, or a frame that tells is on
its way down, and `LastInv` that the last such frame is right. The hard step is `Resume`, a task that
records what it expects. `WokenInv` is what makes it harmless: a woken task that nothing has
overtaken still has its command, or a frame about each of its outputs, before it. A task that is
resolved by an echo has that because a frame about each output follows every echo (`FollowInv`); one
that timed out has it because its own acknowledgement is still on its way (`EchoInv`), which with
equal commands sharing one queue needs more than a count: an injection from the tasks that wait into
the places of the queues, carried over each step by the `Fits` lemmas. What `RawEcho` in `Record`
contributes is that an off command's echo never equals what an output is, since a device keeps its
level (`RealInv`). `IInv` is checked by TLC with the constants of `MCOutputs` and two troubles.

`ImplementsDelivery` is the refinement of `Delivery` (`OldestFirst`). A step maps to a publish
(`WritePublishes`), a task that gives up (`GivesUp`), a frame that is heard (`HandleHears`), a step of
the socket (`SocketDelivers`), an arrival (`RelayDelivers`), or to no step. What needs an argument is
the order. A queue still holds the futures of tasks that have timed out and not run yet, and loses
them from its middle when they run or from its front when an echo passes over them: `OrderKept` says
that what is left of a queue, embedded in it by a monotone map, is in the order it was in, and
`RemoveFirstIndices` and `SuffixIndices` provide that map. That the first pending future is the oldest
rests on a task being in its queue once (`WaitersWait`), and that a connection starts with nobody
waiting on `LinkInv`. TLC agrees on the constants of `MCOutputs` without its symmetry, 1.5 million
states, and finds `OldestFirst` violated when an echo resolves the newest future, when it resolves the
front of the queue whether or not that has timed out, and when a task is put at the front. It takes
some minutes more than the run `outputs` and is not part of it.

`DashboardProofs` proves of `LightsEdit`, for any lamps, names, values and bounds (`LightsEditAssumption`: the
sentinels and the names of lamps, fields and values are distinct, and there are finitely many names,
or a Save never ends), `TypeCorrect`, `ShownAsStored` (`StylesSettle`), `NoneUndone`
(`NoTypeUndone`) and `DraftSaved` (`DraftIsSaved`). The request that holds the lock has loaded what
is stored (`LockInv`), so what it saves undoes nothing. A lamp is being saved if and only if its one
request or its one answer is under way (`SetInv`), a read that no save overlapped knows what is
stored (`FreshInv`, `ReadInv`), and so the dashboard, once it has seen the last answer, takes for
confirmed what is stored (`ViewInv`, `ShownInv`). Of a draft, the fields that were not sent are as
they were when it began (`SameInv`), and those sent and not failed are saved (`DoneInv`).
`BusyInv` ties the flags of a Save to what is under way. `StylesSettle` excuses a lamp set elsewhere
only until a read has seen it (`unseen`), not for as long as somebody else wrote it last (`foreign`).

Of `LightControl` it proves, for any slider positions and bounds (`LightControlAssumption`: the
sentinel is neither a position nor a Boolean, what a dark light counts as is a position, there is a
first visit of the tab), `LightTypeCorrect`, `LastDragLands` (`DragLands`) and `OverridesGo`
(`OverridesSettle`). Types already need an argument: a command's number is bounded by twice the acts
of the user, because a value may be counted when the timer sends it and again when the queue does, and
`CountInv` says how many such values are outstanding. `SenderInv` is what the guards of `sendPct` add
up to: a visit has one call or one answer of a brightness under way if and only if it says so. So the
value dragged to last has one place, and it is held, then queued, then under way with nothing else
beside it, then the light's (`CarryInv`); the excuse `disturbed` covers the other visit, whose older
brightness may land after. That overrides go is a statement about evidence: `OnInv` and `PctInv` find,
for each override, a value still to be sent, a call under way, a push that fits it or a failure that
takes it back. A call that lands changes the light, which is pushed, or changes nothing, and then
`PushInv` (the last push is the light) and `OverrideInv` (an override differs from what was pushed)
leave a fitting push on its way. The two need different evidence: a failed switch counts for the switch
only if its token is the newest one, while a failed brightness that no longer has the newest token is
just what `stranded` excuses (finding 8). `LightIInv` is checked by TLC with the constants of
`MCLightControl`.

Only model-checked: liveness under fairness, which is beyond the prover (`Converges`, `SessionsEnd`,
`Recovers`, `EveryRampEnds`, `LightsGoOut`), and the counterexample. Every safety property of a
passing run is a theorem.

## 5. Plan

Done, in this order: `EntryReload`, `Connection` with their proofs, `Outputs`, `RoomMove` with its
proofs, `Hold`, `DimRamp` with the refinement proved, `LightControl`, `LightsEdit`, `HolidayMode`,
`CloudSchedules`, `DimBindings` with its proofs, and the proofs of `HolidayMode`, `CloudSchedules`,
`LightsEdit`, `Outputs` and `LightControl`, and `Delivery` with the refinement proved. To come:

1. An abstract `Link` that `Connection` implements, proved step by step as `Hold` is; two
   coordinators at once: the one a set-up that is not ready leaves behind (`__init__.py:360`) and its
   successor, competing for the mesh.
2. `AreaSync`: the lock, the generation that a reset bumps and areas picked by hand
   (`area_sync.py:86`).
3. The mirror of entity names (`coordinator.py:994`) and the rule of the newest candidate in
   `toggle_origin`.

## 6. Not modelled, and why

* `protocol.py`, `crypto.py`, `cloud.py`, `gateway.py`: conversions and HTTP, without state. Other
  models take their results as inputs.
* Entities, config-flow forms, diagnostics, panel, discovery and `src/tools`: presentation and I/O.
  Of the dashboard, what is drawn, its layout and its other pages.
* `www/panel.js` is the bundle generated from `src/frontend`: nothing is translated from it, and it
  is by far the longest JavaScript file of the repository. The models of the dashboard are of its
  source; most of the models are of the integration, which is Python.
* Home Assistant, bleak and aiohttp: external. The actions that stand for them (`HaBegin`,
  `HaRetry`, `Finish`, `AppChange`, `CloudChange`, the links' drops) model how the
  integration uses them.
* Time: delays, intervals and time-outs are nondeterministic choices under fairness.
