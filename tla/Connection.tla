----------------------------- MODULE Connection -----------------------------
(***************************************************************************)
(* The coordinator's link to the mesh (coordinator.py with connection.py   *)
(* and gateway_transport.py): a set-up connects over the gateway's         *)
(* WebSocket or over Bluetooth, a drop starts a reconnect loop, an unload  *)
(* shuts everything down.  All of it runs on one event loop: an action is  *)
(* the code between two awaits, and the set-up, the reconnect loop and the *)
(* shut-down are tasks that interleave at their awaits.                    *)
(*                                                                         *)
(* One coordinator is followed at a time.  A set-up that fails abandons    *)
(* its coordinator without shutting it down; what that one goes on to do   *)
(* until the next set-up is part of the model, what it does after is not.  *)
(***************************************************************************)
EXTENDS Naturals, FiniteSets

CONSTANTS
    Clients,      \* Bluetooth clients
    Sockets,      \* WebSockets
    None,
    Preferences,  \* the transport preferences that are used
    MaxFailures   \* bound: links dropped, attempts and set-ups failed

ASSUME ConnectionAssumption ==
    /\ Preferences \subseteq {"auto", "gateway", "ble"} /\ Preferences # {}
    /\ MaxFailures \in Nat
    /\ None \notin Clients \cup Sockets
    /\ Clients \cap Sockets = {}

VARIABLES
    state,         \* the config entry
    pref,          \* _transport_pref
    hasGateway,    \* _gateway is not None
    closed,        \* _closed
    active,        \* _active
    up,            \* _available
    reconnecting,  \* _reconnecting
    handle,        \* _reconnect_task: none, the running loop, or a finished one
    client,        \* PlejdConnection._client, open or not
    mesh,          \* PlejdConnection.mesh is not None
    ws,            \* PlejdGatewayConnection._ws, open or not
    closing,       \* PlejdGatewayConnection._closing
    recv,          \* the WebSocket the receive loop reads, None without a loop
    open,          \* the links that are open
    pc,            \* where each task awaits
    reauth,        \* a reauthentication was started
    failures

bleVars == <<client, mesh>>
wsVars == <<ws, closing, recv>>
loopVars == <<reconnecting, handle>>
config == <<pref, hasGateway>>
vars == <<state, pref, hasGateway, closed, active, up, reconnecting, handle, client, mesh,
          ws, closing, recv, open, pc, reauth, failures>>

Tasks == {"setup", "reconnect", "shutdown"}
Attempting == {"token", "subscribe", "bleConnect", "bleAuth", "bleRead"}
Connecting == Attempting \cup {"poll"}
PCs == {"idle", "sleep", "select", "platforms", "gateway", "ble"} \cup Connecting
States == {"unloaded", "setup", "loaded", "unloading", "aborting", "retry", "error"}

TypeOK ==
    /\ state \in States
    /\ pref \in Preferences /\ hasGateway \in BOOLEAN
    /\ closed \in BOOLEAN /\ up \in BOOLEAN /\ reconnecting \in BOOLEAN
    /\ active \in {"gateway", "ble", None}
    /\ handle \in {"none", "loop", "finished"}
    /\ client \in Clients \cup {None} /\ mesh \in BOOLEAN
    /\ ws \in Sockets \cup {None} /\ closing \in BOOLEAN
    /\ recv \in Sockets \cup {None}
    /\ open \subseteq Clients \cup Sockets
    /\ pc \in [Tasks -> PCs]
    /\ reauth \in BOOLEAN
    /\ failures \in Nat

Init ==
    /\ state = "unloaded"
    /\ pref \in Preferences /\ hasGateway \in BOOLEAN
    /\ closed = TRUE /\ active = None /\ up = FALSE
    /\ reconnecting = FALSE /\ handle = "none"
    /\ client = None /\ mesh = FALSE
    /\ ws = None /\ closing = FALSE /\ recv = None
    /\ open = {}
    /\ pc = [t \in Tasks |-> "idle"]
    /\ reauth = FALSE
    /\ failures = 0

-----------------------------------------------------------------------------
(* Pieces several tasks share. *)

Connected == CASE active = "gateway" -> ws \in open
               [] active = "ble" -> client \in open
               [] OTHER -> FALSE

\* The property of that name: what the entities show.
Available == up /\ Connected

Fresh(links) == links \ open

Fail == failures < MaxFailures /\ failures' = failures + 1

\* An attempt over a link that has dropped fails anyway.
FailUnless(dropped) == IF dropped THEN UNCHANGED failures ELSE Fail

Goto(t, place) == pc' = [pc EXCEPT ![t] = place]

\* Mutant: a drop during a reconnect attempt spawns a loop of its own, which ends at once.
DisconnectedSpawnsAlways ==
    /\ up' = FALSE
    /\ IF closed
       THEN UNCHANGED <<loopVars, pc>>
       ELSE /\ handle' = IF reconnecting THEN "finished" ELSE "loop"
            /\ reconnecting' = TRUE
            /\ pc' = IF reconnecting THEN pc ELSE [pc EXCEPT !["reconnect"] = "sleep"]

\* Mutant: a drop is noted, the reconnect is left to somebody else.
DisconnectedOnlyMarks ==
    /\ up' = FALSE
    /\ UNCHANGED <<loopVars, pc>>

\* The coordinator's _handle_disconnect.  The loop it spawns runs up to its first sleep.
Disconnected ==
    /\ up' = FALSE
    /\ IF closed \/ reconnecting
       THEN UNCHANGED <<loopVars, pc>>
       ELSE /\ reconnecting' = TRUE
            /\ handle' = "loop"
            /\ Goto("reconnect", "sleep")

\* Mutant: the loop ends after an attempt that raised nothing, whatever came of the link.
AttemptOverReturns ==
    /\ reconnecting' = FALSE
    /\ Goto("reconnect", "idle")

\* The loop's test after an attempt: sleep again, or end.
AttemptOver ==
    /\ reconnecting' = (~closed /\ ~Available)
    /\ Goto("reconnect", IF closed \/ Available THEN "idle" ELSE "sleep")

\* An attempt of task t failed: ConfigEntryNotReady, or another exception.
Raise(t, outcome) ==
    \/ /\ t = "setup"
       /\ state' = outcome
       /\ Goto(t, "idle")
       /\ UNCHANGED reconnecting
    \/ /\ t = "reconnect"
       /\ AttemptOver
       /\ UNCHANGED state

\* No gateway, or none that answers: Bluetooth unless the preference forbids it.
Fallback(t) ==
    IF pref = "gateway"
    THEN Raise(t, "retry")
    ELSE /\ Goto(t, "bleConnect")
         /\ UNCHANGED <<state, reconnecting>>

-----------------------------------------------------------------------------
(* Set-up: a new coordinator, which connects. *)

Setup ==
    /\ state \in {"unloaded", "retry", "error"}
    /\ state' = "setup"
    /\ pref' \in Preferences /\ hasGateway' \in BOOLEAN
    /\ closed' = FALSE /\ active' = None /\ up' = FALSE
    /\ reconnecting' = FALSE /\ handle' = "none"
    /\ client' = None /\ mesh' = FALSE
    /\ ws' = None /\ closing' = FALSE /\ recv' = None
    /\ open' = {}
    /\ pc' = [t \in Tasks |-> IF t = "setup" THEN "select" ELSE "idle"]
    /\ reauth' = FALSE
    /\ UNCHANGED failures

\* Platforms are forwarded and the entry is loaded; one that fails shuts down again.
Loaded ==
    /\ pc["setup"] = "platforms"
    /\ state' = "loaded"
    /\ Goto("setup", "idle")
    /\ UNCHANGED <<config, closed, active, up, loopVars, bleVars, wsVars, open, reauth, failures>>

-----------------------------------------------------------------------------
(* One connection attempt, _async_select_and_connect, of the set-up or of the loop. *)

\* The reconnect loop wakes up, or set-up comes to connecting.  gateway.connect() cancels
\* a receive loop that still runs, which takes that for a drop.  What a set-up awaits of a
\* client that drops settles before the loop, which sleeps a second first, connects anew.
Select(t) ==
    /\ pc[t] = (IF t = "setup" THEN "select" ELSE "sleep")
    /\ t = "reconnect" => pc["setup"] \notin {"bleAuth", "bleRead"}
    /\ IF t = "reconnect" /\ closed
       THEN /\ reconnecting' = FALSE /\ Goto(t, "idle")
            /\ UNCHANGED <<state, up, recv>>
       ELSE IF pref = "ble" \/ ~hasGateway
       THEN Fallback(t) /\ UNCHANGED <<up, recv>>
       ELSE /\ recv' = None
            /\ up' = (up /\ recv = None)
            /\ Goto(t, "token")
            /\ UNCHANGED <<state, reconnecting>>
    /\ UNCHANGED <<config, closed, active, handle, bleVars, ws, closing, open, reauth, failures>>

\* The cloud rejects the credentials: ask for new ones, stop the loop or the set-up.
AuthFails(t) ==
    /\ pc[t] = "token"
    /\ Fail
    /\ reauth' = TRUE
    /\ state' = IF t = "setup" THEN "error" ELSE state
    /\ reconnecting' = IF t = "setup" THEN reconnecting ELSE FALSE
    /\ Goto(t, "idle")
    /\ UNCHANGED <<config, closed, active, up, handle, bleVars, wsVars, open>>

\* The socket opens; the one before it, if it is still open, is not closed by anybody.
SocketOpens(t) ==
    /\ pc[t] = "token"
    /\ \E l \in Fresh(Sockets) : ws' = l /\ open' = open \cup {l}
    /\ closing' = FALSE
    /\ Goto(t, "subscribe")
    /\ UNCHANGED <<state, config, closed, active, up, loopVars, bleVars, recv, reauth, failures>>

\* Token, socket or subscription fail: fall back to Bluetooth, where the preference allows.
GatewayFails(t) ==
    /\ pc[t] \in {"token", "subscribe"}
    /\ FailUnless(pc[t] = "subscribe" /\ ws \notin open)
    /\ Fallback(t)
    /\ UNCHANGED <<config, closed, active, up, handle, bleVars, wsVars, open, reauth>>

\* Mutant: the preference is noted as the active transport.
GatewayUpNotesPreference(t) ==
    /\ pc[t] = "subscribe"
    /\ recv' = ws
    /\ active' = pref /\ up' = TRUE
    /\ Goto(t, "poll")
    /\ UNCHANGED <<state, config, closed, loopVars, bleVars, ws, closing, open, reauth, failures>>

\* Subscribed; the socket may have closed by now without the receive loop knowing it.
GatewayUp(t) ==
    /\ pc[t] = "subscribe"
    /\ recv' = ws
    /\ active' = "gateway" /\ up' = TRUE
    /\ Goto(t, "poll")
    /\ UNCHANGED <<state, config, closed, loopVars, bleVars, ws, closing, open, reauth, failures>>

\* A client connects; the one before it, if it is still open, is not closed by anybody.
BleConnects(t) ==
    /\ pc[t] = "bleConnect"
    /\ \E l \in Fresh(Clients) : client' = l /\ open' = open \cup {l}
    /\ mesh' = TRUE
    /\ Goto(t, "bleAuth")
    /\ UNCHANGED <<state, config, closed, active, up, loopVars, wsVars, reauth, failures>>

\* No device in range, no connection, or no authentication: ConfigEntryNotReady.
BleFails(t) ==
    /\ pc[t] \in {"bleConnect", "bleAuth"}
    /\ FailUnless(pc[t] = "bleAuth" /\ client \notin open)
    /\ Raise(t, "retry")
    /\ UNCHANGED <<config, closed, active, up, handle, bleVars, wsVars, open, reauth>>

BleAuthenticates(t) ==
    /\ pc[t] = "bleAuth" /\ client \in open
    /\ Goto(t, "bleRead")
    /\ UNCHANGED <<state, config, closed, active, up, loopVars, bleVars, wsVars, open, reauth, failures>>

\* The outputs' states and settings are asked for.  A write raises what it raises.
BleReadFails(t) ==
    /\ pc[t] = "bleRead"
    /\ FailUnless(client \notin open)
    /\ Raise(t, "error")
    /\ UNCHANGED <<config, closed, active, up, handle, bleVars, wsVars, open, reauth>>

\* The last writes may return although the client has dropped; what was read in vain is
\* not asked for again.
BleUp(t) ==
    /\ pc[t] = "bleRead"
    /\ active' = "ble" /\ up' = TRUE
    /\ Goto(t, "poll")
    /\ UNCHANGED <<state, config, closed, loopVars, bleVars, wsVars, open, reauth, failures>>

\* The first fault poll and the clock sync are over; neither can fail the attempt.
Polled(t) ==
    /\ pc[t] = "poll"
    /\ \/ t = "setup" /\ Goto(t, "platforms") /\ UNCHANGED reconnecting
       \/ t = "reconnect" /\ AttemptOver
    /\ UNCHANGED <<state, config, closed, active, up, handle, bleVars, wsVars, open, reauth, failures>>

-----------------------------------------------------------------------------
(* The links.  A socket the ping loop closes for a missing pong drops like any other. *)

\* bleak calls back for every client that drops, the current one or one before it.
BleDrops(l) ==
    /\ l \in open
    /\ Fail
    /\ open' = open \ {l}
    /\ mesh' = FALSE
    /\ Disconnected
    /\ UNCHANGED <<state, config, closed, active, client, wsVars, reauth>>

\* A socket closes; only its receive loop finds out, at its next turn.
SocketDrops(l) ==
    /\ l \in open
    /\ Fail
    /\ open' = open \ {l}
    /\ UNCHANGED <<state, config, closed, active, up, loopVars, bleVars, wsVars, pc, reauth>>

\* The loop ends with its socket, or by an exception of its own while that stays open.
ReceiveLoopEnds ==
    /\ recv # None
    /\ FailUnless(recv \notin open)
    /\ recv' = None
    /\ IF closing THEN UNCHANGED <<up, loopVars, pc>> ELSE Disconnected
    /\ UNCHANGED <<state, config, closed, active, bleVars, ws, closing, open, reauth>>

-----------------------------------------------------------------------------
(* Shut-down. *)

\* Mutant: the reconnect loop is left to notice the flag by itself.
ShutdownLeavesLoop(next) ==
    /\ state' = next
    /\ closed' = TRUE
    /\ pc' = [pc EXCEPT !["shutdown"] = "gateway", !["setup"] = "idle"]
    /\ closing' = (closing \/ hasGateway)
    /\ recv' = IF hasGateway THEN None ELSE recv
    /\ UNCHANGED <<config, active, up, loopVars, bleVars, ws, open, reauth>>

\* async_shutdown up to its first await: cancel the loop, close the gateway.
Shutdown(next) ==
    /\ state' = next
    /\ closed' = TRUE
    /\ reconnecting' = (reconnecting /\ handle # "loop")
    /\ handle' = "none"
    /\ pc' = [t \in Tasks |-> IF t = "shutdown" THEN "gateway"
                              ELSE IF t = "reconnect" /\ handle # "loop" THEN pc[t] ELSE "idle"]
    /\ closing' = (closing \/ hasGateway)
    /\ recv' = IF hasGateway THEN None ELSE recv
    /\ UNCHANGED <<config, active, up, bleVars, ws, open, reauth>>

Unload ==
    /\ state = "loaded"
    /\ Shutdown("unloading")
    /\ UNCHANGED failures

PlatformsFail ==
    /\ pc["setup"] = "platforms"
    /\ Fail
    /\ Shutdown("aborting")

\* The socket is closed; PlejdConnection.disconnect() is next ...
GatewayClosed ==
    /\ pc["shutdown"] = "gateway"
    /\ open' = open \ {ws}
    /\ ws' = None
    /\ Goto("shutdown", "ble")
    /\ UNCHANGED <<state, config, closed, active, up, loopVars, bleVars, closing, recv, reauth, failures>>

\* ... and reports the drop like any other.
BleClosed ==
    /\ pc["shutdown"] = "ble"
    /\ open' = open \ {client}
    /\ client' = None /\ mesh' = (mesh /\ client = None)
    /\ up' = (up /\ client \notin open)
    /\ state' = IF state = "unloading" THEN "unloaded" ELSE "error"
    /\ Goto("shutdown", "idle")
    /\ UNCHANGED <<config, closed, active, loopVars, wsVars, reauth, failures>>

-----------------------------------------------------------------------------
Attempt(t) ==
    \/ Select(t) \/ AuthFails(t) \/ SocketOpens(t) \/ GatewayFails(t) \/ GatewayUp(t)
    \/ BleConnects(t) \/ BleFails(t) \/ BleAuthenticates(t) \/ BleReadFails(t) \/ BleUp(t)
    \/ Polled(t)

Next ==
    \/ Setup \/ Loaded \/ Unload \/ PlatformsFail \/ GatewayClosed \/ BleClosed
    \/ \E t \in {"setup", "reconnect"} : Attempt(t)
    \/ \E l \in Clients : BleDrops(l)
    \/ \E l \in Sockets : SocketDrops(l)
    \/ ReceiveLoopEnds

Spec == Init /\ [][Next]_vars

\* Every task that awaits is resumed in the end.  Nobody has to unload the entry.
Fairness ==
    /\ \A t \in {"setup", "reconnect"} : WF_vars(Attempt(t))
    /\ WF_vars(Loaded) /\ WF_vars(GatewayClosed) /\ WF_vars(BleClosed)
    /\ WF_vars(ReceiveLoopEnds /\ recv \notin open)
    /\ WF_vars(Setup /\ state = "retry")

FairSpec == Spec /\ Fairness

-----------------------------------------------------------------------------
(* Properties. *)

\* A loaded entry without a link is being seen to: the reconnect loop runs, the receive
\* loop is about to report, or new credentials were asked for (_handle_disconnect with
\* _async_reconnect: "keeps that drop from being lost").
DropNotLost ==
    state = "loaded" /\ ~Available
        => reconnecting \/ reauth \/ (recv # None /\ recv \notin open)

\* A shut-down is final: no task of the coordinator runs afterwards, and nothing that was
\* connecting while it closed the transports has put a link in their place.
ShutdownIsFinal ==
    closed /\ pc["shutdown"] = "idle"
        => /\ pc["reconnect"] = "idle" /\ ~reconnecting
           /\ client = None /\ ws = None /\ recv = None

\* The reconnect flag says whether a loop runs, and the task that a shut-down would cancel
\* is that loop (_handle_disconnect: "replacing it here would leave shutdown cancelling a
\* finished task while that loop kept going").
LoopIsHeld == reconnecting <=> pc["reconnect"] # "idle" /\ handle = "loop"

\* Once async_shutdown has run up to its first await, the coordinator opens no link, however
\* far an attempt to connect had come.
ClosedOpensNothing == [][closed /\ closed' => open' \subseteq open]_vars

\* Once links hold and attempts succeed, a loaded entry comes back by itself
\* (_async_reconnect, "until it succeeds or we close").
Recovers ==
    state = "loaded" /\ ~Available ~> Available \/ reauth \/ state # "loaded"

\* "bleak fires this when the link drops; the mesh state is no longer live"
\* (connection.py): while the link is up and shown available, the mesh state is there and
\* the outputs can be written to.
AvailableCanWrite == state = "loaded" /\ Available /\ active = "ble" => mesh

-----------------------------------------------------------------------------
(* The inductive invariant behind the safety properties. *)

\* What each task may await, and what the entry's state says about it.
TaskInv ==
    /\ pc["setup"] \in {"idle", "select", "platforms"} \cup Connecting
    /\ pc["reconnect"] \in {"idle", "sleep"} \cup Connecting
    /\ pc["shutdown"] \in {"idle", "gateway", "ble"}
    /\ pc["setup"] # "idle" <=> state = "setup"
    /\ pc["shutdown"] # "idle" <=> state \in {"unloading", "aborting"}
    /\ state \in {"setup", "loaded", "retry"} => ~closed
    /\ state \in {"unloaded", "unloading", "aborting"} => closed

LoopInv ==
    /\ reconnecting <=> pc["reconnect"] # "idle"
    /\ reconnecting => handle = "loop"

\* After its first await a shut-down only has links to close.
ClosedInv ==
    /\ closed => pc["setup"] = "idle" /\ pc["reconnect"] = "idle" /\ recv = None
    /\ closed /\ pc["shutdown"] # "gateway" => ws = None
    /\ closed /\ pc["shutdown"] = "idle" => client = None
    /\ ~closed => ~closing

\* A set-up that is still connecting is alone, but for a loop that sleeps because the
\* client of that set-up has dropped.
SetupInv ==
    /\ pc["setup"] \in {"select"} \cup Attempting
        => ~up /\ recv = None /\ pc["reconnect"] \in {"idle", "sleep"}
    /\ pc["setup"] \in {"select", "token", "subscribe", "bleConnect"}
        => ~reconnecting /\ open \cap Clients = {}
    /\ pc["setup"] \in {"bleAuth", "bleRead"} => client \in open \/ reconnecting

\* Who goes by the gateway has a receive loop on its socket, and connects nowhere else.
GatewayInv ==
    /\ pref = "ble" \/ ~hasGateway
        => ws = None /\ recv = None /\ \A t \in Tasks : pc[t] \notin {"token", "subscribe"}
    /\ \A t \in Tasks : pc[t] = "subscribe" => ws # None
    /\ up /\ active = "gateway" /\ ~closed
        => recv = ws /\ ws # None /\ pc["reconnect"] \notin Attempting

\* DropNotLost, from the moment the set-up's connection is up.
DropFollowed ==
    state = "loaded" \/ pc["setup"] \in {"poll", "platforms"}
        => \/ Available \/ reconnecting \/ reauth
           \/ recv # None /\ recv \notin open

IInv == TypeOK /\ TaskInv /\ LoopInv /\ ClosedInv /\ SetupInv /\ GatewayInv /\ DropFollowed
=============================================================================
