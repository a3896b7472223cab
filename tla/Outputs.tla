-------------------------------- MODULE Outputs --------------------------------
(***************************************************************************)
(* Commands to the outputs over the gateway, and what the coordinator      *)
(* believes of the outputs meanwhile (coordinator.py, async_set_output and *)
(* async_set_group_output, with gateway_transport.py).                     *)
(*                                                                         *)
(* A command is published, waits for the cloud's echo of it for at most    *)
(* two seconds, and then records the state it expects, unless it sees that *)
(* somebody else has changed the output meanwhile.  The cloud, the mesh    *)
(* and its devices are external: the cloud relays in order, a device       *)
(* reports every change of its output, the gateway answers a request with  *)
(* a snapshot.  Everything of ours runs on one event loop; an action is    *)
(* the code between two awaits.                                            *)
(***************************************************************************)
EXTENDS Naturals, Sequences, SequencesExt

CONSTANTS
    Outputs,     \* mesh addresses of the outputs
    Room,        \* the group address of a room ...
    Members,     \* ... and the outputs in it
    Levels,      \* dim levels of an output that is on
    Writes,      \* the commands given, each a task of its own
    None,
    Troubles,    \* what may happen: changes by others, lost publishes, dropped sockets
    MaxTroubles  \* bound: how often

ASSUME OutputsAssumption ==
    /\ Members \subseteq Outputs /\ IsFiniteSet(Members) /\ Room \notin Outputs
    /\ Levels \subseteq Nat \ {0} /\ Levels # {}
    /\ Troubles \subseteq {"foreign", "loss", "drop"} /\ MaxTroubles \in Nat

VARIABLES
    real,        \* the outputs themselves
    state,       \* PlejdGatewayConnection._state
    link,        \* the socket: up, dead (we may not know it yet) or reconnecting
    uplink,      \* published, and not yet relayed to the mesh
    downlink,    \* frames the receive loop has not handled
    pc,          \* where each command's task awaits
    command,     \* what it commands
    prior,       \* the state it read before its write
    ackWaiters,  \* _ack_waiters: per command, the tasks that wait for its echo
    lost,        \* ghost: commands of which a publish was lost
    overtaken,   \* ghost: tasks woken, but a frame about their outputs was handled first
    blind,       \* ghost: outputs with a record that rests on a lost or an overtaken command
    troubles

tasks == <<pc, command, prior>>
ghosts == <<lost, overtaken, blind>>
vars == <<real, state, link, uplink, downlink, pc, command, prior, ackWaiters,
          lost, overtaken, blind, troubles>>

Addresses == Outputs \cup {Room}
States == [on : BOOLEAN, level : Levels \cup {0}]

\* An off command carries level 0.
Commands == [addr : Addresses, on : {TRUE}, level : Levels]
                \cup [addr : Addresses, on : {FALSE}, level : {0}]

ASSUME NoneIsNoState == None \notin States

Request == [kind |-> "request"]
Frames == [kind : {"echo"}, cmd : Commands]
              \cup [kind : {"push"}, cmd : Commands]
              \cup [kind : {"state"}, addr : Outputs, state : States]
              \cup [kind : {"report"}, states : [Outputs -> States]]

TypeOK ==
    /\ real \in [Outputs -> States]
    /\ state \in [Addresses -> States \cup {None}]
    /\ link \in {"up", "dead", "connecting"}
    /\ uplink \in Seq(Commands \cup {Request})
    /\ downlink \in Seq(Frames)
    /\ pc \in [Writes -> {"idle", "wait", "woken", "over"}]
    /\ command \in [Writes -> Commands \cup {None}]
    /\ prior \in [Writes -> States \cup {None}]
    /\ ackWaiters \in [Commands -> Seq(Writes)]
    /\ lost \subseteq Commands /\ overtaken \subseteq Writes /\ blind \subseteq Outputs
    /\ troubles \in Nat

\* Connected, and the first snapshot asked for.
Init ==
    /\ real \in [Outputs -> [on : BOOLEAN, level : Levels]]
    /\ state = [a \in Addresses |-> None]
    /\ link = "up"
    /\ uplink = <<Request>> /\ downlink = <<>>
    /\ pc = [w \in Writes |-> "idle"]
    /\ command = [w \in Writes |-> None]
    /\ prior = [w \in Writes |-> None]
    /\ ackWaiters = [c \in Commands |-> <<>>]
    /\ lost = {} /\ overtaken = {} /\ blind = {}
    /\ troubles = 0

-----------------------------------------------------------------------------
(* What a command does to an output, and what is recorded of it. *)

Targets(addr) == IF addr = Room THEN Members ELSE {addr}

\* A device that is turned off keeps its level.
Applied(c, s) == [on |-> c.on, level |-> IF c.on THEN c.level ELSE s.level]

\* The echo as it is on the wire.
RawEcho(c) == [on |-> c.on, level |-> c.level]

\* Mutant: without a prior state there is no level.
RememberingNothing(s, c) ==
    [on |-> c.on, level |-> IF c.on THEN c.level ELSE IF s = None THEN None ELSE s.level]

\* Turning off doesn't erase the brightness remembered, if there is one.
Remembering(s, c) == IF s = None THEN RawEcho(c) ELSE Applied(c, s)

\* _record_group_member_states.
RecordMembers(states, c) ==
    [a \in Addresses |-> IF a \in Members THEN Remembering(states[a], c) ELSE states[a]]

\* Mutant: what arrived during the write is not looked at.
RecordAlways(w) ==
    LET c == command[w]
        recorded == [state EXCEPT ![c.addr] = Remembering(prior[w], c)]
    IN  state' = IF c.addr = Room THEN RecordMembers(recorded, c) ELSE recorded

\* The end of async_set_output, and of async_set_group_output.
Record(w) ==
    LET c == command[w]
        current == state[c.addr]
        recorded == IF current \in {None, prior[w], RawEcho(c)}
                    THEN [state EXCEPT ![c.addr] = Remembering(prior[w], c)]
                    ELSE state
    IN  state' = IF c.addr = Room THEN RecordMembers(recorded, c) ELSE recorded

\* _discard_ack_waiter: the queue of its command loses the task, if it is still there.
Without(queues, w) == [queues EXCEPT ![command[w]] = RemoveFirst(@, w)]

Finished(w) ==
    /\ pc' = [pc EXCEPT ![w] = "over"]
    /\ command' = [command EXCEPT ![w] = None]
    /\ prior' = [prior EXCEPT ![w] = None]
    /\ overtaken' = overtaken \ {w}

Trouble(kind) ==
    /\ kind \in Troubles /\ troubles < MaxTroubles
    /\ troubles' = troubles + 1

Received(frames) == downlink' = IF link = "up" THEN downlink \o frames ELSE downlink

-----------------------------------------------------------------------------
(* Commands. *)

\* The command is published.  On a dead socket the publish is lost, or it raises, which
\* leaves everything as it was; while a reconnect is under way it always raises.
Write(w, c) ==
    /\ pc[w] = "idle" /\ link \in {"up", "dead"}
    /\ pc' = [pc EXCEPT ![w] = "wait"]
    /\ command' = [command EXCEPT ![w] = c]
    /\ prior' = [prior EXCEPT ![w] = state[c.addr]]
    /\ ackWaiters' = [ackWaiters EXCEPT ![c] = Append(@, w)]
    /\ uplink' = IF link = "up" THEN Append(uplink, c) ELSE uplink
    /\ UNCHANGED <<real, state, link, downlink, ghosts, troubles>>

\* The time-out cancels the future, which stays in its queue until the task runs.
TimesOut(w) ==
    /\ pc[w] = "wait"
    /\ pc' = [pc EXCEPT ![w] = "woken"]
    /\ UNCHANGED <<real, state, link, uplink, downlink, command, prior, ackWaiters, ghosts,
                   troubles>>

\* Mutant: a waiter that was not resolved stays in its queue.
ResumeKeepsWaiter(w) ==
    /\ pc[w] = "woken"
    /\ Record(w)
    /\ Finished(w)
    /\ UNCHANGED <<ackWaiters, lost, blind, real, link, uplink, downlink, troubles>>

\* The task runs again: acknowledged, timed out or released.  What it cannot see is a
\* change overtaken by its own wake-up that ends where it began, or that of a member.
Resume(w) ==
    /\ pc[w] = "woken"
    /\ ackWaiters' = Without(ackWaiters, w)
    /\ Record(w)
    /\ blind' = IF \/ command[w] \in lost
                   \/ /\ w \in overtaken
                      /\ command[w].addr = Room \/ state[command[w].addr] = prior[w]
                THEN blind \cup Targets(command[w].addr)
                ELSE blind
    /\ Finished(w)
    /\ UNCHANGED <<real, link, uplink, downlink, lost, troubles>>

\* The task is cancelled: a ramp is stopped, a service call given up.  Nothing is recorded.
Cancel(w) ==
    /\ pc[w] \in {"wait", "woken"}
    /\ ackWaiters' = Without(ackWaiters, w)
    /\ Finished(w)
    /\ UNCHANGED <<real, state, link, uplink, downlink, lost, blind, troubles>>

-----------------------------------------------------------------------------
(* The receive loop. *)

\* Frames about outputs that a woken task is going to record.
Overtakes(addrs) ==
    {w \in Writes : pc[w] = "woken" /\ Targets(command[w].addr) \cap addrs # {}}

\* _resolve_ack_waiter: the oldest waiter that is not done; those before it are dropped.
AckResolved(c) ==
    LET queue == ackWaiters[c]
        live == {i \in DOMAIN queue : pc[queue[i]] = "wait"}
        first == CHOOSE i \in live : \A j \in live : i <= j
    IN  IF live = {}
        THEN /\ ackWaiters' = [ackWaiters EXCEPT ![c] = <<>>]
             /\ UNCHANGED pc
        ELSE /\ ackWaiters' = [ackWaiters EXCEPT ![c] = SubSeq(@, first + 1, Len(@))]
             /\ pc' = [pc EXCEPT ![queue[first]] = "woken"]

\* A command's own echo, or somebody else's to a room: the address it names, and the
\* members of a room (_fan_group_state_to_members).
HandleCommand(frame) ==
    LET c == frame.cmd
        pushed == [state EXCEPT ![c.addr] = RawEcho(c)]
    IN  /\ state' = IF c.addr = Room THEN RecordMembers(pushed, c) ELSE pushed
        /\ IF frame.kind = "echo" THEN AckResolved(c) ELSE UNCHANGED <<ackWaiters, pc>>
        /\ overtaken' = overtaken \cup Overtakes(Targets(c.addr))
        /\ blind' = blind \ Targets(c.addr)

HandleState(frame) ==
    /\ state' = [state EXCEPT ![frame.addr] = frame.state]
    /\ overtaken' = overtaken \cup Overtakes({frame.addr})
    /\ blind' = blind \ {frame.addr}
    /\ UNCHANGED <<ackWaiters, pc>>

HandleReport(frame) ==
    /\ state' = [a \in Addresses |-> IF a \in Outputs THEN frame.states[a] ELSE state[a]]
    /\ overtaken' = overtaken \cup Overtakes(Outputs)
    /\ blind' = {}
    /\ UNCHANGED <<ackWaiters, pc>>

\* Frames that have arrived together are handled without a task running in between.
HandleFrame ==
    /\ link = "up" /\ downlink # <<>>
    /\ downlink' = Tail(downlink)
    /\ LET frame == Head(downlink)
       IN  \/ frame.kind \in {"echo", "push"} /\ HandleCommand(frame)
           \/ frame.kind = "state" /\ HandleState(frame)
           \/ frame.kind = "report" /\ HandleReport(frame)
    /\ UNCHANGED <<real, link, uplink, command, prior, lost, troubles>>

-----------------------------------------------------------------------------
(* The socket. *)

\* What was not relayed by now may get lost with it.
Drop ==
    /\ link = "up"
    /\ Trouble("drop")
    /\ link' = "dead"
    /\ downlink' = <<>>
    /\ uplink' \in {uplink, <<>>}
    /\ UNCHANGED <<real, state, tasks, ackWaiters, ghosts>>

\* connect() up to its first await: every waiter is released.
Reconnect ==
    /\ link = "dead"
    /\ link' = "connecting"
    /\ pc' = [w \in Writes |-> IF pc[w] = "wait" THEN "woken" ELSE pc[w]]
    /\ ackWaiters' = [c \in Commands |-> <<>>]
    /\ UNCHANGED <<real, state, uplink, downlink, command, prior, ghosts, troubles>>

\* The socket is open, a snapshot is asked for.  A task that was woken has run long since.
Connected ==
    /\ link = "connecting"
    /\ \A w \in Writes : pc[w] # "woken"
    /\ link' = "up"
    /\ uplink' = Append(uplink, Request)
    /\ UNCHANGED <<real, state, downlink, tasks, ackWaiters, ghosts, troubles>>

-----------------------------------------------------------------------------
(* The cloud and the mesh: external. *)

\* A command takes effect on its outputs, each of which reports its state.
Effect(c, first) ==
    /\ real' = [o \in Outputs |-> IF o \in Targets(c.addr) THEN Applied(c, real[o]) ELSE real[o]]
    /\ Received(first \o [i \in 1..Cardinality(Targets(c.addr)) |->
           LET o == SetToSeq(Targets(c.addr))[i]
           IN  [kind |-> "state", addr |-> o, state |-> real'[o]]])

RelayCommand ==
    /\ uplink # <<>> /\ Head(uplink) # Request
    /\ uplink' = Tail(uplink)
    /\ Effect(Head(uplink), <<[kind |-> "echo", cmd |-> Head(uplink)]>>)
    /\ UNCHANGED <<state, link, tasks, ackWaiters, ghosts, troubles>>

RelayRequest ==
    /\ uplink # <<>> /\ Head(uplink) = Request
    /\ uplink' = Tail(uplink)
    /\ Received(<<[kind |-> "report", states |-> real]>>)
    /\ UNCHANGED <<real, state, link, tasks, ackWaiters, ghosts, troubles>>

RelayLoses ==
    /\ Trouble("loss")
    /\ uplink # <<>> /\ Head(uplink) # Request
    /\ uplink' = Tail(uplink)
    /\ lost' = lost \cup {Head(uplink)}
    /\ blind' = blind \cup Targets(Head(uplink).addr)
    /\ UNCHANGED <<real, state, link, downlink, tasks, ackWaiters, overtaken>>

\* A switch or an app: an output by itself, or a whole room.
ForeignCommand(c) ==
    /\ Trouble("foreign")
    /\ Effect(c, IF c.addr = Room THEN <<[kind |-> "push", cmd |-> c]>> ELSE <<>>)
    /\ UNCHANGED <<state, link, uplink, tasks, ackWaiters, ghosts>>

-----------------------------------------------------------------------------
Next ==
    \/ \E w \in Writes : \/ \E c \in Commands : Write(w, c)
                         \/ TimesOut(w) \/ Resume(w) \/ Cancel(w)
    \/ HandleFrame \/ Drop \/ Reconnect \/ Connected
    \/ RelayCommand \/ RelayRequest \/ RelayLoses
    \/ \E c \in Commands : ForeignCommand(c)

Spec == Init /\ [][Next]_vars

-----------------------------------------------------------------------------
(* Properties. *)

Quiet ==
    /\ link = "up" /\ uplink = <<>> /\ downlink = <<>>
    /\ \A w \in Writes : pc[w] \in {"idle", "over"}

\* Every task in a queue waits for that acknowledgement or is about to leave, and who waits
\* is in its queue, once (write's "Covers success, timeout, cancellation, and send failure").
WaitersWait ==
    /\ \A c \in Commands : \A i \in DOMAIN ackWaiters[c] :
           LET w == ackWaiters[c][i]
           IN  /\ pc[w] \in {"wait", "woken"} /\ command[w] = c
               /\ \A j \in DOMAIN ackWaiters[c] : ackWaiters[c][j] = w => i = j
    /\ \A w \in Writes : pc[w] = "wait" => w \in Range(ackWaiters[command[w]])

\* When everything sent has arrived, what is shown of an output is what it is, level and
\* all (async_set_output: "don't stomp that with our stale optimistic guess"), unless the
\* last record was made blindly: after a publish that was lost, or over a change that a
\* task which was woken before it cannot see.
StateIsReal == Quiet => \A o \in Outputs : state[o] = real[o] \/ o \in blind

\* What Delivery sees: what the frames acknowledge, who waits, and in which order.
Acks == [i \in DOMAIN downlink |-> IF downlink[i].kind = "echo" THEN {downlink[i].cmd} ELSE {}]
Waiting(c) == {w \in Writes : pc[w] = "wait" /\ command[w] = c}
Ahead(c, v, w) == \E i, j \in DOMAIN ackWaiters[c] : i < j /\ ackWaiters[c][i] = v /\ ackWaiters[c][j] = w
Older == {e \in Writes \X Writes : \E c \in Commands : {e[1], e[2]} \subseteq Waiting(c) /\ Ahead(c, e[1], e[2])}

\* An acknowledgement releases the oldest task that waits for it, whatever is left in the queues of
\* those that timed out (_resolve_ack_waiter's "skip any already timed out/cancelled").
Delivered == INSTANCE Delivery WITH
    up <- link = "up", acks <- Acks, waiting <- [c \in Commands |-> Waiting(c)], older <- Older

OldestFirst == Delivered!Spec
=============================================================================
