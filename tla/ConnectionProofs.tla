-------------------------- MODULE ConnectionProofs --------------------------
(***************************************************************************)
(* Proofs about Connection, for any number of links and failures: type     *)
(* correctness, that no drop is lost, that the reconnect loop is the task  *)
(* a shut-down cancels, and that a shut-down is final.                     *)
(***************************************************************************)
EXTENDS Connection, TLAPS

-----------------------------------------------------------------------------
(* Types of what the tasks share. *)

\* The part of the types that a failed attempt touches.
TaskTypes == state' \in States /\ reconnecting' \in BOOLEAN /\ pc' \in [Tasks -> PCs]

\* A task that goes on is at one of its awaits.
LEMMA GotoType ==
    ASSUME TypeOK, NEW t, NEW place \in PCs, Goto(t, place)
    PROVE  pc' \in [Tasks -> PCs]
  BY DEF TypeOK, Goto

\* The loop's test leaves the flag Boolean and the loop at one of its awaits.
LEMMA AttemptOverType ==
    ASSUME TypeOK, AttemptOver, UNCHANGED state
    PROVE  TaskTypes
  <1>1. reconnecting' \in BOOLEAN
    BY Zenon DEF AttemptOver
  <1>2. pc' \in [Tasks -> PCs]
    BY DEF TypeOK, AttemptOver, Goto, PCs
  <1> QED
    BY <1>1, <1>2 DEF TypeOK, TaskTypes

\* A failed attempt ends the set-up or is another turn of the loop.
LEMMA RaiseType ==
    ASSUME TypeOK, NEW t \in {"setup", "reconnect"}, NEW outcome \in {"retry", "error"},
           Raise(t, outcome)
    PROVE  TaskTypes
  <1>1. CASE t = "setup"
    BY <1>1 DEF TypeOK, Raise, Goto, TaskTypes, States, PCs
  <1>2. CASE t = "reconnect"
    BY <1>2, AttemptOverType DEF Raise
  <1> QED
    BY <1>1, <1>2

\* A fall-back goes on to Bluetooth or is a failed attempt.
LEMMA FallbackType ==
    ASSUME TypeOK, NEW t \in {"setup", "reconnect"}, Fallback(t)
    PROVE  TaskTypes
  <1>1. CASE pref = "gateway"
    BY <1>1, RaiseType DEF Fallback
  <1>2. CASE pref # "gateway"
    BY <1>2 DEF TypeOK, Fallback, Goto, TaskTypes, PCs, Connecting, Attempting
  <1> QED
    BY <1>1, <1>2

\* A drop marks the link and may start the loop.
LEMMA DisconnectedType ==
    ASSUME TypeOK, Disconnected
    PROVE  /\ up' \in BOOLEAN /\ reconnecting' \in BOOLEAN
           /\ handle' \in {"none", "loop", "finished"} /\ pc' \in [Tasks -> PCs]
  BY DEF TypeOK, Disconnected, Goto, loopVars, PCs

\* A shut-down cancels the loop and stops the set-up.
LEMMA ShutdownType ==
    ASSUME TypeOK, NEW next \in States, Shutdown(next)
    PROVE  /\ state' \in States /\ closed' \in BOOLEAN /\ reconnecting' \in BOOLEAN
           /\ handle' \in {"none", "loop", "finished"} /\ pc' \in [Tasks -> PCs]
           /\ closing' \in BOOLEAN /\ recv' \in Sockets \cup {None}
  <1>1. reconnecting' \in BOOLEAN /\ closing' \in BOOLEAN
    BY Zenon DEF Shutdown
  <1>2. pc' \in [Tasks -> PCs]
    BY DEF TypeOK, Shutdown, PCs
  <1> QED
    BY <1>1, <1>2 DEF TypeOK, Shutdown

-----------------------------------------------------------------------------
(* Type correctness. *)

\* Every step of an attempt to connect keeps the types.
LEMMA AttemptTypeStep ==
    ASSUME TypeOK, NEW t \in {"setup", "reconnect"}, Attempt(t)
    PROVE  TypeOK'
  <1> USE ConnectionAssumption DEF TypeOK, bleVars, wsVars, loopVars, config
  <1>0. Fail => failures' \in Nat
    BY DEF Fail
  <1>1. CASE Select(t)
    <2>1. up' \in BOOLEAN /\ recv' \in Sockets \cup {None}
      <3>1. up' = (up /\ recv = None) => up' \in BOOLEAN
        BY Zenon
      <3> QED
        BY <1>1, <3>1 DEF Select
    <2>2. TaskTypes
      <3>1. ASSUME state' = state, reconnecting' \in BOOLEAN, NEW place \in PCs, Goto(t, place)
            PROVE  TaskTypes
        BY <3>1 DEF Goto, TaskTypes, Tasks
      <3> QED
        BY <1>1, <3>1, FallbackType DEF Select, PCs, Connecting, Attempting
    <2> QED
      BY <1>1, <2>1, <2>2 DEF Select, TaskTypes
  <1>2. CASE AuthFails(t)
    <2>1. failures' \in Nat /\ reauth' = TRUE
      BY <1>0, <1>2 DEF AuthFails
    <2>2. UNCHANGED <<config, closed, active, up, handle, bleVars, wsVars, open>>
      BY <1>2 DEF AuthFails
    <2>3. pc' \in [Tasks -> PCs]
      BY <1>2, GotoType DEF AuthFails, PCs
    <2>4. state' \in States
      BY <1>2 DEF AuthFails, States
    <2>5. reconnecting' \in BOOLEAN
      <3>1. reconnecting' = reconnecting \/ reconnecting' = FALSE
        BY <1>2, Zenon DEF AuthFails
      <3> QED
        BY <3>1, Zenon
    <2> QED
      BY <2>1, <2>2, <2>3, <2>4, <2>5
  <1>3. CASE SocketOpens(t)
    <2>1. pc' \in [Tasks -> PCs]
      BY <1>3, GotoType DEF SocketOpens, PCs, Connecting, Attempting
    <2>2. ws' \in Sockets \cup {None} /\ open' \subseteq Clients \cup Sockets /\ closing' \in BOOLEAN
      BY <1>3 DEF SocketOpens, Fresh
    <2> QED
      BY <1>3, <2>1, <2>2 DEF SocketOpens
  <1>4. CASE GatewayFails(t)
    BY <1>0, <1>4, FallbackType DEF GatewayFails, FailUnless, TaskTypes
  <1>5. CASE GatewayUp(t)
    <2>1. pc' \in [Tasks -> PCs]
      BY <1>5, GotoType DEF GatewayUp, PCs, Connecting
    <2> QED
      BY <1>5, <2>1 DEF GatewayUp
  <1>6. CASE BleConnects(t)
    <2>1. pc' \in [Tasks -> PCs]
      BY <1>6, GotoType DEF BleConnects, PCs, Connecting, Attempting
    <2>2. client' \in Clients \cup {None} /\ open' \subseteq Clients \cup Sockets
      BY <1>6 DEF BleConnects, Fresh
    <2> QED
      BY <1>6, <2>1, <2>2 DEF BleConnects
  <1>7. CASE BleFails(t)
    BY <1>0, <1>7, RaiseType DEF BleFails, FailUnless, TaskTypes
  <1>8. CASE BleAuthenticates(t)
    BY <1>8, GotoType DEF BleAuthenticates, PCs, Connecting, Attempting
  <1>9. CASE BleReadFails(t)
    BY <1>0, <1>9, RaiseType DEF BleReadFails, FailUnless, TaskTypes
  <1>10. CASE BleUp(t)
    <2>1. pc' \in [Tasks -> PCs]
      BY <1>10, GotoType DEF BleUp, PCs, Connecting
    <2> QED
      BY <1>10, <2>1 DEF BleUp
  <1>11. CASE Polled(t)
    <2>1. CASE t = "setup"
      <3>1. pc' \in [Tasks -> PCs]
        BY <1>11, <2>1, GotoType DEF Polled, PCs
      <3> QED
        BY <1>11, <2>1, <3>1 DEF Polled, States
    <2>2. CASE t = "reconnect"
      BY <1>11, <2>2, AttemptOverType DEF Polled, TaskTypes
    <2> QED
      BY <2>1, <2>2
  <1> QED
    BY <1>1, <1>2, <1>3, <1>4, <1>5, <1>6, <1>7, <1>8, <1>9, <1>10, <1>11 DEF Attempt

\* Every step keeps the types, one case per handler.
LEMMA TypeStep == TypeOK /\ [Next]_vars => TypeOK'
  <1> SUFFICES ASSUME TypeOK, [Next]_vars
               PROVE  TypeOK'
    OBVIOUS
  <1> USE ConnectionAssumption DEF TypeOK, bleVars, wsVars, loopVars, config
  <1>0. Fail => failures' \in Nat
    BY DEF Fail
  <1>1. CASE UNCHANGED vars
    BY <1>1 DEF vars
  <1>2. CASE Setup
    BY <1>2 DEF Setup, States, PCs
  <1>3. CASE Loaded
    <2>1. state' \in States /\ pc' \in [Tasks -> PCs]
      BY <1>3, GotoType DEF Loaded, States, PCs
    <2> QED
      BY <1>3, <2>1 DEF Loaded
  <1>4. CASE Unload
    BY <1>4, ShutdownType DEF Unload, Shutdown, States
  <1>5. CASE PlatformsFail
    BY <1>0, <1>5, ShutdownType DEF PlatformsFail, Shutdown, States
  <1>6. CASE GatewayClosed
    <2>1. pc' \in [Tasks -> PCs]
      BY <1>6, GotoType DEF GatewayClosed, PCs
    <2> QED
      BY <1>6, <2>1 DEF GatewayClosed
  <1>7. CASE BleClosed
    <2>1. mesh' \in BOOLEAN /\ up' \in BOOLEAN
      BY <1>7, Zenon DEF BleClosed
    <2>2. pc' \in [Tasks -> PCs]
      BY <1>7, GotoType DEF BleClosed, PCs
    <2>3. state' \in States
      BY <1>7 DEF BleClosed, States
    <2> QED
      BY <1>7, <2>1, <2>2, <2>3 DEF BleClosed
  <1>8. ASSUME NEW t \in {"setup", "reconnect"}, Attempt(t)
        PROVE  TypeOK'
    BY <1>8, AttemptTypeStep
  <1>9. ASSUME NEW l \in Clients, BleDrops(l)
        PROVE  TypeOK'
    BY <1>0, <1>9, DisconnectedType DEF BleDrops
  <1>10. ASSUME NEW l \in Sockets, SocketDrops(l)
         PROVE  TypeOK'
    BY <1>0, <1>10 DEF SocketDrops
  <1>11. CASE ReceiveLoopEnds
    BY <1>0, <1>11, DisconnectedType DEF ReceiveLoopEnds, FailUnless
  <1> QED
    BY <1>1, <1>2, <1>3, <1>4, <1>5, <1>6, <1>7, <1>8, <1>9, <1>10, <1>11 DEF Next

-----------------------------------------------------------------------------
(* The invariant. *)

\* The inductive invariant without the types.
Order == TaskInv /\ LoopInv /\ ClosedInv /\ SetupInv /\ GatewayInv /\ DropFollowed

\* Before the first set-up nothing runs and nothing is open.
LEMMA InitInv == Init => IInv
  <1> SUFFICES ASSUME Init
               PROVE  IInv
    OBVIOUS
  <1>1. TypeOK
    BY ConnectionAssumption DEF Init, TypeOK, States, PCs, Tasks
  <1>2. TaskInv /\ LoopInv /\ ClosedInv
    BY DEF Init, TaskInv, LoopInv, ClosedInv, Tasks
  <1>3. SetupInv /\ GatewayInv /\ DropFollowed
    BY DEF Init, SetupInv, GatewayInv, DropFollowed, Tasks, Attempting
  <1> QED
    BY <1>1, <1>2, <1>3 DEF IInv

\* Every step of an attempt to connect keeps the invariant.
LEMMA AttemptStep ==
    ASSUME IInv, NEW t \in {"setup", "reconnect"}, Attempt(t)
    PROVE  Order'
  <1> USE ConnectionAssumption
      DEF IInv, Order, TypeOK, TaskInv, LoopInv, ClosedInv, SetupInv, GatewayInv, DropFollowed,
          Tasks, Connecting, Attempting, Goto, Available, Connected,
          bleVars, wsVars, loopVars, config
  <1>1. CASE Select(t)
    \* To Bluetooth at once, or a failed attempt: the gateway was never in use.
    <2>1. CASE pref = "ble" \/ ~hasGateway
      <3>1. CASE pref = "gateway"
        BY <1>1, <2>1, <3>1 DEF Select, Fallback, Raise, AttemptOver
      <3>2. CASE pref # "gateway"
        BY <1>1, <2>1, <3>2 DEF Select, Fallback
      <3> QED
        BY <3>1, <3>2
    \* To the gateway: a receive loop that still runs is cancelled and up is false.
    <2>2. CASE ~(pref = "ble" \/ ~hasGateway)
      BY <1>1, <2>2 DEF Select
    <2> QED
      BY <2>1, <2>2
  \* The loop ends with a reauthentication under way.
  <1>2. CASE AuthFails(t)
    BY <1>2 DEF AuthFails
  \* Nobody goes by the gateway while its socket is replaced.
  <1>3. CASE SocketOpens(t)
    BY <1>3 DEF SocketOpens, Fresh
  <1>4. CASE GatewayFails(t)
    BY <1>4 DEF GatewayFails, Fallback, Raise, AttemptOver
  \* The receive loop is on the socket, which is open or about to be found closed.
  <1>5. CASE GatewayUp(t)
    BY <1>5 DEF GatewayUp
  <1>6. CASE BleConnects(t)
    BY <1>6 DEF BleConnects, Fresh
  <1>7. CASE BleFails(t)
    BY <1>7 DEF BleFails, Raise, AttemptOver
  <1>8. CASE BleAuthenticates(t)
    BY <1>8 DEF BleAuthenticates
  <1>9. CASE BleReadFails(t)
    BY <1>9 DEF BleReadFails, Raise, AttemptOver
  \* A client that dropped meanwhile has a loop that waits for this attempt to end.
  <1>10. CASE BleUp(t)
    BY <1>10 DEF BleUp
  <1>11. CASE Polled(t)
    BY <1>11 DEF Polled, AttemptOver
  <1> QED
    BY <1>1, <1>2, <1>3, <1>4, <1>5, <1>6, <1>7, <1>8, <1>9, <1>10, <1>11 DEF Attempt

\* Every step keeps the invariant, one case per handler.
LEMMA InvStep == IInv /\ [Next]_vars => IInv'
  <1> SUFFICES ASSUME IInv, [Next]_vars
               PROVE  Order'
    BY TypeStep DEF IInv, Order
  <1> USE ConnectionAssumption
      DEF IInv, Order, TypeOK, TaskInv, LoopInv, ClosedInv, SetupInv, GatewayInv, DropFollowed,
          Tasks, Connecting, Attempting, Goto, Available, Connected,
          bleVars, wsVars, loopVars, config
  <1>1. CASE UNCHANGED vars
    BY <1>1 DEF vars
  <1>2. CASE Setup
    BY <1>2 DEF Setup
  <1>3. CASE Loaded
    BY <1>3 DEF Loaded
  \* The task that a shut-down cancels is the loop that runs.
  <1>4. CASE Unload
    BY <1>4 DEF Unload, Shutdown
  <1>5. CASE PlatformsFail
    BY <1>5 DEF PlatformsFail, Shutdown
  <1>6. CASE GatewayClosed
    BY <1>6 DEF GatewayClosed
  <1>7. CASE BleClosed
    BY <1>7 DEF BleClosed
  <1>8. ASSUME NEW t \in {"setup", "reconnect"}, Attempt(t)
        PROVE  Order'
    BY <1>8, AttemptStep
  \* Whatever dropped, a loop runs afterwards, unless the coordinator is closed.
  <1>9. ASSUME NEW l \in Clients, BleDrops(l)
        PROVE  Order'
    BY <1>9 DEF BleDrops, Disconnected
  \* A socket in use drops under its receive loop.
  <1>10. ASSUME NEW l \in Sockets, SocketDrops(l)
         PROVE  Order'
    BY <1>10 DEF SocketDrops
  <1>11. CASE ReceiveLoopEnds
    BY <1>11 DEF ReceiveLoopEnds, Disconnected
  <1> QED
    BY <1>1, <1>2, <1>3, <1>4, <1>5, <1>6, <1>7, <1>8, <1>9, <1>10, <1>11 DEF Next

-----------------------------------------------------------------------------
(* The theorems. *)

\* Every variable keeps its type.
THEOREM TypeCorrect == Spec => []TypeOK
  <1>1. Init => TypeOK
    BY InitInv DEF IInv
  <1> QED
    BY <1>1, TypeStep, PTL DEF Spec

\* The inductive invariant holds in every reachable state.
THEOREM Invariance == Spec => []IInv
  BY InitInv, InvStep, PTL DEF Spec

\* No drop is lost: a loaded entry without a link is seen to by the reconnect loop, by the
\* receive loop or by a reauthentication (_handle_disconnect, _async_reconnect).
THEOREM DropsAreSeen == Spec => []DropNotLost
  <1>1. IInv => DropNotLost
    BY DEF IInv, DropFollowed, DropNotLost
  <1> QED
    BY <1>1, Invariance, PTL

\* The reconnect flag, the running loop and the task a shut-down cancels are one
\* (_handle_disconnect).
THEOREM LoopHeld == Spec => []LoopIsHeld
  <1>1. IInv => LoopIsHeld
    BY DEF IInv, LoopInv, LoopIsHeld
  <1> QED
    BY <1>1, Invariance, PTL

\* After a shut-down no task runs and no link is referred to (async_shutdown).
THEOREM ShutdownFinal == Spec => []ShutdownIsFinal
  <1>1. IInv => ShutdownIsFinal
    BY DEF IInv, LoopInv, ClosedInv, ShutdownIsFinal
  <1> QED
    BY <1>1, Invariance, PTL

\* From a shut-down's first await on, no link is opened (async_shutdown).
THEOREM NothingOpens == Spec => ClosedOpensNothing
  <1> DEFINE Quiet == closed /\ closed' => open' \subseteq open
  <1>1. ASSUME IInv, [Next]_vars
        PROVE  [Quiet]_vars
    <2> SUFFICES ASSUME Next, closed, closed'
                 PROVE  open' \subseteq open
      BY <1>1
    <2>1. pc["setup"] = "idle" /\ pc["reconnect"] = "idle"
      BY <1>1 DEF IInv, ClosedInv
    <2>2. ASSUME NEW t \in {"setup", "reconnect"}, Attempt(t)
          PROVE  FALSE
      BY <2>1, <2>2 DEF Attempt, Select, AuthFails, SocketOpens, GatewayFails, GatewayUp,
         BleConnects, BleFails, BleAuthenticates, BleReadFails, BleUp, Polled
    <2>3. ~Setup
      BY DEF Setup
    <2> QED
      BY <2>2, <2>3 DEF Next, Loaded, Unload, PlatformsFail, Shutdown, GatewayClosed, BleClosed,
         BleDrops, SocketDrops, ReceiveLoopEnds
  <1> QED
    BY <1>1, Invariance, PTL DEF Spec, ClosedOpensNothing
=============================================================================
