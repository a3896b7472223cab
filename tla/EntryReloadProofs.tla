------------------------- MODULE EntryReloadProofs -------------------------
(***************************************************************************)
(* Proofs about EntryReload, for any number of operations, any site and    *)
(* any bounds: type correctness, the life of the expecting marker, and     *)
(* that no change of the entry is lost.                                    *)
(***************************************************************************)
EXTENDS EntryReload, TLAPS

-----------------------------------------------------------------------------
(* Facts about the helpers. *)

\* A process is none of the other values the same slots can hold.
LEMMA ProcsDistinct ==
    /\ Ha # None /\ \A p \in Procs : p # None /\ p # Ha
    /\ \A m \in Managers : m # Poll /\ m \notin Unguarded
    /\ Poll \notin Unguarded
  BY EntryReloadAssumption DEF Procs

\* _transport_for answers with a preference that is used.
LEMMA TransportForType ==
    ASSUME NEW site \in Site, NEW pref \in Preferences
    PROVE  TransportFor(site, pref) \in Preferences
  BY EntryReloadAssumption DEF TransportFor

\* A management operation writes an entry.
LEMMA BuiltType ==
    ASSUME TypeOK, NEW m \in Managers
    PROVE  Built(m) \in Entry
  <1>1. /\ snap[m] \in Site /\ entry.site \in Site
        /\ choice[m] \in Preferences /\ entry.pref \in Preferences
        /\ "auto" \in Preferences
    BY EntryReloadAssumption DEF TypeOK, Entry
  <1> QED
    BY <1>1 DEF TypeOK, Entry, Built

\* The rollback writes an entry.
LEMMA RevertedType ==
    ASSUME TypeOK
    PROVE  Reverted \in Entry
  <1>1. /\ entry.site \in Site /\ poll.old.site \in Site
        /\ entry.pref \in Preferences /\ poll.old.pref \in Preferences
    BY DEF TypeOK, Entry
  <1>2. [k \in SiteKeys |-> IF entry.site[k] = poll.wrote.site[k]
                            THEN poll.old.site[k] ELSE entry.site[k]] \in Site
    BY <1>1 DEF Site
  <1> QED
    BY <1>1, <1>2 DEF TypeOK, Entry, Reverted

\* Both users of the entry edit it with at most one idle reload of their own.
LEMMA EditShape ==
    ASSUME TypeOK, OptionsFlow \/ Reconfigure
    PROVE  \E new \in Entry : \E us \in SUBSET Unguarded :
               Edit(new, us) /\ \A u \in us : pc[u] = "idle"
  <1>1. CASE OptionsFlow
    <2> DEFINE new == [entry EXCEPT !.panel = @ + 1]
    <2>1. new \in Entry
      BY DEF TypeOK, Entry
    <2>2. Edit(new, {})
      BY <1>1 DEF OptionsFlow
    <2> QED
      BY <2>1, <2>2
  <1>2. CASE Reconfigure
    <2> DEFINE new == [entry EXCEPT !.site = cloud]
    <2>1. new \in Entry
      BY DEF TypeOK, Entry
    <2>2. PICK u \in Unguarded : pc[u] = "idle" /\ Edit(new, {u})
      BY <1>2 DEF Reconfigure
    <2> QED
      BY <2>1, <2>2
  <1> QED
    BY <1>1, <1>2

\* An edit only starts reloads.
LEMMA EditStarts ==
    ASSUME NEW new, NEW us \in SUBSET Unguarded, Edit(new, us)
    PROVE  \E vs \in SUBSET Unguarded : Start(vs)
  BY DEF Edit, EditUnheard, EditSwallowed, EditPending, EditReload

-----------------------------------------------------------------------------
(* Type correctness. *)

\* An edit outside the lock keeps the types, whatever it writes.
LEMMA EditType ==
    ASSUME TypeOK, NEW new \in Entry, NEW us \in SUBSET Unguarded, Edit(new, us)
    PROVE  TypeOK'
  <1> DEFINE markers == /\ pc' \in [Procs -> PCs] /\ seq' \in Nat
                        /\ pending' \in BOOLEAN /\ expecting' \in BOOLEAN
                        /\ token' \in [Unguarded -> Nat \cup {None}]
                        /\ fault' \subseteq Faults
  <1>1. \A vs \in SUBSET Unguarded : Start(vs) => pc' \in [Procs -> PCs]
    BY DEF TypeOK, Start, PCs, Reloading
  <1>2. ASSUME EditUnheard(new, us)
        PROVE  markers
    BY <1>1, <1>2 DEF TypeOK, EditUnheard, markerVars, Faults
  <1>3. ASSUME EditSwallowed(new, us)
        PROVE  markers
    BY <1>1, <1>3 DEF TypeOK, EditSwallowed, markerVars, Faults
  <1>4. ASSUME EditPending(new, us)
        PROVE  markers
    BY <1>1, <1>4 DEF TypeOK, EditPending, MarkPending
  <1>5. ASSUME EditReload(new, us)
        PROVE  markers
    BY <1>1, <1>5 DEF TypeOK, EditReload, PendingToken
  <1>6. markers
    BY <1>2, <1>3, <1>4, <1>5 DEF Edit
  <1> QED
    BY <1>6 DEF TypeOK, Edit, haVars, managerVars

\* Every step keeps the types, one case per handler.
LEMMA TypeStep == TypeOK /\ [Next]_vars => TypeOK'
  <1> SUFFICES ASSUME TypeOK, [Next]_vars
               PROVE  TypeOK'
    OBVIOUS
  <1> USE EntryReloadAssumption, ProcsDistinct
      DEF TypeOK, Procs, haVars, markerVars, managerVars
  <1>1. CASE UNCHANGED vars
    BY <1>1 DEF vars
  <1>2. CASE AppChange
    BY <1>2 DEF AppChange, CloudChange, Site
  <1>3. ASSUME NEW m \in Managers, ManagerMutate(m)
        PROVE  TypeOK'
    <2>1. cloud' \in Site
      BY <1>3 DEF ManagerMutate, CloudChange, Site
    <2>2. kind' \in [Managers -> AllKinds]
      BY <1>3 DEF ManagerMutate, AllKinds
    <2>3. pc' \in [Procs -> PCs]
      BY <1>3 DEF ManagerMutate, PCs
    <2> QED
      BY <1>3, <2>1, <2>2, <2>3 DEF ManagerMutate
  <1>4. ASSUME NEW m \in Managers, ManagerFetch(m)
        PROVE  TypeOK'
    BY <1>4 DEF ManagerFetch, Entry, PCs
  <1>5. ASSUME NEW m \in Managers, ManagerFetchFails(m)
        PROVE  TypeOK'
    BY <1>5 DEF ManagerFetchFails, PCs
  <1>6. ASSUME NEW m \in Managers, ManagerAsks(m)
        PROVE  TypeOK'
    BY <1>6 DEF ManagerAsks, AllKinds, PCs
  <1>7. ASSUME NEW m \in Managers, ManagerWrite(m)
        PROVE  TypeOK'
    BY <1>7, BuiltType DEF ManagerWrite, SelfUpdate, PCs, Reloading
  <1>8. ASSUME NEW m \in Managers, ManagerSaveFails(m)
        PROVE  TypeOK'
    <2>1. failures' \in Nat
      BY <1>8 DEF ManagerSaveFails, Fail
    <2>2. pc' \in [Procs -> PCs]
      BY <1>8 DEF ManagerSaveFails, EndSession, PCs
    <2> QED
      BY <1>8, <2>1, <2>2 DEF ManagerSaveFails, EndSession
  <1>9. ASSUME NEW m \in Managers, ManagerWriteQuiet(m)
        PROVE  TypeOK'
    BY <1>9 DEF ManagerWriteQuiet, PCs
  <1>10. ASSUME NEW m \in Managers, ManagerRelease(m)
        PROVE  TypeOK'
    BY <1>10 DEF ManagerRelease, EndSession, PCs, Faults
  <1>11. ASSUME NEW m \in Managers, FollowUp(m)
        PROVE  TypeOK'
    BY <1>11 DEF FollowUp, PCs, Reloading
  <1>12. ASSUME NEW m \in Managers, ManagerFollowed(m)
        PROVE  TypeOK'
    <2>1. MarkPending \/ UNCHANGED <<pending, seq>>
      BY <1>12, Zenon DEF ManagerFollowed
    <2>2. seq' \in Nat
      BY <2>1 DEF MarkPending
    <2>3. pending' \in BOOLEAN
      BY <2>1, Zenon DEF MarkPending
    <2>4. pc' \in [Procs -> PCs]
      BY <1>12 DEF ManagerFollowed, PCs
    <2> QED
      BY <1>12, <2>2, <2>4, <2>3 DEF ManagerFollowed, Faults
  <1>13. CASE PollStart
    BY <1>13 DEF PollStart, PCs
  <1>14. CASE PollArrive
    BY <1>14 DEF PollArrive, Entry, PCs
  <1>15. CASE PollGivesUp
    BY <1>15 DEF PollGivesUp, PCs
  <1>16. CASE PollSkip
    BY <1>16 DEF PollSkip, EndSession, PCs
  <1>17. CASE PollWrite
    BY <1>17, TransportForType DEF PollWrite, SelfUpdate, Entry, PCs, Reloading
  <1>18. CASE PollRelease
    BY <1>18 DEF PollRelease, EndSession, PCs
  <1>19. CASE FollowUp(Poll)
    BY <1>19 DEF FollowUp, PCs, Reloading
  <1>20. CASE PollFollowed
    <2>1. MarkPending \/ UNCHANGED <<pending, seq>>
      BY <1>20, Zenon DEF PollFollowed
    <2>2. seq' \in Nat
      BY <2>1 DEF MarkPending
    <2>3. pending' \in BOOLEAN
      BY <2>1, Zenon DEF MarkPending
    <2>4. pc' \in [Procs -> PCs]
      BY <1>20 DEF PollFollowed, PCs
    <2> QED
      BY <1>20, <2>2, <2>4, <2>3 DEF PollFollowed
  <1>21. CASE PollRevert
    BY <1>21, RevertedType DEF PollRevert, SelfUpdate, PCs, Reloading
  <1>22. CASE PollReverted
    BY <1>22 DEF PollReverted, PCs, Faults
  <1>23. CASE OptionsFlow \/ Reconfigure
    BY <1>23, EditShape, EditType
  <1>24. ASSUME NEW u \in Unguarded, UnguardedDone(u)
        PROVE  TypeOK'
    BY <1>24 DEF UnguardedDone, PCs, Faults
  <1>25. ASSUME NEW p \in Procs, HaBegin(p)
        PROVE  TypeOK'
    BY <1>25 DEF HaBegin, Phases
  <1>26. CASE HaRetry
    BY <1>26 DEF HaRetry, Phases
  <1>27. CASE HaUnloadRefused
    BY <1>27 DEF HaUnloadRefused, Finish, Fail, Phases
  <1>28. CASE HaUnload
    BY <1>28 DEF HaUnload, Phases
  <1>29. CASE HaLoad
    BY <1>29 DEF HaLoad, Phases
  <1>30. CASE HaSetupFails
    BY <1>30 DEF HaSetupFails, Finish, Fail, Phases
  <1>31. CASE HaHeal
    BY <1>31, TransportForType DEF HaHeal, Finish, Phases, Entry
  <1>32. CASE HaListen
    BY <1>32 DEF HaListen, Phases
  <1>33. CASE HaDone
    BY <1>33 DEF HaDone, Finish, Phases
  <1> QED
    BY <1>1, <1>2, <1>3, <1>4, <1>5, <1>6, <1>7, <1>8, <1>9, <1>10, <1>11, <1>12, <1>13, <1>14,
       <1>15, <1>16, <1>17, <1>18, <1>19, <1>20, <1>21, <1>22, <1>23, <1>24, <1>25, <1>26,
       <1>27, <1>28, <1>29, <1>30, <1>31, <1>32, <1>33
       DEF Next, ManagerStep, PollStep, HaStep

\* The entry is well formed when it is set up.
LEMMA InitType == Init => TypeOK
  <1> SUFFICES ASSUME Init
               PROVE  TypeOK
    OBVIOUS
  <1>1. cloud \in Site /\ entry \in Entry
    BY DEF Init, Site, Entry
  <1> QED
    BY <1>1, EntryReloadAssumption DEF Init, TypeOK, PCs, AllKinds, Phases

\* Every value a variable takes is of its type, for every instance.
THEOREM TypeCorrect == Spec => []TypeOK
  <1> QED
    BY InitType, TypeStep, PTL DEF Spec

-----------------------------------------------------------------------------
(* Lock sessions. *)

\* Home Assistant's part and the user's app leave the lock and its markers alone.
LEMMA HaFrame ==
    HaStep \/ AppChange => UNCHANGED <<lock, expecting, pending, seq, token, pc>>
  BY DEF HaStep, AppChange, HaRetry, HaUnloadRefused, HaUnload, HaLoad, HaSetupFails, HaHeal,
         HaListen, HaDone, haVars, markerVars

\* Edits and reloads outside the lock move only processes that never hold it.
LEMMA UnguardedFrame ==
    ASSUME TypeOK,
           OptionsFlow \/ Reconfigure \/ \E u \in Unguarded : UnguardedDone(u)
    PROVE  /\ lock' = lock
           /\ \A p \in Managers \cup {Poll} : pc'[p] = pc[p]
  <1>1. \A us \in SUBSET Unguarded : Start(us) =>
            \A p \in Managers \cup {Poll} : pc'[p] = pc[p]
    BY ProcsDistinct DEF Start, Procs
  <1>2. ASSUME NEW new, NEW us \in SUBSET Unguarded, Edit(new, us)
        PROVE  /\ lock' = lock
               /\ \A p \in Managers \cup {Poll} : pc'[p] = pc[p]
    <2>1. \E vs \in SUBSET Unguarded : Start(vs)
      BY <1>2, EditStarts
    <2> QED
      BY <1>1, <1>2, <2>1 DEF Edit
  <1>3. CASE OptionsFlow \/ Reconfigure
    BY <1>2, <1>3, EditShape
  <1>4. ASSUME NEW u \in Unguarded, UnguardedDone(u)
        PROVE  /\ lock' = lock
               /\ \A p \in Managers \cup {Poll} : pc'[p] = pc[p]
    BY <1>4, ProcsDistinct DEF TypeOK, Procs, UnguardedDone
  <1> QED
    BY <1>3, <1>4

\* Only a session's own process takes the lock, and only while it is free.
LEMMA LockStep == TypeOK /\ LockInv /\ [Next]_vars => LockInv'
  <1> SUFFICES ASSUME TypeOK, LockInv, [Next]_vars
               PROVE  LockInv'
    OBVIOUS
  <1> USE ProcsDistinct DEF TypeOK, Procs, LockInv, Holding
  <1>1. CASE UNCHANGED vars
    BY <1>1 DEF vars
  <1>2. CASE HaStep \/ AppChange
    BY <1>2, HaFrame
  <1>3. CASE OptionsFlow \/ Reconfigure \/ \E u \in Unguarded : UnguardedDone(u)
    BY <1>3, UnguardedFrame
  <1>4. ASSUME NEW p \in Procs, HaBegin(p)
        PROVE  LockInv'
    BY <1>4 DEF HaBegin
  <1>5. ASSUME NEW m \in Managers, ManagerMutate(m)
        PROVE  LockInv'
    BY <1>5 DEF ManagerMutate
  <1>6. ASSUME NEW m \in Managers, ManagerFetch(m)
        PROVE  LockInv'
    BY <1>6 DEF ManagerFetch
  <1>7. ASSUME NEW m \in Managers, ManagerFetchFails(m)
        PROVE  LockInv'
    BY <1>7 DEF ManagerFetchFails
  <1>8. ASSUME NEW m \in Managers, ManagerAsks(m)
        PROVE  LockInv'
    BY <1>8 DEF ManagerAsks
  <1>9. ASSUME NEW m \in Managers, ManagerWrite(m)
        PROVE  LockInv'
    BY <1>9 DEF ManagerWrite
  <1>10. ASSUME NEW m \in Managers, ManagerSaveFails(m)
        PROVE  LockInv'
    BY <1>10 DEF ManagerSaveFails, EndSession
  <1>11. ASSUME NEW m \in Managers, ManagerWriteQuiet(m)
        PROVE  LockInv'
    BY <1>11 DEF ManagerWriteQuiet
  <1>12. ASSUME NEW m \in Managers, ManagerRelease(m)
        PROVE  LockInv'
    BY <1>12 DEF ManagerRelease, EndSession
  <1>13. ASSUME NEW m \in Managers, FollowUp(m)
        PROVE  LockInv'
    BY <1>13 DEF FollowUp
  <1>14. ASSUME NEW m \in Managers, ManagerFollowed(m)
        PROVE  LockInv'
    BY <1>14 DEF ManagerFollowed
  <1>15. CASE PollStart
    BY <1>15 DEF PollStart
  <1>16. CASE PollArrive
    BY <1>16 DEF PollArrive
  <1>17. CASE PollGivesUp
    BY <1>17 DEF PollGivesUp
  <1>18. CASE PollSkip
    BY <1>18 DEF PollSkip, EndSession
  <1>19. CASE PollWrite
    BY <1>19 DEF PollWrite
  <1>20. CASE PollRelease
    BY <1>20 DEF PollRelease, EndSession
  <1>21. CASE FollowUp(Poll)
    BY <1>21 DEF FollowUp
  <1>22. CASE PollFollowed
    BY <1>22 DEF PollFollowed
  <1>23. CASE PollRevert
    BY <1>23 DEF PollRevert
  <1>24. CASE PollReverted
    BY <1>24 DEF PollReverted
  <1> QED
    BY <1>1, <1>2, <1>3, <1>4, <1>5, <1>6, <1>7, <1>8, <1>9, <1>10, <1>11, <1>12, <1>13, <1>14,
       <1>15, <1>16, <1>17, <1>18, <1>19, <1>20, <1>21, <1>22, <1>23, <1>24
       DEF Next, ManagerStep, PollStep

\* A session's last step clears the expecting marker.
LEMMA ExpectingStep == TypeOK /\ LockInv /\ ExpectingUnderLock /\ [Next]_vars => ExpectingUnderLock'
  <1> SUFFICES ASSUME TypeOK, LockInv, ExpectingUnderLock, [Next]_vars
               PROVE  ExpectingUnderLock'
    OBVIOUS
  <1> USE ProcsDistinct DEF TypeOK, Procs, LockInv, Holding, ExpectingUnderLock
  <1>1. CASE UNCHANGED vars
    BY <1>1 DEF vars
  <1>2. CASE HaStep \/ AppChange
    BY <1>2, HaFrame
  <1>3. CASE OptionsFlow \/ Reconfigure \/ \E u \in Unguarded : UnguardedDone(u)
    <2>1. expecting' => expecting
      BY <1>3 DEF OptionsFlow, Reconfigure, UnguardedDone, Edit, EditUnheard, EditSwallowed,
                  EditPending, EditReload
    <2> QED
      BY <1>3, <2>1, UnguardedFrame
  <1>4. ASSUME NEW p \in Procs, HaBegin(p)
        PROVE  ExpectingUnderLock'
    BY <1>4 DEF HaBegin
  <1>5. ASSUME NEW m \in Managers, ManagerMutate(m)
        PROVE  ExpectingUnderLock'
    BY <1>5 DEF ManagerMutate
  <1>6. ASSUME NEW m \in Managers, ManagerFetch(m)
        PROVE  ExpectingUnderLock'
    BY <1>6 DEF ManagerFetch
  <1>7. ASSUME NEW m \in Managers, ManagerFetchFails(m)
        PROVE  ExpectingUnderLock'
    BY <1>7 DEF ManagerFetchFails
  <1>8. ASSUME NEW m \in Managers, ManagerAsks(m)
        PROVE  ExpectingUnderLock'
    BY <1>8 DEF ManagerAsks
  <1>9. ASSUME NEW m \in Managers, ManagerWrite(m)
        PROVE  ExpectingUnderLock'
    BY <1>9 DEF ManagerWrite, SelfUpdate
  <1>10. ASSUME NEW m \in Managers, ManagerSaveFails(m)
        PROVE  ExpectingUnderLock'
    BY <1>10 DEF ManagerSaveFails, EndSession
  <1>11. ASSUME NEW m \in Managers, ManagerWriteQuiet(m)
        PROVE  ExpectingUnderLock'
    BY <1>11 DEF ManagerWriteQuiet
  <1>12. ASSUME NEW m \in Managers, ManagerRelease(m)
        PROVE  ExpectingUnderLock'
    BY <1>12 DEF ManagerRelease, EndSession
  <1>13. ASSUME NEW m \in Managers, FollowUp(m)
        PROVE  ExpectingUnderLock'
    BY <1>13 DEF FollowUp
  <1>14. ASSUME NEW m \in Managers, ManagerFollowed(m)
        PROVE  ExpectingUnderLock'
    BY <1>14 DEF ManagerFollowed
  <1>15. CASE PollStart
    BY <1>15 DEF PollStart
  <1>16. CASE PollArrive
    BY <1>16 DEF PollArrive
  <1>17. CASE PollGivesUp
    BY <1>17 DEF PollGivesUp
  <1>18. CASE PollSkip
    BY <1>18 DEF PollSkip, EndSession
  <1>19. CASE PollWrite
    BY <1>19 DEF PollWrite, SelfUpdate
  <1>20. CASE PollRelease
    BY <1>20 DEF PollRelease, EndSession
  <1>21. CASE FollowUp(Poll)
    BY <1>21 DEF FollowUp
  <1>22. CASE PollFollowed
    BY <1>22 DEF PollFollowed
  <1>23. CASE PollRevert
    BY <1>23 DEF PollRevert, SelfUpdate
  <1>24. CASE PollReverted
    BY <1>24 DEF PollReverted
  <1> QED
    BY <1>1, <1>2, <1>3, <1>4, <1>5, <1>6, <1>7, <1>8, <1>9, <1>10, <1>11, <1>12, <1>13, <1>14,
       <1>15, <1>16, <1>17, <1>18, <1>19, <1>20, <1>21, <1>22, <1>23, <1>24
       DEF Next, ManagerStep, PollStep

-----------------------------------------------------------------------------
(* Reloads. *)

\* Home Assistant answers exactly the process it reloads for.
LEMMA ReloadStep == TypeOK /\ ReloadInv /\ [Next]_vars => ReloadInv'
  <1> SUFFICES ASSUME TypeOK, ReloadInv, [Next]_vars
               PROVE  ReloadInv'
    OBVIOUS
  <1> USE ProcsDistinct, NoneIsNoEntry DEF TypeOK, Procs, Reloading, ReloadInv, haVars, markerVars, managerVars
  <1>1. CASE UNCHANGED vars
    BY <1>1 DEF vars
  <1>2. CASE AppChange
    BY <1>2 DEF AppChange
  <1>3. ASSUME NEW new, NEW us \in SUBSET Unguarded, Edit(new, us)
        PROVE  ReloadInv'
    <2>1. \E vs \in SUBSET Unguarded : Start(vs)
      BY <1>3, EditStarts
    <2> QED
      BY <1>3, <2>1 DEF Edit, Start
  <1>4. CASE OptionsFlow \/ Reconfigure
    BY <1>3, <1>4, EditShape
  <1>5. ASSUME NEW u \in Unguarded, UnguardedDone(u)
        PROVE  ReloadInv'
    BY <1>5 DEF UnguardedDone
  <1>6. ASSUME NEW p \in Procs, HaBegin(p)
        PROVE  ReloadInv'
    BY <1>6 DEF HaBegin
  <1>7. ASSUME NEW m \in Managers, ManagerMutate(m)
        PROVE  ReloadInv'
    BY <1>7 DEF ManagerMutate
  <1>8. ASSUME NEW m \in Managers, ManagerFetch(m)
        PROVE  ReloadInv'
    BY <1>8 DEF ManagerFetch
  <1>9. ASSUME NEW m \in Managers, ManagerFetchFails(m)
        PROVE  ReloadInv'
    BY <1>9 DEF ManagerFetchFails
  <1>10. ASSUME NEW m \in Managers, ManagerAsks(m)
        PROVE  ReloadInv'
    BY <1>10 DEF ManagerAsks
  <1>11. ASSUME NEW m \in Managers, ManagerWrite(m)
        PROVE  ReloadInv'
    BY <1>11 DEF ManagerWrite
  <1>12. ASSUME NEW m \in Managers, ManagerSaveFails(m)
        PROVE  ReloadInv'
    BY <1>12 DEF ManagerSaveFails, EndSession
  <1>13. ASSUME NEW m \in Managers, ManagerWriteQuiet(m)
        PROVE  ReloadInv'
    BY <1>13 DEF ManagerWriteQuiet
  <1>14. ASSUME NEW m \in Managers, ManagerRelease(m)
        PROVE  ReloadInv'
    BY <1>14 DEF ManagerRelease, EndSession
  <1>15. ASSUME NEW m \in Managers, FollowUp(m)
        PROVE  ReloadInv'
    BY <1>15 DEF FollowUp
  <1>16. ASSUME NEW m \in Managers, ManagerFollowed(m)
        PROVE  ReloadInv'
    BY <1>16 DEF ManagerFollowed
  <1>17. CASE PollStart
    BY <1>17 DEF PollStart
  <1>18. CASE PollArrive
    BY <1>18 DEF PollArrive
  <1>19. CASE PollGivesUp
    BY <1>19 DEF PollGivesUp
  <1>20. CASE PollSkip
    BY <1>20 DEF PollSkip, EndSession
  <1>21. CASE PollWrite
    BY <1>21 DEF PollWrite
  <1>22. CASE PollRelease
    BY <1>22 DEF PollRelease, EndSession
  <1>23. CASE FollowUp(Poll)
    BY <1>23 DEF FollowUp
  <1>24. CASE PollFollowed
    BY <1>24 DEF PollFollowed
  <1>25. CASE PollRevert
    BY <1>25 DEF PollRevert
  <1>26. CASE PollReverted
    BY <1>26 DEF PollReverted
  <1>27. CASE HaRetry
    BY <1>27 DEF HaRetry
  <1>28. CASE HaUnloadRefused
    BY <1>28 DEF HaUnloadRefused, Finish
  <1>29. CASE HaUnload
    BY <1>29 DEF HaUnload
  <1>30. CASE HaLoad
    BY <1>30 DEF HaLoad
  <1>31. CASE HaSetupFails
    BY <1>31 DEF HaSetupFails, Finish
  <1>32. CASE HaHeal
    BY <1>32 DEF HaHeal, Finish
  <1>33. CASE HaListen
    BY <1>33 DEF HaListen
  <1>34. CASE HaDone
    BY <1>34 DEF HaDone, Finish
  <1> QED
    BY <1>1, <1>2, <1>3, <1>4, <1>5, <1>6, <1>7, <1>8, <1>9, <1>10, <1>11, <1>12,
       <1>13, <1>14, <1>15, <1>16, <1>17, <1>18, <1>19, <1>20, <1>21, <1>22, <1>23, <1>24,
       <1>25, <1>26, <1>27, <1>28, <1>29, <1>30, <1>31, <1>32, <1>33, <1>34
    DEF Next, ManagerStep, PollStep, HaStep

\* A token is never newer than the pending marker.
LEMMA TokenStep == TypeOK /\ TokenInv /\ [Next]_vars => TokenInv'
  <1> SUFFICES ASSUME TypeOK, TokenInv, [Next]_vars
               PROVE  TokenInv'
    OBVIOUS
  <1> USE ProcsDistinct DEF TypeOK, Procs, TokenInv, haVars, markerVars, managerVars
  <1>1. CASE UNCHANGED vars
    BY <1>1 DEF vars
  <1>2. CASE AppChange
    BY <1>2 DEF AppChange
  <1>3. ASSUME NEW new, NEW us \in SUBSET Unguarded, Edit(new, us),
               \A u \in us : pc[u] = "idle"
        PROVE  TokenInv'
    BY <1>3
       DEF Edit, EditUnheard, EditSwallowed, EditPending, EditReload, Start, MarkPending,
           PendingToken
  <1>4. CASE OptionsFlow \/ Reconfigure
    BY <1>3, <1>4, EditShape
  <1>5. ASSUME NEW u \in Unguarded, UnguardedDone(u)
        PROVE  TokenInv'
    BY <1>5 DEF UnguardedDone
  <1>6. ASSUME NEW p \in Procs, HaBegin(p)
        PROVE  TokenInv'
    BY <1>6 DEF HaBegin
  <1>7. ASSUME NEW m \in Managers, ManagerMutate(m)
        PROVE  TokenInv'
    BY <1>7 DEF ManagerMutate
  <1>8. ASSUME NEW m \in Managers, ManagerFetch(m)
        PROVE  TokenInv'
    BY <1>8 DEF ManagerFetch
  <1>9. ASSUME NEW m \in Managers, ManagerFetchFails(m)
        PROVE  TokenInv'
    BY <1>9 DEF ManagerFetchFails
  <1>10. ASSUME NEW m \in Managers, ManagerAsks(m)
        PROVE  TokenInv'
    BY <1>10 DEF ManagerAsks
  <1>11. ASSUME NEW m \in Managers, ManagerWrite(m)
        PROVE  TokenInv'
    BY <1>11 DEF ManagerWrite
  <1>12. ASSUME NEW m \in Managers, ManagerSaveFails(m)
        PROVE  TokenInv'
    BY <1>12 DEF ManagerSaveFails, EndSession
  <1>13. ASSUME NEW m \in Managers, ManagerWriteQuiet(m)
        PROVE  TokenInv'
    BY <1>13 DEF ManagerWriteQuiet
  <1>14. ASSUME NEW m \in Managers, ManagerRelease(m)
        PROVE  TokenInv'
    BY <1>14 DEF ManagerRelease, EndSession
  <1>15. ASSUME NEW m \in Managers, FollowUp(m)
        PROVE  TokenInv'
    BY <1>15 DEF FollowUp
  <1>16. ASSUME NEW m \in Managers, ManagerFollowed(m)
        PROVE  TokenInv'
    BY <1>16 DEF ManagerFollowed, MarkPending
  <1>17. CASE PollStart
    BY <1>17 DEF PollStart
  <1>18. CASE PollArrive
    BY <1>18 DEF PollArrive
  <1>19. CASE PollGivesUp
    BY <1>19 DEF PollGivesUp
  <1>20. CASE PollSkip
    BY <1>20 DEF PollSkip, EndSession
  <1>21. CASE PollWrite
    BY <1>21 DEF PollWrite
  <1>22. CASE PollRelease
    BY <1>22 DEF PollRelease, EndSession
  <1>23. CASE FollowUp(Poll)
    BY <1>23 DEF FollowUp
  <1>24. CASE PollFollowed
    BY <1>24 DEF PollFollowed, MarkPending
  <1>25. CASE PollRevert
    BY <1>25 DEF PollRevert
  <1>26. CASE PollReverted
    BY <1>26 DEF PollReverted
  <1>27. CASE HaRetry
    BY <1>27 DEF HaRetry
  <1>28. CASE HaUnloadRefused
    BY <1>28 DEF HaUnloadRefused, Finish
  <1>29. CASE HaUnload
    BY <1>29 DEF HaUnload
  <1>30. CASE HaLoad
    BY <1>30 DEF HaLoad
  <1>31. CASE HaSetupFails
    BY <1>31 DEF HaSetupFails, Finish
  <1>32. CASE HaHeal
    BY <1>32 DEF HaHeal, Finish
  <1>33. CASE HaListen
    BY <1>33 DEF HaListen
  <1>34. CASE HaDone
    BY <1>34 DEF HaDone, Finish
  <1> QED
    BY <1>1, <1>2, <1>3, <1>4, <1>5, <1>6, <1>7, <1>8, <1>9, <1>10, <1>11, <1>12,
       <1>13, <1>14, <1>15, <1>16, <1>17, <1>18, <1>19, <1>20, <1>21, <1>22, <1>23, <1>24,
       <1>25, <1>26, <1>27, <1>28, <1>29, <1>30, <1>31, <1>32, <1>33, <1>34
    DEF Next, ManagerStep, PollStep, HaStep

-----------------------------------------------------------------------------
(* No change of the entry is lost. *)

\* A change without a marker, a debtor or a fault cannot be left behind.
LEMMA StaleStep == TypeOK /\ ReloadInv /\ TokenInv /\ ClaimInv /\ StaleIsExplained /\ [Next]_vars => StaleIsExplained'
  <1> SUFFICES ASSUME TypeOK, ReloadInv, TokenInv, ClaimInv, StaleIsExplained, [Next]_vars
               PROVE  StaleIsExplained'
    OBVIOUS
  <1> USE ProcsDistinct, NoneIsNoEntry DEF Procs, Reloading, TypeOK, ReloadInv, TokenInv, StaleIsExplained, Explained, Owes, haVars, markerVars, managerVars
  <1>1. CASE UNCHANGED vars
    BY <1>1 DEF vars
  <1>2. CASE AppChange
    BY <1>2 DEF AppChange
  <1>3. ASSUME NEW new, NEW us \in SUBSET Unguarded, Edit(new, us),
               \A u \in us : pc[u] = "idle"
        PROVE  StaleIsExplained'
    <2>1. CASE EditUnheard(new, us)
      BY <1>3, <2>1 DEF Edit, EditUnheard, Start
    <2>2. CASE EditSwallowed(new, us)
      BY <1>3, <2>2 DEF Edit, EditSwallowed
    <2>3. CASE EditPending(new, us)
      BY <1>3, <2>3 DEF EditPending, MarkPending
    <2>4. CASE EditReload(new, us)
      <3>1. PICK u \in Unguarded : pc[u] = "idle" /\ pc'[u] = "reload"
        BY <2>4 DEF EditReload, Start
      <3>2. Owes(u)'
        BY <1>3, <3>1 DEF Edit
      <3> QED
        BY <3>1, <3>2
    <2> QED
      BY <1>3, <2>1, <2>2, <2>3, <2>4 DEF Edit
  <1>4. CASE OptionsFlow \/ Reconfigure
    BY <1>3, <1>4, EditShape
  <1>5. ASSUME NEW u \in Unguarded, UnguardedDone(u)
        PROVE  StaleIsExplained'
    BY <1>5 DEF UnguardedDone, TakeToken, ClaimInv
  <1>6. ASSUME NEW p \in Procs, HaBegin(p)
        PROVE  StaleIsExplained'
    BY <1>6 DEF HaBegin
  <1>7. ASSUME NEW m \in Managers, ManagerMutate(m)
        PROVE  StaleIsExplained'
    BY <1>7 DEF ManagerMutate
  <1>8. ASSUME NEW m \in Managers, ManagerFetch(m)
        PROVE  StaleIsExplained'
    BY <1>8 DEF ManagerFetch
  <1>9. ASSUME NEW m \in Managers, ManagerFetchFails(m)
        PROVE  StaleIsExplained'
    BY <1>9 DEF ManagerFetchFails
  <1>10. ASSUME NEW m \in Managers, ManagerAsks(m)
        PROVE  StaleIsExplained'
    BY <1>10 DEF ManagerAsks
  <1>11. ASSUME NEW m \in Managers, ManagerWrite(m)
        PROVE  StaleIsExplained'
    BY <1>11 DEF ManagerWrite
  <1>12. ASSUME NEW m \in Managers, ManagerSaveFails(m)
        PROVE  StaleIsExplained'
    BY <1>12 DEF ManagerSaveFails, EndSession
  <1>13. ASSUME NEW m \in Managers, ManagerWriteQuiet(m)
        PROVE  StaleIsExplained'
    BY <1>13 DEF ManagerWriteQuiet
  <1>14. ASSUME NEW m \in Managers, ManagerRelease(m)
        PROVE  StaleIsExplained'
    BY <1>14 DEF ManagerRelease, EndSession
  <1>15. ASSUME NEW m \in Managers, FollowUp(m)
        PROVE  StaleIsExplained'
    BY <1>15 DEF FollowUp
  <1>16. ASSUME NEW m \in Managers, ManagerFollowed(m)
        PROVE  StaleIsExplained'
    BY <1>16 DEF ManagerFollowed, MarkPending
  <1>17. CASE PollStart
    BY <1>17 DEF PollStart
  <1>18. CASE PollArrive
    BY <1>18 DEF PollArrive
  <1>19. CASE PollGivesUp
    BY <1>19 DEF PollGivesUp
  <1>20. CASE PollSkip
    BY <1>20 DEF PollSkip, EndSession
  <1>21. CASE PollWrite
    BY <1>21 DEF PollWrite
  <1>22. CASE PollRelease
    BY <1>22 DEF PollRelease, EndSession
  <1>23. CASE FollowUp(Poll)
    BY <1>23 DEF FollowUp
  <1>24. CASE PollFollowed
    BY <1>24 DEF PollFollowed, MarkPending
  <1>25. CASE PollRevert
    BY <1>25 DEF PollRevert
  <1>26. CASE PollReverted
    BY <1>26 DEF PollReverted
  <1>27. CASE HaRetry
    BY <1>27 DEF HaRetry
  <1>28. CASE HaUnloadRefused
    BY <1>28 DEF HaUnloadRefused, Finish
  <1>29. CASE HaUnload
    BY <1>29 DEF HaUnload
  <1>30. CASE HaLoad
    BY <1>30 DEF HaLoad
  <1>31. CASE HaSetupFails
    BY <1>31 DEF HaSetupFails, Finish
  <1>32. CASE HaHeal
    BY <1>32 DEF HaHeal, Finish
  <1>33. CASE HaListen
    BY <1>33 DEF HaListen
  <1>34. CASE HaDone
    BY <1>34 DEF HaDone, Finish
  <1> QED
    BY <1>1, <1>2, <1>3, <1>4, <1>5, <1>6, <1>7, <1>8, <1>9, <1>10, <1>11, <1>12,
       <1>13, <1>14, <1>15, <1>16, <1>17, <1>18, <1>19, <1>20, <1>21, <1>22, <1>23, <1>24,
       <1>25, <1>26, <1>27, <1>28, <1>29, <1>30, <1>31, <1>32, <1>33, <1>34
    DEF Next, ManagerStep, PollStep, HaStep

\* No reload outside the lock knows a marker that is set just now.
LEMMA FreshMarker ==
    ASSUME TypeOK, TokenInv, MarkPending, UNCHANGED token
    PROVE  \A u \in Unguarded : token'[u] # seq'
  <1> SUFFICES ASSUME NEW u \in Unguarded, token[u] = seq + 1
               PROVE  FALSE
    BY DEF MarkPending
  <1>1. seq \in Nat /\ token[u] # None
    BY NoneIsNoEntry DEF TypeOK
  <1>2. token[u] # None => token[u] <= seq
    BY DEF TokenInv
  <1> QED
    BY <1>1, <1>2

\* A step that leaves markers and entry alone and answers no reload keeps the claims.
LEMMA ClaimKept ==
    ASSUME ClaimInv, UNCHANGED <<pending, seq, token, live, entry>>,
           \A u \in Unguarded : \/ res'[u] = "ok" => res[u] = "ok"
                                \/ owner = u /\ phase \in {"setup", "listening"},
           \A u \in Unguarded : owner' = u /\ phase' \in {"setup", "listening"}
                                => owner = u /\ phase \in {"setup", "listening"},
           Explained => Explained'
    PROVE  ClaimInv'
  BY DEF ClaimInv

\* A marker claimed outside the lock is older than the reload it is claimed by.
LEMMA ClaimStep == TypeOK /\ ReloadInv /\ TokenInv /\ ClaimInv /\ StaleIsExplained /\ [Next]_vars => ClaimInv'
  <1> SUFFICES ASSUME TypeOK, ReloadInv, TokenInv, ClaimInv, StaleIsExplained, [Next]_vars
               PROVE  ClaimInv'
    OBVIOUS
  <1> USE ProcsDistinct, NoneIsNoEntry DEF Procs, Reloading, TypeOK, ReloadInv, TokenInv, ClaimInv, Explained, Owes, haVars, markerVars, managerVars
  <1>1. CASE UNCHANGED vars
    BY <1>1 DEF vars
  <1>2. CASE AppChange
    BY <1>2 DEF AppChange
  <1>3. ASSUME NEW new, NEW us \in SUBSET Unguarded, Edit(new, us),
               \A u \in us : pc[u] = "idle"
        PROVE  ClaimInv'
    <2>1. CASE EditUnheard(new, us)
      <3>1. CASE new # entry /\ live # None
        BY <1>3, <2>1, <3>1 DEF Edit, EditUnheard
      <3>2. CASE ~(new # entry /\ live # None)
        <4>1. /\ fault' = fault /\ entry' = new
              /\ UNCHANGED <<pending, seq, token, live, owner, phase, res>>
          BY <1>3, <2>1, <3>2 DEF Edit, EditUnheard
        <4>2. \A q \in Procs : pc'[q] = pc[q] \/ pc[q] = "idle"
          BY <1>3, <2>1 DEF EditUnheard, Start
        <4>3. Explained => Explained'
          BY <4>1, <4>2
        <4> QED
          BY <3>2, <4>1, <4>3
      <3> QED
        BY <3>1, <3>2
    <2>2. CASE EditSwallowed(new, us)
      BY <1>3, <2>2 DEF Edit, EditSwallowed, Start
    <2>3. CASE EditPending(new, us)
      BY <1>3, <2>3, FreshMarker DEF Edit, EditPending
    <2>4. CASE EditReload(new, us)
      <3>1. PICK u \in Unguarded : pc[u] = "idle" /\ pc'[u] = "reload"
        BY <2>4 DEF EditReload, Start
      <3>2. Owes(u)'
        BY <1>3, <3>1 DEF Edit
      <3> QED
        BY <3>1, <3>2
    <2> QED
      BY <1>3, <2>1, <2>2, <2>3, <2>4 DEF Edit
  <1>4. CASE OptionsFlow \/ Reconfigure
    BY <1>3, <1>4, EditShape
  <1>5. ASSUME NEW u \in Unguarded, UnguardedDone(u)
        PROVE  ClaimInv'
    <2> SUFFICES ASSUME NEW v \in Unguarded, pending', token'[v] = seq',
                        res'[v] = "ok" \/ (owner' = v /\ phase' \in {"setup", "listening"}),
                        live' # None, live' # entry'
                 PROVE  Explained'
      OBVIOUS
    <2>1. /\ UNCHANGED <<seq, live, entry, owner, phase>> /\ (pending' => pending)
          /\ fault \subseteq fault' /\ (res[u] = "failed" => fault' # {})
          /\ pc[u] = "reload" /\ res[u] # "none"
      BY <1>5, Zenon DEF UnguardedDone
    <2>2. \A q \in Procs \ {u} : pc'[q] = pc[q] /\ res'[q] = res[q]
      BY <1>5 DEF UnguardedDone
    <2>3. v # u /\ token'[v] = token[v]
      BY <1>5 DEF UnguardedDone
    <2>4. Explained
      BY <2>1, <2>2, <2>3
    <2>5. \A q \in Procs \ {u} : Owes(q) => Owes(q)'
      BY <2>1, <2>2
    <2>6. Owes(u) => res[u] = "failed"
      BY <2>1
    <2> QED
      BY <2>1, <2>4, <2>5, <2>6
  <1>6. ASSUME NEW p \in Procs, HaBegin(p)
        PROVE  ClaimInv'
    <2>1. /\ phase' \in {"unload", "load"} /\ owner' = p
          /\ UNCHANGED <<pending, seq, token, live, entry, res, pc, fault>>
      BY <1>6 DEF HaBegin
    <2>2. \A q \in Procs : Owes(q) => Owes(q)'
      BY <2>1
    <2> QED
      BY <2>1, <2>2, ClaimKept
  <1>7. ASSUME NEW m \in Managers, ManagerMutate(m)
        PROVE  ClaimInv'
    BY <1>7 DEF ManagerMutate
  <1>8. ASSUME NEW m \in Managers, ManagerFetch(m)
        PROVE  ClaimInv'
    BY <1>8 DEF ManagerFetch
  <1>9. ASSUME NEW m \in Managers, ManagerFetchFails(m)
        PROVE  ClaimInv'
    BY <1>9 DEF ManagerFetchFails
  <1>10. ASSUME NEW m \in Managers, ManagerAsks(m)
        PROVE  ClaimInv'
    BY <1>10 DEF ManagerAsks
  <1>11. ASSUME NEW m \in Managers, ManagerWrite(m)
        PROVE  ClaimInv'
    BY <1>11 DEF ManagerWrite
  <1>12. ASSUME NEW m \in Managers, ManagerSaveFails(m)
        PROVE  ClaimInv'
    BY <1>12 DEF ManagerSaveFails, EndSession
  <1>13. ASSUME NEW m \in Managers, ManagerWriteQuiet(m)
        PROVE  ClaimInv'
    BY <1>13 DEF ManagerWriteQuiet
  <1>14. ASSUME NEW m \in Managers, ManagerRelease(m)
        PROVE  ClaimInv'
    BY <1>14 DEF ManagerRelease, EndSession
  <1>15. ASSUME NEW m \in Managers, FollowUp(m)
        PROVE  ClaimInv'
    BY <1>15 DEF FollowUp
  <1>16. ASSUME NEW m \in Managers, ManagerFollowed(m)
        PROVE  ClaimInv'
    <2>1. CASE res[m] = "failed" /\ kind[m] # "quiet"
      BY <1>16, <2>1, FreshMarker DEF ManagerFollowed
    <2>2. CASE ~(res[m] = "failed" /\ kind[m] # "quiet")
      <3>1. /\ UNCHANGED <<pending, seq, token, live, entry, owner, phase>>
            /\ fault \subseteq fault' /\ (res[m] = "failed" => fault' # {})
            /\ pc[m] = "follow" /\ res[m] # "none"
        BY <1>16, <2>2 DEF ManagerFollowed
      <3>2. \A q \in Procs \ {m} : pc'[q] = pc[q] /\ res'[q] = res[q]
        BY <1>16 DEF ManagerFollowed
      <3>3. Explained => Explained'
        <4>1. \A q \in Procs \ {m} : Owes(q) => Owes(q)'
          BY <3>1, <3>2
        <4>2. Owes(m) => res[m] = "failed"
          BY <3>1
        <4> QED
          BY <3>1, <4>1, <4>2
      <3> QED
        BY <3>1, <3>2, <3>3, ClaimKept
    <2> QED
      BY <2>1, <2>2
  <1>17. CASE PollStart
    BY <1>17 DEF PollStart
  <1>18. CASE PollArrive
    BY <1>18 DEF PollArrive
  <1>19. CASE PollGivesUp
    BY <1>19 DEF PollGivesUp
  <1>20. CASE PollSkip
    BY <1>20 DEF PollSkip, EndSession
  <1>21. CASE PollWrite
    BY <1>21 DEF PollWrite
  <1>22. CASE PollRelease
    BY <1>22 DEF PollRelease, EndSession
  <1>23. CASE FollowUp(Poll)
    BY <1>23 DEF FollowUp
  <1>24. CASE PollFollowed
    <2>1. CASE res[Poll] = "failed"
      BY <1>24, <2>1, FreshMarker DEF PollFollowed
    <2>2. CASE ~(res[Poll] = "failed")
      <3>1. /\ UNCHANGED <<pending, seq, token, live, entry, owner, phase, fault>>
            /\ pc[Poll] = "follow" /\ res[Poll] \notin {"none", "failed"}
        BY <1>24, <2>2 DEF PollFollowed
      <3>2. \A q \in Procs \ {Poll} : pc'[q] = pc[q] /\ res'[q] = res[q]
        BY <1>24 DEF PollFollowed
      <3>3. Explained => Explained'
        <4>1. \A q \in Procs \ {Poll} : Owes(q) => Owes(q)'
          BY <3>1, <3>2
        <4>2. ~Owes(Poll)
          BY <3>1
        <4> QED
          BY <3>1, <4>1, <4>2
      <3> QED
        BY <3>1, <3>2, <3>3, ClaimKept
    <2> QED
      BY <2>1, <2>2
  <1>25. CASE PollRevert
    BY <1>25 DEF PollRevert
  <1>26. CASE PollReverted
    <2>1. /\ UNCHANGED <<pending, seq, token, live, entry, owner, phase>>
          /\ fault \subseteq fault' /\ (res[Poll] = "failed" => fault' # {})
          /\ pc[Poll] = "revert" /\ res[Poll] # "none"
      BY <1>26 DEF PollReverted
    <2>2. \A q \in Procs \ {Poll} : pc'[q] = pc[q] /\ res'[q] = res[q]
      BY <1>26 DEF PollReverted
    <2>3. Explained => Explained'
      <3>1. \A q \in Procs \ {Poll} : Owes(q) => Owes(q)'
        BY <2>1, <2>2
      <3>2. Owes(Poll) => res[Poll] = "failed"
        BY <2>1
      <3> QED
        BY <2>1, <3>1, <3>2
    <2> QED
      BY <2>1, <2>2, <2>3, ClaimKept
  <1>27. CASE HaRetry
    BY <1>27 DEF HaRetry
  <1>28. CASE HaUnloadRefused
    BY <1>28 DEF HaUnloadRefused, Finish
  <1>29. CASE HaUnload
    BY <1>29 DEF HaUnload
  <1>30. CASE HaLoad
    BY <1>30 DEF HaLoad
  <1>31. CASE HaSetupFails
    BY <1>31 DEF HaSetupFails, Finish
  <1>32. CASE HaHeal
    BY <1>32 DEF HaHeal, Finish
  <1>33. CASE HaListen
    BY <1>33 DEF HaListen
  <1>34. CASE HaDone
    BY <1>34 DEF HaDone, Finish
  <1> QED
    BY <1>1, <1>2, <1>3, <1>4, <1>5, <1>6, <1>7, <1>8, <1>9, <1>10, <1>11, <1>12,
       <1>13, <1>14, <1>15, <1>16, <1>17, <1>18, <1>19, <1>20, <1>21, <1>22, <1>23, <1>24,
       <1>25, <1>26, <1>27, <1>28, <1>29, <1>30, <1>31, <1>32, <1>33, <1>34
    DEF Next, ManagerStep, PollStep, HaStep


-----------------------------------------------------------------------------
(* The invariant, and what follows from it. *)

\* Nothing is going on at first.
LEMMA InitInv == Init => IInv
  <1> SUFFICES ASSUME Init
               PROVE  IInv
    OBVIOUS
  <1>1. TypeOK
    BY InitType
  <1>2. LockInv /\ ExpectingUnderLock
    BY ProcsDistinct DEF Init, LockInv, ExpectingUnderLock, Holding, Procs
  <1>3. ReloadInv /\ TokenInv
    BY ProcsDistinct, NoneIsNoEntry, <1>1 DEF TypeOK, Init, ReloadInv, TokenInv, Procs
  <1>4. ClaimInv /\ StaleIsExplained
    BY DEF Init, ClaimInv, StaleIsExplained
  <1> QED
    BY <1>1, <1>2, <1>3, <1>4 DEF IInv

\* The invariant is inductive.
THEOREM Invariance == Spec => []IInv
  <1>1. IInv /\ [Next]_vars => IInv'
    BY TypeStep, LockStep, ExpectingStep, ReloadStep, TokenStep, ClaimStep, StaleStep DEF IInv
  <1> QED
    BY InitInv, <1>1, PTL DEF Spec

\* The expecting marker never outlives the session that set it.
THEOREM MarkerIsLocal == Spec => []ExpectingUnderLock
  <1>1. IInv => ExpectingUnderLock
    BY DEF IInv
  <1> QED
    BY Invariance, <1>1, PTL

\* No change of the entry is lost without a fault that says so.
THEOREM NoChangeLost == Spec => []StaleIsExplained
  <1>1. IInv => StaleIsExplained
    BY DEF IInv
  <1> QED
    BY Invariance, <1>1, PTL

=============================================================================
