------------------------- MODULE ServerManagerProofs -------------------------
(***************************************************************************)
(* Theorems about ServerManager: the properties its TLC runs check, for    *)
(* every value of the constants, by one inductive invariant; the           *)
(* refinement of ServerLifecycle; and what ServerIntent's history says of  *)
(* the WatchDog.                                                           *)
(***************************************************************************)
EXTENDS ServerIntent, TLAPS

\* Every action of server_mgr.py and of its callers keeps the types.
LEMMA TypeNext == TypeOK /\ Next => TypeOK'
<1> SUFFICES ASSUME TypeOK, Next PROVE TypeOK'
  OBVIOUS
<1> USE BoundAssumption DEF TypeOK, Thread, PC, StartPC, StopPC, FreePC, HeldPC, MidPC, Job, StopMode, Look, Go, Finish, Untouch, files, locks, memory, counters
<1>1. ASSUME NEW t \in Thread, NEW j \in {"start", "stop", "restart"}, Request(t, j) PROVE TypeOK'
  BY <1>1 DEF Request
<1>2. ASSUME NEW t \in Thread, WatchdogLook(t) PROVE TypeOK'
  BY <1>2 DEF WatchdogLook
<1>3. ASSUME NEW t \in Thread, PlannedBegin(t) PROVE TypeOK'
  BY <1>3 DEF PlannedBegin
<1>4. ASSUME NEW t \in Thread, UpdateBegin(t) PROVE TypeOK'
  BY <1>4 DEF UpdateBegin
<1>5. ASSUME NEW t \in Thread, UpdateDropped(t) PROVE TypeOK'
  BY <1>5 DEF UpdateDropped
<1>6. ASSUME NEW t \in Thread, EnterStart(t) PROVE TypeOK'
  BY <1>6 DEF EnterStart
<1>7. ASSUME NEW t \in Thread, EnterStop(t) PROVE TypeOK'
  BY <1>7 DEF EnterStop
<1>8. ASSUME NEW t \in Thread, AcquireForPrepare(t) PROVE TypeOK'
  BY <1>8 DEF AcquireForPrepare, TryServerLock
<1>9. ASSUME NEW t \in Thread, PrepareOk(t) PROVE TypeOK'
  BY <1>9 DEF PrepareOk, Released
<1>10. ASSUME NEW t \in Thread, PrepareFails(t) PROVE TypeOK'
  BY <1>10 DEF PrepareFails, Released
<1>11. ASSUME NEW t \in Thread, AcquireForStart(t) PROVE TypeOK'
  BY <1>11 DEF AcquireForStart, TryServerLock
<1>12. ASSUME NEW t \in Thread, ExeMissing(t) PROVE TypeOK'
  BY <1>12 DEF ExeMissing
<1>13. ASSUME NEW t \in Thread, StartCheck(t) PROVE TypeOK'
  BY <1>13 DEF StartCheck
<1>14. ASSUME NEW t \in Thread, Spawn(t) PROVE TypeOK'
  BY <1>14 DEF Spawn
<1>15. ASSUME NEW t \in Thread, SpawnFails(t) PROVE TypeOK'
  BY <1>15 DEF SpawnFails
<1>16. ASSUME NEW t \in Thread, Confirm(t) PROVE TypeOK'
  BY <1>16 DEF Confirm
<1>17. ASSUME NEW t \in Thread, ConfirmFails(t) PROVE TypeOK'
  BY <1>17 DEF ConfirmFails
<1>18. ASSUME NEW t \in Thread, ClearStopped(t) PROVE TypeOK'
  BY <1>18 DEF ClearStopped
<1>19. ASSUME NEW t \in Thread, LeaveStart(t) PROVE TypeOK'
  BY <1>19 DEF LeaveStart
<1>20. ASSUME NEW t \in Thread, ReleaseServerLock(t) PROVE TypeOK'
  BY <1>20 DEF ReleaseServerLock, Released
<1>21. ASSUME NEW t \in Thread, TouchStopped(t) PROVE TypeOK'
  BY <1>21 DEF TouchStopped
<1>22. ASSUME NEW t \in Thread, ShutdownSent(t) PROVE TypeOK'
  BY <1>22 DEF ShutdownSent
<1>23. ASSUME NEW t \in Thread, ShutdownRefused(t) PROVE TypeOK'
  <2>1. stoppedFlag' \in BOOLEAN /\ seen' \in BOOLEAN /\ baselined' \in BOOLEAN /\ stopping' \in BOOLEAN
    BY <1>23, Zenon DEF ShutdownRefused
  <2>. QED
    BY <1>23, <2>1 DEF ShutdownRefused
<1>24. ASSUME NEW t \in Thread, TaskKill(t) PROVE TypeOK'
  BY <1>24 DEF TaskKill
<1>25. ASSUME NEW t \in Thread, AwaitDead(t) PROVE TypeOK'
  <2>1. stoppedFlag' \in BOOLEAN /\ seen' \in BOOLEAN /\ baselined' \in BOOLEAN /\ stopping' \in BOOLEAN
    BY <1>25, Zenon DEF AwaitDead
  <2>. QED
    BY <1>25, <2>1 DEF AwaitDead
<1>26. ASSUME NEW t \in Thread, CleanUpStop(t) PROVE TypeOK'
  BY <1>26 DEF CleanUpStop
<1>27. ASSUME NEW t \in Thread, LeaveStop(t) PROVE TypeOK'
  <2>1. stopping' \in BOOLEAN
    BY <1>27 DEF LeaveStop
  <2>2. /\ pc' \in [Thread -> PC]
        /\ job' \in [Thread -> Job]
        /\ mode' \in [Thread -> StopMode]
    BY <1>27 DEF LeaveStop
  <2>. QED
    BY <1>27, <2>1, <2>2 DEF LeaveStop
<1>28. ASSUME NEW t \in Thread, LeaveFailedStop(t) PROVE TypeOK'
  <2>1. stoppedFlag' \in BOOLEAN /\ seen' \in BOOLEAN /\ baselined' \in BOOLEAN /\ stopping' \in BOOLEAN
    BY <1>28, Zenon DEF LeaveFailedStop
  <2>. QED
    BY <1>28, <2>1 DEF LeaveFailedStop
<1>29. ASSUME NEW t \in Thread, DownCheck(t) PROVE TypeOK'
  BY <1>29 DEF DownCheck
<1>30. ASSUME NEW t \in Thread, WatchdogJudge(t) PROVE TypeOK'
  <2>1. stoppedFlag' \in BOOLEAN /\ seen' \in BOOLEAN /\ baselined' \in BOOLEAN /\ stopping' \in BOOLEAN
    BY <1>30, Zenon DEF WatchdogJudge
  <2>. QED
    BY <1>30, <2>1 DEF WatchdogJudge
<1>31. ASSUME NEW t \in Thread, WatchdogGate(t) PROVE TypeOK'
  BY <1>31 DEF WatchdogGate
<1>32. ASSUME NEW t \in Thread, AcquireForWatchdog(t) PROVE TypeOK'
  BY <1>32 DEF AcquireForWatchdog, TryServerLock
<1>33. ASSUME NEW t \in Thread, PlannedSync(t) PROVE TypeOK'
  BY <1>33 DEF PlannedSync
<1>34. ASSUME NEW t \in Thread, Download(t) PROVE TypeOK'
  BY <1>34 DEF Download
<1>35. ASSUME NEW t \in Thread, DownloadRaises(t) PROVE TypeOK'
  BY <1>35 DEF DownloadRaises, Released
<1>36. CASE ScheduleModRestart
  BY <1>36 DEF ScheduleModRestart
<1>37. CASE StatusPoll
  BY <1>37 DEF StatusPoll
<1>38. CASE GameExit
  BY <1>38 DEF GameExit
<1>39. CASE ManagerCrash
  <2>1. stoppedFlag' \in BOOLEAN /\ seen' \in BOOLEAN /\ baselined' \in BOOLEAN /\ stopping' \in BOOLEAN
    BY <1>39, Zenon DEF ManagerCrash
  <2>. QED
    BY <1>39, <2>1 DEF ManagerCrash
<1>40. CASE DeleteStuckLock
  BY <1>40 DEF DeleteStuckLock
<1>41. ASSUME NEW t \in Thread, TouchFails(t) PROVE TypeOK'
  BY <1>41 DEF TouchFails
<1>42. QED
  BY <1>1, <1>2, <1>3, <1>4, <1>5, <1>6, <1>7, <1>8, <1>9, <1>10, <1>11, <1>12, <1>13, <1>14, <1>15, <1>16, <1>17, <1>18, <1>19, <1>20, <1>21, <1>22, <1>23, <1>24, <1>25, <1>26, <1>27, <1>28, <1>29, <1>30, <1>31, <1>32, <1>33, <1>34, <1>35, <1>36, <1>37, <1>38, <1>39, <1>40, <1>41 DEF Next, Proceed, StartStep, StopStep, WatchdogStep, UpdateStep
-----------------------------------------------------------------------------
\* _op_locks[server] is held by the thread that is inside a start or a
\* stop, and by no other.
OpLockOwned == \A t \in Thread : HoldsOpLock(t) <=> opLock = t

\* No stop fails to touch .stopped before its try.
TouchWorks == "touch" \notin Faults

\* A stop has the server in _stopping; where no touch fails, _stopping names
\* it only while the holder of the operation lock is in a stop: the finally
\* of stop_server discards it before the lock goes.
StoppingOwned ==
  /\ \A t \in Thread : pc[t] \in StopPC => stopping
  /\ TouchWorks /\ stopping => opLock \in Thread /\ pc[opLock] \in StopPC

\* Where a mod restart can be.  It holds SERVER_LOCK from its first step to
\* its last, which is why the places without it are not its own.  The touch
\* of .stopped is a place of the admin's stop only.
JobsFit ==
  \A t \in Thread :
    /\ pc[t] = "idle" => job[t] = "none"
    /\ mode[t] = "manual" => job[t] = "stop"
    /\ pc[t] = "flag" => mode[t] = "manual"
    /\ pc[t] \in FreePC \cup {"prepare"} => job[t] # "update"
    /\ pc[t] = "download" => job[t] = "update"
    /\ job[t] = "update" => t \in TickThread /\ modGroup # "none"

\* Where a thread knows that no process of the server is left: after the
\* wait of a stop, in a mod restart that still holds SERVER_LOCK after its
\* stop, and, unless a failed touch hid the process, between the scan of a
\* start and its Popen.
DownWhere ==
  \A t \in Thread :
    \/ pc[t] = "spawn" /\ TouchWorks
    \/ pc[t] \in {"clean", "stopDone"}
    \/ job[t] = "update" /\ pc[t] = "downCheck"
    => procs = {}

\* The operation lock is taken at the entry of a start or a stop and given
\* back at its end, on every path.
LEMMA OpLockNext == TypeOK /\ OpLockOwned /\ Next => OpLockOwned'
<1> SUFFICES ASSUME TypeOK /\ OpLockOwned, Next PROVE OpLockOwned'
  OBVIOUS
<1> USE ThreadAssumption DEF TypeOK, Thread, OpLockOwned, HoldsOpLock, PC, StartPC, StopPC, FreePC, HeldPC, MidPC, Go, Finish, locks
<1>1. ASSUME NEW t \in Thread, NEW j \in {"start", "stop", "restart"}, Request(t, j) PROVE OpLockOwned'
  BY <1>1 DEF Request
<1>2. ASSUME NEW t \in Thread, WatchdogLook(t) PROVE OpLockOwned'
  BY <1>2 DEF WatchdogLook
<1>3. ASSUME NEW t \in Thread, PlannedBegin(t) PROVE OpLockOwned'
  BY <1>3 DEF PlannedBegin
<1>4. ASSUME NEW t \in Thread, UpdateBegin(t) PROVE OpLockOwned'
  BY <1>4 DEF UpdateBegin
<1>5. ASSUME NEW t \in Thread, UpdateDropped(t) PROVE OpLockOwned'
  BY <1>5 DEF UpdateDropped
<1>6. ASSUME NEW t \in Thread, EnterStart(t) PROVE OpLockOwned'
  BY <1>6 DEF EnterStart
<1>7. ASSUME NEW t \in Thread, EnterStop(t) PROVE OpLockOwned'
  BY <1>7 DEF EnterStop
<1>8. ASSUME NEW t \in Thread, AcquireForPrepare(t) PROVE OpLockOwned'
  BY <1>8 DEF AcquireForPrepare, TryServerLock
<1>9. ASSUME NEW t \in Thread, PrepareOk(t) PROVE OpLockOwned'
  BY <1>9 DEF PrepareOk, Released
<1>10. ASSUME NEW t \in Thread, PrepareFails(t) PROVE OpLockOwned'
  BY <1>10 DEF PrepareFails, Released
<1>11. ASSUME NEW t \in Thread, AcquireForStart(t) PROVE OpLockOwned'
  BY <1>11 DEF AcquireForStart, TryServerLock
<1>12. ASSUME NEW t \in Thread, ExeMissing(t) PROVE OpLockOwned'
  BY <1>12 DEF ExeMissing
<1>13. ASSUME NEW t \in Thread, StartCheck(t) PROVE OpLockOwned'
  BY <1>13 DEF StartCheck
<1>14. ASSUME NEW t \in Thread, Spawn(t) PROVE OpLockOwned'
  BY <1>14 DEF Spawn
<1>15. ASSUME NEW t \in Thread, SpawnFails(t) PROVE OpLockOwned'
  BY <1>15 DEF SpawnFails
<1>16. ASSUME NEW t \in Thread, Confirm(t) PROVE OpLockOwned'
  BY <1>16 DEF Confirm
<1>17. ASSUME NEW t \in Thread, ConfirmFails(t) PROVE OpLockOwned'
  BY <1>17 DEF ConfirmFails
<1>18. ASSUME NEW t \in Thread, ClearStopped(t) PROVE OpLockOwned'
  BY <1>18 DEF ClearStopped
<1>19. ASSUME NEW t \in Thread, LeaveStart(t) PROVE OpLockOwned'
  BY <1>19 DEF LeaveStart
<1>20. ASSUME NEW t \in Thread, ReleaseServerLock(t) PROVE OpLockOwned'
  BY <1>20 DEF ReleaseServerLock, Released
<1>21. ASSUME NEW t \in Thread, TouchStopped(t) PROVE OpLockOwned'
  BY <1>21 DEF TouchStopped
<1>22. ASSUME NEW t \in Thread, ShutdownSent(t) PROVE OpLockOwned'
  BY <1>22 DEF ShutdownSent
<1>23. ASSUME NEW t \in Thread, ShutdownRefused(t) PROVE OpLockOwned'
  BY <1>23 DEF ShutdownRefused
<1>24. ASSUME NEW t \in Thread, TaskKill(t) PROVE OpLockOwned'
  BY <1>24 DEF TaskKill
<1>25. ASSUME NEW t \in Thread, AwaitDead(t) PROVE OpLockOwned'
  BY <1>25 DEF AwaitDead
<1>26. ASSUME NEW t \in Thread, CleanUpStop(t) PROVE OpLockOwned'
  BY <1>26 DEF CleanUpStop
<1>27. ASSUME NEW t \in Thread, LeaveStop(t) PROVE OpLockOwned'
  BY <1>27 DEF LeaveStop
<1>28. ASSUME NEW t \in Thread, LeaveFailedStop(t) PROVE OpLockOwned'
  BY <1>28 DEF LeaveFailedStop
<1>29. ASSUME NEW t \in Thread, DownCheck(t) PROVE OpLockOwned'
  BY <1>29 DEF DownCheck
<1>30. ASSUME NEW t \in Thread, WatchdogJudge(t) PROVE OpLockOwned'
  BY <1>30 DEF WatchdogJudge
<1>31. ASSUME NEW t \in Thread, WatchdogGate(t) PROVE OpLockOwned'
  BY <1>31 DEF WatchdogGate
<1>32. ASSUME NEW t \in Thread, AcquireForWatchdog(t) PROVE OpLockOwned'
  BY <1>32 DEF AcquireForWatchdog, TryServerLock
<1>33. ASSUME NEW t \in Thread, PlannedSync(t) PROVE OpLockOwned'
  BY <1>33 DEF PlannedSync
<1>34. ASSUME NEW t \in Thread, Download(t) PROVE OpLockOwned'
  BY <1>34 DEF Download
<1>35. ASSUME NEW t \in Thread, DownloadRaises(t) PROVE OpLockOwned'
  BY <1>35 DEF DownloadRaises, Released
<1>36. CASE ScheduleModRestart
  BY <1>36 DEF ScheduleModRestart
<1>37. CASE StatusPoll
  BY <1>37 DEF StatusPoll
<1>38. CASE GameExit
  BY <1>38 DEF GameExit
<1>39. CASE ManagerCrash
  BY <1>39 DEF ManagerCrash
<1>40. CASE DeleteStuckLock
  BY <1>40 DEF DeleteStuckLock
<1>41. ASSUME NEW t \in Thread, TouchFails(t) PROVE OpLockOwned'
  BY <1>41 DEF TouchFails
<1>42. QED
  BY <1>1, <1>2, <1>3, <1>4, <1>5, <1>6, <1>7, <1>8, <1>9, <1>10, <1>11, <1>12, <1>13, <1>14, <1>15, <1>16, <1>17, <1>18, <1>19, <1>20, <1>21, <1>22, <1>23, <1>24, <1>25, <1>26, <1>27, <1>28, <1>29, <1>30, <1>31, <1>32, <1>33, <1>34, <1>35, <1>36, <1>37, <1>38, <1>39, <1>40, <1>41 DEF Next, Proceed, StartStep, StopStep, WatchdogStep, UpdateStep

\* release_lock unlinks SERVER_LOCK whoever made it, and is nevertheless
\* only reached by the thread that did.
LEMMA ServerLockNext == TypeOK /\ JobsFit /\ ServerLockOwned /\ Next => ServerLockOwned'
<1> SUFFICES ASSUME TypeOK /\ JobsFit /\ ServerLockOwned, Next PROVE ServerLockOwned'
  OBVIOUS
<1> USE ThreadAssumption DEF TypeOK, JobsFit, ServerLockOwned, HoldsServerLock, Thread, PC, StartPC, StopPC, FreePC, HeldPC, MidPC, Go, Finish, locks
<1>1. ASSUME NEW t \in Thread, NEW j \in {"start", "stop", "restart"}, Request(t, j) PROVE ServerLockOwned'
  BY <1>1 DEF Request
<1>2. ASSUME NEW t \in Thread, WatchdogLook(t) PROVE ServerLockOwned'
  BY <1>2 DEF WatchdogLook
<1>3. ASSUME NEW t \in Thread, PlannedBegin(t) PROVE ServerLockOwned'
  BY <1>3 DEF PlannedBegin
<1>4. ASSUME NEW t \in Thread, UpdateBegin(t) PROVE ServerLockOwned'
  BY <1>4 DEF UpdateBegin
<1>5. ASSUME NEW t \in Thread, UpdateDropped(t) PROVE ServerLockOwned'
  BY <1>5 DEF UpdateDropped
<1>6. ASSUME NEW t \in Thread, EnterStart(t) PROVE ServerLockOwned'
  BY <1>6 DEF EnterStart
<1>7. ASSUME NEW t \in Thread, EnterStop(t) PROVE ServerLockOwned'
  BY <1>7 DEF EnterStop
<1>8. ASSUME NEW t \in Thread, AcquireForPrepare(t) PROVE ServerLockOwned'
  BY <1>8 DEF AcquireForPrepare, TryServerLock
<1>9. ASSUME NEW t \in Thread, PrepareOk(t) PROVE ServerLockOwned'
  BY <1>9 DEF PrepareOk, Released
<1>10. ASSUME NEW t \in Thread, PrepareFails(t) PROVE ServerLockOwned'
  BY <1>10 DEF PrepareFails, Released
<1>11. ASSUME NEW t \in Thread, AcquireForStart(t) PROVE ServerLockOwned'
  BY <1>11 DEF AcquireForStart, TryServerLock
<1>12. ASSUME NEW t \in Thread, ExeMissing(t) PROVE ServerLockOwned'
  BY <1>12 DEF ExeMissing
<1>13. ASSUME NEW t \in Thread, StartCheck(t) PROVE ServerLockOwned'
  BY <1>13 DEF StartCheck
<1>14. ASSUME NEW t \in Thread, Spawn(t) PROVE ServerLockOwned'
  BY <1>14 DEF Spawn
<1>15. ASSUME NEW t \in Thread, SpawnFails(t) PROVE ServerLockOwned'
  BY <1>15 DEF SpawnFails
<1>16. ASSUME NEW t \in Thread, Confirm(t) PROVE ServerLockOwned'
  BY <1>16 DEF Confirm
<1>17. ASSUME NEW t \in Thread, ConfirmFails(t) PROVE ServerLockOwned'
  BY <1>17 DEF ConfirmFails
<1>18. ASSUME NEW t \in Thread, ClearStopped(t) PROVE ServerLockOwned'
  BY <1>18 DEF ClearStopped
<1>19. ASSUME NEW t \in Thread, LeaveStart(t) PROVE ServerLockOwned'
  BY <1>19 DEF LeaveStart
<1>20. ASSUME NEW t \in Thread, ReleaseServerLock(t) PROVE ServerLockOwned'
  BY <1>20 DEF ReleaseServerLock, Released
<1>21. ASSUME NEW t \in Thread, TouchStopped(t) PROVE ServerLockOwned'
  BY <1>21 DEF TouchStopped
<1>22. ASSUME NEW t \in Thread, ShutdownSent(t) PROVE ServerLockOwned'
  BY <1>22 DEF ShutdownSent
<1>23. ASSUME NEW t \in Thread, ShutdownRefused(t) PROVE ServerLockOwned'
  BY <1>23 DEF ShutdownRefused
<1>24. ASSUME NEW t \in Thread, TaskKill(t) PROVE ServerLockOwned'
  BY <1>24 DEF TaskKill
<1>25. ASSUME NEW t \in Thread, AwaitDead(t) PROVE ServerLockOwned'
  BY <1>25 DEF AwaitDead
<1>26. ASSUME NEW t \in Thread, CleanUpStop(t) PROVE ServerLockOwned'
  BY <1>26 DEF CleanUpStop
<1>27. ASSUME NEW t \in Thread, LeaveStop(t) PROVE ServerLockOwned'
  BY <1>27 DEF LeaveStop
<1>28. ASSUME NEW t \in Thread, LeaveFailedStop(t) PROVE ServerLockOwned'
  BY <1>28 DEF LeaveFailedStop
<1>29. ASSUME NEW t \in Thread, DownCheck(t) PROVE ServerLockOwned'
  BY <1>29 DEF DownCheck
<1>30. ASSUME NEW t \in Thread, WatchdogJudge(t) PROVE ServerLockOwned'
  BY <1>30 DEF WatchdogJudge
<1>31. ASSUME NEW t \in Thread, WatchdogGate(t) PROVE ServerLockOwned'
  BY <1>31 DEF WatchdogGate
<1>32. ASSUME NEW t \in Thread, AcquireForWatchdog(t) PROVE ServerLockOwned'
  BY <1>32 DEF AcquireForWatchdog, TryServerLock
<1>33. ASSUME NEW t \in Thread, PlannedSync(t) PROVE ServerLockOwned'
  BY <1>33 DEF PlannedSync
<1>34. ASSUME NEW t \in Thread, Download(t) PROVE ServerLockOwned'
  BY <1>34 DEF Download
<1>35. ASSUME NEW t \in Thread, DownloadRaises(t) PROVE ServerLockOwned'
  BY <1>35 DEF DownloadRaises, Released
<1>36. CASE ScheduleModRestart
  BY <1>36 DEF ScheduleModRestart
<1>37. CASE StatusPoll
  BY <1>37 DEF StatusPoll
<1>38. CASE GameExit
  BY <1>38 DEF GameExit
<1>39. CASE ManagerCrash
  BY <1>39 DEF ManagerCrash
<1>40. CASE DeleteStuckLock
  BY <1>40 DEF DeleteStuckLock
<1>41. ASSUME NEW t \in Thread, TouchFails(t) PROVE ServerLockOwned'
  BY <1>41 DEF TouchFails
<1>42. QED
  BY <1>1, <1>2, <1>3, <1>4, <1>5, <1>6, <1>7, <1>8, <1>9, <1>10, <1>11, <1>12, <1>13, <1>14, <1>15, <1>16, <1>17, <1>18, <1>19, <1>20, <1>21, <1>22, <1>23, <1>24, <1>25, <1>26, <1>27, <1>28, <1>29, <1>30, <1>31, <1>32, <1>33, <1>34, <1>35, <1>36, <1>37, <1>38, <1>39, <1>40, <1>41 DEF Next, Proceed, StartStep, StopStep, WatchdogStep, UpdateStep

\* _stopping is set and cleared inside the operation lock.
LEMMA StoppingNext == TypeOK /\ OpLockOwned /\ StoppingOwned /\ Next => StoppingOwned'
<1> SUFFICES ASSUME TypeOK /\ OpLockOwned /\ StoppingOwned, Next PROVE StoppingOwned'
  OBVIOUS
<1> USE ThreadAssumption DEF TypeOK, Thread, OpLockOwned, HoldsOpLock, StoppingOwned, PC, StartPC, StopPC, FreePC, HeldPC, MidPC, Go, Finish, locks
<1>1. ASSUME NEW t \in Thread, NEW j \in {"start", "stop", "restart"}, Request(t, j) PROVE StoppingOwned'
  BY <1>1 DEF Request
<1>2. ASSUME NEW t \in Thread, WatchdogLook(t) PROVE StoppingOwned'
  BY <1>2 DEF WatchdogLook
<1>3. ASSUME NEW t \in Thread, PlannedBegin(t) PROVE StoppingOwned'
  BY <1>3 DEF PlannedBegin
<1>4. ASSUME NEW t \in Thread, UpdateBegin(t) PROVE StoppingOwned'
  BY <1>4 DEF UpdateBegin
<1>5. ASSUME NEW t \in Thread, UpdateDropped(t) PROVE StoppingOwned'
  BY <1>5 DEF UpdateDropped
<1>6. ASSUME NEW t \in Thread, EnterStart(t) PROVE StoppingOwned'
  BY <1>6 DEF EnterStart
<1>7. ASSUME NEW t \in Thread, EnterStop(t) PROVE StoppingOwned'
  BY <1>7 DEF EnterStop
<1>8. ASSUME NEW t \in Thread, AcquireForPrepare(t) PROVE StoppingOwned'
  BY <1>8 DEF AcquireForPrepare, TryServerLock
<1>9. ASSUME NEW t \in Thread, PrepareOk(t) PROVE StoppingOwned'
  BY <1>9 DEF PrepareOk, Released
<1>10. ASSUME NEW t \in Thread, PrepareFails(t) PROVE StoppingOwned'
  BY <1>10 DEF PrepareFails, Released
<1>11. ASSUME NEW t \in Thread, AcquireForStart(t) PROVE StoppingOwned'
  BY <1>11 DEF AcquireForStart, TryServerLock
<1>12. ASSUME NEW t \in Thread, ExeMissing(t) PROVE StoppingOwned'
  BY <1>12 DEF ExeMissing
<1>13. ASSUME NEW t \in Thread, StartCheck(t) PROVE StoppingOwned'
  BY <1>13 DEF StartCheck
<1>14. ASSUME NEW t \in Thread, Spawn(t) PROVE StoppingOwned'
  BY <1>14 DEF Spawn
<1>15. ASSUME NEW t \in Thread, SpawnFails(t) PROVE StoppingOwned'
  BY <1>15 DEF SpawnFails
<1>16. ASSUME NEW t \in Thread, Confirm(t) PROVE StoppingOwned'
  BY <1>16 DEF Confirm
<1>17. ASSUME NEW t \in Thread, ConfirmFails(t) PROVE StoppingOwned'
  BY <1>17 DEF ConfirmFails
<1>18. ASSUME NEW t \in Thread, ClearStopped(t) PROVE StoppingOwned'
  BY <1>18 DEF ClearStopped
<1>19. ASSUME NEW t \in Thread, LeaveStart(t) PROVE StoppingOwned'
  BY <1>19 DEF LeaveStart
<1>20. ASSUME NEW t \in Thread, ReleaseServerLock(t) PROVE StoppingOwned'
  BY <1>20 DEF ReleaseServerLock, Released
<1>21. ASSUME NEW t \in Thread, TouchStopped(t) PROVE StoppingOwned'
  BY <1>21 DEF TouchStopped
<1>22. ASSUME NEW t \in Thread, ShutdownSent(t) PROVE StoppingOwned'
  BY <1>22 DEF ShutdownSent
<1>23. ASSUME NEW t \in Thread, ShutdownRefused(t) PROVE StoppingOwned'
  BY <1>23 DEF ShutdownRefused
<1>24. ASSUME NEW t \in Thread, TaskKill(t) PROVE StoppingOwned'
  BY <1>24 DEF TaskKill
<1>25. ASSUME NEW t \in Thread, AwaitDead(t) PROVE StoppingOwned'
  BY <1>25 DEF AwaitDead
<1>26. ASSUME NEW t \in Thread, CleanUpStop(t) PROVE StoppingOwned'
  BY <1>26 DEF CleanUpStop
<1>27. ASSUME NEW t \in Thread, LeaveStop(t) PROVE StoppingOwned'
  BY <1>27 DEF LeaveStop
<1>28. ASSUME NEW t \in Thread, LeaveFailedStop(t) PROVE StoppingOwned'
  BY <1>28 DEF LeaveFailedStop
<1>29. ASSUME NEW t \in Thread, DownCheck(t) PROVE StoppingOwned'
  BY <1>29 DEF DownCheck
<1>30. ASSUME NEW t \in Thread, WatchdogJudge(t) PROVE StoppingOwned'
  BY <1>30 DEF WatchdogJudge
<1>31. ASSUME NEW t \in Thread, WatchdogGate(t) PROVE StoppingOwned'
  BY <1>31 DEF WatchdogGate
<1>32. ASSUME NEW t \in Thread, AcquireForWatchdog(t) PROVE StoppingOwned'
  BY <1>32 DEF AcquireForWatchdog, TryServerLock
<1>33. ASSUME NEW t \in Thread, PlannedSync(t) PROVE StoppingOwned'
  BY <1>33 DEF PlannedSync
<1>34. ASSUME NEW t \in Thread, Download(t) PROVE StoppingOwned'
  BY <1>34 DEF Download
<1>35. ASSUME NEW t \in Thread, DownloadRaises(t) PROVE StoppingOwned'
  BY <1>35 DEF DownloadRaises, Released
<1>36. CASE ScheduleModRestart
  BY <1>36 DEF ScheduleModRestart
<1>37. CASE StatusPoll
  BY <1>37 DEF StatusPoll
<1>38. CASE GameExit
  BY <1>38 DEF GameExit
<1>39. CASE ManagerCrash
  BY <1>39 DEF ManagerCrash
<1>40. CASE DeleteStuckLock
  BY <1>40 DEF DeleteStuckLock
<1>41. ASSUME NEW t \in Thread, TouchFails(t) PROVE StoppingOwned'
  BY <1>41 DEF TouchFails, TouchWorks
<1>42. QED
  BY <1>1, <1>2, <1>3, <1>4, <1>5, <1>6, <1>7, <1>8, <1>9, <1>10, <1>11, <1>12, <1>13, <1>14, <1>15, <1>16, <1>17, <1>18, <1>19, <1>20, <1>21, <1>22, <1>23, <1>24, <1>25, <1>26, <1>27, <1>28, <1>29, <1>30, <1>31, <1>32, <1>33, <1>34, <1>35, <1>36, <1>37, <1>38, <1>39, <1>40, <1>41 DEF Next, Proceed, StartStep, StopStep, WatchdogStep, UpdateStep

\* The scheduler keeps a mod restart to the steps in which it owns
\* SERVER_LOCK.
LEMMA JobsNext == TypeOK /\ JobsFit /\ ServerLockOwned /\ Next => JobsFit'
<1> SUFFICES ASSUME TypeOK /\ JobsFit /\ ServerLockOwned, Next PROVE JobsFit'
  OBVIOUS
<1> USE ThreadAssumption DEF TypeOK, JobsFit, ServerLockOwned, HoldsServerLock, Thread, PC, StartPC, StopPC, FreePC, HeldPC, MidPC, Go, Finish, memory
<1>1. ASSUME NEW t \in Thread, NEW j \in {"start", "stop", "restart"}, Request(t, j) PROVE JobsFit'
  BY <1>1 DEF Request
<1>2. ASSUME NEW t \in Thread, WatchdogLook(t) PROVE JobsFit'
  BY <1>2 DEF WatchdogLook
<1>3. ASSUME NEW t \in Thread, PlannedBegin(t) PROVE JobsFit'
  BY <1>3 DEF PlannedBegin
<1>4. ASSUME NEW t \in Thread, UpdateBegin(t) PROVE JobsFit'
  BY <1>4 DEF UpdateBegin
<1>5. ASSUME NEW t \in Thread, UpdateDropped(t) PROVE JobsFit'
  BY <1>5 DEF UpdateDropped
<1>6. ASSUME NEW t \in Thread, EnterStart(t) PROVE JobsFit'
  BY <1>6 DEF EnterStart
<1>7. ASSUME NEW t \in Thread, EnterStop(t) PROVE JobsFit'
  BY <1>7 DEF EnterStop
<1>8. ASSUME NEW t \in Thread, AcquireForPrepare(t) PROVE JobsFit'
  BY <1>8 DEF AcquireForPrepare, TryServerLock
<1>9. ASSUME NEW t \in Thread, PrepareOk(t) PROVE JobsFit'
  BY <1>9 DEF PrepareOk, Released
<1>10. ASSUME NEW t \in Thread, PrepareFails(t) PROVE JobsFit'
  BY <1>10 DEF PrepareFails, Released
<1>11. ASSUME NEW t \in Thread, AcquireForStart(t) PROVE JobsFit'
  BY <1>11 DEF AcquireForStart, TryServerLock
<1>12. ASSUME NEW t \in Thread, ExeMissing(t) PROVE JobsFit'
  BY <1>12 DEF ExeMissing
<1>13. ASSUME NEW t \in Thread, StartCheck(t) PROVE JobsFit'
  BY <1>13 DEF StartCheck
<1>14. ASSUME NEW t \in Thread, Spawn(t) PROVE JobsFit'
  BY <1>14 DEF Spawn
<1>15. ASSUME NEW t \in Thread, SpawnFails(t) PROVE JobsFit'
  BY <1>15 DEF SpawnFails
<1>16. ASSUME NEW t \in Thread, Confirm(t) PROVE JobsFit'
  BY <1>16 DEF Confirm
<1>17. ASSUME NEW t \in Thread, ConfirmFails(t) PROVE JobsFit'
  BY <1>17 DEF ConfirmFails
<1>18. ASSUME NEW t \in Thread, ClearStopped(t) PROVE JobsFit'
  BY <1>18 DEF ClearStopped
<1>19. ASSUME NEW t \in Thread, LeaveStart(t) PROVE JobsFit'
  BY <1>19 DEF LeaveStart
<1>20. ASSUME NEW t \in Thread, ReleaseServerLock(t) PROVE JobsFit'
  BY <1>20 DEF ReleaseServerLock, Released
<1>21. ASSUME NEW t \in Thread, TouchStopped(t) PROVE JobsFit'
  BY <1>21 DEF TouchStopped
<1>22. ASSUME NEW t \in Thread, ShutdownSent(t) PROVE JobsFit'
  BY <1>22 DEF ShutdownSent
<1>23. ASSUME NEW t \in Thread, ShutdownRefused(t) PROVE JobsFit'
  BY <1>23 DEF ShutdownRefused
<1>24. ASSUME NEW t \in Thread, TaskKill(t) PROVE JobsFit'
  BY <1>24 DEF TaskKill
<1>25. ASSUME NEW t \in Thread, AwaitDead(t) PROVE JobsFit'
  BY <1>25 DEF AwaitDead
<1>26. ASSUME NEW t \in Thread, CleanUpStop(t) PROVE JobsFit'
  BY <1>26 DEF CleanUpStop
<1>27. ASSUME NEW t \in Thread, LeaveStop(t) PROVE JobsFit'
  BY <1>27 DEF LeaveStop
<1>28. ASSUME NEW t \in Thread, LeaveFailedStop(t) PROVE JobsFit'
  BY <1>28 DEF LeaveFailedStop
<1>29. ASSUME NEW t \in Thread, DownCheck(t) PROVE JobsFit'
  BY <1>29 DEF DownCheck
<1>30. ASSUME NEW t \in Thread, WatchdogJudge(t) PROVE JobsFit'
  BY <1>30 DEF WatchdogJudge
<1>31. ASSUME NEW t \in Thread, WatchdogGate(t) PROVE JobsFit'
  BY <1>31 DEF WatchdogGate
<1>32. ASSUME NEW t \in Thread, AcquireForWatchdog(t) PROVE JobsFit'
  BY <1>32 DEF AcquireForWatchdog, TryServerLock
<1>33. ASSUME NEW t \in Thread, PlannedSync(t) PROVE JobsFit'
  BY <1>33 DEF PlannedSync
<1>34. ASSUME NEW t \in Thread, Download(t) PROVE JobsFit'
  BY <1>34 DEF Download
<1>35. ASSUME NEW t \in Thread, DownloadRaises(t) PROVE JobsFit'
  BY <1>35 DEF DownloadRaises, Released
<1>36. CASE ScheduleModRestart
  BY <1>36 DEF ScheduleModRestart
<1>37. CASE StatusPoll
  BY <1>37 DEF StatusPoll
<1>38. CASE GameExit
  BY <1>38 DEF GameExit
<1>39. CASE ManagerCrash
  BY <1>39 DEF ManagerCrash
<1>40. CASE DeleteStuckLock
  BY <1>40 DEF DeleteStuckLock
<1>41. ASSUME NEW t \in Thread, TouchFails(t) PROVE JobsFit'
  BY <1>41 DEF TouchFails
<1>42. QED
  BY <1>1, <1>2, <1>3, <1>4, <1>5, <1>6, <1>7, <1>8, <1>9, <1>10, <1>11, <1>12, <1>13, <1>14, <1>15, <1>16, <1>17, <1>18, <1>19, <1>20, <1>21, <1>22, <1>23, <1>24, <1>25, <1>26, <1>27, <1>28, <1>29, <1>30, <1>31, <1>32, <1>33, <1>34, <1>35, <1>36, <1>37, <1>38, <1>39, <1>40, <1>41 DEF Next, Proceed, StartStep, StopStep, WatchdogStep, UpdateStep

\* Nobody but the holder of the operation lock spawns, and nobody but the
\* holder of SERVER_LOCK gets to a start: what a thread knows to be down
\* stays down.
LEMMA DownNext == TypeOK /\ OpLockOwned /\ ServerLockOwned /\ StoppingOwned /\ DownWhere /\ Next => DownWhere'
<1> SUFFICES ASSUME TypeOK /\ OpLockOwned /\ ServerLockOwned /\ StoppingOwned /\ DownWhere, Next PROVE DownWhere'
  OBVIOUS
<1> USE ThreadAssumption DEF TypeOK, OpLockOwned, HoldsOpLock, ServerLockOwned, HoldsServerLock, StoppingOwned, DownWhere, Thread, PC, StartPC, StopPC, FreePC, HeldPC, MidPC, Go, Finish, files, IsRunning
<1>1. ASSUME NEW t \in Thread, NEW j \in {"start", "stop", "restart"}, Request(t, j) PROVE DownWhere'
  BY <1>1 DEF Request
<1>2. ASSUME NEW t \in Thread, WatchdogLook(t) PROVE DownWhere'
  BY <1>2 DEF WatchdogLook
<1>3. ASSUME NEW t \in Thread, PlannedBegin(t) PROVE DownWhere'
  BY <1>3 DEF PlannedBegin
<1>4. ASSUME NEW t \in Thread, UpdateBegin(t) PROVE DownWhere'
  BY <1>4 DEF UpdateBegin
<1>5. ASSUME NEW t \in Thread, UpdateDropped(t) PROVE DownWhere'
  BY <1>5 DEF UpdateDropped
<1>6. ASSUME NEW t \in Thread, EnterStart(t) PROVE DownWhere'
  BY <1>6 DEF EnterStart
<1>7. ASSUME NEW t \in Thread, EnterStop(t) PROVE DownWhere'
  BY <1>7 DEF EnterStop
<1>8. ASSUME NEW t \in Thread, AcquireForPrepare(t) PROVE DownWhere'
  BY <1>8 DEF AcquireForPrepare, TryServerLock
<1>9. ASSUME NEW t \in Thread, PrepareOk(t) PROVE DownWhere'
  BY <1>9 DEF PrepareOk, Released
<1>10. ASSUME NEW t \in Thread, PrepareFails(t) PROVE DownWhere'
  BY <1>10 DEF PrepareFails, Released
<1>11. ASSUME NEW t \in Thread, AcquireForStart(t) PROVE DownWhere'
  BY <1>11 DEF AcquireForStart, TryServerLock
<1>12. ASSUME NEW t \in Thread, ExeMissing(t) PROVE DownWhere'
  BY <1>12 DEF ExeMissing
<1>13. ASSUME NEW t \in Thread, StartCheck(t) PROVE DownWhere'
  BY <1>13 DEF StartCheck
<1>14. ASSUME NEW t \in Thread, Spawn(t) PROVE DownWhere'
  BY <1>14 DEF Spawn
<1>15. ASSUME NEW t \in Thread, SpawnFails(t) PROVE DownWhere'
  BY <1>15 DEF SpawnFails
<1>16. ASSUME NEW t \in Thread, Confirm(t) PROVE DownWhere'
  BY <1>16 DEF Confirm
<1>17. ASSUME NEW t \in Thread, ConfirmFails(t) PROVE DownWhere'
  BY <1>17 DEF ConfirmFails
<1>18. ASSUME NEW t \in Thread, ClearStopped(t) PROVE DownWhere'
  BY <1>18 DEF ClearStopped
<1>19. ASSUME NEW t \in Thread, LeaveStart(t) PROVE DownWhere'
  BY <1>19 DEF LeaveStart
<1>20. ASSUME NEW t \in Thread, ReleaseServerLock(t) PROVE DownWhere'
  BY <1>20 DEF ReleaseServerLock, Released
<1>21. ASSUME NEW t \in Thread, TouchStopped(t) PROVE DownWhere'
  BY <1>21 DEF TouchStopped
<1>22. ASSUME NEW t \in Thread, ShutdownSent(t) PROVE DownWhere'
  BY <1>22 DEF ShutdownSent
<1>23. ASSUME NEW t \in Thread, ShutdownRefused(t) PROVE DownWhere'
  BY <1>23 DEF ShutdownRefused
<1>24. ASSUME NEW t \in Thread, TaskKill(t) PROVE DownWhere'
  BY <1>24 DEF TaskKill
<1>25. ASSUME NEW t \in Thread, AwaitDead(t) PROVE DownWhere'
  BY <1>25 DEF AwaitDead
<1>26. ASSUME NEW t \in Thread, CleanUpStop(t) PROVE DownWhere'
  BY <1>26 DEF CleanUpStop
<1>27. ASSUME NEW t \in Thread, LeaveStop(t) PROVE DownWhere'
  BY <1>27 DEF LeaveStop
<1>28. ASSUME NEW t \in Thread, LeaveFailedStop(t) PROVE DownWhere'
  BY <1>28 DEF LeaveFailedStop
<1>29. ASSUME NEW t \in Thread, DownCheck(t) PROVE DownWhere'
  BY <1>29 DEF DownCheck
<1>30. ASSUME NEW t \in Thread, WatchdogJudge(t) PROVE DownWhere'
  BY <1>30 DEF WatchdogJudge
<1>31. ASSUME NEW t \in Thread, WatchdogGate(t) PROVE DownWhere'
  BY <1>31 DEF WatchdogGate
<1>32. ASSUME NEW t \in Thread, AcquireForWatchdog(t) PROVE DownWhere'
  BY <1>32 DEF AcquireForWatchdog, TryServerLock
<1>33. ASSUME NEW t \in Thread, PlannedSync(t) PROVE DownWhere'
  BY <1>33 DEF PlannedSync
<1>34. ASSUME NEW t \in Thread, Download(t) PROVE DownWhere'
  BY <1>34 DEF Download
<1>35. ASSUME NEW t \in Thread, DownloadRaises(t) PROVE DownWhere'
  BY <1>35 DEF DownloadRaises, Released
<1>36. CASE ScheduleModRestart
  BY <1>36 DEF ScheduleModRestart
<1>37. CASE StatusPoll
  BY <1>37 DEF StatusPoll
<1>38. CASE GameExit
  BY <1>38 DEF GameExit
<1>39. CASE ManagerCrash
  BY <1>39 DEF ManagerCrash
<1>40. CASE DeleteStuckLock
  BY <1>40 DEF DeleteStuckLock
<1>41. ASSUME NEW t \in Thread, TouchFails(t) PROVE DownWhere'
  BY <1>41 DEF TouchFails
<1>42. QED
  BY <1>1, <1>2, <1>3, <1>4, <1>5, <1>6, <1>7, <1>8, <1>9, <1>10, <1>11, <1>12, <1>13, <1>14, <1>15, <1>16, <1>17, <1>18, <1>19, <1>20, <1>21, <1>22, <1>23, <1>24, <1>25, <1>26, <1>27, <1>28, <1>29, <1>30, <1>31, <1>32, <1>33, <1>34, <1>35, <1>36, <1>37, <1>38, <1>39, <1>40, <1>41 DEF Next, Proceed, StartStep, StopStep, WatchdogStep, UpdateStep

\* Only _start_server_locked spawns, and it does so where no process is
\* left.
LEMMA SingleNext == TouchWorks /\ TypeOK /\ DownWhere /\ SingleProcess /\ Next => SingleProcess'
<1> SUFFICES ASSUME TouchWorks /\ TypeOK /\ DownWhere /\ SingleProcess, Next PROVE SingleProcess'
  OBVIOUS
<1> USE DEF TypeOK, DownWhere, SingleProcess, Thread, files
<1>1. ASSUME NEW t \in Thread, NEW j \in {"start", "stop", "restart"}, Request(t, j) PROVE SingleProcess'
  BY <1>1 DEF Request
<1>2. ASSUME NEW t \in Thread, WatchdogLook(t) PROVE SingleProcess'
  BY <1>2 DEF WatchdogLook
<1>3. ASSUME NEW t \in Thread, PlannedBegin(t) PROVE SingleProcess'
  BY <1>3 DEF PlannedBegin
<1>4. ASSUME NEW t \in Thread, UpdateBegin(t) PROVE SingleProcess'
  BY <1>4 DEF UpdateBegin
<1>5. ASSUME NEW t \in Thread, UpdateDropped(t) PROVE SingleProcess'
  BY <1>5 DEF UpdateDropped
<1>6. ASSUME NEW t \in Thread, EnterStart(t) PROVE SingleProcess'
  BY <1>6 DEF EnterStart
<1>7. ASSUME NEW t \in Thread, EnterStop(t) PROVE SingleProcess'
  BY <1>7 DEF EnterStop
<1>8. ASSUME NEW t \in Thread, AcquireForPrepare(t) PROVE SingleProcess'
  BY <1>8 DEF AcquireForPrepare, TryServerLock
<1>9. ASSUME NEW t \in Thread, PrepareOk(t) PROVE SingleProcess'
  BY <1>9 DEF PrepareOk, Released
<1>10. ASSUME NEW t \in Thread, PrepareFails(t) PROVE SingleProcess'
  BY <1>10 DEF PrepareFails, Released
<1>11. ASSUME NEW t \in Thread, AcquireForStart(t) PROVE SingleProcess'
  BY <1>11 DEF AcquireForStart, TryServerLock
<1>12. ASSUME NEW t \in Thread, ExeMissing(t) PROVE SingleProcess'
  BY <1>12 DEF ExeMissing
<1>13. ASSUME NEW t \in Thread, StartCheck(t) PROVE SingleProcess'
  BY <1>13 DEF StartCheck
<1>14. ASSUME NEW t \in Thread, Spawn(t) PROVE SingleProcess'
  BY <1>14 DEF Spawn
<1>15. ASSUME NEW t \in Thread, SpawnFails(t) PROVE SingleProcess'
  BY <1>15 DEF SpawnFails
<1>16. ASSUME NEW t \in Thread, Confirm(t) PROVE SingleProcess'
  BY <1>16 DEF Confirm
<1>17. ASSUME NEW t \in Thread, ConfirmFails(t) PROVE SingleProcess'
  BY <1>17 DEF ConfirmFails
<1>18. ASSUME NEW t \in Thread, ClearStopped(t) PROVE SingleProcess'
  BY <1>18 DEF ClearStopped
<1>19. ASSUME NEW t \in Thread, LeaveStart(t) PROVE SingleProcess'
  BY <1>19 DEF LeaveStart
<1>20. ASSUME NEW t \in Thread, ReleaseServerLock(t) PROVE SingleProcess'
  BY <1>20 DEF ReleaseServerLock, Released
<1>21. ASSUME NEW t \in Thread, TouchStopped(t) PROVE SingleProcess'
  BY <1>21 DEF TouchStopped
<1>22. ASSUME NEW t \in Thread, ShutdownSent(t) PROVE SingleProcess'
  BY <1>22 DEF ShutdownSent
<1>23. ASSUME NEW t \in Thread, ShutdownRefused(t) PROVE SingleProcess'
  BY <1>23 DEF ShutdownRefused
<1>24. ASSUME NEW t \in Thread, TaskKill(t) PROVE SingleProcess'
  BY <1>24 DEF TaskKill
<1>25. ASSUME NEW t \in Thread, AwaitDead(t) PROVE SingleProcess'
  BY <1>25 DEF AwaitDead
<1>26. ASSUME NEW t \in Thread, CleanUpStop(t) PROVE SingleProcess'
  BY <1>26 DEF CleanUpStop
<1>27. ASSUME NEW t \in Thread, LeaveStop(t) PROVE SingleProcess'
  BY <1>27 DEF LeaveStop
<1>28. ASSUME NEW t \in Thread, LeaveFailedStop(t) PROVE SingleProcess'
  BY <1>28 DEF LeaveFailedStop
<1>29. ASSUME NEW t \in Thread, DownCheck(t) PROVE SingleProcess'
  BY <1>29 DEF DownCheck
<1>30. ASSUME NEW t \in Thread, WatchdogJudge(t) PROVE SingleProcess'
  BY <1>30 DEF WatchdogJudge
<1>31. ASSUME NEW t \in Thread, WatchdogGate(t) PROVE SingleProcess'
  BY <1>31 DEF WatchdogGate
<1>32. ASSUME NEW t \in Thread, AcquireForWatchdog(t) PROVE SingleProcess'
  BY <1>32 DEF AcquireForWatchdog, TryServerLock
<1>33. ASSUME NEW t \in Thread, PlannedSync(t) PROVE SingleProcess'
  BY <1>33 DEF PlannedSync
<1>34. ASSUME NEW t \in Thread, Download(t) PROVE SingleProcess'
  BY <1>34 DEF Download
<1>35. ASSUME NEW t \in Thread, DownloadRaises(t) PROVE SingleProcess'
  BY <1>35 DEF DownloadRaises, Released
<1>36. CASE ScheduleModRestart
  BY <1>36 DEF ScheduleModRestart
<1>37. CASE StatusPoll
  BY <1>37 DEF StatusPoll
<1>38. CASE GameExit
  BY <1>38 DEF GameExit
<1>39. CASE ManagerCrash
  BY <1>39 DEF ManagerCrash
<1>40. CASE DeleteStuckLock
  BY <1>40 DEF DeleteStuckLock
<1>41. ASSUME NEW t \in Thread, TouchFails(t) PROVE SingleProcess'
  BY <1>41 DEF TouchFails
<1>42. QED
  BY <1>1, <1>2, <1>3, <1>4, <1>5, <1>6, <1>7, <1>8, <1>9, <1>10, <1>11, <1>12, <1>13, <1>14, <1>15, <1>16, <1>17, <1>18, <1>19, <1>20, <1>21, <1>22, <1>23, <1>24, <1>25, <1>26, <1>27, <1>28, <1>29, <1>30, <1>31, <1>32, <1>33, <1>34, <1>35, <1>36, <1>37, <1>38, <1>39, <1>40, <1>41 DEF Next, Proceed, StartStep, StopStep, WatchdogStep, UpdateStep

\* Between the stop of a mod restart and its start no other thread reaches
\* Popen.
LEMMA ModUpdateNext == TypeOK /\ JobsFit /\ ServerLockOwned /\ DownWhere /\ DownDuringModUpdate /\ Next => DownDuringModUpdate'
<1> SUFFICES ASSUME TypeOK /\ JobsFit /\ ServerLockOwned /\ DownWhere /\ DownDuringModUpdate, Next PROVE DownDuringModUpdate'
  OBVIOUS
<1> USE ThreadAssumption DEF TypeOK, JobsFit, ServerLockOwned, HoldsServerLock, DownWhere, DownDuringModUpdate, Thread, PC, StartPC, StopPC, FreePC, HeldPC, MidPC, Go, Finish, files, memory
<1>1. ASSUME NEW t \in Thread, NEW j \in {"start", "stop", "restart"}, Request(t, j) PROVE DownDuringModUpdate'
  BY <1>1 DEF Request
<1>2. ASSUME NEW t \in Thread, WatchdogLook(t) PROVE DownDuringModUpdate'
  BY <1>2 DEF WatchdogLook
<1>3. ASSUME NEW t \in Thread, PlannedBegin(t) PROVE DownDuringModUpdate'
  BY <1>3 DEF PlannedBegin
<1>4. ASSUME NEW t \in Thread, UpdateBegin(t) PROVE DownDuringModUpdate'
  BY <1>4 DEF UpdateBegin
<1>5. ASSUME NEW t \in Thread, UpdateDropped(t) PROVE DownDuringModUpdate'
  BY <1>5 DEF UpdateDropped
<1>6. ASSUME NEW t \in Thread, EnterStart(t) PROVE DownDuringModUpdate'
  BY <1>6 DEF EnterStart
<1>7. ASSUME NEW t \in Thread, EnterStop(t) PROVE DownDuringModUpdate'
  BY <1>7 DEF EnterStop
<1>8. ASSUME NEW t \in Thread, AcquireForPrepare(t) PROVE DownDuringModUpdate'
  BY <1>8 DEF AcquireForPrepare, TryServerLock
<1>9. ASSUME NEW t \in Thread, PrepareOk(t) PROVE DownDuringModUpdate'
  BY <1>9 DEF PrepareOk, Released
<1>10. ASSUME NEW t \in Thread, PrepareFails(t) PROVE DownDuringModUpdate'
  BY <1>10 DEF PrepareFails, Released
<1>11. ASSUME NEW t \in Thread, AcquireForStart(t) PROVE DownDuringModUpdate'
  BY <1>11 DEF AcquireForStart, TryServerLock
<1>12. ASSUME NEW t \in Thread, ExeMissing(t) PROVE DownDuringModUpdate'
  BY <1>12 DEF ExeMissing
<1>13. ASSUME NEW t \in Thread, StartCheck(t) PROVE DownDuringModUpdate'
  BY <1>13 DEF StartCheck
<1>14. ASSUME NEW t \in Thread, Spawn(t) PROVE DownDuringModUpdate'
  BY <1>14 DEF Spawn
<1>15. ASSUME NEW t \in Thread, SpawnFails(t) PROVE DownDuringModUpdate'
  BY <1>15 DEF SpawnFails
<1>16. ASSUME NEW t \in Thread, Confirm(t) PROVE DownDuringModUpdate'
  BY <1>16 DEF Confirm
<1>17. ASSUME NEW t \in Thread, ConfirmFails(t) PROVE DownDuringModUpdate'
  BY <1>17 DEF ConfirmFails
<1>18. ASSUME NEW t \in Thread, ClearStopped(t) PROVE DownDuringModUpdate'
  BY <1>18 DEF ClearStopped
<1>19. ASSUME NEW t \in Thread, LeaveStart(t) PROVE DownDuringModUpdate'
  BY <1>19 DEF LeaveStart
<1>20. ASSUME NEW t \in Thread, ReleaseServerLock(t) PROVE DownDuringModUpdate'
  BY <1>20 DEF ReleaseServerLock, Released
<1>21. ASSUME NEW t \in Thread, TouchStopped(t) PROVE DownDuringModUpdate'
  BY <1>21 DEF TouchStopped
<1>22. ASSUME NEW t \in Thread, ShutdownSent(t) PROVE DownDuringModUpdate'
  BY <1>22 DEF ShutdownSent
<1>23. ASSUME NEW t \in Thread, ShutdownRefused(t) PROVE DownDuringModUpdate'
  BY <1>23 DEF ShutdownRefused
<1>24. ASSUME NEW t \in Thread, TaskKill(t) PROVE DownDuringModUpdate'
  BY <1>24 DEF TaskKill
<1>25. ASSUME NEW t \in Thread, AwaitDead(t) PROVE DownDuringModUpdate'
  BY <1>25 DEF AwaitDead
<1>26. ASSUME NEW t \in Thread, CleanUpStop(t) PROVE DownDuringModUpdate'
  BY <1>26 DEF CleanUpStop
<1>27. ASSUME NEW t \in Thread, LeaveStop(t) PROVE DownDuringModUpdate'
  BY <1>27 DEF LeaveStop
<1>28. ASSUME NEW t \in Thread, LeaveFailedStop(t) PROVE DownDuringModUpdate'
  BY <1>28 DEF LeaveFailedStop
<1>29. ASSUME NEW t \in Thread, DownCheck(t) PROVE DownDuringModUpdate'
  BY <1>29 DEF DownCheck
<1>30. ASSUME NEW t \in Thread, WatchdogJudge(t) PROVE DownDuringModUpdate'
  BY <1>30 DEF WatchdogJudge
<1>31. ASSUME NEW t \in Thread, WatchdogGate(t) PROVE DownDuringModUpdate'
  BY <1>31 DEF WatchdogGate
<1>32. ASSUME NEW t \in Thread, AcquireForWatchdog(t) PROVE DownDuringModUpdate'
  BY <1>32 DEF AcquireForWatchdog, TryServerLock
<1>33. ASSUME NEW t \in Thread, PlannedSync(t) PROVE DownDuringModUpdate'
  BY <1>33 DEF PlannedSync
<1>34. ASSUME NEW t \in Thread, Download(t) PROVE DownDuringModUpdate'
  BY <1>34 DEF Download
<1>35. ASSUME NEW t \in Thread, DownloadRaises(t) PROVE DownDuringModUpdate'
  BY <1>35 DEF DownloadRaises, Released
<1>36. CASE ScheduleModRestart
  BY <1>36 DEF ScheduleModRestart
<1>37. CASE StatusPoll
  BY <1>37 DEF StatusPoll
<1>38. CASE GameExit
  BY <1>38 DEF GameExit
<1>39. CASE ManagerCrash
  BY <1>39 DEF ManagerCrash
<1>40. CASE DeleteStuckLock
  BY <1>40 DEF DeleteStuckLock
<1>41. ASSUME NEW t \in Thread, TouchFails(t) PROVE DownDuringModUpdate'
  BY <1>41 DEF TouchFails
<1>42. QED
  BY <1>1, <1>2, <1>3, <1>4, <1>5, <1>6, <1>7, <1>8, <1>9, <1>10, <1>11, <1>12, <1>13, <1>14, <1>15, <1>16, <1>17, <1>18, <1>19, <1>20, <1>21, <1>22, <1>23, <1>24, <1>25, <1>26, <1>27, <1>28, <1>29, <1>30, <1>31, <1>32, <1>33, <1>34, <1>35, <1>36, <1>37, <1>38, <1>39, <1>40, <1>41 DEF Next, Proceed, StartStep, StopStep, WatchdogStep, UpdateStep
-----------------------------------------------------------------------------
\* The inductive invariant: SingleProcess and DownDuringModUpdate are not
\* inductive, since a thread at its Popen must be known to hold the
\* operation lock (and, for a mod restart, SERVER_LOCK) for the others to
\* be excluded.
IInv ==
  /\ TypeOK
  /\ OpLockOwned
  /\ ServerLockOwned
  /\ StoppingOwned
  /\ JobsFit
  /\ DownWhere
  /\ TouchWorks => SingleProcess
  /\ DownDuringModUpdate

\* The manager starts with no operation under way and at most one process
\* of the server.
LEMMA IInvInit == Init => IInv
<1> SUFFICES ASSUME Init PROVE IInv
  OBVIOUS
<1> USE DEF Init, Thread
<1>1. TypeOK
  <2>1. procs \subseteq Pid
    OBVIOUS
  <2>2. /\ pidFile \in Pid \cup {NoPid}
        /\ serverLock \in Thread \cup {NoOwner, Orphan}
        /\ opLock \in Thread \cup {NoOwner}
        /\ modGroup \in {"none", "up", "down"}
        /\ child \in Pid \cup {NoPid}
    OBVIOUS
  <2>3. pc \in [Thread -> PC] /\ job \in [Thread -> Job] /\ mode \in [Thread -> StopMode]
    BY DEF PC, FreePC, Job, StopMode
  <2>4. requests \in 0..MaxRequests /\ crashes \in 0..MaxManagerCrashes
    BY BoundAssumption
  <2>5. stoppedFlag \in BOOLEAN /\ stopping \in BOOLEAN /\ baselined \in BOOLEAN /\ seen \in BOOLEAN
    BY Zenon
  <2>. QED
    BY <2>1, <2>2, <2>3, <2>4, <2>5 DEF TypeOK
<1>2. OpLockOwned /\ StoppingOwned
  BY ThreadAssumption DEF OpLockOwned, StoppingOwned, HoldsOpLock, StartPC, StopPC
<1>3. ServerLockOwned
  BY ThreadAssumption DEF ServerLockOwned, HoldsServerLock, StartPC, StopPC, HeldPC, MidPC
<1>4. JobsFit /\ DownWhere /\ DownDuringModUpdate
  BY DEF JobsFit, DownWhere, DownDuringModUpdate
<1>5. SingleProcess
  BY DEF SingleProcess
<1>6. QED
  BY <1>1, <1>2, <1>3, <1>4, <1>5 DEF IInv

\* A step that changes nothing keeps the invariant.
LEMMA IInvStutter == IInv /\ UNCHANGED vars => IInv'
  BY DEF IInv, TypeOK, OpLockOwned, StoppingOwned, ServerLockOwned, JobsFit, DownWhere,
     DownDuringModUpdate, SingleProcess, HoldsOpLock, HoldsServerLock,
     vars, files, locks, memory, counters

\* The invariant holds in every reachable state, for any number of request
\* threads and process ids, any set of external failures and any number of
\* manager deaths.
THEOREM Invariance == Spec => []IInv
<1>1. IInv /\ [Next]_vars => IInv'
  <2>1. CASE Next
    BY <2>1, TypeNext, OpLockNext, ServerLockNext, StoppingNext, JobsNext, DownNext,
       SingleNext, ModUpdateNext DEF IInv
  <2>2. CASE UNCHANGED vars
    BY <2>2, IInvStutter
  <2>. QED
    BY <2>1, <2>2
<1>2. QED
  BY IInvInit, <1>1, PTL DEF Spec

\* Every variable keeps its type, in particular each thread its program
\* counter.
THEOREM TypeCorrect == Spec => []TypeOK
<1>1. IInv => TypeOK
  BY DEF IInv
<1>2. QED
  BY <1>1, Invariance, PTL

\* The manager never runs the same server twice, unless a stop failed to
\* touch .stopped and left the server in _stopping.
THEOREM NeverTwoProcesses == ASSUME TouchWorks PROVE Spec => []SingleProcess
<1>1. IInv => SingleProcess
  BY DEF IInv
<1>2. QED
  BY <1>1, Invariance, PTL

\* SERVER_LOCK belongs to the caller that acquired it until that caller
\* releases it.
THEOREM LockFileOwned == Spec => []ServerLockOwned
<1>1. IInv => ServerLockOwned
  BY DEF IInv
<1>2. QED
  BY <1>1, Invariance, PTL

\* A mod restart that found its server down replaces files that no process
\* uses.
THEOREM ModUpdateUndisturbed == Spec => []DownDuringModUpdate
<1>1. IInv => DownDuringModUpdate
  BY DEF IInv
<1>2. QED
  BY <1>1, Invariance, PTL

\* A start and a stop of the server never overlap, and _stopping tells
\* readers of the process table exactly when a stop runs, where no touch of
\* .stopped fails.
THEOREM StartsExcludeStops == ASSUME TouchWorks PROVE Spec => []StartExcludesStop
<1>1. ASSUME IInv PROVE StartExcludesStop
  <2>1. \A t \in Thread : HoldsOpLock(t) <=> opLock = t
    BY <1>1 DEF IInv, OpLockOwned
  <2>2. ASSUME stopping PROVE \E t \in Thread : pc[t] \in StopPC
    BY <1>1, <2>2 DEF IInv, StoppingOwned
  <2>3. ASSUME NEW t \in Thread, pc[t] \in StopPC PROVE stopping
    BY <1>1, <2>3 DEF IInv, StoppingOwned
  <2>4. stopping <=> \E t \in Thread : pc[t] \in StopPC
    BY <2>2, <2>3
  <2>. QED
    BY <2>1, <2>4 DEF StartExcludesStop
<1>2. QED
  BY <1>1, Invariance, PTL

-----------------------------------------------------------------------------
\* A manager that has just started is a lifecycle with no operation under
\* way.
LEMMA InitImplements == Init => Lifecycle!Init
  BY DEF Init, Lifecycle!Init, Phase

\* Every step of a thread is one step of the lifecycle or none: the phase
\* of the operation is read off the holder of the operation lock.
LEMMA StepImplements == TouchWorks /\ IInv /\ Next => [Lifecycle!Next]_(Lifecycle!vars)
<1> SUFFICES ASSUME TouchWorks, IInv, Next PROVE Lifecycle!Next \/ UNCHANGED Lifecycle!vars
  OBVIOUS
<1> USE ThreadAssumption DEF IInv, TypeOK, OpLockOwned, HoldsOpLock, Thread, Phase, Go, Finish,
      files, locks, PC, StartPC, StopPC, FreePC, HeldPC, MidPC, Lifecycle!vars
<1>1. ASSUME NEW t \in Thread, NEW j \in {"start", "stop", "restart"}, Request(t, j) PROVE UNCHANGED Lifecycle!vars
  BY <1>1 DEF Request
<1>2. ASSUME NEW t \in Thread, WatchdogLook(t) PROVE UNCHANGED Lifecycle!vars
  BY <1>2 DEF WatchdogLook
<1>3. ASSUME NEW t \in Thread, PlannedBegin(t) PROVE UNCHANGED Lifecycle!vars
  BY <1>3 DEF PlannedBegin
<1>4. ASSUME NEW t \in Thread, UpdateBegin(t) PROVE UNCHANGED Lifecycle!vars
  BY <1>4 DEF UpdateBegin
<1>5. ASSUME NEW t \in Thread, UpdateDropped(t) PROVE UNCHANGED Lifecycle!vars
  BY <1>5 DEF UpdateDropped
<1>6. ASSUME NEW t \in Thread, EnterStart(t) PROVE Lifecycle!Begin
  BY <1>6 DEF EnterStart, Lifecycle!Begin
<1>7. ASSUME NEW t \in Thread, EnterStop(t) PROVE Lifecycle!Begin
  BY <1>7 DEF EnterStop, Lifecycle!Begin
<1>8. ASSUME NEW t \in Thread, AcquireForPrepare(t) PROVE UNCHANGED Lifecycle!vars
  BY <1>8 DEF AcquireForPrepare, TryServerLock
<1>9. ASSUME NEW t \in Thread, PrepareOk(t) PROVE UNCHANGED Lifecycle!vars
  BY <1>9 DEF PrepareOk, Released
<1>10. ASSUME NEW t \in Thread, PrepareFails(t) PROVE UNCHANGED Lifecycle!vars
  BY <1>10 DEF PrepareFails, Released
<1>11. ASSUME NEW t \in Thread, AcquireForStart(t) PROVE UNCHANGED Lifecycle!vars
  BY <1>11 DEF AcquireForStart, TryServerLock
<1>12. ASSUME NEW t \in Thread, ExeMissing(t) PROVE Lifecycle!Fail
  BY <1>12 DEF ExeMissing, Lifecycle!Fail
<1>13. ASSUME NEW t \in Thread, StartCheck(t) PROVE Lifecycle!Fail \/ UNCHANGED Lifecycle!vars
  BY <1>13 DEF StartCheck, Lifecycle!Fail
<1>14. ASSUME NEW t \in Thread, Spawn(t) PROVE Lifecycle!Launch
  BY <1>14 DEF Spawn, Lifecycle!Launch, DownWhere
<1>15. ASSUME NEW t \in Thread, SpawnFails(t) PROVE Lifecycle!Fail
  BY <1>15 DEF SpawnFails, Lifecycle!Fail
<1>16. ASSUME NEW t \in Thread, Confirm(t) PROVE UNCHANGED Lifecycle!vars
  BY <1>16 DEF Confirm
<1>17. ASSUME NEW t \in Thread, ConfirmFails(t) PROVE Lifecycle!Fail
  BY <1>17 DEF ConfirmFails, Lifecycle!Fail, SingleProcess
<1>18. ASSUME NEW t \in Thread, ClearStopped(t) PROVE Lifecycle!Confirm
  BY <1>18 DEF ClearStopped, Lifecycle!Confirm
<1>19. ASSUME NEW t \in Thread, LeaveStart(t) PROVE Lifecycle!End
  BY <1>19 DEF LeaveStart, Lifecycle!End
<1>20. ASSUME NEW t \in Thread, ReleaseServerLock(t) PROVE UNCHANGED Lifecycle!vars
  BY <1>20 DEF ReleaseServerLock, Released
<1>21. ASSUME NEW t \in Thread, TouchStopped(t) PROVE Lifecycle!Mark
  BY <1>21 DEF TouchStopped, Lifecycle!Mark
<1>22. ASSUME NEW t \in Thread, ShutdownSent(t) PROVE UNCHANGED Lifecycle!vars
  BY <1>22 DEF ShutdownSent
<1>23. ASSUME NEW t \in Thread, ShutdownRefused(t) PROVE Lifecycle!Unmark \/ UNCHANGED Lifecycle!vars
  BY <1>23 DEF ShutdownRefused, Untouch, Lifecycle!Unmark
<1>24. ASSUME NEW t \in Thread, TaskKill(t) PROVE Lifecycle!Exit \/ UNCHANGED Lifecycle!vars
  BY <1>24 DEF TaskKill, Lifecycle!Exit, SingleProcess
<1>25. ASSUME NEW t \in Thread, AwaitDead(t) PROVE Lifecycle!Stopped \/ Lifecycle!Unmark \/ UNCHANGED Lifecycle!vars
  BY <1>25 DEF AwaitDead, Untouch, Lifecycle!Stopped, Lifecycle!Unmark
<1>26. ASSUME NEW t \in Thread, CleanUpStop(t) PROVE UNCHANGED Lifecycle!vars
  BY <1>26 DEF CleanUpStop
<1>27. ASSUME NEW t \in Thread, LeaveStop(t) PROVE Lifecycle!End
  BY <1>27 DEF LeaveStop, Lifecycle!End
<1>28. ASSUME NEW t \in Thread, LeaveFailedStop(t) PROVE Lifecycle!End
  BY <1>28 DEF LeaveFailedStop, Lifecycle!End
<1>29. ASSUME NEW t \in Thread, DownCheck(t) PROVE UNCHANGED Lifecycle!vars
  BY <1>29 DEF DownCheck
<1>30. ASSUME NEW t \in Thread, WatchdogJudge(t) PROVE UNCHANGED Lifecycle!vars
  BY <1>30 DEF WatchdogJudge
<1>31. ASSUME NEW t \in Thread, WatchdogGate(t) PROVE UNCHANGED Lifecycle!vars
  BY <1>31 DEF WatchdogGate
<1>32. ASSUME NEW t \in Thread, AcquireForWatchdog(t) PROVE UNCHANGED Lifecycle!vars
  BY <1>32 DEF AcquireForWatchdog, TryServerLock
<1>33. ASSUME NEW t \in Thread, PlannedSync(t) PROVE UNCHANGED Lifecycle!vars
  BY <1>33 DEF PlannedSync
<1>34. ASSUME NEW t \in Thread, Download(t) PROVE UNCHANGED Lifecycle!vars
  BY <1>34 DEF Download
<1>35. ASSUME NEW t \in Thread, DownloadRaises(t) PROVE UNCHANGED Lifecycle!vars
  BY <1>35 DEF DownloadRaises, Released
<1>36. ASSUME ScheduleModRestart PROVE UNCHANGED Lifecycle!vars
  BY <1>36 DEF ScheduleModRestart
<1>37. ASSUME StatusPoll PROVE UNCHANGED Lifecycle!vars
  BY <1>37 DEF StatusPoll
<1>38. ASSUME GameExit PROVE Lifecycle!Exit
  BY <1>38 DEF GameExit, Lifecycle!Exit, SingleProcess
<1>39. ASSUME ManagerCrash PROVE Lifecycle!Die
  BY <1>39 DEF ManagerCrash, Lifecycle!Die
<1>40. ASSUME DeleteStuckLock PROVE UNCHANGED Lifecycle!vars
  BY <1>40 DEF DeleteStuckLock
<1>41. ASSUME NEW t \in Thread, TouchFails(t) PROVE Lifecycle!End
  BY <1>41 DEF TouchFails, Lifecycle!End
<1>42. QED
  BY <1>1, <1>2, <1>3, <1>4, <1>5, <1>6, <1>7, <1>8, <1>9, <1>10, <1>11, <1>12, <1>13, <1>14, <1>15, <1>16, <1>17, <1>18, <1>19, <1>20, <1>21, <1>22, <1>23, <1>24, <1>25, <1>26, <1>27, <1>28, <1>29, <1>30, <1>31, <1>32, <1>33, <1>34, <1>35, <1>36, <1>37, <1>38, <1>39, <1>40, <1>41 DEF Next, Proceed, StartStep, StopStep, WatchdogStep, UpdateStep, Lifecycle!Next

\* server_mgr.py and its callers implement ServerLifecycle, where no touch of
\* .stopped fails.
THEOREM Implementation == ASSUME TouchWorks PROVE Spec => ImplementsLifecycle
<1>1. IInv /\ [Next]_vars => [Lifecycle!Next]_(Lifecycle!vars)
  <2>1. UNCHANGED vars => UNCHANGED Lifecycle!vars
    BY DEF vars, files, locks, Lifecycle!vars, Phase
  <2>. QED
    BY <2>1, StepImplements
<1>2. QED
  BY InitImplements, <1>1, Invariance, PTL DEF Spec, ImplementsLifecycle, Lifecycle!Spec
-----------------------------------------------------------------------------
(***************************************************************************)
(* What the manager knows of a server it knows from a process of this      *)
(* session: _seen_running, a look that found the server up, a start that   *)
(* was confirmed, a WatchDog that goes on to start it.                     *)
(***************************************************************************)
Known ==
  /\ seen => wasUp
  /\ procs # {} => wasUp
  /\ \A t \in Thread : pc[t] \in {"wdUp", "clear"} => wasUp
  /\ \A t \in Thread : job[t] = "watchdog" /\ pc[t] \notin {"idle", "wdUp", "wdDown"} => wasUp

\* A step that does not end the session learns of no process but a live one.
LEMMA KnownNext ==
  TypeOK /\ Known /\ Next /\ ~ManagerCrash /\ ~wasUp /\ procs' = {} => Known'
<1> SUFFICES ASSUME TypeOK, Known, Next, ~ManagerCrash, ~wasUp, procs' = {} PROVE Known'
  OBVIOUS
<1> USE ThreadAssumption DEF TypeOK, Thread, Known, Job, StopMode, PC, StartPC, StopPC, FreePC, HeldPC, MidPC, Go, Finish, files, memory, IsRunning
<1>1. ASSUME NEW t \in Thread, NEW j \in {"start", "stop", "restart"}, Request(t, j) PROVE Known'
  BY <1>1 DEF Request
<1>2. ASSUME NEW t \in Thread, WatchdogLook(t) PROVE Known'
  BY <1>2 DEF WatchdogLook
<1>3. ASSUME NEW t \in Thread, PlannedBegin(t) PROVE Known'
  BY <1>3 DEF PlannedBegin
<1>4. ASSUME NEW t \in Thread, UpdateBegin(t) PROVE Known'
  BY <1>4 DEF UpdateBegin
<1>5. ASSUME NEW t \in Thread, UpdateDropped(t) PROVE Known'
  BY <1>5 DEF UpdateDropped
<1>6. ASSUME NEW t \in Thread, EnterStart(t) PROVE Known'
  BY <1>6 DEF EnterStart
<1>7. ASSUME NEW t \in Thread, EnterStop(t) PROVE Known'
  BY <1>7 DEF EnterStop
<1>8. ASSUME NEW t \in Thread, AcquireForPrepare(t) PROVE Known'
  BY <1>8 DEF AcquireForPrepare, TryServerLock
<1>9. ASSUME NEW t \in Thread, PrepareOk(t) PROVE Known'
  BY <1>9 DEF PrepareOk, Released
<1>10. ASSUME NEW t \in Thread, PrepareFails(t) PROVE Known'
  BY <1>10 DEF PrepareFails, Released
<1>11. ASSUME NEW t \in Thread, AcquireForStart(t) PROVE Known'
  BY <1>11 DEF AcquireForStart, TryServerLock
<1>12. ASSUME NEW t \in Thread, ExeMissing(t) PROVE Known'
  BY <1>12 DEF ExeMissing
<1>13. ASSUME NEW t \in Thread, StartCheck(t) PROVE Known'
  BY <1>13 DEF StartCheck
<1>14. ASSUME NEW t \in Thread, Spawn(t) PROVE Known'
  BY <1>14 DEF Spawn
<1>15. ASSUME NEW t \in Thread, SpawnFails(t) PROVE Known'
  BY <1>15 DEF SpawnFails
<1>16. ASSUME NEW t \in Thread, Confirm(t) PROVE Known'
  BY <1>16 DEF Confirm
<1>17. ASSUME NEW t \in Thread, ConfirmFails(t) PROVE Known'
  BY <1>17 DEF ConfirmFails
<1>18. ASSUME NEW t \in Thread, ClearStopped(t) PROVE Known'
  BY <1>18 DEF ClearStopped
<1>19. ASSUME NEW t \in Thread, LeaveStart(t) PROVE Known'
  BY <1>19 DEF LeaveStart
<1>20. ASSUME NEW t \in Thread, ReleaseServerLock(t) PROVE Known'
  BY <1>20 DEF ReleaseServerLock, Released
<1>21. ASSUME NEW t \in Thread, TouchStopped(t) PROVE Known'
  BY <1>21 DEF TouchStopped
<1>22. ASSUME NEW t \in Thread, ShutdownSent(t) PROVE Known'
  BY <1>22 DEF ShutdownSent
<1>23. ASSUME NEW t \in Thread, ShutdownRefused(t) PROVE Known'
  BY <1>23 DEF ShutdownRefused
<1>24. ASSUME NEW t \in Thread, TaskKill(t) PROVE Known'
  BY <1>24 DEF TaskKill
<1>25. ASSUME NEW t \in Thread, AwaitDead(t) PROVE Known'
  BY <1>25 DEF AwaitDead
<1>26. ASSUME NEW t \in Thread, CleanUpStop(t) PROVE Known'
  BY <1>26 DEF CleanUpStop
<1>27. ASSUME NEW t \in Thread, LeaveStop(t) PROVE Known'
  BY <1>27 DEF LeaveStop
<1>28. ASSUME NEW t \in Thread, LeaveFailedStop(t) PROVE Known'
  BY <1>28 DEF LeaveFailedStop
<1>29. ASSUME NEW t \in Thread, DownCheck(t) PROVE Known'
  BY <1>29 DEF DownCheck
<1>30. ASSUME NEW t \in Thread, WatchdogJudge(t) PROVE Known'
  BY <1>30 DEF WatchdogJudge
<1>31. ASSUME NEW t \in Thread, WatchdogGate(t) PROVE Known'
  BY <1>31 DEF WatchdogGate
<1>32. ASSUME NEW t \in Thread, AcquireForWatchdog(t) PROVE Known'
  BY <1>32 DEF AcquireForWatchdog, TryServerLock
<1>33. ASSUME NEW t \in Thread, PlannedSync(t) PROVE Known'
  BY <1>33 DEF PlannedSync
<1>34. ASSUME NEW t \in Thread, Download(t) PROVE Known'
  BY <1>34 DEF Download
<1>35. ASSUME NEW t \in Thread, DownloadRaises(t) PROVE Known'
  BY <1>35 DEF DownloadRaises, Released
<1>36. CASE ScheduleModRestart
  BY <1>36 DEF ScheduleModRestart
<1>37. CASE StatusPoll
  BY <1>37 DEF StatusPoll
<1>38. CASE GameExit
  BY <1>38 DEF GameExit
<1>40. CASE DeleteStuckLock
  BY <1>40 DEF DeleteStuckLock
<1>41. ASSUME NEW t \in Thread, TouchFails(t) PROVE Known'
  BY <1>41 DEF TouchFails
<1>42. QED
  BY <1>1, <1>2, <1>3, <1>4, <1>5, <1>6, <1>7, <1>8, <1>9, <1>10, <1>11, <1>12, <1>13, <1>14, <1>15, <1>16, <1>17, <1>18, <1>19, <1>20, <1>21, <1>22, <1>23, <1>24, <1>25, <1>26, <1>27, <1>28, <1>29, <1>30, <1>31, <1>32, <1>33, <1>34, <1>35, <1>36, <1>37, <1>38, <1>40, <1>41 DEF Next, Proceed, StartStep, StopStep, WatchdogStep, UpdateStep

\* Only a death of the manager ends a session.
LEMMA SessionEnds == Next => ManagerCrash \/ crashes' = crashes
<1> USE DEF counters
<1>1. ASSUME NEW t \in Thread, StartStep(t) \/ EnterStart(t) PROVE crashes' = crashes
  BY <1>1, Zenon DEF StartStep, EnterStart, AcquireForPrepare, TryServerLock, PrepareOk, PrepareFails,
     AcquireForStart, ExeMissing, StartCheck, Spawn, SpawnFails, Confirm, ConfirmFails, ClearStopped,
     LeaveStart, ReleaseServerLock
<1>2. ASSUME NEW t \in Thread, StopStep(t) \/ EnterStop(t) PROVE crashes' = crashes
  BY <1>2, Zenon DEF StopStep, EnterStop, TouchStopped, ShutdownSent, ShutdownRefused, TaskKill, AwaitDead,
     CleanUpStop, LeaveStop, LeaveFailedStop, DownCheck, TouchFails
<1>3. ASSUME NEW t \in Thread, WatchdogStep(t) \/ WatchdogLook(t) PROVE crashes' = crashes
  BY <1>3, Zenon DEF WatchdogStep, WatchdogLook, WatchdogJudge, WatchdogGate, AcquireForWatchdog, TryServerLock
<1>4. ASSUME NEW t \in Thread, UpdateStep(t) \/ PlannedBegin(t) \/ UpdateBegin(t) \/ UpdateDropped(t)
      PROVE  crashes' = crashes
  BY <1>4, Zenon DEF UpdateStep, PlannedSync, Download, DownloadRaises, PlannedBegin, UpdateBegin, UpdateDropped
<1>5. ASSUME NEW t \in Thread, NEW j, Request(t, j) PROVE crashes' = crashes
  BY <1>5, Zenon DEF Request
<1>6. ScheduleModRestart \/ StatusPoll \/ GameExit \/ DeleteStuckLock => crashes' = crashes
  BY Zenon DEF ScheduleModRestart, StatusPoll, GameExit, DeleteStuckLock
<1>. QED
  BY <1>1, <1>2, <1>3, <1>4, <1>5, <1>6, Zenon DEF Next, Proceed

\* The history of a session knows of a process before the manager does.
LEMMA KnownHolds == HSpec => []Known
<1>1. HInit => Known
  BY DEF HInit, Init, Known
<1>2. TypeOK /\ Known /\ [HNext]_hvars => Known'
  <2>1. CASE UNCHANGED hvars
    BY <2>1 DEF hvars, vars, memory, files, Known
  <2>2. ASSUME TypeOK, Known, HNext PROVE Known'
    <3>1. Next /\ (wasUp' <=> (procs' # {} \/ (wasUp /\ crashes' = crashes)))
      BY <2>2, Zenon DEF HNext
    <3>2. CASE wasUp'
      BY <3>2 DEF Known
    <3>3. CASE ~wasUp' /\ ManagerCrash
      BY <2>2, <3>1, <3>3 DEF ManagerCrash, Known, TypeOK, files
    <3>4. CASE ~wasUp' /\ ~ManagerCrash
      <4>1. ~wasUp /\ procs' = {}
        BY <3>1, <3>4, SessionEnds, Zenon
      <4>. QED
        BY <2>2, <3>1, <3>4, <4>1, KnownNext
    <3>. QED
      BY <3>2, <3>3, <3>4
  <2>. QED
    BY <2>1, <2>2
<1>3. HInit => Init
  BY DEF HInit
<1>4. [HNext]_hvars => [Next]_vars
  BY DEF HNext, hvars
<1>5. Init /\ [][Next]_vars => []TypeOK
  BY TypeCorrect, PTL DEF Spec
<1>. QED
  BY <1>1, <1>2, <1>3, <1>4, <1>5, PTL DEF HSpec

(***************************************************************************)
(* Whatever starts, stops, polls and deaths of the manager come between    *)
(* its looks, the WatchDog starts only a server that was up in this        *)
(* session of the manager.                                                 *)
(***************************************************************************)
THEOREM RevivesOnlyWhatWasUp == HSpec => WatchdogOnlyRevives
<1>1. Known /\ [HNext]_hvars => [Launches("watchdog") => wasUp]_hvars
  BY DEF Known, Launches
<1>. QED
  BY <1>1, KnownHolds, PTL DEF HSpec, WatchdogOnlyRevives
=============================================================================
