---------------------------- MODULE ServerManager ----------------------------
(***************************************************************************)
(* One game server under the manager: src/core/server_mgr.py with the      *)
(* callers that drive it (the API handlers of api/routes.py, the WatchDog, *)
(* the planned restart and the shared mod update of core/scheduler.py).    *)
(*                                                                         *)
(* Three things keep the callers apart: the SERVER_LOCK file, which is     *)
(* tried and never waited for; the per-server operation lock _op_locks,    *)
(* which is waited for; and _stopping, which tells readers of the process  *)
(* table that a stop is under way.  Every caller is a thread with a        *)
(* program counter; a step is one access to state that two callers share.  *)
(* Servers share nothing here, so the module describes a single one.       *)
(***************************************************************************)
EXTENDS Naturals, FiniteSets

CONSTANTS
  ApiThread,         \* asyncio.to_thread workers of the start/stop/restart handlers
  WatchdogThread,    \* the executor thread of the WatchDog job
  TickThread,        \* the PlannedRestart job: planned restarts and mod restarts
  Pid, NoPid,        \* process ids; NoPid: no server.pid file
  NoOwner,           \* the lock is free
  Orphan,            \* SERVER_LOCK left behind by a manager that died
  Faults,            \* which external failures may happen
  RconRequired,      \* rcon mode "required": no taskkill after a failed #shutdown
  MaxRequests,       \* bound on the admin's requests
  MaxManagerCrashes  \* bound on deaths of the manager process

Thread    == ApiThread \cup WatchdogThread \cup TickThread
FaultKind == {"prepare", "spawn", "confirm", "terminate", "kill", "rcon", "touch", "release"}
Job       == {"none", "start", "stop", "restart", "watchdog", "planned", "update"}
StopMode  == {"manual", "restart", "force"}

ASSUME ThreadAssumption ==
  /\ ApiThread \cap WatchdogThread = {}
  /\ ApiThread \cap TickThread = {}
  /\ WatchdogThread \cap TickThread = {}
  /\ \A s, t \in TickThread : s = t   \* one asyncio task
  /\ NoOwner \notin Thread
  /\ Orphan \notin Thread
  /\ NoOwner # Orphan
ASSUME PidAssumption == NoPid \notin Pid
ASSUME BoundAssumption ==
  /\ MaxRequests \in Nat
  /\ MaxManagerCrashes \in Nat
  /\ RconRequired \in BOOLEAN
  /\ Faults \subseteq FaultKind

VARIABLES
  procs,        \* live processes that match the server's exe
  pidFile,      \* contents of server.pid
  stoppedFlag,  \* the file .stopped exists
  serverLock,   \* who created the file SERVER_LOCK
  opLock,       \* holder of _op_locks[server]
  stopping,     \* server in _stopping
  baselined,    \* server in _watchdog_baselined
  seen,         \* server in _seen_running
  modGroup,     \* was_running recorded by a scheduled mod restart
  child,        \* the Popen object of the start in progress
  pc, job, mode,
  requests, crashes

files    == <<procs, pidFile, stoppedFlag>>
locks    == <<serverLock, opLock, stopping>>
memory   == <<baselined, seen, modGroup>>
counters == <<requests, crashes>>
vars     == <<files, locks, memory, child, pc, job, mode, counters>>

(***************************************************************************)
(* Program counters, by what the thread holds there.                       *)
(***************************************************************************)
StartPC == {"startCheck", "spawn", "confirm", "clear", "startEnd"}
StopPC  == {"flag", "shutdown", "kill", "await", "clean", "stopDone", "stopFailed"}
FreePC  == {"idle", "prepareLock", "startLock", "sync",
            "wdUp", "wdDown", "wdGate", "wdFlag", "wdLock"}
HeldPC  == {"prepare", "startWait", "unlock"}
MidPC   == {"stopWait", "downCheck", "download"}
PC      == StartPC \cup StopPC \cup FreePC \cup HeldPC \cup MidPC

HoldsOpLock(t) == pc[t] \in StartPC \cup StopPC
HoldsServerLock(t) ==
  \/ pc[t] \in HeldPC \cup StartPC
  \/ job[t] = "update" /\ pc[t] \in MidPC \cup StopPC

Go(t, label) == pc' = [pc EXCEPT ![t] = label]

Finish(t) ==
  /\ pc'   = [pc EXCEPT ![t] = "idle"]
  /\ job'  = [job EXCEPT ![t] = "none"]
  /\ mode' = [mode EXCEPT ![t] = "restart"]

(***************************************************************************)
(* is_running: the pid file if it names a live process of the server, else *)
(* a scan of the process table, which is skipped while a stop is under way *)
(* (_recover_pid).  Looking drops a stale pid file and, outside a stop,    *)
(* writes the recovered pid.                                               *)
(***************************************************************************)
IsRunning == pidFile \in procs \/ (~stopping /\ procs # {})

Look ==
  pidFile' \in IF pidFile \in procs THEN {pidFile}
               ELSE IF stopping \/ procs = {} THEN {NoPid}
               ELSE procs

Init ==
  /\ procs \in {{}} \cup {{p} : p \in Pid}
  /\ pidFile \in Pid \cup {NoPid}
  /\ stoppedFlag \in BOOLEAN
  /\ serverLock = NoOwner
  /\ opLock = NoOwner
  /\ stopping = FALSE
  /\ baselined = FALSE
  /\ seen = FALSE
  /\ modGroup = "none"
  /\ child = NoPid
  /\ pc = [t \in Thread |-> "idle"]
  /\ job = [t \in Thread |-> "none"]
  /\ mode = [t \in Thread |-> "restart"]
  /\ requests = 0
  /\ crashes = 0

(***************************************************************************)
(* Requests of the administrator.                                          *)
(***************************************************************************)
Request(t, j) ==
  /\ t \in ApiThread
  /\ pc[t] = "idle"
  /\ requests < MaxRequests
  /\ requests' = requests + 1
  /\ job' = [job EXCEPT ![t] = j]
  /\ mode' = [mode EXCEPT ![t] = IF j = "stop" THEN "manual" ELSE "restart"]
  /\ Go(t, IF j = "stop" THEN "stopWait" ELSE "prepareLock")
  /\ UNCHANGED <<files, locks, memory, child, crashes>>

(***************************************************************************)
(* acquire_lock: open(..., 'x'); a caller that finds the file gives up.    *)
(***************************************************************************)
\* Mutant: the failed acquire is inside the try whose finally releases.
TryServerLockReleasing(t, from, to) ==
  /\ pc[t] = from
  /\ IF serverLock = NoOwner
       THEN serverLock' = t /\ Go(t, to) /\ UNCHANGED <<job, mode>>
       ELSE serverLock' = NoOwner /\ Finish(t)
  /\ UNCHANGED <<files, opLock, stopping, memory, child, counters>>

TryServerLock(t, from, to) ==
  /\ pc[t] = from
  /\ \/ /\ serverLock = NoOwner
        /\ serverLock' = t
        /\ Go(t, to)
        /\ UNCHANGED <<job, mode>>
     \/ /\ serverLock # NoOwner
        /\ Finish(t)
        /\ UNCHANGED serverLock
  /\ UNCHANGED <<files, opLock, stopping, memory, child, counters>>

\* release_lock unlinks the file, whoever created it; an OSError is logged
\* and leaves it where it is.
Released == {NoOwner} \cup (IF "release" \in Faults THEN {Orphan} ELSE {})

AcquireForPrepare(t) == TryServerLock(t, "prepareLock", "prepare")
\* Mutant: a restart starts as if its caller held SERVER_LOCK.
AcquireForStartSkipped(t) ==
  /\ pc[t] = "startLock"
  /\ Go(t, "startWait")
  /\ UNCHANGED <<files, locks, memory, child, job, mode, counters>>
AcquireForStart(t)   == TryServerLock(t, "startLock", "startWait")
AcquireForWatchdog(t) == TryServerLock(t, "wdLock", "prepare")

\* prepare_server_for_start drops the lock whatever comes out; the WatchDog
\* prepares under the lock it keeps for the start.
PrepareOk(t) ==
  /\ pc[t] = "prepare"
  /\ IF job[t] = "watchdog"
       THEN Go(t, "startWait") /\ UNCHANGED serverLock
       ELSE /\ Go(t, IF job[t] = "start" THEN "startLock" ELSE "stopWait")
            /\ serverLock' \in Released
  /\ UNCHANGED <<files, opLock, stopping, memory, child, job, mode, counters>>

PrepareFails(t) ==
  /\ pc[t] = "prepare"
  /\ "prepare" \in Faults
  /\ Finish(t)
  /\ serverLock' \in Released
  /\ UNCHANGED <<files, opLock, stopping, memory, child, counters>>

(***************************************************************************)
(* start_server: SERVER_LOCK first, then the operation lock.               *)
(***************************************************************************)
EnterStart(t) ==
  /\ pc[t] = "startWait"
  /\ opLock = NoOwner
  /\ opLock' = t
  /\ Go(t, "startCheck")
  /\ UNCHANGED <<files, serverLock, stopping, memory, child, job, mode, counters>>

\* Mutant: the start trusts server.pid and does not scan.
StartCheckNoScan(t) ==
  /\ pc[t] = "startCheck"
  /\ Look
  /\ Go(t, IF pidFile \in procs THEN "startEnd" ELSE "spawn")
  /\ UNCHANGED <<procs, stoppedFlag, locks, memory, child, job, mode, counters>>

StartCheck(t) ==
  /\ pc[t] = "startCheck"
  /\ Look
  /\ Go(t, IF IsRunning THEN "startEnd" ELSE "spawn")
  /\ UNCHANGED <<procs, stoppedFlag, locks, memory, child, job, mode, counters>>

Spawn(t) ==
  /\ pc[t] = "spawn"
  /\ \E p \in Pid \ procs :
       /\ procs' = procs \cup {p}
       /\ pidFile' = p
       /\ child' = p
  /\ Go(t, "confirm")
  /\ UNCHANGED <<stoppedFlag, locks, memory, job, mode, counters>>

ExeMissing(t) ==
  /\ pc[t] = "startCheck"
  /\ "spawn" \in Faults
  /\ Go(t, "startEnd")
  /\ UNCHANGED <<files, locks, memory, child, job, mode, counters>>

\* sync_mods or Popen raises: _cleanup_failed_start without a process.
SpawnFails(t) ==
  /\ pc[t] = "spawn"
  /\ "spawn" \in Faults
  /\ pidFile' = NoPid
  /\ Go(t, "startEnd")
  /\ UNCHANGED <<procs, stoppedFlag, locks, memory, child, job, mode, counters>>

\* wait_until_running.
Confirm(t) ==
  /\ pc[t] = "confirm"
  /\ IsRunning
  /\ Look
  /\ Go(t, "clear")
  /\ UNCHANGED <<procs, stoppedFlag, locks, memory, child, job, mode, counters>>

\* Mutant: a failed start clears .stopped as well.
ConfirmFailsClearing(t) ==
  /\ pc[t] = "confirm"
  /\ ~IsRunning \/ "confirm" \in Faults
  /\ procs' = procs \ {child}
  /\ pidFile' = NoPid
  /\ stoppedFlag' = FALSE
  /\ Go(t, "startEnd")
  /\ UNCHANGED <<locks, memory, child, job, mode, counters>>

\* The deadline passed or a watcher raised: _cleanup_failed_start.
ConfirmFails(t) ==
  /\ pc[t] = "confirm"
  /\ ~IsRunning \/ "confirm" \in Faults
  /\ \/ procs' = procs \ {child}
     \/ "terminate" \in Faults /\ UNCHANGED procs
  /\ pidFile' = NoPid
  /\ Go(t, "startEnd")
  /\ UNCHANGED <<stoppedFlag, locks, memory, child, job, mode, counters>>

ClearStopped(t) ==
  /\ pc[t] = "clear"
  /\ stoppedFlag' = FALSE
  /\ seen' = TRUE
  /\ Go(t, "startEnd")
  /\ UNCHANGED <<procs, pidFile, locks, baselined, modGroup, child, job, mode, counters>>

LeaveStart(t) ==
  /\ pc[t] = "startEnd"
  /\ opLock' = NoOwner
  /\ child' = NoPid
  /\ Go(t, "unlock")
  /\ UNCHANGED <<files, serverLock, stopping, memory, job, mode, counters>>

\* The finally of start_server's callers and of a mod restart.
ReleaseServerLock(t) ==
  /\ pc[t] = "unlock"
  /\ serverLock' \in Released
  /\ modGroup' = IF job[t] = "update" THEN "none" ELSE modGroup
  /\ Finish(t)
  /\ UNCHANGED <<files, opLock, stopping, baselined, seen, child, counters>>

(***************************************************************************)
(* stop_server: the operation lock only.                                   *)
(***************************************************************************)
\* Mutant: the stop does not wait for the operation lock.
EnterStopUnlocked(t) ==
  /\ pc[t] = "stopWait"
  /\ stopping' = TRUE
  /\ Go(t, IF mode[t] = "manual" THEN "flag" ELSE "shutdown")
  /\ UNCHANGED <<files, serverLock, opLock, memory, child, job, mode, counters>>

EnterStop(t) ==
  /\ pc[t] = "stopWait"
  /\ opLock = NoOwner
  /\ opLock' = t
  /\ stopping' = TRUE
  /\ \/ mode[t] = "manual"  /\ Go(t, "flag")
     \/ mode[t] = "restart" /\ Go(t, "shutdown")
     \/ mode[t] = "force"   /\ Go(t, "kill")
  /\ UNCHANGED <<files, serverLock, memory, child, job, mode, counters>>

TouchStopped(t) ==
  /\ pc[t] = "flag"
  /\ stoppedFlag' = TRUE
  /\ Go(t, "shutdown")
  /\ UNCHANGED <<procs, pidFile, locks, memory, child, job, mode, counters>>

\* The touch comes before the try whose finally discards _stopping: when it
\* raises, the operation lock goes and the server stays in _stopping.
TouchFails(t) ==
  /\ pc[t] = "flag"
  /\ "touch" \in Faults
  /\ opLock' = NoOwner
  /\ Finish(t)
  /\ UNCHANGED <<files, serverLock, stopping, memory, child, counters>>

\* #shutdown accepted, or refused where taskkill may follow.  The process
\* that accepted it goes away by GameExit.
ShutdownSent(t) ==
  /\ pc[t] = "shutdown"
  /\ RconRequired => procs # {}
  /\ Go(t, "kill")
  /\ UNCHANGED <<files, locks, memory, child, job, mode, counters>>

\* What a stop that gives up does to the flag a manual stop has just touched.
Untouch(t) ==
  \/ mode[t] = "manual" /\ stoppedFlag' = FALSE
  \/ mode[t] # "manual" /\ UNCHANGED stoppedFlag

\* rcon mode "required": nobody answers a server that is down.
ShutdownRefused(t) ==
  /\ pc[t] = "shutdown"
  /\ RconRequired
  /\ procs = {} \/ "rcon" \in Faults
  /\ Untouch(t)
  /\ Go(t, "stopFailed")
  /\ UNCHANGED <<procs, pidFile, locks, memory, child, job, mode, counters>>

TaskKill(t) ==
  /\ pc[t] = "kill"
  /\ \/ procs = {} /\ UNCHANGED procs
     \/ \E p \in procs : procs' = procs \ {p}
     \/ "kill" \in Faults /\ UNCHANGED procs
  /\ Look
  /\ Go(t, "await")
  /\ UNCHANGED <<stoppedFlag, locks, memory, child, job, mode, counters>>

AwaitDead(t) ==
  /\ pc[t] = "await"
  /\ Look
  /\ \/ procs = {} /\ Go(t, "clean") /\ UNCHANGED stoppedFlag
     \/ procs # {} /\ Go(t, "stopFailed") /\ Untouch(t)
  /\ UNCHANGED <<procs, locks, memory, child, job, mode, counters>>

CleanUpStop(t) ==
  /\ pc[t] = "clean"
  /\ pidFile' = NoPid
  /\ Go(t, "stopDone")
  /\ UNCHANGED <<procs, stoppedFlag, locks, memory, child, job, mode, counters>>

LeaveStop(t) ==
  /\ pc[t] = "stopDone"
  /\ opLock' = NoOwner
  /\ stopping' = FALSE
  /\ IF job[t] = "stop" THEN Finish(t)
                        ELSE Go(t, "downCheck") /\ UNCHANGED <<job, mode>>
  /\ UNCHANGED <<files, serverLock, memory, child, counters>>

\* Mutant: the retry passes a mode stop_server does not know.
LeaveFailedStopOddMode(t) ==
  /\ pc[t] = "stopFailed"
  /\ opLock' = NoOwner
  /\ stopping' = FALSE
  /\ IF mode[t] = "restart"
       THEN Go(t, "stopWait") /\ mode' = [mode EXCEPT ![t] = "kill"] /\ UNCHANGED job
       ELSE Finish(t)
  /\ UNCHANGED <<files, serverLock, memory, child, counters>>

\* Mutant: a failed stop returns with the operation lock taken.
LeaveFailedStopKeeping(t) ==
  /\ pc[t] = "stopFailed"
  /\ stopping' = FALSE
  /\ Finish(t)
  /\ UNCHANGED <<files, serverLock, opLock, memory, child, counters>>

\* restart_server and _stop_for_mods try once more with force.
LeaveFailedStop(t) ==
  /\ pc[t] = "stopFailed"
  /\ opLock' = NoOwner
  /\ stopping' = FALSE
  /\ IF mode[t] = "restart"
       THEN Go(t, "stopWait") /\ mode' = [mode EXCEPT ![t] = "force"] /\ UNCHANGED job
       ELSE IF job[t] = "update"
       THEN Go(t, "unlock") /\ UNCHANGED <<job, mode>>
       ELSE Finish(t)
  /\ UNCHANGED <<files, serverLock, memory, child, counters>>

\* The is_running of restart_server and of _process_update_group after a stop.
DownCheck(t) ==
  /\ pc[t] = "downCheck"
  /\ Look
  /\ IF job[t] = "update"
       THEN Go(t, IF IsRunning THEN "unlock" ELSE "download") /\ UNCHANGED <<job, mode>>
       ELSE IF IsRunning
       THEN Finish(t)
       ELSE Go(t, "startLock") /\ UNCHANGED <<job, mode>>
  /\ UNCHANGED <<procs, stoppedFlag, locks, memory, child, counters>>

(***************************************************************************)
(* WatchDog: check_and_auto_restart on a server with auto_restart.         *)
(***************************************************************************)
WatchdogLook(t) ==
  /\ t \in WatchdogThread
  /\ pc[t] = "idle"
  /\ Look
  /\ Go(t, IF IsRunning THEN "wdUp" ELSE "wdDown")
  /\ job' = [job EXCEPT ![t] = "watchdog"]
  /\ UNCHANGED <<procs, stoppedFlag, locks, memory, child, mode, counters>>

\* Mutant: the first poll counts every server as seen.
WatchdogJudgeAllSeen(t) ==
  /\ pc[t] \in {"wdUp", "wdDown"}
  /\ baselined' = TRUE
  /\ seen' = TRUE
  /\ IF baselined /\ pc[t] = "wdDown" THEN Go(t, "wdGate") /\ UNCHANGED <<job, mode>>
                                       ELSE Finish(t)
  /\ UNCHANGED <<files, locks, modGroup, child, counters>>

\* Mutant: a poll that finds the server down forgets it was seen.
WatchdogJudgeForgets(t) ==
  /\ baselined' = TRUE
  /\ seen' = (pc[t] = "wdUp")
  /\ \/ pc[t] = "wdUp" /\ Finish(t)
     \/ pc[t] = "wdDown" /\ IF baselined /\ seen THEN Go(t, "wdGate") /\ UNCHANGED <<job, mode>>
                                                 ELSE Finish(t)
  /\ UNCHANGED <<files, locks, modGroup, child, counters>>

\* The first poll of a session only records what it saw.
WatchdogJudge(t) ==
  /\ baselined' = TRUE
  /\ \/ pc[t] = "wdUp" /\ seen' = TRUE /\ Finish(t)
     \/ pc[t] = "wdDown" /\ UNCHANGED seen
          /\ IF baselined /\ seen THEN Go(t, "wdGate") /\ UNCHANGED <<job, mode>>
                                 ELSE Finish(t)
  /\ UNCHANGED <<files, locks, modGroup, child, counters>>

WatchdogGate(t) ==
  /\ \/ pc[t] = "wdGate" /\ IF serverLock = NoOwner
                              THEN Go(t, "wdFlag") /\ UNCHANGED <<job, mode>>
                              ELSE Finish(t)
     \/ pc[t] = "wdFlag" /\ IF ~stoppedFlag
                              THEN Go(t, "wdLock") /\ UNCHANGED <<job, mode>>
                              ELSE Finish(t)
  /\ UNCHANGED <<files, locks, memory, child, counters>>

(***************************************************************************)
(* The scheduler: planned restarts, mod restarts.                          *)
(***************************************************************************)
PlannedBegin(t) ==
  /\ t \in TickThread
  /\ pc[t] = "idle"
  /\ serverLock = NoOwner
  /\ job' = [job EXCEPT ![t] = "planned"]
  /\ Go(t, "sync")
  /\ UNCHANGED <<files, locks, memory, child, mode, counters>>

PlannedSync(t) ==
  /\ pc[t] = "sync"
  /\ \/ Go(t, "stopWait") /\ UNCHANGED <<job, mode>>
     \/ "prepare" \in Faults /\ Finish(t)
  /\ UNCHANGED <<files, locks, memory, child, counters>>

\* _schedule_update_group, on the ModCheck task: records was_running.  A
\* server that is down is recorded when another one of its group is up.
ScheduleModRestart ==
  /\ TickThread # {}
  /\ modGroup = "none"
  /\ Look
  /\ modGroup' = IF IsRunning THEN "up" ELSE "down"
  /\ UNCHANGED <<procs, stoppedFlag, locks, baselined, seen, child, pc, job, mode, counters>>

\* _process_update_group: takes SERVER_LOCK or waits for the next tick.
UpdateBegin(t) ==
  /\ t \in TickThread
  /\ pc[t] = "idle"
  /\ modGroup # "none"
  /\ serverLock = NoOwner
  /\ serverLock' = t
  /\ job' = [job EXCEPT ![t] = "update"]
  /\ Go(t, IF modGroup = "up" THEN "stopWait" ELSE "download")
  /\ UNCHANGED <<files, opLock, stopping, memory, child, mode, counters>>

\* SteamCMD is gone by the time the group is due: the group is dropped.
UpdateDropped(t) ==
  /\ t \in TickThread
  /\ pc[t] = "idle"
  /\ modGroup # "none"
  /\ "prepare" \in Faults
  /\ modGroup' = "none"
  /\ UNCHANGED <<files, locks, baselined, seen, child, pc, job, mode, counters>>

\* The download done or failed, servers recorded as running are started.
Download(t) ==
  /\ pc[t] = "download"
  /\ Go(t, IF modGroup = "up" THEN "startWait" ELSE "unlock")
  /\ UNCHANGED <<files, locks, memory, child, job, mode, counters>>

\* sync_mods raises: the locks go, the group stays for the next tick.
DownloadRaises(t) ==
  /\ pc[t] = "download"
  /\ "prepare" \in Faults
  /\ serverLock' \in Released
  /\ Finish(t)
  /\ UNCHANGED <<files, opLock, stopping, memory, child, counters>>

(***************************************************************************)
(* Around the callers.                                                     *)
(***************************************************************************)
\* get_status of the UI poll: is_running from any other thread.
StatusPoll ==
  /\ Look
  /\ UNCHANGED <<procs, stoppedFlag, locks, memory, child, pc, job, mode, counters>>

\* The game server crashes, or obeys #shutdown.
GameExit ==
  /\ \E p \in procs : procs' = procs \ {p}
  /\ UNCHANGED <<pidFile, stoppedFlag, locks, memory, child, pc, job, mode, counters>>

\* The manager dies and is started again; files and game server survive.
ManagerCrash ==
  /\ crashes < MaxManagerCrashes
  /\ crashes' = crashes + 1
  /\ serverLock' = IF serverLock = NoOwner THEN NoOwner ELSE Orphan
  /\ opLock' = NoOwner
  /\ stopping' = FALSE
  /\ baselined' = FALSE
  /\ seen' = FALSE
  /\ modGroup' = "none"
  /\ child' = NoPid
  /\ pc' = [t \in Thread |-> "idle"]
  /\ job' = [t \in Thread |-> "none"]
  /\ mode' = [t \in Thread |-> "restart"]
  /\ UNCHANGED <<files, requests>>

\* docs/RUNBOOK.md, "Stuck SERVER_LOCK": deleted by hand.
DeleteStuckLock ==
  /\ serverLock = Orphan
  /\ serverLock' = NoOwner
  /\ UNCHANGED <<files, opLock, stopping, memory, child, pc, job, mode, counters>>

StartStep(t) ==
  \/ AcquireForPrepare(t) \/ PrepareOk(t) \/ PrepareFails(t) \/ AcquireForStart(t)
  \/ ExeMissing(t) \/ StartCheck(t) \/ Spawn(t) \/ SpawnFails(t)
  \/ Confirm(t) \/ ConfirmFails(t)
  \/ ClearStopped(t) \/ LeaveStart(t) \/ ReleaseServerLock(t)

StopStep(t) ==
  \/ TouchStopped(t) \/ TouchFails(t)
  \/ ShutdownSent(t) \/ ShutdownRefused(t) \/ TaskKill(t)
  \/ AwaitDead(t) \/ CleanUpStop(t) \/ LeaveStop(t) \/ LeaveFailedStop(t) \/ DownCheck(t)

WatchdogStep(t) == WatchdogJudge(t) \/ WatchdogGate(t) \/ AcquireForWatchdog(t)

UpdateStep(t) == PlannedSync(t) \/ Download(t) \/ DownloadRaises(t)

Proceed(t) == StartStep(t) \/ StopStep(t) \/ WatchdogStep(t) \/ UpdateStep(t)

Next ==
  \/ \E t \in Thread :
       \/ \E j \in {"start", "stop", "restart"} : Request(t, j)
       \/ WatchdogLook(t) \/ PlannedBegin(t) \/ UpdateBegin(t) \/ UpdateDropped(t)
       \/ EnterStart(t) \/ EnterStop(t)
       \/ Proceed(t)
  \/ ScheduleModRestart \/ StatusPoll \/ GameExit
  \/ ManagerCrash \/ DeleteStuckLock

\* Threads run; a waiter for the operation lock is woken in the end although
\* others take it again and again; the WatchDog job polls for ever.
Fairness ==
  /\ \A t \in Thread : WF_vars(Proceed(t)) /\ SF_vars(EnterStart(t)) /\ SF_vars(EnterStop(t))
  /\ \A t \in WatchdogThread : WF_vars(WatchdogLook(t))

Spec     == Init /\ [][Next]_vars
FairSpec == Spec /\ Fairness

-----------------------------------------------------------------------------
TypeOK ==
  /\ procs \subseteq Pid
  /\ pidFile \in Pid \cup {NoPid}
  /\ stoppedFlag \in BOOLEAN
  /\ serverLock \in Thread \cup {NoOwner, Orphan}
  /\ opLock \in Thread \cup {NoOwner}
  /\ stopping \in BOOLEAN
  /\ baselined \in BOOLEAN
  /\ seen \in BOOLEAN
  /\ modGroup \in {"none", "up", "down"}
  /\ child \in Pid \cup {NoPid}
  /\ pc \in [Thread -> PC]
  /\ job \in [Thread -> Job]
  /\ mode \in [Thread -> StopMode]
  /\ requests \in 0..MaxRequests
  /\ crashes \in 0..MaxManagerCrashes

(***************************************************************************)
(* At most one process of the server is ever alive, whatever the callers,  *)
(* failed starts and manager deaths do: start_server looks for a process   *)
(* and spawns one under the operation lock, which also covers the stops,   *)
(* during which a look may miss a live process.  So may every look after a *)
(* stop that could not touch .stopped and left the server in _stopping:    *)
(* this property and the next ones that read it are promised only where    *)
(* that touch does not fail.                                               *)
(***************************************************************************)
SingleProcess == \A p, q \in procs : p = q

(***************************************************************************)
(* A caller between acquire_lock and release_lock owns SERVER_LOCK, and    *)
(* nobody else does: release_lock unlinks the file unconditionally, so a   *)
(* release on a path that did not acquire would open another caller's      *)
(* section.                                                                *)
(***************************************************************************)
ServerLockOwned == \A t \in Thread : HoldsServerLock(t) <=> serverLock = t

(***************************************************************************)
(* A start and a stop of the server never overlap, and the server is in    *)
(* _stopping exactly while a stop runs; a reader that trusts _stopping     *)
(* never hides the process from a start.                                   *)
(***************************************************************************)
StartExcludesStop ==
  /\ \A t \in Thread : HoldsOpLock(t) <=> opLock = t
  /\ stopping <=> \E t \in Thread : pc[t] \in StopPC

(***************************************************************************)
(* From the moment a mod restart has found its server down until it starts *)
(* the server itself, nothing else brings the server up: SteamCMD and      *)
(* sync_mods replace files that no process uses.                           *)
(***************************************************************************)
DownDuringModUpdate ==
  \A t \in Thread :
    job[t] = "update" /\ modGroup = "up" /\ pc[t] \in {"download", "startWait"}
      => procs = {}

\* The operation under way, as ServerLifecycle sees it.
Phase ==
  IF opLock = NoOwner THEN "none"
  ELSE IF pc[opLock] \in {"startCheck", "spawn"} THEN "starting"
  ELSE IF pc[opLock] \in {"confirm", "clear"} THEN "launched"
  ELSE IF pc[opLock] = "startEnd" THEN "ended"
  ELSE IF pc[opLock] \in {"clean", "stopDone"} THEN "stopped"
  ELSE "stopping"

Lifecycle == INSTANCE ServerLifecycle WITH marked <- stoppedFlag, op <- Phase

(***************************************************************************)
(* ServerManager implements ServerLifecycle: whatever the interleaving of  *)
(* its callers, the server is seen to go through one operation at a time.  *)
(***************************************************************************)
ImplementsLifecycle == Lifecycle!Spec

(***************************************************************************)
(* No operation hangs: SERVER_LOCK is never waited for, the operation lock *)
(* is taken last and always given back.                                    *)
(***************************************************************************)
OperationsEnd == \A t \in Thread : pc[t] # "idle" ~> pc[t] = "idle"

(***************************************************************************)
(* A server this session saw running, and that goes down with no .stopped  *)
(* file, comes up again (or the admin stops it): the WatchDog promise.     *)
(***************************************************************************)
WatchdogRevives ==
  seen /\ procs = {} /\ ~stoppedFlag ~> procs # {} \/ stoppedFlag
=============================================================================
