--------------------------- MODULE ManagerProcess ---------------------------
(***************************************************************************)
(* Processes of the manager: main.py (manager.pid, startup, shutdown), the *)
(* scheduler's asyncio tasks (start, stop, reschedule_mod_check) and the   *)
(* shutdown handler of api/routes.py, with one game server that their      *)
(* WatchDog starts and their mod updates stop and start.                   *)
(*                                                                         *)
(* Cancelling a task does not end the call that it has handed to the       *)
(* executor: the call goes on without it, and the process waits for it     *)
(* before it exits.  Unlink fails while the file is open for writing       *)
(* (Windows).  The WatchDog and the planned-restart task, which carries    *)
(* out mod updates, run while the scheduler does; of the ModCheck tasks    *)
(* there can be several.  That the WatchDog starts only what it has seen   *)
(* is left to ServerManager, groups of servers to ModGroups.               *)
(***************************************************************************)
EXTENDS Naturals, FiniteSets

CONSTANTS
  Proc,       \* processes of the manager, each begun once
  NoProc, Dead,
  Handler,    \* PUT /api/settings requests under way in a process
  Edited,     \* processes that get such requests
  MaxTasks,   \* bound on the ModCheck tasks of a scheduler
  MaxCrashes  \* bound on deaths of processes

ASSUME ProcAssumption == NoProc \notin Proc /\ Dead \notin Proc /\ NoProc # Dead
ASSUME BoundAssumption == MaxTasks \in Nat /\ MaxTasks > 0 /\ MaxCrashes \in Nat

Task == 1 .. MaxTasks
None == 0

VARIABLES
  at,         \* where a process is
  took,       \* it has deleted the manager.pid it found
  pidFile,    \* manager.pid: the process in it, Dead, or NoProc for no file
  tasks,      \* its ModCheck tasks
  tracked,    \* those in _tasks
  cur,        \* _mod_check_task
  awaits,     \* reschedule_mod_check under way: the task it waits for
  wd,         \* check_and_auto_restart in the executor
  call,       \* the executor call of the mod update under way
  lock,       \* SERVER_LOCK: who made it, Dead, or NoProc for no file
  server,     \* the game server: up, or why it is down
  crashes

loop  == <<tasks, tracked, cur, awaits>>
work  == <<wd, call, lock, server>>
vars  == <<at, took, pidFile, loop, work, crashes>>

Init ==
  /\ at = [p \in Proc |-> "new"]
  /\ took = [p \in Proc |-> FALSE]
  /\ pidFile \in {NoProc, Dead}
  /\ tasks = [p \in Proc |-> [t \in Task |-> "none"]]
  /\ tracked = [p \in Proc |-> {}]
  /\ cur = [p \in Proc |-> None]
  /\ awaits = [p \in Proc |-> [h \in Handler |-> None]]
  /\ wd = [p \in Proc |-> "none"]
  /\ call = [p \in Proc |-> "none"]
  /\ lock = NoProc
  /\ server \in {"up", "stopped"}
  /\ crashes = 0

Alive(p) == at[p] \notin {"new", "gone"}
Go(p, place) == at' = [at EXCEPT ![p] = place]

(***************************************************************************)
(* acquire_manager_instance, release_manager_instance.                     *)
(***************************************************************************)
Open(p) ==
  /\ at[p] = "new"
  /\ Go(p, "look")
  /\ UNCHANGED <<took, pidFile, loop, work, crashes>>

Look(p) ==
  /\ at[p] = "look"
  /\ Go(p, IF pidFile = NoProc THEN "create" ELSE "read")
  /\ UNCHANGED <<took, pidFile, loop, work, crashes>>

\* A file that is gone or not yet written is read as pid 0.
Read(p) ==
  /\ at[p] = "read"
  /\ Go(p, IF pidFile \in Proc /\ Alive(pidFile) /\ at[pidFile] # "write"
             THEN "refused" ELSE "unlink")
  /\ UNCHANGED <<took, pidFile, loop, work, crashes>>

Unlink(p) ==
  /\ at[p] = "unlink"
  /\ IF pidFile = NoProc \/ (pidFile \in Proc /\ at[pidFile] = "write")
       THEN Go(p, "refused") /\ UNCHANGED <<took, pidFile>>
       ELSE Go(p, "create") /\ took' = [took EXCEPT ![p] = TRUE] /\ pidFile' = NoProc
  /\ UNCHANGED <<loop, work, crashes>>

\* open('x')
Create(p) ==
  /\ at[p] = "create"
  /\ IF pidFile = NoProc THEN Go(p, "write") /\ pidFile' = p
                         ELSE Go(p, "refused") /\ UNCHANGED pidFile
  /\ UNCHANGED <<took, loop, work, crashes>>

Write(p) ==
  /\ at[p] = "write"
  /\ Go(p, "startup")
  /\ UNCHANGED <<took, pidFile, loop, work, crashes>>

\* Mutant: whoever leaves deletes the file.
ReleaseAny(p) ==
  /\ at[p] \in {"release", "refused"}
  /\ Go(p, IF at[p] = "refused" THEN "gone" ELSE "drain")
  /\ pidFile' = NoProc
  /\ UNCHANGED <<took, loop, work, crashes>>

\* Own pid only; a refused process comes here too, from the finally of main.
Release(p) ==
  /\ at[p] \in {"release", "refused"}
  /\ Go(p, IF at[p] = "refused" THEN "gone" ELSE "drain")
  /\ pidFile' = IF pidFile = p THEN NoProc ELSE pidFile
  /\ UNCHANGED <<took, loop, work, crashes>>

(***************************************************************************)
(* The ModCheck tasks of the scheduler.                                    *)
(***************************************************************************)
SchedulerStart(p) ==
  /\ at[p] = "startup"
  /\ Go(p, "up")
  /\ tasks' = [tasks EXCEPT ![p][1] = "runs"]
  /\ tracked' = [tracked EXCEPT ![p] = {1}]
  /\ cur' = [cur EXCEPT ![p] = 1]
  /\ UNCHANGED <<took, pidFile, awaits, work, crashes>>

Runs(p, t) == tasks[p][t] = "runs"
Over(p, t) == tasks[p][t] = "over"
Cancelled(p, ts) ==
  [t \in Task |-> IF t \in ts /\ Runs(p, t) THEN "cancelled" ELSE tasks[p][t]]
Room(p) == \E t \in Task : tasks[p][t] = "none"
Fresh(p) == CHOOSE t \in Task : tasks[p][t] = "none" /\ (t = 1 \/ tasks[p][t - 1] # "none")

\* Mutant: the list is tidied after the new task has become the current one.
ReplaceForgetting(p) ==
  LET t == Fresh(p)
  IN /\ tasks' = [tasks EXCEPT ![p][t] = "runs"]
     /\ tracked' = [tracked EXCEPT ![p] = @ \ {t}]
     /\ cur' = [cur EXCEPT ![p] = t]

\* A new task takes the place of the current one, whichever that is now.
Replace(p) ==
  LET t == Fresh(p)
  IN /\ tasks' = [tasks EXCEPT ![p][t] = "runs"]
     /\ tracked' = [tracked EXCEPT ![p] = (@ \ {cur[p]}) \cup {t}]
     /\ cur' = [cur EXCEPT ![p] = t]

\* (A task created after stop() ends at once and leaves nothing.)
Reschedule(p, h) ==
  /\ at[p] = "up" /\ p \in Edited
  /\ awaits[p][h] = None /\ Room(p)
  /\ IF Over(p, cur[p])
       THEN Replace(p) /\ UNCHANGED awaits
       ELSE /\ tasks' = [tasks EXCEPT ![p] = Cancelled(p, {cur[p]})]
            /\ awaits' = [awaits EXCEPT ![p][h] = cur[p]]
            /\ UNCHANGED <<tracked, cur>>
  /\ UNCHANGED <<at, took, pidFile, work, crashes>>

TaskEnds(p, t) ==
  /\ tasks[p][t] = "cancelled"
  /\ tasks' = [tasks EXCEPT ![p][t] = "over"]
  /\ UNCHANGED <<at, took, pidFile, tracked, cur, awaits, work, crashes>>

Resume(p, h) ==
  /\ awaits[p][h] # None /\ Over(p, awaits[p][h]) /\ Room(p)
  /\ Replace(p)
  /\ awaits' = [awaits EXCEPT ![p][h] = None]
  /\ UNCHANGED <<at, took, pidFile, work, crashes>>

(***************************************************************************)
(* Work handed to the executor.                                            *)
(***************************************************************************)
\* The WatchDog finds the server down, not locked and not stopped by hand ...
WatchdogLook(p) ==
  /\ at[p] = "up" /\ wd[p] = "none"
  /\ server \in {"exited", "updating"} /\ lock = NoProc
  /\ wd' = [wd EXCEPT ![p] = "called"]
  /\ UNCHANGED <<at, took, pidFile, loop, call, lock, server, crashes>>

WatchdogLock(p) ==
  /\ wd[p] = "called"
  /\ IF lock = NoProc THEN lock' = p /\ wd' = [wd EXCEPT ![p] = "held"]
                      ELSE UNCHANGED lock /\ wd' = [wd EXCEPT ![p] = "none"]
  /\ UNCHANGED <<at, took, pidFile, loop, call, server, crashes>>

\* ... and starts it, whatever became of the flag and of its task.
WatchdogStart(p) ==
  /\ wd[p] = "held"
  /\ server' \in {server, "up"}
  /\ lock' = NoProc
  /\ wd' = [wd EXCEPT ![p] = "none"]
  /\ UNCHANGED <<at, took, pidFile, loop, call, crashes>>

UpdateBegin(p) ==
  /\ at[p] = "up" /\ call[p] = "none"
  /\ lock = NoProc
  /\ lock' = p
  /\ call' = [call EXCEPT ![p] = IF server = "up" THEN "stop" ELSE "fetchOnly"]
  /\ UNCHANGED <<at, took, pidFile, loop, wd, server, crashes>>

\* A call returns; its task makes the next one, unless it was cancelled.
CallEnds(p, result, next) ==
  /\ server' = result
  /\ call' = [call EXCEPT ![p] = IF at[p] = "up" THEN next ELSE "none"]
  /\ lock' = IF at[p] = "up" /\ next = "none" THEN NoProc ELSE lock
  /\ UNCHANGED <<at, took, pidFile, loop, wd, crashes>>

Update(p) ==
  \/ call[p] = "stop" /\ CallEnds(p, IF server = "up" THEN "updating" ELSE server, "fetch")
  \/ call[p] = "fetch" /\ CallEnds(p, server, "start")
  \/ call[p] = "fetchOnly" /\ CallEnds(p, server, "none")
  \/ call[p] = "start" /\ CallEnds(p, "up", "none")

\* Handlers of /start and /stop.
Admin(p) ==
  /\ at[p] \in {"up", "stopAll"}
  /\ \/ server # "up" /\ lock = NoProc /\ server' = "up"
     \/ server' = "stopped"
  /\ UNCHANGED <<at, took, pidFile, loop, wd, call, lock, crashes>>

GameExit ==
  /\ server = "up"
  /\ server' = "exited"
  /\ UNCHANGED <<at, took, pidFile, loop, wd, call, lock, crashes>>

(***************************************************************************)
(* The end of a process: the window is closed, or POST /api/shutdown.      *)
(***************************************************************************)
NoTasks(p) ==
  /\ tasks' = [tasks EXCEPT ![p] = [t \in Task |-> "none"]]
  /\ tracked' = [tracked EXCEPT ![p] = {}]
  /\ cur' = [cur EXCEPT ![p] = None]
  /\ awaits' = [awaits EXCEPT ![p] = [h \in Handler |-> None]]

\* Mutant: SERVER_LOCK is given back whoever made it.
SchedulerStopReleasing(p) ==
  /\ lock' = NoProc
  /\ NoTasks(p)

\* All tasks are cancelled; that of a mod update gives back its lock.  (A
\* ModCheck that stop() does not know sees _running when it wakes.)
SchedulerStop(p) ==
  /\ lock' = IF call[p] # "none" THEN NoProc ELSE lock
  /\ NoTasks(p)

CloseWindow(p) ==
  /\ at[p] = "up"
  /\ Go(p, "release")
  /\ SchedulerStop(p)
  /\ UNCHANGED <<took, pidFile, wd, call, server, crashes>>

Shutdown(p) ==
  /\ at[p] = "up"
  /\ Go(p, "stopAll")
  /\ SchedulerStop(p)
  /\ UNCHANGED <<took, pidFile, wd, call, server, crashes>>

\* stop_server, then SIGINT.
StopAll(p) ==
  /\ at[p] = "stopAll"
  /\ server' = "stopped"
  /\ Go(p, "release")
  /\ UNCHANGED <<took, pidFile, loop, wd, call, lock, crashes>>

\* Mutant: the process does not wait for the executor.
ExitAtOnce(p) ==
  /\ at[p] = "drain"
  /\ Go(p, "gone")
  /\ UNCHANGED <<took, pidFile, loop, work, crashes>>

\* The interpreter waits for the executor's threads.
Exit(p) ==
  /\ at[p] = "drain"
  /\ wd[p] = "none" /\ call[p] = "none"
  /\ Go(p, "gone")
  /\ UNCHANGED <<took, pidFile, loop, work, crashes>>

\* Files stay as they are.
Crash(p) ==
  /\ Alive(p) /\ crashes < MaxCrashes
  /\ crashes' = crashes + 1
  /\ Go(p, "gone")
  /\ pidFile' = IF pidFile = p THEN Dead ELSE pidFile
  /\ lock' = IF lock = p THEN Dead ELSE lock
  /\ wd' = [wd EXCEPT ![p] = "none"]
  /\ call' = [call EXCEPT ![p] = "none"]
  /\ NoTasks(p)
  /\ UNCHANGED <<took, server>>

\* The admin removes the lock of a dead manager.
DeleteStuckLock ==
  /\ lock = Dead
  /\ lock' = NoProc
  /\ UNCHANGED <<at, took, pidFile, loop, wd, call, server, crashes>>

Next ==
  \/ \E p \in Proc :
       \/ Open(p) \/ Look(p) \/ Read(p) \/ Unlink(p) \/ Create(p) \/ Write(p) \/ Release(p)
       \/ SchedulerStart(p)
       \/ \E h \in Handler : Reschedule(p, h) \/ Resume(p, h)
       \/ \E t \in Task : TaskEnds(p, t)
       \/ WatchdogLook(p) \/ WatchdogLock(p) \/ WatchdogStart(p)
       \/ UpdateBegin(p) \/ Update(p) \/ Admin(p)
       \/ CloseWindow(p) \/ Shutdown(p) \/ StopAll(p) \/ Exit(p) \/ Crash(p)
  \/ GameExit \/ DeleteStuckLock

Spec == Init /\ [][Next]_vars

-----------------------------------------------------------------------------
TypeOK ==
  /\ at \in [Proc -> {"new", "look", "read", "unlink", "create", "write", "startup", "up",
                      "stopAll", "release", "refused", "drain", "gone"}]
  /\ took \in [Proc -> BOOLEAN]
  /\ pidFile \in Proc \cup {NoProc, Dead}
  /\ lock \in Proc \cup {NoProc, Dead}
  /\ tasks \in [Proc -> [Task -> {"none", "runs", "cancelled", "over"}]]
  /\ tracked \in [Proc -> SUBSET Task]
  /\ cur \in [Proc -> Task \cup {None}]
  /\ awaits \in [Proc -> [Handler -> Task \cup {None}]]
  /\ wd \in [Proc -> {"none", "called", "held"}]
  /\ call \in [Proc -> {"none", "stop", "fetch", "fetchOnly", "start"}]
  /\ server \in {"up", "exited", "stopped", "updating"}
  /\ crashes \in 0 .. MaxCrashes
  \* nothing is done by a process that is not there
  /\ \A p \in Proc : ~Alive(p) => wd[p] = "none" /\ call[p] = "none" /\ lock # p /\ pidFile # p

(***************************************************************************)
(* A manager that works holds manager.pid, against refused processes which *)
(* run the same release and processes that start at the same moment; only  *)
(* another that has deleted a file it found can have taken it away.        *)
(***************************************************************************)
OneManager ==
  \A p \in Proc : at[p] \in {"write", "startup", "up", "stopAll", "release"} =>
    pidFile = p \/ \E q \in Proc \ {p} : took[q]

(***************************************************************************)
(* SERVER_LOCK belongs to the WatchDog call or the mod update that made    *)
(* it, in whichever process, and a cancelled task gives back its own only. *)
(***************************************************************************)
Updates(p) == call[p] # "none" /\ at[p] = "up"
LockOwned ==
  \A p \in Proc : /\ (wd[p] = "held" \/ Updates(p)) <=> lock = p
                  /\ ~(wd[p] = "held" /\ Updates(p))

(***************************************************************************)
(* However many settings are put at once, the ModCheck that was created    *)
(* last runs and stop() knows it.                                          *)
(***************************************************************************)
CheckTracked ==
  \A p \in Proc : at[p] = "up" /\ (\A h \in Handler : awaits[p][h] = None) =>
    Runs(p, cur[p]) /\ cur[p] \in tracked[p]

(***************************************************************************)
(* RELEASE_NOTES/v1.0.9.md:12: "Closing the window leaves game servers     *)
(* running": a manager that was closed has not left a server down for its  *)
(* mod update.                                                             *)
(***************************************************************************)
ClosingLeavesServers ==
  (\A p \in Proc : at[p] \in {"new", "gone"}) /\ crashes = 0 => server # "updating"
=============================================================================
