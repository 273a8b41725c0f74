# A TLA+ model of DayZ Manager

DayZ Manager is one Python process (FastAPI on an asyncio loop, with threads) that starts, stops, watches and
updates several DayZ game servers on one Windows host. These modules model the parts of it whose correctness
depends on order: who may start a server and when, what a restart in a slot owes, what happens to a group of servers
that share an updated mod, what the version cache claims, whose chat, READY and players are shown, and what is left when the
manager is closed in the middle of it. TLC checks small instances; TLAPS proves every safety property that a passing run
checks for all instances, three of them (of `ServerManager`) on a condition that section 5 states.

Paths below are relative to the repository (`src/...` in PROJECT.json).

## 1. The system

| Part | State it keeps | Operations | Talks to |
|---|---|---|---|
| `core/server_mgr.py` ServerManager | per server: files `server.pid`, `.stopped`, `SERVER_LOCK`; in memory `_op_locks`, `_stopping`, `_seen_running`, `_watchdog_baselined` | prepare, start, stop (manual / restart / force), restart, status, `check_and_auto_restart` | game process, RCON, mod sync, SteamCMD, both watchers |
| `core/scheduler.py` planned restarts | `_owed_planned`, `_planned_kick_state`, `_planned_locked_servers` | `_planned_restart_job` each 60 s, kick window, `execute_planned_restart` | ServerManager, RCON |
| `core/scheduler.py` mod restarts | `_mod_groups` | ModCheck builds and schedules groups, the tick of the planned-restart task processes them | ServerManager, SteamCMD, mod sync |
| `core/scheduler.py` tasks | `_tasks`, `_running`, `_mod_check_task` | start, stop, `reschedule_mod_check`, WatchDog job, log cleaning | all of the above through `run_in_executor` |
| `core/planned_restart.py` | none | slot arithmetic, validation | scheduler, API |
| `core/rcon_client.py` | one lock per endpoint of each client | one `bercon` process per command; say, kick, `#lock`, `#shutdown` | game server |
| `core/server_rpt_watcher.py` | a session and a tail thread per server | begin, end, attach lazily, READY marker, websocket queues | ServerManager, status polls |
| `core/server_chat_watcher.py` | a session, a tail thread, `seen_keys` per server | tail and rescan of ExpLog, history, websocket queues | ServerManager, API |
| `core/server_live_stats.py` | a cache per server, poll locks | periodic RCON players poll, refresh | RCON, status |
| `core/steamcmd.py`, `core/mod_sync.py` | `data/mod_versions.json`, Workshop folder, junctions | has_mod_update, download_mod, mark_mod_version_synced, sync_mods | Steam |
| `core/config.py` | `config.json` | load, save, add/update/remove server | everybody |
| `main.py` | `data/manager.pid` | single instance, startup, shutdown, websockets | everybody |
| `api/routes.py`, `api/auth.py` | none | one thread per start/stop/restart request | everybody |
| hooks, paths, logger, http, system check, Discord notifier, web page, scripts, tests | none that matters here | | |

What makes it hard:

* **Threads.** Every API request, the WatchDog, and the planned-restart task run `ServerManager` in threads of their
  own. Three devices keep them apart and each covers something else: the file `SERVER_LOCK` (tried, never waited for;
  survives the manager), `_op_locks[server]` (waited for; starts and stops), `_stopping` (readers of the process table
  hold back while a stop runs).
* **Awaits.** ModCheck and the tick share `_mod_groups` and hand over to each other at every await; cancelling a task
  ends the task, not the call it waits for; handlers that call RCON themselves keep the whole loop waiting.
* **Time.** A slot counts from midnight, the job sleeps 60 s *after* its work, debts are carried from tick to tick.
* **Failure.** RCON times out or loses a reply, starts and kills fail, SteamCMD fails, an exception ends a tick, the
  manager dies with its files on disk, game servers crash.

What would make each part correct: one process per server and no start beside a stop; a server the administrator has
stopped stays down; a crashed one comes back; locks belong to their takers; a slot restarts its server once and is not
forgotten; a server is never left locked for its players; a group is stopped, updated and started as a whole, once;
READY and player numbers are about the process that runs now; a published mod version is not missed.
PROJECT.json lists the hazards with their lines, and the properties that answer them.

## 2. Modules

| Module | Models | Proofs |
|---|---|---|
| `ServerLifecycle` | abstract: one server, one operation at a time | |
| `ServerManager` | `server_mgr.py` with its callers, one action per access to shared state | `ServerManagerProofs` |
| `ServerIntent` | ServerManager with two history variables, for what the administrator wants | `ServerManagerProofs` |
| `PlannedRestart` | planned restart of one server, in minutes | `PlannedRestartProofs` |
| `ModGroups` | mod restarts of several servers, one action between two awaits | `ModGroupsProofs` |
| `RptSessions` | sessions, tail threads and READY of one server, `server_rpt_watcher.py` | `RptSessionsProofs` |
| `ModCache` | `mod_versions.json` and the Workshop content under ModCheck, a group's download and starts | `ModCacheProofs` |
| `ChatLog` | sessions, tail, rescan, buffer and websocket of the chat of one server | `ChatLogProofs` |
| `LiveStats` | the players cache, its poll loop and refreshes over the shared RCON client | `LiveStatsProofs` |
| `ManagerProcess` | processes of the manager: `manager.pid`, the scheduler's tasks, closing and Shutdown | `ManagerProcessProofs` |
| `MCServerManager`, `MCServerIntent`, `MCModGroups`, `MCModCache`, `MCLiveStats` | symmetry, bounds and sets of failures for TLC | |

**ServerManager.** Threads carry a program counter. `start_server` is `AcquireForStart`, `EnterStart` (waits for the
operation lock), `StartCheck` (looks for a process), `Spawn`, `Confirm` / `ConfirmFails`, `ClearStopped`, `LeaveStart`,
`ReleaseServerLock`; `stop_server` is `EnterStop`, `TouchStopped` / `TouchFails`, `ShutdownSent` / `ShutdownRefused`, `TaskKill`,
`AwaitDead`, `CleanUpStop`, `LeaveStop` / `LeaveFailedStop`. A Start of the API prepares first, a Restart stops first
and takes `SERVER_LOCK` only for its start, as in the code. The WatchDog reads (`WatchdogLook`, `WatchdogJudge`,
`WatchdogGate`) and then acts; the tick runs planned restarts and mod restarts one after the other. The game process
exits by itself, the manager dies (`ManagerCrash`: empty memory, files stay, `SERVER_LOCK` becomes an orphan) and the
operator deletes an orphaned lock. `is_running` is one step: a pid file that names a live process, or, when no stop is
under way, any live process of this exe; a look also rewrites the pid file (`Look`). `Faults` are the external failures:
among them a `release_lock` that cannot unlink the file, which stays as an orphan, and a touch of `.stopped` that raises
before the `try` of the stop and leaves the server in `_stopping`.

`ServerLifecycle` sees of this the live processes, `.stopped` and the kind of operation that holds the operation lock
(the operator `Phase`). It allows a start to launch only when nothing runs, a stop to succeed only when nothing runs,
and `.stopped` to go away only through a confirmed start or a stop that takes back its own mark.

**PlannedRestart.** `clock` is the time in minutes, `now` what this run of the job has read. `TickBegin` records the
debt, `ModsElsewhere` / `ModRestart` / `ModRaises` are `_service_mod_restarts` (only an update that starts the server with
new mods settles the debt; one that fails and restores it does not), `Turn` decides between debt and kick
window, `Say` / `LockServer` / `KickWindow` and `Debt` / `SafetyKick` / `Restarted` / `RestartFails` / `Reopen` are the
two branches. Steps that wait for other processes may take minutes (`Delays`), the pause between two runs one or more
(`Gaps`). `gate` is the lock state of the game process: `acked` when the reply of `#lock` arrived, `silent` when the
game executed it and the reply was lost.

**ModGroups.** `CheckBegin`, `CheckAsk`, `CheckEnd` are a ModCheck scheduling one group, with a possible hand-over at
each `is_running`; there may be several ModChecks, as `reschedule_mod_check` can leave more than one (`CheckCancelled`
ends one at an await), and each reads the list of waiting groups once, before it asks; `TickBegin` … `TickEnd` are the loop over `_mod_groups`, `Take` … `GroupDone` one group. `Poisoned`
is the KeyError of a removed server, `SyncRaises` an exception inside the locked part. A group is any non-empty set of
servers: `_build_update_groups` joins servers that share an updated mod, and any connected set can arise.

**RptSessions.** `cur` is `_sessions[server]`, `sess` the session objects that were ever in it. `Launch` and
`StopServer` are what ServerManager does before it calls the watcher, one at a time under its operation lock;
`PopSession`, `EndSession` are `end_session` (a join that gives up leaves the thread to `TailStops`), `PutSession`,
`StartThread` the rest of `begin_session`. A poll reads (`PollRead`, `PollLook`) and attaches (`PollAttach`,
`PollStartThread`). `TailAttach`, `TailGivesUp`, `TailSwitch`, `TailRead` are the parts of one pass of `_tail_loop`;
`Finds` is what a look at the directory comes to: the newest RPT if it is of this run or a later one, and an older one
or nothing, as its last line is less than 120 s old or not. An RPT is the number of the run that writes it, so the newest is the greatest; `marker` says whether its READY marker is
there, and whether the last 128 KB still hold it.

**ModCache.** A version is a number in the order of publication. Every caller has a SteamCMD object with a copy of the
file (`mine`); `Ask` reads the file, the question to Steam lets everybody else go on, `WriteEntry` is
`_set_cached_mod_time`, which merges under `_MOD_VERSIONS_LOCK`; both may fail, and a read that fails gives no entries.
`CheckBegin` … `CheckEnd` / `PrepareCheckEnd` are `get_mod_update_status`, `FetchAsk` … `RunFails` `download_mod`, `Mark`,
`MarkUnanswered`, `Record` `mark_mod_version_synced`, once for each server of the group that has the mod (`Shares`). A run
of SteamCMD takes minutes and installs a version that was current at some time of them (`RunSucceeds`), so a version that
is published meanwhile may be missed. `CheckEnd` may build a group or none (all servers down, a group waiting), and a
group may be left for the next tick, begun (`GroupBegin`) or dropped (`GroupDropped`: SteamCMD gone, a server that does
not stop). `GroupEnd` and `PrepareEnd` are what the two callers make of the result. `Crash` is a death of the manager,
which in the middle of a write leaves half a file. Three history variables mark the exceptions: `seeded`, mods whose
entry was written without a download, which the code does for a mod it has no entry of; `raced`, mods of which a version was
published during a download; `torn`, whether the file was damaged or unreadable once.

**ChatLog.** `log` is the ExpLog of each run of the game server, `cut` a line that is half written. A session is begun
by the start of a server and by `ensure_session` (handlers, and RCON messages of the scheduler): `Ensure`, `Pop`,
`Forget`, `LoadHistory`, `Put`. `Forget` ends the join of the old thread, done or given up after 3 s, and clears its
subscribers. The thread has `Attach`, `Switch`, `Read` and `Rescan`, which leave what they have read in `todo`; then one
message after the other is appended to the buffer (`AppendNext`, `Appended`, with the duplicate suppression `IsNew`) and
dispatched to the queues in a step of its own (`DispatchNext`), as `_append_message` holds no lock over both. An injected
message is appended by `Inject` and dispatched by `DispatchSaid`. The websocket is `Connect` (takes the history),
`Subscribe`, `Send`, `Disconnect`. Of a session that nobody can hear any more the state is erased.

**LiveStats.** A poll takes the lock of its server (`LockForPoll`), looks for a process (`Look`), waits for the endpoint
(`Execute`), gets an answer or none (`Reply`) and writes the cache (`Write`); the loop does that for one server after the
other, a refresh for one. `Command` is any other use of RCON; the one of `test` and `say` runs on the event loop and
keeps it (`busy`). What can be seen of a server is a version that grows with every change.

**ManagerProcess.** `Open`, `Look`, `Read`, `Unlink`, `Create`, `Write` are `acquire_manager_instance`, one step per
access to the file; `Release` deletes it. `SchedulerStart`, `Reschedule` / `Resume` / `Replace` and `SchedulerStop` are
the tasks, `tracked` is `_tasks` and `cur` is `_mod_check_task`. The WatchDog's call and a mod update have their
executor call apart from the task that waits for it: `SchedulerStop` ends the tasks and runs their `finally`, `CallEnds`
the call later. `CloseWindow` and `Shutdown` … `StopAll` end the process, `Exit` when its executor is done.

## 3. Runs

| Run | Instance | Shows |
|---|---|---|
| `server_threads` | a request at a time (2 in all), the WatchDog, the tick, 2 pids, all failures but the one of the touch, one manager death, RCON required | `TypeOK`, `SingleProcess`, `StartExcludesStop`, `ServerLockOwned`, `DownDuringModUpdate`, `ImplementsLifecycle`, `WatchdogOnlyRevives` |
| `server_operations_end` | a request and the tick, all failures with the one of the touch, one manager death, fair threads | `OperationsEnd`: no lock is kept by an early return, no operation waits for ever |
| `watchdog_revives` | two requests, WatchDog, no external failure | `WatchdogRevives` |
| `planned_restart` | interval 10 (the shortest the code accepts), 22 minutes: two slots; steps of 0 or 1 minute, pauses of 1 or 2 | `TypeOK`, `OneRestartPerSlot`, `LocksRemembered`, `FailedRestartReopens` |
| `mod_groups` | 2 servers, 2 ModChecks, 2 groups, one removal | `TypeOK`, `LockedAllOrNone`, `NoGroupLost`, `OverlapsOnlyByRace`, `StoppedAreStarted` |
| `rpt_sessions` | 2 runs of the server, a poll, 1 attached session | `TypeOK`, `MapSessionLive`, `StartSessionKept`, `ReadyShown` |
| `mod_cache` | a ModCheck, the tick and a start, two of them at once; 2 mods, one with 3 versions, the third published at any moment; one death or failed access to the file | `TypeOK`, `RecordedIsFetched`, `ReadyIsCurrent`, `EntriesKept`, `UpdateFetched` |
| `chat_log` | 2 runs of the server, 2 sessions, 2 messages, the first line in two pieces, one websocket, buffer and queue of one | `TypeOK`, `NoRepeats`, `SentTwiceByRaceOnly`, `MapSessionLive`, `LinesShown` |
| `live_stats` | 2 servers, the loop, a refresh, a command of the scheduler, one on the event loop, 2 changes | `TypeOK`, `RefreshIsFresh`, `NeverOlder`, `CatchesUp` |
| `manager_process` | 2 processes, 2 requests that reschedule, 3 ModChecks each, one death | `TypeOK`, `OneManager`, `LockOwned`, `CheckTracked` |
| `watchdog_overrides_stop` | one request, WatchDog, no failures | **violated** `WatchdogHonoursStop` |
| `closing_stops_server` | as `manager_process` | **violated** `ClosingLeavesServers` |

Every property of a passing run has a mutant, a plausible bug of the modelled code kept beside the definition it
replaces (comment "Mutant: ..."), under which the run finds the property violated.

### Bounds, and why they are enough

* Two process ids: one alive and one more are what a second process takes. A request, the WatchDog and the tick (or two
  requests and the WatchDog, in `watchdog_revives`): the locks distinguish a holder from the others, and the races
  are between a holder, a waiter and one that comes in between. Two requests in a row reach a stop and a start, or a
  second stop. The proofs have no such bound.
* One manager death: the next session starts from the files alone, so a second death repeats the first.
* Minutes 1 to 22 with interval 10: debts are recorded, carried over the following ticks, settled by a later slot, and
  a kick window opens for the second slot after a restart of the first. `Interval` is any positive number in the proofs.
* Two servers, two ModChecks, two groups: groups that overlap because both checks read the list before either appended,
  one that is being processed while the next is scheduled, a group of two whose second lock fails.
* `server_threads` takes every failure but that of the touch of `.stopped`: with it `SingleProcess` and `StartExcludesStop`
  do not hold (section 4, item 17). `server_operations_end` has it.
* Two runs of the game server, of which the manager may have found the first, and one attached session: a session is
  replaced, attached before, between and after the replacement, and outlived by its thread. The first run may be the one
  that wrote its last line less than 120 s before the second starts.
* Mods: one that is on disk and out of date, of which a third version may appear before, during and after the download
  of the second, in a group of two servers that records it twice; one that is not on disk, for the start alone. Two
  calls of the file may be under way, and one of the calls of Steam, SteamCMD or the disk fails.
* Chat: a buffer of one message, so that the second one makes it forget the first; two sessions, the one a start begins
  and the one that a handler began before or begins meanwhile.
* Players: a second server that is down, for its place in a pass; two changes, so that a poll can be older than one and
  newer than another.
* Two processes of the manager and the file of a dead one: who starts meets one that runs, one that starts and one that is gone.

### Fairness

`FairSpec` asks for weak fairness of each thread's next step (an executor thread that can run does), strong fairness
of the two steps that take the operation lock (`threading.RLock` and `Lock` wake waiters; a waiter may lose to a
newcomer, not for ever), and weak fairness of the WatchDog poll (a periodic job that catches every exception). The
administrator, failures, crashes and the deletion of a stuck lock are never assumed to happen.
In `ModCache` a ModCheck and the tick go on for ever. For each mod that a check looks at, Steam answers again and again, and,
whenever there is a chance again and again, a group for it is built (one of its servers runs at such a time), begun (its
servers can be locked and stopped) and its run of SteamCMD succeeds. The code guarantees none of this: without a running
server, with SteamCMD gone or with a server that never stops, a group is never built or downloaded, and an update never
arrives; `UpdateFetched` says that nothing else keeps it away. Starts need not happen. In `ChatLog` the thread of the
session in the map rescans every few seconds and goes on to append and dispatch what it has read; nothing else is assumed.
In `LiveStats` bercon ends (it has a timeout), threads go on, and who waits for a lock
or for the event loop gets it in the end, whatever the others do.
In `RptSessions` the operation under way and the tail threads go on; nobody has to poll, start or write.
`OperationsEnd` needs no assumption that RCON or kill succeed. `WatchdogRevives` is checked without external failures:
with a start that fails for ever nothing can bring a server up.

## 4. What disagrees with the documentation

With a run:

1. **A Stop can be undone by the WatchDog** (`watchdog_overrides_stop`). `.stopped` is read once, before hooks and mod
   preparation (which may take minutes of downloads); the start that follows also deletes it.
2. **Closing the window can leave a server down** (`closing_stops_server`). The release notes say that closing leaves
   game servers running. The mod-update task is cancelled between its stop and its start; nothing starts the server
   again, and the next session's WatchDog leaves alone what it has not seen running.

Met while modelling; the models reach these, no run is spent on them:

3. A second Stop deletes `.stopped`: with RCON mode `required` it cannot reach the server that is down, fails, and
   removes the flag the first one left (`server_mgr.py:611`).
4. A mod download runs beside a live server: who has to be stopped is decided when the group is scheduled; a server
   started since is not stopped (`scheduler.py:873`).
5. A slot can be missed: the debt of T-0 is recorded only by a run of the job that begins in that minute
   (`scheduler.py:255`; `docs/CHANGELOG.md:23`: "A missed T-0 stays owed until it succeeds").
6. A group can run twice: after an exception `_mod_groups` is not replaced; after the removal of a server that waits in
   a group this repeats every minute, and no planned restart is reached (`scheduler.py:738`).
7. READY of the run before: a session accepts an RPT last written up to 120 s ago, which after every quick restart is the
   log of the process that was stopped; a marker in it makes the new process ready at once (`server_rpt_watcher.py:157`).
   `RptSessions` reaches it, so that no property says a READY is of the run that is up. The window is documented, for an
   RPT that appears late; that needs no older file, as the search goes on.
8. An update is lost when a version is published during the run of SteamCMD, or between it and `mark_mod_version_synced`,
   which asks Steam again and records the newer one; a start can then go on with the older content. `RecordedIsFetched`,
   `ReadyIsCurrent` and `UpdateFetched` except the mods for which this has happened (`raced`). Any error in reading
   `mod_versions.json` counts as an empty file (`steamcmd.py:172`), and the next write drops the entries of all other mods; a
   death of the manager in the middle of a write loses every entry. The next check seeds them without a download.
9. `docs/HOW_IT_WORKS.md:81` says that content on disk is accepted with a warning when a download fails; a start and a
   group count that fallback as a failed download. A mark that gets no answer leaves the old entry, and the next ModCheck
   schedules the same update once more.
10. The lock of a mod update "covers stop, one SteamCMD download, and start" (`docs/HOW_IT_WORKS.md:80`), but a cancelled
    task gives `SERVER_LOCK` back while its executor call is still at it, and `manager.pid` is released before the
    executor has finished: the next manager can work on the same server. In the same way a start that the WatchDog has
    handed to the executor can follow the stop of Shutdown.
11. Two processes that both find a dead `manager.pid` can both delete "it", the second one the file of the first, and
    both run until one of them cannot bind the port (`main.py:98`). A process that finds a file which then vanishes
    refuses to start although nobody runs.
12. `reschedule_mod_check` called twice at once leaves a ModCheck beside the tracked one; it ends when it looks at
    `_running`. Both can read the waiting groups before either appends its own: the groups share servers, which are then
    stopped, updated and started twice (`scheduler.py:672`).
13. A session attached while `begin_session` (RPT or chat) is between its pop and its put is overwritten and its thread
    never stops, against "one background thread per server".
14. A chat websocket stays subscribed to the session it found: after a restart of the server it is silent until it
    reconnects. A message that is appended but not yet dispatched when the websocket takes its history and subscribes is
    sent twice (`server_chat_watcher.py:190`, `main.py:357`); one dispatched between the history and the subscription is not
    sent. A half-written line, or one cut at the 256 KB
    window, is a message of its own, next to the complete one.
15. A planned or mod restart starts a server whatever `.stopped` says and clears the flag (`scheduler.py:441`). The
    WatchDog can take `SERVER_LOCK` in the middle of a restart, which takes it only for its start; the restart then
    reports a failure although the server is up. Neither leads to two processes.
16. "One bercon per host:port" holds for the shared client only; every stop makes a client of its own
    (`server_mgr.py:638`).
17. A manual stop adds the server to `_stopping` and touches `.stopped` before the `try` whose `finally` takes it out again
    (`server_mgr.py:600`). When the touch raises, the server stays in `_stopping`: until another stop ends, a look trusts
    `server.pid` alone, and with a stale one a start launches a second process. A `release_lock` that cannot unlink
    `SERVER_LOCK` swallows the error; the file then keeps everybody out until the operator deletes it.

## 5. Proofs

`ServerManagerProofs` proves, for all sets of threads (with one tick task, `ThreadAssumption`), process ids, failures
and bounds, that `Spec` implies `[]TypeOK`, `[]ServerLockOwned` and `[]DownDuringModUpdate`, and that `HSpec` implies
`WatchdogOnlyRevives`. `[]SingleProcess`, `[]StartExcludesStop` and `ImplementsLifecycle` are proved under `TouchWorks`, that the
touch of `.stopped` is not among the failures: with it they are false (section 4, item 17). The argument:

1. `OpLockOwned` and `StoppingOwned`: who is at a program counter under the operation lock holds it; who is in a stop has
   its server in `_stopping`, and, where the touch works, it is there only then. They make `StartExcludesStop`.
2. `JobsFit` ties program counters to jobs; without it `ServerLockOwned` is not inductive, as a thread in `unlock` could
   be one that never acquired. It also says that the flag `.stopped` is at stake only in a stop of the administrator.
3. `DownWhere`: at `spawn` there is no process, because `StartCheck` saw none, `is_running` misses a process only while
   `_stopping` is set, which under `TouchWorks` means that a stop is under way. `SingleProcess` follows, and a start that failed without
   killing its process is found by the next one.
4. For the mod restart: from its `DownCheck` on it holds `SERVER_LOCK`, and every other start needs it.
5. `StepImplements`: under the invariant every action is a step of `ServerLifecycle` or a stutter.
6. For the WatchDog, of `HSpec`: `[][...]` of `WatchdogOnlyRevives`. `Known` is the invariant: whatever tells the manager
   of a process (`_seen_running`, a look that found one, a confirmed start, a WatchDog past its judgement) tells it of one
   that was up in this session; a death of the manager takes all of these along.

`PlannedRestartProofs` proves `TypeOK`, `OneRestartPerSlot`, `LocksRemembered` and `FailedRestartReopens` for every
interval, horizon and duration of the steps. `Settled` is the strengthening: a slot that has been restarted is neither
owed nor in the future, so it can not be recorded again, since the clock only moves on and a run reads it once;
`UnlockKnown`: when the restart fails, `unlock_needed` still says what `_planned_locked_servers` said.

`ModGroupsProofs` proves `TypeOK`, `LockedAllOrNone`, `NoGroupLost`, `OverlapsOnlyByRace` and `StoppedAreStarted` for any
servers, ModChecks and number of groups. Tasks append to `_mod_groups` while another iterates over it and replaces it.
`Passed` says what the loop knows of the part that it has behind it: each of its groups is finished or in `pending`, and
`pending` holds nothing else; what was appended meanwhile is behind the place the loop has reached, so it is not dropped
when `pending` replaces the list (`Kept`). `Ordered` bounds both lists by the number of groups scheduled. `since` is the number
of groups that a check can have seen when it read the list; `Disjoint` says of the groups, and of the servers that a check is about
to schedule, that they share no server with a waiting group of that age: only a later one, of another check, can overlap.
`Checked` bounds what a check found, `Acquiring` the locks taken so far, `Owed` the servers stopped and started so far.

`RptSessionsProofs` proves `TypeOK`, `MapSessionLive` and `StartSessionKept` for any pollers, runs and attached sessions. `Apart`: the
session that is being ended is not the one in the map, so that `end_session` stops no other. `Replaced`: while a start
replaces a session the map holds none or one that a poll attached, so that what its put overwrites is never a session
of a start. `BuiltLive`: what a poll has built belongs to no start, hence an attach changes no session of one; that it does
not overwrite one is its look at the map, in the same step. `Counted`: every start begins one session, so a start that
has launched finds room for it. `Files` gives the newest RPT, `SomeRun` that nobody looks for one before the first run.

`ModCacheProofs` proves `TypeOK`, `EntriesKept`, `RecordedIsFetched` and `ReadyIsCurrent` for any mods, checks, starts, versions and
bounds, without further conditions: the cases in which the code fails are excepted in the properties, per mod (`Unsure`).
`Sound` says what each call knows at its place: what it read from the file was true of the content; SteamCMD fetches at
least what Steam had when it began; a download it is about to record is there (`Asks`); every update its check found is there or
still owed (`Owing`). `Bounded` and `Sane`: nothing claims a version that Steam does not have.

`ManagerProcessProofs` proves `TypeOK`, `OneManager`, `LockOwned` and `CheckTracked` for any number of processes, requests and
deaths. `HolderPlace`: a process is in `manager.pid` only from creating the file to releasing it. `WorkersUp`: calls in the
executor belong to a process that has run its scheduler and waits for them, so that a release or a dead process leaves
no owner of `SERVER_LOCK`. `TasksInOrder` gives a created ModCheck a number that no other has.

`ChatLogProofs` proves `TypeOK`, `SentTwiceByRaceOnly`, `MapSessionLive` and `NoRepeats` for any websockets, logs, sessions and limits
of buffer and queues. `BufferSeen`: what is in a buffer was seen by its session, so `NewOnes` offers nothing again. `Flight`: what
is appended and not yet dispatched was seen, and is in flight once. `Subscribed`: only a websocket past its subscription
is fed, by the session that it is subscribed to, since `Disconnect` and `end_session` forget it. `SentSettled`: what was sent to
it, its history included, or waits in its queue has been seen by that session and is no longer in flight, so that what
is dispatched next is new to the websocket. `Unused` makes a session that is put find nothing of an earlier one, `Ending` keeps the
session whose thread is joined out of the map, and `Lines` bounds positions by what was written. Two operators are recursive
functions, `NewOnes` and the library's `FlattenSeq`; the induction principles of the library can not be instantiated here,
so `NoFirst` (a set of numbers without a first member is empty) carries the induction: that the functions exist, and what
each of their values is.

`LiveStatsProofs` proves `TypeOK`, `RefreshIsFresh` and `NeverOlder` for any servers, pass order, refreshes, other clients
and bounds. `PollLockOwned`: a poll holds the lock of its server from its look to its write. `SeenBetween`: what a poll
is about to write is not older than what is shown, since nobody else writes under that lock, and `CacheKnown`, needed at
the moment it sees it, says that nothing shown is newer than the server. `SeenAfterAsked` carries the request along.

The proofs assume of the constants only what the modules state by name (`...Assumption`): kinds of threads and owners are
different, bounds are numbers, buffers and queues hold at least one message. Every invariant above was checked by TLC on
the instance of its run before it was proved.

Only model-checked: liveness, which is out of the prover's reach (`OperationsEnd`, `WatchdogRevives`, `ReadyShown`,
`UpdateFetched`, `LinesShown`, `CatchesUp`), and the two properties that runs refute.

## 6. Left out

* `is_running` as one step: `get_pid` reads, looks and unlinks in three, and `_scan_pid` writes the pid file. Another
  server's processes, pid reuse, and servers started by hand are outside the model; so is a host where psutil is denied.
* In ManagerProcess: the order in which Shutdown stops several servers, the bind of the port, the start of the watchers.
* `auto_restart` is on (off, the WatchDog does nothing).
* In PlannedRestart: the change of the date, the stages T-30, T-15 and T-10 (they only speak), the legacy cron entries.
  A `#lock` whose reply was lost is modelled (`silent`) and is, as in the code, never unlocked by the manager;
  `LocksRemembered` is about acknowledged locks. A death of the manager, which forgets `_planned_locked_servers`.
* A `release_lock` that fails is in ServerManager only; PlannedRestart, ModGroups and ManagerProcess let every release work.
* In ModGroups: the steps inside a stop or start (they are ServerManager's), the announcements, the mods themselves.
* In RptSessions: the part of a pass of the tail loop is one step, where the code reads the directory and the file in
  several; the clock (whether an older RPT is young enough, the 2 s before the start included, is open at every look);
  lines, FPS, warnings and the websocket queues, which `end_session` clears, so that an open log view is silent after a
  restart; a manager restart is the initial state, and the attached session of a server whose marker is farther back
  than 128 KB stays "starting"; a failed start whose process survives.
* In ModCache: SteamCMD itself (its success line and the folder it names are believed, a run that fails leaves the
  content as it was), more than one group at a time, the other mods' folders, the sync into a server.
* In ChatLog: timestamps (a `since` poll never shows a late message with an older one), the age pruning of `seen_keys`,
  the 256 KB window of the rescan, the last read of a thread that was told to stop, the logs of one rescan written to
  while it reads them, `get_messages` iterating over the deque to which a thread appends (a RuntimeError).
* In LiveStats: the parsing of bercon's output, servers added or removed during a pass, an exception in one server's
  poll, which ends the pass for those behind it.
* `config.json` and its validation; parsing of Workshop answers.
* Hooks, authentication, paths, logging, the web page, Discord (not wired): no state that these properties touch.

## 7. Plan

1. *(done)* `ServerLifecycle`, `ServerManager`, `ServerIntent`; proofs of its safety and of the refinement.
2. *(done)* `PlannedRestart` with proofs; `ModGroups`.
3. *(done)* `RptSessions`, `ChatLog`, `ModCache`, `LiveStats`, `ManagerProcess`.
4. *(done)* Proofs of every safety invariant and action property that a run checks.
5. Algorithms against reference definitions: slots over midnight, `_build_update_groups` as connected components, the
   selection of warning stages.
6. The abstract specification of a planned slot and `PlannedRestart` as its implementation; the websocket of the RPT view.
