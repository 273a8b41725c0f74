---------------------------- MODULE PlannedRestart ----------------------------
(***************************************************************************)
(* The planned restart of one server: _planned_restart_job, its kick       *)
(* window and execute_planned_restart (core/scheduler.py) over the slot    *)
(* arithmetic of core/planned_restart.py.                                  *)
(*                                                                         *)
(* The job is one asyncio task that sleeps 60 s between two runs, whatever *)
(* the run took, and reads the clock once at its start.  Time is counted   *)
(* in minutes since midnight.  The other servers of the job are present    *)
(* through the time they take (Delays); other users of SERVER_LOCK through *)
(* the flag busy.  The say stages T-30, T-15 and T-10 change nothing that  *)
(* outlives them and are left out.                                         *)
(***************************************************************************)
EXTENDS Integers

CONSTANTS
  Interval,     \* planned_restart.interval_minutes
  Horizon,      \* bound on the clock
  Gaps,         \* minutes on the clock between the end of a run and the next
  Delays,       \* minutes a slow step of the run may take
  MaxSwitches,  \* bound on changes of planned_restart.enabled
  NoSlot

ASSUME TimeAssumption ==
  /\ Interval \in Nat \ {0}
  /\ Horizon \in Nat /\ Interval <= Horizon
  /\ Gaps \subseteq Nat \ {0}
  /\ Delays \subseteq Nat
  /\ MaxSwitches \in Nat
ASSUME NoSlotAssumption == NoSlot \notin Nat

VARIABLES
  clock, now,       \* the time, and the time this run of the job has read
  pc,
  owed,             \* _owed_planned[server]
  kick,             \* _planned_kick_state[server]
  planLocked,       \* server in _planned_locked_servers
  unlockNeeded,     \* local of execute_planned_restart
  up,               \* a process of the server runs
  gate,             \* #lock of that process, "silent" when its reply was lost
  players,          \* somebody is online
  rcon,             \* the server answers RCON
  busy,             \* SERVER_LOCK is held by somebody else
  enabled, switches,
  modDue,           \* a mod restart of the server is due
  restarts          \* history: restarts that settled the debt of a slot

vars == <<clock, now, pc, owed, kick, planLocked, unlockNeeded, up, gate, players,
          rcon, busy, enabled, switches, modDue, restarts>>
game == <<up, gate, players>>
env  == <<rcon, busy, enabled, switches, modDue>>
job  == <<owed, kick, planLocked, unlockNeeded, restarts>>
time == <<clock, now>>

KickStage == 5
KickMin   == 3
KickMax   == 5

Minute == 0 .. Horizon

\* Minutes of the day are what the slots are counted in: one day here.
MinutesUntil(m) == IF m % Interval = 0 THEN 0 ELSE Interval - (m % Interval)
SlotKey(m)      == m + MinutesUntil(m)
InKickWindow(m) == KickStage < Interval /\ MinutesUntil(m) \in KickMin..KickMax

KickState == [slot : Nat \cup {NoSlot}, say : BOOLEAN, done : BOOLEAN]

Elapse == \E d \in Delays : clock + d <= Horizon /\ clock' = clock + d

Go(label) == pc' = label

Init ==
  /\ clock \in 1 .. Interval - 1
  /\ now = clock
  /\ pc = "sleep"
  /\ owed = NoSlot
  /\ kick = [slot |-> NoSlot, say |-> FALSE, done |-> FALSE]
  /\ planLocked = FALSE
  /\ unlockNeeded = FALSE
  /\ up = TRUE
  /\ gate = "open"
  /\ players = FALSE
  /\ rcon = TRUE
  /\ busy = FALSE
  /\ enabled \in BOOLEAN
  /\ switches = 0
  /\ modDue = FALSE
  /\ restarts = [m \in Minute |-> 0]

Fresh == up' = TRUE /\ gate' = "open" /\ players' = FALSE
Down  == up' = FALSE /\ gate' = "open" /\ players' = FALSE

(***************************************************************************)
(* _planned_restart_job.                                                   *)
(***************************************************************************)
\* T-0 is the minute the run reads; only then is the slot owed.
TickBegin ==
  /\ pc = "sleep"
  /\ \E g \in Gaps : clock + g <= Horizon /\ clock' = clock + g
  /\ now' = clock'
  /\ owed' = IF enabled /\ MinutesUntil(now') = 0 THEN SlotKey(now') ELSE owed
  /\ Go("mods")
  /\ UNCHANGED <<kick, planLocked, unlockNeeded, restarts, game, env>>

\* A restart that settles the debt, if there is one.
Settle ==
  /\ restarts' = IF owed = NoSlot THEN restarts ELSE [restarts EXCEPT ![owed] = @ + 1]
  /\ owed' = NoSlot

\* No group of this server is due, or it finds SERVER_LOCK taken.
ModsElsewhere ==
  /\ pc = "mods"
  /\ modDue => busy
  /\ Elapse
  /\ Go("turn")
  /\ UNCHANGED <<now, job, game, env>>

\* _process_update_group: started with new mods, which settles the debt; down because the
\* start failed; restored after a failed stop or download of the group, which settles
\* nothing (_restore_stopped_servers); or not touched.
ModRestart ==
  /\ pc = "mods"
  /\ modDue /\ ~busy
  /\ modDue' = FALSE
  /\ Elapse
  /\ \/ Fresh /\ Settle
     \/ (Fresh \/ Down \/ UNCHANGED game) /\ UNCHANGED <<owed, restarts>>
  /\ Go("turn")
  /\ UNCHANGED <<now, kick, planLocked, unlockNeeded, rcon, busy, enabled, switches>>

\* An exception in the group ends the run, before or after a restore; the group stays.
ModRaises ==
  /\ pc = "mods"
  /\ modDue /\ ~busy
  /\ Elapse
  /\ Fresh \/ Down \/ UNCHANGED game
  /\ Go("sleep")
  /\ UNCHANGED <<now, job, env>>

\* The server's turn in the loop, some time after the run began.
Turn ==
  /\ pc = "turn"
  /\ \/ (~enabled \/ busy) /\ Go("sleep")
     \/ enabled /\ ~busy /\ Go(IF InKickWindow(now) THEN "window" ELSE "debt")
  /\ UNCHANGED <<time, job, game, env>>

(***************************************************************************)
(* _run_planned_kick_window.                                               *)
(***************************************************************************)
KickStateForSlot ==
  IF kick.slot = SlotKey(now) THEN kick
  ELSE [slot |-> SlotKey(now), say |-> FALSE, done |-> FALSE]

EnterWindow ==
  /\ pc = "window"
  /\ kick' = KickStateForSlot
  /\ Go(IF kick'.done \/ ~up \/ ~rcon THEN "debt"
        ELSE IF kick'.say THEN "lock" ELSE "say")
  /\ UNCHANGED <<time, owed, planLocked, unlockNeeded, restarts, game, env>>

\* Mutant: the state is replaced and loses its kick_done.
SayReplacing ==
  /\ pc = "say"
  /\ kick' = [slot |-> kick.slot, say |-> TRUE]
  /\ Elapse
  /\ Go("lock")
  /\ UNCHANGED <<now, owed, planLocked, unlockNeeded, restarts, game, env>>

Say ==
  /\ pc = "say"
  /\ kick' = [kick EXCEPT !.say = TRUE]
  /\ Elapse
  /\ Go("lock")
  /\ UNCHANGED <<now, owed, planLocked, unlockNeeded, restarts, game, env>>

\* #lock: answered, lost, or carried out with its answer lost.
LockServer ==
  /\ pc = "lock"
  /\ \/ up /\ rcon /\ gate' = "acked" /\ planLocked' = TRUE
     \/ up /\ gate' = (IF gate = "open" THEN "silent" ELSE gate) /\ UNCHANGED planLocked
     \/ UNCHANGED <<gate, planLocked>>
  /\ Go("kick")
  /\ UNCHANGED <<time, owed, kick, unlockNeeded, restarts, up, players, env>>

\* kick_all_players: everybody, some, or no list of players.
KickAll(next) ==
  /\ Elapse
  /\ \/ up /\ rcon /\ players' = FALSE /\ kick' = [kick EXCEPT !.done = TRUE]
     \/ UNCHANGED <<players, kick>>
  /\ Go(next)
  /\ UNCHANGED <<now, owed, planLocked, unlockNeeded, restarts, up, gate, env>>

KickWindow == pc = "kick" /\ KickAll("debt")

(***************************************************************************)
(* execute_planned_restart of a server that owes a slot.                   *)
(***************************************************************************)
SafetyKickDue == enabled /\ up /\ kick.slot = SlotKey(clock) /\ ~kick.done

Debt ==
  /\ pc = "debt"
  /\ \/ (owed = NoSlot \/ busy) /\ Go("sleep") /\ UNCHANGED unlockNeeded
     \/ /\ owed # NoSlot /\ ~busy
        /\ unlockNeeded' = planLocked
        /\ Go(IF SafetyKickDue THEN "safety" ELSE "restart")
  /\ UNCHANGED <<time, owed, kick, planLocked, restarts, game, env>>

SafetyKick == pc = "safety" /\ KickAll("restart")

\* Mutant: the debt outlives the restart that paid it.
RestartedOwing ==
  /\ pc = "restart"
  /\ Elapse
  /\ Fresh
  /\ restarts' = [restarts EXCEPT ![owed] = @ + 1]
  /\ planLocked' = FALSE
  /\ Go("sleep")
  /\ UNCHANGED <<now, owed, kick, unlockNeeded, env>>

Restarted ==
  /\ pc = "restart"
  /\ Elapse
  /\ Fresh
  /\ Settle
  /\ planLocked' = FALSE
  /\ Go("sleep")
  /\ UNCHANGED <<now, kick, unlockNeeded, env>>

\* restart_server or sync_mods fails: before the stop, or after it.
RestartFails ==
  /\ pc = "restart"
  /\ Elapse
  /\ Down \/ UNCHANGED game
  /\ Go("failed")
  /\ UNCHANGED <<now, job, env>>

\* Mutant: the server is struck off _planned_locked_servers before #unlock is sent.
ReopenForgetting ==
  /\ pc = "failed"
  /\ planLocked' = FALSE
  /\ \/ unlockNeeded /\ up /\ rcon /\ gate' = "open"
     \/ ~(unlockNeeded /\ up /\ rcon) /\ UNCHANGED gate
  /\ Go("sleep")
  /\ UNCHANGED <<time, owed, kick, unlockNeeded, restarts, up, players, env>>

\* Mutant: #unlock is sent only when the safety kick was incomplete.
ReopenUnkicked ==
  /\ pc = "failed"
  /\ \/ unlockNeeded /\ ~kick.done /\ up /\ rcon /\ gate' = "open"
     \/ ~(unlockNeeded /\ ~kick.done /\ up /\ rcon) /\ UNCHANGED gate
  /\ Go("sleep")
  /\ UNCHANGED <<time, job, up, players, env>>

Reopen ==
  /\ pc = "failed"
  /\ \/ unlockNeeded /\ up /\ rcon /\ gate' = "open"
     \/ ~(unlockNeeded /\ up /\ rcon) /\ UNCHANGED gate
  /\ Go("sleep")
  /\ UNCHANGED <<time, job, up, players, env>>

(***************************************************************************)
(* Around the job.                                                         *)
(***************************************************************************)
Join ==
  /\ up /\ gate = "open"
  /\ players' = TRUE
  /\ UNCHANGED <<time, pc, job, up, gate, env>>

Crash ==
  /\ up
  /\ Down
  /\ UNCHANGED <<time, pc, job, env>>

\* A start, restart or mod update by another caller, and what it leaves.
OtherBegins ==
  /\ ~busy
  /\ busy' = TRUE
  /\ UNCHANGED <<time, pc, job, game, rcon, enabled, switches, modDue>>

OtherEnds ==
  /\ busy
  /\ busy' = FALSE
  /\ Fresh \/ Down \/ UNCHANGED game
  /\ UNCHANGED <<time, pc, job, rcon, enabled, switches, modDue>>

RconChanges ==
  /\ rcon' = ~rcon
  /\ UNCHANGED <<time, pc, job, game, busy, enabled, switches, modDue>>

\* The restart block of the server card, PUT /api/servers.
Switch ==
  /\ switches < MaxSwitches
  /\ switches' = switches + 1
  /\ enabled' = ~enabled
  /\ UNCHANGED <<time, pc, job, game, rcon, busy, modDue>>

GroupDue ==
  /\ ~modDue /\ up
  /\ modDue' = TRUE
  /\ UNCHANGED <<time, pc, job, game, rcon, busy, enabled, switches>>

Next ==
  \/ TickBegin \/ ModsElsewhere \/ ModRestart \/ ModRaises \/ Turn
  \/ EnterWindow \/ Say \/ LockServer \/ KickWindow
  \/ Debt \/ SafetyKick \/ Restarted \/ RestartFails \/ Reopen
  \/ Join \/ Crash \/ OtherBegins \/ OtherEnds \/ RconChanges \/ Switch \/ GroupDue

Spec == Init /\ [][Next]_vars

-----------------------------------------------------------------------------
PC == {"sleep", "mods", "turn", "window", "say", "lock", "kick", "debt", "safety",
       "restart", "failed"}

TypeOK ==
  /\ clock \in Minute
  /\ now \in Minute
  /\ pc \in PC
  /\ owed \in Minute \cup {NoSlot}
  /\ kick \in KickState
  /\ planLocked \in BOOLEAN
  /\ unlockNeeded \in BOOLEAN
  /\ up \in BOOLEAN
  /\ gate \in {"open", "acked", "silent"}
  /\ players \in BOOLEAN
  /\ rcon \in BOOLEAN
  /\ busy \in BOOLEAN
  /\ enabled \in BOOLEAN
  /\ switches \in 0 .. MaxSwitches
  /\ modDue \in BOOLEAN
  /\ restarts \in [Minute -> Nat]

(***************************************************************************)
(* A slot restarts its server once: a debt carried over ticks, retried     *)
(* after failures, and shared with the mod restarts of the same tick, is   *)
(* settled once and never taken up again (docs/HOW_IT_WORKS.md, "the same  *)
(* slot does not restart twice").  A failed mod update that starts the     *)
(* server again settles nothing: the planned restart follows it.           *)
(***************************************************************************)
OneRestartPerSlot == \A m \in Minute : restarts[m] <= 1

(***************************************************************************)
(* A #lock the server acknowledged is remembered until that process is     *)
(* gone or was unlocked, through skipped ticks, failed restarts, crashes   *)
(* and mod restarts: otherwise nobody would ever send #unlock.             *)
(***************************************************************************)
LocksRemembered == gate = "acked" => planLocked

(***************************************************************************)
(* After a planned restart that failed the server does not stay closed to  *)
(* its players, if it still runs and answers.                              *)
(***************************************************************************)
FailedRestartReopens ==
  [][pc = "failed" /\ pc' = "sleep" /\ up /\ rcon => gate' # "acked"]_vars
=============================================================================
