------------------------------ MODULE ModGroups ------------------------------
(***************************************************************************)
(* Mod restarts of groups of servers: _schedule_update_group on a ModCheck *)
(* task fills _mod_groups, _service_mod_restarts on the PlannedRestart     *)
(* task empties it through _process_update_group (core/scheduler.py).      *)
(* The tasks run on one event loop and hand over to each other at every    *)
(* await; SERVER_LOCK files are also taken by threads.  Two settings       *)
(* requests can leave two ModCheck tasks (ManagerProcess), hence the set.  *)
(*                                                                         *)
(* A group is a set of servers joined by mods they share.  The steps of a  *)
(* stop or start are those of ServerManager, one step each here.           *)
(***************************************************************************)
EXTENDS Naturals, FiniteSets, SequencesExt

CONSTANTS
  Server,
  ModCheck,              \* ModCheck tasks that may run at once
  NoOwner, Tick, Other,  \* who may have created a SERVER_LOCK
  MaxGroups,             \* bound on the groups scheduled
  MaxRemovals            \* bound on DELETE /api/servers

ASSUME OwnerAssumption == NoOwner # Tick /\ NoOwner # Other /\ Tick # Other
ASSUME BoundAssumption == MaxGroups \in Nat /\ MaxRemovals \in Nat

Id == 1 .. MaxGroups

VARIABLES
  config,      \* servers of config.json
  up,          \* servers with a live process
  lock,        \* SERVER_LOCK of each server
  modGroups,   \* _mod_groups: ids of groups, in order
  group,       \* recorded for each id: servers, was_running, due; and the check's since
  scheduled,   \* groups recorded so far
  check,       \* _schedule_update_group of each task: servers, those left to ask, those up;
               \* since: the groups recorded when it read _mod_groups (history)
  pc,          \* place in _service_mod_restarts
  known,       \* server_by_id of this tick
  next,        \* index of the for loop over _mod_groups
  pending,     \* groups kept for the next tick
  todo,        \* servers the current inner loop has not reached
  stopped,     \* stopped_ids
  abort,       \* abort_download
  started,     \* history: servers this processing has tried to start
  finished     \* history: groups whose processing returned True

world  == <<config, up>>
plans  == <<modGroups, group, scheduled, check>>
loop   == <<known, next, pending>>
work   == <<todo, stopped, abort, started>>
vars   == <<world, lock, plans, pc, loop, work, finished>>

NoGroup == [servers |-> {}, wasRunning |-> {}, due |-> FALSE, since |-> 0]
NoCheck == [servers |-> {}, ask |-> {}, up |-> {}, since |-> 0]

Current == modGroups[next]
Members == group[Current].servers
WasRunning == group[Current].wasRunning

Go(label) == pc' = label

\* The locals of a finished call.
WorkOver == todo' = {} /\ stopped' = {} /\ abort' = FALSE /\ started' = {}
LoopOver == known' = {} /\ next' = 1 /\ pending' = << >> /\ Go("sleep")

Init ==
  /\ config = Server
  /\ up \in SUBSET Server
  /\ lock = [s \in Server |-> NoOwner]
  /\ modGroups = << >>
  /\ group = [i \in Id |-> NoGroup]
  /\ scheduled = 0
  /\ check = [c \in ModCheck |-> NoCheck]
  /\ pc = "sleep"
  /\ known = {}
  /\ next = 1
  /\ pending = << >>
  /\ todo = {}
  /\ stopped = {}
  /\ abort = FALSE
  /\ started = {}
  /\ finished = {}

(***************************************************************************)
(* _schedule_update_group.                                                 *)
(***************************************************************************)
\* Mutant: only the servers whose group is due count as scheduled.
CheckBeginDueOnly(c) ==
  /\ check[c] = NoCheck
  /\ scheduled < MaxGroups
  /\ \E C \in SUBSET config \ {{}} :
       /\ \A i \in Range(modGroups) : group[i].due => C \cap group[i].servers = {}
       /\ check' = [check EXCEPT ![c] = [servers |-> C, ask |-> C, up |-> {}, since |-> scheduled]]
  /\ UNCHANGED <<world, lock, modGroups, group, scheduled, pc, loop, work, finished>>

\* A component of servers with updates, none of them in a group of the list.
CheckBegin(c) ==
  /\ check[c] = NoCheck
  /\ scheduled < MaxGroups
  /\ \E C \in SUBSET config \ {{}} :
       /\ \A i \in Range(modGroups) : C \cap group[i].servers = {}
       /\ check' = [check EXCEPT ![c] = [servers |-> C, ask |-> C, up |-> {}, since |-> scheduled]]
  /\ UNCHANGED <<world, lock, modGroups, group, scheduled, pc, loop, work, finished>>

CheckAsk(c) ==
  /\ \E s \in check[c].ask :
       check' = [check EXCEPT ![c].ask = @ \ {s}, ![c].up = @ \cup ({s} \cap up)]
  /\ UNCHANGED <<world, lock, modGroups, group, scheduled, pc, loop, work, finished>>

\* The list is not read again: what another task has appended meanwhile may share servers.
CheckEnd(c) ==
  /\ check[c] # NoCheck
  /\ check[c].ask = {}
  /\ check' = [check EXCEPT ![c] = NoCheck]
  /\ \/ check[c].up = {} /\ UNCHANGED <<modGroups, group, scheduled>>
     \/ /\ check[c].up # {}
        /\ scheduled < MaxGroups
        /\ scheduled' = scheduled + 1
        /\ group' = [group EXCEPT ![scheduled'] =
                       [servers |-> check[c].servers, wasRunning |-> check[c].up, due |-> FALSE,
                        since |-> check[c].since]]
        /\ modGroups' = Append(modGroups, scheduled')
  /\ UNCHANGED <<world, lock, pc, loop, work, finished>>

\* reschedule_mod_check cancels the task at an await.
CheckCancelled(c) ==
  /\ check[c] # NoCheck
  /\ check' = [check EXCEPT ![c] = NoCheck]
  /\ UNCHANGED <<world, lock, modGroups, group, scheduled, pc, loop, work, finished>>

\* restart_at passes.  A tick reads the clock once, at its beginning.
GroupDue ==
  /\ pc = "sleep"
  /\ \E i \in Range(modGroups) : ~group[i].due /\ group' = [group EXCEPT ![i].due = TRUE]
  /\ UNCHANGED <<world, lock, modGroups, scheduled, check, pc, loop, work, finished>>

(***************************************************************************)
(* _service_mod_restarts: a for loop over the list, which sees what is     *)
(* appended meanwhile; the groups not done replace it at the end.          *)
(***************************************************************************)
\* Mutant: the loop counts from zero.
TickBeginFromZero ==
  /\ pc = "sleep"
  /\ modGroups # << >>
  /\ known' = config
  /\ next' = 0
  /\ pending' = << >>
  /\ Go("next")
  /\ UNCHANGED <<world, lock, plans, work, finished>>

TickBegin ==
  /\ pc = "sleep"
  /\ modGroups # << >>
  /\ known' = config
  /\ next' = 1
  /\ pending' = << >>
  /\ Go("next")
  /\ UNCHANGED <<world, lock, plans, work, finished>>

Keep ==
  /\ pending' = Append(pending, Current)
  /\ next' = next + 1
  /\ Go("next")

NotDue ==
  /\ pc = "next" /\ next <= Len(modGroups)
  /\ ~group[Current].due
  /\ Keep
  /\ UNCHANGED <<world, lock, plans, known, work, finished>>

\* server_by_id[server_id] of a server that was removed: KeyError.
Poisoned ==
  /\ pc = "next" /\ next <= Len(modGroups)
  /\ group[Current].due
  /\ ~ Members \subseteq known
  /\ LoopOver
  /\ UNCHANGED <<world, lock, plans, work, finished>>

Take ==
  /\ pc = "next" /\ next <= Len(modGroups)
  /\ group[Current].due
  /\ Members \subseteq known
  /\ \/ /\ \E s \in Members : lock[s] # NoOwner
        /\ Keep
        /\ UNCHANGED todo
     \/ /\ \A s \in Members : lock[s] = NoOwner
        /\ todo' = Members
        /\ Go("acquire")
        /\ UNCHANGED <<next, pending>>
  /\ UNCHANGED <<world, lock, plans, known, stopped, abort, started, finished>>

\* SteamCMD is gone: the group counts as done.
Dropped ==
  /\ pc = "next" /\ next <= Len(modGroups)
  /\ group[Current].due
  /\ Members \subseteq known
  /\ finished' = finished \cup {Current}
  /\ next' = next + 1
  /\ UNCHANGED <<world, lock, plans, pc, known, pending, work>>

\* Mutant: a group that is not done is left to the next ModCheck.
TickEndDropping ==
  /\ pc = "next" /\ next > Len(modGroups)
  /\ modGroups' = SelectSeq(pending, LAMBDA i : ~group[i].due)
  /\ LoopOver
  /\ UNCHANGED <<world, lock, group, scheduled, check, work, finished>>

TickEnd ==
  /\ pc = "next" /\ next > Len(modGroups)
  /\ modGroups' = pending
  /\ LoopOver
  /\ UNCHANGED <<world, lock, group, scheduled, check, work, finished>>

(***************************************************************************)
(* _process_update_group.                                                  *)
(***************************************************************************)
LocksReleased == lock' = [s \in Server |-> IF lock[s] = Tick THEN NoOwner ELSE lock[s]]

\* Mutant: a failed acquire keeps the locks taken before it.
AcquireKeeping ==
  /\ pc = "acquire"
  /\ \E s \in todo :
       \/ /\ lock[s] = NoOwner
          /\ lock' = [lock EXCEPT ![s] = Tick]
          /\ todo' = todo \ {s}
          /\ UNCHANGED <<pc, next, pending>>
       \/ /\ lock[s] # NoOwner
          /\ todo' = {}
          /\ Keep
          /\ UNCHANGED lock
  /\ UNCHANGED <<world, plans, known, stopped, abort, started, finished>>

\* Another thread may get in between is_locked and acquire_lock.
Acquire ==
  /\ pc = "acquire"
  /\ \E s \in todo :
       \/ /\ lock[s] = NoOwner
          /\ lock' = [lock EXCEPT ![s] = Tick]
          /\ todo' = todo \ {s}
          /\ UNCHANGED <<pc, next, pending>>
       \/ /\ lock[s] # NoOwner
          /\ LocksReleased
          /\ todo' = {}
          /\ Keep
  /\ UNCHANGED <<world, plans, known, stopped, abort, started, finished>>

Acquired ==
  /\ pc = "acquire" /\ todo = {}
  /\ todo' = WasRunning
  /\ stopped' = {}
  /\ abort' = FALSE
  /\ started' = {}
  /\ Go("stop")
  /\ UNCHANGED <<world, lock, plans, loop, finished>>

\* _stop_for_mods; a failure does not end the loop over the servers.
StopOne ==
  /\ pc = "stop"
  /\ \E s \in todo :
       /\ todo' = todo \ {s}
       /\ \/ up' = up \ {s} /\ stopped' = stopped \cup {s} /\ UNCHANGED abort
          \/ abort' = TRUE /\ UNCHANGED <<up, stopped>>
  /\ UNCHANGED <<config, lock, plans, pc, loop, started, finished>>

StopsDone ==
  /\ pc = "stop" /\ todo = {}
  /\ \/ ~abort /\ Go("download") /\ UNCHANGED todo
     \/ abort /\ Go("start") /\ todo' = stopped
  /\ UNCHANGED <<world, lock, plans, loop, stopped, abort, started, finished>>

\* Mutant: a failed download leaves the group at once.
DownloadGivingUp ==
  /\ pc = "download"
  /\ \/ todo' = WasRunning
     \/ todo' = {}
  /\ Go("start")
  /\ UNCHANGED <<world, lock, plans, loop, stopped, abort, started, finished>>

\* SteamCMD succeeds and the mods are synced, or it fails: then the servers
\* stopped for it are restored.
Download ==
  /\ pc = "download"
  /\ \/ todo' = WasRunning
     \/ todo' = stopped
  /\ Go("start")
  /\ UNCHANGED <<world, lock, plans, loop, stopped, abort, started, finished>>

\* sync_mods raises on a file it cannot write: the finally releases the
\* locks and the exception ends the tick.
SyncRaises ==
  /\ pc \in {"download", "start"}
  /\ LocksReleased
  /\ WorkOver
  /\ LoopOver
  /\ UNCHANGED <<world, plans, finished>>

StartOne ==
  /\ pc = "start"
  /\ \E s \in todo :
       /\ todo' = todo \ {s}
       /\ started' = started \cup {s}
       /\ up' = up \cup {s} \/ UNCHANGED up
  /\ UNCHANGED <<config, lock, plans, pc, loop, stopped, abort, finished>>

GroupDone ==
  /\ pc = "start" /\ todo = {}
  /\ LocksReleased
  /\ finished' = finished \cup {Current}
  /\ next' = next + 1
  /\ WorkOver
  /\ Go("next")
  /\ UNCHANGED <<world, plans, known, pending>>

(***************************************************************************)
(* Around the tasks.                                                       *)
(***************************************************************************)
OtherAcquires ==
  /\ \E s \in config : lock[s] = NoOwner /\ lock' = [lock EXCEPT ![s] = Other]
  /\ UNCHANGED <<world, plans, pc, loop, work, finished>>

\* A start by another caller comes up under its lock.
OtherReleases ==
  /\ \E s \in Server :
       /\ lock[s] = Other
       /\ lock' = [lock EXCEPT ![s] = NoOwner]
       /\ up' = up \cup {s} \/ UNCHANGED up
  /\ UNCHANGED <<config, plans, pc, loop, work, finished>>

\* A crash, or a Stop, which takes no SERVER_LOCK.
GoesDown ==
  /\ \E s \in up : up' = up \ {s}
  /\ UNCHANGED <<config, lock, plans, pc, loop, work, finished>>

RemoveServer ==
  /\ Cardinality(Server \ config) < MaxRemovals
  /\ \E s \in config : config' = config \ {s}
  /\ UNCHANGED <<up, lock, plans, pc, loop, work, finished>>

Next ==
  \/ \E c \in ModCheck : CheckBegin(c) \/ CheckAsk(c) \/ CheckEnd(c) \/ CheckCancelled(c)
  \/ GroupDue
  \/ TickBegin \/ NotDue \/ Poisoned \/ Take \/ Dropped \/ TickEnd
  \/ Acquire \/ Acquired \/ StopOne \/ StopsDone \/ Download \/ SyncRaises
  \/ StartOne \/ GroupDone
  \/ OtherAcquires \/ OtherReleases \/ GoesDown \/ RemoveServer

Spec == Init /\ [][Next]_vars

-----------------------------------------------------------------------------
TypeOK ==
  /\ config \subseteq Server
  /\ up \subseteq Server
  /\ lock \in [Server -> {NoOwner, Tick, Other}]
  /\ modGroups \in Seq(Id)
  /\ group \in [Id -> [servers : SUBSET Server, wasRunning : SUBSET Server, due : BOOLEAN,
                        since : 0 .. MaxGroups]]
  /\ scheduled \in 0 .. MaxGroups
  /\ check \in [ModCheck -> [servers : SUBSET Server, ask : SUBSET Server, up : SUBSET Server,
                             since : 0 .. MaxGroups]]
  /\ pc \in {"sleep", "next", "acquire", "stop", "download", "start"}
  /\ known \subseteq Server
  /\ next \in 1 .. MaxGroups + 1
  /\ pending \in Seq(Id)
  /\ todo \subseteq Server
  /\ stopped \subseteq Server
  /\ abort \in BOOLEAN
  /\ started \subseteq Server
  /\ finished \subseteq Id

Working == pc \in {"stop", "download", "start"}

(***************************************************************************)
(* The task holds SERVER_LOCK of a whole group or of no server, whatever   *)
(* ends the processing: a lost race for one of the files, an abort, a      *)
(* failed download or an exception.                                        *)
(***************************************************************************)
LockedAllOrNone ==
  /\ Working => \A s \in Members : lock[s] = Tick
  /\ \A s \in Server : lock[s] = Tick => (Working \/ pc = "acquire") /\ s \in Members

(***************************************************************************)
(* A group leaves _mod_groups only once processed, although ModCheck       *)
(* appends to the list while the tick iterates over it and replaces it.    *)
(***************************************************************************)
NoGroupLost == \A i \in 1 .. scheduled : i \in finished \cup Range(modGroups)

(***************************************************************************)
(* A check never schedules a server of a group that waited when it read    *)
(* _mod_groups, whatever the tick and the other tasks do until it appends. *)
(* Groups share servers only when two ModChecks overlap: each has read the *)
(* list before the other appended (the server is then restarted twice).    *)
(***************************************************************************)
OverlapsOnlyByRace ==
  \A i, j \in Range(modGroups) :
    i # j /\ i <= group[j].since => group[i].servers \cap group[j].servers = {}

(***************************************************************************)
(* A processing that ends has tried to start what it has stopped and no    *)
(* other server, be it done, aborted or left without its download.         *)
(***************************************************************************)
StoppedAreStarted == [][pc = "start" /\ pc' = "next" => started = stopped]_vars
=============================================================================
