------------------------------- MODULE ModCache -------------------------------
(***************************************************************************)
(* The shared Workshop content and data/mod_versions.json                  *)
(* (core/steamcmd.py) with their three kinds of callers: the checks of a   *)
(* ModCheck (get_mod_update_status, all servers at once), the restart of   *)
(* one mod group after the other on the tick (_process_update_group) and   *)
(* starts of servers                                                       *)
(* (_prepare_mods_unlocked).  They run in executor threads and share       *)
(* nothing but the file, whose reads and writes _MOD_VERSIONS_LOCK makes   *)
(* single steps; every question to Steam and every run of SteamCMD lets    *)
(* the others go on, and lets Steam publish.                               *)
(*                                                                         *)
(* A version is time_updated of a Workshop item: 1, 2, ... in the order of *)
(* publication; 0 is an entry that is missing or content that is absent.   *)
(***************************************************************************)
EXTENDS Naturals, FiniteSets, FiniteSetsExt

CONSTANTS
  Mod, NoMod,      \* Workshop items, numbered in the order of the mod lists
  ModCheck, Tick,  \* the checks of servers by ModCheck; the tick of the scheduler
  Preparer,        \* starts of servers
  Installed,       \* mods with content when the manager first starts, of version 1
  Published,       \* versions that Steam has at that time
  Uses,            \* mods of the server a check or a start is for
  Shares,          \* servers of a group that have the mod
  MaxVersion,      \* bound on what is published of each mod
  MaxCalls,        \* bound on the calls under way at once
  MaxFailures      \* bound on deaths of the manager and failed accesses to the file

ASSUME ModAssumption == Mod \subseteq Nat /\ NoMod \in Nat \ Mod /\ Installed \subseteq Mod
ASSUME ThreadAssumption == Tick \notin ModCheck \cup Preparer /\ ModCheck \cap Preparer = {}
ASSUME UsesAssumption == Uses \in [ModCheck \cup Preparer -> SUBSET Mod]
ASSUME BoundAssumption ==
  /\ {Published, MaxVersion, Shares} \subseteq [Mod -> Nat \ {0}]
  /\ \A m \in Mod : Published[m] <= MaxVersion[m]
  /\ {MaxCalls, MaxFailures} \subseteq Nat

Thread == ModCheck \cup {Tick} \cup Preparer
Missing == 0
NoEntries == [m \in Mod |-> Missing]

VARIABLES
  remote,   \* the version Steam has published
  disk,     \* the version in content/221100/<id>
  file,     \* mod_versions.json
  group,    \* mods of the group in _mod_groups
  job,      \* the call each thread is in
  seeded,   \* history: mods whose entry was written without a download
  raced,    \* history: mods published between the begin of a download and its record
  torn,     \* history: a read or a write of the file failed or was cut short
  failures  \* deaths and failed accesses so far

steam   == <<remote, disk>>
mishaps == <<torn, failures>>
history == <<seeded, raced, mishaps>>
vars    == <<steam, file, group, job, history>>

\* A call: its place, the mods its loop has not reached, the mod it is at,
\* what its SteamCMD object read from the file, the version at the begin of
\* the SteamCMD run or the answer it will write, the servers to record it for,
\* the versions it found newer than their entries, the downloads that failed.
Idle == [pc |-> "idle", todo |-> {}, cur |-> NoMod, mine |-> NoEntries,
         answer |-> Missing, left |-> 0, seen |-> NoEntries, failed |-> {}]

At(t, pc) == job[t].pc = pc
Cur(t) == job[t].cur
Own(t) == job[t].mine[Cur(t)]
MayCall(t) == At(t, "idle") /\ Cardinality({u \in Thread : ~At(u, "idle")}) < MaxCalls
Found(t) == {m \in Mod : job[t].seen[m] # Missing}
Become(t, j) == job' = [job EXCEPT ![t] = j]
Go(t, pc) == Become(t, [job[t] EXCEPT !.pc = pc])
\* The loop goes on; what was read for one mod is not used for the next.
Proceed(t, pc, j) ==
  Become(t, [j EXCEPT !.pc = pc, !.cur = NoMod, !.mine = NoEntries, !.answer = Missing, !.left = 0])

\* A read or a write that fails, or a death.
Mishap(tears) ==
  /\ failures < MaxFailures
  /\ failures' = failures + 1
  /\ torn' = (torn \/ tears)

\* Entries of one server's own keys and of the shared key, merged on load.
Migrated(raw) == [m \in Mod |-> IF raw[m] = {} THEN Missing ELSE Min(raw[m])]

\* A file of an older release may hold an inflated entry of one server next
\* to the true one of another.
Init ==
  /\ remote = Published
  /\ \E raw \in [Mod -> {{}, {1}, {1, 2}}] :
       /\ \A m \in Mod : \A v \in raw[m] : m \in Installed /\ v <= remote[m]
       /\ file = Migrated(raw)
  /\ disk = [m \in Mod |-> IF m \in Installed THEN 1 ELSE Missing]
  /\ group = {}
  /\ job = [t \in Thread |-> Idle]
  /\ seeded = {} /\ raced = {}
  /\ torn = FALSE
  /\ failures = 0

(***************************************************************************)
(* get_mod_update_status: has_mod_update for one mod after the other.      *)
(***************************************************************************)
CheckBegin(t) ==
  /\ t # Tick
  /\ MayCall(t)
  /\ Become(t, [Idle EXCEPT !.pc = "check", !.todo = Uses[t]])
  /\ UNCHANGED <<steam, file, group, history>>

\* _refresh_mod_versions_from_disk, where any error reads as no entries; then
\* the question goes to Steam.
Ask(t, from, to) ==
  /\ At(t, from)
  /\ job[t].todo # {}
  /\ \E read \in {file, NoEntries} :
       /\ (read = file /\ UNCHANGED mishaps) \/ (read = NoEntries /\ Mishap(TRUE))
       /\ LET m == Min(job[t].todo)
          IN Become(t, [job[t] EXCEPT !.pc = to, !.cur = m, !.mine = read, !.todo = @ \ {m}])
  /\ UNCHANGED <<steam, file, group, seeded, raced>>

CheckAsk(t) == Ask(t, "check", "asked")

\* No answer, or details that are not available: no update.
CheckUnanswered(t) ==
  /\ At(t, "asked")
  /\ Proceed(t, "check", job[t])
  /\ UNCHANGED <<steam, file, group, history>>

\* Mutant: content that is there is taken for the current one.
CheckAnsweredPresent(t) ==
  /\ At(t, "asked")
  /\ LET r == remote[Cur(t)] IN
     \/ /\ Own(t) = Missing
        /\ Become(t, [job[t] EXCEPT !.pc = "seed", !.answer = r])
     \/ /\ Own(t) # Missing
        /\ Proceed(t, "check", [job[t] EXCEPT !.seen[Cur(t)] =
             IF r > Own(t) /\ disk[Cur(t)] = Missing THEN r ELSE Missing])
  /\ UNCHANGED <<steam, file, group, history>>

CheckAnswered(t) ==
  /\ At(t, "asked")
  /\ LET r == remote[Cur(t)] IN
     \/ /\ Own(t) = Missing
        /\ Become(t, [job[t] EXCEPT !.pc = "seed", !.answer = r])
     \/ /\ Own(t) # Missing
        /\ Proceed(t, "check", [job[t] EXCEPT !.seen[Cur(t)] = IF r > Own(t) THEN r ELSE Missing])
  /\ UNCHANGED <<steam, file, group, history>>

\* Mutant: the copy read before the question is written, not the file's.
WriteEntryOwnCopy(t) == file' = [job[t].mine EXCEPT ![Cur(t)] = job[t].answer] /\ UNCHANGED mishaps

\* Mutant: the time is rounded up.
WriteEntryRounded(t) == file' = [file EXCEPT ![Cur(t)] = job[t].answer + 1] /\ UNCHANGED mishaps

\* _set_cached_mod_time: read, merge and write under _MOD_VERSIONS_LOCK.  The
\* read may fail and give no entries, the write leave the file as it was or
\* half of it, which is read as no entries; both callers go on.
WriteEntry(t) ==
  \/ file' = [file EXCEPT ![Cur(t)] = job[t].answer] /\ UNCHANGED mishaps
  \/ /\ Mishap(TRUE)
     /\ file' \in {[NoEntries EXCEPT ![Cur(t)] = job[t].answer], NoEntries, file}

\* The first entry of a mod is no update, whether its content is there or not.
Seed(t) ==
  /\ At(t, "seed")
  /\ WriteEntry(t)
  /\ seeded' = seeded \cup {Cur(t)}
  /\ Proceed(t, "check", job[t])
  /\ UNCHANGED <<steam, group, raced>>

\* _schedule_update_group: the mods found for the servers of a component, one
\* of which runs.  Nothing is recorded for servers that are all down, for ones
\* that wait in a group already, or without SteamCMD.
CheckEnd(c) ==
  /\ At(c, "check") /\ job[c].todo = {}
  /\ \/ group = {} /\ \E g \in SUBSET Found(c) \ {{}} : group' = g
     \/ UNCHANGED group
  /\ Become(c, Idle)
  /\ UNCHANGED <<steam, file, history>>

\* A start downloads what its own check found; without SteamCMD it is refused.
PrepareCheckEnd(t) ==
  /\ t \in Preparer
  /\ At(t, "check") /\ job[t].todo = {}
  /\ \/ /\ Found(t) = {}
        /\ Go(t, "ready")
     \/ /\ Found(t) # {}
        /\ Become(t, [job[t] EXCEPT !.pc = "fetch", !.todo = Found(t)]) \/ Become(t, Idle)
  /\ UNCHANGED <<steam, file, group, history>>

(***************************************************************************)
(* download_mod for one mod after the other, and what its callers do with  *)
(* the result.                                                             *)
(***************************************************************************)
\* Its servers are locked and stopped.  A SERVER_LOCK that is held leaves the
\* group as it is.
GroupBegin ==
  /\ MayCall(Tick)
  /\ group # {}
  /\ Become(Tick, [Idle EXCEPT !.pc = "fetch", !.todo = group])
  /\ UNCHANGED <<steam, file, group, history>>

\* SteamCMD is not installed any more, or a server does not stop.
GroupDropped ==
  /\ At(Tick, "idle")
  /\ group # {}
  /\ group' = {}
  /\ UNCHANGED <<steam, file, job, history>>

FetchAsk(t) == Ask(t, "fetch", "query")

\* What failed of a group decides how its servers come back (ModGroups).
Failed(t) ==
  Proceed(t, "fetch", [job[t] EXCEPT !.failed = IF t = Tick THEN @ ELSE @ \cup {Cur(t)}])

RunSteamCMD(t) ==
  Become(t, [job[t] EXCEPT !.pc = "run", !.mine = NoEntries, !.answer = remote[Cur(t)]])

\* A group records the version once for each of its servers that has the mod.
Downloaded(t) ==
  Become(t, [job[t] EXCEPT !.pc = "mark", !.mine = NoEntries, !.answer = Missing,
                           !.left = IF t = Tick THEN Shares[Cur(t)] ELSE 1])

\* The question raises: download_mod returns False.  Without details of the
\* mod SteamCMD runs.
FetchUnanswered(t) ==
  /\ At(t, "query")
  /\ Failed(t) \/ RunSteamCMD(t)
  /\ UNCHANGED <<steam, file, group, history>>

\* Content that is there with an entry as new as the answer is not fetched.
FetchAnswered(t) ==
  /\ At(t, "query")
  /\ IF remote[Cur(t)] <= Own(t) /\ disk[Cur(t)] # Missing THEN Downloaded(t) ELSE RunSteamCMD(t)
  /\ UNCHANGED <<steam, file, group, history>>

\* No other run that is under way can still put older content over m.
LastRun(t, m) ==
  \A u \in Thread \ {t} : At(u, "run") /\ Cur(u) = m => job[u].answer = remote[m]

\* SteamCMD takes a version that is current at some time of its run, minutes
\* before the end of it.
RunSucceeds(t) ==
  /\ At(t, "run")
  /\ \E v \in job[t].answer .. remote[Cur(t)] :
       /\ disk' = [disk EXCEPT ![Cur(t)] = v]
       /\ LET sure == IF v = remote[Cur(t)] /\ LastRun(t, Cur(t)) THEN {Cur(t)} ELSE {}
          IN seeded' = seeded \ sure /\ raced' = raced \ sure
  /\ Downloaded(t)
  /\ UNCHANGED <<remote, file, group, mishaps>>

\* Mutant: a failure is accepted where content exists, entry and all.
RunFailsAccepted(t) ==
  /\ At(t, "run")
  /\ IF disk[Cur(t)] # Missing THEN Downloaded(t) ELSE Failed(t)
  /\ UNCHANGED <<steam, file, group, history>>

\* A failure or the timeout.  Where content exists download_mod returns True
\* and clears _sync_mod_cache_after_download, which both callers count as a
\* failure, like False.
RunFails(t) ==
  /\ At(t, "run")
  /\ Failed(t)
  /\ UNCHANGED <<steam, file, group, history>>

\* mark_mod_version_synced asks Steam a second time; without an answer the
\* entry stays.
Mark(t) ==
  /\ At(t, "mark")
  /\ Become(t, [job[t] EXCEPT !.pc = "record", !.answer = remote[Cur(t)]])
  /\ UNCHANGED <<steam, file, group, history>>

\* The next server of the group, or the next mod.
Marked(t) ==
  IF job[t].left > 1
    THEN Become(t, [job[t] EXCEPT !.pc = "mark", !.answer = Missing, !.left = @ - 1])
    ELSE Proceed(t, "fetch", job[t])

MarkUnanswered(t) ==
  /\ At(t, "mark")
  /\ Marked(t)
  /\ UNCHANGED <<steam, file, group, history>>

Record(t) ==
  /\ At(t, "record")
  /\ WriteEntry(t)
  /\ Marked(t)
  /\ UNCHANGED <<steam, group, seeded, raced>>

\* The group is done, whatever failed.
GroupEnd ==
  /\ At(Tick, "fetch") /\ job[Tick].todo = {}
  /\ group' = {}
  /\ Become(Tick, Idle)
  /\ UNCHANGED <<steam, file, history>>

\* Mutant: a start goes on with the content that is there.
PrepareEndLenient(t) ==
  /\ t \in Preparer
  /\ At(t, "fetch") /\ job[t].todo = {}
  /\ Go(t, "ready")
  /\ UNCHANGED <<steam, file, group, history>>

\* A start with a failed download is refused.
PrepareEnd(t) ==
  /\ t \in Preparer
  /\ At(t, "fetch") /\ job[t].todo = {}
  /\ IF job[t].failed = {} THEN Go(t, "ready") ELSE Become(t, Idle)
  /\ UNCHANGED <<steam, file, group, history>>

\* The mods are linked and the server starts.
Started(t) ==
  /\ At(t, "ready")
  /\ Become(t, Idle)
  /\ UNCHANGED <<steam, file, group, history>>

(***************************************************************************)
(* Around the callers.                                                     *)
(***************************************************************************)
\* A download of m that this version may miss, and whose record may take it.
Fetching(t, m) ==
  /\ Cur(t) = m
  /\ At(t, "run") \/ At(t, "mark") \/ (At(t, "record") /\ job[t].left > 1)

Publish(m) ==
  /\ remote[m] < MaxVersion[m]
  /\ remote' = [remote EXCEPT ![m] = @ + 1]
  /\ raced' = IF \E t \in Thread : Fetching(t, m) THEN raced \cup {m} ELSE raced
  /\ UNCHANGED <<disk, file, group, job, seeded, mishaps>>

\* The manager dies and starts again; in the middle of a write it leaves half
\* a file, which is read as no entries.
Crash ==
  /\ \/ /\ Mishap(FALSE)
        /\ UNCHANGED file
     \/ /\ \E t \in Thread : At(t, "seed") \/ At(t, "record")
        /\ Mishap(TRUE)
        /\ file' = NoEntries
  /\ group' = {}
  /\ job' = [t \in Thread |-> Idle]
  /\ UNCHANGED <<steam, seeded, raced>>

Call(t) ==
  \/ CheckBegin(t) \/ CheckAsk(t) \/ CheckUnanswered(t) \/ CheckAnswered(t) \/ Seed(t)
  \/ PrepareCheckEnd(t)
  \/ FetchAsk(t) \/ FetchUnanswered(t) \/ FetchAnswered(t) \/ RunSucceeds(t) \/ RunFails(t)
  \/ Mark(t) \/ MarkUnanswered(t) \/ Record(t) \/ PrepareEnd(t) \/ Started(t)

Next ==
  \/ \E t \in Thread : Call(t)
  \/ \E c \in ModCheck : CheckEnd(c)
  \/ GroupBegin \/ GroupDropped \/ GroupEnd
  \/ \E m \in Mod : Publish(m)
  \/ Crash

(***************************************************************************)
(* The tasks never stop.  For each mod, again and again Steam answers,     *)
(* SteamCMD succeeds, and its servers allow its group: one of them runs    *)
(* when a ModCheck has found the update, and all stop when the group is    *)
(* due.  Nothing is assumed of starts; MaxCalls must not keep a task out   *)
(* for ever.                                                               *)
(***************************************************************************)
Fairness ==
  /\ \A c \in ModCheck : WF_vars(Call(c) \/ CheckEnd(c))
  /\ WF_vars(Call(Tick) \/ GroupBegin \/ GroupDropped \/ GroupEnd)
  /\ \A c \in ModCheck : SF_vars(CheckBegin(c))
  /\ \A c \in ModCheck : \A m \in Uses[c] :
       /\ SF_vars(Cur(c) = m /\ CheckAnswered(c))
       /\ SF_vars(CheckEnd(c) /\ m \in group' \ group)
       /\ SF_vars(m \in group /\ GroupBegin)
       /\ SF_vars(Cur(Tick) = m /\ FetchAnswered(Tick))
       /\ SF_vars(Cur(Tick) = m /\ RunSucceeds(Tick))

Spec == Init /\ [][Next]_vars /\ Fairness

-----------------------------------------------------------------------------
Place == {"idle", "check", "asked", "seed", "fetch", "query", "run", "mark", "record", "ready"}

TypeOK ==
  /\ remote \in [Mod -> Nat \ {Missing}]
  /\ disk \in [Mod -> Nat]
  /\ file \in [Mod -> Nat]
  /\ \A m \in Mod : {remote[m], disk[m], file[m]} \subseteq 0 .. MaxVersion[m]
  /\ group \subseteq Mod
  /\ job \in [Thread -> [pc : Place, todo : SUBSET Mod, cur : Mod \cup {NoMod},
                         mine : [Mod -> Nat], answer : Nat, left : Nat, seen : [Mod -> Nat],
                         failed : SUBSET Mod]]
  /\ seeded \subseteq Mod /\ raced \subseteq Mod
  /\ torn \in BOOLEAN
  /\ failures \in 0 .. MaxFailures

\* Mods whose entry the code itself may let run ahead of their content: the
\* first entry of a mod records what Steam has without a download, and a
\* version published during a download is recorded with it, until a download
\* has brought the current version.
Unsure == seeded \cup raced

(***************************************************************************)
(* The file claims a version newer than the content in these two cases     *)
(* only: a failed download, the fallback to old content, another thread's  *)
(* older download, a lost file and the merge of legacy entries leave the   *)
(* update visible.                                                         *)
(***************************************************************************)
RecordedIsFetched == \A m \in Mod \ Unsure : file[m] <= disk[m]

(***************************************************************************)
(* A start goes on only with every update its check found in the content   *)
(* folder, be it fetched by itself or by another thread meanwhile, except  *)
(* in the same two cases.                                                  *)
(***************************************************************************)
ReadyIsCurrent ==
  \A t \in Preparer : At(t, "ready") =>
    \A m \in Mod \ Unsure : disk[m] >= job[t].seen[m]

(***************************************************************************)
(* Threads that write the entries of different mods do not lose each       *)
(* other's: an entry disappears only when the manager dies in a write, or  *)
(* a read or a write of the file fails.                                    *)
(***************************************************************************)
EntriesKept ==
  [][\A m \in Mod : file[m] # Missing => file'[m] # Missing \/ failures' # failures]_vars

(***************************************************************************)
(* An update that the file shows for a mod that ModChecks ask about        *)
(* reaches the content folder, whatever downloads fail, groups are dropped *)
(* or managers die on the way; unless the file is damaged or unreadable    *)
(* once, a version is published during a download, or a thread that found  *)
(* no entry is about to write a first one.                                 *)
(***************************************************************************)
Seeding(m) ==
  \E t \in Thread : Cur(t) = m /\ Own(t) = Missing /\ (At(t, "asked") \/ At(t, "seed"))

UpdateFetched ==
  \A m \in UNION {Uses[c] : c \in ModCheck} :
    (file[m] # Missing /\ remote[m] > file[m] /\ ~Seeding(m))
      ~> (disk[m] = remote[m] \/ torn \/ m \in raced)
=============================================================================
