------------------------ MODULE ManagerProcessProofs ------------------------
(***************************************************************************)
(* Theorems about ManagerProcess, for all processes and bounds.            *)
(***************************************************************************)
EXTENDS ManagerProcess, TLAPS

Place == {"new", "look", "read", "unlink", "create", "write", "startup", "up", "stopAll", "release",
          "refused", "drain", "gone"}

(***************************************************************************)
(* The inductive invariant.  Tasks are created in the order of their       *)
(* numbers, so there is a first unused one.                                *)
(***************************************************************************)
TasksInOrder ==
  \A p \in Proc : \E n \in 0 .. MaxTasks : \A t \in Task : tasks[p][t] = "none" <=> t > n

\* A scheduler has had a ModCheck since it began.
CurrentTask == \A p \in Proc : at[p] = "up" => cur[p] \in Task

\* Only a scheduler hands work to the executor, and its process waits for that work.
WorkersUp ==
  \A p \in Proc : at[p] \notin {"up", "stopAll", "release", "drain"} => wd[p] = "none" /\ call[p] = "none"

\* A process is in manager.pid from its creation of the file to its release.
HolderPlace ==
  \A p \in Proc : pidFile = p => at[p] \in {"write", "startup", "up", "stopAll", "release"}

IInv ==
  /\ TypeOK
  /\ TasksInOrder
  /\ CurrentTask
  /\ WorkersUp
  /\ HolderPlace
  /\ OneManager
  /\ LockOwned
  /\ CheckTracked

-----------------------------------------------------------------------------
\* A scheduler with an unused task number has a first one.
LEMMA FreshTask ==
  ASSUME TypeOK, TasksInOrder, NEW p \in Proc, Room(p)
  PROVE  /\ Fresh(p) \in Task /\ tasks[p][Fresh(p)] = "none"
         /\ \A t \in Task : tasks[p][t] = "none" <=> t > Fresh(p) - 1
<1>1. PICK n \in 0 .. MaxTasks : \A t \in Task : tasks[p][t] = "none" <=> t > n
  BY DEF TasksInOrder
<1>2. n + 1 \in Task /\ n \in Nat
  BY <1>1, BoundAssumption DEF Room, Task
<1>3. tasks[p][n + 1] = "none" /\ (n + 1 = 1 \/ tasks[p][(n + 1) - 1] # "none")
  <2>1. n # 0 => n \in Task /\ ~(n > n)
    BY <1>2 DEF Task
  <2>. QED
    BY <1>1, <1>2, <2>1
<1>4. Fresh(p) \in Task /\ tasks[p][Fresh(p)] = "none"
      /\ (Fresh(p) = 1 \/ tasks[p][Fresh(p) - 1] # "none")
  BY <1>2, <1>3 DEF Fresh
<1>5. Fresh(p) = n + 1
  <2>1. Fresh(p) > n /\ Fresh(p) \in Nat
    BY <1>1, <1>4, BoundAssumption DEF Task
  <2>2. Fresh(p) # 1 => Fresh(p) - 1 \in Task /\ ~(Fresh(p) - 1 > n)
    BY <1>1, <1>4, <2>1, BoundAssumption DEF Task
  <2>. QED
    BY <1>2, <2>1, <2>2
<1>. QED
  BY <1>1, <1>2, <1>4, <1>5

\* A new task: the tasks stay in order, and the new one runs and is tracked.
LEMMA ReplaceStep ==
  ASSUME TypeOK, TasksInOrder, NEW p \in Proc, Room(p), Replace(p)
  PROVE  /\ tasks' \in [Proc -> [Task -> {"none", "runs", "cancelled", "over"}]]
         /\ tracked' \in [Proc -> SUBSET Task]
         /\ cur' \in [Proc -> Task \cup {None}]
         /\ TasksInOrder'
         /\ cur'[p] \in Task /\ Runs(p, cur[p])' /\ cur'[p] \in tracked'[p]
         /\ \A q \in Proc \ {p} : tasks'[q] = tasks[q] /\ tracked'[q] = tracked[q] /\ cur'[q] = cur[q]
<1>1. PICK t : /\ t \in Task /\ tasks[p][t] = "none"
               /\ \A u \in Task : tasks[p][u] = "none" <=> u > t - 1
               /\ tasks' = [tasks EXCEPT ![p][t] = "runs"]
               /\ tracked' = [tracked EXCEPT ![p] = (@ \ {cur[p]}) \cup {t}]
               /\ cur' = [cur EXCEPT ![p] = t]
  BY FreshTask DEF Replace
<1>2. /\ tasks' \in [Proc -> [Task -> {"none", "runs", "cancelled", "over"}]]
      /\ tracked' \in [Proc -> SUBSET Task]
      /\ cur' \in [Proc -> Task \cup {None}]
  BY <1>1 DEF TypeOK
<1>3. tasks'[p] = [tasks[p] EXCEPT ![t] = "runs"] /\ cur'[p] = t /\ t \in tracked'[p]
  BY <1>1 DEF TypeOK
<1>4. \A q \in Proc \ {p} : tasks'[q] = tasks[q] /\ tracked'[q] = tracked[q] /\ cur'[q] = cur[q]
  BY <1>1 DEF TypeOK
<1>5. tasks[p] \in [Task -> {"none", "runs", "cancelled", "over"}]
  BY DEF TypeOK
<1>6. t \in 0 .. MaxTasks /\ \A u \in Task : tasks'[p][u] = "none" <=> u > t
  BY <1>1, <1>3, <1>5, BoundAssumption DEF Task
<1>7. TasksInOrder'
  <2>1. \A q \in Proc \ {p} : \E n \in 0 .. MaxTasks : \A u \in Task : tasks'[q][u] = "none" <=> u > n
    BY <1>4 DEF TasksInOrder
  <2>2. \E n \in 0 .. MaxTasks : \A u \in Task : tasks'[p][u] = "none" <=> u > n
    BY <1>6
  <2>. QED
    BY <2>1, <2>2 DEF TasksInOrder, Task
<1>. QED
  BY <1>1, <1>2, <1>3, <1>4, <1>5, <1>7 DEF Runs

\* A process that stops or dies has no tasks left.
LEMMA NoTasksStep ==
  ASSUME TypeOK, TasksInOrder, NEW p \in Proc, NoTasks(p)
  PROVE  /\ tasks' \in [Proc -> [Task -> {"none", "runs", "cancelled", "over"}]]
         /\ tracked' \in [Proc -> SUBSET Task]
         /\ cur' \in [Proc -> Task \cup {None}]
         /\ awaits' \in [Proc -> [Handler -> Task \cup {None}]]
         /\ TasksInOrder'
         /\ \A q \in Proc \ {p} : /\ tasks'[q] = tasks[q] /\ tracked'[q] = tracked[q]
                                  /\ cur'[q] = cur[q] /\ awaits'[q] = awaits[q]
<1>1. /\ tasks' \in [Proc -> [Task -> {"none", "runs", "cancelled", "over"}]]
      /\ tracked' \in [Proc -> SUBSET Task]
      /\ cur' \in [Proc -> Task \cup {None}]
      /\ awaits' \in [Proc -> [Handler -> Task \cup {None}]]
  BY DEF NoTasks, TypeOK
<1>2. \A q \in Proc \ {p} : /\ tasks'[q] = tasks[q] /\ tracked'[q] = tracked[q]
                            /\ cur'[q] = cur[q] /\ awaits'[q] = awaits[q]
  BY DEF NoTasks, TypeOK
<1>3. TasksInOrder'
  <2>1. \A q \in Proc \ {p} : \E n \in 0 .. MaxTasks : \A u \in Task : tasks'[q][u] = "none" <=> u > n
    BY <1>2 DEF TasksInOrder
  <2>2. 0 \in 0 .. MaxTasks /\ \A u \in Task : tasks'[p][u] = "none" <=> u > 0
    BY BoundAssumption DEF NoTasks, TypeOK, Task
  <2>. QED
    BY <2>1, <2>2 DEF TasksInOrder, Task
<1>. QED
  BY <1>1, <1>2, <1>3

\* A rescheduling either replaces a current task that is over or cancels it and waits for its end.
LEMMA RescheduleCases ==
  ASSUME TypeOK, CurrentTask, CheckTracked, NEW p \in Proc, NEW h \in Handler, Reschedule(p, h)
  PROVE  /\ at[p] = "up" /\ Room(p)
         /\ UNCHANGED <<at, took, pidFile, wd, call, lock, server, crashes>>
         /\ \/ Replace(p) /\ UNCHANGED awaits
            \/ /\ tasks' = [tasks EXCEPT ![p] = Cancelled(p, {cur[p]})]
               /\ awaits' = [awaits EXCEPT ![p][h] = cur[p]]
               /\ UNCHANGED <<tracked, cur>>
  BY DEF Reschedule, work

\* Tasks stay in the order of their numbers.
LEMMA OrderNext == IInv /\ Next => TasksInOrder'
<1>. SUFFICES ASSUME IInv, Next PROVE TasksInOrder'
  OBVIOUS
<1>. USE DEF loop, work, Go
<1>0. TypeOK /\ TasksInOrder /\ CurrentTask /\ CheckTracked
  BY DEF IInv
<1>a. ASSUME UNCHANGED tasks PROVE TasksInOrder'
  BY <1>0, <1>a DEF TasksInOrder, Task
<1>b. ASSUME NEW p \in Proc, NEW n \in 0 .. MaxTasks,
             \A t \in Task : tasks'[p][t] = "none" <=> t > n,
             \A q \in Proc \ {p} : tasks'[q] = tasks[q]
      PROVE  TasksInOrder'
  <2>1. \A q \in Proc \ {p} : \E m \in 0 .. MaxTasks : \A t \in Task : tasks'[q][t] = "none" <=> t > m
    BY <1>0, <1>b DEF TasksInOrder
  <2>. QED
    BY <1>b, <2>1 DEF TasksInOrder, Task
<1>1. ASSUME NEW p \in Proc, SchedulerStart(p) PROVE TasksInOrder'
  <2>1. PICK n \in 0 .. MaxTasks : \A t \in Task : tasks[p][t] = "none" <=> t > n
    BY <1>0 DEF TasksInOrder
  <2>2. /\ tasks' = [tasks EXCEPT ![p][1] = "runs"]
        /\ tasks[p] \in [Task -> {"none", "runs", "cancelled", "over"}]
        /\ \A q \in Proc \ {p} : tasks'[q] = tasks[q]
    BY <1>0, <1>1 DEF SchedulerStart, TypeOK
  <2>3. tasks'[p] = [tasks[p] EXCEPT ![1] = "runs"]
    BY <1>0, <2>2 DEF TypeOK
  <2>4. CASE n = 0
    <3>1. 1 \in 0 .. MaxTasks /\ \A t \in Task : tasks'[p][t] = "none" <=> t > 1
      BY <2>1, <2>2, <2>3, <2>4, BoundAssumption DEF Task
    <3>. QED
      BY <1>b, <2>2, <3>1
  <2>5. CASE n # 0
    <3>1. \A t \in Task : tasks'[p][t] = "none" <=> t > n
      BY <2>1, <2>2, <2>3, <2>5, BoundAssumption DEF Task
    <3>. QED
      BY <1>b, <2>2, <3>1
  <2>. QED
    BY <2>4, <2>5
<1>2. ASSUME NEW p \in Proc, NEW h \in Handler, Reschedule(p, h) PROVE TasksInOrder'
  <2>1. CASE Replace(p)
    BY <1>0, <1>2, <2>1, RescheduleCases, ReplaceStep
  <2>2. CASE tasks' = [tasks EXCEPT ![p] = Cancelled(p, {cur[p]})]
    <3>1. PICK n \in 0 .. MaxTasks : \A t \in Task : tasks[p][t] = "none" <=> t > n
      BY <1>0 DEF TasksInOrder
    <3>2. /\ \A t \in Task : tasks'[p][t] = "none" <=> t > n
          /\ \A q \in Proc \ {p} : tasks'[q] = tasks[q]
      BY <1>0, <2>2, <3>1 DEF TypeOK, Cancelled, Runs
    <3>. QED
      BY <1>b, <3>2
  <2>. QED
    BY <1>0, <1>2, <2>1, <2>2, RescheduleCases
<1>3. ASSUME NEW p \in Proc, NEW h \in Handler, Resume(p, h) PROVE TasksInOrder'
  BY <1>0, <1>3, ReplaceStep DEF Resume
<1>4. ASSUME NEW p \in Proc, NEW t \in Task, TaskEnds(p, t) PROVE TasksInOrder'
  <2>1. PICK n \in 0 .. MaxTasks : \A u \in Task : tasks[p][u] = "none" <=> u > n
    BY <1>0 DEF TasksInOrder
  <2>2. /\ \A u \in Task : tasks'[p][u] = "none" <=> u > n
        /\ \A q \in Proc \ {p} : tasks'[q] = tasks[q]
    BY <1>0, <1>4, <2>1 DEF TypeOK, TaskEnds
  <2>. QED
    BY <1>b, <2>2
<1>5. ASSUME NEW p \in Proc, CloseWindow(p) \/ Shutdown(p) \/ Crash(p) PROVE TasksInOrder'
  BY <1>0, <1>5, NoTasksStep DEF CloseWindow, Shutdown, Crash, SchedulerStop
<1>6. ASSUME NEW p \in Proc,
             \/ Open(p) \/ Look(p) \/ Read(p) \/ Unlink(p) \/ Create(p) \/ Write(p) \/ Release(p)
             \/ WatchdogLook(p) \/ WatchdogLock(p) \/ WatchdogStart(p)
             \/ UpdateBegin(p) \/ Update(p) \/ Admin(p) \/ StopAll(p) \/ Exit(p)
      PROVE  TasksInOrder'
  BY <1>a, <1>6 DEF Open, Look, Read, Unlink, Create, Write, Release, WatchdogLook, WatchdogLock,
    WatchdogStart, UpdateBegin, Update, CallEnds, Admin, StopAll, Exit
<1>7. CASE GameExit \/ DeleteStuckLock
  BY <1>a, <1>7 DEF GameExit, DeleteStuckLock
<1>. QED
  BY <1>1, <1>2, <1>3, <1>4, <1>5, <1>6, <1>7, Zenon DEF Next

\* The current task of a scheduler is one of its tasks.
LEMMA CurrentNext == IInv /\ Next => CurrentTask'
<1>. SUFFICES ASSUME IInv, Next PROVE CurrentTask'
  OBVIOUS
<1>. USE DEF loop, work, Go
<1>0. TypeOK /\ TasksInOrder /\ CurrentTask /\ CheckTracked
  BY DEF IInv
<1>a. ASSUME UNCHANGED cur, \A p \in Proc : at'[p] = "up" => at[p] = "up" PROVE CurrentTask'
  BY <1>0, <1>a DEF CurrentTask
<1>b. ASSUME NEW p \in Proc, at'[p] # "up" \/ cur'[p] \in Task,
             \A q \in Proc \ {p} : cur'[q] = cur[q] /\ at'[q] = at[q]
      PROVE  CurrentTask'
  BY <1>0, <1>b DEF CurrentTask
<1>1. ASSUME NEW p \in Proc, SchedulerStart(p) PROVE CurrentTask'
  BY <1>0, <1>1, BoundAssumption DEF SchedulerStart, CurrentTask, TypeOK, Task
<1>2. ASSUME NEW p \in Proc, NEW h \in Handler, Reschedule(p, h) PROVE CurrentTask'
  <2>1. CASE Replace(p)
    BY <1>0, <1>2, <1>b, <2>1, RescheduleCases, ReplaceStep
  <2>2. CASE UNCHANGED cur
    BY <1>0, <1>2, <1>a, <2>2, RescheduleCases
  <2>. QED
    BY <1>0, <1>2, <2>1, <2>2, RescheduleCases
<1>3. ASSUME NEW p \in Proc, NEW h \in Handler, Resume(p, h) PROVE CurrentTask'
  BY <1>0, <1>3, <1>b, ReplaceStep DEF Resume
<1>4. ASSUME NEW p \in Proc, CloseWindow(p) \/ Shutdown(p) \/ Crash(p) PROVE CurrentTask'
  <2>1. NoTasks(p) /\ at'[p] # "up" /\ \A q \in Proc \ {p} : at'[q] = at[q]
    BY <1>0, <1>4 DEF CloseWindow, Shutdown, Crash, SchedulerStop, TypeOK
  <2>. QED
    BY <1>0, <1>b, <2>1, NoTasksStep
<1>5. ASSUME NEW p \in Proc,
             \/ Open(p) \/ Look(p) \/ Read(p) \/ Unlink(p) \/ Create(p) \/ Write(p) \/ Release(p)
             \/ StopAll(p) \/ Exit(p)
      PROVE  CurrentTask'
  <2>1. UNCHANGED cur
    BY <1>5 DEF Open, Look, Read, Unlink, Create, Write, Release, StopAll, Exit
  <2>2. \A q \in Proc : at'[q] = "up" => at[q] = "up"
    BY <1>0, <1>5 DEF Open, Look, Read, Unlink, Create, Write, Release, StopAll, Exit, TypeOK
  <2>. QED
    BY <1>a, <2>1, <2>2
<1>6. ASSUME NEW p \in Proc, NEW t \in Task, TaskEnds(p, t) PROVE CurrentTask'
  BY <1>a, <1>6 DEF TaskEnds
<1>7. ASSUME NEW p \in Proc,
             WatchdogLook(p) \/ WatchdogLock(p) \/ WatchdogStart(p) \/ UpdateBegin(p) \/ Update(p) \/ Admin(p)
      PROVE  CurrentTask'
  BY <1>a, <1>7 DEF WatchdogLook, WatchdogLock, WatchdogStart, UpdateBegin, Update, CallEnds, Admin
<1>8. CASE GameExit \/ DeleteStuckLock
  BY <1>a, <1>8 DEF GameExit, DeleteStuckLock
<1>. QED
  BY <1>1, <1>2, <1>3, <1>4, <1>5, <1>6, <1>7, <1>8, Zenon DEF Next

\* The last ModCheck that was created stays tracked.
LEMMA CheckNext == IInv /\ Next => CheckTracked'
<1>. SUFFICES ASSUME IInv, Next PROVE CheckTracked'
  OBVIOUS
<1>. USE DEF loop, work, Go
<1>0. TypeOK /\ TasksInOrder /\ CurrentTask /\ CheckTracked
  BY DEF IInv
<1>a. ASSUME UNCHANGED loop, \A p \in Proc : at'[p] = "up" => at[p] = "up" PROVE CheckTracked'
  BY <1>0, <1>a DEF CheckTracked, Runs
<1>b. ASSUME NEW p \in Proc,
             \/ at'[p] # "up"
             \/ Runs(p, cur[p])' /\ cur'[p] \in tracked'[p]
             \/ \E h \in Handler : awaits'[p][h] # None,
             \A q \in Proc \ {p} : /\ at'[q] = at[q] /\ tasks'[q] = tasks[q] /\ tracked'[q] = tracked[q]
                                   /\ cur'[q] = cur[q] /\ awaits'[q] = awaits[q]
      PROVE  CheckTracked'
  BY <1>0, <1>b DEF CheckTracked, Runs
<1>1. ASSUME NEW p \in Proc, SchedulerStart(p) PROVE CheckTracked'
  <2>1. Runs(p, cur[p])' /\ cur'[p] \in tracked'[p]
    BY <1>0, <1>1, BoundAssumption DEF SchedulerStart, TypeOK, Runs, Task
  <2>. QED
    BY <1>0, <1>1, <1>b, <2>1 DEF SchedulerStart, TypeOK
<1>2. ASSUME NEW p \in Proc, NEW h \in Handler, Reschedule(p, h) PROVE CheckTracked'
  <2>1. CASE Replace(p) /\ UNCHANGED awaits
    BY <1>0, <1>2, <1>b, <2>1, RescheduleCases, ReplaceStep
  <2>2. CASE /\ tasks' = [tasks EXCEPT ![p] = Cancelled(p, {cur[p]})]
             /\ awaits' = [awaits EXCEPT ![p][h] = cur[p]]
             /\ UNCHANGED <<tracked, cur>>
    <3>1. cur[p] \in Task /\ UNCHANGED at
      BY <1>0, <1>2, RescheduleCases DEF CurrentTask
    <3>2. awaits'[p][h] # None
      BY <1>0, <2>2, <3>1 DEF TypeOK, Task, None
    <3>3. \A q \in Proc \ {p} : awaits'[q] = awaits[q] /\ tasks'[q] = tasks[q]
      BY <1>0, <2>2 DEF TypeOK
    <3>. QED
      BY <1>b, <2>2, <3>1, <3>2, <3>3
  <2>. QED
    BY <1>0, <1>2, <2>1, <2>2, RescheduleCases
<1>3. ASSUME NEW p \in Proc, NEW h \in Handler, Resume(p, h) PROVE CheckTracked'
  BY <1>0, <1>3, <1>b, ReplaceStep DEF Resume, TypeOK
<1>4. ASSUME NEW p \in Proc, NEW t \in Task, TaskEnds(p, t) PROVE CheckTracked'
  BY <1>0, <1>4 DEF TaskEnds, CheckTracked, Runs, TypeOK
<1>5. ASSUME NEW p \in Proc, CloseWindow(p) \/ Shutdown(p) \/ Crash(p) PROVE CheckTracked'
  <2>1. NoTasks(p) /\ at'[p] # "up" /\ \A q \in Proc \ {p} : at'[q] = at[q]
    BY <1>0, <1>5 DEF CloseWindow, Shutdown, Crash, SchedulerStop, TypeOK
  <2>. QED
    BY <1>0, <1>b, <2>1, NoTasksStep
<1>6. ASSUME NEW p \in Proc,
             \/ Open(p) \/ Look(p) \/ Read(p) \/ Unlink(p) \/ Create(p) \/ Write(p) \/ Release(p)
             \/ StopAll(p) \/ Exit(p)
      PROVE  CheckTracked'
  <2>1. UNCHANGED loop
    BY <1>6 DEF Open, Look, Read, Unlink, Create, Write, Release, StopAll, Exit
  <2>2. \A q \in Proc : at'[q] = "up" => at[q] = "up"
    BY <1>0, <1>6 DEF Open, Look, Read, Unlink, Create, Write, Release, StopAll, Exit, TypeOK
  <2>. QED
    BY <1>a, <2>1, <2>2
<1>7. ASSUME NEW p \in Proc,
             WatchdogLook(p) \/ WatchdogLock(p) \/ WatchdogStart(p) \/ UpdateBegin(p) \/ Update(p) \/ Admin(p)
      PROVE  CheckTracked'
  BY <1>a, <1>7 DEF WatchdogLook, WatchdogLock, WatchdogStart, UpdateBegin, Update, CallEnds, Admin
<1>8. CASE GameExit \/ DeleteStuckLock
  BY <1>a, <1>8 DEF GameExit, DeleteStuckLock
<1>. QED
  BY <1>1, <1>2, <1>3, <1>4, <1>5, <1>6, <1>7, <1>8, Zenon DEF Next

\* A process without a scheduler has nothing in the executor.
LEMMA WorkersNext == IInv /\ Next => WorkersUp'
<1>. SUFFICES ASSUME IInv, Next PROVE WorkersUp'
  OBVIOUS
<1>. USE DEF loop, work, Go
<1>0. TypeOK /\ WorkersUp
  BY DEF IInv
<1>1. ASSUME NEW p \in Proc,
             \/ Open(p) \/ Look(p) \/ Read(p) \/ Unlink(p) \/ Create(p) \/ Write(p) \/ Release(p)
             \/ SchedulerStart(p) \/ CloseWindow(p) \/ Shutdown(p) \/ StopAll(p) \/ Exit(p)
      PROVE  WorkersUp'
  <2>1. UNCHANGED <<wd, call>>
    BY <1>1 DEF Open, Look, Read, Unlink, Create, Write, Release, SchedulerStart, CloseWindow, Shutdown,
      StopAll, Exit
  <2>2. \A q \in Proc : at'[q] \notin {"up", "stopAll", "release", "drain"} =>
          at[q] \notin {"up", "stopAll", "release", "drain"} \/ (wd[q] = "none" /\ call[q] = "none")
    BY <1>0, <1>1 DEF Open, Look, Read, Unlink, Create, Write, Release, SchedulerStart, CloseWindow,
      Shutdown, StopAll, Exit, TypeOK
  <2>. QED
    BY <1>0, <2>1, <2>2 DEF WorkersUp
<1>2. ASSUME NEW p \in Proc, Crash(p) PROVE WorkersUp'
  BY <1>0, <1>2 DEF Crash, WorkersUp, TypeOK
<1>3. ASSUME NEW p \in Proc, WatchdogLook(p) \/ WatchdogLock(p) \/ WatchdogStart(p) PROVE WorkersUp'
  BY <1>0, <1>3 DEF WatchdogLook, WatchdogLock, WatchdogStart, WorkersUp, TypeOK
<1>4. ASSUME NEW p \in Proc, UpdateBegin(p) \/ Update(p) PROVE WorkersUp'
  BY <1>0, <1>4 DEF UpdateBegin, Update, CallEnds, WorkersUp, TypeOK
<1>5. ASSUME UNCHANGED <<at, wd, call>> PROVE WorkersUp'
  BY <1>0, <1>5 DEF WorkersUp
<1>6. ASSUME NEW p \in Proc, Admin(p) PROVE UNCHANGED <<at, wd, call>>
  BY <1>6 DEF Admin
<1>7. ASSUME NEW p \in Proc, NEW h \in Handler, Reschedule(p, h) \/ Resume(p, h)
      PROVE  UNCHANGED <<at, wd, call>>
  BY <1>7 DEF Reschedule, Resume
<1>8. ASSUME NEW p \in Proc, NEW t \in Task, TaskEnds(p, t) PROVE UNCHANGED <<at, wd, call>>
  BY <1>8 DEF TaskEnds
<1>9. CASE GameExit \/ DeleteStuckLock
  BY <1>5, <1>9 DEF GameExit, DeleteStuckLock
<1>. QED
  BY <1>1, <1>2, <1>3, <1>4, <1>5, <1>6, <1>7, <1>8, <1>9, Zenon DEF Next

\* manager.pid names a process only while that process keeps it.
LEMMA HolderNext == IInv /\ Next => HolderPlace'
<1>. SUFFICES ASSUME IInv, Next PROVE HolderPlace'
  OBVIOUS
<1>. USE ProcAssumption DEF loop, work, Go
<1>0. TypeOK /\ HolderPlace
  BY DEF IInv
<1>1. ASSUME NEW p \in Proc,
             \/ Open(p) \/ Look(p) \/ Read(p) \/ Unlink(p) \/ Create(p) \/ Write(p) \/ Release(p)
      PROVE  HolderPlace'
  BY <1>0, <1>1 DEF Open, Look, Read, Unlink, Create, Write, Release, HolderPlace, TypeOK
<1>2. ASSUME NEW p \in Proc,
             SchedulerStart(p) \/ CloseWindow(p) \/ Shutdown(p) \/ StopAll(p) \/ Exit(p) \/ Crash(p)
      PROVE  HolderPlace'
  BY <1>0, <1>2 DEF SchedulerStart, CloseWindow, Shutdown, StopAll, Exit, Crash, HolderPlace, TypeOK
<1>3. ASSUME UNCHANGED <<at, pidFile>> PROVE HolderPlace'
  BY <1>0, <1>3 DEF HolderPlace
<1>4. ASSUME NEW p \in Proc,
             WatchdogLook(p) \/ WatchdogLock(p) \/ WatchdogStart(p) \/ UpdateBegin(p) \/ Update(p) \/ Admin(p)
      PROVE  UNCHANGED <<at, pidFile>>
  BY <1>4 DEF WatchdogLook, WatchdogLock, WatchdogStart, UpdateBegin, Update, CallEnds, Admin
<1>5. ASSUME NEW p \in Proc, NEW h \in Handler, Reschedule(p, h) \/ Resume(p, h)
      PROVE  UNCHANGED <<at, pidFile>>
  BY <1>5 DEF Reschedule, Resume
<1>6. ASSUME NEW p \in Proc, NEW t \in Task, TaskEnds(p, t) PROVE UNCHANGED <<at, pidFile>>
  BY <1>6 DEF TaskEnds
<1>7. CASE GameExit \/ DeleteStuckLock
  BY <1>3, <1>7 DEF GameExit, DeleteStuckLock
<1>. QED
  BY <1>1, <1>2, <1>3, <1>4, <1>5, <1>6, <1>7, Zenon DEF Next

\* Who loses manager.pid while it works loses it to one that has deleted a file.
LEMMA OneManagerNext == IInv /\ Next => OneManager'
<1>. SUFFICES ASSUME IInv, Next PROVE OneManager'
  OBVIOUS
<1>. USE ProcAssumption DEF loop, work, Go
<1>0. TypeOK /\ OneManager
  BY DEF IInv
<1>1. ASSUME NEW p \in Proc, Open(p) \/ Look(p) \/ Read(p) \/ Write(p) PROVE OneManager'
  BY <1>0, <1>1 DEF Open, Look, Read, Write, OneManager, TypeOK
<1>2. ASSUME NEW p \in Proc, Unlink(p) PROVE OneManager'
  <2>1. \A q \in Proc \ {p} : at'[q] = at[q] /\ took'[q] = took[q]
    BY <1>0, <1>2 DEF Unlink, TypeOK
  <2>2. at'[p] \in {"refused", "create"} /\ (took[p] => took'[p])
    BY <1>0, <1>2 DEF Unlink, TypeOK
  <2>3. UNCHANGED pidFile \/ took'[p]
    BY <1>0, <1>2 DEF Unlink, TypeOK
  <2>4. \A q \in Proc : took[q] => took'[q]
    BY <2>1, <2>2
  <2>. QED
    BY <1>0, <2>1, <2>2, <2>3, <2>4 DEF OneManager
<1>3. ASSUME NEW p \in Proc, Create(p) PROVE OneManager'
  <2>1. CASE pidFile = NoProc
    <3>1. pidFile' = p /\ UNCHANGED took /\ \A q \in Proc \ {p} : at'[q] = at[q]
      BY <1>0, <1>3, <2>1 DEF Create, TypeOK
    <3>2. \A q \in Proc \ {p} : pidFile # q
      BY <2>1
    <3>. QED
      BY <1>0, <3>1, <3>2 DEF OneManager
  <2>2. CASE pidFile # NoProc
    <3>1. UNCHANGED <<pidFile, took>> /\ at'[p] = "refused" /\ \A q \in Proc \ {p} : at'[q] = at[q]
      BY <1>0, <1>3, <2>2 DEF Create, TypeOK
    <3>. QED
      BY <1>0, <3>1 DEF OneManager
  <2>. QED
    BY <2>1, <2>2
<1>4. ASSUME NEW p \in Proc, Release(p) PROVE OneManager'
  BY <1>0, <1>4 DEF Release, OneManager, TypeOK
<1>5. ASSUME NEW p \in Proc,
             SchedulerStart(p) \/ CloseWindow(p) \/ Shutdown(p) \/ StopAll(p) \/ Exit(p)
      PROVE  OneManager'
  BY <1>0, <1>5 DEF SchedulerStart, CloseWindow, Shutdown, StopAll, Exit, OneManager, TypeOK
<1>6. ASSUME NEW p \in Proc, Crash(p) PROVE OneManager'
  BY <1>0, <1>6 DEF Crash, OneManager, TypeOK
<1>7. ASSUME UNCHANGED <<at, took, pidFile>> PROVE OneManager'
  BY <1>0, <1>7 DEF OneManager
<1>8. ASSUME NEW p \in Proc,
             WatchdogLook(p) \/ WatchdogLock(p) \/ WatchdogStart(p) \/ UpdateBegin(p) \/ Update(p) \/ Admin(p)
      PROVE  UNCHANGED <<at, took, pidFile>>
  BY <1>8 DEF WatchdogLook, WatchdogLock, WatchdogStart, UpdateBegin, Update, CallEnds, Admin
<1>9. ASSUME NEW p \in Proc, NEW h \in Handler, Reschedule(p, h) \/ Resume(p, h)
      PROVE  UNCHANGED <<at, took, pidFile>>
  BY <1>9 DEF Reschedule, Resume
<1>10. ASSUME NEW p \in Proc, NEW t \in Task, TaskEnds(p, t) PROVE UNCHANGED <<at, took, pidFile>>
  BY <1>10 DEF TaskEnds
<1>11. CASE GameExit \/ DeleteStuckLock
  BY <1>7, <1>11 DEF GameExit, DeleteStuckLock
<1>. QED
  BY <1>1, <1>2, <1>3, <1>4, <1>5, <1>6, <1>7, <1>8, <1>9, <1>10, <1>11, Zenon DEF Next

\* A lock is taken by its maker only, and given back by it.
LEMMA LockNext == IInv /\ Next => LockOwned'
<1>. SUFFICES ASSUME IInv, Next PROVE LockOwned'
  OBVIOUS
<1>. USE ProcAssumption DEF loop, work, Go
<1>0. TypeOK /\ WorkersUp /\ LockOwned
  BY DEF IInv
<1>1. ASSUME NEW p \in Proc,
             \/ Open(p) \/ Look(p) \/ Read(p) \/ Unlink(p) \/ Create(p) \/ Write(p) \/ Release(p)
             \/ SchedulerStart(p) \/ StopAll(p) \/ Exit(p)
      PROVE  LockOwned'
  <2>1. UNCHANGED <<wd, call, lock>>
    BY <1>1 DEF Open, Look, Read, Unlink, Create, Write, Release, SchedulerStart, StopAll, Exit
  <2>2. \A q \in Proc : (at'[q] = "up" <=> at[q] = "up") \/ at[q] = "startup"
    BY <1>0, <1>1 DEF Open, Look, Read, Unlink, Create, Write, Release, SchedulerStart, StopAll, Exit, TypeOK
  <2>3. \A q \in Proc : at[q] = "startup" => call[q] = "none"
    BY <1>0 DEF WorkersUp
  <2>. QED
    BY <1>0, <2>1, <2>2, <2>3 DEF LockOwned, Updates
<1>2. ASSUME NEW p \in Proc, CloseWindow(p) \/ Shutdown(p) PROVE LockOwned'
  <2>1. /\ at[p] = "up" /\ at'[p] # "up" /\ UNCHANGED <<wd, call>>
        /\ lock' = IF call[p] # "none" THEN NoProc ELSE lock
        /\ \A q \in Proc \ {p} : at'[q] = at[q]
    BY <1>0, <1>2 DEF CloseWindow, Shutdown, SchedulerStop, TypeOK
  <2>2. CASE call[p] = "none"
    BY <1>0, <2>1, <2>2 DEF LockOwned, Updates
  <2>3. CASE call[p] # "none"
    <3>1. lock = p /\ wd[p] # "held" /\ lock' = NoProc
      BY <1>0, <2>1, <2>3 DEF LockOwned, Updates
    <3>. QED
      BY <1>0, <2>1, <3>1 DEF LockOwned, Updates
  <2>. QED
    BY <2>2, <2>3
<1>3. ASSUME NEW p \in Proc, Crash(p) PROVE LockOwned'
  BY <1>0, <1>3 DEF Crash, LockOwned, Updates, TypeOK
<1>4. ASSUME NEW p \in Proc, WatchdogLook(p) \/ WatchdogLock(p) \/ WatchdogStart(p) PROVE LockOwned'
  BY <1>0, <1>4 DEF WatchdogLook, WatchdogLock, WatchdogStart, LockOwned, Updates, TypeOK
<1>5. ASSUME NEW p \in Proc, UpdateBegin(p) PROVE LockOwned'
  BY <1>0, <1>5 DEF UpdateBegin, LockOwned, Updates, TypeOK
<1>6. ASSUME NEW p \in Proc, Update(p) PROVE LockOwned'
  BY <1>0, <1>6 DEF Update, CallEnds, LockOwned, Updates, TypeOK
<1>7. ASSUME UNCHANGED <<at, wd, call, lock>> PROVE LockOwned'
  BY <1>0, <1>7 DEF LockOwned, Updates
<1>8. ASSUME NEW p \in Proc, Admin(p) PROVE UNCHANGED <<at, wd, call, lock>>
  BY <1>8 DEF Admin
<1>9. ASSUME NEW p \in Proc, NEW h \in Handler, Reschedule(p, h) \/ Resume(p, h)
      PROVE  UNCHANGED <<at, wd, call, lock>>
  BY <1>9 DEF Reschedule, Resume
<1>10. ASSUME NEW p \in Proc, NEW t \in Task, TaskEnds(p, t) PROVE UNCHANGED <<at, wd, call, lock>>
  BY <1>10 DEF TaskEnds
<1>11. CASE GameExit
  BY <1>7, <1>11 DEF GameExit
<1>12. CASE DeleteStuckLock
  BY <1>0, <1>12 DEF DeleteStuckLock, LockOwned, Updates
<1>. QED
  BY <1>1, <1>2, <1>3, <1>4, <1>5, <1>6, <1>7, <1>8, <1>9, <1>10, <1>11, <1>12, Zenon DEF Next

\* A step keeps the variables in their types.
LEMMA TypeNext == IInv /\ Next => TypeOK'
<1>. SUFFICES ASSUME IInv, Next PROVE TypeOK'
  OBVIOUS
<1>. USE ProcAssumption, BoundAssumption DEF loop, work, Go
<1>0. TypeOK /\ TasksInOrder /\ CurrentTask /\ CheckTracked
  BY DEF IInv
<1>p. \A p \in Proc : ~Alive(p)' => wd'[p] = "none" /\ call'[p] = "none" /\ lock' # p /\ pidFile' # p
  <2>1. WorkersUp' /\ LockOwned' /\ HolderPlace'
    BY WorkersNext, LockNext, HolderNext
  <2>. QED
    BY <2>1 DEF WorkersUp, LockOwned, Updates, HolderPlace, Alive
<1>a. ASSUME UNCHANGED loop,
             at' \in [Proc -> Place] /\ took' \in [Proc -> BOOLEAN],
             pidFile' \in Proc \cup {NoProc, Dead} /\ lock' \in Proc \cup {NoProc, Dead},
             wd' \in [Proc -> {"none", "called", "held"}],
             call' \in [Proc -> {"none", "stop", "fetch", "fetchOnly", "start"}],
             server' \in {"up", "exited", "stopped", "updating"}, crashes' \in 0 .. MaxCrashes
      PROVE  TypeOK'
  BY <1>0, <1>a, <1>p DEF TypeOK, Place, Task
<1>b. ASSUME tasks' \in [Proc -> [Task -> {"none", "runs", "cancelled", "over"}]],
             tracked' \in [Proc -> SUBSET Task],
             cur' \in [Proc -> Task \cup {None}],
             awaits' \in [Proc -> [Handler -> Task \cup {None}]],
             at' \in [Proc -> Place], crashes' \in 0 .. MaxCrashes, UNCHANGED <<took, server>>,
             pidFile' \in Proc \cup {NoProc, Dead} /\ lock' \in Proc \cup {NoProc, Dead},
             wd' \in [Proc -> {"none", "called", "held"}],
             call' \in [Proc -> {"none", "stop", "fetch", "fetchOnly", "start"}]
      PROVE  TypeOK'
  BY <1>0, <1>b, <1>p DEF TypeOK, Place, Task
<1>1. ASSUME NEW p \in Proc,
             Open(p) \/ Look(p) \/ Read(p) \/ Unlink(p) \/ Create(p) \/ Write(p) \/ Release(p)
      PROVE  TypeOK'
  <2>1. at' \in [Proc -> Place] /\ took' \in [Proc -> BOOLEAN] /\ pidFile' \in Proc \cup {NoProc, Dead}
    BY <1>0, <1>1 DEF TypeOK, Place, Open, Look, Read, Unlink, Create, Write, Release
  <2>2. UNCHANGED <<loop, wd, call, lock, server, crashes>>
    BY <1>1 DEF Open, Look, Read, Unlink, Create, Write, Release
  <2>. QED
    BY <1>0, <1>a, <2>1, <2>2 DEF TypeOK
<1>2. ASSUME NEW p \in Proc, SchedulerStart(p) PROVE TypeOK'
  <2>1. 1 \in Task /\ at' \in [Proc -> Place]
    BY <1>0, <1>2 DEF SchedulerStart, TypeOK, Place, Task
  <2>2. /\ tasks' \in [Proc -> [Task -> {"none", "runs", "cancelled", "over"}]]
        /\ tracked' \in [Proc -> SUBSET Task] /\ cur' \in [Proc -> Task \cup {None}]
    BY <1>0, <1>2, <2>1 DEF SchedulerStart, TypeOK
  <2>. QED
    BY <1>0, <1>2, <1>b, <2>1, <2>2 DEF SchedulerStart, TypeOK
<1>c. ASSUME tasks' \in [Proc -> [Task -> {"none", "runs", "cancelled", "over"}]],
             tracked' \in [Proc -> SUBSET Task],
             cur' \in [Proc -> Task \cup {None}],
             awaits' \in [Proc -> [Handler -> Task \cup {None}]],
             UNCHANGED <<at, took, pidFile, work, crashes>>
      PROVE  TypeOK'
  BY <1>0, <1>b, <1>c DEF TypeOK, Place
<1>3. ASSUME NEW p \in Proc, NEW h \in Handler, Reschedule(p, h) PROVE TypeOK'
  <2>1. CASE Replace(p) /\ UNCHANGED awaits
    BY <1>0, <1>3, <1>c, <2>1, RescheduleCases, ReplaceStep DEF TypeOK
  <2>2. CASE /\ tasks' = [tasks EXCEPT ![p] = Cancelled(p, {cur[p]})]
             /\ awaits' = [awaits EXCEPT ![p][h] = cur[p]]
             /\ UNCHANGED <<tracked, cur>>
    <3>1. Cancelled(p, {cur[p]}) \in [Task -> {"none", "runs", "cancelled", "over"}]
      BY <1>0 DEF TypeOK, Cancelled
    <3>2. tasks' \in [Proc -> [Task -> {"none", "runs", "cancelled", "over"}]]
      BY <1>0, <2>2, <3>1 DEF TypeOK
    <3>3. awaits' \in [Proc -> [Handler -> Task \cup {None}]]
      BY <1>0, <2>2 DEF TypeOK
    <3>. QED
      BY <1>0, <1>3, <1>c, <2>2, <3>2, <3>3, RescheduleCases DEF TypeOK
  <2>. QED
    BY <1>0, <1>3, <2>1, <2>2, RescheduleCases
<1>4. ASSUME NEW p \in Proc, NEW h \in Handler, Resume(p, h) PROVE TypeOK'
  <2>1. awaits' \in [Proc -> [Handler -> Task \cup {None}]]
    BY <1>0, <1>4 DEF Resume, TypeOK
  <2>. QED
    BY <1>0, <1>4, <1>c, <2>1, ReplaceStep DEF Resume
<1>5. ASSUME NEW p \in Proc, NEW t \in Task, TaskEnds(p, t) PROVE TypeOK'
  <2>1. tasks' \in [Proc -> [Task -> {"none", "runs", "cancelled", "over"}]]
    BY <1>0, <1>5 DEF TaskEnds, TypeOK
  <2>. QED
    BY <1>0, <1>5, <1>c, <2>1 DEF TaskEnds, TypeOK
<1>d. ASSUME UNCHANGED <<at, took, pidFile, loop, crashes>>,
             lock' \in Proc \cup {NoProc, Dead},
             wd' \in [Proc -> {"none", "called", "held"}],
             call' \in [Proc -> {"none", "stop", "fetch", "fetchOnly", "start"}],
             server' \in {"up", "exited", "stopped", "updating"}
      PROVE  TypeOK'
  BY <1>0, <1>a, <1>d DEF TypeOK, Place
<1>6. ASSUME NEW p \in Proc, WatchdogLook(p) \/ WatchdogLock(p) \/ WatchdogStart(p) PROVE TypeOK'
  <2>1. /\ wd' \in [Proc -> {"none", "called", "held"}] /\ lock' \in Proc \cup {NoProc, Dead}
        /\ server' \in {"up", "exited", "stopped", "updating"}
    BY <1>0, <1>6 DEF WatchdogLook, WatchdogLock, WatchdogStart, TypeOK
  <2>2. UNCHANGED <<at, took, pidFile, loop, call, crashes>>
    BY <1>6 DEF WatchdogLook, WatchdogLock, WatchdogStart
  <2>. QED
    BY <1>0, <1>d, <2>1, <2>2 DEF TypeOK
<1>7. ASSUME NEW p \in Proc, UpdateBegin(p) \/ Update(p) PROVE TypeOK'
  <2>1. /\ call' \in [Proc -> {"none", "stop", "fetch", "fetchOnly", "start"}]
        /\ server' \in {"up", "exited", "stopped", "updating"}
    BY <1>0, <1>7 DEF UpdateBegin, Update, CallEnds, TypeOK
  <2>2. lock' \in Proc \cup {NoProc, Dead}
    BY <1>0, <1>7 DEF UpdateBegin, Update, CallEnds, TypeOK
  <2>3. UNCHANGED <<at, took, pidFile, loop, wd, crashes>>
    BY <1>7 DEF UpdateBegin, Update, CallEnds
  <2>. QED
    BY <1>0, <1>d, <2>1, <2>2, <2>3 DEF TypeOK
<1>8. ASSUME NEW p \in Proc, Admin(p) PROVE TypeOK'
  BY <1>0, <1>8, <1>d DEF Admin, TypeOK
<1>9. ASSUME NEW p \in Proc, StopAll(p) \/ Exit(p) PROVE TypeOK'
  <2>1. at' \in [Proc -> Place] /\ server' \in {"up", "exited", "stopped", "updating"}
    BY <1>0, <1>9 DEF StopAll, Exit, TypeOK, Place
  <2>2. UNCHANGED <<took, pidFile, loop, wd, call, lock, crashes>>
    BY <1>9 DEF StopAll, Exit
  <2>. QED
    BY <1>0, <1>a, <2>1, <2>2 DEF TypeOK
<1>10. ASSUME NEW p \in Proc, CloseWindow(p) \/ Shutdown(p) PROVE TypeOK'
  <2>1. /\ at' \in [Proc -> Place] /\ lock' \in Proc \cup {NoProc, Dead} /\ NoTasks(p)
        /\ UNCHANGED <<took, pidFile, wd, call, server, crashes>>
    BY <1>0, <1>10 DEF CloseWindow, Shutdown, SchedulerStop, TypeOK, Place
  <2>. QED
    BY <1>0, <1>b, <2>1, NoTasksStep DEF TypeOK
<1>11. ASSUME NEW p \in Proc, Crash(p) PROVE TypeOK'
  <2>1. at' \in [Proc -> Place] /\ crashes' \in 0 .. MaxCrashes /\ NoTasks(p)
    BY <1>0, <1>11 DEF Crash, TypeOK, Place
  <2>2. pidFile' \in Proc \cup {NoProc, Dead} /\ lock' \in Proc \cup {NoProc, Dead}
    BY <1>0, <1>11 DEF Crash, TypeOK
  <2>3. /\ wd' \in [Proc -> {"none", "called", "held"}]
        /\ call' \in [Proc -> {"none", "stop", "fetch", "fetchOnly", "start"}]
        /\ UNCHANGED <<took, server>>
    BY <1>0, <1>11 DEF Crash, TypeOK
  <2>. QED
    BY <1>0, <1>b, <2>1, <2>2, <2>3, NoTasksStep
<1>12. CASE GameExit \/ DeleteStuckLock
  <2>1. lock' \in Proc \cup {NoProc, Dead} /\ server' \in {"up", "exited", "stopped", "updating"}
    BY <1>0, <1>12 DEF GameExit, DeleteStuckLock, TypeOK
  <2>. QED
    BY <1>0, <1>12, <1>d, <2>1 DEF GameExit, DeleteStuckLock, TypeOK
<1>. QED
  BY <1>1, <1>2, <1>3, <1>4, <1>5, <1>6, <1>7, <1>8, <1>9, <1>10, <1>11, <1>12, Zenon DEF Next

\* The initial states.
LEMMA IInvInit == Init => IInv
<1>. SUFFICES ASSUME Init PROVE IInv
  OBVIOUS
<1>. USE ProcAssumption, BoundAssumption DEF Init, loop, work
<1>1. TypeOK
  BY DEF TypeOK, Alive
<1>2. TasksInOrder
  <2>1. 0 \in 0 .. MaxTasks /\ \A p \in Proc : \A t \in Task : tasks[p][t] = "none" <=> t > 0
    BY DEF Task
  <2>. QED
    BY <2>1 DEF TasksInOrder
<1>3. CurrentTask /\ WorkersUp /\ HolderPlace /\ OneManager /\ CheckTracked
  BY DEF CurrentTask, WorkersUp, HolderPlace, OneManager, CheckTracked
<1>4. LockOwned
  BY DEF LockOwned, Updates
<1>. QED
  BY <1>1, <1>2, <1>3, <1>4 DEF IInv

-----------------------------------------------------------------------------
\* Every reachable state satisfies the inductive invariant.
THEOREM Invariance == Spec => []IInv
<1>1. IInv /\ [Next]_vars => IInv'
  <2>. SUFFICES ASSUME IInv, [Next]_vars PROVE IInv'
    OBVIOUS
  <2>1. CASE Next
    BY <2>1, TypeNext, OrderNext, CurrentNext, CheckNext, WorkersNext, HolderNext, OneManagerNext, LockNext
      DEF IInv
  <2>2. CASE UNCHANGED vars
    <3>1. /\ TypeOK' /\ TasksInOrder' /\ CurrentTask' /\ WorkersUp'
      BY <2>2 DEF IInv, vars, loop, work, TypeOK, Alive, Task, TasksInOrder, CurrentTask, WorkersUp
    <3>2. /\ HolderPlace' /\ OneManager' /\ LockOwned' /\ CheckTracked'
      BY <2>2 DEF IInv, vars, loop, work, HolderPlace, OneManager, LockOwned, Updates, CheckTracked, Runs
    <3>. QED
      BY <3>1, <3>2 DEF IInv
  <2>. QED
    BY <2>1, <2>2
<1>. QED
  BY IInvInit, <1>1, PTL DEF Spec

\* The type invariant; a process that is not there has no work, no lock and no manager.pid.
THEOREM TypeCorrect == Spec => []TypeOK
<1>1. IInv => TypeOK
  BY DEF IInv
<1>. QED
  BY <1>1, Invariance, PTL

(***************************************************************************)
(* However many processes are begun, die or are refused, one that works is *)
(* in manager.pid, unless another has deleted a file that it found: the    *)
(* release and the creation with open('x') never cost it the file.         *)
(***************************************************************************)
THEOREM ManagerKeepsFile == Spec => []OneManager
<1>1. IInv => OneManager
  BY DEF IInv
<1>. QED
  BY <1>1, Invariance, PTL

(***************************************************************************)
(* SERVER_LOCK is there exactly while its maker works, and the WatchDog    *)
(* and a mod update never both have it, in any number of processes.        *)
(***************************************************************************)
THEOREM LockHasItsOwner == Spec => []LockOwned
<1>1. IInv => LockOwned
  BY DEF IInv
<1>. QED
  BY <1>1, Invariance, PTL

(***************************************************************************)
(* However settings requests interleave, once none waits any more the      *)
(* ModCheck that was created last runs and stop() will cancel it.          *)
(***************************************************************************)
THEOREM LastCheckTracked == Spec => []CheckTracked
<1>1. IInv => CheckTracked
  BY DEF IInv
<1>. QED
  BY <1>1, Invariance, PTL
=============================================================================
