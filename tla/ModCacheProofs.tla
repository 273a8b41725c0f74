---------------------------- MODULE ModCacheProofs ----------------------------
(***************************************************************************)
(* Theorems about ModCache, for all mods, checks, starts of servers,       *)
(* versions and bounds.                                                    *)
(***************************************************************************)
EXTENDS ModCache, WellFoundedInduction, TLAPS

Job == [pc : Place, todo : SUBSET Mod, cur : Mod \cup {NoMod}, mine : [Mod -> Nat], answer : Nat,
        left : Nat, seen : [Mod -> Nat], failed : SUBSET Mod]

(***************************************************************************)
(* The inductive invariant.  Nothing claims a version that Steam has not   *)
(* published; a call that asks or writes is at a mod, and what it is going *)
(* to write is a version.                                                  *)
(***************************************************************************)
Bounded == \A m \in Mod : disk[m] <= remote[m] /\ file[m] <= remote[m]

Sane(t) ==
  /\ \A m \in Mod : job[t].mine[m] <= remote[m] /\ job[t].seen[m] <= remote[m]
  /\ job[t].pc \in {"asked", "seed", "query", "run", "mark", "record"} => job[t].cur \in Mod
  /\ job[t].pc \in {"seed", "record"} => job[t].answer # Missing
  /\ job[t].pc \in {"seed", "record", "run"} => job[t].answer <= remote[job[t].cur]

\* Mods that a call which downloads has yet to fetch, or could not.  A group
\* has promised its servers nothing.
Owing(t) ==
  IF t = Tick THEN Mod
  ELSE job[t].todo \cup job[t].failed
         \cup (IF job[t].pc \in {"query", "run"} THEN {job[t].cur} ELSE {})

\* A download that is done, and will ask once more what to record.
Asks(t) == job[t].pc = "mark" \/ (job[t].pc = "record" /\ job[t].left > 1)

(***************************************************************************)
(* What a call read from the file was true of the content; SteamCMD        *)
(* fetches what Steam had when it began; a download that is going to be    *)
(* recorded is there, as are the other updates that a check found.  First  *)
(* entries, written without a download, and versions published during one  *)
(* are the exception throughout.                                           *)
(***************************************************************************)
Sound(t) ==
  /\ \A m \in Mod \ Unsure : job[t].mine[m] <= disk[m]
  /\ job[t].pc = "run" /\ job[t].cur \notin Unsure => job[t].answer = remote[job[t].cur]
  /\ Asks(t) /\ job[t].cur \notin Unsure => disk[job[t].cur] >= remote[job[t].cur]
  /\ job[t].pc = "record" /\ job[t].cur \notin Unsure => disk[job[t].cur] >= job[t].answer
  /\ job[t].pc \in {"fetch", "query", "run", "mark", "record"} =>
       \A m \in Mod \ (Unsure \cup Owing(t)) : disk[m] >= job[t].seen[m]
  /\ job[t].pc = "ready" => \A m \in Mod \ Unsure : disk[m] >= job[t].seen[m]

IInv ==
  /\ TypeOK
  /\ Bounded
  /\ RecordedIsFetched
  /\ \A t \in Thread : Sane(t) /\ Sound(t)

-----------------------------------------------------------------------------
\* A non-empty set of numbers has its minimum among its members.
LEMMA MinIsMember ==
  ASSUME NEW S \in SUBSET Nat, S # {}
  PROVE  Min(S) \in S /\ \A n \in S : Min(S) <= n
<1>. DEFINE Less == OpToRel(<, Nat)
<1>1. \A x, y \in Nat : <<y, x>> \in Less <=> y < x
  BY DEF OpToRel
<1>2. IsWellFoundedOn(Less, Nat)
  BY NatLessThanWellFounded, Zenon
<1>3. \E x \in S : \A y \in S : ~(<<y, x>> \in Less)
  <2>. HIDE DEF Less
  <2>. QED
    BY <1>2, WFMin, Zenon
<1>4. \E x \in S : \A y \in S : x =< y
  <2>1. PICK x \in S : \A y \in S : ~(<<y, x>> \in Less)
    BY <1>3
  <2>. HIDE DEF Less
  <2>2. \A y \in S : ~(y < x)
    BY <1>1, <2>1
  <2>3. \A y \in S : x \in Nat /\ y \in Nat
    OBVIOUS
  <2>. QED
    BY <2>2, <2>3
<1>. QED
  BY <1>4 DEF Min

\* The types of the variables that hold more than a set or a flag.
LEMMA Types ==
  ASSUME TypeOK
  PROVE  /\ job \in [Thread -> Job]
         /\ remote \in [Mod -> Nat] /\ disk \in [Mod -> Nat] /\ file \in [Mod -> Nat]
         /\ \A m \in Mod : remote[m] # Missing
         /\ failures \in Nat
  BY BoundAssumption DEF TypeOK, Job, Missing

\* The bounds are numbers, as are the servers of a group that have a mod.
LEMMA Bounds ==
  /\ \A m \in Mod : /\ Published[m] \in Nat \ {0} /\ MaxVersion[m] \in Nat \ {0}
                    /\ Shares[m] \in Nat \ {0} /\ Published[m] <= MaxVersion[m]
  /\ MaxFailures \in Nat
  /\ Published \in [Mod -> Nat \ {0}]
  BY BoundAssumption

\* A thread goes from one call to another.
LEMMA BecomeStep ==
  ASSUME TypeOK, NEW t \in Thread, NEW j \in Job, Become(t, j)
  PROVE  /\ job' \in [Thread -> Job] /\ job'[t] = j
         /\ \A u \in Thread \ {t} : job'[u] = job[u]
  BY Types DEF Become

\* A call with some of its fields assigned.
LEMMA JobFields ==
  ASSUME NEW j \in Job, NEW p \in Place, NEW c \in Mod \cup {NoMod}, NEW mine \in [Mod -> Nat],
         NEW a \in Nat, NEW l \in Nat, NEW todo \in SUBSET Mod
  PROVE  /\ [j EXCEPT !.pc = p, !.mine = mine, !.answer = a, !.left = l] \in Job
         /\ [j EXCEPT !.pc = p, !.todo = todo] \in Job
         /\ [j EXCEPT !.pc = p, !.cur = c, !.mine = mine, !.answer = a, !.left = l] \in Job
         /\ [j EXCEPT !.failed = todo] \in Job
         /\ [j EXCEPT !.seen = mine] \in Job
  BY DEF Job

\* A call that has taken a mod.
LEMMA TakenFields ==
  ASSUME NEW j \in Job, NEW p \in Place, NEW c \in Mod, NEW mine \in [Mod -> Nat], NEW todo \in SUBSET Mod
  PROVE  [j EXCEPT !.pc = p, !.cur = c, !.mine = mine, !.todo = todo] \in Job
  BY DEF Job

\* No call, and no entries.
LEMMA IdleType ==
  /\ Idle \in Job /\ NoEntries \in [Mod -> Nat] /\ Missing \in Nat
  /\ \A m \in Mod : NoEntries[m] = 0
  BY ModAssumption DEF Idle, Job, Place, NoEntries, Missing

\* A step to another place, with what it knows of its mod.
Alter(t, p, mine, a, l) ==
  Become(t, [job[t] EXCEPT !.pc = p, !.mine = mine, !.answer = a, !.left = l])

LEMMA AlterStep ==
  ASSUME TypeOK, NEW t \in Thread, NEW p \in Place, NEW mine \in [Mod -> Nat],
         NEW a \in Nat, NEW l \in Nat, Alter(t, p, mine, a, l)
  PROVE  /\ job' \in [Thread -> Job] /\ \A u \in Thread \ {t} : job'[u] = job[u]
         /\ job'[t].pc = p /\ job'[t].mine = mine /\ job'[t].answer = a /\ job'[t].left = l
         /\ job'[t].todo = job[t].todo /\ job'[t].cur = job[t].cur
         /\ job'[t].seen = job[t].seen /\ job'[t].failed = job[t].failed
<1>. DEFINE k == [job[t] EXCEPT !.pc = p, !.mine = mine, !.answer = a, !.left = l]
<1>1. job[t] \in Job
  BY Types
<1>2. k \in Job
  BY <1>1, JobFields, IdleType DEF Job, Idle
<1>3. job'[t] = k
  <2>. HIDE DEF k
  <2>. QED
    BY <1>2, BecomeStep DEF k, Alter
<1>. QED
  BY <1>1, <1>2, <1>3, BecomeStep DEF Job, Alter

\* Where only some of these change.
LEMMA Alterations ==
  ASSUME TypeOK, NEW t \in Thread, NEW p, NEW mine, NEW a, NEW l
  PROVE  /\ Go(t, p) => Alter(t, p, job[t].mine, job[t].answer, job[t].left)
         /\ Become(t, [job[t] EXCEPT !.pc = p, !.answer = a]) =>
              Alter(t, p, job[t].mine, a, job[t].left)
         /\ Become(t, [job[t] EXCEPT !.pc = p, !.mine = mine, !.answer = a]) =>
              Alter(t, p, mine, a, job[t].left)
         /\ Become(t, [job[t] EXCEPT !.pc = p, !.answer = a, !.left = l]) =>
              Alter(t, p, job[t].mine, a, l)
<1>1. job[t] \in Job
  BY Types
<1>2. /\ [job[t] EXCEPT !.pc = p] =
           [job[t] EXCEPT !.pc = p, !.mine = job[t].mine, !.answer = job[t].answer, !.left = job[t].left]
      /\ [job[t] EXCEPT !.pc = p, !.answer = a] =
           [job[t] EXCEPT !.pc = p, !.mine = job[t].mine, !.answer = a, !.left = job[t].left]
      /\ [job[t] EXCEPT !.pc = p, !.mine = mine, !.answer = a] =
           [job[t] EXCEPT !.pc = p, !.mine = mine, !.answer = a, !.left = job[t].left]
      /\ [job[t] EXCEPT !.pc = p, !.answer = a, !.left = l] =
           [job[t] EXCEPT !.pc = p, !.mine = job[t].mine, !.answer = a, !.left = l]
  BY <1>1 DEF Job
<1>. QED
  BY <1>2, Zenon DEF Go, Alter

\* The loop of a call goes on.
LEMMA ProceedStep ==
  ASSUME TypeOK, NEW t \in Thread, NEW p \in Place, NEW j \in Job, Proceed(t, p, j)
  PROVE  /\ job' \in [Thread -> Job] /\ \A u \in Thread \ {t} : job'[u] = job[u]
         /\ job'[t].pc = p /\ job'[t].cur = NoMod /\ job'[t].mine = NoEntries
         /\ job'[t].todo = j.todo /\ job'[t].seen = j.seen /\ job'[t].failed = j.failed
<1>. DEFINE k == [j EXCEPT !.pc = p, !.cur = NoMod, !.mine = NoEntries, !.answer = Missing, !.left = 0]
<1>1. k \in Job
  <2>1. NoMod \in Mod \cup {NoMod} /\ 0 \in Nat /\ {} \in SUBSET Mod
    OBVIOUS
  <2>. QED
    BY <2>1, IdleType, JobFields
<1>2. Become(t, k)
  BY DEF Proceed
<1>3. job'[t] = k /\ job' \in [Thread -> Job] /\ \A u \in Thread \ {t} : job'[u] = job[u]
  <2>. HIDE DEF k
  <2>. QED
    BY <1>1, <1>2, BecomeStep
<1>. QED
  BY <1>1, <1>3 DEF Job

\* The loop of a call takes its next mod and reads the file, or nothing of it.
LEMMA AskStep ==
  ASSUME TypeOK, NEW t \in Thread, NEW to \in Place, NEW from, Ask(t, from, to)
  PROVE  /\ job' \in [Thread -> Job] /\ \A u \in Thread \ {t} : job'[u] = job[u]
         /\ job[t].pc = from /\ job'[t].pc = to /\ job'[t].mine \in {file, NoEntries}
         /\ job'[t].cur \in Mod
         /\ job'[t].todo = job[t].todo \ {job'[t].cur}
         /\ job'[t].seen = job[t].seen /\ job'[t].failed = job[t].failed
         /\ UNCHANGED <<steam, file, group, seeded, raced>>
<1>. DEFINE m == Min(job[t].todo)
<1>1. PICK read \in {file, NoEntries} :
        Become(t, [job[t] EXCEPT !.pc = to, !.cur = m, !.mine = read, !.todo = @ \ {m}])
  BY DEF Ask
<1>. DEFINE k == [job[t] EXCEPT !.pc = to, !.cur = m, !.mine = read, !.todo = @ \ {m}]
<1>2. job[t] \in Job /\ job[t].todo \in SUBSET Mod /\ job[t].todo # {}
  BY Types DEF Job, Ask
<1>3. m \in Mod
  BY <1>2, MinIsMember, ModAssumption
<1>4. k = [job[t] EXCEPT !.pc = to, !.cur = m, !.mine = read, !.todo = job[t].todo \ {m}]
  BY <1>2 DEF Job
<1>5. k \in Job
  <2>1. m \in Mod \cup {NoMod} /\ job[t].todo \ {m} \in SUBSET Mod /\ read \in [Mod -> Nat] /\ 0 \in Nat
    BY <1>1, <1>2, <1>3, Types, IdleType
  <2>2. job[t] \in Job /\ [job[t] EXCEPT !.pc = to, !.cur = m, !.mine = read, !.todo = job[t].todo \ {m}] \in Job
    <3>. HIDE DEF m, k
    <3>. QED
      BY <1>2, <1>3, <2>1, TakenFields
  <2>. QED
    BY <1>4, <2>2
<1>6. job'[t] = k /\ job' \in [Thread -> Job] /\ \A u \in Thread \ {t} : job'[u] = job[u]
  BY <1>1, <1>5, BecomeStep
<1>7. k.pc = to /\ k.mine = read /\ k.cur = m /\ k.todo = job[t].todo \ {m}
      /\ k.seen = job[t].seen /\ k.failed = job[t].failed
  BY <1>2 DEF Job
<1>. HIDE DEF m, k
<1>. QED
  BY <1>1, <1>3, <1>6, <1>7 DEF Ask, At

-----------------------------------------------------------------------------
(***************************************************************************)
(* What every step does to the versions of a mod that is sure after it:    *)
(* either it was so before and its content does not become older, nor is a *)
(* version published while it is fetched; or a download has just brought   *)
(* what Steam has, and none under way can bring less.                      *)
(***************************************************************************)
Surely(m) ==
  /\ m \notin Unsure /\ disk'[m] >= disk[m]
  /\ \A t \in Thread : (job[t].pc = "run" \/ Asks(t)) /\ job[t].cur = m => remote'[m] = remote[m]

Freshly(m) ==
  /\ disk'[m] = remote'[m]
  /\ \A t \in Thread : job'[t] = job[t] /\ job[t].pc = "run" /\ job[t].cur = m =>
       job[t].answer = remote'[m]

Grows ==
  \A m \in Mod :
    /\ remote'[m] \in Nat /\ disk'[m] \in Nat
    /\ remote'[m] >= remote[m] /\ disk'[m] <= remote'[m]
    /\ m \notin Unsure' => Surely(m) \/ Freshly(m)

\* An entry is written by a thread that is about to write one, or all are lost.
EntryStep ==
  \/ UNCHANGED file
  \/ \E t \in Thread : /\ WriteEntry(t) /\ job[t].pc = "seed" /\ seeded' = seeded \cup {Cur(t)}
                       /\ UNCHANGED <<steam, raced>>
  \/ \E t \in Thread : WriteEntry(t) /\ job[t].pc = "record" /\ UNCHANGED <<steam, seeded, raced>>
  \/ file' = NoEntries /\ failures' = failures + 1

\* Every step is one of these.
LEMMA EntryNext == Next => EntryStep
<1>. SUFFICES ASSUME Next PROVE EntryStep
  OBVIOUS
<1>1. ASSUME NEW t \in Thread, Call(t) PROVE EntryStep
  <2>1. CASE Seed(t)
    BY <2>1 DEF Seed, EntryStep, At, steam
  <2>2. CASE Record(t)
    BY <2>2 DEF Record, EntryStep, At, steam
  <2>3. CASE \/ CheckBegin(t) \/ CheckAsk(t) \/ CheckUnanswered(t) \/ CheckAnswered(t)
             \/ PrepareCheckEnd(t)
             \/ FetchAsk(t) \/ FetchUnanswered(t) \/ FetchAnswered(t) \/ RunSucceeds(t) \/ RunFails(t)
             \/ Mark(t) \/ MarkUnanswered(t) \/ PrepareEnd(t) \/ Started(t)
    <3>1. UNCHANGED file
      BY <2>3 DEF CheckBegin, CheckAsk, CheckUnanswered, CheckAnswered, PrepareCheckEnd, FetchAsk, Ask,
        FetchUnanswered, FetchAnswered, RunSucceeds, RunFails, Mark, MarkUnanswered, PrepareEnd, Started
    <3>. QED
      BY <3>1 DEF EntryStep
  <2>. QED
    BY <1>1, <2>1, <2>2, <2>3, Zenon DEF Call
<1>2. ASSUME NEW c \in ModCheck, CheckEnd(c) PROVE EntryStep
  BY <1>2 DEF CheckEnd, EntryStep
<1>3. CASE GroupBegin \/ GroupDropped \/ GroupEnd
  BY <1>3 DEF GroupBegin, GroupDropped, GroupEnd, EntryStep
<1>4. ASSUME NEW m \in Mod, Publish(m) PROVE EntryStep
  BY <1>4 DEF Publish, EntryStep
<1>5. CASE Crash
  BY <1>5 DEF Crash, Mishap, EntryStep
<1>. QED
  BY <1>1, <1>2, <1>3, <1>4, <1>5, Zenon DEF Next

\* What is known of a call.
LEMMA Known ==
  ASSUME IInv, NEW t \in Thread
  PROVE  /\ TypeOK /\ job[t] \in Job /\ Sane(t) /\ Sound(t) /\ RecordedIsFetched
         /\ job[t].answer \in Nat /\ job[t].left \in Nat /\ job[t].pc \in Place
         /\ \A m \in Mod : /\ remote[m] \in Nat /\ remote[m] # Missing /\ disk[m] \in Nat /\ file[m] \in Nat
                           /\ disk[m] <= remote[m] /\ file[m] <= remote[m]
                           /\ job[t].mine[m] \in Nat /\ job[t].seen[m] \in Nat
                           /\ job[t].seen[m] <= remote[m]
         /\ NoMod \notin Mod
         /\ job \in [Thread -> Job] /\ remote \in [Mod -> Nat] /\ disk \in [Mod -> Nat]
         /\ file \in [Mod -> Nat]
  BY Types, ModAssumption DEF IInv, Bounded, Sane, Job

\* A download that is done, and is to be recorded for servers.
LEMMA DownloadedStep ==
  ASSUME IInv, NEW t \in Thread, Downloaded(t), job[t].cur \in Mod
  PROVE  /\ job' \in [Thread -> Job] /\ \A u \in Thread \ {t} : job'[u] = job[u]
         /\ job'[t].pc = "mark" /\ job'[t].mine = NoEntries /\ job'[t].answer = Missing
         /\ job'[t].todo = job[t].todo /\ job'[t].cur = job[t].cur
         /\ job'[t].seen = job[t].seen /\ job'[t].failed = job[t].failed
<1>. DEFINE left == IF t = Tick THEN Shares[job[t].cur] ELSE 1
<1>1. left \in Nat
  BY Bounds
<1>2. Alter(t, "mark", NoEntries, Missing, left)
  BY DEF Downloaded, Cur, Alter
<1>3. "mark" \in Place
  BY DEF Place
<1>4. TypeOK /\ NoEntries \in [Mod -> Nat] /\ Missing \in Nat
  BY Known, IdleType
<1>. HIDE DEF left
<1>. QED
  BY <1>1, <1>2, <1>3, <1>4, AlterStep

\* Every step lets the versions grow in this way.
LEMMA GrowsNext == IInv /\ Next => Grows
<1>. SUFFICES ASSUME IInv, Next PROVE Grows
  OBVIOUS
<1>0. /\ \A m \in Mod : remote[m] \in Nat /\ disk[m] \in Nat /\ disk[m] <= remote[m]
      /\ remote \in [Mod -> Nat] /\ disk \in [Mod -> Nat] /\ job \in [Thread -> Job]
      /\ \A t \in Thread : Sane(t) /\ Sound(t)
  BY Types DEF IInv, Bounded
<1>a. ASSUME UNCHANGED steam, seeded \subseteq seeded', raced \subseteq raced' PROVE Grows
  <2>1. \A m \in Mod : m \notin Unsure' => m \notin Unsure
    BY <1>a DEF Unsure
  <2>. QED
    BY <1>0, <1>a, <2>1 DEF Grows, Surely, steam
<1>1. ASSUME NEW t \in Thread, Call(t) PROVE Grows
  <2>1. CASE Seed(t)
    BY <1>a, <2>1 DEF Seed
  <2>2. CASE RunSucceeds(t)
    <3>. DEFINE c == job[t].cur
    <3>1. PICK v \in job[t].answer .. remote[c] :
            /\ disk' = [disk EXCEPT ![c] = v]
            /\ LET sure == IF v = remote[c] /\ LastRun(t, c) THEN {c} ELSE {}
               IN seeded' = seeded \ sure /\ raced' = raced \ sure
      BY <2>2 DEF RunSucceeds, Cur
    <3>2. /\ job[t].pc = "run" /\ c \in Mod /\ UNCHANGED remote /\ Downloaded(t)
          /\ job[t].answer \in Nat
      BY <1>0, <2>2, Known DEF RunSucceeds, At, Sane
    <3>3. v \in Nat /\ v <= remote[c] /\ disk'[c] = v /\ \A m \in Mod \ {c} : disk'[m] = disk[m]
      BY <1>0, <3>1, <3>2
    <3>4. \A m \in Mod : /\ remote'[m] \in Nat /\ disk'[m] \in Nat
                         /\ remote'[m] >= remote[m] /\ disk'[m] <= remote'[m]
      BY <1>0, <3>2, <3>3
    <3>5. \A m \in Mod \ {c} : m \notin Unsure' => Surely(m)
      <4>1. \A m \in Mod \ {c} : m \notin Unsure' => m \notin Unsure
        BY <3>1 DEF Unsure
      <4>. QED
        BY <1>0, <3>2, <3>3, <4>1 DEF Surely
    <3>6. CASE v = remote[c] /\ LastRun(t, c)
      <4>1. job'[t] # job[t]
        BY <3>2, DownloadedStep
      <4>2. Freshly(c)
        BY <3>2, <3>3, <3>6, <4>1 DEF Freshly, LastRun, At, Cur
      <4>. QED
        BY <3>4, <3>5, <4>2 DEF Grows
    <3>7. CASE ~(v = remote[c] /\ LastRun(t, c))
      <4>1. Unsure' = Unsure
        BY <3>1, <3>7 DEF Unsure
      <4>2. c \notin Unsure => job[t].answer = remote[c]
        BY <1>0, <3>2 DEF Sound
      <4>3. c \notin Unsure' => Surely(c)
        BY <1>0, <3>2, <3>3, <4>1, <4>2 DEF Surely
      <4>. QED
        BY <3>4, <3>5, <4>3 DEF Grows
    <3>. QED
      BY <3>6, <3>7
  <2>3. CASE \/ CheckBegin(t) \/ CheckAsk(t) \/ CheckUnanswered(t) \/ CheckAnswered(t)
             \/ PrepareCheckEnd(t)
             \/ FetchAsk(t) \/ FetchUnanswered(t) \/ FetchAnswered(t) \/ RunFails(t)
             \/ Mark(t) \/ MarkUnanswered(t) \/ Record(t) \/ PrepareEnd(t) \/ Started(t)
    <3>1. UNCHANGED <<steam, seeded, raced>>
      BY <2>3 DEF CheckBegin, CheckAsk, CheckUnanswered, CheckAnswered, PrepareCheckEnd, FetchAsk, Ask,
        FetchUnanswered, FetchAnswered, RunFails, Mark, MarkUnanswered, Record, PrepareEnd, Started, history
    <3>. QED
      BY <1>a, <3>1
  <2>. QED
    BY <1>1, <2>1, <2>2, <2>3, Zenon DEF Call
<1>2. ASSUME NEW c \in ModCheck, CheckEnd(c) PROVE Grows
  BY <1>2, <1>a DEF CheckEnd, history
<1>3. CASE GroupBegin \/ GroupDropped \/ GroupEnd
  BY <1>3, <1>a DEF GroupBegin, GroupDropped, GroupEnd, history
<1>4. ASSUME NEW m \in Mod, Publish(m) PROVE Grows
  <2>1. /\ remote' = [remote EXCEPT ![m] = remote[m] + 1] /\ UNCHANGED <<disk, seeded>>
        /\ raced' = IF \E t \in Thread : Fetching(t, m) THEN raced \cup {m} ELSE raced
    BY <1>4 DEF Publish
  <2>2. \A n \in Mod : n \notin Unsure' => n \notin Unsure
    BY <2>1 DEF Unsure
  <2>3. m \notin Unsure' => \A t \in Thread : ~((job[t].pc = "run" \/ Asks(t)) /\ job[t].cur = m)
    BY <2>1 DEF Unsure, Fetching, Asks, At, Cur
  <2>4. \A n \in Mod : n \notin Unsure' => Surely(n)
    BY <1>0, <2>1, <2>2, <2>3 DEF Surely
  <2>. QED
    BY <1>0, <2>1, <2>4 DEF Grows
<1>5. CASE Crash
  BY <1>5, <1>a DEF Crash
<1>. QED
  BY <1>1, <1>2, <1>3, <1>4, <1>5, Zenon DEF Next

\* A call that does not move stays as sound as it was.
LEMMA Stays ==
  ASSUME IInv, Grows, NEW t \in Thread, job'[t] = job[t]
  PROVE  Sane(t)' /\ Sound(t)'
<1>1. /\ \A m \in Mod : /\ remote[m] \in Nat /\ disk[m] \in Nat /\ disk[m] <= remote[m]
                        /\ job[t].mine[m] \in Nat /\ job[t].seen[m] \in Nat
      /\ job[t] \in Job /\ job[t].answer \in Nat /\ Sane(t) /\ Sound(t)
  BY Known
<1>2. \A m \in Mod : remote'[m] \in Nat /\ disk'[m] \in Nat /\ remote'[m] >= remote[m]
  BY DEF Grows
<1>3. Sane(t)'
  BY <1>1, <1>2 DEF Sane
<1>4. \A m \in Mod \ Unsure' :
        /\ Surely(m) => m \notin Unsure /\ disk'[m] >= disk[m]
        /\ Freshly(m) => disk'[m] >= job[t].mine[m] /\ disk'[m] >= job[t].seen[m]
                         /\ disk'[m] = remote'[m]
        /\ Surely(m) \/ Freshly(m)
  BY <1>1, <1>2 DEF Grows, Sane, Surely, Freshly
<1>5. \A m \in Mod \ Unsure' : job[t].mine[m] <= disk'[m]
  BY <1>1, <1>2, <1>4 DEF Sound
<1>6. job[t].pc = "run" /\ job[t].cur \notin Unsure' => job[t].answer = remote'[job[t].cur]
  <2>1. SUFFICES ASSUME job[t].pc = "run", job[t].cur \notin Unsure' PROVE job[t].answer = remote'[job[t].cur]
    OBVIOUS
  <2>2. job[t].cur \in Mod
    BY <1>1, <2>1 DEF Sane
  <2>3. CASE Surely(job[t].cur)
    BY <1>1, <2>1, <2>2, <2>3 DEF Surely, Sound
  <2>4. CASE Freshly(job[t].cur)
    BY <2>1, <2>2, <2>4 DEF Freshly
  <2>. QED
    BY <1>4, <2>1, <2>2, <2>3, <2>4
<1>7. Asks(t) /\ job[t].cur \notin Unsure' => disk'[job[t].cur] >= remote'[job[t].cur]
  <2>1. SUFFICES ASSUME Asks(t), job[t].cur \notin Unsure' PROVE disk'[job[t].cur] >= remote'[job[t].cur]
    OBVIOUS
  <2>2. job[t].cur \in Mod
    BY <1>1, <2>1 DEF Sane, Asks
  <2>3. CASE Surely(job[t].cur)
    BY <1>1, <1>2, <2>1, <2>2, <2>3 DEF Surely, Sound
  <2>4. CASE Freshly(job[t].cur)
    BY <1>2, <2>2, <2>4 DEF Freshly
  <2>. QED
    BY <1>4, <2>1, <2>2, <2>3, <2>4
<1>8. job[t].pc = "record" /\ job[t].cur \notin Unsure' => disk'[job[t].cur] >= job[t].answer
  <2>1. SUFFICES ASSUME job[t].pc = "record", job[t].cur \notin Unsure' PROVE disk'[job[t].cur] >= job[t].answer
    OBVIOUS
  <2>2. job[t].cur \in Mod /\ job[t].answer <= remote[job[t].cur]
    BY <1>1, <2>1 DEF Sane
  <2>3. CASE Surely(job[t].cur)
    BY <1>1, <1>2, <2>1, <2>2, <2>3 DEF Surely, Sound
  <2>4. CASE Freshly(job[t].cur)
    BY <1>1, <1>2, <2>2, <2>4 DEF Freshly
  <2>. QED
    BY <1>4, <2>1, <2>2, <2>3, <2>4
<1>9. job[t].pc \in {"fetch", "query", "run", "mark", "record"} =>
        \A m \in Mod \ (Unsure' \cup Owing(t)) : disk'[m] >= job[t].seen[m]
  BY <1>1, <1>2, <1>4 DEF Sound
<1>10. job[t].pc = "ready" => \A m \in Mod \ Unsure' : disk'[m] >= job[t].seen[m]
  BY <1>1, <1>2, <1>4 DEF Sound
<1>11. Owing(t)' = Owing(t) /\ Asks(t)' = Asks(t)
  BY DEF Owing, Asks
<1>. QED
  BY <1>3, <1>5, <1>6, <1>7, <1>8, <1>9, <1>10, <1>11 DEF Sound

\* A call moves, alone, and is as sound as it was.
Moves(t) ==
  /\ job' \in [Thread -> Job] /\ \A u \in Thread \ {t} : job'[u] = job[u]
  /\ Sane(t)' /\ Sound(t)'

\* A call that has no mod: what it knows are the updates its check found.
LEMMA MovesOn ==
  ASSUME TypeOK, Grows, NEW t \in Thread,
         job' \in [Thread -> Job], \A u \in Thread \ {t} : job'[u] = job[u],
         job'[t].pc \in {"idle", "check", "fetch", "ready"},
         job'[t].mine = NoEntries,
         \A m \in Mod : job'[t].seen[m] <= remote'[m],
         job'[t].pc = "fetch" => \A m \in Mod \ (Unsure' \cup Owing(t)') : disk'[m] >= job'[t].seen[m],
         job'[t].pc = "ready" => \A m \in Mod \ Unsure' : disk'[m] >= job'[t].seen[m]
  PROVE  Moves(t)
<1>1. \A m \in Mod : remote'[m] >= 0 /\ disk'[m] >= 0 /\ job'[t].mine[m] = 0
  BY DEF NoEntries, Missing, Grows
<1>2. Sane(t)'
  BY <1>1 DEF Sane
<1>3. Sound(t)'
  BY <1>1 DEF Sound, Asks
<1>. QED
  BY <1>2, <1>3 DEF Moves

\* What a step that leaves the versions alone leaves alone.
LEMMA Calm ==
  ASSUME UNCHANGED <<steam, seeded, raced>>
  PROVE  UNCHANGED <<remote, disk, Unsure>>
  BY DEF steam, Unsure

\* A check begins.
LEMMA CheckBeginMoves ==
  ASSUME IInv, Grows, NEW t \in Thread, CheckBegin(t)
  PROVE  Moves(t)
<1>. DEFINE j == [Idle EXCEPT !.pc = "check", !.todo = Uses[t]]
<1>1. Uses[t] \in SUBSET Mod
  BY UsesAssumption DEF Thread, CheckBegin
<1>2. j \in Job /\ j.pc = "check" /\ j.mine = NoEntries /\ j.seen = NoEntries
  BY <1>1, IdleType DEF Idle, Job, Place
<1>3. Become(t, j)
  BY DEF CheckBegin
<1>. HIDE DEF j
<1>4. job' \in [Thread -> Job] /\ job'[t] = j /\ \A u \in Thread \ {t} : job'[u] = job[u]
  BY <1>2, <1>3, Known, BecomeStep
<1>5. \A m \in Mod : NoEntries[m] = 0 /\ remote'[m] >= 0
  BY IdleType DEF Grows
<1>6. TypeOK
  BY Known
<1>. QED
  BY <1>2, <1>4, <1>5, <1>6, MovesOn

\* A question: what was read from the file was true of the content.
LEMMA AskMoves ==
  ASSUME IInv, NEW t \in Thread, NEW from \in {"check", "fetch"}, NEW to, Ask(t, from, to),
         to = IF from = "check" THEN "asked" ELSE "query"
  PROVE  Moves(t)
<1>1. to \in Place /\ TypeOK
  BY Known DEF Place
<1>2. /\ job' \in [Thread -> Job] /\ \A u \in Thread \ {t} : job'[u] = job[u]
      /\ job[t].pc = from /\ job'[t].pc = to /\ job'[t].mine \in {file, NoEntries}
      /\ job'[t].cur \in Mod
      /\ job'[t].todo = job[t].todo \ {job'[t].cur}
      /\ job'[t].seen = job[t].seen /\ job'[t].failed = job[t].failed
      /\ UNCHANGED <<steam, seeded, raced>>
  BY <1>1, AskStep
<1>3. UNCHANGED <<remote, disk, Unsure>>
  BY <1>2, Calm
<1>4. \A m \in Mod : job'[t].mine[m] <= remote[m] /\ (m \notin Unsure => job'[t].mine[m] <= disk[m])
  BY <1>2, Known, IdleType DEF RecordedIsFetched
<1>5. Sane(t)'
  BY <1>2, <1>3, <1>4, Known DEF Sane
<1>6. to = "query" => \A m \in Mod \ (Unsure \cup Owing(t)') : disk[m] >= job[t].seen[m]
  <2>1. SUFFICES ASSUME to = "query", NEW m \in Mod, m \notin Unsure, m \notin Owing(t)'
                 PROVE  disk[m] >= job[t].seen[m]
    OBVIOUS
  <2>2. m \notin Owing(t) /\ job[t].pc = "fetch"
    BY <1>2, <2>1 DEF Owing
  <2>. QED
    BY <2>1, <2>2, Known DEF Sound
<1>7. Sound(t)'
  BY <1>2, <1>3, <1>4, <1>6 DEF Sound, Asks
<1>. QED
  BY <1>2, <1>5, <1>7 DEF Moves

\* The loop of a check goes on without an update of the mod it was at.
LEMMA CheckGoesOn ==
  ASSUME IInv, Grows, NEW t \in Thread, CheckUnanswered(t) \/ Seed(t)
  PROVE  Moves(t)
<1>1. Proceed(t, "check", job[t]) /\ "check" \in Place
  BY DEF CheckUnanswered, Seed, Place
<1>2. /\ job' \in [Thread -> Job] /\ \A u \in Thread \ {t} : job'[u] = job[u]
      /\ job'[t].pc = "check" /\ job'[t].mine = NoEntries /\ job'[t].seen = job[t].seen
  BY <1>1, Known, ProceedStep
<1>3. \A m \in Mod : job'[t].seen[m] <= remote'[m]
  BY <1>2, Known DEF Grows
<1>. QED
  BY <1>2, <1>3, Known, MovesOn

\* Steam's answer to a check is what it has published.
LEMMA CheckAnsweredMoves ==
  ASSUME IInv, Grows, NEW t \in Thread, CheckAnswered(t)
  PROVE  Moves(t)
<1>0. job[t].pc = "asked" /\ job[t].cur \in Mod /\ UNCHANGED <<remote, disk, Unsure>>
  BY Known, Calm DEF CheckAnswered, At, Sane, history
<1>. DEFINE r == remote[job[t].cur]
<1>1. CASE Become(t, [job[t] EXCEPT !.pc = "seed", !.answer = r])
  <2>1. r \in Nat /\ "seed" \in Place /\ TypeOK /\ job[t].mine \in [Mod -> Nat] /\ job[t].left \in Nat
    BY <1>0, Known DEF Place, Job
  <2>2. Alter(t, "seed", job[t].mine, r, job[t].left)
    BY <1>1, <2>1, Alterations
  <2>3. /\ job' \in [Thread -> Job] /\ \A u \in Thread \ {t} : job'[u] = job[u]
        /\ job'[t].pc = "seed" /\ job'[t].answer = r /\ job'[t].cur = job[t].cur
        /\ job'[t].mine = job[t].mine /\ job'[t].seen = job[t].seen
    BY <2>1, <2>2, AlterStep
  <2>4. Sane(t)'
    BY <1>0, <2>3, Known DEF Sane
  <2>5. Sound(t)'
    BY <1>0, <2>3, Known DEF Sound, Asks
  <2>. QED
    BY <2>3, <2>4, <2>5 DEF Moves
<1>2. CASE Proceed(t, "check", [job[t] EXCEPT !.seen[job[t].cur] = IF r > Own(t) THEN r ELSE Missing])
  <2>. DEFINE seen == [job[t].seen EXCEPT ![job[t].cur] = IF r > Own(t) THEN r ELSE Missing]
              j == [job[t] EXCEPT !.seen = seen]
  <2>1. job[t].seen \in [Mod -> Nat] /\ r \in Nat
    BY <1>0, Known DEF Job
  <2>2. seen \in [Mod -> Nat] /\ \A m \in Mod : seen[m] <= remote[m]
    BY <1>0, <2>1, Known DEF Missing
  <2>3. j \in Job /\ j.seen = seen
    <3>1. job[t] \in Job
      BY Known
    <3>. HIDE DEF seen
    <3>. QED
      BY <2>2, <3>1, JobFields, IdleType DEF Job, Idle
  <2>4. Proceed(t, "check", j) /\ "check" \in Place
    BY <1>2, Known DEF Job, Place
  <2>. HIDE DEF j
  <2>5. /\ job' \in [Thread -> Job] /\ \A u \in Thread \ {t} : job'[u] = job[u]
        /\ job'[t].pc = "check" /\ job'[t].mine = NoEntries /\ job'[t].seen = seen
    BY <2>3, <2>4, Known, ProceedStep
  <2>6. \A m \in Mod : job'[t].seen[m] <= remote'[m]
    BY <1>0, <2>2, <2>5
  <2>. QED
    BY <2>5, <2>6, Known, MovesOn
<1>. QED
  BY <1>1, <1>2 DEF CheckAnswered, Cur

\* The end of a call, of any kind.
LEMMA BecomeIdleMoves ==
  ASSUME IInv, Grows, NEW t \in Thread, Become(t, Idle)
  PROVE  Moves(t)
<1>1. job' \in [Thread -> Job] /\ job'[t] = Idle /\ \A u \in Thread \ {t} : job'[u] = job[u]
  BY Known, IdleType, BecomeStep
<1>2. \A m \in Mod : NoEntries[m] = 0 /\ remote'[m] >= 0
  BY IdleType DEF Grows
<1>3. job'[t].pc = "idle" /\ job'[t].mine = NoEntries /\ job'[t].seen = NoEntries
  BY <1>1 DEF Idle
<1>. QED
  BY <1>1, <1>2, <1>3, Known, MovesOn

\* The updates a check has not found are no promise.
LEMMA NotFound ==
  ASSUME IInv, NEW t \in Thread
  PROVE  Found(t) \in SUBSET Mod /\ \A m \in Mod \ Found(t) : disk[m] >= job[t].seen[m]
<1>1. \A m \in Mod \ Found(t) : job[t].seen[m] = 0
  BY DEF Found, Missing
<1>. QED
  BY <1>1, Known DEF Found

\* A check ends: a start fetches what it found, or goes on without an update.
LEMMA PrepareCheckEndMoves ==
  ASSUME IInv, Grows, NEW t \in Thread, PrepareCheckEnd(t)
  PROVE  Moves(t)
<1>1. job[t].pc = "check" /\ UNCHANGED <<remote, disk, Unsure>>
  BY Calm DEF PrepareCheckEnd, At, history
<1>2. CASE Become(t, Idle)
  BY <1>2, BecomeIdleMoves
<1>3. ASSUME NEW p \in {"ready", "fetch"}, NEW todo \in SUBSET Mod,
             Become(t, [job[t] EXCEPT !.pc = p, !.todo = todo]),
             IF p = "ready" THEN Found(t) = {} ELSE todo = Found(t)
      PROVE  Moves(t)
  <2>. DEFINE j == [job[t] EXCEPT !.pc = p, !.todo = todo]
  <2>1. p \in Place /\ job[t] \in Job
    BY Known DEF Place
  <2>2. j \in Job
    BY <2>1, JobFields, IdleType DEF Job, Idle
  <2>3. job' \in [Thread -> Job] /\ job'[t] = j /\ \A u \in Thread \ {t} : job'[u] = job[u]
    <3>1. Become(t, j)
      BY <1>3
    <3>. HIDE DEF j
    <3>. QED
      BY <2>2, <3>1, Known, BecomeStep
  <2>4. /\ job'[t].pc = p /\ job'[t].todo = todo /\ job'[t].cur = job[t].cur
        /\ job'[t].mine = job[t].mine /\ job'[t].seen = job[t].seen
    BY <2>1, <2>3 DEF Job
  <2>5. Sane(t)'
    BY <1>1, <2>4, Known DEF Sane
  <2>6. \A m \in Mod \ Unsure' : job'[t].mine[m] <= disk'[m]
    BY <1>1, <2>4, Known DEF Sound
  <2>7. p = "fetch" => \A m \in Mod \ (Unsure' \cup Owing(t)') : disk'[m] >= job'[t].seen[m]
    <3>1. p = "fetch" => \A m \in Found(t) : m \in Owing(t)'
      BY <1>3, <2>4, NotFound DEF Owing
    <3>. QED
      BY <1>1, <2>4, <3>1, NotFound
  <2>8. p = "ready" => \A m \in Mod \ Unsure' : disk'[m] >= job'[t].seen[m]
    BY <1>1, <1>3, <2>4, NotFound
  <2>9. Sound(t)'
    BY <2>4, <2>6, <2>7, <2>8 DEF Sound, Asks
  <2>. QED
    BY <2>3, <2>5, <2>9 DEF Moves
<1>4. CASE Found(t) = {} /\ Go(t, "ready")
  <2>1. [job[t] EXCEPT !.pc = "ready"] = [job[t] EXCEPT !.pc = "ready", !.todo = job[t].todo]
        /\ job[t].todo \in SUBSET Mod
    BY Known DEF Job
  <2>. QED
    BY <1>3, <1>4, <2>1 DEF Go
<1>5. CASE Become(t, [job[t] EXCEPT !.pc = "fetch", !.todo = Found(t)])
  BY <1>3, <1>5, NotFound
<1>. QED
  BY <1>2, <1>4, <1>5, Zenon DEF PrepareCheckEnd

\* A download that failed is still owed by a start.
LEMMA FailedMoves ==
  ASSUME IInv, Grows, NEW t \in Thread, Failed(t), job[t].pc \in {"query", "run"},
         UNCHANGED <<remote, disk, Unsure>>
  PROVE  Moves(t)
<1>. DEFINE failed == IF t = Tick THEN job[t].failed ELSE job[t].failed \cup {job[t].cur}
            j == [job[t] EXCEPT !.failed = failed]
<1>1. job[t] \in Job /\ job[t].cur \in Mod /\ failed \in SUBSET Mod
  BY Known DEF Sane, Job
<1>2. j \in Job /\ j.failed = failed /\ j.seen = job[t].seen /\ j.todo = job[t].todo
  <2>1. j.failed = failed /\ j.seen = job[t].seen /\ j.todo = job[t].todo
    BY <1>1 DEF Job
  <2>. HIDE DEF failed
  <2>2. j \in Job
    BY <1>1, JobFields, IdleType DEF Job, Idle
  <2>. QED
    BY <2>1, <2>2
<1>3. Proceed(t, "fetch", j) /\ "fetch" \in Place
  BY <1>1 DEF Failed, Job, Place, Cur
<1>4. t # Tick => failed = job[t].failed \cup {job[t].cur}
  OBVIOUS
<1>. HIDE DEF j, failed
<1>5. /\ job' \in [Thread -> Job] /\ \A u \in Thread \ {t} : job'[u] = job[u]
      /\ job'[t].pc = "fetch" /\ job'[t].mine = NoEntries
      /\ job'[t].todo = job[t].todo /\ job'[t].seen = job[t].seen /\ job'[t].failed = failed
  BY <1>2, <1>3, Known, ProceedStep
<1>6. \A m \in Mod : job'[t].seen[m] <= remote'[m]
  BY <1>5, Known
<1>7. \A m \in Mod \ (Unsure' \cup Owing(t)') : disk'[m] >= job'[t].seen[m]
  <2>1. \A m \in Mod : m \notin Owing(t)' => m \notin Owing(t)
    BY <1>4, <1>5 DEF Owing
  <2>. QED
    BY <1>5, <2>1, Known DEF Sound
<1>. QED
  BY <1>5, <1>6, <1>7, Known, MovesOn

\* SteamCMD begins: it will fetch what Steam has now, or something newer.
LEMMA RunMoves ==
  ASSUME IInv, NEW t \in Thread, RunSteamCMD(t), job[t].pc = "query",
         UNCHANGED <<remote, disk, Unsure>>
  PROVE  Moves(t)
<1>1. job[t].cur \in Mod /\ remote[job[t].cur] \in Nat /\ NoEntries \in [Mod -> Nat]
      /\ TypeOK /\ "run" \in Place /\ job[t].left \in Nat
  BY Known, IdleType DEF Sane, Place
<1>2. Alter(t, "run", NoEntries, remote[job[t].cur], job[t].left)
  BY <1>1, Alterations DEF RunSteamCMD, Cur
<1>3. /\ job' \in [Thread -> Job] /\ \A u \in Thread \ {t} : job'[u] = job[u]
      /\ job'[t].pc = "run" /\ job'[t].mine = NoEntries /\ job'[t].answer = remote[job[t].cur]
      /\ job'[t].todo = job[t].todo /\ job'[t].cur = job[t].cur
      /\ job'[t].seen = job[t].seen /\ job'[t].failed = job[t].failed
  BY <1>1, <1>2, AlterStep
<1>4. Sane(t)'
  BY <1>1, <1>3, Known, IdleType DEF Sane
<1>5. Owing(t)' = Owing(t)
  BY <1>3 DEF Owing
<1>6. Sound(t)'
  BY <1>1, <1>3, <1>5, Known, IdleType DEF Sound, Asks
<1>. QED
  BY <1>3, <1>4, <1>6 DEF Moves

\* A download is done, with what Steam has in the folder.
LEMMA DownloadedMoves ==
  ASSUME IInv, Grows, NEW t \in Thread, Downloaded(t), job[t].pc \in {"query", "run"},
         job[t].cur \notin Unsure' => disk'[job[t].cur] >= remote'[job[t].cur],
         \A m \in Mod \ {job[t].cur} : disk'[m] = disk[m] /\ (m \in Unsure' <=> m \in Unsure)
  PROVE  Moves(t)
<1>1. job[t].cur \in Mod
  BY Known DEF Sane
<1>2. /\ job' \in [Thread -> Job] /\ \A u \in Thread \ {t} : job'[u] = job[u]
      /\ job'[t].pc = "mark" /\ job'[t].mine = NoEntries
      /\ job'[t].todo = job[t].todo /\ job'[t].cur = job[t].cur
      /\ job'[t].seen = job[t].seen /\ job'[t].failed = job[t].failed
  BY <1>1, DownloadedStep
<1>3. \A m \in Mod : /\ NoEntries[m] = 0 /\ remote'[m] \in Nat /\ disk'[m] \in Nat
                     /\ job[t].seen[m] <= remote'[m] /\ job[t].seen[m] \in Nat
  BY Known, IdleType DEF Grows
<1>4. Sane(t)'
  BY <1>1, <1>2, <1>3 DEF Sane
<1>5. \A m \in Mod \ (Unsure' \cup Owing(t)') : disk'[m] >= job'[t].seen[m]
  <2>1. \A m \in Mod : m \notin Owing(t)' => m \notin Owing(t) \/ m = job[t].cur
    BY <1>2 DEF Owing
  <2>2. \A m \in Mod \ Unsure' : m = job[t].cur => disk'[m] >= job[t].seen[m]
    <3>1. job[t].cur \notin Unsure' => disk'[job[t].cur] >= job[t].seen[job[t].cur]
      BY <1>1, <1>3
    <3>. QED
      BY <3>1
  <2>3. \A m \in Mod \ Unsure' : m # job[t].cur /\ m \notin Owing(t) => disk'[m] >= job[t].seen[m]
    BY Known DEF Sound
  <2>. QED
    BY <1>2, <2>1, <2>2, <2>3
<1>6. Sound(t)'
  BY <1>2, <1>3, <1>5 DEF Sound, Asks
<1>. QED
  BY <1>2, <1>4, <1>6 DEF Moves

\* A query ends, with or without a run of SteamCMD.
LEMMA FetchMoves ==
  ASSUME IInv, Grows, NEW t \in Thread, FetchUnanswered(t) \/ FetchAnswered(t)
  PROVE  Moves(t)
<1>1. job[t].pc = "query" /\ job[t].cur \in Mod /\ UNCHANGED <<remote, disk, Unsure>>
  BY Known, Calm DEF FetchUnanswered, FetchAnswered, At, Sane, history
<1>2. CASE RunSteamCMD(t)
  BY <1>1, <1>2, RunMoves
<1>3. CASE Failed(t)
  BY <1>1, <1>3, FailedMoves
<1>4. CASE Downloaded(t) /\ remote[job[t].cur] <= job[t].mine[job[t].cur]
  <2>1. job[t].cur \notin Unsure' => disk'[job[t].cur] >= remote'[job[t].cur]
    BY <1>1, <1>4, Known DEF Sound
  <2>. QED
    BY <1>1, <1>4, <2>1, DownloadedMoves
<1>. QED
  BY <1>2, <1>3, <1>4 DEF FetchUnanswered, FetchAnswered, Own, Cur

\* A download brings what Steam had when it began or something newer, and what
\* Steam has now unless a version was published meanwhile.
LEMMA RunSucceedsMoves ==
  ASSUME IInv, Grows, NEW t \in Thread, RunSucceeds(t)
  PROVE  Moves(t)
<1>. DEFINE c == job[t].cur
<1>1. PICK v \in job[t].answer .. remote[c] :
        /\ disk' = [disk EXCEPT ![c] = v]
        /\ LET sure == IF v = remote[c] /\ LastRun(t, c) THEN {c} ELSE {}
           IN seeded' = seeded \ sure /\ raced' = raced \ sure
  BY DEF RunSucceeds, Cur
<1>2. /\ job[t].pc = "run" /\ c \in Mod /\ UNCHANGED remote /\ Downloaded(t)
      /\ job[t].answer \in Nat /\ remote[c] \in Nat /\ disk \in [Mod -> Nat]
  BY Known DEF RunSucceeds, At, Sane
<1>3. v \in Nat /\ disk'[c] = v /\ \A m \in Mod \ {c} : disk'[m] = disk[m]
  BY <1>1, <1>2
<1>4. \A m \in Mod \ {c} : m \in Unsure' <=> m \in Unsure
  BY <1>1 DEF Unsure
<1>5. c \notin Unsure' => v = remote[c]
  <2>1. c \notin Unsure' /\ v # remote[c] => c \notin Unsure
    BY <1>1 DEF Unsure
  <2>2. c \notin Unsure => job[t].answer = remote[c]
    BY <1>2, Known DEF Sound
  <2>. QED
    BY <1>1, <1>2, <2>1, <2>2
<1>. QED
  BY <1>2, <1>3, <1>4, <1>5, DownloadedMoves

\* The second question of a download: what is recorded has been fetched.
LEMMA MarkMoves ==
  ASSUME IInv, NEW t \in Thread, Mark(t)
  PROVE  Moves(t)
<1>0. job[t].pc = "mark" /\ job[t].cur \in Mod /\ UNCHANGED <<remote, disk, Unsure>>
  BY Known, Calm DEF Mark, At, Sane, history
<1>. DEFINE r == remote[job[t].cur]
<1>1. r \in Nat /\ "record" \in Place /\ TypeOK /\ job[t].mine \in [Mod -> Nat] /\ job[t].left \in Nat
  BY <1>0, Known DEF Place, Job
<1>2. Alter(t, "record", job[t].mine, r, job[t].left)
  BY <1>1, Alterations DEF Mark, Cur
<1>3. /\ job' \in [Thread -> Job] /\ \A u \in Thread \ {t} : job'[u] = job[u]
      /\ job'[t].pc = "record" /\ job'[t].answer = r /\ job'[t].cur = job[t].cur
      /\ job'[t].mine = job[t].mine /\ job'[t].seen = job[t].seen
      /\ job'[t].todo = job[t].todo /\ job'[t].failed = job[t].failed
  BY <1>1, <1>2, AlterStep
<1>4. Sane(t)'
  BY <1>0, <1>3, Known DEF Sane
<1>5. Owing(t)' = Owing(t)
  BY <1>0, <1>3 DEF Owing
<1>6. Asks(t)
  BY <1>0 DEF Asks
<1>7. Sound(t)'
  BY <1>0, <1>3, <1>5, <1>6, Known DEF Sound
<1>. QED
  BY <1>3, <1>4, <1>7 DEF Moves

\* A download is recorded for one server or not, and it is the next one's turn.
LEMMA MarkedMoves ==
  ASSUME IInv, Grows, NEW t \in Thread, MarkUnanswered(t) \/ Record(t)
  PROVE  Moves(t)
<1>1. /\ Marked(t) /\ job[t].pc \in {"mark", "record"} /\ UNCHANGED <<remote, disk, Unsure>>
      /\ job[t].cur \in Mod
  BY Known, Calm DEF MarkUnanswered, Record, At, history, Sane
<1>2. CASE job[t].left > 1
  <2>. DEFINE left == job[t].left - 1
  <2>1. left \in Nat /\ "mark" \in Place /\ TypeOK /\ job[t].mine \in [Mod -> Nat] /\ Missing \in Nat
    BY <1>2, Known, IdleType DEF Place, Job
  <2>2. Become(t, [job[t] EXCEPT !.pc = "mark", !.answer = Missing, !.left = left])
    <3>1. [job[t] EXCEPT !.pc = "mark", !.answer = Missing, !.left = left]
            = [job[t] EXCEPT !.pc = "mark", !.answer = Missing, !.left = @ - 1]
      BY Known DEF Job
    <3>. QED
      BY <1>1, <1>2, <3>1 DEF Marked
  <2>. HIDE DEF left
  <2>3. Alter(t, "mark", job[t].mine, Missing, left)
    BY <2>1, <2>2, Alterations
  <2>4. /\ job' \in [Thread -> Job] /\ \A u \in Thread \ {t} : job'[u] = job[u]
        /\ job'[t].pc = "mark" /\ job'[t].cur = job[t].cur
        /\ job'[t].mine = job[t].mine /\ job'[t].seen = job[t].seen
        /\ job'[t].todo = job[t].todo /\ job'[t].failed = job[t].failed
    BY <2>1, <2>3, AlterStep
  <2>5. Sane(t)'
    BY <1>1, <2>4, Known DEF Sane
  <2>6. Owing(t)' = Owing(t) /\ Asks(t)
    BY <1>1, <1>2, <2>4 DEF Owing, Asks
  <2>7. Sound(t)'
    BY <1>1, <2>4, <2>6, Known DEF Sound, Asks
  <2>. QED
    BY <2>4, <2>5, <2>7 DEF Moves
<1>3. CASE ~(job[t].left > 1)
  <2>1. Proceed(t, "fetch", job[t]) /\ "fetch" \in Place
    BY <1>1, <1>3 DEF Marked, Place
  <2>2. /\ job' \in [Thread -> Job] /\ \A u \in Thread \ {t} : job'[u] = job[u]
        /\ job'[t].pc = "fetch" /\ job'[t].mine = NoEntries
        /\ job'[t].todo = job[t].todo /\ job'[t].seen = job[t].seen /\ job'[t].failed = job[t].failed
    BY <2>1, Known, ProceedStep
  <2>3. \A m \in Mod : job'[t].seen[m] <= remote'[m]
    BY <1>1, <2>2, Known
  <2>4. Owing(t)' = Owing(t)
    BY <1>1, <2>2 DEF Owing
  <2>5. \A m \in Mod \ (Unsure' \cup Owing(t)') : disk'[m] >= job'[t].seen[m]
    BY <1>1, <2>2, <2>4, Known DEF Sound
  <2>. QED
    BY <2>2, <2>3, <2>5, Known, MovesOn
<1>. QED
  BY <1>2, <1>3

\* A start whose downloads all succeeded goes on.
LEMMA PrepareEndMoves ==
  ASSUME IInv, Grows, NEW t \in Thread, PrepareEnd(t)
  PROVE  Moves(t)
<1>1. job[t].pc = "fetch" /\ job[t].todo = {} /\ UNCHANGED <<remote, disk, Unsure>> /\ t # Tick
  BY Calm, ThreadAssumption DEF PrepareEnd, At, history
<1>2. CASE job[t].failed = {} /\ Go(t, "ready")
  <2>0. "ready" \in Place /\ TypeOK /\ job[t].mine \in [Mod -> Nat] /\ job[t].left \in Nat /\ job[t].answer \in Nat
    BY Known DEF Place, Job
  <2>1. Alter(t, "ready", job[t].mine, job[t].answer, job[t].left)
    BY <1>2, <2>0, Alterations
  <2>2. /\ job' \in [Thread -> Job] /\ \A u \in Thread \ {t} : job'[u] = job[u]
        /\ job'[t].pc = "ready" /\ job'[t].cur = job[t].cur /\ job'[t].mine = job[t].mine
        /\ job'[t].seen = job[t].seen
    BY <2>0, <2>1, AlterStep
  <2>3. Sane(t)'
    BY <1>1, <2>2, Known DEF Sane
  <2>4. Owing(t) = {}
    BY <1>1, <1>2 DEF Owing
  <2>5. Sound(t)'
    BY <1>1, <2>2, <2>4, Known DEF Sound, Asks
  <2>. QED
    BY <2>2, <2>3, <2>5 DEF Moves
<1>. QED
  BY <1>2, BecomeIdleMoves DEF PrepareEnd

\* The update of a group begins: it has found nothing itself.
LEMMA GroupBeginMoves ==
  ASSUME IInv, Grows, GroupBegin
  PROVE  Moves(Tick)
<1>. DEFINE j == [Idle EXCEPT !.pc = "fetch", !.todo = group]
<1>1. Tick \in Thread /\ group \in SUBSET Mod /\ TypeOK
  BY DEF Thread, IInv, TypeOK
<1>2. j \in Job /\ j.pc = "fetch" /\ j.mine = NoEntries /\ j.seen = NoEntries
  BY <1>1, IdleType DEF Idle, Job, Place
<1>3. Become(Tick, j)
  BY DEF GroupBegin
<1>. HIDE DEF j
<1>4. job' \in [Thread -> Job] /\ job'[Tick] = j /\ \A u \in Thread \ {Tick} : job'[u] = job[u]
  BY <1>1, <1>2, <1>3, BecomeStep
<1>5. \A m \in Mod : NoEntries[m] = 0 /\ remote'[m] >= 0 /\ disk'[m] >= 0
  BY IdleType DEF Grows
<1>. QED
  BY <1>1, <1>2, <1>4, <1>5, MovesOn

\* Every step of a call is one of those above.
LEMMA CallMoves ==
  ASSUME IInv, Grows, NEW t \in Thread, Call(t)
  PROVE  Moves(t)
<1>1. CASE CheckBegin(t)
  BY <1>1, CheckBeginMoves
<1>2. CASE CheckAsk(t) \/ FetchAsk(t)
  <2>1. CASE CheckAsk(t)
    BY <2>1, AskMoves DEF CheckAsk
  <2>2. CASE FetchAsk(t)
    BY <2>2, AskMoves DEF FetchAsk
  <2>. QED
    BY <1>2, <2>1, <2>2
<1>3. CASE CheckUnanswered(t) \/ Seed(t)
  BY <1>3, CheckGoesOn
<1>4. CASE CheckAnswered(t)
  BY <1>4, CheckAnsweredMoves
<1>5. CASE PrepareCheckEnd(t)
  BY <1>5, PrepareCheckEndMoves
<1>6. CASE FetchUnanswered(t) \/ FetchAnswered(t)
  BY <1>6, FetchMoves
<1>7. CASE RunSucceeds(t)
  BY <1>7, RunSucceedsMoves
<1>8. CASE RunFails(t)
  BY <1>8, FailedMoves, Calm DEF RunFails, At, history
<1>9. CASE Mark(t)
  BY <1>9, MarkMoves
<1>10. CASE MarkUnanswered(t) \/ Record(t)
  BY <1>10, MarkedMoves
<1>11. CASE PrepareEnd(t)
  BY <1>11, PrepareEndMoves
<1>12. CASE Started(t)
  BY <1>12, BecomeIdleMoves DEF Started
<1>. QED
  BY <1>1, <1>2, <1>3, <1>4, <1>5, <1>6, <1>7, <1>8, <1>9, <1>10, <1>11, <1>12, Zenon DEF Call

\* The calls stay sound.
LEMMA JobsNext ==
  IInv /\ Next => job' \in [Thread -> Job] /\ \A t \in Thread : Sane(t)' /\ Sound(t)'
<1>. SUFFICES ASSUME IInv, Next
              PROVE  job' \in [Thread -> Job] /\ \A t \in Thread : Sane(t)' /\ Sound(t)'
  OBVIOUS
<1>0. Grows
  BY GrowsNext
<1>a. ASSUME NEW t \in Thread, Moves(t)
      PROVE  job' \in [Thread -> Job] /\ \A u \in Thread : Sane(u)' /\ Sound(u)'
  <2>1. \A u \in Thread \ {t} : Sane(u)' /\ Sound(u)'
    BY <1>0, <1>a, Stays DEF Moves
  <2>. QED
    BY <1>a, <2>1 DEF Moves
<1>b. ASSUME UNCHANGED job
      PROVE  job' \in [Thread -> Job] /\ \A u \in Thread : Sane(u)' /\ Sound(u)'
  <2>1. job \in [Thread -> Job]
    BY Types DEF IInv
  <2>. QED
    BY <1>0, <1>b, <2>1, Stays
<1>1. ASSUME NEW t \in Thread, Call(t) PROVE Moves(t)
  BY <1>0, <1>1, CallMoves
<1>2. ASSUME NEW c \in ModCheck, CheckEnd(c) PROVE Moves(c)
  BY <1>0, <1>2, BecomeIdleMoves DEF CheckEnd, Thread
<1>3. CASE GroupBegin
  BY <1>0, <1>3, <1>a, GroupBeginMoves DEF Thread
<1>4. CASE GroupDropped
  BY <1>4, <1>b DEF GroupDropped
<1>5. CASE GroupEnd
  BY <1>0, <1>5, <1>a, BecomeIdleMoves DEF GroupEnd, Thread
<1>6. ASSUME NEW m \in Mod, Publish(m) PROVE UNCHANGED job
  BY <1>6 DEF Publish
<1>7. CASE Crash
  <2>1. job' = [t \in Thread |-> Idle]
    BY <1>7 DEF Crash
  <2>2. \A t \in Thread : job'[t].pc = "idle" /\ job'[t].mine = NoEntries /\ job'[t].seen = NoEntries
    BY <2>1 DEF Idle
  <2>3. \A m \in Mod : NoEntries[m] = 0 /\ remote'[m] >= 0 /\ disk'[m] >= 0
    BY <1>0, IdleType DEF Grows
  <2>4. \A t \in Thread : Sane(t)' /\ Sound(t)'
    BY <2>2, <2>3 DEF Sane, Sound, Asks
  <2>. QED
    BY <2>1, <2>4, IdleType
<1>8. ASSUME NEW c \in ModCheck PROVE c \in Thread
  BY DEF Thread
<1>. QED
  BY <1>a, <1>b, <1>1, <1>2, <1>3, <1>4, <1>5, <1>6, <1>7, <1>8, Zenon DEF Next

\* What a write may leave of the file.
LEMMA Written ==
  ASSUME IInv, NEW t \in Thread, WriteEntry(t), job[t].cur \in Mod
  PROVE  /\ file' \in [Mod -> Nat]
         /\ \A m \in Mod : file'[m] \in {file[m], 0} \/ (m = job[t].cur /\ file'[m] = job[t].answer)
         /\ UNCHANGED mishaps \/ Mishap(TRUE)
         /\ UNCHANGED mishaps => file' = [file EXCEPT ![job[t].cur] = job[t].answer]
<1>1. /\ file \in [Mod -> Nat] /\ job[t].answer \in Nat /\ NoEntries \in [Mod -> Nat] /\ failures \in Nat
      /\ \A m \in Mod : NoEntries[m] = 0
  BY Known, Types, IdleType
<1>2. Mishap(TRUE) => ~UNCHANGED mishaps
  BY <1>1 DEF Mishap, mishaps
<1>3. CASE UNCHANGED mishaps
  <2>1. file' = [file EXCEPT ![job[t].cur] = job[t].answer]
    BY <1>2, <1>3 DEF WriteEntry, Cur
  <2>. QED
    BY <1>1, <1>3, <2>1
<1>4. CASE Mishap(TRUE)
  <2>1. file' \in {file, NoEntries, [NoEntries EXCEPT ![job[t].cur] = job[t].answer]}
    BY <1>2, <1>4 DEF WriteEntry, Cur
  <2>2. file' \in [Mod -> Nat]
    BY <1>1, <2>1
  <2>3. \A m \in Mod : file'[m] \in {file[m], 0} \/ (m = job[t].cur /\ file'[m] = job[t].answer)
    BY <1>1, <2>1
  <2>. QED
    BY <1>2, <1>4, <2>2, <2>3
<1>. QED
  BY <1>3, <1>4 DEF WriteEntry

\* Entries stay below what Steam has and, of mods that are sure, below the content.
LEMMA EntriesNext == IInv /\ Next => Bounded' /\ RecordedIsFetched'
<1>. SUFFICES ASSUME IInv, Next PROVE Bounded' /\ RecordedIsFetched'
  OBVIOUS
<1>0. Grows /\ EntryStep /\ Bounded /\ RecordedIsFetched
  BY GrowsNext, EntryNext DEF IInv
<1>1. \A m \in Mod : remote[m] \in Nat /\ disk[m] \in Nat /\ file[m] \in Nat
  BY Types DEF IInv
<1>2. CASE UNCHANGED file
  <2>1. Bounded'
    BY <1>0, <1>1, <1>2 DEF Bounded, Grows
  <2>2. \A m \in Mod \ Unsure' : Surely(m) => file'[m] <= disk'[m]
    BY <1>0, <1>1, <1>2 DEF RecordedIsFetched, Surely, Grows
  <2>3. \A m \in Mod \ Unsure' : Freshly(m) => file'[m] <= disk'[m]
    BY <1>0, <1>1, <1>2 DEF Bounded, Freshly, Grows
  <2>. QED
    BY <1>0, <2>1, <2>2, <2>3 DEF Grows, RecordedIsFetched
<1>3. ASSUME NEW t \in Thread, WriteEntry(t), job[t].cur \in Mod, UNCHANGED steam,
             job[t].answer <= remote[job[t].cur],
             Unsure \subseteq Unsure',
             job[t].cur \notin Unsure' => job[t].answer <= disk[job[t].cur]
      PROVE  Bounded' /\ RecordedIsFetched'
  <2>1. \A m \in Mod : \/ file'[m] \in {file[m], 0}
                       \/ m = job[t].cur /\ file'[m] = job[t].answer
    BY <1>3, Written
  <2>2. Bounded'
    BY <1>0, <1>1, <1>3, <2>1 DEF Bounded, steam
  <2>3. RecordedIsFetched'
    BY <1>0, <1>1, <1>3, <2>1 DEF RecordedIsFetched, steam
  <2>. QED
    BY <2>2, <2>3
<1>4. ASSUME NEW t \in Thread, WriteEntry(t), job[t].pc = "seed", seeded' = seeded \cup {Cur(t)},
             UNCHANGED <<steam, raced>>
      PROVE  Bounded' /\ RecordedIsFetched'
  <2>1. job[t].cur \in Mod /\ job[t].answer <= remote[job[t].cur]
    BY <1>4, Known DEF Sane
  <2>2. Unsure \subseteq Unsure' /\ job[t].cur \in Unsure'
    BY <1>4 DEF Unsure, Cur
  <2>. QED
    BY <1>3, <1>4, <2>1, <2>2
<1>5. ASSUME NEW t \in Thread, WriteEntry(t), job[t].pc = "record", UNCHANGED <<steam, seeded, raced>>
      PROVE  Bounded' /\ RecordedIsFetched'
  <2>1. job[t].cur \in Mod /\ job[t].answer <= remote[job[t].cur] /\ job[t].answer \in Nat
    BY <1>5, Known DEF Sane
  <2>2. Unsure' = Unsure
    BY <1>5 DEF Unsure
  <2>3. job[t].cur \notin Unsure => job[t].answer <= disk[job[t].cur]
    BY <1>1, <1>5, <2>1, Known DEF Sound
  <2>. QED
    BY <1>3, <1>5, <2>1, <2>2, <2>3
<1>6. CASE file' = NoEntries
  <2>1. \A m \in Mod : file'[m] = 0
    BY <1>6, IdleType
  <2>. QED
    BY <1>0, <2>1 DEF Bounded, RecordedIsFetched, Grows
<1>. QED
  BY <1>0, <1>2, <1>4, <1>5, <1>6 DEF EntryStep

\* Mishaps stay below their bound.
Mishaps == UNCHANGED mishaps \/ Mishap(TRUE) \/ Mishap(FALSE)

LEMMA MishapNext ==
  ASSUME TypeOK, Mishaps
  PROVE  torn' \in BOOLEAN /\ failures' \in 0 .. MaxFailures
<1>1. failures \in 0 .. MaxFailures /\ MaxFailures \in Nat
  BY Bounds DEF TypeOK
<1>2. failures' \in 0 .. MaxFailures
  BY <1>1 DEF mishaps, Mishap, Mishaps
<1>3. torn \in BOOLEAN
  BY Zenon DEF TypeOK
<1>4. torn' = torn \/ torn' = (torn \/ TRUE) \/ torn' = (torn \/ FALSE)
  BY Zenon DEF mishaps, Mishap, Mishaps
<1>. QED
  BY <1>2, <1>3, <1>4

\* A step keeps the variables in their types.
LEMMA TypeNext == IInv /\ Next => TypeOK'
<1>. SUFFICES ASSUME IInv, Next PROVE TypeOK'
  OBVIOUS
<1>0. /\ TypeOK /\ remote \in [Mod -> Nat \ {Missing}] /\ disk \in [Mod -> Nat] /\ file \in [Mod -> Nat]
      /\ \A m \in Mod : remote[m] <= MaxVersion[m] /\ MaxVersion[m] \in Nat
      /\ group \subseteq Mod /\ seeded \subseteq Mod /\ raced \subseteq Mod
  BY Bounds DEF IInv, TypeOK
<1>a. ASSUME remote' \in [Mod -> Nat \ {Missing}], \A m \in Mod : remote'[m] <= MaxVersion[m],
             disk' \in [Mod -> Nat], file' \in [Mod -> Nat], group' \subseteq Mod,
             seeded' \subseteq Mod, raced' \subseteq Mod,
             Mishaps
      PROVE  TypeOK'
  <2>1. job' \in [Thread -> Job]
    BY JobsNext
  <2>2. \A m \in Mod : disk'[m] <= remote'[m] /\ file'[m] <= remote'[m]
    BY EntriesNext DEF Bounded
  <2>3. \A m \in Mod : {remote'[m], disk'[m], file'[m]} \subseteq 0 .. MaxVersion[m]
    BY <1>0, <1>a, <2>2
  <2>4. torn' \in BOOLEAN /\ failures' \in 0 .. MaxFailures
    BY <1>0, <1>a, MishapNext
  <2>. QED
    BY <1>a, <2>1, <2>3, <2>4 DEF TypeOK, Job
<1>b. ASSUME UNCHANGED <<steam, file, history>>, group' \subseteq Mod PROVE TypeOK'
  <2>1. Mishaps
    BY <1>b, Zenon DEF history, Mishaps
  <2>. QED
    BY <1>0, <1>a, <1>b, <2>1 DEF steam, history
<1>1. ASSUME NEW t \in Thread, Call(t) PROVE TypeOK'
  <2>1. CASE RunSucceeds(t)
    <3>1. job[t].cur \in Mod /\ job[t].answer \in Nat /\ remote[job[t].cur] \in Nat
      BY <2>1, Known DEF RunSucceeds, At, Sane
    <3>2. UNCHANGED <<remote, file, group>> /\ Mishaps
      BY <2>1, Zenon DEF RunSucceeds, Mishaps
    <3>6. seeded' \subseteq Mod /\ raced' \subseteq Mod
      <4>1. PICK sure : seeded' = seeded \ sure /\ raced' = raced \ sure
        BY <2>1 DEF RunSucceeds
      <4>. QED
        BY <1>0, <4>1
    <3>3. PICK v \in job[t].answer .. remote[job[t].cur] : disk' = [disk EXCEPT ![job[t].cur] = v]
      BY <2>1 DEF RunSucceeds, Cur
    <3>4. v \in Nat
      BY <3>1, <3>3
    <3>5. disk' \in [Mod -> Nat]
      BY <1>0, <3>3, <3>4
    <3>. QED
      BY <1>0, <1>a, <3>2, <3>5, <3>6
  <2>2. CASE Seed(t) \/ Record(t)
    <3>1. job[t].cur \in Mod /\ WriteEntry(t)
      BY <2>2, Known DEF Seed, Record, At, Sane
    <3>2. seeded' \subseteq Mod /\ UNCHANGED <<remote, disk, group, raced>>
      BY <1>0, <2>2, <3>1 DEF Seed, Record, Cur, steam
    <3>3. file' \in [Mod -> Nat] /\ Mishaps
      BY <3>1, Written, Zenon DEF Mishaps
    <3>. QED
      BY <1>0, <1>a, <3>2, <3>3
  <2>3. CASE CheckAsk(t) \/ FetchAsk(t)
    <3>1. UNCHANGED <<remote, disk, file, group, seeded, raced>> /\ Mishaps
      BY <2>3, Zenon DEF CheckAsk, FetchAsk, Ask, steam, Mishaps
    <3>. QED
      BY <1>0, <1>a, <3>1
  <2>4. CASE \/ CheckBegin(t) \/ CheckUnanswered(t) \/ CheckAnswered(t) \/ PrepareCheckEnd(t)
             \/ FetchUnanswered(t) \/ FetchAnswered(t) \/ RunFails(t)
             \/ Mark(t) \/ MarkUnanswered(t) \/ PrepareEnd(t) \/ Started(t)
    <3>1. UNCHANGED <<steam, file, group, history>>
      BY <2>4 DEF CheckBegin, CheckUnanswered, CheckAnswered, PrepareCheckEnd,
        FetchUnanswered, FetchAnswered, RunFails, Mark, MarkUnanswered, PrepareEnd, Started
    <3>. QED
      BY <1>0, <1>b, <3>1
  <2>. QED
    BY <1>1, <2>1, <2>2, <2>3, <2>4, Zenon DEF Call
<1>2. ASSUME NEW c \in ModCheck, CheckEnd(c) PROVE TypeOK'
  BY <1>0, <1>2, <1>b DEF CheckEnd, Found, history, steam
<1>3. CASE GroupBegin \/ GroupDropped \/ GroupEnd
  BY <1>0, <1>3, <1>b DEF GroupBegin, GroupDropped, GroupEnd, history, steam
<1>4. ASSUME NEW m \in Mod, Publish(m) PROVE TypeOK'
  <2>1. remote' = [remote EXCEPT ![m] = remote[m] + 1] /\ remote[m] < MaxVersion[m]
        /\ UNCHANGED <<disk, file, group, seeded>> /\ raced' \subseteq Mod
    BY <1>0, <1>4 DEF Publish
  <2>3. Mishaps
    BY <1>4, Zenon DEF Publish, Mishaps
  <2>2. remote' \in [Mod -> Nat \ {Missing}] /\ \A n \in Mod : remote'[n] <= MaxVersion[n]
    BY <1>0, <2>1 DEF Missing
  <2>. QED
    BY <1>0, <1>a, <2>1, <2>2, <2>3
<1>5. CASE Crash
  <2>1. UNCHANGED <<remote, disk, seeded, raced>> /\ group' = {} /\ Mishaps
    BY <1>5, Zenon DEF Crash, steam, Mishaps
  <2>2. file' \in [Mod -> Nat]
    BY <1>0, <1>5, IdleType DEF Crash
  <2>. QED
    BY <1>0, <1>a, <2>1, <2>2
<1>. QED
  BY <1>1, <1>2, <1>3, <1>4, <1>5, Zenon DEF Next

\* The initial states, of whatever older release the file is.
LEMMA IInvInit == Init => IInv
<1>. SUFFICES ASSUME Init PROVE IInv
  OBVIOUS
<1>. USE DEF Missing
<1>1. /\ remote \in [Mod -> Nat \ {0}]
      /\ \A m \in Mod : remote[m] >= 1 /\ remote[m] <= MaxVersion[m] /\ MaxVersion[m] \in Nat
  BY Bounds DEF Init
<1>2. PICK raw \in [Mod -> {{}, {1}, {1, 2}}] :
        /\ \A m \in Mod : \A v \in raw[m] : m \in Installed /\ v <= remote[m]
        /\ file = Migrated(raw)
  BY DEF Init
<1>3. \A m \in Mod : file[m] = 0 \/ (file[m] = 1 /\ m \in Installed)
  <2>1. SUFFICES ASSUME NEW m \in Mod, raw[m] # {} PROVE Min(raw[m]) = 1 /\ m \in Installed
    BY <1>2 DEF Migrated
  <2>2. 1 \in raw[m] /\ raw[m] \in SUBSET Nat /\ \A v \in raw[m] : v >= 1
    BY <1>2, <2>1
  <2>3. Min(raw[m]) \in raw[m] /\ Min(raw[m]) <= 1 /\ Min(raw[m]) \in Nat
    BY <2>2, MinIsMember
  <2>. QED
    BY <1>2, <2>2, <2>3
<1>4. file \in [Mod -> Nat]
  <2>1. file = [m \in Mod |-> file[m]]
    BY <1>2 DEF Migrated
  <2>. QED
    BY <1>3, <2>1
<1>5. /\ disk \in [Mod -> Nat]
      /\ \A m \in Mod : disk[m] = IF m \in Installed THEN 1 ELSE 0
  BY DEF Init
<1>6. job \in [Thread -> Job] /\ \A t \in Thread : job[t] = Idle
  BY IdleType DEF Init
<1>7. TypeOK
  <2>1. /\ group \subseteq Mod /\ seeded \subseteq Mod /\ raced \subseteq Mod /\ torn \in BOOLEAN
        /\ failures \in 0 .. MaxFailures
    <3>1. group = {} /\ seeded = {} /\ raced = {} /\ torn = FALSE /\ failures = 0
      BY DEF Init
    <3>2. torn \in BOOLEAN
      BY <3>1
    <3>3. 0 \in 0 .. MaxFailures
      BY Bounds
    <3>. QED
      BY <3>1, <3>2, <3>3, Zenon
  <2>2. \A m \in Mod : {remote[m], disk[m], file[m]} \subseteq 0 .. MaxVersion[m]
    BY <1>1, <1>3, <1>5
  <2>. QED
    BY <1>1, <1>4, <1>5, <1>6, <2>1, <2>2 DEF TypeOK, Job
<1>8. Bounded /\ RecordedIsFetched
  BY <1>1, <1>3, <1>5 DEF Bounded, RecordedIsFetched
<1>9. \A t \in Thread : Sane(t) /\ Sound(t)
  <2>1. \A t \in Thread : job[t].pc = "idle" /\ job[t].mine = NoEntries /\ job[t].seen = NoEntries
    BY <1>6 DEF Idle
  <2>2. \A m \in Mod : NoEntries[m] = 0 /\ remote[m] >= 0 /\ disk[m] >= 0
    BY <1>1, <1>5, IdleType
  <2>. QED
    BY <2>1, <2>2 DEF Sane, Sound, Asks
<1>. QED
  BY <1>7, <1>8, <1>9 DEF IInv

-----------------------------------------------------------------------------
\* Every reachable state satisfies the inductive invariant.
THEOREM Invariance == Spec => []IInv
<1>1. IInv /\ [Next]_vars => IInv'
  <2>. SUFFICES ASSUME IInv, [Next]_vars PROVE IInv'
    OBVIOUS
  <2>1. CASE Next
    BY <2>1, TypeNext, JobsNext, EntriesNext DEF IInv
  <2>2. CASE UNCHANGED vars
    <3>0. UNCHANGED <<remote, disk, file, group, job, seeded, raced, torn, failures>>
      BY <2>2 DEF vars, steam, history, mishaps
    <3>1. TypeOK' /\ Bounded' /\ RecordedIsFetched'
      BY <3>0 DEF IInv, TypeOK, Bounded, RecordedIsFetched, Unsure
    <3>2. \A t \in Thread : Sane(t)' /\ Sound(t)'
      BY <3>0 DEF IInv, Sane, Sound, Owing, Asks, Unsure
    <3>. QED
      BY <3>1, <3>2 DEF IInv
  <2>. QED
    BY <2>1, <2>2
<1>. QED
  BY IInvInit, <1>1, PTL DEF Spec

\* The type invariant: entries, content and versions within the bounds, calls well-formed.
THEOREM TypeCorrect == Spec => []TypeOK
<1>1. IInv => TypeOK
  BY DEF IInv
<1>. QED
  BY <1>1, Invariance, PTL

(***************************************************************************)
(* However checks, groups and starts interleave, fail and die, whatever    *)
(* SteamCMD fetches and whenever Steam publishes: an entry claims a        *)
(* version newer than the content only if it was a first entry, written    *)
(* without a download, or took a version published during one.             *)
(***************************************************************************)
THEOREM EntriesAreFetched == Spec => []RecordedIsFetched
<1>1. IInv => RecordedIsFetched
  BY DEF IInv
<1>. QED
  BY <1>1, Invariance, PTL

(***************************************************************************)
(* With the same two exceptions a start goes on only with the updates that *)
(* its check found, whoever fetched them.                                  *)
(***************************************************************************)
THEOREM StartsAreCurrent == Spec => []ReadyIsCurrent
<1>1. IInv => ReadyIsCurrent
  BY DEF IInv, ReadyIsCurrent, Sound, At, Thread
<1>. QED
  BY <1>1, Invariance, PTL

(***************************************************************************)
(* Threads that write entries of different mods do not lose each other's:  *)
(* only a death or a failed access to the file loses some.                 *)
(***************************************************************************)
THEOREM NoEntryLost == Spec => EntriesKept
<1>1. IInv /\ [Next]_vars
        => [\A m \in Mod : file[m] # Missing => file'[m] # Missing \/ failures' # failures]_vars
  <2>. SUFFICES ASSUME IInv, Next, NEW m \in Mod, file[m] # Missing
                PROVE  file'[m] # Missing \/ failures' # failures
    OBVIOUS
  <2>1. file \in [Mod -> Nat] /\ failures \in Nat
    BY Types DEF IInv
  <2>2. ASSUME NEW t \in Thread, WriteEntry(t), job[t].pc \in {"seed", "record"}
        PROVE  file'[m] # Missing \/ failures' # failures
    <3>1. job[t].cur \in Mod /\ job[t].answer # Missing
      BY <2>2, Known DEF Sane
    <3>2. Mishap(TRUE) => failures' # failures
      BY <2>1 DEF Mishap
    <3>. QED
      BY <2>1, <2>2, <3>1, <3>2, Written
  <2>3. failures' = failures + 1 => failures' # failures
    BY <2>1
  <2>. QED
    BY <2>2, <2>3, EntryNext DEF EntryStep
<1>. QED
  BY <1>1, Invariance, PTL DEF Spec, EntriesKept
=============================================================================
