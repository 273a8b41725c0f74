--------------------------- MODULE ModGroupsProofs ---------------------------
(***************************************************************************)
(* Theorems about ModGroups, for all servers and bounds.                   *)
(***************************************************************************)
EXTENDS ModGroups, SequenceTheorems, TLAPS

Place == {"sleep", "next", "acquire", "stop", "download", "start"}

Group == [servers : SUBSET Server, wasRunning : SUBSET Server, due : BOOLEAN, since : 0 .. MaxGroups]

Check == [servers : SUBSET Server, ask : SUBSET Server, up : SUBSET Server, since : 0 .. MaxGroups]

Recorded(c) == [servers |-> check[c].servers, wasRunning |-> check[c].up, due |-> FALSE,
                since |-> check[c].since]

(***************************************************************************)
(* The inductive invariant.  Ids grow along both lists, so each is at      *)
(* least its place: neither list outgrows the number of groups scheduled.  *)
(***************************************************************************)
Ordered(q) ==
  /\ \A a, b \in 1 .. Len(q) : a < b => q[a] < q[b]
  /\ \A k \in 1 .. Len(q) : k <= q[k] /\ q[k] <= scheduled

\* What the loop has passed is finished or kept, and only that is kept.
Passed ==
  /\ next <= Len(modGroups) + 1
  /\ pc \notin {"sleep", "next"} => next <= Len(modGroups)
  /\ \A a \in 1 .. Len(pending) : \E k \in 1 .. next - 1 : pending[a] = modGroups[k]
  /\ \A k \in 1 .. next - 1 :
       modGroups[k] \in finished \/ \E a \in 1 .. Len(pending) : pending[a] = modGroups[k]

Lists == Ordered(modGroups) /\ Ordered(pending) /\ Passed

\* NoGroupLost, by places in the list.
Kept ==
  \A i \in 1 .. scheduled : i \in finished \/ \E k \in 1 .. Len(modGroups) : modGroups[k] = i

\* OverlapsOnlyByRace, by places, and the same of the servers a check is about to schedule.
Disjoint ==
  /\ \A k, l \in 1 .. Len(modGroups) :
       k # l /\ modGroups[k] <= group[modGroups[l]].since
         => group[modGroups[k]].servers \cap group[modGroups[l]].servers = {}
  /\ \A c \in ModCheck, k \in 1 .. Len(modGroups) :
       modGroups[k] <= check[c].since => check[c].servers \cap group[modGroups[k]].servers = {}

\* Servers a check found up are of its component, and nobody has seen a group to come.
Checked ==
  /\ \A c \in ModCheck :
       check[c].up \subseteq check[c].servers /\ check[c].ask \subseteq check[c].servers
  /\ \A c \in ModCheck : check[c].since <= scheduled
  /\ \A i \in Id : group[i].wasRunning \subseteq group[i].servers
  /\ \A i \in Id : group[i].since <= scheduled

\* While it takes locks the task has those it passed.
Acquiring ==
  pc = "acquire" => todo \subseteq Members /\ \A s \in Members \ todo : lock[s] = Tick

\* Without an abort every server found up is stopped; those are yet to start or were started.
Owed ==
  /\ pc \in {"stop", "download"} => started = {}
  /\ pc = "stop" => todo \subseteq WasRunning /\ stopped \subseteq WasRunning
  /\ pc = "stop" /\ ~abort => WasRunning \subseteq todo \cup stopped
  /\ pc = "download" => stopped = WasRunning
  /\ pc = "start" => stopped = todo \cup started

IInv ==
  /\ TypeOK
  /\ Lists
  /\ Kept
  /\ Disjoint
  /\ Checked
  /\ Acquiring
  /\ LockedAllOrNone
  /\ Owed

-----------------------------------------------------------------------------
\* What is in a list of ids.
LEMMA ListType ==
  ASSUME NEW q \in Seq(Id)
  PROVE  /\ Len(q) \in Nat /\ DOMAIN q = 1 .. Len(q)
         /\ \A k \in 1 .. Len(q) : q[k] \in Id /\ q[k] \in Nat
         /\ Range(q) = {q[k] : k \in 1 .. Len(q)}
  BY LenProperties, ElementOfSeq, RangeEquality, BoundAssumption DEF Id

\* What is in _mod_groups, as a set and by places.
LEMMA ListRange ==
  ASSUME TypeOK
  PROVE  /\ \A i \in Range(modGroups) : i \in Id
         /\ \A k \in 1 .. Len(modGroups) : modGroups[k] \in Range(modGroups)
<1>1. modGroups \in Seq(Id)
  BY DEF TypeOK
<1>. QED
  BY <1>1, ListType

\* A list gets one more id at its end.
LEMMA ListAppend ==
  ASSUME NEW q \in Seq(Id), NEW e \in Id
  PROVE  /\ Append(q, e) \in Seq(Id)
         /\ Len(Append(q, e)) = Len(q) + 1
         /\ \A k \in 1 .. Len(q) : Append(q, e)[k] = q[k]
         /\ Append(q, e)[Len(q) + 1] = e
  BY AppendProperties

\* An ordered list is no longer than the groups scheduled.
LEMMA ListBounded ==
  ASSUME TypeOK, NEW q \in Seq(Id), Ordered(q)
  PROVE  Len(q) <= scheduled
<1>1. Len(q) \in Nat /\ scheduled \in Nat
  BY ListType, BoundAssumption DEF TypeOK
<1>2. CASE Len(q) = 0
  BY <1>1, <1>2
<1>3. CASE Len(q) # 0
  <2>1. Len(q) \in 1 .. Len(q)
    BY <1>1, <1>3
  <2>2. Len(q) <= q[Len(q)] /\ q[Len(q)] <= scheduled
    BY <2>1 DEF Ordered
  <2>3. q[Len(q)] \in Nat
    BY <2>1, ListType
  <2>. QED
    BY <1>1, <2>2, <2>3
<1>. QED
  BY <1>2, <1>3

\* The group in hand is one of the list.
LEMMA CurrentId ==
  ASSUME TypeOK, next <= Len(modGroups)
  PROVE  /\ Current \in Id
         /\ Members \subseteq Server
         /\ WasRunning \subseteq Server
<1>1. next \in 1 .. Len(modGroups)
  BY ListType, BoundAssumption DEF TypeOK
<1>2. Current \in Id
  BY <1>1, ListType DEF TypeOK, Current
<1>. QED
  BY <1>2 DEF TypeOK, Members, WasRunning

\* The loop keeps the group in hand and goes on.
LEMMA KeepTypes ==
  ASSUME TypeOK, Lists, next <= Len(modGroups), Keep
  PROVE  pending' \in Seq(Id) /\ next' \in 1 .. MaxGroups + 1 /\ pc' \in Place
<1>1. Len(modGroups) <= scheduled
  BY ListBounded DEF TypeOK, Lists
<1>2. Current \in Id
  BY CurrentId
<1>3. pending' = Append(pending, Current) /\ next' = next + 1 /\ pc' = "next"
  BY DEF Keep, Go
<1>4. Len(modGroups) \in Nat /\ next \in Nat /\ scheduled \in Nat /\ scheduled <= MaxGroups /\ 1 <= next
  BY ListType, BoundAssumption DEF TypeOK
<1>5. pending' \in Seq(Id)
  BY <1>2, <1>3, ListAppend DEF TypeOK
<1>6. next' \in 1 .. MaxGroups + 1
  BY <1>1, <1>3, <1>4, BoundAssumption
<1>. QED
  BY <1>3, <1>5, <1>6 DEF Place

\* A check touches its own record only.
LEMMA CheckTypes ==
  ASSUME TypeOK, NEW c \in ModCheck, NEW r \in Check, check' = [check EXCEPT ![c] = r]
  PROVE  /\ check' \in [ModCheck -> Check]
         /\ \A d \in ModCheck : check'[d] = IF d = c THEN r ELSE check[d]
  BY DEF TypeOK, Check

\* What CheckBegin records.
LEMMA BeginRecord ==
  ASSUME TypeOK, NEW C \in SUBSET Server
  PROVE  [servers |-> C, ask |-> C, up |-> {}, since |-> scheduled] \in Check
  BY BoundAssumption DEF TypeOK, Check

\* No check under way.
LEMMA NoCheckType == NoCheck \in Check
<1>1. 0 \in 0 .. MaxGroups
  BY BoundAssumption
<1>. QED
  BY <1>1 DEF NoCheck, Check

\* One answer of is_running.
LEMMA AskRecord ==
  ASSUME TypeOK, NEW c \in ModCheck, CheckAsk(c)
  PROVE  \E r \in Check :
           /\ check' = [check EXCEPT ![c] = r]
           /\ r.servers = check[c].servers /\ r.since = check[c].since
           /\ r.ask \subseteq check[c].ask /\ r.up \subseteq check[c].up \cup check[c].ask
<1>1. PICK s \in check[c].ask :
        check' = [check EXCEPT ![c].ask = @ \ {s}, ![c].up = @ \cup ({s} \cap up)]
  BY DEF CheckAsk
<1> DEFINE r == [check[c] EXCEPT !.ask = @ \ {s}, !.up = @ \cup ({s} \cap up)]
<1>2. check[c] \in Check /\ up \subseteq Server /\ check \in [ModCheck -> Check]
  BY DEF TypeOK, Check
<1>3. /\ r \in Check /\ r.servers = check[c].servers /\ r.since = check[c].since
      /\ r.ask \subseteq check[c].ask /\ r.up \subseteq check[c].up \cup check[c].ask
  BY <1>1, <1>2 DEF Check
<1>4. check' = [check EXCEPT ![c] = r]
  BY <1>1, <1>2
<1>. QED
  BY <1>3, <1>4

\* Every step keeps the types.
LEMMA TypeNext == IInv /\ Next => TypeOK'
<1> SUFFICES ASSUME IInv, Next PROVE TypeOK'
  OBVIOUS
<1> USE OwnerAssumption, BoundAssumption DEF world, plans, loop, work
<1>0. TypeOK /\ Lists
  BY DEF IInv
<1>. USE DEF TypeOK
<1>a. ASSUME check' \in [ModCheck -> Check], UNCHANGED <<world, lock, pc, loop, work, finished>>,
             UNCHANGED <<modGroups, group, scheduled>>
      PROVE  TypeOK'
  BY <1>0, <1>a DEF Check
<1>1. ASSUME NEW c \in ModCheck, CheckBegin(c) PROVE TypeOK'
  <2>1. PICK C \in SUBSET config : check' = [check EXCEPT ![c] = [servers |-> C, ask |-> C, up |-> {},
                                                                  since |-> scheduled]]
    BY <1>1 DEF CheckBegin
  <2>2. check' \in [ModCheck -> Check]
    BY <1>0, <2>1, BeginRecord, CheckTypes
  <2>. QED
    BY <1>1, <1>a, <2>2 DEF CheckBegin
<1>2. ASSUME NEW c \in ModCheck, CheckAsk(c) PROVE TypeOK'
  <2>1. check' \in [ModCheck -> Check]
    BY <1>0, <1>2, AskRecord, CheckTypes
  <2>. QED
    BY <1>2, <1>a, <2>1 DEF CheckAsk
<1>3. ASSUME NEW c \in ModCheck, CheckEnd(c) \/ CheckCancelled(c) PROVE TypeOK'
  <2>1. check' \in [ModCheck -> Check]
    BY <1>0, <1>3, NoCheckType, CheckTypes DEF CheckEnd, CheckCancelled
  <2>2. CASE UNCHANGED <<modGroups, group, scheduled>>
    BY <1>3, <1>a, <2>1, <2>2 DEF CheckEnd, CheckCancelled
  <2>3. CASE CheckEnd(c) /\ ~UNCHANGED <<modGroups, group, scheduled>>
    <3>1. scheduled' = scheduled + 1 /\ scheduled' \in Id /\ scheduled' \in 0 .. MaxGroups
      BY <1>0, <2>3 DEF CheckEnd, Id
    <3>2. modGroups' \in Seq(Id)
      <4>1. modGroups' = Append(modGroups, scheduled') /\ modGroups \in Seq(Id)
        BY <1>0, <2>3 DEF CheckEnd
      <4>. QED
        BY <3>1, <4>1, ListAppend
    <3>3. Recorded(c) \in Group
      BY <1>0 DEF Recorded, Group
    <3>4. group' = [group EXCEPT ![scheduled'] = Recorded(c)]
      BY <2>3 DEF CheckEnd, Recorded
    <3>5. group' \in [Id -> Group]
      BY <1>0, <3>3, <3>4 DEF Group
    <3>. QED
      BY <1>0, <2>1, <2>3, <3>1, <3>2, <3>5 DEF CheckEnd, Check, Group
  <2>. QED
    BY <1>3, <2>2, <2>3 DEF CheckCancelled
<1>4. CASE GroupDue
  <2>1. PICK i \in Range(modGroups) : group' = [group EXCEPT ![i].due = TRUE]
    BY <1>4 DEF GroupDue
  <2>2. i \in Id
    BY <1>0, <2>1, ListRange
  <2>3. group' \in [Id -> Group]
    <3>1. group \in [Id -> Group]
      BY <1>0 DEF Group
    <3>2. [group[i] EXCEPT !.due = TRUE] \in Group
      BY <2>2, <3>1 DEF Group
    <3>3. group' = [group EXCEPT ![i] = [group[i] EXCEPT !.due = TRUE]]
      BY <2>1, <2>2, <3>1
    <3>. QED
      BY <2>2, <3>1, <3>2, <3>3
  <2>. QED
    BY <1>0, <1>4, <2>3 DEF GroupDue, Group
<1>5. CASE TickBegin
  <2>1. << >> \in Seq(Id) /\ 1 \in 1 .. MaxGroups + 1
    OBVIOUS
  <2>. QED
    BY <1>0, <1>5, <2>1 DEF TickBegin, Go
<1>6. CASE NotDue
  BY <1>0, <1>6, KeepTypes DEF NotDue, Place
<1>7. CASE Poisoned \/ TickEnd \/ SyncRaises
  <2>1. << >> \in Seq(Id) /\ 1 \in 1 .. MaxGroups + 1
    OBVIOUS
  <2>2. CASE Poisoned
    BY <1>0, <2>1, <2>2 DEF Poisoned, LoopOver, Go
  <2>3. CASE TickEnd
    BY <1>0, <2>1, <2>3 DEF TickEnd, LoopOver, Go
  <2>4. CASE SyncRaises
    BY <1>0, <2>1, <2>4 DEF SyncRaises, LoopOver, WorkOver, LocksReleased, Go
  <2>. QED
    BY <1>7, <2>2, <2>3, <2>4
<1>8. CASE Take
  <2>1. CASE Keep /\ UNCHANGED todo
    BY <1>0, <1>8, <2>1, KeepTypes DEF Take, Place
  <2>2. CASE todo' = Members /\ Go("acquire") /\ UNCHANGED <<next, pending>>
    BY <1>0, <1>8, <2>2, CurrentId DEF Take, Go
  <2>. QED
    BY <1>8, <2>1, <2>2, Zenon DEF Take
<1>9. CASE Dropped
  <2>1. Len(modGroups) <= scheduled /\ Len(modGroups) \in Nat
    BY <1>0, ListBounded, ListType DEF Lists
  <2>2. next' \in 1 .. MaxGroups + 1
    BY <1>0, <1>9, <2>1 DEF Dropped
  <2>3. Current \in Id
    BY <1>0, <1>9, CurrentId DEF Dropped
  <2>. QED
    BY <1>0, <1>9, <2>2, <2>3 DEF Dropped
<1>10. CASE Acquire
  <2>1. next <= Len(modGroups)
    BY <1>0, <1>10 DEF Acquire, Lists, Passed
  <2>2. PICK s \in todo :
          \/ /\ lock[s] = NoOwner
             /\ lock' = [lock EXCEPT ![s] = Tick]
             /\ todo' = todo \ {s}
             /\ UNCHANGED <<pc, next, pending>>
          \/ /\ lock[s] # NoOwner
             /\ LocksReleased
             /\ todo' = {}
             /\ Keep
    BY <1>10, Zenon DEF Acquire
  <2>3. CASE todo' = todo \ {s} /\ lock' = [lock EXCEPT ![s] = Tick] /\ UNCHANGED <<pc, next, pending>>
    BY <1>0, <1>10, <2>3 DEF Acquire
  <2>4. CASE LocksReleased /\ todo' = {} /\ Keep
    BY <1>0, <1>10, <2>1, <2>4, KeepTypes DEF Acquire, LocksReleased, Place
  <2>. QED
    BY <2>2, <2>3, <2>4, Zenon
<1>11. CASE Acquired
  BY <1>0, <1>11, CurrentId DEF Acquired, Go, Lists, Passed
<1>12. CASE StopOne
  BY <1>0, <1>12 DEF StopOne
<1>13. CASE StopsDone
  BY <1>0, <1>13 DEF StopsDone, Go
<1>14. CASE Download
  BY <1>0, <1>14, CurrentId DEF Download, Go, Lists, Passed
<1>15. CASE StartOne
  BY <1>0, <1>15 DEF StartOne
<1>16. CASE GroupDone
  <2>0. next <= Len(modGroups)
    BY <1>0, <1>16 DEF GroupDone, Lists, Passed
  <2>1. Len(modGroups) <= scheduled /\ Len(modGroups) \in Nat
    BY <1>0, ListBounded, ListType DEF Lists
  <2>2. next' \in 1 .. MaxGroups + 1
    BY <1>0, <1>16, <2>0, <2>1 DEF GroupDone
  <2>3. Current \in Id
    BY <1>0, <2>0, CurrentId
  <2>. QED
    BY <1>0, <1>16, <2>2, <2>3 DEF GroupDone, LocksReleased, WorkOver, Go
<1>17. CASE OtherAcquires
  BY <1>0, <1>17 DEF OtherAcquires
<1>18. CASE OtherReleases
  BY <1>0, <1>18 DEF OtherReleases
<1>19. CASE GoesDown
  BY <1>0, <1>19 DEF GoesDown
<1>20. CASE RemoveServer
  BY <1>0, <1>20 DEF RemoveServer
<1>. QED
  BY <1>1, <1>2, <1>3, <1>4, <1>5, <1>6, <1>7, <1>8, <1>9, <1>10, <1>11, <1>12, <1>13, <1>14, <1>15,
     <1>16, <1>17, <1>18, <1>19, <1>20, Zenon DEF Next

\* Keeping the group in hand moves the loop one place on.
LEMMA KeepLists ==
  ASSUME TypeOK, Lists, next <= Len(modGroups), Keep,
         UNCHANGED <<modGroups, scheduled, finished>>
  PROVE  Lists'
<1> DEFINE n == Len(pending)
<1>1. /\ Len(modGroups) \in Nat /\ n \in Nat /\ scheduled \in Nat /\ next \in Nat /\ 1 <= next
      /\ next \in 1 .. Len(modGroups)
  BY ListType, BoundAssumption DEF TypeOK
<1>2. /\ \A k \in 1 .. Len(modGroups) : modGroups[k] \in Nat
      /\ \A a \in 1 .. n : pending[a] \in Nat
      /\ Current \in Id /\ Current \in Nat /\ Current = modGroups[next]
  BY <1>1, ListType DEF TypeOK, Current
<1>3. pc' = "next" /\ next' = next + 1 /\ pending' = Append(pending, Current)
  BY DEF Keep, Go
<1>4. Len(pending') = n + 1 /\ (\A a \in 1 .. n : pending'[a] = pending[a]) /\ pending'[n + 1] = Current
  BY <1>2, <1>3, ListAppend DEF TypeOK
<1>5. ASSUME NEW a \in 1 .. n PROVE pending[a] < Current
  <2>1. PICK k \in 1 .. next - 1 : pending[a] = modGroups[k]
    BY DEF Lists, Passed
  <2>2. k \in 1 .. Len(modGroups) /\ k < next
    BY <1>1, <2>1
  <2>. QED
    BY <1>1, <1>2, <2>1, <2>2 DEF Lists, Ordered
<1>6. n + 1 <= Current /\ Current <= scheduled
  <2>1. Current <= scheduled /\ 1 <= Current
    BY <1>1, <1>2 DEF Lists, Ordered
  <2>2. CASE n = 0
    BY <2>1, <2>2
  <2>3. CASE n # 0
    <3>1. n \in 1 .. n
      BY <1>1, <2>3
    <3>2. n <= pending[n] /\ pending[n] < Current
      BY <1>5, <3>1 DEF Lists, Ordered
    <3>. QED
      BY <1>1, <1>2, <2>1, <3>1, <3>2
  <2>. QED
    BY <2>2, <2>3
<1>7. Ordered(pending)'
  <2>1. ASSUME NEW a \in 1 .. n + 1, NEW b \in 1 .. n + 1, a < b PROVE pending'[a] < pending'[b]
    <3>1. a \in 1 .. n
      BY <1>1, <2>1
    <3>2. CASE b = n + 1
      BY <1>4, <1>5, <3>1, <3>2
    <3>3. CASE b # n + 1
      <4>1. b \in 1 .. n
        BY <1>1, <3>3
      <4>. QED
        BY <1>4, <2>1, <3>1, <4>1 DEF Lists, Ordered
    <3>. QED
      BY <3>2, <3>3
  <2>2. ASSUME NEW k \in 1 .. n + 1 PROVE k <= pending'[k] /\ pending'[k] <= scheduled
    <3>1. CASE k = n + 1
      BY <1>4, <1>6, <3>1
    <3>2. CASE k # n + 1
      <4>1. k \in 1 .. n
        BY <1>1, <3>2
      <4>. QED
        BY <1>4, <4>1 DEF Lists, Ordered
    <3>. QED
      BY <3>1, <3>2
  <2>. QED
    BY <1>4, <2>1, <2>2 DEF Ordered
<1>8. Ordered(modGroups)'
  BY DEF Lists, Ordered
<1>9. Passed'
  <2>1. next' <= Len(modGroups) + 1
    BY <1>1, <1>3
  <2>2. ASSUME NEW a \in 1 .. n + 1 PROVE \E k \in 1 .. next : pending'[a] = modGroups[k]
    <3>1. CASE a = n + 1
      BY <1>1, <1>2, <1>4, <3>1
    <3>2. CASE a # n + 1
      <4>1. a \in 1 .. n
        BY <1>1, <3>2
      <4>2. PICK k \in 1 .. next - 1 : pending[a] = modGroups[k]
        BY <4>1 DEF Lists, Passed
      <4>3. k \in 1 .. next
        BY <1>1
      <4>. QED
        BY <1>4, <4>1, <4>2, <4>3
    <3>. QED
      BY <3>1, <3>2
  <2>3. ASSUME NEW k \in 1 .. next
        PROVE  modGroups[k] \in finished \/ \E a \in 1 .. n + 1 : pending'[a] = modGroups[k]
    <3>1. CASE k = next
      BY <1>1, <1>2, <1>4, <3>1
    <3>2. CASE k # next
      <4>1. k \in 1 .. next - 1
        BY <1>1, <3>2
      <4>2. modGroups[k] \in finished \/ \E a \in 1 .. n : pending[a] = modGroups[k]
        BY <4>1 DEF Lists, Passed
      <4>3. \A a \in 1 .. n : a \in 1 .. n + 1
        BY <1>1
      <4>. QED
        BY <1>4, <4>2, <4>3
    <3>. QED
      BY <3>1, <3>2
  <2>4. next' - 1 = next
    BY <1>1, <1>3
  <2>5. UNCHANGED <<modGroups, finished>> /\ pc' = "next" /\ Len(pending') = n + 1
    BY <1>3, <1>4
  <2>6. \A a \in 1 .. Len(pending') : \E k \in 1 .. next' - 1 : pending'[a] = modGroups[k]
    BY <2>2, <2>4, <2>5
  <2>7. \A k \in 1 .. next' - 1 :
          modGroups[k] \in finished' \/ \E a \in 1 .. Len(pending') : pending'[a] = modGroups[k]
    BY <2>3, <2>4, <2>5
  <2>. QED
    BY <2>1, <2>5, <2>6, <2>7, Zenon DEF Passed
<1>. QED
  BY <1>7, <1>8, <1>9 DEF Lists

\* Finishing the group in hand moves the loop one place on.
LEMMA FinishLists ==
  ASSUME TypeOK, Lists, next <= Len(modGroups), next' = next + 1, pc' = "next",
         finished' = finished \cup {Current},
         UNCHANGED <<modGroups, scheduled, pending>>
  PROVE  Lists'
<1>1. /\ Len(modGroups) \in Nat /\ next \in Nat /\ 1 <= next
  BY ListType, BoundAssumption DEF TypeOK
<1>2. Ordered(modGroups)' /\ Ordered(pending)'
  BY DEF Lists, Ordered
<1>3. \A a \in 1 .. Len(pending) : \E k \in 1 .. next' - 1 : pending[a] = modGroups[k]
  <2>1. \A k \in 1 .. next - 1 : k \in 1 .. next' - 1
    BY <1>1
  <2>. QED
    BY <2>1 DEF Lists, Passed
<1>4. ASSUME NEW k \in 1 .. next' - 1
      PROVE  modGroups[k] \in finished' \/ \E a \in 1 .. Len(pending) : pending[a] = modGroups[k]
  <2>1. CASE k = next
    BY <2>1 DEF Current
  <2>2. CASE k # next
    <3>1. k \in 1 .. next - 1
      BY <1>1, <2>2
    <3>. QED
      BY <3>1 DEF Lists, Passed
  <2>. QED
    BY <2>1, <2>2
<1>5. Passed'
  BY <1>1, <1>3, <1>4 DEF Passed
<1>. QED
  BY <1>2, <1>5 DEF Lists

\* A loop that is over or begins has passed nothing.
LEMMA RestartLists ==
  ASSUME TypeOK, Lists, next' = 1, pending' = << >>, pc' \in {"sleep", "next"},
         modGroups' \in {modGroups, pending}, UNCHANGED scheduled
  PROVE  Lists'
<1>1. modGroups' \in Seq(Id)
  BY DEF TypeOK
<1>2. Len(modGroups') \in Nat
  BY <1>1, ListType
<1>3. Ordered(modGroups)' /\ Ordered(pending)'
  BY DEF Lists, Ordered
<1>4. Passed'
  BY <1>2 DEF Passed
<1>. QED
  BY <1>3, <1>4 DEF Lists

\* The loop passes each place once, and a list that grows meanwhile grows at its end.
LEMMA ListsNext == IInv /\ Next => Lists'
<1> SUFFICES ASSUME IInv, Next PROVE Lists'
  OBVIOUS
<1>0. TypeOK /\ Lists
  BY DEF IInv
<1> USE <1>0 DEF world, plans, loop, work
<1>a. ASSUME UNCHANGED <<modGroups, scheduled, next, pending, finished>>,
             pc' \in {"sleep", "next"} \/ next <= Len(modGroups)
      PROVE  Lists'
  BY <1>a DEF Lists, Ordered, Passed
<1>b. pc \notin {"sleep", "next"} => next <= Len(modGroups)
  BY DEF Lists, Passed
<1>c. ASSUME UNCHANGED <<modGroups, scheduled, next, pending, finished, pc>>
      PROVE  Lists'
  BY <1>c DEF Lists, Ordered, Passed
<1>d. ASSUME NEW c \in ModCheck, CheckBegin(c) \/ CheckAsk(c) \/ CheckCancelled(c) PROVE Lists'
  BY <1>c, <1>d DEF CheckBegin, CheckAsk, CheckCancelled
<1>1. CASE GroupDue \/ StopOne \/ StartOne \/ OtherAcquires \/ OtherReleases \/ GoesDown \/ RemoveServer
  BY <1>1, <1>c DEF GroupDue, StopOne, StartOne, OtherAcquires, OtherReleases,
                    GoesDown, RemoveServer
<1>2. ASSUME NEW c \in ModCheck, CheckEnd(c) PROVE Lists'
  <2>1. CASE UNCHANGED <<modGroups, group, scheduled>>
    BY <1>2, <2>1, <1>c DEF CheckEnd
  <2>2. CASE scheduled' = scheduled + 1 /\ modGroups' = Append(modGroups, scheduled')
    <3> DEFINE n == Len(modGroups)
    <3>1. scheduled' \in Id /\ scheduled \in Nat
      BY <1>2, <2>2, BoundAssumption DEF CheckEnd, Id, TypeOK
    <3>2. /\ Len(modGroups') = n + 1 /\ (\A k \in 1 .. n : modGroups'[k] = modGroups[k])
          /\ modGroups'[n + 1] = scheduled'
      BY <2>2, <3>1, ListAppend DEF TypeOK
    <3>3. n <= scheduled /\ n \in Nat
      BY ListBounded, ListType DEF TypeOK, Lists
    <3>4. \A k \in 1 .. n : modGroups[k] \in Nat
      BY ListType DEF TypeOK
    <3>5. Ordered(modGroups)'
      <4>1. ASSUME NEW a \in 1 .. n + 1, NEW b \in 1 .. n + 1, a < b PROVE modGroups'[a] < modGroups'[b]
        <5>1. a \in 1 .. n
          BY <3>3, <4>1
        <5>2. modGroups[a] <= scheduled
          BY <5>1 DEF Lists, Ordered
        <5>3. CASE b = n + 1
          BY <2>2, <3>1, <3>2, <3>4, <5>1, <5>2, <5>3
        <5>4. CASE b # n + 1
          <6>1. b \in 1 .. n
            BY <3>3, <5>4
          <6>. QED
            BY <3>2, <4>1, <5>1, <6>1 DEF Lists, Ordered
        <5>. QED
          BY <5>3, <5>4
      <4>2. ASSUME NEW k \in 1 .. n + 1 PROVE k <= modGroups'[k] /\ modGroups'[k] <= scheduled'
        <5>1. CASE k = n + 1
          BY <2>2, <3>1, <3>2, <3>3, <5>1
        <5>2. CASE k # n + 1
          <6>1. k \in 1 .. n
            BY <3>3, <5>2
          <6>2. k <= modGroups[k] /\ modGroups[k] <= scheduled
            BY <6>1 DEF Lists, Ordered
          <6>. QED
            BY <2>2, <3>1, <3>2, <3>4, <6>1, <6>2
        <5>. QED
          BY <5>1, <5>2
      <4>. QED
        BY <3>2, <4>1, <4>2 DEF Ordered
    <3>6. Ordered(pending)'
      <4>1. /\ pending' = pending /\ Ordered(pending)
            /\ \A k \in 1 .. Len(pending) : pending[k] \in Nat
        BY <1>2, ListType DEF CheckEnd, Lists, TypeOK
      <4>. QED
        BY <2>2, <3>1, <4>1 DEF Ordered
    <3>7. Passed'
      <4>1. next' = next /\ pending' = pending /\ finished' = finished /\ pc' = pc
        BY <1>2 DEF CheckEnd
      <4>2. next \in Nat /\ 1 <= next /\ next <= n + 1
        BY BoundAssumption DEF TypeOK, Lists, Passed
      <4>3. \A k \in 1 .. next - 1 : modGroups'[k] = modGroups[k]
        BY <3>2, <3>3, <4>2
      <4>. QED
        BY <3>2, <3>3, <4>1, <4>2, <4>3 DEF Lists, Passed
    <3>. QED
      BY <3>5, <3>6, <3>7 DEF Lists
  <2>. QED
    BY <1>2, <2>1, <2>2 DEF CheckEnd
<1>3. CASE TickBegin \/ Poisoned \/ TickEnd \/ SyncRaises
  BY <1>3, RestartLists DEF TickBegin, Poisoned, TickEnd, SyncRaises, LoopOver, Go
<1>4. CASE NotDue
  BY <1>4, KeepLists DEF NotDue
<1>5. CASE Take
  <2>1. CASE Keep
    BY <1>5, <2>1, KeepLists DEF Take
  <2>2. CASE UNCHANGED <<next, pending>>
    BY <1>5, <2>2, <1>a DEF Take
  <2>. QED
    BY <1>5, <2>1, <2>2, Zenon DEF Take
<1>6. CASE Dropped
  BY <1>6, FinishLists DEF Dropped
<1>7. CASE Acquire
  <2>1. UNCHANGED <<modGroups, scheduled, finished>> /\ next <= Len(modGroups)
    BY <1>7, <1>b DEF Acquire
  <2>2. CASE Keep
    BY <2>1, <2>2, KeepLists
  <2>3. CASE UNCHANGED <<pc, next, pending>>
    BY <2>1, <2>3, <1>c
  <2>. QED
    BY <1>7, <2>2, <2>3, Zenon DEF Acquire
<1>8. CASE Acquired \/ StopsDone \/ Download
  BY <1>8, <1>a, <1>b DEF Acquired, StopsDone, Download
<1>9. CASE GroupDone
  BY <1>9, <1>b, FinishLists DEF GroupDone, Go
<1>. QED
  BY <1>d, <1>1, <1>2, <1>3, <1>4, <1>5, <1>6, <1>7, <1>8, <1>9, Zenon DEF Next

\* An id leaves the list only when the loop has passed the whole list, and then only if finished.
LEMMA KeptNext == IInv /\ Next => Kept'
<1> SUFFICES ASSUME IInv, Next PROVE Kept'
  OBVIOUS
<1> USE DEF world, plans, loop, work
<1>0. TypeOK /\ Lists /\ Kept
  BY DEF IInv
<1>a. ASSUME UNCHANGED <<modGroups, scheduled>>, finished \subseteq finished' PROVE Kept'
  BY <1>0, <1>a DEF Kept
<1>1. ASSUME NEW c \in ModCheck, CheckEnd(c) PROVE Kept'
  <2>1. CASE UNCHANGED <<modGroups, group, scheduled>>
    BY <1>1, <2>1, <1>a DEF CheckEnd
  <2>2. CASE scheduled' = scheduled + 1 /\ modGroups' = Append(modGroups, scheduled')
    <3> DEFINE n == Len(modGroups)
    <3>1. scheduled' \in Id /\ scheduled \in Nat /\ n \in Nat
      BY <1>0, <1>1, <2>2, ListType, BoundAssumption DEF CheckEnd, Id, TypeOK
    <3>2. /\ Len(modGroups') = n + 1 /\ (\A k \in 1 .. n : modGroups'[k] = modGroups[k])
          /\ modGroups'[n + 1] = scheduled'
      BY <1>0, <2>2, <3>1, ListAppend DEF TypeOK
    <3>3. n + 1 \in 1 .. n + 1 /\ \A k \in 1 .. n : k \in 1 .. n + 1
      BY <3>1
    <3>4. ASSUME NEW i \in 1 .. scheduled'
          PROVE  i \in finished' \/ \E k \in 1 .. n + 1 : modGroups'[k] = i
      <4>1. CASE i = scheduled'
        BY <3>2, <3>3, <4>1
      <4>2. CASE i # scheduled'
        <5>1. i \in 1 .. scheduled
          BY <2>2, <3>1, <4>2
        <5>. QED
          BY <1>0, <1>1, <3>2, <3>3, <5>1 DEF Kept, CheckEnd
      <4>. QED
        BY <4>1, <4>2
    <3>. QED
      BY <3>2, <3>4 DEF Kept
  <2>. QED
    BY <1>1, <2>1, <2>2 DEF CheckEnd
<1>2. CASE TickEnd
  <2>1. modGroups' = pending /\ finished' = finished /\ scheduled' = scheduled /\ next > Len(modGroups)
    BY <1>2 DEF TickEnd
  <2>2. \A k \in 1 .. Len(modGroups) : k \in 1 .. next - 1
    BY <1>0, <2>1, ListType, BoundAssumption DEF TypeOK
  <2>. QED
    BY <1>0, <2>1, <2>2 DEF Kept, Lists, Passed
<1>3. CASE ~(\E c \in ModCheck : CheckEnd(c)) /\ ~TickEnd
  BY <1>3, <1>a DEF Next, CheckBegin, CheckAsk, CheckCancelled, GroupDue, TickBegin, NotDue, Poisoned, Take, Dropped,
     Acquire, Acquired, StopOne, StopsDone, Download, SyncRaises, StartOne, GroupDone, OtherAcquires,
     OtherReleases, GoesDown, RemoveServer
<1>. QED
  BY <1>1, <1>2, <1>3

\* A component that shares no server with the list is disjoint from it still when it is appended.
LEMMA DisjointNext == IInv /\ Next => Disjoint'
<1> SUFFICES ASSUME IInv, Next PROVE Disjoint'
  OBVIOUS
<1> USE DEF world, plans, loop, work
<1>0. TypeOK /\ Lists /\ Disjoint
  BY DEF IInv
<1>a. ASSUME NEW c \in ModCheck, NEW r \in Check, check' = [check EXCEPT ![c] = r],
             UNCHANGED <<modGroups, group>>,
             \A k \in 1 .. Len(modGroups) :
               modGroups[k] <= r.since => r.servers \cap group[modGroups[k]].servers = {}
      PROVE  Disjoint'
  <2>1. \A d \in ModCheck : check'[d] = IF d = c THEN r ELSE check[d]
    BY <1>0, <1>a, CheckTypes
  <2>2. ASSUME NEW d \in ModCheck, NEW k \in 1 .. Len(modGroups), modGroups[k] <= check'[d].since
        PROVE  check'[d].servers \cap group[modGroups[k]].servers = {}
    <3>1. CASE d = c
      <4>1. check'[d] = r
        BY <2>1, <3>1
      <4>. QED
        BY <1>a, <2>2, <4>1
    <3>2. CASE d # c
      <4>1. check'[d] = check[d]
        BY <2>1, <3>2
      <4>. QED
        BY <1>0, <2>2, <4>1 DEF Disjoint
    <3>. QED
      BY <3>1, <3>2
  <2>. QED
    BY <1>0, <1>a, <2>2 DEF Disjoint
<1>b. ASSUME NEW c \in ModCheck, check' = [check EXCEPT ![c] = NoCheck], UNCHANGED <<modGroups, group>>
      PROVE  Disjoint'
  BY <1>a, <1>b, NoCheckType DEF NoCheck
<1>1. ASSUME NEW c \in ModCheck, CheckBegin(c) PROVE Disjoint'
  <2>1. PICK C \in SUBSET config \ {{}} :
          /\ \A i \in Range(modGroups) : C \cap group[i].servers = {}
          /\ check' = [check EXCEPT ![c] = [servers |-> C, ask |-> C, up |-> {}, since |-> scheduled]]
    BY <1>1 DEF CheckBegin
  <2>2. \A k \in 1 .. Len(modGroups) : C \cap group[modGroups[k]].servers = {}
    BY <1>0, <2>1, ListRange
  <2>3. C \in SUBSET Server
    BY <1>0, <2>1 DEF TypeOK
  <2>. QED
    BY <1>0, <1>1, <1>a, <2>1, <2>2, <2>3, BeginRecord DEF CheckBegin
<1>2. ASSUME NEW c \in ModCheck, CheckAsk(c) PROVE Disjoint'
  <2>1. PICK r \in Check : /\ check' = [check EXCEPT ![c] = r]
                           /\ r.servers = check[c].servers /\ r.since = check[c].since
    BY <1>0, <1>2, AskRecord
  <2>2. modGroups' = modGroups /\ group' = group
    BY <1>2 DEF CheckAsk
  <2>3. \A k \in 1 .. Len(modGroups) :
          modGroups[k] <= r.since => r.servers \cap group[modGroups[k]].servers = {}
    BY <1>0, <2>1 DEF Disjoint
  <2>. QED
    BY <1>a, <2>1, <2>2, <2>3
<1>3. ASSUME NEW c \in ModCheck, CheckEnd(c) PROVE Disjoint'
  <2>0. check' = [check EXCEPT ![c] = NoCheck]
    BY <1>3 DEF CheckEnd
  <2>1. CASE UNCHANGED <<modGroups, group, scheduled>>
    BY <1>b, <2>0, <2>1
  <2>2. CASE /\ scheduled < MaxGroups
             /\ scheduled' = scheduled + 1
             /\ group' = [group EXCEPT ![scheduled'] = Recorded(c)]
             /\ modGroups' = Append(modGroups, scheduled')
    <3> DEFINE n == Len(modGroups)
    <3>1. scheduled' \in Id /\ scheduled \in Nat /\ n \in Nat
      BY <1>0, <2>2, ListType, BoundAssumption DEF Id, TypeOK
    <3>2. /\ Len(modGroups') = n + 1 /\ (\A k \in 1 .. n : modGroups'[k] = modGroups[k])
          /\ modGroups'[n + 1] = scheduled'
      BY <1>0, <2>2, <3>1, ListAppend DEF TypeOK
    <3>3. ASSUME NEW k \in 1 .. n
          PROVE  /\ modGroups'[k] = modGroups[k] /\ modGroups[k] \in Id
                 /\ group'[modGroups[k]] = group[modGroups[k]]
      <4>1. modGroups[k] \in Nat /\ modGroups[k] <= scheduled /\ modGroups[k] \in Id
        BY <1>0, ListType DEF TypeOK, Lists, Ordered
      <4>2. modGroups[k] # scheduled'
        BY <2>2, <3>1, <4>1
      <4>. QED
        BY <1>0, <2>2, <3>2, <4>1, <4>2 DEF TypeOK
    <3>4. group'[scheduled'].servers = check[c].servers /\ group'[scheduled'].since = check[c].since
      BY <1>0, <2>2, <3>1 DEF TypeOK, Recorded
    <3>5. /\ \A d \in ModCheck : check[d].since \in Nat /\ check[d].since <= scheduled
          /\ \A i \in Id : group[i].since \in Nat /\ group[i].since <= scheduled
      BY <1>0, BoundAssumption DEF IInv, TypeOK, Checked
    <3>6. ASSUME NEW k \in 1 .. n + 1, NEW l \in 1 .. n + 1, k # l,
                 modGroups'[k] <= group'[modGroups'[l]].since
          PROVE  group'[modGroups'[k]].servers \cap group'[modGroups'[l]].servers = {}
      <4>1. CASE k \in 1 .. n /\ l \in 1 .. n
        BY <1>0, <3>3, <3>6, <4>1 DEF Disjoint
      <4>2. CASE k = n + 1 /\ l \in 1 .. n
        <5>1. modGroups'[k] = scheduled + 1 /\ modGroups'[l] = modGroups[l]
          BY <2>2, <3>2, <3>3, <4>2
        <5>2. group'[modGroups'[l]].since \in Nat /\ group'[modGroups'[l]].since <= scheduled
          BY <3>3, <3>5, <4>2, <5>1
        <5>. QED
          BY <3>1, <3>6, <5>1, <5>2
      <4>3. CASE k \in 1 .. n /\ l = n + 1
        BY <1>0, <3>2, <3>3, <3>4, <3>6, <4>3 DEF Disjoint
      <4>. QED
        BY <3>1, <3>6, <4>1, <4>2, <4>3
    <3>7. \A d \in ModCheck : check'[d] = IF d = c THEN NoCheck ELSE check[d]
      BY <1>0, <2>0, NoCheckType, CheckTypes
    <3>8. ASSUME NEW d \in ModCheck, NEW k \in 1 .. n + 1, modGroups'[k] <= check'[d].since
          PROVE  check'[d].servers \cap group'[modGroups'[k]].servers = {}
      <4>1. CASE d = c
        BY <3>7, <4>1 DEF NoCheck
      <4>2. CASE d # c /\ k = n + 1
        BY <2>2, <3>1, <3>2, <3>5, <3>7, <3>8, <4>2
      <4>3. CASE d # c /\ k # n + 1
        <5>1. k \in 1 .. n
          BY <3>1, <4>3
        <5>. QED
          BY <1>0, <3>3, <3>7, <3>8, <4>3, <5>1 DEF Disjoint
      <4>. QED
        BY <4>1, <4>2, <4>3
    <3>. QED
      BY <3>2, <3>6, <3>8 DEF Disjoint
  <2>. QED
    BY <1>3, <2>1, <2>2 DEF CheckEnd, Recorded
<1>3c. ASSUME NEW c \in ModCheck, CheckCancelled(c) PROVE Disjoint'
  BY <1>b, <1>3c DEF CheckCancelled
<1>4. CASE GroupDue
  <2>1. PICK i \in Range(modGroups) : group' = [group EXCEPT ![i].due = TRUE]
    BY <1>4 DEF GroupDue
  <2>2. \A j \in Id : group'[j].servers = group[j].servers /\ group'[j].since = group[j].since
    BY <1>0, <2>1 DEF TypeOK
  <2>3. modGroups' = modGroups /\ check' = check
    BY <1>4 DEF GroupDue
  <2>4. \A k \in 1 .. Len(modGroups) :
          /\ group'[modGroups[k]].servers = group[modGroups[k]].servers
          /\ group'[modGroups[k]].since = group[modGroups[k]].since
    BY <1>0, <2>2, ListType DEF TypeOK
  <2>. QED
    BY <1>0, <2>3, <2>4, Zenon DEF Disjoint
<1>5. CASE TickEnd
  <2>1. modGroups' = pending /\ UNCHANGED <<group, check>>
    BY <1>5 DEF TickEnd
  <2>2. \A a \in 1 .. Len(pending) : \E k \in 1 .. Len(modGroups) : pending[a] = modGroups[k]
    <3>1. \A k \in 1 .. next - 1 : k \in 1 .. Len(modGroups)
      BY <1>0, ListType, BoundAssumption DEF TypeOK, Lists, Passed
    <3>. QED
      BY <1>0, <3>1 DEF Lists, Passed
  <2>3. ASSUME NEW a \in 1 .. Len(pending), NEW b \in 1 .. Len(pending), a # b,
               pending[a] <= group[pending[b]].since
        PROVE  group[pending[a]].servers \cap group[pending[b]].servers = {}
    <3>1. a < b \/ b < a
      BY <1>0, <2>3, ListType DEF TypeOK
    <3>2. pending[a] \in Nat /\ pending[b] \in Nat
      BY <1>0, ListType DEF TypeOK
    <3>3. pending[a] # pending[b]
      BY <1>0, <3>1, <3>2 DEF Lists, Ordered
    <3>. QED
      BY <1>0, <2>2, <2>3, <3>3 DEF Disjoint
  <2>. QED
    BY <1>0, <2>1, <2>2, <2>3 DEF Disjoint
<1>6. CASE UNCHANGED <<modGroups, group, check>>
  BY <1>0, <1>6 DEF Disjoint
<1>. QED
  BY <1>1, <1>2, <1>3, <1>3c, <1>4, <1>5, <1>6 DEF Next, TickBegin, NotDue, Poisoned, Take, Dropped,
     Acquire, Acquired, StopOne, StopsDone, Download, SyncRaises, StartOne, GroupDone, OtherAcquires,
     OtherReleases, GoesDown, RemoveServer

\* A check reports servers of its component, and looks before it appends.
LEMMA CheckedNext == IInv /\ Next => Checked'
<1> SUFFICES ASSUME IInv, Next PROVE Checked'
  OBVIOUS
<1> USE DEF world, plans, loop, work
<1>0. TypeOK /\ Checked
  BY DEF IInv
<1>b. scheduled \in Nat /\ \A c \in ModCheck : check[c].since \in Nat
  BY <1>0, BoundAssumption DEF TypeOK
<1>a. ASSUME NEW c \in ModCheck, NEW r \in Check, check' = [check EXCEPT ![c] = r],
             UNCHANGED <<group, scheduled>>,
             r.up \subseteq r.servers, r.ask \subseteq r.servers, r.since <= scheduled
      PROVE  Checked'
  <2>1. \A d \in ModCheck : check'[d] = IF d = c THEN r ELSE check[d]
    BY <1>0, <1>a, CheckTypes
  <2>. QED
    BY <1>0, <1>a, <2>1 DEF Checked
<1>1. ASSUME NEW c \in ModCheck, CheckBegin(c) PROVE Checked'
  <2>1. PICK C \in SUBSET config :
          check' = [check EXCEPT ![c] = [servers |-> C, ask |-> C, up |-> {}, since |-> scheduled]]
    BY <1>1 DEF CheckBegin
  <2>2. C \in SUBSET Server /\ UNCHANGED <<group, scheduled>>
    BY <1>0, <1>1, <2>1 DEF TypeOK, CheckBegin
  <2> DEFINE r == [servers |-> C, ask |-> C, up |-> {}, since |-> scheduled]
  <2>3. r \in Check
    BY <1>0, <2>2, BeginRecord
  <2>4. r.up \subseteq r.servers /\ r.ask \subseteq r.servers /\ r.since <= scheduled
    BY <1>b
  <2>. HIDE DEF r
  <2>5. check' = [check EXCEPT ![c] = r]
    BY <2>1 DEF r
  <2>. QED
    BY <1>a, <2>2, <2>3, <2>4, <2>5
<1>2. ASSUME NEW c \in ModCheck, CheckAsk(c) PROVE Checked'
  <2>1. PICK r \in Check :
          /\ check' = [check EXCEPT ![c] = r]
          /\ r.servers = check[c].servers /\ r.since = check[c].since
          /\ r.ask \subseteq check[c].ask /\ r.up \subseteq check[c].up \cup check[c].ask
    BY <1>0, <1>2, AskRecord
  <2>2. UNCHANGED <<group, scheduled>>
    BY <1>2 DEF CheckAsk
  <2>3. r.up \subseteq r.servers /\ r.ask \subseteq r.servers /\ r.since <= scheduled
    BY <1>0, <2>1 DEF Checked
  <2>. QED
    BY <1>a, <2>1, <2>2, <2>3
<1>3. ASSUME NEW c \in ModCheck, CheckEnd(c) \/ CheckCancelled(c) PROVE Checked'
  <2>0. check' = [check EXCEPT ![c] = NoCheck]
    BY <1>3 DEF CheckEnd, CheckCancelled
  <2>1. CASE UNCHANGED <<group, scheduled>>
    <3>1. NoCheck.up = {} /\ NoCheck.servers = {} /\ NoCheck.ask = {} /\ NoCheck.since <= scheduled
      BY <1>b DEF NoCheck
    <3>. QED
      BY <1>a, <2>0, <2>1, <3>1, NoCheckType
  <2>2. CASE /\ scheduled < MaxGroups
             /\ scheduled' = scheduled + 1
             /\ group' = [group EXCEPT ![scheduled'] = Recorded(c)]
    <3>1. \A d \in ModCheck : check'[d] = IF d = c THEN NoCheck ELSE check[d]
      BY <1>0, <2>0, NoCheckType, CheckTypes
    <3>2. NoCheck.up = {} /\ NoCheck.servers = {} /\ NoCheck.ask = {} /\ NoCheck.since = 0
      BY DEF NoCheck
    <3>3. \A i \in Id : group[i].since \in Nat
      BY <1>0, BoundAssumption DEF TypeOK
    <3>4. ASSUME NEW i \in Id
          PROVE  group'[i].wasRunning \subseteq group'[i].servers /\ group'[i].since <= scheduled'
      <4>1. CASE i = scheduled'
        <5>1. group'[i] = Recorded(c)
          BY <1>0, <2>2, <4>1 DEF TypeOK
        <5>. QED
          BY <1>0, <1>b, <2>2, <5>1 DEF Recorded, Checked
      <4>2. CASE i # scheduled'
        BY <1>0, <1>b, <2>2, <3>3, <4>2 DEF TypeOK, Checked
      <4>. QED
        BY <4>1, <4>2
    <3>5. \A d \in ModCheck : check'[d].since <= scheduled'
      BY <1>0, <1>b, <2>2, <3>1, <3>2 DEF Checked
    <3>6. \A d \in ModCheck : /\ check'[d].up \subseteq check'[d].servers
                              /\ check'[d].ask \subseteq check'[d].servers
      BY <1>0, <3>1, <3>2 DEF Checked
    <3>. QED
      BY <3>4, <3>5, <3>6 DEF Checked
  <2>. QED
    BY <1>3, <2>1, <2>2 DEF CheckEnd, CheckCancelled, Recorded
<1>4. CASE GroupDue
  <2>1. PICK i \in Range(modGroups) : group' = [group EXCEPT ![i].due = TRUE]
    BY <1>4 DEF GroupDue
  <2>2. \A j \in Id : group'[j].servers = group[j].servers /\ group'[j].wasRunning = group[j].wasRunning
                        /\ group'[j].since = group[j].since
    BY <1>0, <2>1 DEF TypeOK
  <2>3. check' = check /\ scheduled' = scheduled
    BY <1>4 DEF GroupDue
  <2>. QED
    BY <1>0, <2>2, <2>3 DEF Checked
<1>5. CASE UNCHANGED <<group, check, scheduled>>
  BY <1>0, <1>5 DEF Checked
<1>. QED
  BY <1>1, <1>2, <1>3, <1>4, <1>5 DEF Next, TickBegin, NotDue, Poisoned, Take, Dropped, TickEnd,
     Acquire, Acquired, StopOne, StopsDone, Download, SyncRaises, StartOne, GroupDone, OtherAcquires,
     OtherReleases, GoesDown, RemoveServer

\* What ModCheck does meanwhile leaves the group in hand as it is.
LEMMA SameGroup ==
  ASSUME IInv, Next, next' = next, pc \notin {"sleep", "next"}
  PROVE  Current' = Current /\ Members' = Members /\ WasRunning' = WasRunning
<1> USE DEF world, plans, loop, work, Current, Members, WasRunning
<1>0. TypeOK /\ Lists
  BY DEF IInv
<1>1. next \in 1 .. Len(modGroups)
  BY <1>0, ListType, BoundAssumption DEF TypeOK, Lists, Passed
<1>2. ASSUME NEW c \in ModCheck, CheckEnd(c)
      PROVE  Current' = Current /\ Members' = Members /\ WasRunning' = WasRunning
  <2>1. CASE UNCHANGED <<modGroups, group, scheduled>>
    BY <2>1
  <2>2. CASE /\ scheduled < MaxGroups
             /\ scheduled' = scheduled + 1
             /\ group' = [group EXCEPT ![scheduled'] = Recorded(c)]
             /\ modGroups' = Append(modGroups, scheduled')
    <3>1. scheduled' \in Id /\ scheduled \in Nat
      BY <1>0, <1>2, <2>2, BoundAssumption DEF Id, TypeOK
    <3>2. modGroups'[next] = modGroups[next]
      BY <1>0, <1>1, <2>2, <3>1, ListAppend DEF TypeOK
    <3>3. modGroups[next] \in Nat /\ modGroups[next] <= scheduled
      BY <1>0, <1>1, ListType DEF TypeOK, Lists, Ordered
    <3>4. modGroups[next] # scheduled'
      BY <2>2, <3>1, <3>3
    <3>5. group'[modGroups[next]] = group[modGroups[next]]
      BY <1>0, <2>2, <3>4 DEF TypeOK
    <3>. QED
      BY <3>2, <3>5
  <2>. QED
    BY <1>2, <2>1, <2>2 DEF CheckEnd, Recorded
<1>3. CASE UNCHANGED <<modGroups, group>>
  BY <1>3
<1>. QED
  BY <1>2, <1>3 DEF Next, CheckBegin, CheckAsk, CheckCancelled, GroupDue, TickBegin, NotDue, Poisoned, Take, Dropped,
     TickEnd, Acquire, Acquired, StopOne, StopsDone, Download, SyncRaises, StartOne, GroupDone,
     OtherAcquires, OtherReleases, GoesDown, RemoveServer

\* The locks of a group are taken one by one and given back all at once.
LEMMA LocksNext == IInv /\ Next => Acquiring' /\ LockedAllOrNone'
<1> SUFFICES ASSUME IInv, Next PROVE Acquiring' /\ LockedAllOrNone'
  OBVIOUS
<1> USE OwnerAssumption DEF world, plans, loop, work
<1>0. TypeOK /\ Acquiring /\ LockedAllOrNone /\ lock \in [Server -> {NoOwner, Tick, Other}]
  BY DEF IInv, TypeOK
<1>a. ASSUME \A s \in Server : (lock'[s] = Tick) = (lock[s] = Tick),
             UNCHANGED <<pc, todo, next>>
      PROVE  Acquiring' /\ LockedAllOrNone'
  <2>1. CASE pc \in {"sleep", "next"}
    BY <1>0, <1>a, <2>1 DEF Acquiring, LockedAllOrNone, Working
  <2>2. CASE pc \notin {"sleep", "next"}
    <3>1. Members' = Members
      BY <1>a, <2>2, SameGroup
    <3>2. Members \subseteq Server
      BY <1>0, <2>2, CurrentId DEF IInv, Lists, Passed
    <3>. QED
      BY <1>0, <1>a, <3>1, <3>2 DEF Acquiring, LockedAllOrNone, Working
  <2>. QED
    BY <2>1, <2>2
<1>b. ASSUME \A s \in Server : lock'[s] # Tick, pc' \in {"sleep", "next"}
      PROVE  Acquiring' /\ LockedAllOrNone'
  BY <1>b DEF Acquiring, LockedAllOrNone, Working
<1>c. ASSUME LocksReleased PROVE \A s \in Server : lock'[s] # Tick
  BY <1>0, <1>c DEF LocksReleased
<1>d. ASSUME pc \in {"sleep", "next"} PROVE \A s \in Server : lock[s] # Tick
  BY <1>0, <1>d DEF LockedAllOrNone, Working
<1>0c. ASSUME NEW c \in ModCheck, CheckBegin(c) \/ CheckAsk(c) \/ CheckEnd(c) \/ CheckCancelled(c)
      PROVE  Acquiring' /\ LockedAllOrNone'
  BY <1>0c, <1>a DEF CheckBegin, CheckAsk, CheckEnd, CheckCancelled
<1>1. CASE GroupDue \/ GoesDown \/ RemoveServer
  BY <1>1, <1>a DEF GroupDue, GoesDown, RemoveServer
<1>2. CASE TickBegin \/ NotDue \/ Poisoned \/ Dropped \/ TickEnd
  BY <1>2, <1>b, <1>d DEF TickBegin, NotDue, Poisoned, Dropped, TickEnd, Keep, LoopOver, Go
<1>3. CASE Take
  <2>1. CASE Keep
    BY <1>3, <1>b, <1>d, <2>1 DEF Take, Keep, Go
  <2>2. CASE todo' = Members /\ Go("acquire") /\ UNCHANGED <<next, pending>>
    <3>1. \A s \in Server : lock'[s] # Tick
      BY <1>3, <1>d DEF Take
    <3>2. pc' = "acquire" /\ todo' = Members'
      BY <1>3, <2>2 DEF Take, Go, Members, Current
    <3>. QED
      BY <3>1, <3>2 DEF Acquiring, LockedAllOrNone, Working
  <2>. QED
    BY <1>3, <2>1, <2>2, Zenon DEF Take
<1>4. CASE Acquire
  <2>1. PICK s \in todo :
          \/ /\ lock[s] = NoOwner
             /\ lock' = [lock EXCEPT ![s] = Tick]
             /\ todo' = todo \ {s}
             /\ UNCHANGED <<pc, next, pending>>
          \/ /\ lock[s] # NoOwner
             /\ LocksReleased
             /\ todo' = {}
             /\ Keep
    BY <1>4, Zenon DEF Acquire
  <2>2. CASE lock' = [lock EXCEPT ![s] = Tick] /\ todo' = todo \ {s} /\ UNCHANGED <<pc, next, pending>>
    <3>1. pc = "acquire" /\ Members' = Members
      BY <1>4, <2>2, SameGroup DEF Acquire
    <3>2. s \in Members /\ s \in Server
      BY <1>0, <2>1, <3>1 DEF Acquiring, TypeOK
    <3>. QED
      BY <1>0, <2>2, <3>1, <3>2 DEF Acquiring, LockedAllOrNone, Working
  <2>3. CASE LocksReleased /\ Keep
    BY <1>b, <1>c, <2>3 DEF Keep, Go
  <2>. QED
    BY <2>1, <2>2, <2>3, Zenon
<1>5. CASE Acquired \/ StopOne \/ StopsDone \/ Download \/ StartOne
  <2>1. lock' = lock /\ next' = next /\ pc \notin {"sleep", "next"} /\ pc' \in {"stop", "download", "start"}
    BY <1>5 DEF Acquired, StopOne, StopsDone, Download, StartOne, Go
  <2>2. Members' = Members
    BY <2>1, SameGroup
  <2>3. \A s \in Members : lock[s] = Tick
    BY <1>0, <1>5 DEF Acquired, StopOne, StopsDone, Download, StartOne, Acquiring, LockedAllOrNone, Working
  <2>. QED
    BY <1>0, <2>1, <2>2, <2>3 DEF Acquiring, LockedAllOrNone, Working
<1>6. CASE SyncRaises \/ GroupDone
  BY <1>6, <1>b, <1>c DEF SyncRaises, GroupDone, LoopOver, Go
<1>7. CASE OtherAcquires \/ OtherReleases
  BY <1>0, <1>7, <1>a DEF OtherAcquires, OtherReleases
<1>. QED
  BY <1>0c, <1>1, <1>2, <1>3, <1>4, <1>5, <1>6, <1>7, Zenon DEF Next

\* Whatever ends the stops or the download, the servers stopped are left to be started.
LEMMA OwedNext == IInv /\ Next => Owed'
<1> SUFFICES ASSUME IInv, Next PROVE Owed'
  OBVIOUS
<1> USE DEF world, plans, loop, work
<1>0. TypeOK /\ Owed
  BY DEF IInv
<1>a. ASSUME pc' \in {"sleep", "next", "acquire"} PROVE Owed'
  BY <1>a DEF Owed
<1>b. ASSUME UNCHANGED <<pc, next, todo, stopped, abort, started>> PROVE Owed'
  <2>1. CASE pc \in {"sleep", "next"}
    BY <1>a, <1>b, <2>1
  <2>2. CASE pc \notin {"sleep", "next"}
    <3>1. WasRunning' = WasRunning
      BY <1>b, <2>2, SameGroup
    <3>. QED
      BY <1>0, <1>b, <3>1 DEF Owed
  <2>. QED
    BY <2>1, <2>2
<1>c. ASSUME NEW c \in ModCheck, CheckBegin(c) \/ CheckAsk(c) \/ CheckEnd(c) \/ CheckCancelled(c)
      PROVE  Owed'
  <2>1. UNCHANGED <<pc, next, todo, stopped, abort, started>>
    BY <1>c DEF CheckBegin, CheckAsk, CheckEnd, CheckCancelled
  <2>. QED
    BY <1>b, <2>1
<1>1. CASE GroupDue \/ OtherAcquires \/ OtherReleases \/ GoesDown \/ RemoveServer
  BY <1>1, <1>b DEF GroupDue, OtherAcquires, OtherReleases, GoesDown, RemoveServer
<1>2. CASE TickBegin \/ NotDue \/ Poisoned \/ Take \/ Dropped \/ TickEnd \/ SyncRaises \/ GroupDone
  BY <1>2, <1>a DEF TickBegin, NotDue, Poisoned, Take, Dropped, TickEnd, SyncRaises, GroupDone, Keep,
                    LoopOver, Go
<1>3. CASE Acquire
  BY <1>3, <1>a DEF Acquire, Keep, Go
<1>4. CASE Acquired
  <2>1. WasRunning' = WasRunning
    BY <1>4, SameGroup DEF Acquired
  <2>. QED
    BY <1>4, <2>1 DEF Acquired, Owed, Go
<1>5. CASE StopOne
  <2>1. WasRunning' = WasRunning
    BY <1>5, SameGroup DEF StopOne
  <2>2. pc = "stop" /\ pc' = "stop" /\ started' = started
    BY <1>5 DEF StopOne
  <2>3. PICK s \in todo :
          /\ todo' = todo \ {s}
          /\ (stopped' = stopped \cup {s} /\ abort' = abort) \/ (abort' /\ stopped' = stopped)
    <3>1. PICK s \in todo :
            /\ todo' = todo \ {s}
            /\ \/ up' = up \ {s} /\ stopped' = stopped \cup {s} /\ UNCHANGED abort
               \/ abort' = TRUE /\ UNCHANGED <<up, stopped>>
      BY <1>5, Zenon DEF StopOne
    <3>. QED
      BY <3>1
  <2>4. todo \subseteq WasRunning /\ stopped \subseteq WasRunning /\ started = {}
    BY <1>0, <2>2 DEF Owed
  <2>5. CASE stopped' = stopped \cup {s} /\ abort' = abort
    BY <1>0, <2>1, <2>2, <2>3, <2>4, <2>5 DEF Owed
  <2>6. CASE abort' /\ stopped' = stopped
    BY <1>0, <2>1, <2>2, <2>3, <2>4, <2>6 DEF Owed
  <2>. QED
    BY <2>3, <2>5, <2>6
<1>6. CASE StopsDone
  <2>1. WasRunning' = WasRunning
    BY <1>6, SameGroup DEF StopsDone
  <2>. QED
    BY <1>0, <1>6, <2>1 DEF StopsDone, Owed, Go
<1>7. CASE Download
  BY <1>0, <1>7 DEF Download, Owed, Go
<1>8. CASE StartOne
  BY <1>0, <1>8 DEF StartOne, Owed
<1>. QED
  BY <1>c, <1>1, <1>2, <1>3, <1>4, <1>5, <1>6, <1>7, <1>8, Zenon DEF Next

\* A manager that starts has scheduled nothing.
LEMMA IInvInit == Init => IInv
<1> SUFFICES ASSUME Init PROVE IInv
  OBVIOUS
<1> USE OwnerAssumption, BoundAssumption
<1>1. TypeOK
  <2>1. << >> \in Seq(Id) /\ 1 \in 1 .. MaxGroups + 1 /\ 0 \in 0 .. MaxGroups
    OBVIOUS
  <2>2. NoGroup \in Group
    BY <2>1 DEF NoGroup, Group
  <2>. QED
    BY <2>1, <2>2, NoCheckType DEF Init, TypeOK, Group, Check
<1>2. /\ modGroups = << >> /\ pending = << >> /\ Len(<< >>) = 0
      /\ next = 1 /\ scheduled = 0 /\ pc = "sleep" /\ check = [c \in ModCheck |-> NoCheck]
  BY DEF Init
<1>3. Lists
  BY <1>2 DEF Lists, Ordered, Passed
<1>4. Kept /\ Disjoint /\ Owed /\ Acquiring
  BY <1>2 DEF Kept, Disjoint, Owed, Acquiring
<1>5. Checked
  BY <1>2 DEF Checked, NoCheck, NoGroup, Init
<1>6. LockedAllOrNone
  BY <1>2 DEF LockedAllOrNone, Working, Init
<1>. QED
  BY <1>1, <1>3, <1>4, <1>5, <1>6 DEF IInv

\* The invariant holds in every reachable state.
THEOREM Invariance == Spec => []IInv
<1>1. IInv /\ [Next]_vars => IInv'
  <2>1. CASE Next
    BY <2>1, TypeNext, ListsNext, KeptNext, DisjointNext, CheckedNext, LocksNext, OwedNext DEF IInv
  <2>2. CASE UNCHANGED vars
    BY <2>2 DEF IInv, TypeOK, Lists, Ordered, Passed, Kept, Disjoint, Checked, Acquiring, LockedAllOrNone,
                Working, Owed, Members, WasRunning, Current, vars, world, plans, loop, work
  <2>. QED
    BY <2>1, <2>2
<1>2. QED
  BY IInvInit, <1>1, PTL DEF Spec

\* The types are kept: neither list outgrows the groups scheduled.
THEOREM TypeCorrect == Spec => []TypeOK
<1>1. IInv => TypeOK
  BY DEF IInv
<1>2. QED
  BY <1>1, Invariance, PTL

\* The task holds SERVER_LOCK of a whole group or of no server.
THEOREM LocksAllOrNone == Spec => []LockedAllOrNone
<1>1. IInv => LockedAllOrNone
  BY DEF IInv
<1>2. QED
  BY <1>1, Invariance, PTL

\* A group that was scheduled is processed or still in the list, though one task appends to it
\* while another iterates over it and replaces it.
THEOREM GroupsNeverLost == Spec => []NoGroupLost
<1>1. IInv => NoGroupLost
  <2>1. ASSUME IInv PROVE Range(modGroups) = {modGroups[k] : k \in 1 .. Len(modGroups)}
    BY <2>1, ListType DEF IInv, TypeOK
  <2>. QED
    BY <2>1 DEF IInv, Kept, NoGroupLost
<1>2. QED
  BY <1>1, Invariance, PTL

\* Waiting groups share a server only when one was appended after the check of the other had
\* read the list, that is when two ModChecks overlap.
THEOREM OverlapNeedsRace == Spec => []OverlapsOnlyByRace
<1>1. IInv => OverlapsOnlyByRace
  <2>1. ASSUME IInv PROVE Range(modGroups) = {modGroups[k] : k \in 1 .. Len(modGroups)}
    BY <2>1, ListType DEF IInv, TypeOK
  <2>. QED
    BY <2>1 DEF IInv, Disjoint, OverlapsOnlyByRace
<1>2. QED
  BY <1>1, Invariance, PTL

\* A processing that ends has tried to start every server it stopped and no other.
THEOREM StoppedServersStarted == Spec => StoppedAreStarted
<1>1. IInv /\ [Next]_vars => [pc = "start" /\ pc' = "next" => started = stopped]_vars
  <2> SUFFICES ASSUME IInv, Next, pc = "start", pc' = "next" PROVE started = stopped
    OBVIOUS
  <2>1. GroupDone
    BY DEF Next, CheckBegin, CheckAsk, CheckEnd, CheckCancelled, GroupDue, TickBegin, NotDue, Poisoned, Take, Dropped,
       TickEnd, Acquire, Acquired, StopOne, StopsDone, Download, SyncRaises, StartOne, LoopOver, Go,
       OtherAcquires, OtherReleases, GoesDown, RemoveServer
  <2>. QED
    BY <2>1 DEF GroupDone, IInv, Owed
<1>2. QED
  BY <1>1, Invariance, PTL DEF Spec, StoppedAreStarted
=============================================================================
