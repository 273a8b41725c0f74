--------------------------- MODULE LiveStatsProofs ---------------------------
(***************************************************************************)
(* Theorems about LiveStats, for all servers, clients and bounds.          *)
(***************************************************************************)
EXTENDS LiveStats, TLAPS

Place == {"idle", "lock", "look", "rcon", "bercon", "write", "answer"}

\* Versions are numbers.
LEMMA VersionNat == Version \subseteq Nat /\ 0 \in Nat
  BY BoundAssumption DEF Version

\* Versions up to a server's bound are versions.
LEMMA WithinBound == \A s \in Server : \A n \in 0 .. MaxChanges[s] : n \in Version
  BY DEF Version

\* Every place in the pass is one of a server.
LEMMA OrderServer == /\ 1 \in DOMAIN Order
                     /\ \A k \in DOMAIN Order : Order[k] \in Server
                     /\ \A k \in DOMAIN Order : k < Len(Order) => k + 1 \in DOMAIN Order
  BY OrderAssumption

\* The loop and the handler are different threads, and no poller is either of the two others.
LEMMA Threads == /\ "loop" \in Poller /\ "handler" \in Client /\ "handler" \notin Poller
                 /\ Poller \subseteq Client /\ Refresher \subseteq Poller /\ "loop" \notin Refresher
                 /\ NoClient \notin Client
  BY ClientAssumption DEF Poller, Client

\* Refined for induction: no version lies beyond the bound of its server.
VersionsBounded == \A s \in Server : version[s] <= MaxChanges[s]

\* A poll holds the lock of its server from its look to its write.
PollLockOwned ==
  \A t \in Poller : pc[t] \in {"look", "rcon", "bercon", "write"} => pollLock[At(t)] = t

\* What is shown has been.
CacheKnown == \A s \in Server : cache[s].version <= version[s]

\* What a poll is about to write has been, and is not older than what is shown.
SeenBetween ==
  \A t \in Poller : pc[t] = "write" =>
    cache[At(t)].version <= seen[t].version /\ seen[t].version <= version[At(t)]

\* A refresh sees its server after it was asked to.
SeenAfterAsked ==
  \A t \in Refresher :
    /\ pc[t] \in {"lock", "look", "rcon", "bercon"} => asked[t] <= version[At(t)]
    /\ pc[t] \in {"write", "answer"} => asked[t] <= seen[t].version

IInv ==
  /\ TypeOK
  /\ VersionsBounded
  /\ PollLockOwned
  /\ CacheKnown
  /\ SeenBetween
  /\ SeenAfterAsked

\* Every step keeps the types.
LEMMA TypeNext == TypeOK /\ VersionsBounded /\ Next => TypeOK' /\ VersionsBounded'
<1> SUFFICES ASSUME TypeOK, VersionsBounded, Next PROVE TypeOK' /\ VersionsBounded'
  OBVIOUS
<1> USE VersionNat, OrderServer, Threads DEF TypeOK, At, world, threads
<1>1. ASSUME NEW s \in Server, Change(s) PROVE TypeOK' /\ VersionsBounded'
  <2>5. version[s] \in Nat /\ MaxChanges[s] \in Nat
    BY BoundAssumption
  <2>6. version[s] < MaxChanges[s]
    BY <1>1 DEF Change
  <2>1. version[s] + 1 \in 0 .. MaxChanges[s]
    BY <2>5, <2>6
  <2>2. version' = [version EXCEPT ![s] = version[s] + 1] /\ version[s] + 1 \in Version
    BY <1>1, <2>1, WithinBound DEF Change
  <2>3. up' \in [Server -> BOOLEAN]
    BY <1>1 DEF Change
  <2>4. version' \in [Server -> Version] /\ VersionsBounded'
    BY <2>1, <2>2 DEF VersionsBounded
  <2>. QED
    BY <1>1, <2>3, <2>4, Zenon DEF Change
<1>2. CASE PassBegin
  <2>1. busy' = (pc'["handler"] # "idle")
    BY <1>2 DEF PassBegin
  <2>2. pc' \in [Client -> Place] /\ on' \in [Client -> DOMAIN Order]
    BY <1>2 DEF PassBegin, Place
  <2>. QED
    BY <1>2, <2>1, <2>2, Zenon DEF PassBegin, Place, VersionsBounded
<1>3. ASSUME NEW t \in Refresher, NEW k \in DOMAIN Order, RefreshBegin(t, k) PROVE TypeOK' /\ VersionsBounded'
  <2>1. busy' = (pc'["handler"] # "idle")
    BY <1>3 DEF RefreshBegin
  <2>2. /\ pc' \in [Client -> Place] /\ on' \in [Client -> DOMAIN Order]
        /\ asked' \in [Refresher -> Version]
    BY <1>3 DEF RefreshBegin, Place
  <2>. QED
    BY <1>3, <2>1, <2>2, Zenon DEF RefreshBegin, Place, VersionsBounded
<1>4. ASSUME NEW t \in Poller, LockForPoll(t) PROVE TypeOK' /\ VersionsBounded'
  <2>1. busy' = (pc'["handler"] # "idle")
    BY <1>4 DEF LockForPoll
  <2>2. pc' \in [Client -> Place] /\ pollLock' \in [Server -> Client \cup {NoClient}]
    BY <1>4 DEF LockForPoll, Place
  <2>. QED
    BY <1>4, <2>1, <2>2, Zenon DEF LockForPoll, Place, VersionsBounded
<1>5. ASSUME NEW t \in Poller, Look(t) PROVE TypeOK' /\ VersionsBounded'
  <2>1. busy' = (pc'["handler"] # "idle")
    BY <1>5 DEF Look
  <2>2. pc' \in [Client -> Place]
    BY <1>5 DEF Look, Place
  <2>3. [version |-> version[At(t)], ok |-> FALSE] \in Snapshot
    BY DEF Snapshot
  <2>4. seen' \in [Poller -> Snapshot]
    BY <1>5, <2>3 DEF Look
  <2>. QED
    BY <1>5, <2>1, <2>2, <2>4, Zenon DEF Look, Place, VersionsBounded
<1>6. ASSUME NEW t \in Poller, Write(t) PROVE TypeOK' /\ VersionsBounded'
  <2>1. busy' = (pc'["handler"] # "idle")
    BY <1>6 DEF Write
  <2>2. pc' \in [Client -> Place] /\ on' \in [Client -> DOMAIN Order]
    <3>1. CASE t = "loop" /\ on[t] < Len(Order)
      <4>1. on[t] + 1 \in DOMAIN Order
        BY <3>1
      <4>. QED
        BY <1>6, <3>1, <4>1 DEF Write, Place
    <3>2. CASE ~(t = "loop" /\ on[t] < Len(Order))
      BY <1>6, <3>2 DEF Write, Place
    <3>. QED
      BY <3>1, <3>2
  <2>3. cache' \in [Server -> Snapshot] /\ pollLock' \in [Server -> Client \cup {NoClient}]
    BY <1>6 DEF Write
  <2>. QED
    BY <1>6, <2>1, <2>2, <2>3, Zenon DEF Write, Place, VersionsBounded
<1>7. ASSUME NEW t \in Refresher, Answer(t) PROVE TypeOK' /\ VersionsBounded'
  <2>1. busy' = (pc'["handler"] # "idle")
    BY <1>7 DEF Answer
  <2>2. pc' \in [Client -> Place]
    BY <1>7 DEF Answer, Place
  <2>. QED
    BY <1>7, <2>1, <2>2, Zenon DEF Answer, Place, VersionsBounded
<1>8. ASSUME NEW t \in Client, NEW k \in DOMAIN Order, Command(t, k) PROVE TypeOK' /\ VersionsBounded'
  <2>1. busy' = (pc'["handler"] # "idle")
    BY <1>8 DEF Command
  <2>2. pc' \in [Client -> Place] /\ on' \in [Client -> DOMAIN Order]
    BY <1>8 DEF Command, Place
  <2>. QED
    BY <1>8, <2>1, <2>2, Zenon DEF Command, Place, VersionsBounded
<1>9. ASSUME NEW t \in Client, Execute(t) PROVE TypeOK' /\ VersionsBounded'
  <2>1. busy' = (pc'["handler"] # "idle")
    BY <1>9 DEF Execute
  <2>2. pc' \in [Client -> Place] /\ endpoint' \in [Server -> Client \cup {NoClient}]
    BY <1>9 DEF Execute, Place
  <2>. QED
    BY <1>9, <2>1, <2>2, Zenon DEF Execute, Place, VersionsBounded
<1>10. ASSUME NEW t \in Client, Reply(t) PROVE TypeOK' /\ VersionsBounded'
  <2>1. busy' = (pc'["handler"] # "idle")
    BY <1>10 DEF Reply
  <2>2. pc' \in [Client -> Place] /\ endpoint' \in [Server -> Client \cup {NoClient}]
    BY <1>10 DEF Reply, Place
  <2>3. \A ok \in BOOLEAN : [version |-> version[At(t)], ok |-> ok] \in Snapshot
    BY DEF Snapshot
  <2>4. up[At(t)] \in BOOLEAN
    BY Zenon
  <2>5. seen' \in [Poller -> Snapshot]
    <3>1. CASE t \in Poller
      <4>1. PICK ok \in {FALSE, up[At(t)]} :
              seen' = [seen EXCEPT ![t] = [version |-> version[At(t)], ok |-> ok]]
        BY <1>10, <3>1, Zenon DEF Reply
      <4>2. ok \in BOOLEAN
        BY <2>4, Zenon
      <4>. QED
        BY <2>3, <4>1, <4>2, Zenon
    <3>2. CASE t \notin Poller
      BY <1>10, <3>2, Zenon DEF Reply
    <3>. QED
      BY <3>1, <3>2
  <2>. QED
    BY <1>10, <2>1, <2>2, <2>5, Zenon DEF Reply, Place, VersionsBounded
<1>. QED
  BY <1>1, <1>2, <1>3, <1>4, <1>5, <1>6, <1>7, <1>8, <1>9, <1>10, Zenon DEF Next

\* Only a poll that holds the lock of a server gives it back.
LEMMA LockNext == TypeOK /\ PollLockOwned /\ Next => PollLockOwned'
<1> SUFFICES ASSUME TypeOK, PollLockOwned, Next, NEW u \in Poller,
                    pc'[u] \in {"look", "rcon", "bercon", "write"}
             PROVE  pollLock'[At(u)'] = u
  BY DEF PollLockOwned
<1> USE OrderServer, Threads DEF TypeOK, PollLockOwned, At, world, threads
<1>1. ASSUME NEW s \in Server, Change(s) PROVE pollLock'[At(u)'] = u
  BY <1>1 DEF Change
<1>2. CASE PassBegin
  BY <1>2 DEF PassBegin
<1>3. ASSUME NEW t \in Refresher, NEW k \in DOMAIN Order, RefreshBegin(t, k) PROVE pollLock'[At(u)'] = u
  BY <1>3 DEF RefreshBegin
<1>4. ASSUME NEW t \in Poller, LockForPoll(t) PROVE pollLock'[At(u)'] = u
  BY <1>4 DEF LockForPoll
<1>5. ASSUME NEW t \in Poller, Look(t) PROVE pollLock'[At(u)'] = u
  BY <1>5 DEF Look
<1>6. ASSUME NEW t \in Poller, Write(t) PROVE pollLock'[At(u)'] = u
  <2>1. pollLock[At(t)] = t
    BY <1>6 DEF Write
  <2>2. u # t
    BY <1>6 DEF Write
  <2>3. pc[u] = pc'[u] /\ on'[u] = on[u]
    BY <1>6, <2>2 DEF Write
  <2>. QED
    BY <1>6, <2>1, <2>2, <2>3 DEF Write
<1>7. ASSUME NEW t \in Refresher, Answer(t) PROVE pollLock'[At(u)'] = u
  BY <1>7 DEF Answer
<1>8. ASSUME NEW t \in Client, NEW k \in DOMAIN Order, Command(t, k) PROVE pollLock'[At(u)'] = u
  BY <1>8 DEF Command
<1>9. ASSUME NEW t \in Client, Execute(t) PROVE pollLock'[At(u)'] = u
  BY <1>9 DEF Execute
<1>10. ASSUME NEW t \in Client, Reply(t) PROVE pollLock'[At(u)'] = u
  BY <1>10 DEF Reply
<1>. QED
  BY <1>1, <1>2, <1>3, <1>4, <1>5, <1>6, <1>7, <1>8, <1>9, <1>10, Zenon DEF Next

\* A poll writes what it has seen under the lock, which is no older than what was there.
LEMMA SeenNext == IInv /\ Next => CacheKnown' /\ SeenBetween'
<1> SUFFICES ASSUME IInv, Next PROVE CacheKnown' /\ SeenBetween'
  OBVIOUS
<1>0. /\ version \in [Server -> Nat]
      /\ \A s \in Server : cache[s].version \in Nat
      /\ \A t \in Poller : seen[t].version \in Nat
  BY VersionNat DEF IInv, TypeOK, Snapshot
<1>a. \A t \in Poller : At(t) \in Server /\ cache[At(t)].version <= version[At(t)]
  BY OrderServer, Threads DEF IInv, TypeOK, At, CacheKnown
<1>b. ASSUME NEW t \in Poller, version' = version, cache' = cache, on' = on,
             \A u \in Poller \ {t} : seen'[u] = seen[u] /\ pc'[u] = pc[u],
             pc'[t] = "write" => seen'[t].version = version[At(t)]
      PROVE  CacheKnown' /\ SeenBetween'
  <2>1. CacheKnown'
    BY <1>b DEF IInv, CacheKnown
  <2>2. ASSUME NEW u \in Poller, pc'[u] = "write"
        PROVE  cache[At(u)].version <= seen'[u].version /\ seen'[u].version <= version[At(u)]
    <3>1. CASE u = t
      BY <1>0, <1>a, <1>b, <2>2, <3>1
    <3>2. CASE u # t
      BY <1>b, <2>2, <3>2 DEF IInv, SeenBetween
    <3>. QED
      BY <3>1, <3>2
  <2>. QED
    BY <1>b, <2>1, <2>2 DEF SeenBetween, At
<1> USE <1>0, OrderServer, Threads DEF IInv, TypeOK, CacheKnown, SeenBetween, At, world, threads
<1>1. ASSUME NEW s \in Server, Change(s) PROVE CacheKnown' /\ SeenBetween'
  <2>1. \A r \in Server : version[r] <= version'[r]
    BY <1>1 DEF Change
  <2>2. version' \in [Server -> Nat]
    BY <1>1 DEF Change
  <2>. QED
    BY <1>1, <2>1, <2>2 DEF Change
<1>2. CASE PassBegin
  BY <1>2 DEF PassBegin
<1>3. ASSUME NEW t \in Refresher, NEW k \in DOMAIN Order, RefreshBegin(t, k) PROVE CacheKnown' /\ SeenBetween'
  BY <1>3 DEF RefreshBegin
<1>4. ASSUME NEW t \in Poller, LockForPoll(t) PROVE CacheKnown' /\ SeenBetween'
  BY <1>4 DEF LockForPoll
<1>5. ASSUME NEW t \in Poller, Look(t) PROVE CacheKnown' /\ SeenBetween'
  <2>1. /\ version' = version /\ cache' = cache /\ on' = on
        /\ \A u \in Poller \ {t} : seen'[u] = seen[u] /\ pc'[u] = pc[u]
    BY <1>5 DEF Look
  <2>2. pc'[t] = "write" => seen'[t].version = version[At(t)]
    BY <1>5 DEF Look
  <2>. QED
    BY <1>b, <2>1, <2>2
<1>6. ASSUME NEW t \in Poller, Write(t) PROVE CacheKnown' /\ SeenBetween'
  <2>1. cache' = [cache EXCEPT ![At(t)] = seen[t]] /\ version' = version /\ seen' = seen
    BY <1>6 DEF Write
  <2>2. CacheKnown'
    BY <1>6, <2>1 DEF Write
  <2>3. ASSUME NEW u \in Poller, pc'[u] = "write"
        PROVE  u # t /\ on'[u] = on[u] /\ pc[u] = "write" /\ At(u) # At(t)
    <3>1. u # t
      BY <1>6, <2>3 DEF Write
    <3>2. on'[u] = on[u] /\ pc[u] = "write"
      BY <1>6, <2>3, <3>1 DEF Write
    <3>3. pollLock[At(u)] = u /\ pollLock[At(t)] = t
      BY <1>6, <3>2 DEF Write, PollLockOwned
    <3>. QED
      BY <3>1, <3>2, <3>3
  <2>4. SeenBetween'
    BY <2>1, <2>3
  <2>. QED
    BY <2>2, <2>4
<1>7. ASSUME NEW t \in Refresher, Answer(t) PROVE CacheKnown' /\ SeenBetween'
  BY <1>7 DEF Answer
<1>8. ASSUME NEW t \in Client, NEW k \in DOMAIN Order, Command(t, k) PROVE CacheKnown' /\ SeenBetween'
  BY <1>8 DEF Command
<1>9. ASSUME NEW t \in Client, Execute(t) PROVE CacheKnown' /\ SeenBetween'
  BY <1>9 DEF Execute
<1>10. ASSUME NEW t \in Client, Reply(t) PROVE CacheKnown' /\ SeenBetween'
  <2>1. /\ version' = version /\ cache' = cache /\ on' = on /\ asked' = asked
        /\ \A u \in Client \ {t} : pc'[u] = pc[u]
    BY <1>10 DEF Reply
  <2>2. CASE t \in Poller
    <3>1. PICK ok \in {FALSE, up[At(t)]} :
            seen' = [seen EXCEPT ![t] = [version |-> version[At(t)], ok |-> ok]]
      BY <1>10, <2>2, Zenon DEF Reply
    <3>2. /\ seen'[t].version = version[At(t)]
          /\ \A u \in Poller \ {t} : seen'[u] = seen[u]
      BY <3>1, <2>2
    <3>3. pc[t] = "bercon" /\ pc'[t] = "write"
      BY <1>10, <2>2 DEF Reply
    <3>. QED
      BY <1>b, <2>1, <2>2, <3>2, <3>3
  <2>3. CASE t \notin Poller
    <3>1. seen' = seen
      BY <1>10, <2>3, Zenon DEF Reply
    <3>. QED
      BY <2>1, <2>3, <3>1
  <2>. QED
    BY <2>2, <2>3
<1>. QED
  BY <1>1, <1>2, <1>3, <1>4, <1>5, <1>6, <1>7, <1>8, <1>9, <1>10, Zenon DEF Next

\* Versions only grow, so what a refresh looks at after it was asked is as new as the request.
LEMMA AskedNext == IInv /\ Next => SeenAfterAsked'
<1> SUFFICES ASSUME IInv, Next PROVE SeenAfterAsked'
  OBVIOUS
<1>0. /\ version \in [Server -> Nat]
      /\ \A t \in Refresher : asked[t] \in Nat
      /\ \A t \in Poller : seen[t].version \in Nat
  BY VersionNat DEF IInv, TypeOK, Snapshot
<1> USE <1>0, OrderServer, Threads DEF IInv, TypeOK, SeenAfterAsked, At, world, threads
<1>1. ASSUME NEW s \in Server, Change(s) PROVE SeenAfterAsked'
  <2>1. \A r \in Server : version[r] <= version'[r]
    BY <1>1 DEF Change
  <2>2. version' \in [Server -> Nat]
    BY <1>1 DEF Change
  <2>. QED
    BY <1>1, <2>1, <2>2 DEF Change
<1>2. CASE PassBegin
  BY <1>2 DEF PassBegin
<1>3. ASSUME NEW t \in Refresher, NEW k \in DOMAIN Order, RefreshBegin(t, k) PROVE SeenAfterAsked'
  BY <1>3 DEF RefreshBegin
<1>4. ASSUME NEW t \in Poller, LockForPoll(t) PROVE SeenAfterAsked'
  BY <1>4 DEF LockForPoll
<1>5. ASSUME NEW t \in Poller, Look(t) PROVE SeenAfterAsked'
  BY <1>5 DEF Look
<1>6. ASSUME NEW t \in Poller, Write(t) PROVE SeenAfterAsked'
  BY <1>6 DEF Write
<1>7. ASSUME NEW t \in Refresher, Answer(t) PROVE SeenAfterAsked'
  BY <1>7 DEF Answer
<1>8. ASSUME NEW t \in Client, NEW k \in DOMAIN Order, Command(t, k) PROVE SeenAfterAsked'
  BY <1>8 DEF Command
<1>9. ASSUME NEW t \in Client, Execute(t) PROVE SeenAfterAsked'
  BY <1>9 DEF Execute
<1>10. ASSUME NEW t \in Client, Reply(t) PROVE SeenAfterAsked'
  <2>1. /\ version' = version /\ cache' = cache /\ on' = on /\ asked' = asked
        /\ \A u \in Client \ {t} : pc'[u] = pc[u]
    BY <1>10 DEF Reply
  <2>2. CASE t \in Poller
    <3>1. PICK ok \in {FALSE, up[At(t)]} :
            seen' = [seen EXCEPT ![t] = [version |-> version[At(t)], ok |-> ok]]
      BY <1>10, <2>2, Zenon DEF Reply
    <3>2. /\ seen'[t].version = version[At(t)]
          /\ \A u \in Poller \ {t} : seen'[u] = seen[u]
      BY <3>1, <2>2
    <3>3. pc[t] = "bercon" /\ pc'[t] = "write"
      BY <1>10, <2>2 DEF Reply
    <3>. QED
      BY <2>1, <3>2, <3>3
  <2>3. CASE t \notin Poller
    <3>1. seen' = seen
      BY <1>10, <2>3, Zenon DEF Reply
    <3>. QED
      BY <2>1, <2>3, <3>1
  <2>. QED
    BY <2>2, <2>3
<1>. QED
  BY <1>1, <1>2, <1>3, <1>4, <1>5, <1>6, <1>7, <1>8, <1>9, <1>10, Zenon DEF Next

\* A manager that starts has seen nothing and nobody asks.
LEMMA IInvInit == Init => IInv
<1> SUFFICES ASSUME Init PROVE IInv
  OBVIOUS
<1>0. 0 \in Version /\ Nothing \in Snapshot /\ Nothing.version = 0
  <2>1. Server # {}
    BY OrderServer
  <2>2. 0 \in Version
    BY <2>1, WithinBound, BoundAssumption
  <2>. QED
    BY <2>2 DEF Nothing, Snapshot
<1>1. TypeOK
  <2>1. busy = (pc["handler"] # "idle")
    BY Threads DEF Init
  <2>. QED
    BY <1>0, <2>1, OrderServer, Threads DEF Init, TypeOK
<1>2. \A s \in Server : /\ version[s] = 0 /\ cache[s].version = 0
                         /\ MaxChanges[s] \in Nat
  BY <1>0, BoundAssumption DEF Init
<1>3. VersionsBounded /\ CacheKnown
  BY <1>2 DEF VersionsBounded, CacheKnown
<1>4. \A t \in Client : pc[t] = "idle"
  BY DEF Init
<1>5. PollLockOwned /\ SeenBetween /\ SeenAfterAsked
  BY <1>4, Threads DEF PollLockOwned, SeenBetween, SeenAfterAsked
<1>. QED
  BY <1>1, <1>3, <1>5 DEF IInv

\* The invariant holds in every reachable state.
THEOREM Invariance == Spec => []IInv
<1>1. IInv /\ [Next]_vars => IInv'
  <2>1. CASE Next
    BY <2>1, TypeNext, LockNext, SeenNext, AskedNext DEF IInv
  <2>2. CASE UNCHANGED vars
    BY <2>2 DEF IInv, TypeOK, VersionsBounded, PollLockOwned, CacheKnown, SeenBetween, SeenAfterAsked, At,
                vars, world, threads
  <2>. QED
    BY <2>1, <2>2
<1>2. QED
  BY IInvInit, <1>1, PTL DEF Spec

\* The types are kept, and the event loop is busy exactly while a handler uses RCON.
THEOREM TypeCorrect == Spec => []TypeOK
<1>1. IInv => TypeOK
  BY DEF IInv
<1>2. QED
  BY <1>1, Invariance, PTL

\* A refresh never answers with players of before it was asked for.
THEOREM RefreshesAreFresh == Spec => []RefreshIsFresh
<1>1. IInv => RefreshIsFresh
  <2> SUFFICES ASSUME IInv, NEW t \in Refresher, pc[t] = "answer" PROVE seen[t].version >= asked[t]
    BY DEF RefreshIsFresh
  <2>1. asked[t] <= seen[t].version
    BY DEF IInv, SeenAfterAsked
  <2>2. asked[t] \in Nat /\ seen[t].version \in Nat
    BY Threads, VersionNat DEF IInv, TypeOK, Snapshot
  <2>. QED
    BY <2>1, <2>2
<1>2. QED
  BY <1>1, Invariance, PTL

\* Whoever polls, what is shown of a server never goes back.
THEOREM ShownNeverOlder == Spec => NeverOlder
<1>1. IInv /\ [Next]_vars => [\A s \in Server : cache'[s].version >= cache[s].version]_vars
  <2> SUFFICES ASSUME IInv, Next, NEW s \in Server PROVE cache'[s].version >= cache[s].version
    OBVIOUS
  <2>0. /\ \A r \in Server : cache[r].version \in Nat
        /\ \A t \in Poller : seen[t].version \in Nat
    BY VersionNat DEF IInv, TypeOK, Snapshot
  <2>1. ASSUME NEW t \in Poller, Write(t) PROVE cache'[s].version >= cache[s].version
    <3>1. At(t) \in Server
      BY OrderServer, Threads DEF IInv, TypeOK, At
    <3>2. cache[At(t)].version <= seen[t].version
      BY <2>1 DEF IInv, SeenBetween, Write
    <3>3. cache' = [cache EXCEPT ![At(t)] = seen[t]]
      BY <2>1 DEF Write
    <3>. QED
      BY <2>0, <3>1, <3>2, <3>3 DEF IInv, TypeOK
  <2>2. CASE UNCHANGED cache
    BY <2>0, <2>2
  <2>. QED
    BY <2>1, <2>2 DEF Next, Change, PassBegin, RefreshBegin, LockForPoll, Look, Answer, Command, Execute, Reply
<1>2. QED
  BY <1>1, Invariance, PTL DEF Spec, NeverOlder
=============================================================================
