-------------------------- MODULE RptSessionsProofs --------------------------
(***************************************************************************)
(* Theorems about RptSessions, for all pollers and bounds.                 *)
(***************************************************************************)
EXTENDS RptSessions, FiniteSetTheorems, TLAPS

\* A start that has launched its process and not yet put its session.
Starting == op = "put" \/ (op \in {"pop", "end"} /\ then = "put")

Begun == {i \in 1 .. used : sess[i].begun # None}

(***************************************************************************)
(* The inductive invariant.  Runs write RPTs in their order, so there is a *)
(* newest one.                                                             *)
(***************************************************************************)
Files ==
  /\ rpt \subseteq 1 .. runs
  /\ \E n \in rpt \cup {None} : \A r \in rpt \cup {None} : r <= n
  /\ \A r \in Run : marker[r] # "none" => r \in rpt

\* Every start creates one session, so there are no more of them than runs.
Counted ==
  /\ Cardinality(Begun) + (IF Starting THEN 1 ELSE 0) <= runs
  /\ Cardinality(Attached) <= MaxAttached

\* Nobody looks for a session before the first run.
SomeRun ==
  /\ alive => runs > 0
  /\ \A p \in Poller : poll[p] # "idle" => runs > 0
  /\ used > 0 => runs > 0

\* The session that is ended has been taken out of the map, and no later one is the same.
Apart ==
  /\ cur <= used /\ held <= used
  /\ op = "end" /\ held # None => held # cur

\* What a poll has built has not been told to stop, and belongs to no start.
BuiltLive == \A p \in Poller : ~built[p].stop /\ built[p].begun = None

\* While a session is replaced the map holds none or one that a poll attached; afterwards it holds the new
\* one until its thread has been started.
Replaced ==
  /\ op \in {"idle", "pop", "put"} => held = None
  /\ op \in {"end", "put"} /\ cur # None => sess[cur].begun = None
  /\ op = "thread" => cur = held /\ cur # None

IInv ==
  /\ TypeOK
  /\ Files
  /\ Counted
  /\ SomeRun
  /\ Apart
  /\ BuiltLive
  /\ MapSessionLive
  /\ Replaced
  /\ StartSessionKept

-----------------------------------------------------------------------------
\* The newest RPT is of a run so far, and no RPT is newer.
LEMMA NewestRun ==
  ASSUME TypeOK, Files
  PROVE  /\ Newest \in rpt \cup {None} /\ Newest \in 0 .. MaxRuns
         /\ Newest # None => Newest \in Run
<1>1. \A r \in rpt \cup {None} : r \in Nat /\ r \in 0 .. MaxRuns
  BY BoundAssumption DEF TypeOK, Run, None
<1>2. PICK n \in rpt \cup {None} : \A r \in rpt \cup {None} : r <= n
  BY DEF Files
<1>3. \A r \in rpt \cup {None} : n >= r
  BY <1>1, <1>2
<1>4. Newest \in rpt \cup {None}
  BY <1>3 DEF Newest, Max
<1>. QED
  BY <1>1, <1>4 DEF TypeOK

\* The RPT a session is to follow.
LEMMA FindsRun ==
  ASSUME TypeOK, Files, NEW run
  PROVE  \A file \in Finds(run) : file \in 0 .. MaxRuns
  BY NewestRun, BoundAssumption DEF Finds, None

\* A new session.
LEMMA NewSessionType ==
  ASSUME NEW run \in 0 .. MaxRuns
  PROVE  /\ NewSession(run) \in Session
         /\ NewSession(run).begun = run /\ NewSession(run).file = None
         /\ ~NewSession(run).stop /\ NewSession(run).phase = "starting"
  BY BoundAssumption DEF NewSession, Session, None

\* A session with one of its fields assigned.
LEMMA SessionFields ==
  ASSUME NEW s \in Session
  PROVE  /\ \A n \in 0 .. MaxRuns : [s EXCEPT !.file = n] \in Session
         /\ \A b \in BOOLEAN : /\ [s EXCEPT !.past = b] \in Session
                               /\ [s EXCEPT !.ready = b] \in Session
                               /\ [s EXCEPT !.stop = b] \in Session
         /\ \A h \in {"starting", "ready", "stopped"} : [s EXCEPT !.phase = h] \in Session
         /\ \A t \in {"none", "runs", "over"} : [s EXCEPT !.thread = t] \in Session
  BY DEF Session

\* Each session was begun by a start or attached by a poll.
LEMMA UsedCounted ==
  ASSUME TypeOK
  PROVE  /\ IsFiniteSet(Begun) /\ IsFiniteSet(Attached)
         /\ Cardinality(Begun) \in Nat /\ Cardinality(Attached) \in Nat
         /\ used = Cardinality(Begun) + Cardinality(Attached)
<1>1. used \in Nat /\ IsFiniteSet(1 .. used) /\ Cardinality(1 .. used) = used
  BY FS_Interval, BoundAssumption DEF TypeOK
<1>2. IsFiniteSet(Begun) /\ IsFiniteSet(Attached)
  BY <1>1, FS_Subset DEF Begun, Attached
<1>3. Begun \cap Attached = {} /\ Begun \cup Attached = 1 .. used
  BY DEF Begun, Attached
<1>4. Cardinality(Begun) \in Nat /\ Cardinality(Attached) \in Nat
  BY <1>2, FS_CardinalityType
<1>5. Cardinality(Begun \cup Attached)
        = Cardinality(Begun) + Cardinality(Attached) - Cardinality(Begun \cap Attached)
  BY <1>2, FS_Union
<1>6. Cardinality(Begun \cap Attached) = 0
  BY <1>3, FS_EmptySet
<1>7. Cardinality(Begun \cup Attached) = used
  BY <1>1, <1>3, Zenon
<1>8. used = Cardinality(Begun) + Cardinality(Attached)
  BY <1>4, <1>5, <1>6, <1>7
<1>. QED
  BY <1>2, <1>4, <1>8, Zenon

\* There is a session object for a start that has launched, and for a poll within its bound.
LEMMA RoomForSession ==
  ASSUME TypeOK, Counted, Starting \/ Cardinality(Attached) < MaxAttached
  PROVE  used + 1 \in Sid
<1>1. runs \in Nat /\ runs <= MaxRuns /\ MaxRuns \in Nat /\ MaxAttached \in Nat
  BY BoundAssumption DEF TypeOK
<1>2. Cardinality(Begun) <= runs /\ (Starting => Cardinality(Begun) + 1 <= runs)
  BY <1>1, UsedCounted DEF Counted
<1>. QED
  BY <1>1, <1>2, UsedCounted DEF Counted, Sid

\* A session that is put into the map is a new one.
LEMMA Registered ==
  ASSUME TypeOK, NEW s \in Session, used + 1 \in Sid, Register(s)
  PROVE  /\ used' = used + 1 /\ cur' = used + 1
         /\ sess' \in [Sid -> Session] /\ sess'[used + 1] = s
         /\ \A i \in Sid : i # used + 1 => sess'[i] = sess[i]
         /\ used' \in 0 .. MaxRuns + MaxAttached /\ cur' \in Sid
         /\ s.begun # None => Begun' = Begun \cup {used + 1} /\ Attached' = Attached
         /\ s.begun = None => Begun' = Begun /\ Attached' = Attached \cup {used + 1}
<1>1. used' = used + 1 /\ cur' = used + 1 /\ sess' = [sess EXCEPT ![used + 1] = s]
  BY DEF Register
<1>2. used \in Nat /\ 1 .. used + 1 = (1 .. used) \cup {used + 1}
  BY BoundAssumption DEF TypeOK
<1>3. \A i \in 1 .. used : i \in Sid /\ i # used + 1
  BY BoundAssumption, <1>2 DEF Sid
<1>4. sess' \in [Sid -> Session] /\ sess'[used + 1] = s
  BY <1>1 DEF TypeOK
<1>5. \A i \in Sid : i # used + 1 => sess'[i] = sess[i]
  BY <1>1 DEF TypeOK
<1>6. used' \in 0 .. MaxRuns + MaxAttached
  BY <1>1, <1>2, BoundAssumption DEF Sid
<1>7. s.begun # None => Begun' = Begun \cup {used + 1} /\ Attached' = Attached
  BY <1>1, <1>2, <1>3, <1>4, <1>5 DEF Begun, Attached
<1>8. s.begun = None => Begun' = Begun /\ Attached' = Attached \cup {used + 1}
  BY <1>1, <1>2, <1>3, <1>4, <1>5 DEF Begun, Attached
<1>. QED
  BY <1>1, <1>4, <1>5, <1>6, <1>7, <1>8

\* Every step keeps the types.
LEMMA TypeNext == IInv /\ Next => TypeOK'
<1> SUFFICES ASSUME IInv, Next PROVE TypeOK'
  OBVIOUS
<1> USE BoundAssumption DEF game, manager, polls
<1>0. TypeOK /\ Files /\ Counted /\ BuiltLive
  BY DEF IInv
<1>1. CASE WriteRpt
  <2>1. runs \in Run
    BY <1>0, <1>1 DEF WriteRpt, TypeOK, Run, IInv, SomeRun
  <2>2. rpt' \subseteq Run
    BY <1>0, <1>1, <2>1 DEF WriteRpt, TypeOK
  <2>. QED
    BY <1>0, <1>1, <2>2 DEF WriteRpt, TypeOK
<1>2. CASE WriteMarker
  BY <1>0, <1>2 DEF WriteMarker, TypeOK
<1>3. CASE Crash
  BY <1>0, <1>3 DEF Crash, TypeOK
<1>4. CASE Launch
  BY <1>0, <1>4 DEF Launch, TypeOK
<1>5. CASE StopServer
  BY <1>0, <1>5 DEF StopServer, TypeOK
<1>6. CASE PopSession
  BY <1>0, <1>6 DEF PopSession, TypeOK
<1>7. CASE EndSession
  <2>1. sess' \in [Sid -> Session]
    <3>1. CASE held = None
      BY <1>0, <1>7, <3>1 DEF EndSession, TypeOK
    <3>2. CASE held # None
      <4>1. sess' = [sess EXCEPT ![held].stop = TRUE, ![held].phase = "stopped", ![held].ready = FALSE]
        BY <1>7, <3>2, Zenon DEF EndSession
      <4>2. sess \in [Sid -> Session]
        BY <1>0 DEF TypeOK
      <4>. QED
        BY <4>1, <4>2, SessionFields
    <3>. QED
      BY <3>1, <3>2
  <2>. QED
    BY <1>0, <1>7, <2>1 DEF EndSession, TypeOK
<1>8. CASE PutSession
  <2>1. used + 1 \in Sid
    BY <1>0, <1>8, RoomForSession DEF PutSession, Starting
  <2>2. NewSession(runs) \in Session
    BY <1>0, NewSessionType DEF TypeOK
  <2>3. sess' \in [Sid -> Session] /\ used' \in 0 .. MaxRuns + MaxAttached /\ cur' \in Sid
    BY <1>0, <1>8, <2>1, <2>2, Registered DEF PutSession
  <2>. QED
    BY <1>0, <1>8, <2>3 DEF PutSession, TypeOK
<1>9. CASE StartThread
  <2>1. sess' \in [Sid -> Session]
    BY <1>0, <1>9, SessionFields DEF StartThread, TypeOK
  <2>. QED
    BY <1>0, <1>9, <2>1 DEF StartThread, TypeOK
<1>10. ASSUME NEW p \in Poller, PollRead(p) PROVE TypeOK'
  BY <1>0, <1>10 DEF PollRead, TypeOK
<1>11. ASSUME NEW p \in Poller, PollLook(p) PROVE TypeOK'
  <2>1. poll' \in [Poller -> {"idle", "look", "attach", "thread"}]
    BY <1>0, <1>11 DEF PollLook, TypeOK
  <2>2. built' \in [Poller -> Session]
    <3>1. CASE UNCHANGED built
      BY <1>0, <3>1 DEF TypeOK
    <3>2. CASE built' = [built EXCEPT ![p] =
                 [NewSession(0) EXCEPT !.file  = Newest,
                                       !.past  = marker[Newest] # "none",
                                       !.ready = marker[Newest] = "tail",
                                       !.phase = IF marker[Newest] = "tail" THEN "ready" ELSE @]]
      <4>1. /\ Newest \in 0 .. MaxRuns
            /\ (marker[Newest] # "none") \in BOOLEAN /\ (marker[Newest] = "tail") \in BOOLEAN
        BY <1>0, NewestRun
      <4>2. ASSUME NEW n \in 0 .. MaxRuns, NEW a \in BOOLEAN, NEW b \in BOOLEAN, NEW h \in {"starting", "ready"}
            PROVE  [NewSession(0) EXCEPT !.file = n, !.past = a, !.ready = b, !.phase = h] \in Session
        <5>1. NewSession(0) \in Session
          BY NewSessionType
        <5>. QED
          BY <5>1, SessionFields
      <4>3. (IF marker[Newest] = "tail" THEN "ready" ELSE NewSession(0).phase) \in {"starting", "ready"}
        BY DEF NewSession
      <4>4. [NewSession(0) EXCEPT !.file  = Newest,
                                  !.past  = marker[Newest] # "none",
                                  !.ready = marker[Newest] = "tail",
                                  !.phase = IF marker[Newest] = "tail" THEN "ready" ELSE @] \in Session
        BY <4>1, <4>2, <4>3, Zenon
      <4>. QED
        BY <1>0, <3>2, <4>4, Zenon DEF TypeOK
    <3>. QED
      BY <1>11, <3>1, <3>2, Zenon DEF PollLook
  <2>. QED
    BY <1>0, <1>11, <2>1, <2>2 DEF PollLook, TypeOK
<1>12. ASSUME NEW p \in Poller, PollAttach(p) PROVE TypeOK'
  <2>1. /\ poll' \in [Poller -> {"idle", "look", "attach", "thread"}]
        /\ built' \in [Poller -> Session]
    BY <1>0, <1>12, NewSessionType DEF PollAttach, TypeOK
  <2>2. CASE UNCHANGED <<cur, sess, used, mine>>
    BY <1>0, <1>12, <2>1, <2>2 DEF PollAttach, TypeOK
  <2>3. CASE /\ Cardinality(Attached) < MaxAttached
             /\ Register(built[p])
             /\ mine' = [mine EXCEPT ![p] = cur']
    <3>1. used + 1 \in Sid /\ built[p] \in Session
      BY <1>0, <2>3, RoomForSession DEF TypeOK
    <3>2. sess' \in [Sid -> Session] /\ used' \in 0 .. MaxRuns + MaxAttached /\ cur' \in Sid
      BY <1>0, <2>3, <3>1, Registered
    <3>. QED
      BY <1>0, <1>12, <2>1, <2>3, <3>2 DEF PollAttach, TypeOK
  <2>. QED
    BY <1>12, <2>2, <2>3, Zenon DEF PollAttach
<1>13. ASSUME NEW p \in Poller, PollStartThread(p) PROVE TypeOK'
  <2>1. sess' \in [Sid -> Session]
    BY <1>0, <1>13, SessionFields DEF PollStartThread, TypeOK
  <2>. QED
    BY <1>0, <1>13, <2>1 DEF PollStartThread, TypeOK
<1>14. ASSUME NEW i \in Sid, Tail(i) PROVE TypeOK'
  <2>1. sess' \in [Sid -> Session]
    <3>a. sess \in [Sid -> Session]
      BY <1>0 DEF TypeOK
    <3>0. sess[i] \in Session /\ sess[i].begun \in 0 .. MaxRuns
      BY <1>0 DEF TypeOK, Session
    <3>1. CASE TailStops(i)
      BY <3>a, <3>1, SessionFields DEF TailStops
    <3>2. CASE TailAttach(i)
      <4>1. PICK file \in Finds(sess[i].begun) :
              sess' = [sess EXCEPT ![i] = IF marker[file] = "tail"
                THEN [@ EXCEPT !.file = file, !.past = TRUE, !.ready = TRUE, !.phase = "ready"]
                ELSE [@ EXCEPT !.file = file, !.past = FALSE]]
        BY <3>2 DEF TailAttach
      <4>0. file \in 0 .. MaxRuns
        BY <1>0, FindsRun
      <4>2. [sess[i] EXCEPT !.file = file, !.past = TRUE, !.ready = TRUE, !.phase = "ready"] \in Session
        BY <3>0, <4>0, SessionFields
      <4>3. [sess[i] EXCEPT !.file = file, !.past = FALSE] \in Session
        BY <3>0, <4>0, SessionFields
      <4>. QED
        BY <3>a, <4>1, <4>2, <4>3
    <3>3. CASE TailGivesUp(i)
      BY <3>a, <3>3, SessionFields DEF TailGivesUp
    <3>4. CASE TailSwitch(i)
      <4>1. PICK newer \in Finds(sess[i].begun) :
              sess' = [sess EXCEPT ![i].file = newer, ![i].past = FALSE]
        BY <3>4 DEF TailSwitch
      <4>2. newer \in 0 .. MaxRuns
        BY <1>0, FindsRun
      <4>. QED
        BY <3>a, <4>1, <4>2, SessionFields
    <3>5. CASE TailRead(i)
      <4> DEFINE h == IF sess[i].ready THEN sess[i].phase ELSE "ready"
      <4>1. h \in {"starting", "ready", "stopped"}
        BY <3>0 DEF Session
      <4>2. sess' = [sess EXCEPT ![i] = [[[sess[i] EXCEPT !.past = TRUE] EXCEPT !.ready = TRUE] EXCEPT !.phase = h]]
        BY <3>a, <3>5, SessionFields DEF TailRead
      <4>3. [[[sess[i] EXCEPT !.past = TRUE] EXCEPT !.ready = TRUE] EXCEPT !.phase = h] \in Session
        BY <3>0, <4>1, SessionFields
      <4>. QED
        BY <3>a, <4>2, <4>3
    <3>. QED
      BY <1>14, <3>1, <3>2, <3>3, <3>4, <3>5, Zenon DEF Tail
  <2>2. UNCHANGED <<game, cur, used, manager, polls>>
    BY <1>14 DEF Tail, TailStops, TailAttach, TailGivesUp, TailSwitch, TailRead
  <2>. QED
    BY <1>0, <2>1, <2>2 DEF TypeOK
<1>. QED
  BY <1>1, <1>2, <1>3, <1>4, <1>5, <1>6, <1>7, <1>8, <1>9, <1>10, <1>11, <1>12, <1>13, <1>14, Zenon
  DEF Next, Operation, Polling

\* RPTs appear in the order of the runs, before their markers.
LEMMA FilesNext == IInv /\ Next => Files'
<1> SUFFICES ASSUME IInv, Next PROVE Files'
  OBVIOUS
<1> USE BoundAssumption DEF game, manager, polls
<1>0. TypeOK /\ Files /\ runs \in Nat
  BY DEF IInv, TypeOK
<1>1. CASE WriteRpt
  <2>1. runs > 0 /\ runs \in 1 .. runs
    BY <1>0, <1>1 DEF WriteRpt, IInv, SomeRun
  <2>2. rpt' \subseteq 1 .. runs /\ runs' = runs /\ marker' = marker
    BY <1>0, <1>1, <2>1 DEF WriteRpt, Files
  <2>3. \A r \in rpt' \cup {None} : r <= runs
    BY <1>0, <2>2 DEF None
  <2>4. runs \in rpt' \cup {None}
    BY <1>1 DEF WriteRpt
  <2>5. \E n \in rpt' \cup {None} : \A r \in rpt' \cup {None} : r <= n
    BY <2>3, <2>4
  <2>6. \A r \in Run : marker'[r] # "none" => r \in rpt'
    BY <1>0, <1>1 DEF WriteRpt, Files
  <2>. QED
    BY <2>2, <2>5, <2>6 DEF Files
<1>2. CASE WriteMarker
  <2>1. \A r \in Run : marker'[r] # "none" => r = runs \/ marker[r] # "none"
    BY <1>0, <1>2 DEF WriteMarker, TypeOK
  <2>2. runs \in rpt /\ rpt' = rpt /\ runs' = runs
    BY <1>2 DEF WriteMarker
  <2>. QED
    BY <1>0, <2>1, <2>2 DEF Files
<1>3. CASE Launch
  <2>1. runs' = runs + 1 /\ rpt' = rpt /\ marker' = marker
    BY <1>3 DEF Launch
  <2>2. 1 .. runs \subseteq 1 .. runs + 1
    BY <1>0
  <2>. QED
    BY <1>0, <2>1, <2>2 DEF Files
<1>4. CASE UNCHANGED <<runs, rpt, marker>>
  BY <1>0, <1>4 DEF Files
<1>. QED
  BY <1>1, <1>2, <1>3, <1>4 DEF Next, Crash, StopServer, Operation, PopSession, EndSession, PutSession,
     StartThread, PollRead, Polling, PollLook, PollAttach, PollStartThread, Tail, TailStops, TailAttach,
     TailGivesUp, TailSwitch, TailRead

\* What a step does to the sessions there are: it begins none of them anew, and tells the one that is
\* ended to stop, and no other.
LEMMA SessionStep ==
  ASSUME IInv, Next, NEW i \in Sid, used' = used + 1 => i # used + 1
  PROVE  /\ sess'[i].begun = sess[i].begun
         /\ sess[i].stop => sess'[i].stop
         /\ sess'[i].stop /\ ~sess[i].stop => op = "end" /\ i = held
<1> USE BoundAssumption DEF game, manager, polls
<1>0. TypeOK /\ Files
  BY DEF IInv
<1>a. sess \in [Sid -> Session] /\ sess[i] \in Session
  BY <1>0 DEF TypeOK
<1>b. sess[i].stop \in BOOLEAN
  BY <1>a DEF Session
<1>1. CASE sess' = sess
  BY <1>1
<1>2. CASE EndSession
  <2>1. CASE held = None
    BY <1>1, <1>2, <2>1 DEF EndSession
  <2>2. CASE held # None
    <3>1. sess' = [sess EXCEPT ![held].stop = TRUE, ![held].phase = "stopped", ![held].ready = FALSE]
      BY <1>2, <2>2, Zenon DEF EndSession
    <3>2. CASE i = held
      <4>1. sess'[i] = [[[sess[i] EXCEPT !.stop = TRUE] EXCEPT !.phase = "stopped"] EXCEPT !.ready = FALSE]
        BY <1>a, <3>1, <3>2, SessionFields
      <4>2. sess'[i].begun = sess[i].begun /\ sess'[i].stop
        BY <1>a, <4>1 DEF Session
      <4>3. op = "end"
        BY <1>2 DEF EndSession
      <4>. QED
        BY <3>2, <4>2, <4>3
    <3>3. CASE i # held
      <4>1. sess'[i] = sess[i]
        BY <1>a, <3>1, <3>3
      <4>. QED
        BY <4>1
    <3>. QED
      BY <3>2, <3>3
  <2>. QED
    BY <2>1, <2>2
<1>3. ASSUME NEW s \in Session, Register(s) PROVE sess'[i] = sess[i]
  <2>1. used' = used + 1 /\ sess' = [sess EXCEPT ![used'] = s]
    BY <1>3 DEF Register
  <2>2. i # used'
    BY <2>1
  <2>. QED
    BY <1>a, <2>1, <2>2
<1>4. ASSUME NEW j, sess' = [sess EXCEPT ![j].thread = "runs"]
      PROVE  sess'[i].begun = sess[i].begun /\ sess'[i].stop = sess[i].stop
  BY <1>a, <1>4 DEF Session
<1>5. CASE PutSession
  BY <1>0, <1>5, <1>3, NewSessionType DEF PutSession, TypeOK
<1>6. CASE StartThread
  BY <1>4, <1>6 DEF StartThread
<1>7. ASSUME NEW p \in Poller, PollAttach(p)
      PROVE  sess'[i] = sess[i]
  <2>1. built[p] \in Session
    BY <1>0 DEF TypeOK
  <2>. QED
    BY <1>3, <1>7, <2>1 DEF PollAttach
<1>8. ASSUME NEW p \in Poller, PollStartThread(p)
      PROVE  sess'[i].begun = sess[i].begun /\ sess'[i].stop = sess[i].stop
  BY <1>4, <1>8 DEF PollStartThread
<1>9. ASSUME NEW j \in Sid, Tail(j), j # i PROVE sess'[i] = sess[i]
  BY <1>a, <1>9 DEF Tail, TailStops, TailAttach, TailGivesUp, TailSwitch, TailRead
<1>10. CASE TailStops(i)
  <2>1. sess'[i] = [sess[i] EXCEPT !.thread = "over"]
    BY <1>a, <1>10 DEF TailStops
  <2>. QED
    BY <1>a, <2>1 DEF Session
<1>11. CASE TailAttach(i)
  <2>1. PICK file \in Finds(sess[i].begun) :
          sess'[i] = IF marker[file] = "tail"
                THEN [sess[i] EXCEPT !.file = file, !.past = TRUE, !.ready = TRUE, !.phase = "ready"]
                ELSE [sess[i] EXCEPT !.file = file, !.past = FALSE]
    BY <1>a, <1>11 DEF TailAttach
  <2>. QED
    BY <1>a, <2>1 DEF Session
<1>12. CASE TailGivesUp(i)
  <2>1. sess'[i] = [[sess[i] EXCEPT !.thread = "over"] EXCEPT !.phase = "stopped"]
    BY <1>a, <1>12, SessionFields DEF TailGivesUp
  <2>. QED
    BY <1>a, <2>1 DEF Session
<1>13. CASE TailSwitch(i)
  <2>1. PICK newer \in Finds(sess[i].begun) : sess' = [sess EXCEPT ![i].file = newer, ![i].past = FALSE]
    BY <1>13 DEF TailSwitch
  <2>2. newer \in 0 .. MaxRuns
    BY <1>0, <2>1, FindsRun
  <2>3. sess'[i] = [[sess[i] EXCEPT !.file = newer] EXCEPT !.past = FALSE]
    BY <1>a, <2>1, <2>2, SessionFields
  <2>. QED
    BY <1>a, <2>3 DEF Session
<1>14. CASE TailRead(i)
  <2>1. sess' = [sess EXCEPT ![i].past = TRUE, ![i].ready = TRUE,
                             ![i].phase = IF sess[i].ready THEN @ ELSE "ready"]
    BY <1>14 DEF TailRead
  <2>2. sess'[i] = [[[sess[i] EXCEPT !.past = TRUE] EXCEPT !.ready = TRUE]
                      EXCEPT !.phase = IF sess[i].ready THEN sess[i].phase ELSE "ready"]
    BY <1>a, <2>1, SessionFields
  <2>. QED
    BY <1>a, <2>2 DEF Session
<1>15. CASE \E j \in Sid : Tail(j)
  BY <1>9, <1>10, <1>11, <1>12, <1>13, <1>14, <1>15, Zenon DEF Tail
<1>16. CASE \E p \in Poller : PollRead(p) \/ Polling(p)
  BY <1>1, <1>7, <1>8, <1>16 DEF PollRead, Polling, PollLook
<1>17. CASE WriteRpt \/ WriteMarker \/ Crash \/ Launch \/ StopServer \/ PopSession
  BY <1>1, <1>17 DEF WriteRpt, WriteMarker, Crash, Launch, StopServer, PopSession
<1>. QED
  BY <1>2, <1>5, <1>6, <1>15, <1>16, <1>17, Zenon DEF Next, Operation

\* Sessions are created by the starts and by the polls only.
LEMMA Creation ==
  ASSUME IInv, Next
  PROVE  \/ used' = used
         \/ PutSession
         \/ \E p \in Poller : PollAttach(p) /\ Register(built[p]) /\ Cardinality(Attached) < MaxAttached
  BY DEF Next, WriteRpt, WriteMarker, Crash, Launch, StopServer, Operation, PopSession, EndSession,
     StartThread, PollRead, Polling, PollLook, PollAttach, PollStartThread, Tail, TailStops, TailAttach,
     TailGivesUp, TailSwitch, TailRead, game, manager, polls

\* A start counts from its launch until it has put its session.
LEMMA StartCounts ==
  ASSUME IInv, Next, ~PutSession
  PROVE  runs' \in Nat /\ runs <= runs' /\ (Starting' => Starting \/ runs' = runs + 1)
<1>1. runs \in Nat
  BY BoundAssumption DEF IInv, TypeOK
<1>2. CASE Launch
  BY <1>1, <1>2 DEF Launch
<1>3. CASE ~Launch
  <2>1. runs' = runs
    BY <1>3 DEF Next, WriteRpt, WriteMarker, Crash, StopServer, Operation, PopSession, EndSession,
       StartThread, PollRead, Polling, PollLook, PollAttach, PollStartThread, Tail, TailStops, TailAttach,
       TailGivesUp, TailSwitch, TailRead, game
  <2>2. CASE StopServer \/ PopSession \/ EndSession \/ StartThread
    BY <1>1, <2>1, <2>2 DEF StopServer, PopSession, EndSession, StartThread, Starting
  <2>3. CASE UNCHANGED <<op, then>>
    BY <1>1, <2>1, <2>3 DEF Starting
  <2>. QED
    BY <1>3, <2>2, <2>3 DEF Next, WriteRpt, WriteMarker, Crash, Operation,
       PollRead, Polling, PollLook, PollAttach, PollStartThread, Tail, TailStops, TailAttach,
       TailGivesUp, TailSwitch, TailRead, manager
<1>. QED
  BY <1>2, <1>3

\* No start has two sessions, and the polls stay within their bound.
LEMMA CountedNext == IInv /\ Next => Counted'
<1> SUFFICES ASSUME IInv, Next PROVE Counted'
  OBVIOUS
<1>0. TypeOK /\ Counted
  BY DEF IInv
<1>1. /\ runs \in Nat /\ runs \in 0 .. MaxRuns /\ MaxAttached \in Nat /\ used \in Nat
      /\ Cardinality(Begun) \in Nat /\ Cardinality(Attached) \in Nat
      /\ IsFiniteSet(Begun) /\ IsFiniteSet(Attached)
  BY <1>0, UsedCounted, BoundAssumption DEF TypeOK
<1>2. Cardinality(Begun) + (IF Starting THEN 1 ELSE 0) <= runs /\ Cardinality(Attached) <= MaxAttached
  BY <1>0 DEF Counted
<1>3. CASE used' = used /\ ~PutSession
  <2>1. \A i \in 1 .. used : i \in Sid /\ sess'[i].begun = sess[i].begun
    <3>1. \A i \in 1 .. used : i \in Sid
      BY <1>0, BoundAssumption DEF TypeOK, Sid
    <3>2. used' # used + 1
      BY <1>1, <1>3
    <3>. QED
      BY <3>1, <3>2, SessionStep
  <2>2. Begun' = Begun /\ Attached' = Attached
    BY <1>3, <2>1 DEF Begun, Attached
  <2>3. runs' \in Nat /\ runs <= runs' /\ (Starting' => Starting \/ runs' = runs + 1)
    BY <1>3, StartCounts
  <2>4. Cardinality(Begun) + (IF Starting' THEN 1 ELSE 0) <= runs'
    BY <1>1, <1>2, <2>3
  <2>. QED
    BY <1>2, <2>2, <2>4 DEF Counted
<1>4. CASE PutSession
  <2>1. Starting /\ ~Starting' /\ runs' = runs
    BY <1>4 DEF PutSession, Starting, game
  <2>2. runs # None
    BY <1>1, <1>2, <2>1 DEF None
  <2>3. used + 1 \in Sid /\ NewSession(runs) \in Session /\ NewSession(runs).begun = runs
    BY <1>0, <1>1, <2>1, RoomForSession, NewSessionType
  <2>4. Begun' = Begun \cup {used + 1} /\ Attached' = Attached
    BY <1>0, <1>4, <2>2, <2>3, Registered DEF PutSession
  <2>5. used + 1 \notin Begun
    BY <1>1 DEF Begun
  <2>6. Cardinality(Begun') = Cardinality(Begun) + 1
    BY <1>1, <2>4, <2>5, FS_AddElement
  <2>7. Cardinality(Begun') <= runs
    BY <1>1, <1>2, <2>1, <2>6
  <2>8. Cardinality(Begun') + (IF Starting' THEN 1 ELSE 0) <= runs'
    BY <1>1, <2>1, <2>6, <2>7
  <2>. QED
    BY <1>2, <2>4, <2>8 DEF Counted
<1>5. ASSUME NEW p \in Poller, PollAttach(p), Register(built[p]), Cardinality(Attached) < MaxAttached
      PROVE  Counted'
  <2>1. UNCHANGED <<runs, op, then>>
    BY <1>5 DEF PollAttach, game, manager
  <2>2. used + 1 \in Sid /\ built[p] \in Session /\ built[p].begun = None
    BY <1>0, <1>5, RoomForSession DEF TypeOK, IInv, BuiltLive
  <2>3. Begun' = Begun /\ Attached' = Attached \cup {used + 1}
    BY <1>0, <1>5, <2>2, Registered
  <2>4. Cardinality(Attached') <= Cardinality(Attached) + 1 /\ Cardinality(Attached') \in Nat
    <3>1. used + 1 \notin Attached
      BY <1>1 DEF Attached
    <3>2. Cardinality(Attached') = Cardinality(Attached) + 1
      BY <1>1, <2>3, <3>1, FS_AddElement
    <3>. QED
      BY <1>1, <3>2
  <2>5. Cardinality(Attached') <= MaxAttached
    BY <1>1, <1>5, <2>4
  <2>6. Starting' = Starting
    BY <2>1 DEF Starting
  <2>. QED
    BY <1>2, <2>1, <2>3, <2>5, <2>6 DEF Counted
<1>. QED
  BY <1>3, <1>4, <1>5, Creation

\* A process, a poll and a session each have a run before them.
LEMMA SomeRunNext == IInv /\ Next => SomeRun'
<1> SUFFICES ASSUME IInv, Next PROVE SomeRun'
  OBVIOUS
<1> USE DEF game, manager, polls
<1>0. TypeOK /\ SomeRun /\ runs \in Nat /\ used \in Nat
  BY BoundAssumption DEF IInv, TypeOK
<1>1. CASE PutSession
  <2>1. runs > 0
    BY <1>0, <1>1, UsedCounted DEF PutSession, IInv, Counted, Starting
  <2>. QED
    BY <1>0, <1>1, <2>1 DEF PutSession, SomeRun
<1>2. ASSUME NEW p \in Poller, PollAttach(p) PROVE SomeRun'
  <2>1. runs > 0 /\ runs' = runs
    BY <1>0, <1>2 DEF PollAttach, SomeRun
  <2>. QED
    BY <1>2, <2>1 DEF SomeRun
<1>3. ASSUME NEW p \in Poller, PollRead(p) \/ PollLook(p) \/ PollStartThread(p) PROVE SomeRun'
  <2>1. UNCHANGED <<alive, runs, used>> /\ (poll[p] # "idle" \/ alive \/ poll' = [poll EXCEPT ![p] = "idle"])
    BY <1>3 DEF PollRead, PollLook, PollStartThread
  <2>2. \A q \in Poller \ {p} : poll'[q] = poll[q]
    BY <1>0, <1>3 DEF PollRead, PollLook, PollStartThread, TypeOK
  <2>3. poll'[p] # "idle" => runs > 0
    BY <1>0, <2>1 DEF SomeRun, TypeOK
  <2>. QED
    BY <1>0, <2>1, <2>2, <2>3 DEF SomeRun
<1>4. CASE Launch
  BY <1>0, <1>4 DEF Launch, SomeRun
<1>5. CASE UNCHANGED <<runs, poll, used>> /\ (alive' => alive)
  BY <1>0, <1>5 DEF SomeRun
<1>6. CASE \E p \in Poller : PollRead(p) \/ Polling(p)
  BY <1>2, <1>3, <1>6, Zenon DEF Polling
<1>7. CASE \E i \in Sid : Tail(i)
  <2>1. UNCHANGED <<game, used, polls>>
    BY <1>7, Zenon DEF Tail, TailStops, TailAttach, TailGivesUp, TailSwitch, TailRead
  <2>. QED
    BY <1>5, <2>1
<1>8. CASE WriteRpt \/ WriteMarker \/ Crash \/ StopServer \/ PopSession \/ EndSession \/ StartThread
  BY <1>5, <1>8 DEF WriteRpt, WriteMarker, Crash, StopServer, PopSession, EndSession, StartThread
<1>. QED
  BY <1>1, <1>4, <1>6, <1>7, <1>8, Zenon DEF Next, Operation

\* A session is ended only once it is out of the map.
LEMMA ApartNext == IInv /\ Next => Apart'
<1> SUFFICES ASSUME IInv, Next PROVE Apart'
  OBVIOUS
<1> USE DEF game, manager, polls
<1>0. TypeOK /\ Apart /\ used \in Nat /\ cur \in Nat /\ held \in Nat
  BY BoundAssumption DEF IInv, TypeOK, Sid, None
<1>1. CASE PopSession
  BY <1>0, <1>1 DEF PopSession, Apart, None
<1>2. CASE EndSession \/ StartThread
  <2>1. held' = None /\ cur' = cur /\ used' = used
    BY <1>2 DEF EndSession, StartThread
  <2>. QED
    BY <1>0, <2>1 DEF Apart, None
<1>3. CASE PutSession
  <2>1. used' = used + 1 /\ cur' = used + 1 /\ held' = used + 1 /\ op' = "thread"
    BY <1>3 DEF PutSession, Register
  <2>. QED
    BY <1>0, <2>1 DEF Apart
<1>4. ASSUME NEW p \in Poller, PollAttach(p), Register(built[p]) PROVE Apart'
  <2>1. used' = used + 1 /\ cur' = used + 1 /\ held' = held
    BY <1>4 DEF PollAttach, Register
  <2>. QED
    BY <1>0, <2>1 DEF Apart
<1>5. CASE Launch \/ StopServer
  BY <1>0, <1>5 DEF Launch, StopServer, Apart
<1>6. CASE UNCHANGED <<cur, used, held, op>>
  BY <1>0, <1>6 DEF Apart
<1>. QED
  BY <1>1, <1>2, <1>3, <1>4, <1>5, <1>6 DEF Next, WriteRpt, WriteMarker, Crash, Operation,
     PollRead, Polling, PollLook, PollAttach, PollStartThread, Tail, TailStops, TailAttach, TailGivesUp,
     TailSwitch, TailRead

\* A poll builds a session that runs and that no start has begun.
LEMMA BuiltNext == IInv /\ Next => BuiltLive'
<1> SUFFICES ASSUME IInv, Next PROVE BuiltLive'
  OBVIOUS
<1> USE DEF game, manager, polls
<1>0. TypeOK /\ BuiltLive /\ built \in [Poller -> Session]
  BY DEF IInv, TypeOK
<1>a. 0 \in 0 .. MaxRuns /\ NewSession(0) \in Session /\ ~NewSession(0).stop /\ NewSession(0).begun = None
  BY BoundAssumption, NewSessionType DEF None
<1>1. ASSUME NEW p \in Poller, PollLook(p) PROVE BuiltLive'
  <2>1. CASE UNCHANGED built
    BY <1>0, <2>1 DEF BuiltLive
  <2>2. CASE built' = [built EXCEPT ![p] =
                 [NewSession(0) EXCEPT !.file  = Newest,
                                       !.past  = marker[Newest] # "none",
                                       !.ready = marker[Newest] = "tail",
                                       !.phase = IF marker[Newest] = "tail" THEN "ready" ELSE @]]
    <3>1. ~built'[p].stop /\ built'[p].begun = None
      BY <1>0, <2>2 DEF NewSession, None
    <3>. QED
      BY <1>0, <2>2, <3>1 DEF BuiltLive
  <2>. QED
    BY <1>1, <2>1, <2>2, Zenon DEF PollLook
<1>2. ASSUME NEW p \in Poller, PollAttach(p) PROVE BuiltLive'
  BY <1>0, <1>2, <1>a DEF PollAttach, BuiltLive
<1>3. CASE UNCHANGED built
  BY <1>0, <1>3 DEF BuiltLive
<1>. QED
  BY <1>1, <1>2, <1>3 DEF Next, WriteRpt, WriteMarker, Crash, Launch, StopServer, Operation, PopSession,
     EndSession, PutSession, StartThread, PollRead, Polling, PollStartThread, Tail, TailStops,
     TailAttach, TailGivesUp, TailSwitch, TailRead

\* What a step does to the map: it takes the session out, or puts a new one that runs.
LEMMA MapStep ==
  ASSUME IInv, Next
  PROVE  \/ cur' = None
         \/ cur' = cur /\ used' = used
         \/ /\ used + 1 \in Sid /\ cur' = used + 1 /\ used' = used + 1
            /\ ~sess'[used + 1].stop
            /\ ~PutSession => cur = None /\ sess'[used + 1].begun = None
<1>0. TypeOK
  BY DEF IInv
<1>1. CASE PutSession
  <2>1. used + 1 \in Sid
    BY <1>0, <1>1, RoomForSession DEF PutSession, Starting, IInv
  <2>2. NewSession(runs) \in Session /\ ~NewSession(runs).stop
    BY <1>0, NewSessionType DEF TypeOK
  <2>. QED
    BY <1>0, <1>1, <2>1, <2>2, Registered DEF PutSession
<1>2. ASSUME NEW p \in Poller, PollAttach(p), Register(built[p]), Cardinality(Attached) < MaxAttached
      PROVE  /\ used + 1 \in Sid /\ cur' = used + 1 /\ used' = used + 1
             /\ ~sess'[used + 1].stop
             /\ sess'[used + 1].begun = None
  <2>1. used + 1 \in Sid /\ built[p] \in Session /\ built[p].begun = None /\ ~built[p].stop
    BY <1>0, <1>2, RoomForSession DEF TypeOK, IInv, BuiltLive
  <2>. QED
    BY <1>0, <1>2, <2>1, Registered
<1>3. ASSUME NEW p \in Poller, PollAttach(p), ~Register(built[p]) PROVE cur' = cur /\ used' = used
  BY <1>3 DEF PollAttach
<1>4. CASE PopSession
  BY <1>4 DEF PopSession
<1>5. CASE cur' = cur /\ used' = used
  BY <1>5
<1>. QED
  BY <1>1, <1>2, <1>3, <1>4, <1>5, Creation DEF Next, WriteRpt, WriteMarker, Crash, Launch, StopServer,
     Operation, EndSession, StartThread, PollRead, Polling, PollLook, PollAttach, PollStartThread, Tail,
     TailStops, TailAttach, TailGivesUp, TailSwitch, TailRead, game, manager, polls

\* A session that is in the map stays there until it is taken out or a start puts its own.
LEMMA MapKept ==
  ASSUME IInv, Next, ~PopSession, ~PutSession
  PROVE  cur' = cur \/ cur = None
<1>1. ASSUME NEW p \in Poller, PollAttach(p) PROVE cur' = cur \/ cur = None
  BY <1>1 DEF PollAttach
<1>. QED
  BY <1>1 DEF Next, WriteRpt, WriteMarker, Crash, Launch, StopServer, Operation, EndSession, StartThread,
     PollRead, Polling, PollLook, PollStartThread, Tail, TailStops, TailAttach, TailGivesUp, TailSwitch,
     TailRead, game, manager, polls

\* The session of the map is not the one that is ended.
LEMMA LiveNext == IInv /\ Next => MapSessionLive'
<1> SUFFICES ASSUME IInv, Next, cur' # None PROVE ~sess'[cur'].stop
  BY DEF MapSessionLive
<1>0. TypeOK /\ Apart /\ MapSessionLive /\ used \in Nat
  BY BoundAssumption DEF IInv, TypeOK
<1>1. CASE cur' = cur /\ used' = used
  <2>1. cur \in Sid /\ used' # used + 1
    BY <1>0, <1>1 DEF TypeOK
  <2>2. sess'[cur].stop /\ ~sess[cur].stop => op = "end" /\ cur = held
    BY <2>1, SessionStep
  <2>3. held = cur => op # "end"
    BY <1>0, <1>1 DEF Apart
  <2>. QED
    BY <1>0, <1>1, <2>2, <2>3 DEF MapSessionLive
<1>2. CASE cur' # cur \/ used' # used
  BY <1>2, MapStep
<1>. QED
  BY <1>1, <1>2

\* A session is taken out of the map before it is ended, and nothing else leaves the map before that.
LEMMA ReplacedNext == IInv /\ Next => Replaced'
<1> SUFFICES ASSUME IInv, Next PROVE Replaced'
  OBVIOUS
<1> USE DEF game, manager, polls
<1>0. TypeOK /\ Replaced /\ used \in Nat
  BY BoundAssumption DEF IInv, TypeOK
<1>1. CASE PopSession
  BY <1>0, <1>1 DEF PopSession, Replaced
<1>2. CASE EndSession
  <2>1. cur' = cur /\ used' = used /\ held' = None /\ op' = then /\ op = "end" /\ then \in {"idle", "put"}
    BY <1>0, <1>2 DEF EndSession, TypeOK
  <2>2. cur # None => cur \in Sid /\ sess'[cur].begun = sess[cur].begun
    <3>1. used' # used + 1
      BY <1>0, <2>1
    <3>. QED
      BY <1>0, <3>1, SessionStep DEF TypeOK
  <2>. QED
    BY <1>0, <2>1, <2>2 DEF Replaced
<1>3. CASE PutSession
  <2>1. held' = cur' /\ cur' = used + 1 /\ op' = "thread"
    BY <1>3 DEF PutSession, Register
  <2>. QED
    BY <1>0, <2>1 DEF Replaced, None
<1>4. CASE StartThread
  BY <1>4 DEF StartThread, Replaced
<1>5. CASE Launch \/ StopServer
  BY <1>0, <1>5 DEF Launch, StopServer, Replaced
<1>6. CASE UNCHANGED <<op, held>> /\ ~PutSession
  <2>1. CASE cur' = cur /\ used' = used
    <3>1. cur # None => cur \in Sid /\ sess'[cur].begun = sess[cur].begun
      <4>1. used' # used + 1
        BY <1>0, <2>1
      <4>. QED
        BY <1>0, <4>1, SessionStep DEF TypeOK
    <3>. QED
      BY <1>0, <1>6, <2>1, <3>1 DEF Replaced
  <2>2. CASE cur' = None
    <3>1. cur = None \/ PopSession
      BY <1>0, <1>6, <2>2, MapKept
    <3>2. ~PopSession \/ op' # op
      BY DEF PopSession
    <3>. QED
      BY <1>0, <1>6, <2>2, <3>1, <3>2 DEF Replaced
  <2>3. CASE cur = None /\ cur' = used + 1 /\ sess'[used + 1].begun = None
    BY <1>0, <1>6, <2>3 DEF Replaced
  <2>. QED
    BY <1>6, <2>1, <2>2, <2>3, MapStep
<1>. QED
  BY <1>1, <1>2, <1>3, <1>4, <1>5, <1>6 DEF Next, WriteRpt, WriteMarker, Crash, Operation,
     PollRead, Polling, PollLook, PollAttach, PollStartThread, Tail, TailStops, TailAttach, TailGivesUp,
     TailSwitch, TailRead

\* A session of a start leaves the map only to be told to stop.
LEMMA StartNext == IInv /\ Next => StartSessionKept'
<1> SUFFICES ASSUME IInv, Next, NEW i \in 1 .. used', sess'[i].begun # None, ~sess'[i].stop
             PROVE  i \in {cur', held'}
  BY DEF StartSessionKept
<1> USE DEF game, manager, polls
<1>0. TypeOK /\ Apart /\ Replaced /\ StartSessionKept /\ used \in Nat /\ MaxRuns \in Nat /\ MaxAttached \in Nat
  BY BoundAssumption DEF IInv, TypeOK
<1>1. CASE used' = used + 1 /\ i = used + 1
  <2>1. used' # used /\ None # used + 1
    BY <1>0, <1>1 DEF None
  <2>2. cur' = used + 1
    BY <1>1, <2>1, Creation DEF PutSession, Register
  <2>. QED
    BY <1>1, <2>2
<1>2. CASE ~(used' = used + 1 /\ i = used + 1)
  <2>1. i \in 1 .. used
    BY <1>0, <1>2, Creation DEF PutSession, Register
  <2>2. i \in Sid /\ i # None
    BY <1>0, <2>1 DEF Sid, TypeOK, None
  <2>3. used' = used + 1 => i # used + 1
    BY <1>2
  <2>4. sess[i].begun # None /\ ~sess[i].stop
    BY <2>2, <2>3, SessionStep
  <2>5. i \in {cur, held}
    BY <1>0, <2>1, <2>4 DEF StartSessionKept
  <2>6. CASE PopSession
    BY <1>0, <2>2, <2>5, <2>6 DEF PopSession, Replaced
  <2>7. CASE EndSession
    <3>1. i # held
      <4> SUFFICES ASSUME i = held PROVE FALSE
        OBVIOUS
      <4>1. sess' = [sess EXCEPT ![held].stop = TRUE, ![held].phase = "stopped", ![held].ready = FALSE]
        BY <2>2, <2>7, Zenon DEF EndSession
      <4>2. sess \in [Sid -> Session] /\ sess[i] \in Session
        BY <1>0, <2>2 DEF TypeOK
      <4>3. sess'[i] = [[[sess[i] EXCEPT !.stop = TRUE] EXCEPT !.phase = "stopped"] EXCEPT !.ready = FALSE]
        BY <2>2, <4>1, <4>2, SessionFields
      <4>4. sess'[i].stop
        BY <4>2, <4>3 DEF Session
      <4>. QED
        BY <4>4
    <3>. QED
      BY <2>5, <2>7, <3>1 DEF EndSession
  <2>8. CASE PutSession
    <3>1. op = "put"
      BY <2>8 DEF PutSession
    <3>. QED
      BY <1>0, <2>2, <2>4, <2>5, <3>1 DEF Replaced
  <2>9. CASE StartThread
    BY <1>0, <2>5, <2>9 DEF StartThread, Replaced
  <2>10. CASE held' = held /\ (cur' = cur \/ cur = None)
    BY <2>2, <2>5, <2>10
  <2>. QED
    BY <2>6, <2>7, <2>8, <2>9, <2>10, MapKept DEF Next, WriteRpt, WriteMarker, Crash, Launch, StopServer,
       Operation, PollRead, Polling, PollLook, PollAttach, PollStartThread, Tail, TailStops, TailAttach,
       TailGivesUp, TailSwitch, TailRead
<1>. QED
  BY <1>1, <1>2

\* A manager that starts has no session; the server may have run before it.
LEMMA IInvInit == Init => IInv
<1> SUFFICES ASSUME Init PROVE IInv
  OBVIOUS
<1> USE BoundAssumption
<1>0. /\ runs \in {0, 1} /\ alive \in {FALSE, runs = 1} /\ rpt \in SUBSET (1 .. runs)
      /\ marker \in [Run -> {"none", "tail", "far"}]
      /\ \A r \in Run : marker[r] # "none" => r \in rpt
  BY DEF Init
<1>1. NewSession(0) \in Session /\ ~NewSession(0).stop /\ NewSession(0).begun = None
  BY NewSessionType DEF None
<1>2. TypeOK
  <2>1. alive \in BOOLEAN
    BY <1>0
  <2>2. runs \in 0 .. MaxRuns /\ rpt \subseteq Run /\ used \in 0 .. MaxRuns + MaxAttached
    BY <1>0 DEF Run, Init
  <2>3. sess \in [Sid -> Session] /\ built \in [Poller -> Session]
    BY <1>1 DEF Init
  <2>. QED
    BY <1>0, <2>1, <2>2, <2>3 DEF Init, TypeOK
<1>3. Files
  <2>1. rpt = {} \/ rpt = {1}
    <3>1. rpt \subseteq {1}
      BY <1>0
    <3>. QED
      BY <3>1
  <2>2. \E n \in rpt \cup {None} : \A r \in rpt \cup {None} : r <= n
    <3>1. CASE rpt = {}
      BY <3>1 DEF None
    <3>2. CASE rpt = {1}
      BY <3>2 DEF None
    <3>. QED
      BY <2>1, <3>1, <3>2
  <2>. QED
    BY <1>0, <2>2 DEF Files
<1>4. Counted
  <2>1. used = 0 /\ op = "idle"
    BY DEF Init
  <2>2. Begun = {} /\ Attached = {}
    BY <2>1 DEF Begun, Attached
  <2>3. Cardinality(Begun) = 0 /\ Cardinality(Attached) = 0
    BY <2>2, FS_EmptySet
  <2>. QED
    BY <1>0, <2>1, <2>3 DEF Counted, Starting
<1>5. SomeRun
  <2>1. alive => runs = 1
    <3>1. alive = FALSE \/ alive = (runs = 1)
      BY <1>0, Zenon
    <3>. QED
      BY <3>1
  <2>2. used = 0 /\ \A p \in Poller : poll[p] = "idle"
    BY DEF Init
  <2>. QED
    BY <2>1, <2>2 DEF SomeRun
<1>6. Apart /\ MapSessionLive
  BY DEF Apart, MapSessionLive, Init, None
<1>7. BuiltLive
  BY <1>1 DEF BuiltLive, Init
<1>8. Replaced /\ StartSessionKept
  BY DEF Replaced, StartSessionKept, Init, None
<1>. QED
  BY <1>2, <1>3, <1>4, <1>5, <1>6, <1>7, <1>8 DEF IInv

\* The invariant holds in every reachable state.
THEOREM Invariance == Spec => []IInv
<1>1. IInv /\ [Next]_vars => IInv'
  <2>1. CASE Next
    BY <2>1, TypeNext, FilesNext, CountedNext, SomeRunNext, ApartNext, BuiltNext, LiveNext,
       ReplacedNext, StartNext DEF IInv
  <2>2. CASE UNCHANGED vars
    BY <2>2 DEF IInv, TypeOK, Files, Counted, Begun, Attached, Starting, SomeRun, Apart, BuiltLive,
                MapSessionLive, Replaced, StartSessionKept, vars, game, manager, polls
  <2>. QED
    BY <2>1, <2>2
<1>2. QED
  BY IInvInit, <1>1, PTL DEF Spec

\* The types are kept: the session objects suffice for the starts and the polls there are.
THEOREM TypeCorrect == Spec => []TypeOK
<1>1. IInv => TypeOK
  BY DEF IInv
<1>2. QED
  BY <1>1, Invariance, PTL

\* The status is never read from a session that was told to stop.
THEOREM MapNeverStopped == Spec => []MapSessionLive
<1>1. IInv => MapSessionLive
  BY DEF IInv
<1>2. QED
  BY <1>1, Invariance, PTL

\* However polls attach, the session of a start is the one in the map until it is told to stop.
THEOREM StartsKeepTheirSession == Spec => []StartSessionKept
<1>1. IInv => StartSessionKept
  BY DEF IInv
<1>2. QED
  BY <1>1, Invariance, PTL
=============================================================================
