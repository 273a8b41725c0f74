------------------------------ MODULE RptSessions ------------------------------
(***************************************************************************)
(* The RPT sessions of one server: core/server_rpt_watcher.py.             *)
(*                                                                         *)
(* The thread that starts or stops the server (one at a time, see          *)
(* ServerManager) ends and begins sessions; status polls attach one where  *)
(* there is none; every session has a thread that follows the newest RPT   *)
(* and looks for the READY marker.  _lock covers single accesses to        *)
(* _sessions only.                                                         *)
(*                                                                         *)
(* Each run of the game server writes an RPT of its own.  Of its lines     *)
(* only the first READY marker counts, and whether the last 128 KB still   *)
(* hold it.  A session also takes an RPT of an earlier run while its last  *)
(* line is less than 120 s old: at any look that may be so or not.         *)
(***************************************************************************)
EXTENDS Naturals, FiniteSetsExt

CONSTANTS
  Poller,       \* threads of GET /api/servers and of the websockets
  MaxRuns,      \* bound on the runs of the game server
  MaxAttached   \* bound on the sessions attached by polls

ASSUME BoundAssumption == MaxRuns \in Nat \ {0} /\ MaxAttached \in Nat

Run == 1 .. MaxRuns
Sid == 1 .. MaxRuns + MaxAttached
None == 0

VARIABLES
  alive, runs,    \* a process of the server; processes so far
  rpt, marker,    \* runs that have an RPT; where the READY marker of each is
  cur,            \* _sessions[server]
  sess, used,     \* the session objects; how many were created
  op, held, then,    \* end_session or begin_session under way, its session, what follows
  poll, built,    \* status polls, and the session each is building
  mine            \* the session a poll has put into the map

game    == <<alive, runs, rpt, marker>>
manager == <<op, held, then>>
polls   == <<poll, built, mine>>
vars    == <<game, cur, sess, used, manager, polls>>

Session == [begun  : 0 .. MaxRuns,   \* the run whose start began it, 0: attached by a poll
            file   : 0 .. MaxRuns,   \* rpt_path
            past   : BOOLEAN,        \* file_pos is behind the marker
            ready  : BOOLEAN,        \* ready_once
            phase  : {"starting", "ready", "stopped"},
            stop   : BOOLEAN,        \* stop_event
            thread : {"none", "runs", "over"}]

NewSession(run) ==
  [begun |-> run, file |-> None, past |-> FALSE, ready |-> FALSE,
   phase |-> "starting", stop |-> FALSE, thread |-> "none"]

\* _sessions[server] = session, under _lock.
Register(session) ==
  /\ used' = used + 1
  /\ cur' = used'
  /\ sess' = [sess EXCEPT ![used'] = session]

Newest == Max(rpt \cup {None})

Init ==
  /\ runs \in {0, 1}
  /\ alive \in {FALSE, runs = 1}
  /\ rpt \in SUBSET (1 .. runs)
  /\ marker \in [Run -> {"none", "tail", "far"}]
  /\ \A r \in Run : marker[r] # "none" => r \in rpt
  /\ cur = None
  /\ sess = [i \in Sid |-> NewSession(0)]
  /\ used = 0
  /\ op = "idle" /\ held = None /\ then = "idle"
  /\ poll = [p \in Poller |-> "idle"]
  /\ built = [p \in Poller |-> NewSession(0)]
  /\ mine = [p \in Poller |-> None]

(***************************************************************************)
(* The game server.                                                        *)
(***************************************************************************)
WriteRpt ==
  /\ alive /\ runs \notin rpt
  /\ rpt' = rpt \cup {runs}
  /\ UNCHANGED <<alive, runs, marker, cur, sess, used, manager, polls>>

\* The marker is written, and later the file grows past it.
WriteMarker ==
  /\ alive /\ runs \in rpt
  /\ marker[runs] # "far"
  /\ marker' = [marker EXCEPT ![runs] = IF @ = "none" THEN "tail" ELSE "far"]
  /\ UNCHANGED <<alive, runs, rpt, cur, sess, used, manager, polls>>

Crash ==
  /\ alive
  /\ alive' = FALSE
  /\ UNCHANGED <<runs, rpt, marker, cur, sess, used, manager, polls>>

(***************************************************************************)
(* Starts and stops.                                                       *)
(***************************************************************************)
\* Popen in _start_server_locked; begin_session follows.
Launch ==
  /\ op = "idle" /\ ~alive /\ runs < MaxRuns
  /\ alive' = TRUE
  /\ runs' = runs + 1
  /\ op' = "pop" /\ then' = "put"
  /\ UNCHANGED <<rpt, marker, cur, sess, used, held, polls>>

\* A stop that has seen the server die, or a failed start that killed its process.
StopServer ==
  /\ op = "idle"
  /\ alive \/ cur # None
  /\ alive' = FALSE
  /\ op' = "pop" /\ then' = "idle"
  /\ UNCHANGED <<runs, rpt, marker, cur, sess, used, held, polls>>

\* Mutant: end_session leaves the session in the map.
PopSessionKeeping ==
  /\ op = "pop"
  /\ held' = cur
  /\ op' = "end"
  /\ UNCHANGED <<game, cur, sess, used, then, polls>>

PopSession ==
  /\ op = "pop"
  /\ held' = cur
  /\ cur' = None
  /\ op' = "end"
  /\ UNCHANGED <<game, sess, used, then, polls>>

\* Mutant: a phase the status does not know.
EndSessionOddPhase ==
  /\ op = "end"
  /\ sess' = IF held = None THEN sess
             ELSE [sess EXCEPT ![held].stop = TRUE, ![held].phase = "ended",
                               ![held].ready = FALSE]
  /\ held' = None
  /\ op' = then
  /\ UNCHANGED <<game, cur, used, then, polls>>

\* The rest of end_session.  The join gives up after 3 s: the thread may run on.
EndSession ==
  /\ op = "end"
  /\ sess' = IF held = None THEN sess
             ELSE [sess EXCEPT ![held].stop = TRUE, ![held].phase = "stopped",
                               ![held].ready = FALSE]
  /\ held' = None
  /\ op' = then
  /\ UNCHANGED <<game, cur, used, then, polls>>

\* begin_session does not look what is in the map.
PutSession ==
  /\ op = "put"
  /\ Register(NewSession(runs))
  /\ held' = cur'
  /\ op' = "thread"
  /\ UNCHANGED <<game, then, polls>>

StartThread ==
  /\ op = "thread"
  /\ sess' = [sess EXCEPT ![held].thread = "runs"]
  /\ held' = None
  /\ op' = "idle"
  /\ UNCHANGED <<game, cur, used, then, polls>>

(***************************************************************************)
(* get_startup_info of a status poll.                                      *)
(***************************************************************************)
\* is_running; the answer for a server that is down touches no session.
PollRead(p) ==
  /\ poll[p] = "idle"
  /\ poll' = [poll EXCEPT ![p] = IF alive THEN "look" ELSE "idle"]
  /\ UNCHANGED <<game, cur, sess, used, manager, built, mine>>

\* sync_process_state, and _lazy_attach up to its second look at the map.
PollLook(p) ==
  /\ poll[p] = "look"
  /\ IF cur # None \/ rpt = {}
       THEN poll' = [poll EXCEPT ![p] = "idle"] /\ UNCHANGED built
       ELSE /\ poll' = [poll EXCEPT ![p] = "attach"]
            /\ built' = [built EXCEPT ![p] =
                 [NewSession(0) EXCEPT !.file  = Newest,
                                       !.past  = marker[Newest] # "none",
                                       !.ready = marker[Newest] = "tail",
                                       !.phase = IF marker[Newest] = "tail" THEN "ready" ELSE @]]
  /\ UNCHANGED <<game, cur, sess, used, manager, mine>>

Attached == {i \in 1 .. used : sess[i].begun = None}

\* Mutant: without the second look at the map.
PollAttachBlind(p) ==
  /\ poll[p] = "attach"
  /\ built' = [built EXCEPT ![p] = NewSession(0)]
  /\ Cardinality(Attached) < MaxAttached
  /\ Register(built[p])
  /\ mine' = [mine EXCEPT ![p] = cur']
  /\ poll' = [poll EXCEPT ![p] = "thread"]
  /\ UNCHANGED <<game, manager>>

PollAttach(p) ==
  /\ poll[p] = "attach"
  /\ built' = [built EXCEPT ![p] = NewSession(0)]
  /\ \/ /\ cur # None
        /\ poll' = [poll EXCEPT ![p] = "idle"]
        /\ UNCHANGED <<cur, sess, used, mine>>
     \/ /\ cur = None /\ Cardinality(Attached) < MaxAttached
        /\ Register(built[p])
        /\ mine' = [mine EXCEPT ![p] = cur']
        /\ poll' = [poll EXCEPT ![p] = "thread"]
  /\ UNCHANGED <<game, manager>>

PollStartThread(p) ==
  /\ poll[p] = "thread"
  /\ sess' = [sess EXCEPT ![mine[p]].thread = "runs"]
  /\ mine' = [mine EXCEPT ![p] = None]
  /\ poll' = [poll EXCEPT ![p] = "idle"]
  /\ UNCHANGED <<game, cur, used, manager, built>>

(***************************************************************************)
(* _tail_loop.                                                             *)
(***************************************************************************)
Tails(i) == i <= used /\ sess[i].thread = "runs" /\ ~sess[i].stop

\* _find_rpt_for_session: the newest RPT if it was written since the start,
\* an older one if it is still in its grace.
Finds(run) == IF Newest >= run THEN {Newest} ELSE {Newest, None}

TailStops(i) ==
  /\ i <= used /\ sess[i].thread = "runs" /\ sess[i].stop
  /\ sess' = [sess EXCEPT ![i].thread = "over"]
  /\ UNCHANGED <<game, cur, used, manager, polls>>

\* _attach_rpt_path: a marker in the tail counts at once, else the file is
\* read from its beginning.
TailAttach(i) ==
  /\ Tails(i) /\ sess[i].file = None
  /\ \E file \in Finds(sess[i].begun) \ {None} :
       sess' = [sess EXCEPT ![i] =
         IF marker[file] = "tail"
           THEN [@ EXCEPT !.file = file, !.past = TRUE, !.ready = TRUE, !.phase = "ready"]
           ELSE [@ EXCEPT !.file = file, !.past = FALSE]]
  /\ UNCHANGED <<game, cur, used, manager, polls>>

\* Mutant: the search for an RPT ends although the server runs.
TailGivesUpSearching(i) ==
  /\ Tails(i) /\ sess[i].file = None
  /\ None \in Finds(sess[i].begun)
  /\ sess' = [sess EXCEPT ![i].thread = "over", ![i].phase = "stopped"]
  /\ UNCHANGED <<game, cur, used, manager, polls>>

\* No RPT, and the server is gone.
TailGivesUp(i) ==
  /\ Tails(i) /\ sess[i].file = None
  /\ None \in Finds(sess[i].begun)
  /\ ~alive
  /\ sess' = [sess EXCEPT ![i].thread = "over", ![i].phase = "stopped"]
  /\ UNCHANGED <<game, cur, used, manager, polls>>

\* _tail_loop: a newer RPT is read from its beginning; what was seen of the
\* old one stays.
TailSwitch(i) ==
  /\ Tails(i) /\ sess[i].file # None
  /\ \E newer \in Finds(sess[i].begun) :
       /\ newer > sess[i].file
       /\ sess' = [sess EXCEPT ![i].file = newer, ![i].past = FALSE]
  /\ UNCHANGED <<game, cur, used, manager, polls>>

\* The lines up to the marker are read; _process_line.
TailRead(i) ==
  /\ Tails(i) /\ sess[i].file # None
  /\ marker[sess[i].file] # "none" /\ ~sess[i].past
  /\ sess' = [sess EXCEPT ![i].past = TRUE, ![i].ready = TRUE,
                          ![i].phase = IF sess[i].ready THEN @ ELSE "ready"]
  /\ UNCHANGED <<game, cur, used, manager, polls>>

Operation == PopSession \/ EndSession \/ PutSession \/ StartThread
Polling(p) == PollLook(p) \/ PollAttach(p) \/ PollStartThread(p)
Tail(i) == TailStops(i) \/ TailAttach(i) \/ TailGivesUp(i) \/ TailSwitch(i) \/ TailRead(i)

Next ==
  \/ WriteRpt \/ WriteMarker \/ Crash
  \/ Launch \/ StopServer \/ Operation
  \/ \E p \in Poller : PollRead(p) \/ Polling(p)
  \/ \E i \in Sid : Tail(i)

Spec == Init /\ [][Next]_vars

\* Threads run.  The game server, its administrator and the polls owe nothing.
FairSpec ==
  /\ Spec
  /\ WF_vars(Operation)
  /\ \A i \in Sid : WF_vars(Tail(i))

-----------------------------------------------------------------------------
TypeOK ==
  /\ alive \in BOOLEAN
  /\ runs \in 0 .. MaxRuns
  /\ rpt \subseteq Run
  /\ marker \in [Run -> {"none", "tail", "far"}]
  /\ cur \in Sid \cup {None}
  /\ sess \in [Sid -> Session]
  /\ used \in 0 .. MaxRuns + MaxAttached
  /\ op \in {"idle", "pop", "end", "put", "thread"}
  /\ held \in Sid \cup {None}
  /\ then \in {"idle", "put"}
  /\ poll \in [Poller -> {"idle", "look", "attach", "thread"}]
  /\ built \in [Poller -> Session]
  /\ mine \in [Poller -> Sid \cup {None}]

(***************************************************************************)
(* The session the status is read from has not been told to stop, however  *)
(* polls attach while a start or a stop replaces it: a stopped one would   *)
(* show a frozen phase and log until the next restart.                     *)
(***************************************************************************)
MapSessionLive == cur # None => ~sess[cur].stop

(***************************************************************************)
(* The session of a start is the one the status is read from, until a      *)
(* later start or stop ends it, however polls attach in between: one that  *)
(* dropped out of the map would never be told to stop, and the status      *)
(* would come from a session that follows whatever RPT it found.           *)
(***************************************************************************)
StartSessionKept ==
  \A i \in 1 .. used : sess[i].begun # None /\ ~sess[i].stop => i \in {cur, held}

(***************************************************************************)
(* A started server that writes its marker is shown READY in the end,      *)
(* unless it goes down first, however late its RPT appears and whichever   *)
(* older one the session followed until then.                              *)
(***************************************************************************)
ReadyShown ==
  (alive /\ cur # None /\ sess[cur].begun = runs /\ marker[runs] # "none")
    ~> (~alive \/ (cur # None /\ sess[cur].phase = "ready"))
=============================================================================
