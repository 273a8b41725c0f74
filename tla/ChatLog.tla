------------------------------- MODULE ChatLog -------------------------------
(***************************************************************************)
(* The chat of one server: core/server_chat_watcher.py and the chat        *)
(* websocket of main.py.                                                   *)
(*                                                                         *)
(* Each run of the game server appends its chat to an ExpLog of its own.   *)
(* A session's thread follows the newest log and, every few seconds, reads *)
(* the recent logs again; both feed one buffer, and seen_keys tells what   *)
(* it already has.  The thread that starts or stops the server begins and  *)
(* ends sessions; so does ensure_session, called by handlers on the event  *)
(* loop and, for a say of the scheduler, by a thread of the executor.      *)
(*                                                                         *)
(* A message is the time at which it was written and whether its line was  *)
(* complete when it was read: CHAT_LINE_RE also matches the beginning of a *)
(* line, which is then a message of its own.  A message is appended to the *)
(* buffer in one step and dispatched to the subscribers in another: no     *)
(* lock is held over both.                                                 *)
(***************************************************************************)
EXTENDS Naturals, SequencesExt, FiniteSets

CONSTANTS
  Socket,      \* chat websockets
  MaxRuns,     \* bound on runs of the game server
  MaxTime,     \* bound on messages, those of the log and injected ones
  Torn,        \* times at which a line is written in two pieces
  MaxSessions, \* bound on sessions
  BufferMax,   \* chat_buffer_max
  QueueMax     \* size of a subscriber's queue

ASSUME BoundAssumption ==
  {MaxRuns, MaxTime, MaxSessions, BufferMax, QueueMax} \subseteq Nat \ {0}

ASSUME TornAssumption == Torn \subseteq Nat

Run == 1 .. MaxRuns
Time == 1 .. MaxTime
Sid == 1 .. MaxSessions
Creator == {"start", "ensure"}
None == 0

VARIABLES
  alive, runs,    \* a process of the server; processes so far
  log, cut,       \* complete lines of each run's ExpLog; the line being written
  clock,          \* messages so far
  cur,            \* _sessions[server_id]
  sess, used,     \* the session objects; how many were created
  pc, then,       \* begin_session and end_session under way: place, what follows
  ending,         \* the session whose thread end_session waits for
  loaded,         \* the history read
  said,           \* messages that inject_message appended and has yet to dispatch
  sock            \* the websockets

game    == <<alive, runs, log, cut>>
creators == <<pc, then, ending, loaded>>
vars    == <<game, clock, cur, sess, used, creators, said, sock>>

Message == Time \X BOOLEAN
\* todo: what the thread has read and not processed; out: the message that it
\* has appended and not dispatched, if there is one.
NewSession(history) ==
  [path |-> None, pos |-> 0, partial |-> "none", todo |-> << >>, out |-> {},
   buffer |-> history, seen |-> Range(history), subs |-> {}, thread |-> "begun"]
Ended == [NewSession(<< >>) EXCEPT !.thread = "over"]
\* Of a session that is over only its subscribers hear, of what was read by then.
Stopped(s) ==
  IF s.subs = {} THEN Ended
  ELSE [Ended EXCEPT !.todo = s.todo, !.out = s.out, !.seen = s.seen, !.subs = s.subs]
Closed == [at |-> "off", sub |-> None, queue |-> << >>, sent |-> {}]

Newer(n, seq) == SubSeq(seq, IF Len(seq) > n THEN Len(seq) - n + 1 ELSE 1, Len(seq))

\* What a reader of the whole file of a run finds.
Parsed(r) ==
  [k \in 1 .. Len(log[r]) |-> <<log[r][k], TRUE>>]
    \o (IF cut[r] = None THEN << >> ELSE << <<cut[r], FALSE>> >>)
Logs == {r \in Run : Parsed(r) # << >>}
Newest == CHOOSE r \in Logs \cup {None} : \A q \in Logs : q <= r
AllParsed == FlattenSeq([r \in Run |-> Parsed(r)])

Init ==
  /\ runs = 1 /\ alive \in BOOLEAN
  /\ log = [r \in Run |-> << >>]
  /\ cut = [r \in Run |-> None]
  /\ clock = 0
  /\ cur = None
  /\ sess = [i \in Sid |-> NewSession(<< >>)]
  /\ used = 0
  /\ pc = [c \in Creator |-> "idle"]
  /\ then = [c \in Creator |-> "idle"]
  /\ ending = [c \in Creator |-> None]
  /\ loaded = [c \in Creator |-> << >>]
  /\ said = {}
  /\ sock = [w \in Socket |-> Closed]

(***************************************************************************)
(* The game server.                                                        *)
(***************************************************************************)
WriteLine ==
  /\ alive /\ clock < MaxTime
  /\ cut[runs] = None
  /\ clock' = clock + 1
  /\ clock' \notin Torn
  /\ log' = [log EXCEPT ![runs] = Append(@, clock')]
  /\ UNCHANGED <<alive, runs, cut, cur, sess, used, creators, said, sock>>

WriteBegin ==
  /\ alive /\ clock < MaxTime
  /\ cut[runs] = None
  /\ clock' = clock + 1
  /\ clock' \in Torn
  /\ cut' = [cut EXCEPT ![runs] = clock']
  /\ UNCHANGED <<alive, runs, log, cur, sess, used, creators, said, sock>>

WriteEnd ==
  /\ alive
  /\ cut[runs] # None
  /\ log' = [log EXCEPT ![runs] = Append(@, cut[runs])]
  /\ cut' = [cut EXCEPT ![runs] = None]
  /\ UNCHANGED <<alive, runs, clock, cur, sess, used, creators, said, sock>>

GoesDown ==
  /\ alive
  /\ alive' = FALSE
  /\ UNCHANGED <<runs, log, cut, clock, cur, sess, used, creators, said, sock>>

(***************************************************************************)
(* begin_session and end_session.                                          *)
(***************************************************************************)
Call(c, place, after) ==
  /\ pc' = [pc EXCEPT ![c] = place]
  /\ then' = [then EXCEPT ![c] = after]

\* end_session returns.
Return(c) == Call(c, then[c], "idle")

Launch ==
  /\ pc["start"] = "idle" /\ ~alive /\ runs < MaxRuns
  /\ used < MaxSessions
  /\ alive' = TRUE
  /\ runs' = runs + 1
  /\ Call("start", "pop", "load")
  /\ UNCHANGED <<log, cut, clock, cur, sess, used, ending, loaded, said, sock>>

\* A stop that has seen the server die, or a failed start that ended it.
StopServer ==
  /\ pc["start"] = "idle"
  /\ alive \/ cur # None
  /\ alive' = FALSE
  /\ Call("start", "pop", "idle")
  /\ UNCHANGED <<runs, log, cut, clock, cur, sess, used, ending, loaded, said, sock>>

\* ensure_session of a running server without a session.
Ensure ==
  /\ pc["ensure"] = "idle" /\ alive /\ cur = None
  /\ used < MaxSessions
  /\ Call("ensure", "pop", "load")
  /\ UNCHANGED <<game, clock, cur, sess, used, ending, loaded, said, sock>>

\* Mutant: the session stays in the map until another one replaces it.
PopKeeping(c) ==
  /\ pc[c] = "pop"
  /\ IF cur = None
       THEN Return(c) /\ UNCHANGED <<sess, ending>>
       ELSE /\ Call(c, "join", then[c])
            /\ ending' = [ending EXCEPT ![c] = cur]
            /\ sess' = [sess EXCEPT ![cur] = Stopped(@)]
  /\ UNCHANGED <<game, clock, cur, used, loaded, said, sock>>

\* end_session: out of the map and told to stop, which the thread looks at
\* when it has processed what it has read.
Pop(c) ==
  /\ pc[c] = "pop"
  /\ IF cur = None
       THEN Return(c) /\ UNCHANGED <<sess, ending>>
       ELSE /\ Call(c, "join", then[c])
            /\ ending' = [ending EXCEPT ![c] = cur]
            /\ sess' = [sess EXCEPT ![cur] = Stopped(@)]
  /\ cur' = None
  /\ UNCHANGED <<game, clock, used, loaded, said, sock>>

\* The thread has ended, or 3 s are over; the subscribers are forgotten.  A
\* thread that goes on feeds a session that nobody reads.
Forget(c) ==
  /\ pc[c] = "join"
  /\ Return(c)
  /\ ending' = [ending EXCEPT ![c] = None]
  /\ sess' = [sess EXCEPT ![ending[c]] = Ended]
  /\ said' = {s \in said : s[1] # ending[c]}
  /\ UNCHANGED <<game, clock, cur, used, loaded, sock>>

LoadHistory(c) ==
  /\ pc[c] = "load"
  /\ used < MaxSessions
  /\ loaded' = [loaded EXCEPT ![c] = AllParsed]
  /\ pc' = [pc EXCEPT ![c] = "put"]
  /\ UNCHANGED <<game, clock, cur, sess, used, then, ending, said, sock>>

\* A session that another one replaces is lost; its thread goes on for whoever
\* subscribed to it, and of one without subscribers nothing is seen again.
Lost == {i \in Sid : i = cur /\ sess[i].subs = {}}
Replaced == [i \in Sid |-> IF i \in Lost THEN Ended ELSE sess[i]]

\* Mutant: what the history gave the buffer is not remembered as seen.
PutUnseen(c) ==
  /\ pc[c] = "put"
  /\ used < MaxSessions
  /\ used' = used + 1
  /\ cur' = used'
  /\ sess' = [Replaced EXCEPT ![used'] =
                [NewSession(<< >>) EXCEPT !.buffer = Newer(BufferMax, loaded[c])]]
  /\ said' = {s \in said : s[1] \notin Lost}
  /\ loaded' = [loaded EXCEPT ![c] = << >>]
  /\ pc' = [pc EXCEPT ![c] = "idle"]
  /\ UNCHANGED <<game, clock, then, ending, sock>>

\* The session is put into the map whatever is there; its thread starts.
Put(c) ==
  /\ pc[c] = "put"
  /\ used < MaxSessions
  /\ used' = used + 1
  /\ cur' = used'
  /\ sess' = [Replaced EXCEPT ![used'] =
                [NewSession(loaded[c]) EXCEPT !.buffer = Newer(BufferMax, loaded[c])]]
  /\ said' = {s \in said : s[1] \notin Lost}
  /\ loaded' = [loaded EXCEPT ![c] = << >>]
  /\ pc' = [pc EXCEPT ![c] = "idle"]
  /\ UNCHANGED <<game, clock, then, ending, sock>>

(***************************************************************************)
(* _append_message, and after it the queues of the subscribers.            *)
(***************************************************************************)
\* Mutant: a message is new unless the buffer still has it.
IsNewBuffered(i, m) == m \notin Range(sess[i].buffer)

IsNew(i, m) == m \notin sess[i].seen

\* Mutant: the buffer is not limited.
AppendedUnlimited(s, m) == [s EXCEPT !.seen = @ \cup {m}, !.buffer = Append(@, m)]

Appended(s, m) ==
  [s EXCEPT !.seen = @ \cup {m}, !.buffer = Newer(BufferMax, Append(@, m))]

\* To those who subscribe at this time.  A full queue loses its oldest message.
\* (A queue that was left in an old session by a closed websocket is read by
\* nobody, and the event loop puts messages in the order of the calls.)
Dispatch(i, m) ==
  sock' = [w \in Socket |->
             IF w \in sess[i].subs /\ sock[w].sub = i
             THEN [sock[w] EXCEPT !.queue = Newer(QueueMax, Append(@, m))]
             ELSE sock[w]]

(***************************************************************************)
(* _tail_loop.                                                             *)
(***************************************************************************)
Others == UNCHANGED <<game, clock, cur, used, creators, said>>

\* At the top of the loop, and told to go on.
Turns(i) ==
  /\ i <= used /\ sess[i].thread # "over"
  /\ sess[i].todo = << >> /\ sess[i].out = {}

Follows(i) == Turns(i) /\ sess[i].thread = "runs"

\* What was seen before is passed over at once.
NewOnes(i, msgs) ==
  LET new[k \in 0 .. Len(msgs)] ==
        IF k = 0 THEN << >>
        ELSE IF IsNew(i, msgs[k]) THEN Append(new[k - 1], msgs[k]) ELSE new[k - 1]
  IN new[Len(msgs)]

\* Mutant: recent logs are read again only when the thread begins.
RescanOnce(i) ==
  /\ Turns(i) /\ sess[i].thread = "begun"
  /\ Others /\ UNCHANGED sock
  /\ \E msgs \in {AllParsed} :
       sess' = [sess EXCEPT ![i].todo = NewOnes(i, msgs), ![i].thread = "runs"]

\* _rescan_recent: first of all, and then every few seconds.  (The logs are
\* read at one time: a line that appears between two of them is found by the
\* next rescan.)
Rescan(i) ==
  /\ Turns(i)
  /\ Others /\ UNCHANGED sock
  /\ \E msgs \in {AllParsed} :
       sess' = [sess EXCEPT ![i].todo = NewOnes(i, msgs), ![i].thread = "runs"]

\* The first log is followed from its end, in the middle of a line perhaps.
Attach(i) ==
  /\ Follows(i) /\ sess[i].path = None
  /\ Newest # None
  /\ sess' = [sess EXCEPT ![i].path = Newest, ![i].pos = Len(log[Newest]),
                          ![i].partial = IF cut[Newest] = None THEN "none" ELSE "lost"]
  /\ Others /\ UNCHANGED sock

\* A newer log is read from its beginning, and the recent ones again.
Switch(i) ==
  /\ Follows(i) /\ sess[i].path \notin {None, Newest}
  /\ \E msgs \in {AllParsed} :
       sess' = [sess EXCEPT ![i].path = Newest, ![i].pos = 0, ![i].partial = "none",
                            ![i].todo = NewOnes(i, msgs)]
  /\ Others /\ UNCHANGED sock

\* Complete lines are messages; of a line whose beginning was skipped only
\* the rest is there, which is none.
Read(i) ==
  /\ Follows(i) /\ sess[i].path # None
  /\ LET s == sess[i]
         skip == IF s.partial = "lost" THEN 1 ELSE 0
         msgs == [k \in 1 .. Len(log[s.path]) - s.pos - skip |->
                    <<log[s.path][s.pos + skip + k], TRUE>>]
     IN /\ Len(log[s.path]) > s.pos \/ (cut[s.path] # None /\ s.partial = "none")
        /\ sess' = [sess EXCEPT ![i].todo = NewOnes(i, msgs), ![i].pos = Len(log[s.path]),
                                ![i].partial = IF cut[s.path] = None THEN "none" ELSE "held"]
  /\ Others /\ UNCHANGED sock

\* One message after the other.
AppendNext(i) ==
  /\ sess[i].todo # << >> /\ sess[i].out = {}
  /\ LET m == Head(sess[i].todo)
         s == [sess[i] EXCEPT !.todo = Tail(@)]
     IN sess' = [sess EXCEPT ![i] = IF IsNew(i, m) THEN [Appended(s, m) EXCEPT !.out = {m}] ELSE s]
  /\ Others /\ UNCHANGED sock

DispatchNext(i) ==
  \E m \in sess[i].out :
    /\ Dispatch(i, m)
    /\ sess' = [sess EXCEPT ![i].out = {}]
    /\ Others

(***************************************************************************)
(* inject_message, and the websocket handlers on the event loop, between   *)
(* whose awaits an ensure_session or a say of the executor may be          *)
(* anywhere.                                                               *)
(***************************************************************************)
Buffer == IF cur = None THEN << >> ELSE sess[cur].buffer

\* RCON say does not appear in the log.
Inject ==
  /\ alive /\ cur # None
  /\ clock < MaxTime
  /\ clock' = clock + 1
  /\ LET m == <<clock', TRUE>>
     IN /\ IsNew(cur, m)
        /\ sess' = [sess EXCEPT ![cur] = Appended(@, m)]
        /\ said' = said \cup {<<cur, m>>}
  /\ UNCHANGED <<game, cur, used, creators, sock>>

DispatchSaid(i, m) ==
  /\ <<i, m>> \in said
  /\ Dispatch(i, m)
  /\ said' = said \ {<<i, m>>}
  /\ UNCHANGED <<game, clock, cur, sess, used, creators>>

\* Messages that were appended and not dispatched.
InFlight(i) == sess[i].out \cup {m \in Message : <<i, m>> \in said}

\* The history is sent, with an await for each message of it.  Of one that is
\* in flight nothing is said: it may come again.
Connect(w) ==
  /\ sock[w].at = "off"
  /\ sock' = [sock EXCEPT ![w] = [Closed EXCEPT !.at = "history", !.sub = cur,
                !.sent = IF cur = None THEN {} ELSE Range(Buffer) \ InFlight(cur)]]
  /\ UNCHANGED <<game, clock, cur, sess, used, creators, said>>

\* Without a session the handler waits for the page to close.  Of a history
\* that another session has sent nothing is said.
Subscribe(w) ==
  /\ sock[w].at = "history"
  /\ \/ /\ cur # None
        /\ sess' = [sess EXCEPT ![cur].subs = @ \cup {w}]
        /\ sock' = [sock EXCEPT ![w].at = "on", ![w].sub = cur,
                                ![w].sent = IF sock[w].sub = cur THEN @ ELSE {}]
     \/ /\ cur = None
        /\ sock' = [sock EXCEPT ![w] = Closed]
        /\ UNCHANGED sess
  /\ UNCHANGED <<game, clock, cur, used, creators, said>>

Send(w) ==
  /\ sock[w].at = "on"
  /\ sock[w].queue # << >>
  /\ sock' = [sock EXCEPT ![w].sent = @ \cup {Head(sock[w].queue)}, ![w].queue = Tail(@)]
  /\ UNCHANGED <<game, clock, cur, sess, used, creators, said>>

\* unsubscribe looks at the session of the map only.
Disconnect(w) ==
  /\ sock[w].at # "off"
  /\ sock' = [sock EXCEPT ![w] = Closed]
  /\ sess' = IF cur = None THEN sess ELSE [sess EXCEPT ![cur].subs = @ \ {w}]
  /\ UNCHANGED <<game, clock, cur, used, creators, said>>

Next ==
  \/ WriteLine \/ WriteBegin \/ WriteEnd \/ GoesDown
  \/ Launch \/ StopServer \/ Ensure
  \/ \E c \in Creator : Pop(c) \/ Forget(c) \/ LoadHistory(c) \/ Put(c)
  \/ \E i \in Sid : Rescan(i) \/ Attach(i) \/ Switch(i) \/ Read(i) \/ AppendNext(i) \/ DispatchNext(i)
  \/ Inject
  \/ \E s \in said : DispatchSaid(s[1], s[2])
  \/ \E w \in Socket : Connect(w) \/ Subscribe(w) \/ Send(w) \/ Disconnect(w)

(***************************************************************************)
(* A thread processes what it has read, and reads the recent logs again    *)
(* every few seconds, for as long as it runs; it is asked for the session  *)
(* in the map only.                                                        *)
(***************************************************************************)
Spec ==
  /\ Init /\ [][Next]_vars
  /\ WF_vars(cur # None /\ (Rescan(cur) \/ AppendNext(cur) \/ DispatchNext(cur)))

-----------------------------------------------------------------------------
TypeOK ==
  /\ alive \in BOOLEAN
  /\ runs \in 0 .. MaxRuns
  /\ log \in [Run -> Seq(Time)]
  /\ cut \in [Run -> Time \cup {None}]
  /\ clock \in 0 .. MaxTime
  /\ cur \in Sid \cup {None}
  /\ sess \in [Sid -> [path : Run \cup {None}, pos : 0 .. MaxTime,
                       partial : {"none", "held", "lost"}, todo : Seq(Message),
                       out : SUBSET Message, buffer : Seq(Message),
                       seen : SUBSET Message, subs : SUBSET Socket,
                       thread : {"begun", "runs", "over"}]]
  /\ used \in 0 .. MaxSessions
  /\ pc \in [Creator -> {"idle", "pop", "join", "load", "put"}]
  /\ then \in [Creator -> {"idle", "load"}]
  /\ ending \in [Creator -> Sid \cup {None}]
  /\ loaded \in [Creator -> Seq(Message)]
  /\ said \subseteq Sid \X Message
  /\ \A i \in Sid : Len(sess[i].buffer) <= BufferMax
  /\ \A w \in Socket : Len(sock[w].queue) <= QueueMax
  /\ sock \in [Socket -> [at : {"off", "history", "on"}, sub : Sid \cup {None},
                          queue : Seq(Message), sent : SUBSET Message]]

NoTwice(seq) == \A j, k \in DOMAIN seq : seq[j] = seq[k] => j = k

(***************************************************************************)
(* Tail, rescan and history read the same lines again and again, and the   *)
(* buffer forgets its oldest messages: one that a session has had does not *)
(* come back into its buffer.                                              *)
(***************************************************************************)
NoRepeats ==
  [][\A i \in Sid :
       sess[i].seen \cap (Range(sess'[i].buffer) \ Range(sess[i].buffer)) = {}]_vars

(***************************************************************************)
(* A websocket whose history and queue are of one session is sent a        *)
(* message twice only if the message was in flight, appended and not       *)
(* dispatched, when the history was taken: whatever tail, rescans and      *)
(* injections do while it connects, nothing that the history had from the  *)
(* logs or that was dispatched before comes through the queue, and nothing *)
(* comes through it twice.                                                 *)
(***************************************************************************)
SentTwiceByRaceOnly ==
  \A w \in Socket : sock[w].at = "on" =>
    NoTwice(sock[w].queue) /\ Range(sock[w].queue) \cap sock[w].sent = {}

(***************************************************************************)
(* What get_messages, subscribe and inject_message find in the map is a    *)
(* session whose thread was not told to stop, whoever begins and ends      *)
(* sessions at the same time.                                              *)
(***************************************************************************)
MapSessionLive == cur # None => sess[cur].thread # "over"

(***************************************************************************)
(* The session in the map comes to have every complete line of every log:  *)
(* lines written while a session begins, while its first log is attached,  *)
(* in the middle of a read or just before the next log appears.            *)
(***************************************************************************)
LinesShown ==
  []<>(cur # None => \A r \in Run : \A t \in Range(log[r]) : <<t, TRUE>> \in sess[cur].seen)
=============================================================================
