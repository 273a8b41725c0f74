------------------------------ MODULE LiveStats ------------------------------
(***************************************************************************)
(* core/server_live_stats.py: who plays on each server, polled over the    *)
(* RCON client that the whole manager shares, and the handlers that poll   *)
(* (refresh) or use RCON (test, say) themselves.                           *)
(*                                                                         *)
(* A command holds the lock of its endpoint while bercon runs; a poll      *)
(* holds the poll lock of its server and waits for the endpoint.  A test   *)
(* and a say run on the event loop, which stands still until they have     *)
(* had their turn.  What players there are is a version, changed by        *)
(* whoever joins or leaves and by every start and exit of the server.      *)
(***************************************************************************)
EXTENDS Naturals, Sequences

CONSTANTS
  Server,
  Order,      \* config.servers
  Refresher,  \* POST .../players/refresh requests under way
  Executor,   \* other commands: the scheduler's
  NoClient,
  MaxChanges  \* bound on the changes of each server

ASSUME OrderAssumption ==
  /\ Order \in Seq(Server) /\ Order # << >>
  /\ \A s \in Server : \E k \in DOMAIN Order : Order[k] = s
ASSUME ClientAssumption ==
  /\ {"loop", "handler"} \cap (Refresher \cup Executor) = {}
  /\ Refresher \cap Executor = {}
  /\ NoClient \notin Refresher \cup Executor \cup {"loop", "handler"}
ASSUME BoundAssumption == MaxChanges \in [Server -> Nat]

\* The poll loop and the refresh requests poll, the others only command.
Poller == Refresher \cup {"loop"}
Client == Poller \cup Executor \cup {"handler"}

VARIABLES
  up, version,  \* the game servers
  cache,     \* _cache: what was seen, and when
  pollLock,  \* _server_poll_locks
  endpoint,  \* _endpoint_locks of the shared client, one port for each server
  pc, on,    \* each thread: place, server
  seen,      \* what a poll has seen
  asked,     \* the version when a refresh was asked for
  busy       \* a handler keeps the event loop

world   == <<up, version>>
threads == <<pc, on, seen, asked, busy>>
vars    == <<world, cache, pollLock, endpoint, threads>>

Version == UNION {0 .. MaxChanges[s] : s \in Server}
Snapshot == [version : Version, ok : BOOLEAN]
Nothing == [version |-> 0, ok |-> FALSE]

Init ==
  /\ up = [s \in Server |-> FALSE]
  /\ version = [s \in Server |-> 0]
  /\ cache = [s \in Server |-> Nothing]
  /\ pollLock = [s \in Server |-> NoClient]
  /\ endpoint = [s \in Server |-> NoClient]
  /\ pc = [t \in Client |-> "idle"]
  /\ on = [t \in Client |-> 1]
  /\ seen = [t \in Poller |-> Nothing]
  /\ asked = [t \in Refresher |-> 0]
  /\ busy = FALSE

At(t) == Order[on[t]]

(***************************************************************************)
(* The game servers.                                                       *)
(***************************************************************************)
Change(s) ==
  /\ version[s] < MaxChanges[s]
  /\ version' = [version EXCEPT ![s] = @ + 1]
  /\ up' \in {[up EXCEPT ![s] = TRUE], [up EXCEPT ![s] = FALSE]}
  /\ up[s] \/ up'[s]
  /\ UNCHANGED <<cache, pollLock, endpoint, threads>>

(***************************************************************************)
(* Polls.                                                                  *)
(***************************************************************************)
\* _poll_loop wakes, which needs the event loop, and _poll_all begins.
PassBegin ==
  /\ pc["loop"] = "idle" /\ ~busy
  /\ pc' = [pc EXCEPT !["loop"] = "lock"]
  /\ on' = [on EXCEPT !["loop"] = 1]
  /\ UNCHANGED <<world, cache, pollLock, endpoint, seen, asked, busy>>

RefreshBegin(t, k) ==
  /\ pc[t] = "idle" /\ ~busy
  /\ up[Order[k]]
  /\ pc' = [pc EXCEPT ![t] = "lock"]
  /\ on' = [on EXCEPT ![t] = k]
  /\ asked' = [asked EXCEPT ![t] = version[Order[k]]]
  /\ UNCHANGED <<world, cache, pollLock, endpoint, seen, busy>>

\* Mutant: a refresh polls without the lock of the server.
LockForPollLoopOnly(t) ==
  /\ pc[t] = "lock"
  /\ IF t = "loop" THEN pollLock[At(t)] = NoClient /\ pollLock' = [pollLock EXCEPT ![At(t)] = t]
                   ELSE UNCHANGED pollLock
  /\ pc' = [pc EXCEPT ![t] = "look"]
  /\ UNCHANGED <<world, cache, endpoint, on, seen, asked, busy>>

LockForPoll(t) ==
  /\ pc[t] = "lock"
  /\ pollLock[At(t)] = NoClient
  /\ pollLock' = [pollLock EXCEPT ![At(t)] = t]
  /\ pc' = [pc EXCEPT ![t] = "look"]
  /\ UNCHANGED <<world, cache, endpoint, on, seen, asked, busy>>

\* Mutant: a server that is down keeps what was seen of it.
LookKeeping(t) ==
  /\ pc[t] = "look"
  /\ IF up[At(t)]
       THEN pc' = [pc EXCEPT ![t] = "rcon"] /\ UNCHANGED seen
       ELSE /\ pc' = [pc EXCEPT ![t] = "write"]
            /\ seen' = [seen EXCEPT ![t] = cache[At(t)]]
  /\ UNCHANGED <<world, cache, pollLock, endpoint, on, asked, busy>>

\* is_running; without a process nobody is asked.
Look(t) ==
  /\ pc[t] = "look"
  /\ IF up[At(t)]
       THEN pc' = [pc EXCEPT ![t] = "rcon"] /\ UNCHANGED seen
       ELSE /\ pc' = [pc EXCEPT ![t] = "write"]
            /\ seen' = [seen EXCEPT ![t] = [version |-> version[At(t)], ok |-> FALSE]]
  /\ UNCHANGED <<world, cache, pollLock, endpoint, on, asked, busy>>

Write(t) ==
  /\ pc[t] = "write"
  /\ cache' = [cache EXCEPT ![At(t)] = seen[t]]
  /\ pollLock' = [pollLock EXCEPT ![At(t)] = NoClient]
  /\ IF t = "loop" /\ on[t] < Len(Order)
       THEN on' = [on EXCEPT ![t] = @ + 1] /\ pc' = [pc EXCEPT ![t] = "lock"]
       ELSE UNCHANGED on /\ pc' = [pc EXCEPT ![t] = IF t = "loop" THEN "idle" ELSE "answer"]
  /\ UNCHANGED <<world, endpoint, seen, asked, busy>>

\* The handler goes on when the event loop comes to it.
Answer(t) ==
  /\ pc[t] = "answer" /\ ~busy
  /\ pc' = [pc EXCEPT ![t] = "idle"]
  /\ UNCHANGED <<world, cache, pollLock, endpoint, on, seen, asked, busy>>

(***************************************************************************)
(* Commands: the scheduler's from the executor, test and say from the      *)
(* event loop.                                                             *)
(***************************************************************************)
Command(t, k) ==
  /\ t \notin Poller
  /\ pc[t] = "idle"
  /\ t = "handler" => ~busy
  /\ busy' = (busy \/ t = "handler")
  /\ pc' = [pc EXCEPT ![t] = "rcon"]
  /\ on' = [on EXCEPT ![t] = k]
  /\ UNCHANGED <<world, cache, pollLock, endpoint, seen, asked>>

Execute(t) ==
  /\ pc[t] = "rcon"
  /\ endpoint[At(t)] = NoClient
  /\ endpoint' = [endpoint EXCEPT ![At(t)] = t]
  /\ pc' = [pc EXCEPT ![t] = "bercon"]
  /\ UNCHANGED <<world, cache, pollLock, on, seen, asked, busy>>

\* Mutant: a handler that was answered keeps the event loop.
ReplyKeepingLoop(t) ==
  /\ pc[t] = "bercon"
  /\ endpoint' = [endpoint EXCEPT ![At(t)] = NoClient]
  /\ pc' = [pc EXCEPT ![t] = IF t \in Poller THEN "write" ELSE "idle"]
  /\ UNCHANGED <<world, cache, pollLock, on, seen, asked, busy>>

\* Mutant: a poll whose answer does not come repeats what the cache has.
ReplyFromCache(t) ==
  /\ pc[t] = "bercon"
  /\ endpoint' = [endpoint EXCEPT ![At(t)] = NoClient]
  /\ IF t \in Poller
       THEN /\ pc' = [pc EXCEPT ![t] = "write"]
            /\ \/ seen' = [seen EXCEPT ![t] = cache[At(t)]]
               \/ up[At(t)] /\ seen' = [seen EXCEPT ![t] = [version |-> version[At(t)], ok |-> TRUE]]
       ELSE pc' = [pc EXCEPT ![t] = "idle"] /\ UNCHANGED seen
  /\ busy' = (busy /\ t # "handler")
  /\ UNCHANGED <<world, cache, pollLock, on, asked>>

\* bercon answers, fails or is timed out; RCON that is disabled fails at once.
Reply(t) ==
  /\ pc[t] = "bercon"
  /\ endpoint' = [endpoint EXCEPT ![At(t)] = NoClient]
  /\ IF t \in Poller
       THEN /\ pc' = [pc EXCEPT ![t] = "write"]
            /\ \E ok \in {FALSE, up[At(t)]} :
                 seen' = [seen EXCEPT ![t] = [version |-> version[At(t)], ok |-> ok]]
       ELSE pc' = [pc EXCEPT ![t] = "idle"] /\ UNCHANGED seen
  /\ busy' = (busy /\ t # "handler")
  /\ UNCHANGED <<world, cache, pollLock, on, asked>>

Next ==
  \/ \E s \in Server : Change(s)
  \/ PassBegin
  \/ \E t \in Refresher, k \in DOMAIN Order : RefreshBegin(t, k)
  \/ \E t \in Poller : LockForPoll(t) \/ Look(t) \/ Write(t)
  \/ \E t \in Refresher : Answer(t)
  \/ \E t \in Client, k \in DOMAIN Order : Command(t, k)
  \/ \E t \in Client : Execute(t) \/ Reply(t)

(***************************************************************************)
(* Threads run, bercon ends at its timeout at the latest, and who waits    *)
(* for a lock gets it in the end.                                          *)
(***************************************************************************)
Fairness ==
  /\ SF_vars(PassBegin) /\ SF_vars(LockForPoll("loop"))
  /\ \A t \in Poller : WF_vars(Look(t) \/ Write(t))
  /\ \A t \in Poller \cup {"handler"} : SF_vars(Execute(t))
  /\ \A t \in Client : WF_vars(Reply(t))

Spec == Init /\ [][Next]_vars /\ Fairness

-----------------------------------------------------------------------------
TypeOK ==
  /\ up \in [Server -> BOOLEAN]
  /\ version \in [Server -> Version]
  /\ cache \in [Server -> Snapshot]
  /\ pollLock \in [Server -> Client \cup {NoClient}]
  /\ endpoint \in [Server -> Client \cup {NoClient}]
  /\ pc \in [Client -> {"idle", "lock", "look", "rcon", "bercon", "write", "answer"}]
  /\ on \in [Client -> DOMAIN Order]
  /\ seen \in [Poller -> Snapshot]
  /\ asked \in [Refresher -> Version]
  /\ busy = (pc["handler"] # "idle")

(***************************************************************************)
(* What is shown never goes back: a slow poll does not put its players     *)
(* over those of a later one, be it of the loop or of a refresh.           *)
(***************************************************************************)
NeverOlder == [][\A s \in Server : cache'[s].version >= cache[s].version]_vars

(***************************************************************************)
(* A refresh answers with players who were there after it was asked for,   *)
(* although it may have waited behind a poll that began before.            *)
(***************************************************************************)
RefreshIsFresh ==
  \A t \in Refresher : pc[t] = "answer" => seen[t].version >= asked[t]

(***************************************************************************)
(* The players of a process that is gone are not shown for ever: a poll    *)
(* that began before a restart may write them after it, but another one    *)
(* follows, whoever uses the endpoint and the event loop.                  *)
(***************************************************************************)
CatchesUp ==
  \A s \in Server :
    (cache[s].ok /\ cache[s].version < version[s])
      ~> (cache[s].version = version[s])
=============================================================================
