---------------------------- MODULE ServerIntent ----------------------------
(***************************************************************************)
(* ServerManager with two history variables: whether the administrator     *)
(* wants the server down, and whether it was up in this manager session.   *)
(* They say what the file .stopped and the set _seen_running are there for *)
(* without reading either.                                                 *)
(***************************************************************************)
EXTENDS ServerManager

VARIABLES
  wantedDown,  \* a Stop succeeded and no Start or Restart was asked for since
  wasUp        \* a process of the server was alive in this manager session

hvars == <<vars, wantedDown, wasUp>>

Asks(t, jobs) == job[t] = "none" /\ job'[t] \in jobs

\* A Stop reports success while no Start or Restart is under way.
StopConfirmed ==
  /\ \E t \in ApiThread : pc[t] = "stopDone" /\ job[t] = "stop" /\ job'[t] = "none"
  /\ crashes' = crashes
  /\ \A t \in ApiThread : job[t] \notin {"start", "restart"}

HInit ==
  /\ Init
  /\ wantedDown = FALSE
  /\ wasUp = (procs # {})

HNext ==
  /\ Next
  /\ wantedDown' = CASE \E t \in ApiThread : Asks(t, {"start", "restart"}) -> FALSE
                     [] StopConfirmed -> TRUE
                     [] OTHER -> wantedDown
  /\ wasUp' = (procs' # {} \/ (wasUp /\ crashes' = crashes))

HSpec == HInit /\ [][HNext]_hvars

Launches(j) == \E t \in Thread : pc[t] = "spawn" /\ job[t] = j /\ pc'[t] = "confirm"

-----------------------------------------------------------------------------
(***************************************************************************)
(* The WatchDog brings back what it lost and never starts a server that    *)
(* was down all along: the first poll of a session starts nothing, and     *)
(* only a process that was up in this session is restarted.                *)
(***************************************************************************)
WatchdogOnlyRevives == [][Launches("watchdog") => wasUp]_hvars

(***************************************************************************)
(* docs/HOW_IT_WORKS.md: "The flag blocks auto-start until a confirmed     *)
(* Start or Restart": the WatchDog never starts a server the administrator *)
(* has stopped.                                                            *)
(***************************************************************************)
WatchdogHonoursStop == [][Launches("watchdog") => ~wantedDown]_hvars
=============================================================================
