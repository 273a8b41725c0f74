--------------------------- MODULE ServerLifecycle ---------------------------
(***************************************************************************)
(* What ServerManager promises for one game server, without threads, files *)
(* or locks: one operation at a time; only a start brings a process up,    *)
(* and only when there is none; only a start that launched one clears      *)
(* .stopped, apart from a stop that takes its own mark back; a stop that   *)
(* reports success leaves nothing running.                                 *)
(***************************************************************************)
CONSTANT Pid

VARIABLES
  procs,   \* live processes of the server
  marked,  \* .stopped: an automatic start is unwanted
  op       \* the operation under way

Op == {"none", "starting", "launched", "ended", "stopping", "stopped"}

vars == <<procs, marked, op>>

Init ==
  /\ procs \in {{}} \cup {{p} : p \in Pid}
  /\ marked \in BOOLEAN
  /\ op = "none"

Begin == op = "none" /\ op' \in {"starting", "stopping"} /\ UNCHANGED <<procs, marked>>

Launch ==
  /\ op = "starting" /\ op' = "launched"
  /\ procs = {} /\ \E p \in Pid : procs' = {p}
  /\ UNCHANGED marked

Confirm == op = "launched" /\ op' = "ended" /\ marked' = FALSE /\ UNCHANGED procs

\* A start that fails; it may leave the process it launched behind.
Fail ==
  /\ op \in {"starting", "launched"} /\ op' = "ended"
  /\ procs' = procs \/ (op = "launched" /\ procs' = {})
  /\ UNCHANGED marked

Mark   == op = "stopping" /\ marked' = TRUE /\ UNCHANGED <<procs, op>>
Unmark == op = "stopping" /\ marked' = FALSE /\ UNCHANGED <<procs, op>>

Stopped == op = "stopping" /\ procs = {} /\ op' = "stopped" /\ UNCHANGED <<procs, marked>>

\* Also a stop that failed.
End == op \in {"ended", "stopped", "stopping"} /\ op' = "none" /\ UNCHANGED <<procs, marked>>

\* The process goes away: killed by a stop, or by itself.
Exit == procs # {} /\ procs' = {} /\ UNCHANGED <<marked, op>>

\* The manager dies in the middle of the operation.
Die == op' = "none" /\ UNCHANGED <<procs, marked>>

Next ==
  \/ Begin \/ Launch \/ Confirm \/ Fail
  \/ Mark \/ Unmark \/ Stopped \/ End \/ Exit \/ Die

Spec == Init /\ [][Next]_vars
=============================================================================
