--------------------------- MODULE MCServerManager ---------------------------
(***************************************************************************)
(* ServerManager for TLC: threads, pids and owners are model values, equal *)
(* ones interchangeable in the safety runs.                                *)
(***************************************************************************)
EXTENDS ServerManager, TLC

AllFaults == FaultKind

\* Request threads are alike, and so are process ids.
Symmetry == Permutations(ApiThread) \cup Permutations(Pid)
=============================================================================
