---------------------------- MODULE MCServerIntent ----------------------------
(***************************************************************************)
(* ServerIntent for TLC.                                                   *)
(***************************************************************************)
EXTENDS ServerIntent, TLC

\* Everything but a failing touch of .stopped, which leaks _stopping.
SafeFaults == FaultKind \ {"touch"}

\* Request threads are alike, and so are process ids.
Symmetry == Permutations(ApiThread) \cup Permutations(Pid)
=============================================================================
