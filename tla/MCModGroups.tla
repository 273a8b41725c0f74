----------------------------- MODULE MCModGroups -----------------------------
(***************************************************************************)
(* ModGroups for TLC: servers are alike, and so are the ModCheck tasks.    *)
(***************************************************************************)
EXTENDS ModGroups

Symmetry == Permutations(Server) \cup Permutations(ModCheck)
=============================================================================
