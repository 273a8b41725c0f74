------------------------------ MODULE MCModCache ------------------------------
(***************************************************************************)
(* ModCache for TLC: the server that starts has two mods; of one of them   *)
(* updates appear, which a check of another server finds and a group of    *)
(* two servers downloads.                                                  *)
(***************************************************************************)
EXTENDS ModCache

CONSTANTS p1, c1

MCUses == [t \in {p1, c1} |-> IF t = c1 THEN {1} ELSE Mod]
MCShares == [m \in Mod |-> IF m = 1 THEN 2 ELSE 1]
MCPublished == [m \in Mod |-> IF m = 1 THEN 2 ELSE 1]
MCMaxVersion == [m \in Mod |-> IF m = 1 THEN 3 ELSE 1]
=============================================================================
