----------------------------- MODULE MCLiveStats -----------------------------
(***************************************************************************)
(* LiveStats for TLC.                                                      *)
(***************************************************************************)
EXTENDS LiveStats, TLC

CONSTANTS s1, s2

MCOrder == <<s1, s2>>

\* The second server is there for its place in the pass.
MCMaxChanges == s1 :> 2 @@ s2 :> 0
=============================================================================
