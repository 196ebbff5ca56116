----------------------------- MODULE MCDownloads -----------------------------
(***************************************************************************)
(* Instances of Downloads for TLC.  Gids and tasks are interchangeable in   *)
(* safety runs; the liveness run uses no symmetry.                          *)
(***************************************************************************)
EXTENDS Downloads, TLC

Symmetry == Permutations(Tasks) \cup Permutations(Gids)
                \cup Permutations(Calls) \cup Permutations(Names)
=============================================================================
