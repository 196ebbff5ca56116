---------------------- MODULE MCSourceSessionRegistry ----------------------
(***************************************************************************)
(* Model checking SourceSessionRegistry: keys are interchangeable and so   *)
(* are sessions, which is sound to use for the safety properties.          *)
(***************************************************************************)
EXTENDS SourceSessionRegistry, TLC

Symmetry == Permutations(Keys) \cup Permutations(Sessions)

(***************************************************************************)
(* Symmetry reduction is unsound for liveness.  Instead, of the ways the   *)
(* sessions can choose their keys, one that uses every key is taken: the   *)
(* others with as many keys only rename sessions and keys.                 *)
(***************************************************************************)
EveryKeyWanted == CHOOSE w \in [Sessions -> Keys] :
                    \A k \in Keys : \E s \in Sessions : w[s] = k

LiveInit == Init /\ want = EveryKeyWanted

LiveSpec == LiveInit /\ [][Next]_vars /\ Fairness
=============================================================================
