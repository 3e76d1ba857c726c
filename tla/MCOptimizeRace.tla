---------------------------- MODULE MCOptimizeRace ----------------------------
(***************************************************************************)
(* OptimizeRace for TLC.                                                   *)
(***************************************************************************)
EXTENDS OptimizeRace, TLC

Symmetry == Permutations(Orders) \cup Permutations(Plans) \cup Permutations(Drivers)
            \cup Permutations(Vehicles) \cup Permutations(Routes) \cup Permutations(Requests)

\* Bound: what an exemption covers is not followed further.
FewDisturbed ==
  Cardinality(contested) + Cardinality(crowded) + Cardinality(byHand)
    + (IF recounted THEN 1 ELSE 0) <= 1
=============================================================================
