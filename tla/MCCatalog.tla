----------------------------- MODULE MCCatalog -----------------------------
(* Instances of Catalog for TLC.                                           *)
EXTENDS Catalog, TLC

(* The second version has no plans and no time.                            *)
PlanCounts == <<1, 0, 1, 2, 1>>

Timeless == {2}

CallSymmetry == Permutations(Calls)
=============================================================================
