-------------------------- MODULE MCMeteringWindow --------------------------
(* Instances of MeteringWindow for TLC.                                    *)
EXTENDS MeteringWindow

(* Months of one to three days.                                            *)
ShortMonths == <<2, 1, 3>>
UnevenMonths == [m \in 0..3 |-> IF m = 0 THEN 2 ELSE ShortMonths[m]]
=============================================================================
