----------------------------- MODULE MCBilling -----------------------------
(* Instances of Billing for TLC.                                           *)
EXTENDS Billing, TLC

(* The retries are interchangeable.                                        *)
AdminSymmetry == Permutations(Admins)
=============================================================================
