-------------------------------- MODULE Ledger --------------------------------
(***************************************************************************)
(* What monthly billing promises about each bill, whatever calls fail and  *)
(* whatever administrators retry, as long as the process lives, the usage  *)
(* API answers for each record and the notification arrives: a bill that   *)
(* was listed is kept until the usage API has taken it, unless the job     *)
(* tells an operator that it failed, or the bills of a later month are     *)
(* listed.  A bill that has been dropped does not come back, and no bill   *)
(* is taken of a month that was not listed.                                *)
(***************************************************************************)
EXTENDS Naturals

CONSTANT Claims  \* everything that may be billed; a claim has a month, a positive number

VARIABLES
  month,   \* the last month the instances were listed of
  listed,  \* the bills of that month
  kept,    \* the bills in the table, or on their way there
  taken,   \* the bills the usage API has taken
  alarm    \* has an operator been told, or is about to be, since the last tick?

vars == <<month, listed, kept, taken, alarm>>

Init ==
  /\ month = 0
  /\ listed = {}
  /\ kept = {}
  /\ taken = {}
  /\ alarm = FALSE

Begin ==
  /\ alarm' = FALSE
  /\ UNCHANGED <<month, listed, kept, taken>>

List ==
  /\ \E m \in {b.month : b \in Claims} :
       m > month /\ month' = m /\ listed' \subseteq {b \in Claims : b.month = m}
  /\ kept' = kept \cup listed'
  /\ UNCHANGED <<taken, alarm>>

Take ==
  /\ taken \subseteq taken'
  /\ \A b \in taken' \ taken : b \in Claims /\ b.month <= month
  /\ UNCHANGED <<month, listed, kept, alarm>>

(* Bills that are settled, or of an earlier month, may go.                 *)
Drop ==
  /\ kept' \subseteq kept
  /\ \A b \in kept \ kept' : b \in taken \/ b.month < month
  /\ UNCHANGED <<month, listed, taken, alarm>>

GiveUp ==
  /\ kept' \subseteq kept
  /\ alarm' = TRUE
  /\ UNCHANGED <<month, listed, taken>>

Next == Begin \/ List \/ Take \/ Drop \/ GiveUp

Spec == Init /\ [][Next]_vars
=============================================================================
