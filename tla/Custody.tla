------------------------------- MODULE Custody --------------------------------
(***************************************************************************)
(* What the broker promises about licenses, whatever requests overlap,     *)
(* fail or are cut off: it records an instance only when all its licenses  *)
(* are ordered, charges what it has recorded, releases a license only of   *)
(* an instance it has charged, and forgets the record only when all the    *)
(* licenses it names are released.                                         *)
(*                                                                         *)
(* A license ordered for an instance that is never recorded stays live:    *)
(* the code has no compensation, and nothing is promised about it.         *)
(***************************************************************************)
CONSTANTS
  Instances,  \* everything the broker may record, one record for each
  Products    \* the licensed products of an instance

VARIABLES
  license,    \* license[<<i, p>>]: the license of instance i for product p
  record,     \* record[i]: the broker's record of the instance
  charged     \* the instances whose usage the metering service has been told

vars == <<license, record, charged>>

Init ==
  /\ license = [l \in Instances \X Products |-> "none"]
  /\ record = [i \in Instances |-> "none"]
  /\ charged = {}

AllLicenses(i, state) == \A p \in Products : license[<<i, p>>] = state

Order(i, p) ==
  /\ record[i] = "none"
  /\ license[<<i, p>>] = "none"
  /\ license' = [license EXCEPT ![<<i, p>>] = "live"]
  /\ UNCHANGED <<record, charged>>

Record(i) ==
  /\ record[i] = "none"
  /\ AllLicenses(i, "live")
  /\ record' = [record EXCEPT ![i] = "stored"]
  /\ UNCHANGED <<license, charged>>

(* The charge may arrive after the record is gone: an administrator's      *)
(* submission may have read it before.                                     *)
Charge(i) ==
  /\ record[i] # "none"
  /\ charged' = charged \cup {i}
  /\ UNCHANGED <<license, record>>

Release(i, p) ==
  /\ record[i] = "stored"
  /\ i \in charged
  /\ license[<<i, p>>] = "live"
  /\ license' = [license EXCEPT ![<<i, p>>] = "freed"]
  /\ UNCHANGED <<record, charged>>

Forget(i) ==
  /\ record[i] = "stored"
  /\ AllLicenses(i, "freed")
  /\ record' = [record EXCEPT ![i] = "deleted"]
  /\ UNCHANGED <<license, charged>>

Next ==
  \E i \in Instances :
    \/ Record(i) \/ Charge(i) \/ Forget(i)
    \/ \E p \in Products : Order(i, p) \/ Release(i, p)

Spec == Init /\ [][Next]_vars
=============================================================================
