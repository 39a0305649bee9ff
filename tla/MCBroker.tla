------------------------------ MODULE MCBroker ------------------------------
(* Instances of Broker for TLC.                                            *)
EXTENDS Broker, TLC

BothProducts == {"PJS", "PUI"}
OneProduct   == {"PJS"}

Lifecycle == {"provision", "deprovision"}
Admin     == {"provision", "deprovision", "submit", "submit-test"}
Submits   == {"provision", "submit"}

(* A safety run may permute the requests: Init leaves the workload open    *)
(* and no request is named.                                                *)
RequestSymmetry == Permutations(Requests)
RequestAndInstanceSymmetry == Permutations(Requests) \cup Permutations(Instances)
=============================================================================
