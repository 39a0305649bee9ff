------------------------------- MODULE Broker -------------------------------
(***************************************************************************)
(* The service-instance lifecycle of the broker: the HTTP handlers that    *)
(* provision and deprovision an instance, the administrator's handler that *)
(* submits usage for one, and the state they share.                        *)
(*                                                                         *)
(* Node runs one continuation at a time, so the code between two awaits is *)
(* one action and every await is a point where another request, or the end *)
(* of the process, may come in between.  An action that answers an await   *)
(* takes the remote effect and the continuation together; the deletion of  *)
(* the database rows is the one call split in two, because its             *)
(* continuation writes state that other requests read (lastOp).            *)
(*                                                                         *)
(* A request that fails at a remote call may leave the remote effect       *)
(* behind: the call was served and only its answer was lost.               *)
(***************************************************************************)
EXTENDS Naturals

CONSTANTS
  Requests,        \* the HTTP requests of a behaviour; each is sent at most once
  Instances,       \* the instance ids the platform uses
  Operations,      \* the kinds of request in play, a subset of AllOperations
  Products,        \* the licensed products the PLLS_* environment configures
  RepeatPut,       \* may the platform repeat the PUT of an instance it has created?
  Overlap,         \* may it send a request while one for the same instance runs?
  Crashes,         \* may the process exit and be restarted?
  MeteringRejects  \* may the usage API refuse one record of a batch it accepts?

AllOperations == {"provision", "deprovision", "submit", "submit-test"}

ASSUME ConstantsAssumption ==
  /\ Operations \subseteq AllOperations
  /\ Products \subseteq {"PJS", "PUI"}
  /\ RepeatPut \in BOOLEAN
  /\ Overlap \in BOOLEAN
  /\ Crashes \in BOOLEAN
  /\ MeteringRejects \in BOOLEAN

VARIABLES
  (* The platform's requests; fixed when the behaviour starts.             *)
  op,       \* op[r]: which operation request r asks for
  inst,     \* inst[r]: the instance id it names
  (* The handler of each request.                                          *)
  pc,       \* pc[r]: the await the handler is suspended at
  reply,    \* reply[r]: the HTTP status it has answered with
  todo,     \* todo[r]: the products whose licenses it has still to handle
  found,    \* found[r]: the row it looked up
  start,    \* start[r]: the start time of the usage record it computed
  (* BrokerServiceImpl.lastOperationStatus: memory, lost by a restart.     *)
  lastOp,
  (* The database, the license server and the usage API.                   *)
  row,      \* row[r]: the service_instance row the provision request r inserts
  license,  \* license[<<r, p>>]: the license for product p that r orders
  charges,  \* the usage records the metering service has accepted
  (* History.                                                              *)
  doomed    \* the rows there were of an instance when the process accepted its DELETE

workload == <<op, inst>>
locals   == <<todo, found, start>>
remote   == <<row, license, charges>>
vars     == <<op, inst, pc, reply, todo, found, start, lastOp,
              row, license, charges, doomed>>

-----------------------------------------------------------------------------

ProvisionSteps   == {"catalog", "customer", "license", "authcode", "save"}
DeprovisionSteps == {"lookup", "token", "usage", "delete-license", "delete-rows", "clear"}
SubmitSteps      == {"pick", "token", "usage"}
Steps            == ProvisionSteps \cup DeprovisionSteps \cup SubmitSteps

Active(r) == pc[r] \notin {"idle", "done"}

OfPlatform(r) == op[r] \in {"provision", "deprovision"}

(* A mutation: the condition on the instance id is lost.                   *)
RowsOfAny(i) == {r \in Requests : row[r] = "stored"}

(* The rows of an instance id: instance_id has no unique constraint.       *)
RowsOf(i) == {r \in Requests : row[r] = "stored" /\ inst[r] = i}

(* What GET .../last_operation reports: an id without an entry counts as   *)
(* succeeded.                                                              *)
LastOperation(i) == IF lastOp[i] = "none" THEN "succeeded" ELSE lastOp[i]

(* Both loops over the products, PJS before PUI.                           *)
NextProduct(S) == IF "PJS" \in S THEN "PJS" ELSE "PUI"

Licenses == Requests \X Products

(* The usage API refuses a record whose instance and start time it has.    *)
Reported(r) == \E c \in charges : c.row = found[r] /\ c.start = start[r]

Quantity(r) == IF op[r] = "submit-test" THEN 0 ELSE 1

UsageRecord(r) == [row |-> found[r], start |-> start[r], quantity |-> Quantity(r)]

Init ==
  /\ op \in [Requests -> Operations]
  /\ inst \in [Requests -> Instances]
  /\ pc = [r \in Requests |-> "idle"]
  /\ reply = [r \in Requests |-> "none"]
  /\ todo = [r \in Requests |-> Products]
  /\ found = [r \in Requests |-> r]
  /\ start = [r \in Requests |-> r]
  /\ lastOp = [i \in Instances |-> "none"]
  /\ row = [r \in Requests |-> "none"]
  /\ license = [l \in Licenses |-> "none"]
  /\ charges = {}
  /\ doomed = {}

-----------------------------------------------------------------------------
(* Control shared by the handlers.                                         *)

(* Suspend at the next await.                                              *)
Await(r, step) ==
  /\ pc' = [pc EXCEPT ![r] = step]
  /\ UNCHANGED <<reply, lastOp>>

(* Answer and return.                                                      *)
Answer(r, code) ==
  /\ pc' = [pc EXCEPT ![r] = "done"]
  /\ reply' = [reply EXCEPT ![r] = code]
  /\ UNCHANGED lastOp

(* Mutations of Fail: the catch block forgets the status; errorHandler       *)
(* answers although the headers are sent.                                  *)
FailKeepingStatus(r, code) ==
  /\ pc' = [pc EXCEPT ![r] = "done"]
  /\ reply' = [reply EXCEPT ![r] = IF @ = "none" THEN code ELSE @]
  /\ UNCHANGED lastOp

FailAnsweringAgain(r, code) ==
  /\ pc' = [pc EXCEPT ![r] = "done"]
  /\ reply' = [reply EXCEPT ![r] = code]
  /\ lastOp' = IF op[r] = "deprovision"
                 THEN [lastOp EXCEPT ![inst[r]] = "failed"]
                 ELSE lastOp

(* The catch blocks and errorHandler: a deprovision is marked failed, and  *)
(* the error is the response unless one has been sent already.             *)
Fail(r, code) ==
  /\ pc' = [pc EXCEPT ![r] = "done"]
  /\ reply' = [reply EXCEPT ![r] = IF @ = "none" THEN code ELSE @]
  /\ lastOp' = IF op[r] = "deprovision"
                 THEN [lastOp EXCEPT ![inst[r]] = "failed"]
                 ELSE lastOp

(* When the platform may send r.  It names an instance in one PUT unless   *)
(* RepeatPut, and waits for the end of the previous operation unless       *)
(* Overlap.                                                                *)
MaySend(r) ==
  /\ pc[r] = "idle"
  /\ Overlap \/ \A q \in Requests : inst[q] = inst[r] /\ OfPlatform(q) => ~Active(q)
  /\ \/ RepeatPut
     \/ op[r] # "provision"
     \/ \A q \in Requests : op[q] = "provision" /\ inst[q] = inst[r] => pc[q] = "idle"

-----------------------------------------------------------------------------
(* PUT /v2/service_instances/:instanceId                                    *)

(* A missing header or a foreign platform is refused before any await.     *)
ReceiveProvision(r) ==
  /\ op[r] = "provision"
  /\ MaySend(r)
  /\ \/ Await(r, "catalog")
     \/ Fail(r, "500")
  /\ UNCHANGED <<locals, remote, doomed>>

(* getPlan over the catalog: the plan is known, or the request fails.      *)
CatalogAnswers(r) ==
  /\ pc[r] = "catalog"
  /\ \/ Await(r, "customer")
     \/ Fail(r, "500")
  /\ UNCHANGED <<locals, remote, doomed>>

(* A mutation: the row is saved without waiting for the second product.    *)
AfterOneLicense(S) == IF S # Products THEN "save" ELSE "license"

(* The next await of provisionFloatingLicenses, then of provision.         *)
AfterLicenses(S) == IF S = {} THEN "save" ELSE "license"

CreateCustomer(r) ==
  /\ pc[r] = "customer"
  /\ \/ Await(r, AfterLicenses(todo[r]))
     \/ Fail(r, "500")
  /\ UNCHANGED <<locals, remote, doomed>>

CreateLicense(r) ==
  /\ pc[r] = "license"
  /\ LET ordered == [license EXCEPT ![<<r, NextProduct(todo[r])>>] = "live"]
     IN \/ license' = ordered /\ Await(r, "authcode")
        \/ license' \in {license, ordered} /\ Fail(r, "500")
  /\ UNCHANGED <<locals, row, charges, doomed>>

CreateAuthorizationCode(r) ==
  /\ pc[r] = "authcode"
  /\ LET rest == todo[r] \ {NextProduct(todo[r])}
     IN \/ todo' = [todo EXCEPT ![r] = rest] /\ Await(r, AfterLicenses(rest))
        \/ UNCHANGED todo /\ Fail(r, "500")
  /\ UNCHANGED <<found, start, remote, doomed>>

(* The row holds the license ids; it is a new row whatever the table has   *)
(* for the instance id.                                                    *)
SaveInstance(r) ==
  /\ pc[r] = "save"
  /\ LET inserted == [row EXCEPT ![r] = "stored"]
     IN \/ row' = inserted /\ Answer(r, "200")
        \/ row' \in {row, inserted} /\ Fail(r, "500")
  /\ UNCHANGED <<locals, license, charges, doomed>>

-----------------------------------------------------------------------------
(* DELETE /v2/service_instances/:instanceId                                 *)

(* The status is set and 202 sent before the work begins.                  *)
ReceiveDeprovision(r) ==
  /\ op[r] = "deprovision"
  /\ MaySend(r)
  /\ \/ /\ lastOp' = [lastOp EXCEPT ![inst[r]] = "in progress"]
        /\ reply' = [reply EXCEPT ![r] = "202"]
        /\ pc' = [pc EXCEPT ![r] = "lookup"]
        /\ doomed' = doomed \cup RowsOf(inst[r])
     \/ Answer(r, "422") /\ UNCHANGED doomed
  /\ UNCHANGED <<locals, remote>>

(* createMeteringPayload: a row younger than the month start it computes   *)
(* is reported from its creation time, the same in every report; otherwise *)
(* the start is derived from the clock and differs between calls.          *)
ComputeUsage(r, s) ==
  /\ found' = [found EXCEPT ![r] = s]
  /\ start' \in {[start EXCEPT ![r] = s], [start EXCEPT ![r] = r]}

LookupInstance(r) ==
  /\ pc[r] = "lookup"
  /\ \/ \E s \in RowsOf(inst[r]) : ComputeUsage(r, s) /\ Await(r, "token")
     \/ UNCHANGED <<found, start>> /\ Fail(r, "500")
  /\ UNCHANGED <<todo, remote, doomed>>

(* A mutation: the rows go as soon as one license is deleted.              *)
AfterOneDeletion(S) == IF S # Products THEN "delete-rows" ELSE "delete-license"

(* The next await of deprovisionFloatingLicenses, then of deprovision.     *)
AfterDeletions(S) == IF S = {} THEN "delete-rows" ELSE "delete-license"

(* A mutation: a deprovision goes on although it could not report usage.   *)
FetchTokenLeniently(r) ==
  /\ pc[r] = "token"
  /\ \/ Await(r, "usage")
     \/ Await(r, AfterDeletions(todo[r]))
  /\ UNCHANGED <<locals, remote, doomed>>

(* The IAM token of the usage API.                                         *)
FetchToken(r) ==
  /\ pc[r] = "token"
  /\ \/ Await(r, "usage")
     \/ Fail(r, "500")
  /\ UNCHANGED <<locals, remote, doomed>>

(* What follows a report without failures.                                 *)
UsageSent(r) == IF op[r] = "deprovision"
                  THEN Await(r, AfterDeletions(todo[r]))
                  ELSE Answer(r, "200")

(* sendUsageDataToApi with one record.  The record is accepted; or it is a *)
(* duplicate, reported as a failure; or it is refused with another status  *)
(* inside a 202, which getFailuresFromResponse drops; or the call fails.   *)
SendUsage(r) ==
  /\ pc[r] = "usage"
  /\ \/ ~Reported(r) /\ charges' = charges \cup {UsageRecord(r)} /\ UsageSent(r)
     \/ Reported(r) /\ UNCHANGED charges /\ Fail(r, "500")
     \/ MeteringRejects /\ UNCHANGED charges /\ UsageSent(r)
     \/ UNCHANGED charges /\ Fail(r, "500")
     \/ ~Reported(r) /\ charges' = charges \cup {UsageRecord(r)} /\ Fail(r, "500")
  /\ UNCHANGED <<locals, row, license, doomed>>

DeleteLicense(r) ==
  /\ pc[r] = "delete-license"
  /\ LET p     == NextProduct(todo[r])
         freed == [license EXCEPT ![<<found[r], p>>] = "freed"]
         rest  == todo[r] \ {p}
     IN \/ /\ license' = freed
           /\ todo' = [todo EXCEPT ![r] = rest]
           /\ Await(r, AfterDeletions(rest))
        \/ license' \in {license, freed} /\ UNCHANGED todo /\ Fail(r, "500")
  /\ UNCHANGED <<found, start, row, charges, doomed>>

(* A mutation: a failed deletion is logged and taken for done.             *)
DeleteRowsLeniently(r) ==
  /\ pc[r] = "delete-rows"
  /\ row' \in {row, [q \in Requests |-> IF q \in RowsOf(inst[r]) THEN "deleted" ELSE row[q]]}
  /\ Await(r, "clear")
  /\ UNCHANGED <<locals, license, charges, doomed>>

(* delete({ instanceId }) removes every row of the instance id.            *)
DeleteRows(r) ==
  /\ pc[r] = "delete-rows"
  /\ \/ /\ row' = [q \in Requests |-> IF q \in RowsOf(inst[r]) THEN "deleted" ELSE row[q]]
        /\ Await(r, "clear")
     \/ UNCHANGED row /\ Fail(r, "500")
  /\ UNCHANGED <<locals, license, charges, doomed>>

(* A mutation: the end of the work is stored as a state of its own.        *)
ClearByState(r) ==
  /\ pc[r] = "clear"
  /\ lastOp' = [lastOp EXCEPT ![inst[r]] = "succeeded"]
  /\ pc' = [pc EXCEPT ![r] = "done"]
  /\ UNCHANGED <<reply, locals, remote, doomed>>

(* The answer of the deletion arrives, or is lost.                         *)
ClearStatus(r) ==
  /\ pc[r] = "clear"
  /\ \/ /\ lastOp' = [lastOp EXCEPT ![inst[r]] = "none"]
        /\ pc' = [pc EXCEPT ![r] = "done"]
        /\ UNCHANGED reply
     \/ Fail(r, "500")
  /\ UNCHANGED <<locals, remote, doomed>>

-----------------------------------------------------------------------------
(* POST /admin/submit-billing                                               *)

ReceiveSubmitBilling(r) ==
  /\ ~OfPlatform(r)
  /\ pc[r] = "idle"
  /\ Await(r, "pick")
  /\ UNCHANGED <<locals, remote, doomed>>

(* The route has no :instanceId, so the lookup has no condition and the    *)
(* first row of the table is taken, whatever instance it is of.            *)
PickInstance(r) ==
  /\ pc[r] = "pick"
  /\ LET stored == {s \in Requests : row[s] = "stored"}
     IN \/ \E s \in stored : ComputeUsage(r, s) /\ Await(r, "token")
        \/ stored = {} /\ UNCHANGED <<found, start>> /\ Fail(r, "404")
        \/ UNCHANGED <<found, start>> /\ Fail(r, "500")
  /\ UNCHANGED <<todo, remote, doomed>>

-----------------------------------------------------------------------------

(* An uncaught exception or an unhandled rejection ends the process; the   *)
(* restarted one has no requests and an empty lastOperationStatus.         *)
Crash ==
  /\ Crashes
  /\ pc' = [r \in Requests |-> IF Active(r) THEN "done" ELSE pc[r]]
  /\ lastOp' = [i \in Instances |-> "none"]
  /\ doomed' = {}
  /\ UNCHANGED <<reply, locals, remote>>

Receive(r) == ReceiveProvision(r) \/ ReceiveDeprovision(r) \/ ReceiveSubmitBilling(r)

Resume(r) ==
  \/ CatalogAnswers(r)
  \/ CreateCustomer(r)
  \/ CreateLicense(r)
  \/ CreateAuthorizationCode(r)
  \/ SaveInstance(r)
  \/ LookupInstance(r)
  \/ FetchToken(r)
  \/ SendUsage(r)
  \/ DeleteLicense(r)
  \/ DeleteRows(r)
  \/ ClearStatus(r)
  \/ PickInstance(r)

Next ==
  /\ \/ \E r \in Requests : Receive(r) \/ Resume(r)
     \/ Crash
  /\ UNCHANGED workload

Spec == Init /\ [][Next]_vars

(* Every remote call is answered or fails, and Node runs the continuation. *)
Fairness == \A r \in Requests : WF_vars(Resume(r) /\ UNCHANGED workload)

FairSpec == Spec /\ Fairness

-----------------------------------------------------------------------------
(* Properties.                                                             *)

(* The types of the variables; the status map holds "in progress" and      *)
(* "failed" only, the end of a deprovision is the absence of an entry.     *)
TypeOK ==
  /\ op \in [Requests -> Operations]
  /\ inst \in [Requests -> Instances]
  /\ pc \in [Requests -> Steps \cup {"idle", "done"}]
  /\ reply \in [Requests -> {"none", "200", "202", "404", "422", "500"}]
  /\ todo \in [Requests -> SUBSET Products]
  /\ found \in [Requests -> Requests]
  /\ start \in [Requests -> Requests]
  /\ lastOp \in [Instances -> {"none", "in progress", "failed"}]
  /\ row \in [Requests -> {"none", "stored", "deleted"}]
  /\ license \in [Licenses -> {"none", "live", "freed"}]
  /\ charges \subseteq [row : Requests, start : Requests, quantity : {0, 1}]
  /\ doomed \subseteq Requests

(* A status of "in progress" is never left behind: while it is reported, a *)
(* deprovision of that instance is really running, whatever overlaps,      *)
(* fails or crashes.  (broker.controller deprovision sets it, every way    *)
(* out of broker-impl deprovision replaces it.)                            *)
InProgressIsRunning ==
  \A i \in Instances : lastOp[i] = "in progress" =>
    \E r \in Requests : op[r] = "deprovision" /\ inst[r] = i /\ Active(r)

(* A license is only released when the metering service has a charge for   *)
(* the instance it belonged to: deprovision reports usage first, and stops *)
(* when the report fails.                                                  *)
ChargedBeforeRelease ==
  \A l \in Licenses : license[l] = "freed" =>
    \E c \in charges : c.row = l[1] /\ c.quantity = 1

(* A successful PUT leaves a row and a live license for every product, and *)
(* nothing takes them away but a DELETE of that very instance: no DELETE   *)
(* of another one, no other PUT, no submission, failure or restart.        *)
ProvisionedUntilDeprovisioned ==
  \A r \in Requests : op[r] = "provision" /\ reply[r] = "200" =>
    \/ row[r] = "stored" /\ \A p \in Products : license[<<r, p>>] = "live"
    \/ \E d \in Requests :
         op[d] = "deprovision" /\ inst[d] = inst[r] /\ reply[d] = "202"

(* A row is the broker's only record of its license ids, so it may only be *)
(* deleted after all of them are released.                                 *)
NoLeakedLicense ==
  \A r \in Requests : row[r] = "deleted" =>
    \A p \in Products : license[<<r, p>>] = "freed"

(* The platform polls last_operation until "succeeded" and then forgets    *)
(* the instance: it must not hear it while a row it asked this process to  *)
(* delete is still there.                                                  *)
SuccessMeansGone ==
  \A r \in doomed : row[r] = "stored" => LastOperation(inst[r]) # "succeeded"

(* An operation the platform has been told of ends as succeeded only when  *)
(* the rows of the instance are gone, in the same process or the next.     *)
SucceedsOnlyWhenGone ==
  [][\A i \in Instances : lastOp[i] # "none" /\ RowsOf(i) # {} =>
        lastOp'[i] # "none"]_vars

(* A submission that succeeded billed the instance that was asked for.     *)
SubmitBillsRequested ==
  \A r \in Requests : ~OfPlatform(r) /\ reply[r] = "200" => inst[found[r]] = inst[r]

(* Every request, overlapping, failing or cut off, keeps the promise of    *)
(* Custody: the license states, the rows and the usage records of quantity *)
(* one change only as Custody allows.  A row is known by its provision.    *)
Charged == {c.row : c \in {d \in charges : d.quantity = 1}}

Keeping == INSTANCE Custody WITH Instances <- Requests, record <- row, charged <- Charged

KeepsCustody == Keeping!Spec

(* A request is answered once: an error after the 202 of a deprovision     *)
(* finds the headers sent, and changes no answer.                          *)
AnswerOnce == [][\A r \in Requests : reply[r] # "none" => reply'[r] = reply[r]]_vars

(* The platform does not poll forever: a deprovision in progress ends, if  *)
(* every remote call ends.                                                 *)
DeprovisionSettles ==
  \A i \in Instances : lastOp[i] = "in progress" ~> lastOp[i] # "in progress"
=============================================================================
