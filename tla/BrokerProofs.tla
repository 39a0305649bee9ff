---------------------------- MODULE BrokerProofs ----------------------------
(***************************************************************************)
(* What holds of Broker for every set of requests and instances.           *)
(***************************************************************************)
EXTENDS Broker, TLAPS

ControlOK ==
  /\ pc \in [Requests -> Steps \cup {"idle", "done"}]
  /\ reply \in [Requests -> {"none", "200", "202", "404", "422", "500"}]
  /\ lastOp \in [Instances -> {"none", "in progress", "failed"}]

(* What a handler writes when it suspends, answers or fails has its type.  *)
LEMMA AwaitTypes ==
  ASSUME TypeOK, NEW r \in Requests, NEW step \in Steps, Await(r, step)
  PROVE  ControlOK'
  BY DEF TypeOK, Await, ControlOK

LEMMA AnswerTypes ==
  ASSUME TypeOK, NEW r \in Requests, NEW code \in {"200", "422"}, Answer(r, code)
  PROVE  ControlOK'
  BY DEF TypeOK, Answer, ControlOK

LEMMA FailTypes ==
  ASSUME TypeOK, NEW r \in Requests, NEW code \in {"404", "500"}, Fail(r, code)
  PROVE  ControlOK'
<1>1. pc' \in [Requests -> Steps \cup {"idle", "done"}]
  BY DEF TypeOK, Fail
<1>2. reply' \in [Requests -> {"none", "200", "202", "404", "422", "500"}]
  <2>1. reply[r] \in {"none", "200", "202", "404", "422", "500"}
    BY DEF TypeOK
  <2> DEFINE answer == IF reply[r] = "none" THEN code ELSE reply[r]
  <2>2. answer \in {"none", "200", "202", "404", "422", "500"}
    BY <2>1
  <2>3. reply' = [reply EXCEPT ![r] = answer]
    BY DEF Fail
  <2> QED
    BY <2>2, <2>3 DEF TypeOK
<1>3. lastOp' \in [Instances -> {"none", "in progress", "failed"}]
  BY DEF TypeOK, Fail
<1> QED
  BY <1>1, <1>2, <1>3 DEF ControlOK

LEMMA UsageTypes ==
  ASSUME TypeOK, NEW r \in Requests, NEW s \in Requests, ComputeUsage(r, s)
  PROVE  found' \in [Requests -> Requests] /\ start' \in [Requests -> Requests]
  BY DEF TypeOK, ComputeUsage

LEMMA RecordType ==
  ASSUME TypeOK, NEW r \in Requests
  PROVE  UsageRecord(r) \in [row : Requests, start : Requests, quantity : {0, 1}]
  BY DEF TypeOK, UsageRecord, Quantity

(* Every variable keeps its type.                                          *)
LEMMA TypeInit == Init => TypeOK
  BY DEF Init, TypeOK, Licenses

LEMMA TypeStep == TypeOK /\ [Next]_vars => TypeOK'
<1> SUFFICES ASSUME TypeOK, [Next]_vars PROVE TypeOK'
  OBVIOUS
<1> USE DEF Steps, ProvisionSteps, DeprovisionSteps, SubmitSteps
<1>1. CASE Next
  <2>1. UNCHANGED workload
    BY <1>1 DEF Next
  <2>2. ASSUME NEW r \in Requests, ReceiveProvision(r) PROVE TypeOK'
    <3>1. ControlOK'
      BY <2>2, AwaitTypes, AnswerTypes, FailTypes DEF ReceiveProvision
    <3> QED
      BY <2>1, <2>2, <3>1 DEF TypeOK, ControlOK, ReceiveProvision, workload, locals, remote
  <2>3. ASSUME NEW r \in Requests, ReceiveDeprovision(r) PROVE TypeOK'
    <3>1. CASE Answer(r, "422") /\ UNCHANGED doomed
      <4>1. ControlOK'
        BY <3>1, AnswerTypes
      <4> QED
        BY <2>1, <2>3, <3>1, <4>1 DEF TypeOK, ControlOK, ReceiveDeprovision, workload, locals, remote
    <3>2. CASE ~(Answer(r, "422") /\ UNCHANGED doomed)
      <4>1. ControlOK'
        <5>1. pc' = [pc EXCEPT ![r] = "lookup"] /\ reply' = [reply EXCEPT ![r] = "202"]
          BY <2>3, <3>2 DEF ReceiveDeprovision
        <5>2. lastOp' = [lastOp EXCEPT ![inst[r]] = "in progress"]
          BY <2>3, <3>2 DEF ReceiveDeprovision
        <5>3. lastOp' \in [Instances -> {"none", "in progress", "failed"}]
          BY <5>2 DEF TypeOK
        <5> QED
          BY <5>1, <5>3 DEF TypeOK, ControlOK
      <4>2. doomed' \subseteq Requests
        BY <2>3, <3>2 DEF TypeOK, ReceiveDeprovision, RowsOf
      <4> QED
        BY <2>1, <2>3, <4>1, <4>2 DEF TypeOK, ControlOK, ReceiveDeprovision, workload, locals, remote
    <3> QED
      BY <3>1, <3>2
  <2>4. ASSUME NEW r \in Requests, ReceiveSubmitBilling(r) PROVE TypeOK'
    <3>1. ControlOK'
      BY <2>4, AwaitTypes, AnswerTypes, FailTypes DEF ReceiveSubmitBilling
    <3> QED
      BY <2>1, <2>4, <3>1 DEF TypeOK, ControlOK, ReceiveSubmitBilling, workload, locals, remote
  <2>5. ASSUME NEW r \in Requests, CatalogAnswers(r) PROVE TypeOK'
    <3>1. ControlOK'
      BY <2>5, AwaitTypes, AnswerTypes, FailTypes DEF CatalogAnswers
    <3> QED
      BY <2>1, <2>5, <3>1 DEF TypeOK, ControlOK, CatalogAnswers, workload, locals, remote
  <2>6. ASSUME NEW r \in Requests, CreateCustomer(r) PROVE TypeOK'
    <3>1. ControlOK'
      BY <2>6, AwaitTypes, AnswerTypes, FailTypes DEF CreateCustomer, AfterLicenses
    <3> QED
      BY <2>1, <2>6, <3>1 DEF TypeOK, ControlOK, CreateCustomer, workload, locals, remote, AfterLicenses
  <2>7. ASSUME NEW r \in Requests, CreateLicense(r) PROVE TypeOK'
    <3>1. ControlOK'
      BY <2>7, AwaitTypes, AnswerTypes, FailTypes DEF CreateLicense, NextProduct
    <3> QED
      BY <2>1, <2>7, <3>1 DEF TypeOK, ControlOK, CreateLicense, workload, locals, remote, NextProduct
  <2>8. ASSUME NEW r \in Requests, CreateAuthorizationCode(r) PROVE TypeOK'
    <3>1. ControlOK'
      BY <2>8, AwaitTypes, AnswerTypes, FailTypes DEF CreateAuthorizationCode, AfterLicenses
    <3>2. todo' \in [Requests -> SUBSET Products]
      BY <2>8 DEF TypeOK, CreateAuthorizationCode
    <3> QED
      BY <2>1, <2>8, <3>1, <3>2 DEF TypeOK, ControlOK, CreateAuthorizationCode, workload, remote
  <2>9. ASSUME NEW r \in Requests, SaveInstance(r) PROVE TypeOK'
    <3>1. ControlOK'
      BY <2>9, AwaitTypes, AnswerTypes, FailTypes DEF SaveInstance
    <3> QED
      BY <2>1, <2>9, <3>1 DEF TypeOK, ControlOK, SaveInstance, workload, locals, remote
  <2>10. ASSUME NEW r \in Requests, LookupInstance(r) PROVE TypeOK'
    <3>1. ControlOK'
      BY <2>10, AwaitTypes, AnswerTypes, FailTypes DEF LookupInstance
    <3>2. found' \in [Requests -> Requests] /\ start' \in [Requests -> Requests]
      BY <2>10, UsageTypes DEF TypeOK, LookupInstance, RowsOf
    <3> QED
      BY <2>1, <2>10, <3>1, <3>2 DEF TypeOK, ControlOK, LookupInstance, workload, remote
  <2>11. ASSUME NEW r \in Requests, FetchToken(r) PROVE TypeOK'
    <3>1. ControlOK'
      BY <2>11, AwaitTypes, AnswerTypes, FailTypes DEF FetchToken
    <3> QED
      BY <2>1, <2>11, <3>1 DEF TypeOK, ControlOK, FetchToken, workload, locals, remote
  <2>12. ASSUME NEW r \in Requests, SendUsage(r) PROVE TypeOK'
    <3>1. ControlOK'
      BY <2>12, AwaitTypes, AnswerTypes, FailTypes DEF SendUsage, UsageSent, AfterDeletions
    <3>2. charges' \subseteq [row : Requests, start : Requests, quantity : {0, 1}]
      <4>1. charges' \in {charges, charges \cup {UsageRecord(r)}}
        BY <2>12 DEF SendUsage
      <4> QED
        BY <4>1, RecordType DEF TypeOK
    <3> QED
      BY <2>1, <2>12, <3>1, <3>2 DEF TypeOK, ControlOK, SendUsage, workload, locals
  <2>13. ASSUME NEW r \in Requests, DeleteLicense(r) PROVE TypeOK'
    <3>1. ControlOK'
      BY <2>13, AwaitTypes, AnswerTypes, FailTypes DEF DeleteLicense, AfterDeletions
    <3>2. todo' \in [Requests -> SUBSET Products]
      BY <2>13 DEF TypeOK, DeleteLicense
    <3>3. license' \in [Licenses -> {"none", "live", "freed"}]
      BY <2>13 DEF TypeOK, DeleteLicense
    <3> QED
      BY <2>1, <2>13, <3>1, <3>2, <3>3 DEF TypeOK, ControlOK, DeleteLicense, workload
  <2>14. ASSUME NEW r \in Requests, DeleteRows(r) PROVE TypeOK'
    <3>1. ControlOK'
      BY <2>14, AwaitTypes, AnswerTypes, FailTypes DEF DeleteRows
    <3>2. row' \in [Requests -> {"none", "stored", "deleted"}]
      <4>1. CASE UNCHANGED row
        BY <4>1 DEF TypeOK
      <4>2. CASE row' = [q \in Requests |-> IF q \in RowsOf(inst[r]) THEN "deleted" ELSE row[q]]
        BY <4>2 DEF TypeOK
      <4> QED
        BY <2>14, <4>1, <4>2 DEF DeleteRows
    <3> QED
      BY <2>1, <2>14, <3>1, <3>2 DEF TypeOK, ControlOK, DeleteRows, workload, locals
  <2>15. ASSUME NEW r \in Requests, ClearStatus(r) PROVE TypeOK'
    <3>1. CASE Fail(r, "500")
      <4>1. ControlOK'
        BY <3>1, FailTypes
      <4> QED
        BY <2>1, <2>15, <4>1 DEF TypeOK, ControlOK, ClearStatus, workload, locals, remote
    <3>2. CASE ~Fail(r, "500")
      <4>1. ControlOK'
        <5>1. pc' = [pc EXCEPT ![r] = "done"] /\ UNCHANGED reply
          BY <2>15, <3>2 DEF ClearStatus
        <5>2. lastOp' = [lastOp EXCEPT ![inst[r]] = "none"]
          BY <2>15, <3>2 DEF ClearStatus
        <5>3. lastOp' \in [Instances -> {"none", "in progress", "failed"}]
          BY <5>2 DEF TypeOK
        <5> QED
          BY <5>1, <5>3 DEF TypeOK, ControlOK
      <4> QED
        BY <2>1, <2>15, <4>1 DEF TypeOK, ControlOK, ClearStatus, workload, locals, remote
    <3> QED
      BY <3>1, <3>2
  <2>16. ASSUME NEW r \in Requests, PickInstance(r) PROVE TypeOK'
    <3>1. ControlOK'
      BY <2>16, AwaitTypes, AnswerTypes, FailTypes DEF PickInstance
    <3>2. found' \in [Requests -> Requests] /\ start' \in [Requests -> Requests]
      BY <2>16, UsageTypes DEF TypeOK, PickInstance
    <3> QED
      BY <2>1, <2>16, <3>1, <3>2 DEF TypeOK, ControlOK, PickInstance, workload, remote
  <2>17. CASE Crash
    BY <2>1, <2>17 DEF TypeOK, Crash, workload, locals, remote
  <2> QED
    BY <1>1, <2>2, <2>3, <2>4, <2>5, <2>6, <2>7, <2>8, <2>9, <2>10, <2>11, <2>12, <2>13, <2>14, <2>15, <2>16, <2>17 DEF Next, Receive, Resume
<1>2. CASE UNCHANGED vars
  BY <1>2 DEF TypeOK, vars
<1> QED
  BY <1>1, <1>2

(* Every variable keeps its type, for every workload, every set of         *)
(* products and every setting of the switches.                             *)
THEOREM TypeCorrect == Spec => []TypeOK
  BY TypeInit, TypeStep, PTL DEF Spec

-----------------------------------------------------------------------------
(* A status of "in progress" has a running deprovision behind it.  The     *)
(* strengthening: a handler in a provision's steps serves a provision, so  *)
(* the only deprovisions that answer are those that never set the status.  *)

ProvisionStepsServeProvisions ==
  \A r \in Requests : pc[r] \in ProvisionSteps => op[r] = "provision"

LEMMA AwaitServes ==
  ASSUME TypeOK, ProvisionStepsServeProvisions, UNCHANGED workload,
         NEW r \in Requests, NEW step \in Steps, Await(r, step),
         step \in ProvisionSteps => op[r] = "provision"
  PROVE  ProvisionStepsServeProvisions'
  BY DEF TypeOK, ProvisionStepsServeProvisions, workload, Await

LEMMA EndServes ==
  ASSUME TypeOK, ProvisionStepsServeProvisions, UNCHANGED workload,
         NEW r \in Requests, NEW code, Answer(r, code) \/ Fail(r, code)
  PROVE  ProvisionStepsServeProvisions'
<1>1. pc' = [pc EXCEPT ![r] = "done"]
  BY DEF Answer, Fail
<1> QED
  BY <1>1 DEF TypeOK, ProvisionStepsServeProvisions, ProvisionSteps, workload

LEMMA StepsServe ==
  ASSUME TypeOK, ProvisionStepsServeProvisions, [Next]_vars
  PROVE  ProvisionStepsServeProvisions'
<1> USE AwaitServes, EndServes DEF Steps, ProvisionSteps, DeprovisionSteps, SubmitSteps
<1>1. CASE UNCHANGED vars
  BY <1>1 DEF vars, ProvisionStepsServeProvisions
<1>2. CASE Next
  <2>1. UNCHANGED workload
    BY <1>2 DEF Next
  <2>2. ASSUME NEW r \in Requests, ReceiveProvision(r) PROVE ProvisionStepsServeProvisions'
    BY <2>1, <2>2 DEF ReceiveProvision
  <2>3. ASSUME NEW r \in Requests, ReceiveDeprovision(r) PROVE ProvisionStepsServeProvisions'
    <3>1. CASE Answer(r, "422")
      BY <2>1, <3>1
    <3>2. CASE pc' = [pc EXCEPT ![r] = "lookup"]
      BY <2>1, <3>2 DEF TypeOK, ProvisionStepsServeProvisions, workload
    <3> QED
      BY <2>3, <3>1, <3>2 DEF ReceiveDeprovision
  <2>4. ASSUME NEW r \in Requests, ReceiveSubmitBilling(r) PROVE ProvisionStepsServeProvisions'
    BY <2>1, <2>4 DEF ReceiveSubmitBilling
  <2>5. ASSUME NEW r \in Requests, CatalogAnswers(r) PROVE ProvisionStepsServeProvisions'
    BY <2>1, <2>5 DEF CatalogAnswers, ProvisionStepsServeProvisions
  <2>6. ASSUME NEW r \in Requests, CreateCustomer(r) PROVE ProvisionStepsServeProvisions'
    BY <2>1, <2>6 DEF CreateCustomer, AfterLicenses, ProvisionStepsServeProvisions
  <2>7. ASSUME NEW r \in Requests, CreateLicense(r) PROVE ProvisionStepsServeProvisions'
    BY <2>1, <2>7 DEF CreateLicense, ProvisionStepsServeProvisions
  <2>8. ASSUME NEW r \in Requests, CreateAuthorizationCode(r) PROVE ProvisionStepsServeProvisions'
    BY <2>1, <2>8 DEF CreateAuthorizationCode, AfterLicenses, ProvisionStepsServeProvisions
  <2>9. ASSUME NEW r \in Requests, SaveInstance(r) PROVE ProvisionStepsServeProvisions'
    BY <2>1, <2>9 DEF SaveInstance, ProvisionStepsServeProvisions
  <2>10. ASSUME NEW r \in Requests, LookupInstance(r) PROVE ProvisionStepsServeProvisions'
    BY <2>1, <2>10 DEF LookupInstance
  <2>11. ASSUME NEW r \in Requests, FetchToken(r) PROVE ProvisionStepsServeProvisions'
    BY <2>1, <2>11 DEF FetchToken
  <2>12. ASSUME NEW r \in Requests, SendUsage(r) PROVE ProvisionStepsServeProvisions'
    BY <2>1, <2>12 DEF SendUsage, UsageSent, AfterDeletions
  <2>13. ASSUME NEW r \in Requests, DeleteLicense(r) PROVE ProvisionStepsServeProvisions'
    BY <2>1, <2>13 DEF DeleteLicense, AfterDeletions
  <2>14. ASSUME NEW r \in Requests, DeleteRows(r) PROVE ProvisionStepsServeProvisions'
    BY <2>1, <2>14 DEF DeleteRows
  <2>15. ASSUME NEW r \in Requests, ClearStatus(r) PROVE ProvisionStepsServeProvisions'
    <3>1. CASE Fail(r, "500")
      BY <2>1, <3>1
    <3>2. CASE pc' = [pc EXCEPT ![r] = "done"]
      BY <2>1, <3>2 DEF TypeOK, ProvisionStepsServeProvisions, workload
    <3> QED
      BY <2>15, <3>1, <3>2 DEF ClearStatus
  <2>16. ASSUME NEW r \in Requests, PickInstance(r) PROVE ProvisionStepsServeProvisions'
    BY <2>1, <2>16 DEF PickInstance
  <2>17. CASE Crash
    BY <2>1, <2>17 DEF Crash, workload, Active, ProvisionStepsServeProvisions, TypeOK
  <2> QED
    BY <1>2, <2>2, <2>3, <2>4, <2>5, <2>6, <2>7, <2>8, <2>9, <2>10, <2>11, <2>12, <2>13, <2>14, <2>15, <2>16, <2>17 DEF Next, Receive, Resume
<1> QED
  BY <1>1, <1>2

(* However a handler that has set no status suspends or ends, and however  *)
(* one that has set it suspends or fails, the property is kept.            *)
LEMMA OthersKeepRunning ==
  ASSUME TypeOK, NEW r \in Requests, NEW step, pc' = [pc EXCEPT ![r] = step],
         NEW q \in Requests, q # r \/ step \notin {"idle", "done"}, Active(q)
  PROVE  Active(q)'
  BY DEF TypeOK, Active

LEMMA AwaitKeepsRunning ==
  ASSUME TypeOK, InProgressIsRunning, UNCHANGED workload,
         NEW r \in Requests, NEW step \in Steps, Await(r, step)
  PROVE  InProgressIsRunning'
<1>1. pc' = [pc EXCEPT ![r] = step] /\ step \notin {"idle", "done"}
  BY DEF Await, Steps, ProvisionSteps, DeprovisionSteps, SubmitSteps
<1>2. \A q \in Requests : Active(q) => Active(q)'
  BY <1>1, OthersKeepRunning
<1> QED
  BY <1>2 DEF InProgressIsRunning, workload, Await

LEMMA AnswerKeepsRunning ==
  ASSUME TypeOK, InProgressIsRunning, UNCHANGED workload,
         NEW r \in Requests, NEW code, Answer(r, code), op[r] # "deprovision" \/ ~Active(r)
  PROVE  InProgressIsRunning'
<1>1. pc' = [pc EXCEPT ![r] = "done"]
  BY DEF Answer
<1>2. \A q \in Requests : op[q] = "deprovision" /\ Active(q) => Active(q)'
  BY <1>1, OthersKeepRunning
<1> QED
  BY <1>2 DEF InProgressIsRunning, workload, Answer

LEMMA FailKeepsRunning ==
  ASSUME TypeOK, InProgressIsRunning, UNCHANGED workload,
         NEW r \in Requests, NEW code, Fail(r, code)
  PROVE  InProgressIsRunning'
<1> SUFFICES ASSUME NEW i \in Instances, lastOp'[i] = "in progress"
             PROVE  \E q \in Requests : op'[q] = "deprovision" /\ inst'[q] = i /\ Active(q)'
  BY DEF InProgressIsRunning
<1>1. op' = op /\ inst' = inst
  BY DEF workload
<1>2. lastOp[i] = "in progress" /\ ~(op[r] = "deprovision" /\ inst[r] = i)
  BY DEF TypeOK, Fail
<1>3. PICK q \in Requests : op[q] = "deprovision" /\ inst[q] = i /\ Active(q)
  BY <1>2 DEF InProgressIsRunning
<1>4. q # r
  BY <1>2, <1>3
<1>5. pc'[q] = pc[q]
  BY <1>4 DEF TypeOK, Fail
<1> QED
  BY <1>1, <1>3, <1>5 DEF Active

LEMMA InProgressStep ==
  ASSUME TypeOK, ProvisionStepsServeProvisions, InProgressIsRunning, [Next]_vars
  PROVE  InProgressIsRunning'
<1> USE AwaitKeepsRunning, AnswerKeepsRunning, FailKeepsRunning
        DEF Steps, ProvisionSteps, DeprovisionSteps, SubmitSteps
<1>1. CASE UNCHANGED vars
  BY <1>1 DEF vars, InProgressIsRunning, Active
<1>2. CASE Next
  <2>1. UNCHANGED workload
    BY <1>2 DEF Next
  <2>2. ASSUME NEW r \in Requests, ReceiveProvision(r) PROVE InProgressIsRunning'
    BY <2>1, <2>2 DEF ReceiveProvision
  <2>3. ASSUME NEW r \in Requests, ReceiveDeprovision(r) PROVE InProgressIsRunning'
    <3>1. CASE Answer(r, "422")
      BY <2>1, <2>3, <3>1 DEF ReceiveDeprovision, MaySend, Active
    <3>2. CASE ~Answer(r, "422")
      <4>1. pc' = [pc EXCEPT ![r] = "lookup"] /\ lastOp' = [lastOp EXCEPT ![inst[r]] = "in progress"]
        BY <2>3, <3>2 DEF ReceiveDeprovision
      <4>2. op[r] = "deprovision" /\ Active(r)'
        BY <2>3, <4>1 DEF ReceiveDeprovision, TypeOK, Active
      <4>3. \A q \in Requests : Active(q) => Active(q)'
        BY <4>1, <4>2 DEF TypeOK, Active
      <4>4. \A i \in Instances : lastOp'[i] = "in progress" => lastOp[i] = "in progress" \/ i = inst[r]
        BY <4>1 DEF TypeOK
      <4> QED
        BY <2>1, <4>2, <4>3, <4>4 DEF workload, InProgressIsRunning
    <3> QED
      BY <3>1, <3>2
  <2>4. ASSUME NEW r \in Requests, ReceiveSubmitBilling(r) PROVE InProgressIsRunning'
    BY <2>1, <2>4 DEF ReceiveSubmitBilling
  <2>5. ASSUME NEW r \in Requests, CatalogAnswers(r) PROVE InProgressIsRunning'
    BY <2>1, <2>5 DEF CatalogAnswers
  <2>6. ASSUME NEW r \in Requests, CreateCustomer(r) PROVE InProgressIsRunning'
    BY <2>1, <2>6 DEF CreateCustomer, AfterLicenses
  <2>7. ASSUME NEW r \in Requests, CreateLicense(r) PROVE InProgressIsRunning'
    BY <2>1, <2>7 DEF CreateLicense
  <2>8. ASSUME NEW r \in Requests, CreateAuthorizationCode(r) PROVE InProgressIsRunning'
    BY <2>1, <2>8 DEF CreateAuthorizationCode, AfterLicenses
  <2>9. ASSUME NEW r \in Requests, SaveInstance(r) PROVE InProgressIsRunning'
    <3>1. op[r] # "deprovision"
      BY <2>9 DEF SaveInstance, ProvisionStepsServeProvisions
    <3> QED
      BY <2>1, <2>9, <3>1 DEF SaveInstance
  <2>10. ASSUME NEW r \in Requests, LookupInstance(r) PROVE InProgressIsRunning'
    BY <2>1, <2>10 DEF LookupInstance
  <2>11. ASSUME NEW r \in Requests, FetchToken(r) PROVE InProgressIsRunning'
    BY <2>1, <2>11 DEF FetchToken
  <2>12. ASSUME NEW r \in Requests, SendUsage(r) PROVE InProgressIsRunning'
    <3>1. CASE UsageSent(r)
      BY <2>1, <3>1 DEF UsageSent, AfterDeletions
    <3>2. CASE Fail(r, "500")
      BY <2>1, <3>2
    <3> QED
      BY <2>12, <3>1, <3>2 DEF SendUsage
  <2>13. ASSUME NEW r \in Requests, DeleteLicense(r) PROVE InProgressIsRunning'
    BY <2>1, <2>13 DEF DeleteLicense, AfterDeletions
  <2>14. ASSUME NEW r \in Requests, DeleteRows(r) PROVE InProgressIsRunning'
    BY <2>1, <2>14 DEF DeleteRows
  <2>15. ASSUME NEW r \in Requests, ClearStatus(r) PROVE InProgressIsRunning'
    <3>1. CASE Fail(r, "500")
      BY <2>1, <3>1
    <3>2. CASE ~Fail(r, "500")
      <4>1. lastOp' = [lastOp EXCEPT ![inst[r]] = "none"] /\ pc' = [pc EXCEPT ![r] = "done"]
        BY <2>15, <3>2 DEF ClearStatus
      <4>2. \A q \in Requests : Active(q) /\ q # r => Active(q)'
        BY <4>1, OthersKeepRunning
      <4> SUFFICES ASSUME NEW i \in Instances, lastOp'[i] = "in progress"
                   PROVE  \E q \in Requests : op'[q] = "deprovision" /\ inst'[q] = i /\ Active(q)'
        BY DEF InProgressIsRunning
      <4>3. lastOp[i] = "in progress" /\ i # inst[r]
        BY <4>1 DEF TypeOK
      <4>4. PICK q \in Requests : op[q] = "deprovision" /\ inst[q] = i /\ Active(q)
        BY <4>3 DEF InProgressIsRunning
      <4>5. Active(q)'
        BY <4>2, <4>3, <4>4
      <4> QED
        BY <2>1, <4>4, <4>5 DEF workload
    <3> QED
      BY <3>1, <3>2
  <2>16. ASSUME NEW r \in Requests, PickInstance(r) PROVE InProgressIsRunning'
    BY <2>1, <2>16 DEF PickInstance
  <2>17. CASE Crash
    BY <2>17 DEF Crash, InProgressIsRunning
  <2> QED
    BY <1>2, <2>2, <2>3, <2>4, <2>5, <2>6, <2>7, <2>8, <2>9, <2>10, <2>11, <2>12, <2>13, <2>14, <2>15, <2>16, <2>17 DEF Next, Receive, Resume
<1> QED
  BY <1>1, <1>2

(* While "in progress" is reported for an instance, a deprovision of it is *)
(* running: with overlapping requests, failures at every call and crashes. *)
THEOREM InProgressIsAlwaysRunning == Spec => []InProgressIsRunning
<1> DEFINE Inv == TypeOK /\ ProvisionStepsServeProvisions /\ InProgressIsRunning
<1>1. Init => Inv
  BY TypeInit DEF Init, ProvisionStepsServeProvisions, ProvisionSteps, InProgressIsRunning
<1>2. Inv /\ [Next]_vars => Inv'
  BY TypeStep, StepsServe, InProgressStep
<1> QED
  BY <1>1, <1>2, PTL DEF Spec

-----------------------------------------------------------------------------
(* No license is released before its instance is charged, provided that    *)
(* the usage API either takes a record or reports it as a failure.  The    *)
(* strengthening: a handler that deletes licenses has charged for the row  *)
(* whose licenses they are.                                                *)

ChargedIn(C, s) == \E c \in C : c.row = s /\ c.quantity = 1

ReportedBeforeDeletion ==
  \A r \in Requests : pc[r] = "delete-license" => ChargedIn(charges, found[r])

ReleaseInv == ReportedBeforeDeletion /\ ChargedBeforeRelease

LEMMA ReleaseKept ==
  ASSUME TypeOK, ReleaseInv, charges \subseteq charges',
         NEW r \in Requests, NEW step, pc' = [pc EXCEPT ![r] = step],
         step = "delete-license" => ChargedIn(charges', found'[r]),
         \A q \in Requests : q # r => found'[q] = found[q],
         \A l \in Licenses : license'[l] = "freed" =>
           license[l] = "freed" \/ ChargedIn(charges', l[1])
  PROVE  ReleaseInv'
<1>1. ReportedBeforeDeletion'
  <2> SUFFICES ASSUME NEW q \in Requests, pc'[q] = "delete-license"
               PROVE  ChargedIn(charges', found'[q])
    BY DEF ReportedBeforeDeletion
  <2>1. CASE q = r
    BY <2>1 DEF TypeOK
  <2>2. CASE q # r
    <3>1. pc[q] = "delete-license" /\ found'[q] = found[q]
      BY <2>2 DEF TypeOK
    <3> QED
      BY <3>1 DEF ReleaseInv, ReportedBeforeDeletion, ChargedIn
  <2> QED
    BY <2>1, <2>2
<1>2. ChargedBeforeRelease'
  BY DEF ReleaseInv, ChargedBeforeRelease, ChargedIn
<1> QED
  BY <1>1, <1>2 DEF ReleaseInv

(* An action that neither starts deleting licenses nor frees one.          *)
LEMMA QuietKeepsRelease ==
  ASSUME TypeOK, ReleaseInv, NEW r \in Requests, UNCHANGED charges,
         \/ \E step \in Steps \ {"delete-license"} : Await(r, step)
         \/ \E code \in {"200", "404", "422", "500"} : Answer(r, code) \/ Fail(r, code),
         \A q \in Requests : q # r => found'[q] = found[q],
         \A l \in Licenses : license'[l] = "freed" => license[l] = "freed"
  PROVE  ReleaseInv'
<1>1. PICK step : pc' = [pc EXCEPT ![r] = step] /\ step # "delete-license"
  BY DEF Await, Answer, Fail
<1> QED
  BY <1>1, ReleaseKept

LEMMA ReleaseStep ==
  ASSUME TypeOK, ReleaseInv, ~MeteringRejects, [Next]_vars
  PROVE  ReleaseInv'
<1> USE QuietKeepsRelease DEF Steps, ProvisionSteps, DeprovisionSteps, SubmitSteps
<1>1. CASE UNCHANGED vars
  BY <1>1 DEF vars, ReleaseInv, ReportedBeforeDeletion, ChargedBeforeRelease
<1>2. CASE Next
  <2>1. ASSUME NEW r \in Requests, ReceiveProvision(r) PROVE ReleaseInv'
    BY <2>1 DEF ReceiveProvision, locals, remote
  <2>2. ASSUME NEW r \in Requests, ReceiveDeprovision(r) PROVE ReleaseInv'
    <3>1. PICK step : pc' = [pc EXCEPT ![r] = step] /\ step # "delete-license"
      BY <2>2 DEF ReceiveDeprovision, Answer
    <3> QED
      BY <2>2, <3>1, ReleaseKept DEF ReceiveDeprovision, locals, remote
  <2>3. ASSUME NEW r \in Requests, ReceiveSubmitBilling(r) PROVE ReleaseInv'
    BY <2>3 DEF ReceiveSubmitBilling, locals, remote
  <2>4. ASSUME NEW r \in Requests, CatalogAnswers(r) PROVE ReleaseInv'
    BY <2>4 DEF CatalogAnswers, locals, remote
  <2>5. ASSUME NEW r \in Requests, CreateCustomer(r) PROVE ReleaseInv'
    BY <2>5 DEF CreateCustomer, locals, remote, AfterLicenses
  <2>6. ASSUME NEW r \in Requests, CreateLicense(r) PROVE ReleaseInv'
    <3>1. \A l \in Licenses : license'[l] = "freed" => license[l] = "freed"
      BY <2>6 DEF CreateLicense, TypeOK
    <3> QED
      BY <2>6, <3>1 DEF CreateLicense, locals
  <2>7. ASSUME NEW r \in Requests, CreateAuthorizationCode(r) PROVE ReleaseInv'
    BY <2>7 DEF CreateAuthorizationCode, locals, remote, AfterLicenses
  <2>8. ASSUME NEW r \in Requests, SaveInstance(r) PROVE ReleaseInv'
    BY <2>8 DEF SaveInstance, locals, remote
  <2>9. ASSUME NEW r \in Requests, LookupInstance(r) PROVE ReleaseInv'
    <3>1. \A q \in Requests : q # r => found'[q] = found[q]
      BY <2>9 DEF LookupInstance, ComputeUsage, TypeOK
    <3> QED
      BY <2>9, <3>1 DEF LookupInstance, remote
  <2>10. ASSUME NEW r \in Requests, FetchToken(r) PROVE ReleaseInv'
    BY <2>10 DEF FetchToken, locals, remote
  <2>11. ASSUME NEW r \in Requests, SendUsage(r) PROVE ReleaseInv'
    <3>1. CASE UNCHANGED charges /\ Fail(r, "500")
      BY <2>11, <3>1 DEF SendUsage, locals
    <3>2. CASE charges' = charges \cup {UsageRecord(r)} /\ Fail(r, "500")
      <4>1. pc' = [pc EXCEPT ![r] = "done"]
        BY <3>2 DEF Fail
      <4> QED
        BY <2>11, <3>2, <4>1, ReleaseKept DEF SendUsage, locals
    <3>3. CASE charges' = charges \cup {UsageRecord(r)} /\ UsageSent(r)
      <4>1. op[r] = "deprovision" => ChargedIn(charges', found'[r])
        <5>1. UsageRecord(r) \in charges' /\ UsageRecord(r).row = found[r]
          BY <3>3 DEF UsageRecord
        <5>2. op[r] = "deprovision" => UsageRecord(r).quantity = 1
          BY DEF UsageRecord, Quantity
        <5>3. found' = found
          BY <2>11 DEF SendUsage, locals
        <5> QED
          BY <5>1, <5>2, <5>3 DEF ChargedIn
      <4>2. PICK step : /\ pc' = [pc EXCEPT ![r] = step]
                        /\ step = "delete-license" => op[r] = "deprovision"
        BY <3>3 DEF UsageSent, Await, Answer
      <4> QED
        BY <2>11, <3>3, <4>1, <4>2, ReleaseKept DEF SendUsage, locals
    <3> QED
      BY <2>11, <3>1, <3>2, <3>3 DEF SendUsage
  <2>12. ASSUME NEW r \in Requests, DeleteLicense(r) PROVE ReleaseInv'
    <3>1. ChargedIn(charges', found'[r])
      BY <2>12 DEF DeleteLicense, ReleaseInv, ReportedBeforeDeletion
    <3>2. PICK step : pc' = [pc EXCEPT ![r] = step]
      BY <2>12 DEF DeleteLicense, Await, Fail
    <3>3. ASSUME NEW l \in Licenses, license'[l] = "freed"
          PROVE  license[l] = "freed" \/ ChargedIn(charges', l[1])
      <4> DEFINE this == <<found[r], NextProduct(todo[r])>>
      <4>1. license' \in {license, [license EXCEPT ![this] = "freed"]} /\ found' = found
        BY <2>12 DEF DeleteLicense
      <4>2. CASE l = this
        BY <3>1, <4>1, <4>2
      <4>3. CASE l # this
        BY <3>3, <4>1, <4>3 DEF TypeOK
      <4> QED
        BY <4>2, <4>3
    <3> QED
      BY <2>12, <3>1, <3>2, <3>3, ReleaseKept DEF DeleteLicense
  <2>13. ASSUME NEW r \in Requests, DeleteRows(r) PROVE ReleaseInv'
    BY <2>13 DEF DeleteRows, locals, remote
  <2>14. ASSUME NEW r \in Requests, ClearStatus(r) PROVE ReleaseInv'
    <3>1. pc' = [pc EXCEPT ![r] = "done"]
      BY <2>14 DEF ClearStatus, Fail
    <3> QED
      BY <2>14, <3>1, ReleaseKept DEF ClearStatus, locals, remote
  <2>15. ASSUME NEW r \in Requests, PickInstance(r) PROVE ReleaseInv'
    <3>1. \A q \in Requests : q # r => found'[q] = found[q]
      BY <2>15 DEF PickInstance, ComputeUsage, TypeOK
    <3> QED
      BY <2>15, <3>1 DEF PickInstance, remote
  <2>16. CASE Crash
    BY <2>16 DEF Crash, locals, remote, TypeOK, ReleaseInv, ReportedBeforeDeletion, ChargedBeforeRelease
  <2> QED
    BY <1>2, <2>1, <2>2, <2>3, <2>4, <2>5, <2>6, <2>7, <2>8, <2>9, <2>10, <2>11, <2>12, <2>13, <2>14, <2>15, <2>16 DEF Next, Receive, Resume
<1> QED
  BY <1>1, <1>2

(* Whatever overlaps, crashes or fails, and whatever rows an instance id   *)
(* has, its licenses are released after it was charged for; only a record  *)
(* refused inside an accepted batch can break this.                        *)
THEOREM ChargedBeforeEveryRelease ==
  ASSUME ~MeteringRejects
  PROVE  Spec => []ChargedBeforeRelease
<1> DEFINE Inv == TypeOK /\ ReleaseInv
<1>1. Init => Inv
  BY TypeInit DEF Init, Licenses, ReleaseInv, ReportedBeforeDeletion, ChargedBeforeRelease
<1>2. Inv /\ [Next]_vars => Inv'
  BY TypeStep, ReleaseStep
<1>3. Inv => ChargedBeforeRelease
  BY DEF ReleaseInv
<1> QED
  BY <1>1, <1>2, <1>3, PTL DEF Spec
=============================================================================
