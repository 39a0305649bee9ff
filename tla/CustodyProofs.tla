---------------------------- MODULE CustodyProofs ---------------------------
(***************************************************************************)
(* What holds of Broker when the platform names an instance in one PUT     *)
(* only: no license is leaked, success is reported when the instance is    *)
(* gone, and the promise of Custody is kept.                               *)
(***************************************************************************)
EXTENDS RecordProofs

(* Of the PUTs of an instance only one has ever been sent.                 *)
OnePut ==
  \A q, r \in Requests :
    /\ op[q] = "provision" /\ op[r] = "provision" /\ inst[q] = inst[r]
    /\ pc[q] # "idle" /\ pc[r] # "idle"
    => q = r

LEMMA OnePutInit == Init => OnePut
  BY DEF Init, OnePut

LEMMA OnePutStep ==
  ASSUME TypeOK, OnePut, ~RepeatPut, [Next]_vars
  PROVE  OnePut'
<1>1. UNCHANGED workload
  BY DEF Next, vars, workload
<1>2. CASE \A q \in Requests : pc'[q] = "idle" \/ pc[q] # "idle"
  BY <1>1, <1>2 DEF OnePut, workload
<1>3. CASE ~ \A q \in Requests : pc'[q] = "idle" \/ pc[q] # "idle"
  <2>1. PICK q \in Requests : pc[q] = "idle" /\ pc'[q] # "idle"
    BY <1>3
  <2>2. Receive(q)
    <3>1. PICK d \in Requests : Receive(d) \/ Resume(d)
      <4>1. ~Crash /\ ~UNCHANGED vars
        BY <2>1 DEF vars, Crash, Active
      <4> QED
        BY <4>1 DEF Next
    <3>2. \E step : pc' = [pc EXCEPT ![d] = step]
      BY <3>1 DEF Receive, Resume, ReceiveProvision, ReceiveDeprovision, ReceiveSubmitBilling,
         CatalogAnswers, CreateCustomer, CreateLicense, CreateAuthorizationCode, SaveInstance,
         LookupInstance, FetchToken, SendUsage, UsageSent, DeleteLicense, DeleteRows, ClearStatus,
         PickInstance, Await, Answer, Fail
    <3>3. d = q
      BY <2>1, <3>2 DEF TypeOK
    <3> QED
      BY <2>1, <3>1, <3>3 DEF Resume, CatalogAnswers, CreateCustomer, CreateLicense,
         CreateAuthorizationCode, SaveInstance, LookupInstance, FetchToken, SendUsage,
         DeleteLicense, DeleteRows, ClearStatus, PickInstance
  <2>3. \A r \in Requests : r # q => pc'[r] = pc[r]
    BY <2>2 DEF Receive, ReceiveProvision, ReceiveDeprovision, ReceiveSubmitBilling, Await, Answer,
       Fail, TypeOK
  <2>4. op[q] = "provision" => 
          \A r \in Requests : op[r] = "provision" /\ inst[r] = inst[q] => pc[r] = "idle"
    BY <2>2 DEF Receive, ReceiveProvision, ReceiveDeprovision, ReceiveSubmitBilling, MaySend,
       OfPlatform
  <2> QED
    BY <1>1, <2>1, <2>3, <2>4 DEF OnePut, workload
<1> QED
  BY <1>2, <1>3

(* So an instance has one row at most, and had no other.                   *)
LEMMA OneRow ==
  ASSUME RecordsOK, OnePut, NEW q \in Requests, NEW r \in Requests,
         row[q] # "none", row[r] # "none", inst[q] = inst[r]
  PROVE  q = r
  BY DEF RecordsOK, RequestOK, ProvisionOK, OnePut

(* A DELETE deletes the row whose licenses it has freed, or none.          *)
LEMMA DeletedIsFound ==
  ASSUME TypeOK, RecordsOK, OnePut, NEW d \in Requests, DeleteRows(d),
         NEW s \in Requests, row'[s] # row[s]
  PROVE  s = found[d] /\ row[s] = "stored" /\ AllFreed(s) /\ row' = [row EXCEPT ![s] = "deleted"]
<1>1. row' = [q \in Requests |-> IF q \in RowsOf(inst[d]) THEN "deleted" ELSE row[q]]
  BY DEF DeleteRows
<1>2. /\ pc[d] = "delete-rows" /\ op[d] = "deprovision"
      /\ row[found[d]] # "none" /\ inst[found[d]] = inst[d] /\ AllFreed(found[d])
  BY DEF RecordsOK, RequestOK, HandlerOK, DeprovisionOK, DeleteRows, DeprovisionSteps, SubmitSteps
<1>3. found[d] \in Requests
  BY DEF TypeOK
<1>4. \A q \in RowsOf(inst[d]) : q = found[d]
  BY <1>2, <1>3, OneRow DEF RowsOf
<1>5. s \in RowsOf(inst[d])
  BY <1>1
<1>6. s = found[d] /\ row[s] = "stored"
  BY <1>4, <1>5 DEF RowsOf
<1>7. RowsOf(inst[d]) = {s}
  BY <1>4, <1>5, <1>6
<1>8. row' = [row EXCEPT ![s] = "deleted"]
  BY <1>1, <1>7 DEF TypeOK
<1> QED
  BY <1>2, <1>6, <1>8

-----------------------------------------------------------------------------
(* No license is leaked.                                                   *)

LEMMA NoLeakStep ==
  ASSUME TypeOK, RecordsOK, OnePut, NoLeakedLicense, [Next]_vars
  PROVE  NoLeakedLicense'
<1> SUFFICES ASSUME NEW s \in Requests, row'[s] = "deleted" PROVE AllFreed(s)'
  BY DEF NoLeakedLicense, AllFreed
<1>1. CASE row[s] = "deleted"
  BY <1>1, NothingComesBack DEF NoLeakedLicense, AllFreed
<1>2. CASE row[s] # "deleted"
  <2>1. PICK r \in Requests :
          CreateLicense(r) \/ SaveInstance(r) \/ DeleteLicense(r) \/ DeleteRows(r)
    BY <1>2, TouchingSteps
  <2>2. DeleteRows(r)
    <3>1. CASE SaveInstance(r)
      <4>1. row' \in {row, [row EXCEPT ![r] = "stored"]}
        BY <3>1, SavedIsNew
      <4> QED
        BY <1>2, <4>1 DEF TypeOK
    <3> QED
      BY <1>2, <2>1, <3>1 DEF CreateLicense, DeleteLicense
  <2> QED
    BY <1>2, <2>2, DeletedIsFound DEF DeleteRows, AllFreed
<1> QED
  BY <1>1, <1>2

(* A row is only deleted when all the licenses it names are released, if   *)
(* the platform does not repeat the PUT of an instance.                    *)
THEOREM NoLicenseIsEverLeaked ==
  ASSUME ~RepeatPut
  PROVE  Spec => []NoLeakedLicense
<1> DEFINE Inv == TypeOK /\ RecordsOK /\ OnePut /\ NoLeakedLicense
<1>1. Init => Inv
  BY TypeInit, RecordsInit, OnePutInit DEF Init, NoLeakedLicense
<1>2. Inv /\ [Next]_vars => Inv'
  BY TypeStep, RecordsStep, OnePutStep, NoLeakStep
<1> QED
  BY <1>1, <1>2, PTL DEF Spec

-----------------------------------------------------------------------------
(* Success is reported when the instance is gone.                          *)

DoomedHadRow == \A s \in doomed : row[s] # "none"

(* The status of an instance is cleared when its row is deleted.           *)
LEMMA ClearedIsGone ==
  ASSUME TypeOK, RecordsOK, OnePut, NEW d \in Requests, ClearStatus(d),
         NEW s \in Requests, row[s] # "none", inst[s] = inst[d]
  PROVE  row[s] = "deleted"
<1>1. /\ row[found[d]] = "deleted" /\ inst[found[d]] = inst[d]
  BY DEF RecordsOK, RequestOK, HandlerOK, DeprovisionOK, ClearStatus, DeprovisionSteps, SubmitSteps
<1>2. found[d] \in Requests
  BY DEF TypeOK
<1> QED
  BY <1>1, <1>2, OneRow

LEMMA ClearedByStep ==
  ASSUME TypeOK, [Next]_vars, ~Crash, NEW i \in Instances, lastOp[i] # "none", lastOp'[i] = "none"
  PROVE  \E d \in Requests : ClearStatus(d) /\ inst[d] = i
<1>1. ASSUME NEW d \in Requests, NEW code, Fail(d, code) PROVE FALSE
  BY <1>1 DEF Fail, TypeOK
<1>2. PICK d \in Requests : Receive(d) \/ Resume(d)
  BY DEF Next, vars
<1>3. ~Receive(d)
  <2>1. ~ReceiveDeprovision(d)
    <3>1. ReceiveDeprovision(d) =>
            UNCHANGED lastOp \/ lastOp' = [lastOp EXCEPT ![inst[d]] = "in progress"]
      BY DEF ReceiveDeprovision, Answer
    <3> QED
      BY <3>1 DEF TypeOK
  <2> QED
    BY <1>1, <2>1 DEF Receive, ReceiveProvision, ReceiveSubmitBilling, Await
<1>4. ClearStatus(d) /\ lastOp' = [lastOp EXCEPT ![inst[d]] = "none"]
  BY <1>1, <1>2, <1>3 DEF Resume, CatalogAnswers, CreateCustomer, CreateLicense,
     CreateAuthorizationCode, SaveInstance, LookupInstance, FetchToken, SendUsage, UsageSent,
     DeleteLicense, DeleteRows, ClearStatus, PickInstance, Await, Answer
<1> QED
  BY <1>4 DEF TypeOK

LEMMA DoomedStep ==
  ASSUME TypeOK, RecordsOK, OnePut, DoomedHadRow, SuccessMeansGone, [Next]_vars
  PROVE  DoomedHadRow' /\ SuccessMeansGone'
<1>1. UNCHANGED workload
  BY DEF Next, vars, workload
<1>2. \A s \in doomed' \ doomed :
        /\ s \in Requests /\ row[s] # "none"
        /\ UNCHANGED row /\ lastOp'[inst[s]] = "in progress"
  <2>1. ASSUME ~UNCHANGED doomed, ~Crash
        PROVE  \E d \in Requests : 
                 /\ ReceiveDeprovision(d)
                 /\ doomed' = doomed \cup RowsOf(inst[d])
                 /\ lastOp' = [lastOp EXCEPT ![inst[d]] = "in progress"]
    BY <2>1 DEF Next, vars, Receive, Resume, ReceiveProvision, ReceiveDeprovision,
       ReceiveSubmitBilling, CatalogAnswers, CreateCustomer, CreateLicense,
       CreateAuthorizationCode, SaveInstance, LookupInstance, FetchToken, SendUsage, DeleteLicense,
       DeleteRows, ClearStatus, PickInstance
  <2>2. CASE UNCHANGED doomed \/ Crash
    BY <2>2 DEF Crash
  <2>3. CASE ~UNCHANGED doomed /\ ~Crash
    <3>1. PICK d \in Requests :
            /\ ReceiveDeprovision(d)
            /\ doomed' = doomed \cup RowsOf(inst[d])
            /\ lastOp' = [lastOp EXCEPT ![inst[d]] = "in progress"]
      BY <2>1, <2>3
    <3>2. UNCHANGED row /\ lastOp'[inst[d]] = "in progress"
      BY <3>1 DEF ReceiveDeprovision, remote, TypeOK
    <3> QED
      BY <3>1, <3>2 DEF RowsOf
  <2> QED
    BY <2>2, <2>3
<1>3. DoomedHadRow'
  BY <1>2, NothingComesBack DEF DoomedHadRow, TypeOK
<1>4. SuccessMeansGone'
  <2> SUFFICES ASSUME NEW s \in doomed', row'[s] = "stored", lastOp'[inst[s]] = "none"
               PROVE  FALSE
    <3>1. \A s \in doomed' : s \in Requests /\ lastOp'[inst[s]] # "succeeded"
      BY <1>1, TypeStep DEF TypeOK, workload
    <3> QED
      BY <1>1, <3>1 DEF SuccessMeansGone, LastOperation, workload
  <2>1. s \in doomed /\ s \in Requests
    BY <1>2 DEF TypeOK
  <2>2. row[s] = "stored"
    BY <2>1, NothingComesBack DEF DoomedHadRow, TypeOK
  <2>3. lastOp[inst[s]] # "none"
    BY <2>1, <2>2 DEF SuccessMeansGone, LastOperation
  <2>4. ~Crash
    BY DEF Crash
  <2>5. PICK d \in Requests : ClearStatus(d) /\ inst[d] = inst[s]
    BY <2>1, <2>3, <2>4, ClearedByStep DEF TypeOK
  <2> QED
    BY <2>1, <2>2, <2>5, ClearedIsGone
<1> QED
  BY <1>3, <1>4

(* "succeeded" is not reported while a row this process was asked to       *)
(* delete is there: with overlapping requests, failures and restarts, if   *)
(* the platform does not repeat the PUT of an instance.                    *)
THEOREM SuccessAlwaysMeansGone ==
  ASSUME ~RepeatPut
  PROVE  Spec => []SuccessMeansGone
<1> DEFINE Inv == TypeOK /\ RecordsOK /\ OnePut /\ DoomedHadRow /\ SuccessMeansGone
<1>1. Init => Inv
  BY TypeInit, RecordsInit, OnePutInit DEF Init, DoomedHadRow, SuccessMeansGone
<1>2. Inv /\ [Next]_vars => Inv'
  BY TypeStep, RecordsStep, OnePutStep, DoomedStep
<1> QED
  BY <1>1, <1>2, PTL DEF Spec

(* If the platform does not repeat the PUT of an instance and the process  *)
(* is not restarted, an operation ends as succeeded only when the rows of  *)
(* the instance are gone: overlapping and failing requests do not break    *)
(* this, the loss of lastOperationStatus does.                             *)
THEOREM WithoutRestartSucceedsOnlyWhenGone ==
  ASSUME ~RepeatPut, ~Crashes
  PROVE  Spec => SucceedsOnlyWhenGone
<1> DEFINE Inv == TypeOK /\ RecordsOK /\ OnePut
<1>1. Init => Inv
  BY TypeInit, RecordsInit, OnePutInit
<1>2. Inv /\ [Next]_vars => Inv'
  BY TypeStep, RecordsStep, OnePutStep
<1>3. Inv /\ [Next]_vars =>
        [\A i \in Instances : lastOp[i] # "none" /\ RowsOf(i) # {} => lastOp'[i] # "none"]_vars
  <2> SUFFICES ASSUME Inv, [Next]_vars, NEW i \in Instances, lastOp[i] # "none",
                      lastOp'[i] = "none"
               PROVE  RowsOf(i) = {}
    OBVIOUS
  <2>1. PICK d \in Requests : ClearStatus(d) /\ inst[d] = i
    BY ClearedByStep DEF Crash
  <2>2. ASSUME NEW s \in RowsOf(i) PROVE FALSE
    BY <2>1, <2>2, ClearedIsGone DEF RowsOf
  <2> QED
    BY <2>2
<1> QED
  BY <1>1, <1>2, <1>3, PTL DEF Spec, SucceedsOnlyWhenGone

-----------------------------------------------------------------------------
(* The refinement: each step is a step of Custody or changes nothing of it.*)

LEMMA KeepingInit == Init => Keeping!Init
  BY DEF Init, Keeping!Init, Licenses, Charged

LEMMA ChargeKeeps ==
  ASSUME TypeOK, RecordsOK, UNCHANGED <<row, license>>, [Next]_vars
  PROVE  [Keeping!Next]_Keeping!vars
<1>1. CASE UNCHANGED charges
  BY <1>1 DEF Keeping!vars, Charged
<1>2. CASE ~UNCHANGED charges
  <2>1. PICK r \in Requests : SendUsage(r)
    BY <1>2 DEF Next, vars, Receive, Resume, Crash, ReceiveProvision, ReceiveDeprovision,
       ReceiveSubmitBilling, CatalogAnswers, CreateCustomer, CreateLicense, SaveInstance,
       CreateAuthorizationCode, LookupInstance, FetchToken, DeleteLicense, DeleteRows,
       ClearStatus, PickInstance, remote
  <2>2. charges' = charges \cup {UsageRecord(r)}
    BY <1>2, <2>1 DEF SendUsage
  <2>3. found[r] \in Requests /\ row[found[r]] # "none"
    BY <2>1 DEF TypeOK, RecordsOK, RequestOK, DeprovisionOK, SendUsage, DeprovisionSteps
  <2>4. Charged' = Charged \/ Charged' = Charged \cup {found[r]}
    BY <2>2 DEF Charged, UsageRecord
  <2>5. CASE Charged' = Charged
    BY <2>5 DEF Keeping!vars
  <2>6. CASE Charged' = Charged \cup {found[r]}
    <3>1. Keeping!Charge(found[r])
      BY <2>3, <2>6 DEF Keeping!Charge
    <3> QED
      BY <2>3, <3>1 DEF Keeping!Next
  <2> QED
    BY <2>4, <2>5, <2>6
<1> QED
  BY <1>1, <1>2

LEMMA CustodyStep ==
  ASSUME TypeOK, RecordsOK, OnePut, NoLeakedLicense, ReleaseInv, [Next]_vars
  PROVE  [Keeping!Next]_Keeping!vars
<1>1. CASE UNCHANGED <<row, license>>
  BY <1>1, ChargeKeeps
<1>2. CASE ~UNCHANGED <<row, license>>
  <2>1. UNCHANGED Charged
    BY <1>2, TouchingSteps DEF Charged
  <2>2. PICK r \in Requests :
          CreateLicense(r) \/ SaveInstance(r) \/ DeleteLicense(r) \/ DeleteRows(r)
    BY <1>2, TouchingSteps
  <2>3. CASE CreateLicense(r)
    <3> DEFINE p == NextProduct(todo[r])
    <3>1. /\ p \in Products /\ row[r] = "none" /\ license[<<r, p>>] = "none"
          /\ license' = [license EXCEPT ![<<r, p>>] = "live"] /\ UNCHANGED row
      BY <1>2, <2>3, OrderIsNew DEF CreateLicense
    <3>2. Keeping!Order(r, p)
      BY <2>1, <3>1 DEF Keeping!Order
    <3> QED
      BY <3>1, <3>2 DEF Keeping!Next
  <2>4. CASE SaveInstance(r)
    <3>1. /\ row[r] = "none" /\ \A p \in Products : license[<<r, p>>] = "live"
          /\ UNCHANGED license /\ row' = [row EXCEPT ![r] = "stored"]
      BY <1>2, <2>4, SavedIsNew
    <3>2. Keeping!Record(r)
      BY <2>1, <3>1 DEF Keeping!Record, Keeping!AllLicenses
    <3> QED
      BY <3>2 DEF Keeping!Next
  <2>5. CASE DeleteLicense(r)
    <3> DEFINE p == NextProduct(todo[r])
               s == found[r]
    <3>1. /\ s \in Requests /\ p \in Products /\ row[s] # "none" /\ UNCHANGED row
          /\ license' = [license EXCEPT ![<<s, p>>] = "freed"]
      BY <1>2, <2>5, DeletedIsOwn DEF TypeOK
    <3>2. s \in Charged
      BY <2>5 DEF DeleteLicense, ReleaseInv, ReportedBeforeDeletion, ChargedIn, Charged
    <3>3. license[<<s, p>>] # "freed"
      BY <1>2, <3>1 DEF TypeOK, Licenses
    <3>4. row[s] = "stored" /\ license[<<s, p>>] = "live"
      <4>1. row[s] # "deleted"
        BY <3>1, <3>3 DEF NoLeakedLicense
      <4>2. license[<<s, p>>] # "none"
        BY <3>1 DEF RecordsOK, RequestOK, ProvisionOK
      <4>3. row[s] \in {"none", "stored", "deleted"} /\ license[<<s, p>>] \in {"none", "live", "freed"}
        BY <3>1 DEF TypeOK, Licenses
      <4> QED
        BY <3>1, <3>3, <4>1, <4>2, <4>3
    <3>5. Keeping!Release(s, p)
      BY <2>1, <3>1, <3>2, <3>4 DEF Keeping!Release
    <3> QED
      BY <3>1, <3>5 DEF Keeping!Next
  <2>6. CASE DeleteRows(r)
    <3>1. PICK s \in Requests : row'[s] # row[s]
      <4>1. UNCHANGED license
        BY <2>6 DEF DeleteRows
      <4>2. row' = [q \in Requests |-> IF q \in RowsOf(inst[r]) THEN "deleted" ELSE row[q]]
        BY <1>2, <2>6, <4>1 DEF DeleteRows
      <4>3. CASE RowsOf(inst[r]) = {}
        BY <1>2, <4>1, <4>2, <4>3 DEF TypeOK
      <4>4. CASE RowsOf(inst[r]) # {}
        BY <4>2, <4>4 DEF RowsOf
      <4> QED
        BY <4>3, <4>4
    <3>2. /\ row[s] = "stored" /\ AllFreed(s) /\ row' = [row EXCEPT ![s] = "deleted"]
          /\ UNCHANGED license
      BY <2>6, <3>1, DeletedIsFound DEF DeleteRows
    <3>3. Keeping!Forget(s)
      BY <2>1, <3>2 DEF Keeping!Forget, Keeping!AllLicenses, AllFreed
    <3> QED
      BY <3>3 DEF Keeping!Next
  <2> QED
    BY <2>2, <2>3, <2>4, <2>5, <2>6
<1> QED
  BY <1>1, <1>2

(* The broker implements Custody: whatever requests overlap, fail or are   *)
(* cut off, if the platform does not repeat the PUT of an instance and the *)
(* usage API refuses no record inside a batch it accepts.                  *)
THEOREM BrokerKeepsCustody ==
  ASSUME ~RepeatPut, ~MeteringRejects
  PROVE  Spec => KeepsCustody
<1> DEFINE Inv == TypeOK /\ RecordsOK /\ OnePut /\ NoLeakedLicense /\ ReleaseInv
<1>1. Init => Inv
  <2>1. Init => NoLeakedLicense /\ ReleaseInv
    BY DEF Init, Licenses, NoLeakedLicense, ReleaseInv, ReportedBeforeDeletion, ChargedBeforeRelease
  <2> QED
    BY <2>1, TypeInit, RecordsInit, OnePutInit
<1>2. Inv /\ [Next]_vars => Inv'
  BY TypeStep, RecordsStep, OnePutStep, NoLeakStep, ReleaseStep
<1>3. Inv /\ [Next]_vars => [Keeping!Next]_Keeping!vars
  BY CustodyStep
<1> QED
  BY <1>1, <1>2, <1>3, KeepingInit, PTL DEF Spec, KeepsCustody, Keeping!Spec
=============================================================================
