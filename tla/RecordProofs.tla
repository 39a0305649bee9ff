---------------------------- MODULE RecordProofs ----------------------------
(***************************************************************************)
(* What a request of Broker knows of the row and the licenses it works on, *)
(* and what follows from it: answers, rows and licenses, and the promise   *)
(* of Custody.                                                             *)
(***************************************************************************)
EXTENDS BrokerProofs

(* A handler at a step of one operation serves that operation, and only a  *)
(* deprovision has answered before it is done.                             *)
HandlerOK(r) ==
  /\ pc[r] \in ProvisionSteps => op[r] = "provision"
  /\ pc[r] \in DeprovisionSteps \ SubmitSteps => op[r] = "deprovision"
  /\ pc[r] \in SubmitSteps => op[r] # "provision"
  /\ pc[r] = "pick" => op[r] # "deprovision"
  /\ pc[r] \in DeprovisionSteps /\ op[r] = "deprovision" => reply[r] = "202"
  /\ reply[r] # "none" =>
       pc[r] = "done" \/ (pc[r] \in DeprovisionSteps /\ op[r] = "deprovision")

(* The products a PUT has still to order; at "authcode" one of those it    *)
(* has still to handle is ordered.                                         *)
ToOrder(r) == IF pc[r] = "authcode" THEN todo[r] \ {NextProduct(todo[r])} ELSE todo[r]

(* A PUT that is under way has ordered the licenses it is past, and only   *)
(* these, and has no row; one that has a row is done and has ordered all.  *)
ProvisionOK(r) ==
  /\ op[r] = "provision" /\ pc[r] \in {"idle", "catalog", "customer"} => todo[r] = Products
  /\ pc[r] \in {"license", "authcode"} => todo[r] # {}
  /\ pc[r] = "save" => todo[r] = {}
  /\ op[r] = "provision" /\ pc[r] # "done" =>
       \A p \in Products : license[<<r, p>>] = IF p \in ToOrder(r) THEN "none" ELSE "live"
  /\ row[r] # "none" =>
       /\ op[r] = "provision" /\ pc[r] = "done"
       /\ \A p \in Products : license[<<r, p>>] # "none"
  /\ op[r] = "provision" /\ reply[r] = "200" => row[r] # "none"

AllFreed(s) == \A p \in Products : license[<<s, p>>] = "freed"

(* A handler that has looked up a row works on a row there was, a DELETE   *)
(* on one of its own instance; a DELETE has freed the licenses it is past, *)
(* and the row is gone once the table has answered.                        *)
DeprovisionOK(r) ==
  /\ op[r] = "deprovision" /\ pc[r] \in {"idle", "lookup", "token", "usage"} =>
       todo[r] = Products
  /\ pc[r] \in DeprovisionSteps \ {"lookup"} =>
       /\ row[found[r]] # "none"
       /\ op[r] = "deprovision" => inst[found[r]] = inst[r]
  /\ pc[r] = "delete-license" =>
       /\ todo[r] # {}
       /\ \A p \in Products \ todo[r] : license[<<found[r], p>>] = "freed"
  /\ pc[r] = "delete-rows" => AllFreed(found[r])
  /\ pc[r] = "clear" => row[found[r]] = "deleted"

RequestOK(r) == HandlerOK(r) /\ ProvisionOK(r) /\ DeprovisionOK(r)

RecordsOK == \A r \in Requests : RequestOK(r)

-----------------------------------------------------------------------------

(* The loops over the products handle the ones that are left.              *)
LEMMA NextProductIsLeft ==
  ASSUME NEW S \in SUBSET Products, S # {}
  PROVE  NextProduct(S) \in S
  BY ConstantsAssumption DEF NextProduct

(* The step and the answer of one handler change, and of no other.         *)
Moves(r, step, answer) ==
  /\ pc' = [pc EXCEPT ![r] = step]
  /\ reply' = [reply EXCEPT ![r] = answer]

LEMMA AwaitMoves ==
  ASSUME TypeOK, NEW r \in Requests, NEW step, Await(r, step)
  PROVE  Moves(r, step, reply[r])
  BY DEF TypeOK, Await, Moves

LEMMA AwaitAt ==
  ASSUME TypeOK, NEW r \in Requests, NEW step, Await(r, step)
  PROVE  pc'[r] = step /\ reply'[r] = reply[r]
  BY DEF TypeOK, Await

LEMMA AnswerMoves ==
  ASSUME NEW r \in Requests, NEW code, Answer(r, code)
  PROVE  Moves(r, "done", code)
  BY DEF Answer, Moves

LEMMA FailMoves ==
  ASSUME NEW r \in Requests, NEW code, Fail(r, code)
  PROVE  Moves(r, "done", IF reply[r] = "none" THEN code ELSE reply[r])
  BY DEF Fail, Moves

(* A step of r changes no variable of another handler.                     *)
Alone(r) ==
  /\ UNCHANGED workload
  /\ \A q \in Requests \ {r} :
       pc'[q] = pc[q] /\ reply'[q] = reply[q] /\ todo'[q] = todo[q] /\ found'[q] = found[q]

(* What a step of r may do to the rows and licenses of others: nothing to  *)
(* those without a row; and what is gone does not come back.               *)
Forward(r) ==
  /\ \A s \in Requests :
       /\ row[s] # "none" => row'[s] # "none"
       /\ row[s] = "deleted" => row'[s] = "deleted"
       /\ \A p \in Products : license[<<s, p>>] = "freed" => license'[<<s, p>>] = "freed"
  /\ \A q \in Requests \ {r} :
       \/ row'[q] = row[q] /\ \A p \in Products : license'[<<q, p>>] = license[<<q, p>>]
       \/ /\ row[q] # "none"
          /\ \A p \in Products : license'[<<q, p>>] # "none"

LEMMA OthersStayOK ==
  ASSUME TypeOK, RecordsOK, NEW r \in Requests, Alone(r), Forward(r),
         NEW q \in Requests, q # r
  PROVE  RequestOK(q)'
<1>1. RequestOK(q)
  BY DEF RecordsOK
<1>2. HandlerOK(q)'
  BY <1>1 DEF RequestOK, HandlerOK, Alone, workload
<1>3. ProvisionOK(q)'
  <2>1. ToOrder(q)' = ToOrder(q)
    BY DEF ToOrder, Alone
  <2> QED
    BY <1>1, <2>1 DEF RequestOK, ProvisionOK, Alone, Forward, workload
<1>4. DeprovisionOK(q)'
  <2>1. found[q] \in Requests
    BY DEF TypeOK
  <2>2. AllFreed(found[q]) => AllFreed(found[q])'
    BY <2>1 DEF AllFreed, Forward, Alone
  <2> QED
    BY <1>1, <2>1, <2>2 DEF RequestOK, DeprovisionOK, Alone, Forward, workload
<1> QED
  BY <1>2, <1>3, <1>4 DEF RequestOK

(* So a step of r has only to keep what is said of r.                      *)
LEMMA OneStaysOK ==
  ASSUME TypeOK, RecordsOK, NEW r \in Requests, Alone(r), Forward(r), RequestOK(r)'
  PROVE  RecordsOK'
  BY OthersStayOK DEF RecordsOK

(* A handler that is done has little to keep.                              *)
LEMMA DoneIsOK ==
  ASSUME TypeOK, RecordsOK, NEW r \in Requests, NEW answer, Moves(r, "done", answer),
         UNCHANGED workload,
         row'[r] # "none" =>
           /\ op[r] = "provision"
           /\ \A p \in Products : license'[<<r, p>>] # "none",
         op[r] = "provision" /\ answer = "200" => row'[r] # "none"
  PROVE  RequestOK(r)'
<1>1. pc'[r] = "done" /\ reply'[r] = answer
  BY DEF TypeOK, Moves
<1>2. HandlerOK(r)' /\ ProvisionOK(r)' /\ DeprovisionOK(r)'
  BY <1>1 DEF HandlerOK, ProvisionOK, DeprovisionOK, workload,
              ProvisionSteps, DeprovisionSteps, SubmitSteps
<1> QED
  BY <1>2 DEF RequestOK

LEMMA FailedIsOK ==
  ASSUME TypeOK, RecordsOK, NEW r \in Requests, NEW code \in {"404", "500"}, Fail(r, code),
         UNCHANGED workload,
         row[r] # "none" => row'[r] # "none",
         row'[r] # "none" =>
           /\ op[r] = "provision"
           /\ \A p \in Products : license'[<<r, p>>] # "none"
  PROVE  RequestOK(r)'
<1> DEFINE answer == IF reply[r] = "none" THEN code ELSE reply[r]
<1>1. Moves(r, "done", answer)
  BY FailMoves
<1>2. op[r] = "provision" /\ answer = "200" => row'[r] # "none"
  BY DEF RecordsOK, RequestOK, ProvisionOK
<1> QED
  BY <1>1, <1>2, DoneIsOK

(* A handler that fails and leaves rows and licenses alone.                *)
LEMMA QuietFailureIsOK ==
  ASSUME TypeOK, RecordsOK, NEW r \in Requests, NEW code \in {"404", "500"}, Fail(r, code),
         UNCHANGED workload, UNCHANGED <<row, license>>
  PROVE  RequestOK(r)'
<1>1. row[r] # "none" =>
        /\ op[r] = "provision"
        /\ \A p \in Products : license[<<r, p>>] # "none"
  BY DEF RecordsOK, RequestOK, ProvisionOK
<1> QED
  BY <1>1, FailedIsOK

LEMMA MovesAlone ==
  ASSUME TypeOK, NEW r \in Requests, UNCHANGED workload,
         \/ \E step, answer : Moves(r, step, answer)
         \/ \E step : Await(r, step)
         \/ \E code : Answer(r, code)
         \/ \E code : Fail(r, code),
         \A q \in Requests \ {r} : todo'[q] = todo[q] /\ found'[q] = found[q]
  PROVE  Alone(r)
<1>1. PICK step, answer : Moves(r, step, answer)
  BY AwaitMoves, AnswerMoves, FailMoves
<1> QED
  BY <1>1 DEF TypeOK, Moves, Alone

LEMMA NothingForward ==
  ASSUME UNCHANGED <<row, license>>, NEW r \in Requests
  PROVE  Forward(r)
  BY DEF Forward

-----------------------------------------------------------------------------
(* PUT.                                                                    *)

LEMMA ReceiveProvisionOK ==
  ASSUME TypeOK, RecordsOK, UNCHANGED workload, NEW r \in Requests, ReceiveProvision(r)
  PROVE  RecordsOK'
<1>1. Alone(r) /\ Forward(r)
  BY MovesAlone, NothingForward DEF ReceiveProvision, locals, remote
<1>2. CASE Await(r, "catalog")
  <2>1. pc'[r] = "catalog" /\ reply'[r] = reply[r]
    BY <1>2, AwaitAt
  <2>2. pc[r] = "idle" /\ op[r] = "provision"
    BY DEF ReceiveProvision, MaySend
  <2>3. RequestOK(r)
    BY DEF RecordsOK
  <2>4. HandlerOK(r)' /\ ProvisionOK(r)' /\ DeprovisionOK(r)'
    BY <2>1, <2>2, <2>3 DEF RequestOK, HandlerOK, ProvisionOK, DeprovisionOK, ToOrder, ReceiveProvision,
         workload, locals, remote, ProvisionSteps, DeprovisionSteps, SubmitSteps
  <2> QED
    BY <1>1, <2>4, OneStaysOK DEF RequestOK
<1>3. CASE Fail(r, "500")
  BY <1>1, <1>3, QuietFailureIsOK, OneStaysOK DEF ReceiveProvision, remote
<1> QED
  BY <1>2, <1>3 DEF ReceiveProvision

LEMMA CatalogAnswersOK ==
  ASSUME TypeOK, RecordsOK, UNCHANGED workload, NEW r \in Requests, CatalogAnswers(r)
  PROVE  RecordsOK'
<1>1. Alone(r) /\ Forward(r)
  BY MovesAlone, NothingForward DEF CatalogAnswers, locals, remote
<1>2. CASE Await(r, "customer")
  <2>1. pc'[r] = "customer" /\ reply'[r] = reply[r]
    BY <1>2, AwaitAt
  <2>2. pc[r] = "catalog" /\ RequestOK(r)
    BY DEF RecordsOK, CatalogAnswers
  <2>3. HandlerOK(r)' /\ ProvisionOK(r)' /\ DeprovisionOK(r)'
    BY <2>1, <2>2 DEF RequestOK, HandlerOK, ProvisionOK, DeprovisionOK, ToOrder, CatalogAnswers,
         workload, locals, remote, ProvisionSteps, DeprovisionSteps, SubmitSteps
  <2> QED
    BY <1>1, <2>3, OneStaysOK DEF RequestOK
<1>3. CASE Fail(r, "500")
  BY <1>1, <1>3, QuietFailureIsOK, OneStaysOK DEF CatalogAnswers, remote
<1> QED
  BY <1>2, <1>3 DEF CatalogAnswers

LEMMA CreateCustomerOK ==
  ASSUME TypeOK, RecordsOK, UNCHANGED workload, NEW r \in Requests, CreateCustomer(r)
  PROVE  RecordsOK'
<1>1. Alone(r) /\ Forward(r)
  BY MovesAlone, NothingForward DEF CreateCustomer, locals, remote
<1>2. CASE Await(r, AfterLicenses(todo[r]))
  <2>1. pc'[r] = AfterLicenses(todo[r]) /\ reply'[r] = reply[r]
    BY <1>2, AwaitAt
  <2>2. pc[r] = "customer" /\ RequestOK(r)
    BY DEF RecordsOK, CreateCustomer
  <2>3. HandlerOK(r)' /\ ProvisionOK(r)' /\ DeprovisionOK(r)'
    BY <2>1, <2>2 DEF RequestOK, HandlerOK, ProvisionOK, DeprovisionOK, ToOrder, CreateCustomer,
         AfterLicenses, workload, locals, remote, ProvisionSteps, DeprovisionSteps, SubmitSteps
  <2> QED
    BY <1>1, <2>3, OneStaysOK DEF RequestOK
<1>3. CASE Fail(r, "500")
  BY <1>1, <1>3, QuietFailureIsOK, OneStaysOK DEF CreateCustomer, remote
<1> QED
  BY <1>2, <1>3 DEF CreateCustomer

(* What a license order changes: the license of r for the next product,    *)
(* which was not ordered.                                                  *)
LEMMA OrderIsNew ==
  ASSUME TypeOK, RecordsOK, NEW r \in Requests, CreateLicense(r)
  PROVE  /\ NextProduct(todo[r]) \in todo[r] /\ todo[r] \subseteq Products
         /\ op[r] = "provision" /\ row[r] = "none"
         /\ license[<<r, NextProduct(todo[r])>>] = "none"
         /\ \A s \in Requests, p \in Products : 
              license'[<<s, p>>] # license[<<s, p>>] =>
                /\ s = r /\ p = NextProduct(todo[r])
                /\ license' = [license EXCEPT ![<<s, p>>] = "live"]
<1>1. RequestOK(r) /\ pc[r] = "license"
  BY DEF RecordsOK, CreateLicense
<1>2. NextProduct(todo[r]) \in todo[r] /\ todo[r] \subseteq Products
  BY <1>1, NextProductIsLeft DEF RequestOK, ProvisionOK, TypeOK
<1>3. op[r] = "provision" /\ row[r] = "none"
  BY <1>1 DEF RequestOK, HandlerOK, ProvisionOK, ProvisionSteps
<1>4. license[<<r, NextProduct(todo[r])>>] = "none"
  BY <1>1, <1>2, <1>3 DEF RequestOK, ProvisionOK, ToOrder
<1>5. license' \in {license, [license EXCEPT ![<<r, NextProduct(todo[r])>>] = "live"]}
  BY DEF CreateLicense
<1>6. ASSUME NEW s \in Requests, NEW p \in Products, license'[<<s, p>>] # license[<<s, p>>]
      PROVE  /\ s = r /\ p = NextProduct(todo[r])
             /\ license' = [license EXCEPT ![<<s, p>>] = "live"]
  BY <1>5, <1>6 DEF TypeOK, Licenses
<1> QED
  BY <1>2, <1>3, <1>4, <1>6

LEMMA OrderForward ==
  ASSUME TypeOK, RecordsOK, NEW r \in Requests, CreateLicense(r)
  PROVE  Forward(r)
  BY OrderIsNew DEF CreateLicense, Forward

LEMMA CreateLicenseOK ==
  ASSUME TypeOK, RecordsOK, UNCHANGED workload, NEW r \in Requests, CreateLicense(r)
  PROVE  RecordsOK'
<1>1. Alone(r)
  BY MovesAlone DEF CreateLicense, locals
<1>2. Forward(r)
  BY OrderForward
<1>3. RequestOK(r) /\ pc[r] = "license"
  BY DEF RecordsOK, CreateLicense
<1> DEFINE ordered == [license EXCEPT ![<<r, NextProduct(todo[r])>>] = "live"]
<1>4. CASE license' = ordered /\ Await(r, "authcode")
  <2>1. pc'[r] = "authcode" /\ reply'[r] = reply[r] /\ UNCHANGED <<todo, found, row>>
    BY <1>4, AwaitAt DEF CreateLicense, locals
  <2>2. \A p \in Products :
          license'[<<r, p>>] = IF p = NextProduct(todo[r]) THEN "live" ELSE license[<<r, p>>]
    BY <1>4 DEF TypeOK, Licenses
  <2>3. NextProduct(todo[r]) \in todo[r] /\ op[r] = "provision" /\ row[r] = "none"
    BY OrderIsNew
  <2>4. ToOrder(r) = todo[r] /\ ToOrder(r)' = todo[r] \ {NextProduct(todo[r])}
    BY <1>3, <2>1 DEF ToOrder
  <2>5. HandlerOK(r)'
    BY <1>3, <2>1 DEF RequestOK, HandlerOK, workload, ProvisionSteps, DeprovisionSteps, SubmitSteps
  <2>6. ProvisionOK(r)'
    BY <1>3, <2>1, <2>2, <2>3, <2>4 DEF RequestOK, HandlerOK, ProvisionOK, workload
  <2>7. DeprovisionOK(r)'
    BY <2>1 DEF DeprovisionOK, DeprovisionSteps
  <2> QED
    BY <1>1, <1>2, <2>5, <2>6, <2>7, OneStaysOK DEF RequestOK
<1>5. CASE Fail(r, "500")
  BY <1>1, <1>2, <1>5, OrderIsNew, FailedIsOK, OneStaysOK DEF CreateLicense
<1> QED
  BY <1>4, <1>5 DEF CreateLicense

LEMMA CreateAuthorizationCodeOK ==
  ASSUME TypeOK, RecordsOK, UNCHANGED workload, NEW r \in Requests, CreateAuthorizationCode(r)
  PROVE  RecordsOK'
<1> DEFINE rest == todo[r] \ {NextProduct(todo[r])}
<1>1. pc[r] = "authcode" /\ RequestOK(r) /\ UNCHANGED <<found, row, license>>
  BY DEF RecordsOK, CreateAuthorizationCode, remote
<1>2. \A q \in Requests \ {r} : todo'[q] = todo[q]
  BY DEF CreateAuthorizationCode, TypeOK
<1>3. Alone(r) /\ Forward(r)
  BY <1>1, <1>2, MovesAlone, NothingForward DEF CreateAuthorizationCode
<1>4. CASE todo' = [todo EXCEPT ![r] = rest] /\ Await(r, AfterLicenses(rest))
  <2>1. pc'[r] = AfterLicenses(rest) /\ reply'[r] = reply[r] /\ todo'[r] = rest
    BY <1>4, AwaitAt DEF TypeOK
  <2>2. ToOrder(r) = rest /\ ToOrder(r)' = rest
    BY <1>1, <2>1 DEF ToOrder, AfterLicenses
  <2>3. HandlerOK(r)'
    BY <1>1, <2>1 DEF RequestOK, HandlerOK, AfterLicenses, workload,
         ProvisionSteps, DeprovisionSteps, SubmitSteps
  <2>4. ProvisionOK(r)'
    BY <1>1, <2>1, <2>2 DEF RequestOK, HandlerOK, ProvisionOK, AfterLicenses, workload,
         ProvisionSteps
  <2>5. DeprovisionOK(r)'
    BY <2>1 DEF DeprovisionOK, DeprovisionSteps, AfterLicenses
  <2> QED
    BY <1>3, <2>3, <2>4, <2>5, OneStaysOK DEF RequestOK
<1>5. CASE Fail(r, "500")
  BY <1>1, <1>3, <1>5, QuietFailureIsOK, OneStaysOK
<1> QED
  BY <1>4, <1>5 DEF CreateAuthorizationCode

(* What the insertion of a row finds: no row, and every license ordered.   *)
LEMMA SavedIsNew ==
  ASSUME TypeOK, RecordsOK, NEW r \in Requests, SaveInstance(r)
  PROVE  /\ op[r] = "provision" /\ row[r] = "none" /\ reply[r] = "none"
         /\ \A p \in Products : license[<<r, p>>] = "live"
         /\ UNCHANGED license
         /\ row' \in {row, [row EXCEPT ![r] = "stored"]}
<1>1. RequestOK(r) /\ pc[r] = "save"
  BY DEF RecordsOK, SaveInstance
<1>2. op[r] = "provision" /\ row[r] = "none" /\ reply[r] = "none"
  BY <1>1 DEF RequestOK, HandlerOK, ProvisionOK, ProvisionSteps, DeprovisionSteps, SubmitSteps
<1>3. \A p \in Products : license[<<r, p>>] = "live"
  BY <1>1, <1>2 DEF RequestOK, ProvisionOK, ToOrder
<1> QED
  BY <1>2, <1>3 DEF SaveInstance

LEMMA SavedForward ==
  ASSUME TypeOK, RecordsOK, NEW r \in Requests, SaveInstance(r)
  PROVE  Forward(r)
<1>1. row[r] = "none" /\ UNCHANGED license /\ row' \in {row, [row EXCEPT ![r] = "stored"]}
  BY SavedIsNew
<1>2. \A q \in Requests \ {r} : row'[q] = row[q]
  BY <1>1 DEF TypeOK
<1> QED
  BY <1>1, <1>2 DEF Forward

LEMMA SaveInstanceOK ==
  ASSUME TypeOK, RecordsOK, UNCHANGED workload, NEW r \in Requests, SaveInstance(r)
  PROVE  RecordsOK'
<1> DEFINE inserted == [row EXCEPT ![r] = "stored"]
<1>1. Alone(r)
  BY MovesAlone DEF SaveInstance, locals
<1>2. Forward(r)
  BY SavedForward
<1>3. CASE row' = inserted /\ Answer(r, "200")
  <2>1. row'[r] = "stored"
    BY <1>3 DEF TypeOK
  <2>2. Moves(r, "done", "200")
    BY <1>3, AnswerMoves
  <2> QED
    BY <1>1, <1>2, <2>1, <2>2, SavedIsNew, DoneIsOK, OneStaysOK
<1>4. CASE Fail(r, "500")
  BY <1>1, <1>2, <1>4, SavedIsNew, FailedIsOK, OneStaysOK
<1> QED
  BY <1>3, <1>4 DEF SaveInstance

-----------------------------------------------------------------------------
(* DELETE.                                                                 *)

LEMMA ReceiveDeprovisionOK ==
  ASSUME TypeOK, RecordsOK, UNCHANGED workload, NEW r \in Requests, ReceiveDeprovision(r)
  PROVE  RecordsOK'
<1>1. op[r] = "deprovision" /\ pc[r] = "idle" /\ RequestOK(r) /\ UNCHANGED <<locals, remote>>
  BY DEF RecordsOK, ReceiveDeprovision, MaySend
<1>2. row[r] = "none"
  BY <1>1 DEF RequestOK, ProvisionOK
<1>3. CASE Answer(r, "422")
  <2>1. Moves(r, "done", "422")
    BY <1>3, AnswerMoves
  <2>2. RequestOK(r)'
    BY <1>1, <1>2, <2>1, DoneIsOK DEF remote
  <2> QED
    BY <1>1, <2>1, <2>2, MovesAlone, NothingForward, OneStaysOK DEF locals, remote
<1>4. CASE reply' = [reply EXCEPT ![r] = "202"] /\ pc' = [pc EXCEPT ![r] = "lookup"]
  <2>1. Moves(r, "lookup", "202")
    BY <1>4 DEF Moves
  <2>2. pc'[r] = "lookup" /\ reply'[r] = "202"
    BY <2>1 DEF TypeOK, Moves
  <2>3. HandlerOK(r)' /\ ProvisionOK(r)' /\ DeprovisionOK(r)'
    BY <1>1, <1>2, <2>2 DEF RequestOK, HandlerOK, ProvisionOK, DeprovisionOK, workload, locals,
         remote, ProvisionSteps, DeprovisionSteps, SubmitSteps
  <2> QED
    BY <1>1, <2>1, <2>3, MovesAlone, NothingForward, OneStaysOK DEF RequestOK, locals, remote
<1> QED
  BY <1>3, <1>4 DEF ReceiveDeprovision

(* A row that was looked up is the one the handler goes on with.           *)
LEMMA FoundIs ==
  ASSUME TypeOK, NEW r \in Requests, NEW s \in Requests, ComputeUsage(r, s)
  PROVE  found'[r] = s /\ \A q \in Requests \ {r} : found'[q] = found[q]
  BY DEF TypeOK, ComputeUsage

LEMMA LookupInstanceOK ==
  ASSUME TypeOK, RecordsOK, UNCHANGED workload, NEW r \in Requests, LookupInstance(r)
  PROVE  RecordsOK'
<1>1. pc[r] = "lookup" /\ RequestOK(r) /\ UNCHANGED <<todo, row, license>>
  BY DEF RecordsOK, LookupInstance, remote
<1>2. CASE \E s \in RowsOf(inst[r]) : ComputeUsage(r, s) /\ Await(r, "token")
  <2>1. PICK s \in Requests : /\ row[s] = "stored" /\ inst[s] = inst[r]
                              /\ ComputeUsage(r, s) /\ Await(r, "token")
    BY <1>2 DEF RowsOf
  <2>2. found'[r] = s /\ \A q \in Requests \ {r} : found'[q] = found[q]
    BY <2>1, FoundIs
  <2>3. pc'[r] = "token" /\ reply'[r] = reply[r]
    BY <2>1, AwaitAt
  <2>4. HandlerOK(r)' /\ ProvisionOK(r)' /\ DeprovisionOK(r)'
    BY <1>1, <2>1, <2>2, <2>3 DEF RequestOK, HandlerOK, ProvisionOK, DeprovisionOK, workload,
         ProvisionSteps, DeprovisionSteps, SubmitSteps
  <2> QED
    BY <1>1, <2>1, <2>2, <2>4, MovesAlone, NothingForward, OneStaysOK DEF RequestOK
<1>3. CASE UNCHANGED <<found, start>> /\ Fail(r, "500")
  BY <1>1, <1>3, MovesAlone, NothingForward, QuietFailureIsOK, OneStaysOK
<1> QED
  BY <1>2, <1>3 DEF LookupInstance

LEMMA FetchTokenOK ==
  ASSUME TypeOK, RecordsOK, UNCHANGED workload, NEW r \in Requests, FetchToken(r)
  PROVE  RecordsOK'
<1>1. pc[r] = "token" /\ RequestOK(r) /\ UNCHANGED <<todo, found, row, license>>
  BY DEF RecordsOK, FetchToken, locals, remote
<1>2. Alone(r) /\ Forward(r)
  BY <1>1, MovesAlone, NothingForward DEF FetchToken
<1>3. CASE Await(r, "usage")
  <2>1. pc'[r] = "usage" /\ reply'[r] = reply[r]
    BY <1>3, AwaitAt
  <2>2. HandlerOK(r)' /\ ProvisionOK(r)' /\ DeprovisionOK(r)'
    BY <1>1, <2>1 DEF RequestOK, HandlerOK, ProvisionOK, DeprovisionOK, workload, ToOrder,
         ProvisionSteps, DeprovisionSteps, SubmitSteps
  <2> QED
    BY <1>2, <2>2, OneStaysOK DEF RequestOK
<1>4. CASE Fail(r, "500")
  BY <1>1, <1>2, <1>4, QuietFailureIsOK, OneStaysOK
<1> QED
  BY <1>3, <1>4 DEF FetchToken

LEMMA SendUsageOK ==
  ASSUME TypeOK, RecordsOK, UNCHANGED workload, NEW r \in Requests, SendUsage(r)
  PROVE  RecordsOK'
<1>1. pc[r] = "usage" /\ RequestOK(r) /\ UNCHANGED <<todo, found, row, license>>
  BY DEF RecordsOK, SendUsage, locals
<1>2. Alone(r) /\ Forward(r)
  BY <1>1, MovesAlone, NothingForward DEF SendUsage, UsageSent
<1>3. CASE op[r] = "deprovision" /\ Await(r, AfterDeletions(todo[r]))
  <2>1. pc'[r] = AfterDeletions(todo[r]) /\ reply'[r] = reply[r]
    BY <1>3, AwaitAt
  <2>2. HandlerOK(r)' /\ ProvisionOK(r)' /\ DeprovisionOK(r)'
    BY <1>1, <1>3, <2>1 DEF RequestOK, HandlerOK, ProvisionOK, DeprovisionOK, workload, ToOrder,
         AfterDeletions, AllFreed, ProvisionSteps, DeprovisionSteps, SubmitSteps
  <2> QED
    BY <1>2, <2>2, OneStaysOK DEF RequestOK
<1>4. CASE op[r] # "deprovision" /\ Answer(r, "200")
  <2>1. row[r] = "none" /\ op[r] # "provision"
    BY <1>1 DEF RequestOK, HandlerOK, ProvisionOK, SubmitSteps
  <2> QED
    BY <1>1, <1>2, <1>4, <2>1, AnswerMoves, DoneIsOK, OneStaysOK
<1>5. CASE Fail(r, "500")
  BY <1>1, <1>2, <1>5, QuietFailureIsOK, OneStaysOK
<1> QED
  BY <1>3, <1>4, <1>5 DEF SendUsage, UsageSent

(* What a deletion at the license server finds: a row there was of the     *)
(* instance, whose license for the next product it may free.               *)
LEMMA DeletedIsOwn ==
  ASSUME TypeOK, RecordsOK, NEW r \in Requests, DeleteLicense(r)
  PROVE  /\ op[r] = "deprovision" /\ reply[r] = "202" /\ row[r] = "none"
         /\ row[found[r]] # "none" /\ inst[found[r]] = inst[r]
         /\ NextProduct(todo[r]) \in todo[r] /\ todo[r] \subseteq Products
         /\ UNCHANGED row
         /\ \/ UNCHANGED license
            \/ license' = [license EXCEPT ![<<found[r], NextProduct(todo[r])>>] = "freed"]
<1>1. RequestOK(r) /\ pc[r] = "delete-license"
  BY DEF RecordsOK, DeleteLicense
<1>2. op[r] = "deprovision" /\ reply[r] = "202" /\ row[r] = "none"
  BY <1>1 DEF RequestOK, HandlerOK, ProvisionOK, DeprovisionSteps, SubmitSteps
<1>3. row[found[r]] # "none" /\ inst[found[r]] = inst[r] /\ todo[r] # {}
  BY <1>1, <1>2 DEF RequestOK, DeprovisionOK, DeprovisionSteps
<1>4. NextProduct(todo[r]) \in todo[r] /\ todo[r] \subseteq Products
  BY <1>3, NextProductIsLeft DEF TypeOK
<1> QED
  BY <1>2, <1>3, <1>4 DEF DeleteLicense

LEMMA FreedForward ==
  ASSUME TypeOK, RecordsOK, NEW r \in Requests, DeleteLicense(r)
  PROVE  Forward(r)
<1>1. row[found[r]] # "none" /\ UNCHANGED row
  BY DeletedIsOwn
<1>2. \A s \in Requests, p \in Products :
        \/ license'[<<s, p>>] = license[<<s, p>>]
        \/ s = found[r] /\ license'[<<s, p>>] = "freed"
  <2> DEFINE this == <<found[r], NextProduct(todo[r])>>
  <2>1. this \in Licenses
    BY DeletedIsOwn DEF TypeOK, Licenses
  <2>2. license' = license \/ license' = [license EXCEPT ![this] = "freed"]
    BY DeletedIsOwn
  <2>3. \A l \in Licenses : license'[l] = license[l] \/ (l = this /\ license'[l] = "freed")
    BY <2>1, <2>2 DEF TypeOK
  <2> QED
    BY <2>3 DEF Licenses
<1>3. \A q \in Requests, p \in Products : row[q] # "none" => license[<<q, p>>] # "none"
  BY DEF RecordsOK, RequestOK, ProvisionOK
<1> QED
  BY <1>1, <1>2, <1>3 DEF Forward

LEMMA DeleteLicenseOK ==
  ASSUME TypeOK, RecordsOK, UNCHANGED workload, NEW r \in Requests, DeleteLicense(r)
  PROVE  RecordsOK'
<1> DEFINE p == NextProduct(todo[r])
           freed == [license EXCEPT ![<<found[r], p>>] = "freed"]
           rest == todo[r] \ {p}
<1>1. pc[r] = "delete-license" /\ RequestOK(r) /\ UNCHANGED <<found, row>>
  BY DEF RecordsOK, DeleteLicense
<1>2. \A q \in Requests \ {r} : todo'[q] = todo[q]
  BY DEF DeleteLicense, TypeOK
<1>3. Alone(r) /\ Forward(r)
  BY <1>1, <1>2, MovesAlone, FreedForward DEF DeleteLicense
<1>4. CASE license' = freed /\ todo' = [todo EXCEPT ![r] = rest] /\ Await(r, AfterDeletions(rest))
  <2>1. pc'[r] = AfterDeletions(rest) /\ reply'[r] = reply[r] /\ todo'[r] = rest
    BY <1>4, AwaitAt DEF TypeOK
  <2>2. \A x \in Products \ rest : license'[<<found[r], x>>] = "freed"
    <3> SUFFICES ASSUME NEW x \in Products \ rest PROVE license'[<<found[r], x>>] = "freed"
      OBVIOUS
    <3>1. CASE x = p
      BY <1>4, <3>1 DEF TypeOK, Licenses
    <3>2. CASE x # p
      <4>1. license[<<found[r], x>>] = "freed"
        BY <1>1, <3>2 DEF RequestOK, DeprovisionOK
      <4> QED
        BY <1>3, <4>1 DEF Forward, TypeOK
    <3> QED
      BY <3>1, <3>2
  <2>3. HandlerOK(r)'
    BY <1>1, <2>1 DEF RequestOK, HandlerOK, AfterDeletions, workload,
         ProvisionSteps, DeprovisionSteps, SubmitSteps
  <2>4. ProvisionOK(r)'
    BY <1>1, <2>1, DeletedIsOwn DEF ProvisionOK, AfterDeletions, workload
  <2>5. DeprovisionOK(r)'
    BY <1>1, <2>1, <2>2, DeletedIsOwn DEF DeprovisionOK, AfterDeletions, AllFreed, workload,
         DeprovisionSteps
  <2> QED
    BY <1>3, <2>3, <2>4, <2>5, OneStaysOK DEF RequestOK
<1>5. CASE Fail(r, "500")
  BY <1>1, <1>3, <1>5, DeletedIsOwn, FailedIsOK, OneStaysOK
<1> QED
  BY <1>4, <1>5 DEF DeleteLicense

LEMMA ClearedForward ==
  ASSUME TypeOK, RecordsOK, NEW r \in Requests, DeleteRows(r)
  PROVE  Forward(r)
<1> DEFINE cleared == [q \in Requests |-> IF q \in RowsOf(inst[r]) THEN "deleted" ELSE row[q]]
<1>1. UNCHANGED license /\ (UNCHANGED row \/ row' = cleared)
  BY DEF DeleteRows
<1>2. \A q \in Requests : row'[q] = row[q] \/ (row[q] = "stored" /\ row'[q] = "deleted")
  BY <1>1 DEF RowsOf
<1>3. \A q \in Requests, p \in Products : row[q] # "none" => license[<<q, p>>] # "none"
  BY DEF RecordsOK, RequestOK, ProvisionOK
<1> QED
  BY <1>1, <1>2, <1>3 DEF Forward

LEMMA DeleteRowsOK ==
  ASSUME TypeOK, RecordsOK, UNCHANGED workload, NEW r \in Requests, DeleteRows(r)
  PROVE  RecordsOK'
<1> DEFINE cleared == [q \in Requests |-> IF q \in RowsOf(inst[r]) THEN "deleted" ELSE row[q]]
<1>1. pc[r] = "delete-rows" /\ RequestOK(r) /\ UNCHANGED <<todo, found, license>>
  BY DEF RecordsOK, DeleteRows, locals
<1>2. op[r] = "deprovision" /\ row[r] = "none"
  BY <1>1 DEF RequestOK, HandlerOK, ProvisionOK, DeprovisionSteps, SubmitSteps
<1>3. Alone(r)
  BY <1>1, MovesAlone DEF DeleteRows
<1>4. CASE row' = cleared /\ Await(r, "clear")
  <2>1. pc'[r] = "clear" /\ reply'[r] = reply[r]
    BY <1>4, AwaitAt
  <2>2. \A q \in Requests : row'[q] = IF q \in RowsOf(inst[r]) THEN "deleted" ELSE row[q]
    BY <1>4
  <2>4. Forward(r)
    BY ClearedForward
  <2>5. row'[found[r]] = "deleted"
    <3>1. row[found[r]] # "none" /\ inst[found[r]] = inst[r]
      BY <1>1, <1>2 DEF RequestOK, DeprovisionOK, DeprovisionSteps
    <3> QED
      BY <2>2, <3>1 DEF TypeOK, RowsOf
  <2>6. inst[found[r]] = inst[r]
    BY <1>1, <1>2 DEF RequestOK, DeprovisionOK, DeprovisionSteps
  <2>7. HandlerOK(r)'
    BY <1>1, <2>1 DEF RequestOK, HandlerOK, workload,
         ProvisionSteps, DeprovisionSteps, SubmitSteps
  <2>8. row'[r] = "none"
    BY <1>2, <2>2 DEF RowsOf
  <2>9. ProvisionOK(r)' /\ DeprovisionOK(r)'
    BY <1>1, <1>2, <2>1, <2>5, <2>6, <2>8 DEF ProvisionOK, DeprovisionOK, workload
  <2> QED
    BY <1>3, <2>4, <2>7, <2>9, OneStaysOK DEF RequestOK
<1>5. CASE UNCHANGED row /\ Fail(r, "500")
  BY <1>1, <1>3, <1>5, NothingForward, QuietFailureIsOK, OneStaysOK
<1> QED
  BY <1>4, <1>5 DEF DeleteRows

LEMMA ClearStatusOK ==
  ASSUME TypeOK, RecordsOK, UNCHANGED workload, NEW r \in Requests, ClearStatus(r)
  PROVE  RecordsOK'
<1>1. pc[r] = "clear" /\ RequestOK(r) /\ UNCHANGED <<todo, found, row, license>>
  BY DEF RecordsOK, ClearStatus, locals, remote
<1>2. CASE pc' = [pc EXCEPT ![r] = "done"] /\ UNCHANGED reply
  <2>1. Moves(r, "done", reply[r])
    BY <1>2 DEF Moves, TypeOK
  <2>2. op[r] = "deprovision" /\ row[r] = "none"
    BY <1>1 DEF RequestOK, HandlerOK, ProvisionOK, DeprovisionSteps, SubmitSteps
  <2>3. RequestOK(r)'
    BY <1>1, <2>1, <2>2, DoneIsOK
  <2> QED
    BY <1>1, <2>1, <2>3, MovesAlone, NothingForward, OneStaysOK
<1>3. CASE Fail(r, "500")
  BY <1>1, <1>3, MovesAlone, NothingForward, QuietFailureIsOK, OneStaysOK
<1> QED
  BY <1>2, <1>3 DEF ClearStatus

-----------------------------------------------------------------------------
(* POST /admin/submit-billing, and a restart.                              *)

LEMMA ReceiveSubmitBillingOK ==
  ASSUME TypeOK, RecordsOK, UNCHANGED workload, NEW r \in Requests, ReceiveSubmitBilling(r)
  PROVE  RecordsOK'
<1>1. /\ op[r] \notin {"provision", "deprovision"} /\ pc[r] = "idle" /\ RequestOK(r)
      /\ UNCHANGED <<todo, found, row, license>>
  BY DEF RecordsOK, ReceiveSubmitBilling, OfPlatform, locals, remote
<1>2. pc'[r] = "pick" /\ reply'[r] = reply[r]
  BY AwaitAt DEF ReceiveSubmitBilling
<1>3. HandlerOK(r)' /\ ProvisionOK(r)' /\ DeprovisionOK(r)'
  BY <1>1, <1>2 DEF RequestOK, HandlerOK, ProvisionOK, DeprovisionOK, workload,
       ProvisionSteps, DeprovisionSteps, SubmitSteps
<1> QED
  BY <1>1, <1>3, MovesAlone, NothingForward, OneStaysOK DEF RequestOK, ReceiveSubmitBilling

LEMMA PickInstanceOK ==
  ASSUME TypeOK, RecordsOK, UNCHANGED workload, NEW r \in Requests, PickInstance(r)
  PROVE  RecordsOK'
<1>1. pc[r] = "pick" /\ RequestOK(r) /\ UNCHANGED <<todo, row, license>>
  BY DEF RecordsOK, PickInstance, remote
<1>2. CASE \E s \in {x \in Requests : row[x] = "stored"} : ComputeUsage(r, s) /\ Await(r, "token")
  <2>1. PICK s \in Requests : row[s] = "stored" /\ ComputeUsage(r, s) /\ Await(r, "token")
    BY <1>2
  <2>2. found'[r] = s /\ \A q \in Requests \ {r} : found'[q] = found[q]
    BY <2>1, FoundIs
  <2>3. pc'[r] = "token" /\ reply'[r] = reply[r]
    BY <2>1, AwaitAt
  <2>4. op[r] \notin {"provision", "deprovision"}
    BY <1>1 DEF RequestOK, HandlerOK, SubmitSteps
  <2>5. HandlerOK(r)' /\ ProvisionOK(r)' /\ DeprovisionOK(r)'
    BY <1>1, <2>1, <2>2, <2>3, <2>4 DEF RequestOK, HandlerOK, ProvisionOK, DeprovisionOK, workload,
         ProvisionSteps, DeprovisionSteps, SubmitSteps
  <2> QED
    BY <1>1, <2>1, <2>2, <2>5, MovesAlone, NothingForward, OneStaysOK DEF RequestOK
<1>3. CASE UNCHANGED <<found, start>> /\ (Fail(r, "404") \/ Fail(r, "500"))
  BY <1>1, <1>3, MovesAlone, NothingForward, QuietFailureIsOK, OneStaysOK
<1> QED
  BY <1>2, <1>3 DEF PickInstance

LEMMA CrashOK ==
  ASSUME TypeOK, RecordsOK, UNCHANGED workload, Crash
  PROVE  RecordsOK'
<1> SUFFICES ASSUME NEW r \in Requests PROVE RequestOK(r)'
  BY DEF RecordsOK
<1>1. RequestOK(r) /\ UNCHANGED <<reply, todo, found, row, license>>
  BY DEF RecordsOK, Crash, locals, remote
<1>2. pc'[r] = "done" \/ (pc[r] = "idle" /\ pc'[r] = "idle")
  BY DEF Crash, Active, TypeOK
<1>3. HandlerOK(r)' /\ DeprovisionOK(r)'
  BY <1>1, <1>2 DEF RequestOK, HandlerOK, DeprovisionOK, workload,
       ProvisionSteps, DeprovisionSteps, SubmitSteps
<1>4. ProvisionOK(r)'
  BY <1>1, <1>2 DEF RequestOK, ProvisionOK, ToOrder, workload
<1> QED
  BY <1>3, <1>4 DEF RequestOK

-----------------------------------------------------------------------------

LEMMA RecordsStep ==
  ASSUME TypeOK, RecordsOK, [Next]_vars
  PROVE  RecordsOK'
<1>1. CASE UNCHANGED vars
  BY <1>1 DEF vars, RecordsOK, RequestOK, HandlerOK, ProvisionOK, DeprovisionOK, ToOrder, AllFreed
<1>2. CASE Next
  BY <1>2, ReceiveProvisionOK, CatalogAnswersOK, CreateCustomerOK, CreateLicenseOK,
     CreateAuthorizationCodeOK, SaveInstanceOK, ReceiveDeprovisionOK, LookupInstanceOK,
     FetchTokenOK, SendUsageOK, DeleteLicenseOK, DeleteRowsOK, ClearStatusOK,
     ReceiveSubmitBillingOK, PickInstanceOK, CrashOK
     DEF Next, Receive, Resume
<1> QED
  BY <1>1, <1>2

(* The actions that touch rows and licenses.                               *)
LEMMA TouchingSteps ==
  ASSUME [Next]_vars, ~UNCHANGED <<row, license>>
  PROVE  /\ UNCHANGED <<charges, doomed>>
         /\ \E r \in Requests :
              CreateLicense(r) \/ SaveInstance(r) \/ DeleteLicense(r) \/ DeleteRows(r)
  BY DEF Next, vars, Receive, Resume, Crash, ReceiveProvision, ReceiveDeprovision,
     ReceiveSubmitBilling, CatalogAnswers, CreateCustomer, CreateAuthorizationCode,
     LookupInstance, FetchToken, SendUsage, ClearStatus, PickInstance, remote,
     CreateLicense, SaveInstance, DeleteLicense, DeleteRows

(* No row is forgotten and no released license comes back.                 *)
LEMMA NothingComesBack ==
  ASSUME TypeOK, RecordsOK, [Next]_vars, NEW s \in Requests
  PROVE  /\ row[s] # "none" => row'[s] # "none"
         /\ row[s] = "deleted" => row'[s] = "deleted"
         /\ \A p \in Products : license[<<s, p>>] = "freed" => license'[<<s, p>>] = "freed"
<1>1. CASE UNCHANGED <<row, license>>
  BY <1>1
<1>2. CASE ~UNCHANGED <<row, license>>
  <2>1. PICK r \in Requests : Forward(r)
    BY <1>2, TouchingSteps, OrderForward, SavedForward, FreedForward, ClearedForward
  <2> QED
    BY <2>1 DEF Forward
<1> QED
  BY <1>1, <1>2

LEMMA RecordsInit == Init => RecordsOK
<1> SUFFICES ASSUME Init, NEW r \in Requests PROVE RequestOK(r)
  BY DEF RecordsOK
<1>1. /\ pc[r] = "idle" /\ reply[r] = "none" /\ row[r] = "none" /\ todo[r] = Products
      /\ \A p \in Products : license[<<r, p>>] = "none"
  BY DEF Init, Licenses
<1>2. HandlerOK(r) /\ DeprovisionOK(r)
  BY <1>1 DEF HandlerOK, DeprovisionOK, ProvisionSteps, DeprovisionSteps, SubmitSteps
<1>3. ProvisionOK(r)
  BY <1>1 DEF ProvisionOK, ToOrder
<1> QED
  BY <1>2, <1>3 DEF RequestOK

-----------------------------------------------------------------------------
(* A request is answered once.                                             *)

AnswerKept(r) == reply[r] # "none" => reply'[r] = reply[r]

LEMMA FirstAnswer ==
  ASSUME TypeOK, NEW r \in Requests,
         \/ \E step : Await(r, step)
         \/ \E code : Fail(r, code)
         \/ reply[r] = "none" /\ \E step, answer : Moves(r, step, answer)
         \/ reply[r] = "none" /\ \E code : Answer(r, code)
  PROVE  \A q \in Requests : AnswerKept(q)
<1>1. CASE \E step : Await(r, step)
  BY <1>1 DEF Await, AnswerKept
<1>2. CASE \E code : Fail(r, code)
  BY <1>2 DEF Fail, TypeOK, AnswerKept
<1>3. CASE reply[r] = "none" /\ \E step, answer : Moves(r, step, answer)
  BY <1>3 DEF Moves, TypeOK, AnswerKept
<1>4. CASE reply[r] = "none" /\ \E code : Answer(r, code)
  BY <1>4 DEF Answer, TypeOK, AnswerKept
<1> QED
  BY <1>1, <1>2, <1>3, <1>4

LEMMA AnswerStep ==
  ASSUME TypeOK, RecordsOK, [Next]_vars
  PROVE  \A q \in Requests : AnswerKept(q)
<1> USE FirstAnswer
<1>1. CASE UNCHANGED vars \/ Crash
  BY <1>1 DEF vars, Crash, AnswerKept
<1>2. ASSUME NEW r \in Requests, Receive(r) PROVE \A q \in Requests : AnswerKept(q)
  <2>1. reply[r] = "none" \/ ReceiveSubmitBilling(r)
    <3>1. RequestOK(r) /\ (pc[r] = "idle" \/ ReceiveSubmitBilling(r))
      BY <1>2 DEF RecordsOK, Receive, ReceiveProvision, ReceiveDeprovision, MaySend
    <3> QED
      BY <3>1 DEF RequestOK, HandlerOK, DeprovisionSteps
  <2>2. CASE ReceiveProvision(r)
    BY <2>2 DEF ReceiveProvision
  <2>3. CASE ReceiveSubmitBilling(r)
    BY <2>3 DEF ReceiveSubmitBilling
  <2>4. CASE ReceiveDeprovision(r) /\ reply[r] = "none"
    <3>1. Moves(r, "lookup", "202") \/ Answer(r, "422")
      BY <2>4 DEF ReceiveDeprovision, Moves
    <3> QED
      BY <2>4, <3>1
  <2> QED
    BY <1>2, <2>1, <2>2, <2>3, <2>4 DEF Receive
<1>3. ASSUME NEW r \in Requests, Resume(r) PROVE \A q \in Requests : AnswerKept(q)
  <2>1. CASE CatalogAnswers(r) \/ CreateCustomer(r) \/ CreateLicense(r) \/ CreateAuthorizationCode(r)
    BY <2>1 DEF CatalogAnswers, CreateCustomer, CreateLicense, CreateAuthorizationCode
  <2>2. CASE SaveInstance(r)
    BY <2>2, SavedIsNew DEF SaveInstance
  <2>3. CASE LookupInstance(r) \/ FetchToken(r) \/ PickInstance(r)
    BY <2>3 DEF LookupInstance, FetchToken, PickInstance
  <2>4. CASE SendUsage(r)
    <3>1. op[r] # "deprovision" => reply[r] = "none"
      BY <2>4 DEF SendUsage, RecordsOK, RequestOK, HandlerOK, DeprovisionSteps
    <3> QED
      BY <2>4, <3>1 DEF SendUsage, UsageSent
  <2>5. CASE DeleteLicense(r) \/ DeleteRows(r)
    BY <2>5 DEF DeleteLicense, DeleteRows
  <2>6. CASE ClearStatus(r)
    BY <2>6 DEF ClearStatus, AnswerKept
  <2> QED
    BY <1>3, <2>1, <2>2, <2>3, <2>4, <2>5, <2>6 DEF Resume
<1> QED
  BY <1>1, <1>2, <1>3 DEF Next

(* A request is answered once, whatever overlaps, fails or restarts.       *)
THEOREM EveryRequestIsAnsweredOnce == Spec => AnswerOnce
<1> DEFINE Inv == TypeOK /\ RecordsOK
<1>1. Init => Inv
  BY TypeInit, RecordsInit
<1>2. Inv /\ [Next]_vars => Inv'
  BY TypeStep, RecordsStep
<1>3. Inv /\ [Next]_vars => [\A r \in Requests : reply[r] # "none" => reply'[r] = reply[r]]_vars
  BY AnswerStep DEF AnswerKept
<1> QED
  BY <1>1, <1>2, <1>3, PTL DEF Spec, AnswerOnce

-----------------------------------------------------------------------------
(* What a PUT has provisioned stays until a DELETE of the same instance.   *)

(* The instance of r has been asked to be deleted.                         *)
Condemned(r) ==
  \E d \in Requests : op[d] = "deprovision" /\ inst[d] = inst[r] /\ reply[d] = "202"

Intact(r) == row[r] = "stored" /\ \A p \in Products : license[<<r, p>>] = "live"

LEMMA CondemnedForGood ==
  ASSUME TypeOK, RecordsOK, [Next]_vars, NEW r \in Requests, Condemned(r)
  PROVE  Condemned(r)'
<1>1. \A q \in Requests : AnswerKept(q)
  BY AnswerStep
<1>2. UNCHANGED workload
  BY DEF Next, vars, workload
<1> QED
  BY <1>1, <1>2 DEF Condemned, AnswerKept, workload

(* Only a DELETE of its own instance touches what has been provisioned.    *)
LEMMA TouchedIsCondemned ==
  ASSUME TypeOK, RecordsOK, [Next]_vars, NEW r \in Requests, Intact(r), ~Intact(r)'
  PROVE  Condemned(r)
<1>1. row[r] = "stored"
  BY DEF Intact
<1>2. ~UNCHANGED <<row, license>>
  BY DEF Intact
<1>3. PICK d \in Requests :
        CreateLicense(d) \/ SaveInstance(d) \/ DeleteLicense(d) \/ DeleteRows(d)
  BY <1>2, TouchingSteps
<1>4. CASE CreateLicense(d)
  BY <1>1, <1>4, OrderIsNew DEF CreateLicense, Intact
<1>5. CASE SaveInstance(d)
  <2>1. row[d] = "none" /\ UNCHANGED license /\ row' \in {row, [row EXCEPT ![d] = "stored"]}
    BY <1>5, SavedIsNew
  <2> QED
    BY <1>1, <2>1 DEF Intact, TypeOK
<1>6. CASE DeleteLicense(d)
  <2>1. found[d] = r
    <3>1. /\ UNCHANGED row /\ NextProduct(todo[d]) \in Products
          /\ \/ UNCHANGED license
             \/ license' = [license EXCEPT ![<<found[d], NextProduct(todo[d])>>] = "freed"]
      BY <1>6, DeletedIsOwn
    <3> QED
      BY <3>1 DEF Intact, TypeOK, Licenses
  <2> QED
    BY <1>6, <2>1, DeletedIsOwn DEF Condemned
<1>7. CASE DeleteRows(d)
  <2>1. inst[r] = inst[d]
    BY <1>1, <1>7 DEF DeleteRows, RowsOf, Intact
  <2>2. op[d] = "deprovision" /\ reply[d] = "202"
    BY <1>7 DEF DeleteRows, RecordsOK, RequestOK, HandlerOK, DeprovisionSteps, SubmitSteps
  <2> QED
    BY <2>1, <2>2 DEF Condemned
<1> QED
  BY <1>3, <1>4, <1>5, <1>6, <1>7

(* A PUT succeeds by saving its row, when all its licenses are ordered.    *)
LEMMA SuccessIsIntact ==
  ASSUME TypeOK, RecordsOK, [Next]_vars, NEW r \in Requests, op[r] = "provision",
         reply[r] # "200", reply'[r] = "200"
  PROVE  Intact(r)'
<1>1. ASSUME NEW d \in Requests, NEW code \in {"404", "500"}, Fail(d, code) PROVE FALSE
  BY <1>1 DEF Fail, TypeOK
<1>2. ASSUME NEW d \in Requests, NEW step, Await(d, step) PROVE FALSE
  BY <1>2 DEF Await
<1>3. ASSUME NEW d \in Requests, Answer(d, "422") PROVE FALSE
  BY <1>3 DEF Answer, TypeOK
<1>4. PICK d \in Requests : Receive(d) \/ Resume(d)
  BY DEF Next, vars, Crash
<1>5. ~Receive(d)
  BY <1>1, <1>2, <1>3 DEF Receive, ReceiveProvision, ReceiveDeprovision, ReceiveSubmitBilling, TypeOK
<1>6. SaveInstance(d) \/ SendUsage(d)
  BY <1>1, <1>2, <1>4, <1>5 DEF Resume, CatalogAnswers, CreateCustomer, CreateLicense,
     CreateAuthorizationCode, LookupInstance, FetchToken, DeleteLicense, DeleteRows, ClearStatus,
     PickInstance
<1>7. /\ Answer(d, "200")
      /\ SendUsage(d) \/ (SaveInstance(d) /\ row' = [row EXCEPT ![d] = "stored"])
  BY <1>1, <1>2, <1>6 DEF SaveInstance, SendUsage, UsageSent
<1>8. d = r
  BY <1>7 DEF Answer, TypeOK
<1>9. ~SendUsage(r)
  BY DEF SendUsage, RecordsOK, RequestOK, HandlerOK, SubmitSteps
<1>10. SaveInstance(r) /\ row' = [row EXCEPT ![r] = "stored"]
  BY <1>7, <1>8, <1>9
<1>11. UNCHANGED license /\ \A p \in Products : license[<<r, p>>] = "live"
  BY <1>10, SavedIsNew
<1> QED
  BY <1>10, <1>11 DEF Intact, TypeOK

LEMMA ProvisionedStep ==
  ASSUME TypeOK, RecordsOK, ProvisionedUntilDeprovisioned, [Next]_vars
  PROVE  ProvisionedUntilDeprovisioned'
<1> SUFFICES ASSUME NEW r \in Requests, op[r] = "provision", reply'[r] = "200",
                    ~Intact(r)'
             PROVE  Condemned(r)'
  <2>1. op' = op
    BY DEF Next, vars, workload
  <2> QED
    BY <2>1 DEF ProvisionedUntilDeprovisioned, Intact, Condemned
<1>1. CASE reply[r] = "200"
  <2>1. Intact(r) \/ Condemned(r)
    BY <1>1 DEF ProvisionedUntilDeprovisioned, Intact, Condemned
  <2> QED
    BY <2>1, TouchedIsCondemned, CondemnedForGood
<1>2. CASE reply[r] # "200"
  BY <1>2, SuccessIsIntact
<1> QED
  BY <1>1, <1>2

(* A successful PUT leaves a row and its licenses, and nothing but a       *)
(* DELETE of that instance takes them away: for any number of overlapping  *)
(* and repeated requests, submissions, failures and restarts.              *)
THEOREM AlwaysProvisionedUntilDeprovisioned == Spec => []ProvisionedUntilDeprovisioned
<1> DEFINE Inv == TypeOK /\ RecordsOK /\ ProvisionedUntilDeprovisioned
<1>1. Init => Inv
  BY TypeInit, RecordsInit DEF Init, ProvisionedUntilDeprovisioned
<1>2. Inv /\ [Next]_vars => Inv'
  BY TypeStep, RecordsStep, ProvisionedStep
<1> QED
  BY <1>1, <1>2, PTL DEF Spec
=============================================================================
