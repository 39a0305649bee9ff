----------------------------- MODULE ServerProofs -----------------------------
(***************************************************************************)
(* Whom the server lets in, for any number of requests, identities, API    *)
(* keys, overlapping refreshes and rotations, and whatever fails.          *)
(***************************************************************************)
EXTENDS Server, TLAPS

(* What the keys in use are: no newer than the published ones, and, once   *)
(* the port is open, no older than what was published when they were asked *)
(* for, unless an answer without keys has come.                            *)
KeysAreDated ==
  /\ since \in 0..published
  /\ publicKeys \in 0..published
  /\ \A f \in Refreshes : asked[f] \in 0..published
  /\ phase = "keys" => production /\ since # 0
  /\ phase = "listening" /\ since # 0 => since <= publicKeys

(* A request that waits for the database has shown an API key, and is not  *)
(* answered; one that may expect to be known has a key that is stored.     *)
KeysAreStored ==
  /\ handed \subseteq stored
  /\ \A r \in Requests :
       /\ pc[r] \in {"lookup", "compare"} => cred[r].scheme = "apikey"
       /\ current[r] /\ cred[r].scheme = "apikey" =>
            cred[r].key \in stored /\ cred[r].genuine

Inv == TypeOK /\ KeysAreDated /\ KeysAreStored /\ TokenIsLetIn /\ ApiKeyIsLetIn

(* The part of the invariant that is about requests.                       *)
RequestsOK == KeysAreStored /\ TokenIsLetIn /\ ApiKeyIsLetIn

LEMMA InvInit == Init => Inv
<1> SUFFICES ASSUME Init PROVE Inv
  OBVIOUS
<1> USE ConstantsAssumption DEF Init
<1>1. TypeOK
  BY DEF TypeOK, Unsent
<1>2. KeysAreDated
  BY DEF KeysAreDated
<1>3. KeysAreStored /\ TokenIsLetIn /\ ApiKeyIsLetIn
  BY DEF KeysAreStored, TokenIsLetIn, ApiKeyIsLetIn
<1> QED
  BY <1>1, <1>2, <1>3 DEF Inv

(* Requests that are not touched, or only cut off, stay as they are.       *)
LEMMA RequestsStay ==
  ASSUME RequestsOK, UNCHANGED <<cred, reply, current>>, stored \subseteq stored',
         handed' \subseteq stored',
         \A r \in Requests : pc'[r] \in {pc[r], "idle", "done"}
  PROVE  RequestsOK'
<1>1. KeysAreStored'
  BY DEF RequestsOK, KeysAreStored
<1>2. AllowlistedIds' = AllowlistedIds
  BY DEF AllowlistedIds
<1>3. TokenIsLetIn'
  BY <1>2 DEF RequestsOK, TokenIsLetIn
<1>4. ApiKeyIsLetIn'
  BY DEF RequestsOK, ApiKeyIsLetIn
<1> QED
  BY <1>1, <1>3, <1>4 DEF RequestsOK

LEMMA Faults == ASSUME TypeOK, Fault PROVE faults' \in 0..MaxFaults
  BY ConstantsAssumption DEF TypeOK, Fault

(* The end of the process.                                                 *)
LEMMA ExitKeepsInv ==
  ASSUME Inv, Exit, UNCHANGED <<published, keys>> PROVE Inv'
<1>1. TypeOK'
  <2>1. faults' \in 0..MaxFaults
    BY Faults DEF Inv, Exit
  <2>2. /\ pc' \in [Requests -> {"idle", "lookup", "compare", "done"}]
        /\ \A r \in Requests : pc'[r] \in {"idle", "done"}
    BY DEF Exit
  <2>3. /\ asked' \in [Refreshes -> 0..MaxVersion]
        /\ \A f \in Refreshes : asked'[f] = 0
    BY ConstantsAssumption DEF Exit
  <2> QED
    BY <2>1, <2>2, <2>3, ConstantsAssumption DEF Inv, TypeOK, Exit, keys
<1>2. KeysAreDated'
  BY ConstantsAssumption DEF Inv, TypeOK, KeysAreDated, Exit
<1>3. RequestsOK'
  BY RequestsStay DEF Inv, RequestsOK, TypeOK, KeysAreStored, Exit, keys
<1> QED
  BY <1>1, <1>2, <1>3 DEF Inv, RequestsOK

(* A step that is not about requests or keys needs only its effect on the  *)
(* process to be looked at.                                                *)
LEMMA ProcessStep ==
  ASSUME Inv, TypeOK', KeysAreDated', UNCHANGED <<requests, keys>> PROVE Inv'
<1>1. RequestsOK'
  BY RequestsStay DEF Inv, RequestsOK, TypeOK, KeysAreStored, requests, keys
<1> QED
  BY <1>1 DEF Inv, RequestsOK

(* What Receive does to the keys, when it was asked for a version.         *)
LEMMA ReceiveDates ==
  ASSUME TypeOK, NEW v \in 1..published, Receive(v)
  PROVE  /\ publicKeys' \in 0..published
         /\ since' \in 0..published
         /\ since' # 0 => since' <= publicKeys'
         /\ faults' \in 0..MaxFaults
<1>1. published \in Nat /\ v \in Nat
  BY ConstantsAssumption DEF TypeOK
<1>2. CASE (\E w \in v..published : publicKeys' = w) /\ since' = v /\ UNCHANGED faults
  BY <1>1, <1>2 DEF TypeOK
<1>3. CASE Fault /\ publicKeys' = 0 /\ since' = 0
  BY <1>1, <1>3, Faults
<1> QED
  BY <1>2, <1>3 DEF Receive

LEMMA StartServerKeepsInv == ASSUME Inv, StartServer PROVE Inv'
<1>1. TypeOK'
  BY DEF Inv, TypeOK, StartServer, requests, keys
<1>2. KeysAreDated'
  BY DEF Inv, KeysAreDated, StartServer
<1> QED
  BY <1>1, <1>2, ProcessStep DEF StartServer

LEMMA DatabaseConnectsKeepsInv == ASSUME Inv, DatabaseConnects PROVE Inv'
<1>1. CASE Exit
  BY <1>1, ExitKeepsInv DEF DatabaseConnects
<1>2. CASE /\ phase' = IF production THEN "keys" ELSE "listening"
           /\ since' = IF production THEN published ELSE 0
           /\ UNCHANGED <<production, publicKeys, asked, faults, requests>>
  <2>1. published \in 1..MaxVersion /\ published \in Nat /\ published # 0
    BY ConstantsAssumption DEF Inv, TypeOK
  <2>2. since' \in 0..MaxVersion /\ since' \in 0..published
    BY <1>2, <2>1, ConstantsAssumption DEF Inv, TypeOK
  <2>3. TypeOK'
    BY <1>2, <2>2 DEF Inv, TypeOK, DatabaseConnects, requests, keys
  <2>4. KeysAreDated'
    BY <1>2, <2>1, <2>2 DEF Inv, TypeOK, KeysAreDated, DatabaseConnects
  <2> QED
    BY <1>2, <2>3, <2>4, ProcessStep DEF DatabaseConnects
<1> QED
  BY <1>1, <1>2 DEF DatabaseConnects

LEMMA FirstKeysArriveKeepsInv == ASSUME Inv, FirstKeysArrive PROVE Inv'
<1>1. CASE Exit
  BY <1>1, ExitKeepsInv DEF FirstKeysArrive
<1>2. CASE Receive(since) /\ phase' = "listening" /\ UNCHANGED <<production, asked, requests>>
  <2>1. published \in Nat /\ MaxVersion \in Nat /\ published <= MaxVersion
    BY ConstantsAssumption DEF Inv, TypeOK
  <2>2. since \in 1..published /\ production
    BY <2>1 DEF Inv, KeysAreDated, FirstKeysArrive
  <2>3. /\ publicKeys' \in 0..published /\ since' \in 0..published
        /\ since' # 0 => since' <= publicKeys'
        /\ faults' \in 0..MaxFaults
    BY <1>2, <2>2, ReceiveDates DEF Inv
  <2>4. TypeOK'
    BY <1>2, <2>1, <2>2, <2>3 DEF Inv, TypeOK, FirstKeysArrive, requests, keys
  <2>5. KeysAreDated'
    BY <1>2, <2>3 DEF Inv, KeysAreDated, FirstKeysArrive
  <2> QED
    BY <1>2, <2>4, <2>5, ProcessStep DEF FirstKeysArrive
<1> QED
  BY <1>1, <1>2 DEF FirstKeysArrive

LEMMA TimerFiresKeepsInv ==
  ASSUME Inv, NEW f \in Refreshes, TimerFires(f) PROVE Inv'
<1>1. published \in 1..MaxVersion /\ published \in 0..published /\ published \in 0..MaxVersion
  BY ConstantsAssumption DEF Inv, TypeOK
<1>2. TypeOK'
  BY <1>1 DEF Inv, TypeOK, TimerFires, requests, keys
<1>3. KeysAreDated'
  BY <1>1 DEF Inv, TypeOK, KeysAreDated, TimerFires
<1> QED
  BY <1>2, <1>3, ProcessStep DEF TimerFires

LEMMA KeysArriveKeepsInv ==
  ASSUME Inv, NEW f \in Refreshes, KeysArrive(f) PROVE Inv'
<1>1. CASE Exit
  BY <1>1, ExitKeepsInv DEF KeysArrive
<1>2. CASE /\ Receive(asked[f])
           /\ asked' = [asked EXCEPT ![f] = 0]
           /\ UNCHANGED <<production, phase, requests>>
  <2>1. published \in Nat /\ MaxVersion \in Nat /\ published <= MaxVersion
    BY ConstantsAssumption DEF Inv, TypeOK
  <2>2. asked[f] \in 1..published /\ phase = "listening" /\ production
    BY <2>1 DEF Inv, TypeOK, KeysAreDated, KeysArrive
  <2>3. /\ publicKeys' \in 0..published /\ since' \in 0..published
        /\ since' # 0 => since' <= publicKeys'
        /\ faults' \in 0..MaxFaults
    BY <1>2, <2>2, ReceiveDates DEF Inv
  <2>4. TypeOK'
    BY <1>2, <2>1, <2>2, <2>3 DEF Inv, TypeOK, KeysArrive, requests, keys
  <2>5. KeysAreDated'
    BY <1>2, <2>1, <2>2, <2>3 DEF Inv, TypeOK, KeysAreDated, KeysArrive
  <2> QED
    BY <1>2, <2>4, <2>5, ProcessStep DEF KeysArrive
<1> QED
  BY <1>1, <1>2 DEF KeysArrive

LEMMA RotateKeepsInv == ASSUME Inv, Rotate PROVE Inv'
<1>1. /\ published \in Nat /\ MaxVersion \in Nat /\ published' = published + 1
      /\ published' \in 1..MaxVersion
  BY ConstantsAssumption DEF Inv, TypeOK, Rotate
<1>2. TypeOK'
  BY <1>1 DEF Inv, TypeOK, Rotate, process, requests, keys
<1>3. KeysAreDated'
  BY <1>1 DEF Inv, TypeOK, KeysAreDated, Rotate, process
<1> QED
  BY <1>2, <1>3, ProcessStep DEF Rotate

(* The script stores a key, or prints one that is stored.                  *)
LEMMA ScriptKeepsInv ==
  ASSUME Inv, NEW k \in ApiKeys, SaveApiKey(k) \/ PrintApiKey(k) PROVE Inv'
<1> USE DEF SaveApiKey, PrintApiKey, process, requests
<1>1. TypeOK'
  BY DEF Inv, TypeOK
<1>2. KeysAreDated'
  BY DEF Inv, KeysAreDated
<1>3. RequestsOK'
  <2>1. stored \subseteq stored' /\ handed' \subseteq stored'
    BY DEF Inv, KeysAreStored
  <2> QED
    BY <2>1, RequestsStay DEF Inv, RequestsOK
<1> QED
  BY <1>1, <1>2, <1>3 DEF Inv, RequestsOK

(* A genuine token signed with the newest key is verified, when the keys   *)
(* in use were asked for since it is the newest.                           *)
LEMMA NewestIsVerified ==
  ASSUME Inv, phase = "listening", NEW c, c.key = published, since = published, c.genuine
  PROVE  VerifyJWT(c)
<1>1. published \in Nat /\ published # 0
  BY ConstantsAssumption DEF Inv, TypeOK
<1>2. publicKeys = published
  BY <1>1 DEF Inv, KeysAreDated
<1>3. published \in KeySet(publicKeys)
  BY <1>1, <1>2 DEF KeySet
<1> QED
  BY <1>3 DEF VerifyJWT

LEMMA SendKeepsInv == ASSUME Inv, NEW r \in Requests, Send(r) PROVE Inv'
<1>1. PICK c \in Credentials :
        /\ cred' = [cred EXCEPT ![r] = c]
        /\ current' = [current EXCEPT ![r] = Current(c)]
        /\ IF ByApiKey(c) THEN AuthorizeByApiKey(r, c) ELSE AuthorizeByToken(r, c)
  BY DEF Send
<1>2. /\ phase = "listening"
      /\ UNCHANGED <<production, phase, publicKeys, asked, since, published, faults, stored, handed>>
  BY DEF Send, process, keys
<1>3. Current(c) \in BOOLEAN
  BY DEF Current
<1>4. CASE ByApiKey(c)
  <2>1. AuthorizeByApiKey(r, c)
    BY <1>1, <1>4
  <2>2. TypeOK'
    BY <1>1, <1>2, <1>3, <2>1 DEF Inv, TypeOK, AuthorizeByApiKey
  <2>3. KeysAreDated'
    BY <1>2 DEF Inv, KeysAreDated
  <2>4. KeysAreStored'
    BY <1>1, <1>2, <1>4, <2>1 DEF Inv, TypeOK, KeysAreStored, AuthorizeByApiKey, Current
  <2>5. AllowlistedIds' = AllowlistedIds
    BY DEF AllowlistedIds
  <2>6. TokenIsLetIn'
    BY <1>1, <1>4, <2>1, <2>5 DEF Inv, TypeOK, TokenIsLetIn, AuthorizeByApiKey, Current
  <2>7. ApiKeyIsLetIn'
    BY <1>1, <1>4, <2>1 DEF Inv, TypeOK, ApiKeyIsLetIn, AuthorizeByApiKey, Current
  <2> QED
    BY <2>2, <2>3, <2>4, <2>6, <2>7 DEF Inv
<1>5. CASE ~ByApiKey(c)
  <2>1. AuthorizeByToken(r, c)
    BY <1>1, <1>5
  <2>2. TypeOK'
    BY <1>1, <1>2, <1>3, <2>1 DEF Inv, TypeOK, AuthorizeByToken
  <2>3. KeysAreDated'
    BY <1>2 DEF Inv, KeysAreDated
  <2>4. KeysAreStored'
    BY <1>1, <1>2, <1>5, <2>1 DEF Inv, TypeOK, KeysAreStored, AuthorizeByToken, Current
  <2>5. AllowlistedIds' = AllowlistedIds
    BY DEF AllowlistedIds
  <2>6. Current(c) /\ c.scheme = "bearer" /\ c.id \in AllowlistedIds => AuthorizeBearerCredential(c)
    BY <1>2, <1>5, NewestIsVerified DEF Current, AuthorizeBearerCredential
  <2>7. TokenIsLetIn'
    BY <1>1, <2>1, <2>5, <2>6 DEF Inv, TypeOK, TokenIsLetIn, AuthorizeByToken
  <2>8. ApiKeyIsLetIn'
    BY <1>1, <1>5, <2>1 DEF Inv, TypeOK, ApiKeyIsLetIn, AuthorizeByToken, Current
  <2> QED
    BY <2>2, <2>3, <2>4, <2>7, <2>8 DEF Inv
<1> QED
  BY <1>4, <1>5

(* Both awaits of validate: a request that may expect to be known goes on, *)
(* or is let in.                                                           *)
LEMMA ValidationKeepsInv ==
  ASSUME Inv, NEW r \in Requests, FindApiKey(r) \/ CompareHash(r) PROVE Inv'
<1>1. /\ pc[r] \in {"lookup", "compare"} /\ cred[r].scheme = "apikey"
      /\ phase = "listening"
      /\ UNCHANGED <<production, phase, publicKeys, asked, since, published, stored, handed, cred>>
  BY DEF Inv, TypeOK, KeysAreStored, FindApiKey, CompareHash, process, keys
<1>2. KeysAreDated'
  BY <1>1 DEF Inv, KeysAreDated
<1>3. AllowlistedIds' = AllowlistedIds
  BY DEF AllowlistedIds
<1>4. ASSUME Settle(r, "pass") \/ Settle(r, "404") \/
               (pc' = [pc EXCEPT ![r] = "compare"] /\ UNCHANGED reply),
             faults' \in 0..MaxFaults,
             \/ current' = current /\ (current[r] => ~Settle(r, "404"))
             \/ current' = [current EXCEPT ![r] = FALSE]
      PROVE  Inv'
  <2>1. TypeOK'
    BY <1>1, <1>4 DEF Inv, TypeOK, Settle
  <2>2. KeysAreStored'
    BY <1>1, <1>4 DEF Inv, TypeOK, KeysAreStored, Settle
  <2>3. TokenIsLetIn'
    BY <1>1, <1>3, <1>4 DEF Inv, TypeOK, TokenIsLetIn, Settle
  <2>4. ApiKeyIsLetIn'
    BY <1>1, <1>4 DEF Inv, TypeOK, ApiKeyIsLetIn, Settle
  <2> QED
    BY <1>2, <2>1, <2>2, <2>3, <2>4 DEF Inv
<1>5. CASE FailValidation(r)
  BY <1>4, <1>5, Faults DEF FailValidation, Inv
<1>6. CASE FindApiKey(r) /\ ~FailValidation(r)
  <2>1. faults' \in 0..MaxFaults /\ current' = current
    BY <1>6 DEF FindApiKey, Inv, TypeOK
  <2>2. current[r] => cred[r].key \in stored
    BY <1>1 DEF Inv, KeysAreStored
  <2>3. CASE cred[r].key \in stored
    <3>1. pc' = [pc EXCEPT ![r] = "compare"] /\ UNCHANGED reply
      BY <1>6, <2>3 DEF FindApiKey
    <3>2. ~Settle(r, "404")
      BY <3>1 DEF Settle, Inv, TypeOK
    <3> QED
      BY <1>4, <2>1, <3>1, <3>2
  <2>4. CASE cred[r].key \notin stored
    BY <1>4, <1>6, <2>1, <2>2, <2>4 DEF FindApiKey
  <2> QED
    BY <2>3, <2>4
<1>7. CASE CompareHash(r) /\ ~FailValidation(r)
  <2>1. faults' \in 0..MaxFaults /\ current' = current
    BY <1>7 DEF CompareHash, Inv, TypeOK
  <2>2. current[r] => cred[r].genuine
    BY <1>1 DEF Inv, KeysAreStored
  <2>3. Settle(r, IF cred[r].genuine THEN "pass" ELSE "404")
    BY <1>7 DEF CompareHash
  <2>4. CASE cred[r].genuine
    <3>1. Settle(r, "pass")
      BY <2>3, <2>4
    <3>2. ~Settle(r, "404")
      BY <3>1 DEF Settle, Inv, TypeOK
    <3> QED
      BY <1>4, <2>1, <3>1, <3>2
  <2>5. CASE ~cred[r].genuine
    BY <1>4, <2>1, <2>2, <2>3, <2>5
  <2> QED
    BY <2>4, <2>5
<1> QED
  BY <1>5, <1>6, <1>7

LEMMA InvStep == Inv /\ [Next]_vars => Inv'
<1> SUFFICES ASSUME Inv, [Next]_vars PROVE Inv'
  OBVIOUS
<1>1. CASE StartUp
  BY <1>1, StartServerKeepsInv, DatabaseConnectsKeepsInv, FirstKeysArriveKeepsInv DEF StartUp
<1>2. CASE Tick
  BY <1>2, TimerFiresKeepsInv DEF Tick
<1>3. CASE Uncaught
  BY <1>3, ExitKeepsInv DEF Uncaught
<1>4. CASE Rotate
  BY <1>4, RotateKeepsInv
<1>5. CASE \E f \in Refreshes : KeysArrive(f)
  BY <1>5, KeysArriveKeepsInv
<1>6. CASE \E k \in ApiKeys : SaveApiKey(k) \/ PrintApiKey(k)
  BY <1>6, ScriptKeepsInv
<1>7. CASE \E r \in Requests : Send(r) \/ FindApiKey(r) \/ CompareHash(r)
  BY <1>7, SendKeepsInv, ValidationKeepsInv
<1>8. CASE UNCHANGED vars
  <2>1. UNCHANGED <<process, published, faults, requests, keys>>
    BY <1>8 DEF vars, process, requests, keys
  <2>2. TypeOK' /\ KeysAreDated'
    BY <1>8 DEF vars, Inv, TypeOK, KeysAreDated
  <2> QED
    BY <2>1, <2>2, ProcessStep
<1> QED
  BY <1>1, <1>2, <1>3, <1>4, <1>5, <1>6, <1>7, <1>8 DEF Next

(* Every reachable state is well typed; a process that is not listening    *)
(* has no call in flight, and one that is not in production no IAM keys.   *)
THEOREM ServerTypeCorrect == Spec => []TypeOK
<1>1. Inv => TypeOK
  BY DEF Inv
<1> QED
  BY <1>1, InvInit, InvStep, PTL DEF Spec

(* A genuine token of a known id is let in, from the first request on,     *)
(* unless the keys were rotated since the ones in use were asked for.      *)
THEOREM TokenIsAlwaysLetIn == Spec => []TokenIsLetIn
<1>1. Inv => TokenIsLetIn
  BY DEF Inv
<1> QED
  BY <1>1, InvInit, InvStep, PTL DEF Spec

(* An API key works from the moment it is printed.                         *)
THEOREM ApiKeyIsAlwaysLetIn == Spec => []ApiKeyIsLetIn
<1>1. Inv => ApiKeyIsLetIn
  BY DEF Inv
<1> QED
  BY <1>1, InvInit, InvStep, PTL DEF Spec
=============================================================================
