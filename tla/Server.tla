-------------------------------- MODULE Server --------------------------------
(***************************************************************************)
(* The process that serves the broker, and whom it lets in: startServer,   *)
(* its end and its restart, the public keys of IAM that the Authenticator  *)
(* fetches at the start and every twenty minutes, the API keys of the      *)
(* administrators, and the authorization of a request by either.           *)
(*                                                                         *)
(* The key fetches have no timeout, so that refreshes overlap and their    *)
(* answers may arrive in any order.  IAM rotates its keys: a rotation is a *)
(* version, and version v of the key set has the keys v-1 and v.           *)
(***************************************************************************)
EXTENDS Naturals, Sequences

CONSTANTS
  Requests,      \* the HTTP requests of a behaviour; each is sent at most once
  Identities,    \* the IAM ids there are, each a sequence of its parts
  Allowlist,     \* the ids BROKER_BEARER_IDENTITIES lists
  ApiKeys,       \* the API keys the gen-api-key script is run for
  Refreshes,     \* bound on the refreshes that overlap
  MaxVersion,    \* bound on the versions of the IAM keys
  MaxFaults      \* bound on the calls that fail and the exceptions nobody catches

ASSUME ConstantsAssumption ==
  /\ \A id \in Identities \cup Allowlist : id \in Seq(STRING)
  /\ MaxVersion \in Nat \ {0}
  /\ MaxFaults \in Nat

VARIABLES
  production,  \* is NODE_ENV "production"?  Fixed when the behaviour starts
  phase,       \* the await startServer is suspended at, "listening" or "down"
  publicKeys,  \* the version of the keys the Authenticator holds, 0 for none
  asked,       \* asked[f]: the version published when refresh f was sent, 0 if idle
  published,   \* the version of the keys IAM publishes
  faults,      \* how many calls have failed
  (* Requests.                                                             *)
  pc,          \* pc[r]: the await its authorization is suspended at
  cred,        \* cred[r]: the route and the credential it was sent with
  reply,       \* reply[r]: the status, "pass" when its handler is called
  (* API keys.                                                             *)
  stored,      \* the api_key rows
  handed,      \* the keys that were printed for an administrator
  (* History.                                                              *)
  since,       \* the version published when the keys in use were asked for
  current      \* current[r]: r may expect to be known, see Current

process  == <<production, phase, publicKeys, asked, since>>
requests == <<pc, cred, reply, current>>
keys     == <<stored, handed>>
vars     == <<production, phase, publicKeys, asked, published, faults,
              pc, cred, reply, stored, handed, since, current>>

Routes == {"broker", "admin"}

(* What a request is for, and what it shows: nothing, a password, a token  *)
(* of IAM, an API key, or a string that is none.  Genuine: the signature   *)
(* of the token, or the secret of the API key, is right.                   *)
Credentials ==
  [route : Routes, scheme : {"none", "basic", "malformed"}]
    \cup [route : Routes, scheme : {"bearer"}, key : 1..MaxVersion, id : Identities,
          genuine : BOOLEAN]
    \cup [route : Routes, scheme : {"apikey"}, key : ApiKeys, genuine : BOOLEAN]

Unsent == [route |-> "none", scheme |-> "none"]

Init ==
  /\ production \in BOOLEAN
  /\ phase = "down"
  /\ publicKeys = 0
  /\ asked = [f \in Refreshes |-> 0]
  /\ published = 1
  /\ faults = 0
  /\ pc = [r \in Requests |-> "idle"]
  /\ cred = [r \in Requests |-> Unsent]
  /\ reply = [r \in Requests |-> "none"]
  /\ stored = {}
  /\ handed = {}
  /\ since = 0
  /\ current = [r \in Requests |-> FALSE]

-----------------------------------------------------------------------------
(* The process.                                                            *)

Fault == faults < MaxFaults /\ faults' = faults + 1

(* process.exit(1): memory and open requests are lost.                     *)
Exit ==
  /\ Fault
  /\ phase' = "down"
  /\ publicKeys' = 0
  /\ asked' = [f \in Refreshes |-> 0]
  /\ since' = 0
  /\ pc' = [r \in Requests |-> IF pc[r] = "idle" THEN "idle" ELSE "done"]
  /\ UNCHANGED <<production, cred, reply, current>>

(* The platform starts the process again whenever it has ended.            *)
StartServer ==
  /\ phase = "down"
  /\ phase' = "database"
  /\ UNCHANGED <<production, publicKeys, asked, since, published, faults, requests, keys>>

(* A mutation: Authenticator.build does not wait for the keys.             *)
DatabaseUnawaited ==
  /\ phase = "database"
  /\ \/ /\ phase' = "listening"
        /\ since' = IF production THEN published ELSE 0
        /\ UNCHANGED <<production, publicKeys, asked, faults, requests>>
     \/ Exit
  /\ UNCHANGED <<published, keys>>

(* AppDataSource.initialize; then the billing job is started and the       *)
(* routes are built.  In production that asks for the keys of IAM, and     *)
(* waits for them.                                                         *)
DatabaseConnects ==
  /\ phase = "database"
  /\ \/ /\ phase' = IF production THEN "keys" ELSE "listening"
        /\ since' = IF production THEN published ELSE 0
        /\ UNCHANGED <<production, publicKeys, asked, faults, requests>>
     \/ Exit
  /\ UNCHANGED <<published, keys>>

(* The keys as they are published at some time since they were asked for;  *)
(* or an answer without keys, which is taken for none.                     *)
Receive(version) ==
  \/ /\ \E v \in version..published : publicKeys' = v
     /\ since' = version
     /\ UNCHANGED faults
  \/ Fault /\ publicKeys' = 0 /\ since' = 0

(* Authenticator.build has the keys: the timer is set and the port opened. *)
FirstKeysArrive ==
  /\ phase = "keys"
  /\ \/ /\ Receive(since)
        /\ phase' = "listening"
        /\ UNCHANGED <<production, asked, requests>>
     \/ Exit
  /\ UNCHANGED <<published, keys>>

(* Mutations: keys are only fetched when there are none; the interval is   *)
(* set before the first keys are there.                                    *)
TimerIfEmpty(f) ==
  /\ phase = "listening" /\ production
  /\ publicKeys = 0
  /\ asked[f] = 0
  /\ asked' = [asked EXCEPT ![f] = published]
  /\ UNCHANGED <<production, phase, publicKeys, since, published, faults, requests, keys>>

TimerEarly(f) ==
  /\ phase \in {"keys", "listening"} /\ production
  /\ asked[f] = 0
  /\ asked' = [asked EXCEPT ![f] = published]
  /\ UNCHANGED <<production, phase, publicKeys, since, published, faults, requests, keys>>

(* The interval of init, which nothing ever clears.                        *)
TimerFires(f) ==
  /\ phase = "listening" /\ production
  /\ asked[f] = 0
  /\ asked' = [asked EXCEPT ![f] = published]
  /\ UNCHANGED <<production, phase, publicKeys, since, published, faults, requests, keys>>

(* The answer to a refresh, in any order; a failed refresh is an unhandled *)
(* rejection.                                                              *)
KeysArrive(f) ==
  /\ asked[f] # 0
  /\ \/ /\ Receive(asked[f])
        /\ asked' = [asked EXCEPT ![f] = 0]
        /\ UNCHANGED <<production, phase, requests>>
     \/ Exit
  /\ UNCHANGED <<published, keys>>

(* An exception nobody catches, wherever it is thrown: the constructor's   *)
(* call of getCatalog, the port, a handler.                                *)
Uncaught ==
  /\ phase # "down"
  /\ Exit
  /\ UNCHANGED <<published, keys>>

Rotate ==
  /\ published < MaxVersion
  /\ published' = published + 1
  /\ UNCHANGED <<process, faults, requests, keys>>

-----------------------------------------------------------------------------
(* The script gen-api-key.                                                 *)

(* A mutation: generate does not wait for the row.                         *)
PrintUnawaited(k) ==
  /\ k \notin handed
  /\ handed' = handed \cup {k}
  /\ UNCHANGED <<process, published, faults, requests, stored>>

SaveApiKey(k) ==
  /\ k \notin stored
  /\ stored' = stored \cup {k}
  /\ UNCHANGED <<process, published, faults, requests, handed>>

PrintApiKey(k) ==
  /\ k \in stored \ handed
  /\ handed' = handed \cup {k}
  /\ UNCHANGED <<process, published, faults, requests, stored>>

-----------------------------------------------------------------------------
(* Requests.                                                               *)

KeySet(version) == {version - 1, version} \ {0}

(* The constructor of Authenticator puts a prefix before every id.         *)
AllowlistedIds == {<<"crn-">> \o id : id \in Allowlist}

(* verifyJWT: a key of the token's kid, and a signature made with it.      *)
VerifyJWT(c) == c.key \in KeySet(publicKeys) /\ c.genuine

AuthorizeBearerCredential(c) == VerifyJWT(c) /\ c.id \in AllowlistedIds

(* Which authorizeRequest is before the route.                             *)
ByApiKey(c) == c.route = "admin" \/ ~production

(* Did the sender have a genuine credential of the kind the route wants,   *)
(* signed with the newest key when no keys were rotated since the broker   *)
(* asked for the ones it uses, or an API key that was printed?             *)
Current(c) ==
  IF ByApiKey(c)
    THEN c.scheme = "apikey" /\ c.key \in handed /\ c.genuine
    ELSE c.scheme = "bearer" /\ c.key = published /\ since = published /\ c.genuine

(* Authenticator.authorizeRequest: no await.                               *)
AuthorizeByToken(r, c) ==
  /\ pc' = [pc EXCEPT ![r] = "done"]
  /\ reply' = [reply EXCEPT ![r] =
       IF c.scheme # "bearer" THEN "401"
       ELSE IF AuthorizeBearerCredential(c) THEN "pass" ELSE "403"]

(* AdminAuthenticator.authorizeRequest, up to the first await of validate. *)
AuthorizeByApiKey(r, c) ==
  LET known == c.scheme = "apikey"
  IN /\ pc' = [pc EXCEPT ![r] = IF known THEN "lookup" ELSE "done"]
     /\ reply' = [reply EXCEPT ![r] =
          IF known THEN "none" ELSE IF c.scheme = "malformed" THEN "404" ELSE "401"]

Send(r) ==
  /\ phase = "listening"
  /\ pc[r] = "idle"
  /\ \E c \in Credentials :
       /\ c.scheme = "bearer" => c.key <= published
       /\ cred' = [cred EXCEPT ![r] = c]
       /\ current' = [current EXCEPT ![r] = Current(c)]
       /\ IF ByApiKey(c) THEN AuthorizeByApiKey(r, c) ELSE AuthorizeByToken(r, c)
  /\ UNCHANGED <<process, published, faults, keys>>

Settle(r, code) ==
  /\ pc' = [pc EXCEPT ![r] = "done"]
  /\ reply' = [reply EXCEPT ![r] = code]

(* A failed call of the database counts as an unknown key.                 *)
FailValidation(r) ==
  /\ Fault
  /\ Settle(r, "404")
  /\ current' = [current EXCEPT ![r] = FALSE]

(* validate: the row of the key's uuid.                                    *)
FindApiKey(r) ==
  /\ pc[r] = "lookup"
  /\ \/ /\ IF cred[r].key \in stored
             THEN pc' = [pc EXCEPT ![r] = "compare"] /\ UNCHANGED reply
             ELSE Settle(r, "404")
        /\ UNCHANGED <<current, faults>>
     \/ FailValidation(r)
  /\ UNCHANGED <<process, published, keys, cred>>

(* validate: the hash of the row against the secret.                       *)
CompareHash(r) ==
  /\ pc[r] = "compare"
  /\ \/ Settle(r, IF cred[r].genuine THEN "pass" ELSE "404") /\ UNCHANGED <<current, faults>>
     \/ FailValidation(r)
  /\ UNCHANGED <<process, published, keys, cred>>

-----------------------------------------------------------------------------

StartUp == StartServer \/ DatabaseConnects \/ FirstKeysArrive

Tick == \E f \in Refreshes : TimerFires(f)

Next ==
  \/ StartUp
  \/ Tick
  \/ Uncaught
  \/ Rotate
  \/ \E f \in Refreshes : KeysArrive(f)
  \/ \E k \in ApiKeys : SaveApiKey(k) \/ PrintApiKey(k)
  \/ \E r \in Requests : Send(r) \/ FindApiKey(r) \/ CompareHash(r)

Spec == Init /\ [][Next]_vars

(* The process is started again, every call is answered or fails, and the  *)
(* interval goes on.  Nobody is obliged to send a request or to rotate.    *)
Fairness ==
  /\ WF_vars(StartUp)
  /\ WF_vars(Tick)
  /\ \A f \in Refreshes : WF_vars(KeysArrive(f))

FairSpec == Spec /\ Fairness

-----------------------------------------------------------------------------
(* Properties.                                                             *)

(* Types; calls of a listening server are the only ones in flight, and a   *)
(* server that is not in production knows no keys of IAM.                  *)
TypeOK ==
  /\ production \in BOOLEAN
  /\ phase \in {"down", "database", "keys", "listening"}
  /\ publicKeys \in 0..MaxVersion
  /\ asked \in [Refreshes -> 0..MaxVersion]
  /\ published \in 1..MaxVersion
  /\ faults \in 0..MaxFaults
  /\ pc \in [Requests -> {"idle", "lookup", "compare", "done"}]
  /\ cred \in [Requests -> Credentials \cup {Unsent}]
  /\ reply \in [Requests -> {"none", "pass", "401", "403", "404"}]
  /\ stored \subseteq ApiKeys
  /\ handed \subseteq ApiKeys
  /\ since \in 0..MaxVersion
  /\ current \in [Requests -> BOOLEAN]
  /\ phase # "listening" =>
       /\ \A f \in Refreshes : asked[f] = 0
       /\ \A r \in Requests : pc[r] \in {"idle", "done"}
  /\ ~production => publicKeys = 0 /\ \A f \in Refreshes : asked[f] = 0

(* A genuine token of an id the broker knows is let in when no keys were   *)
(* rotated since the ones in use were asked for: from the first request    *)
(* the port accepts, and whatever refreshes overlap or process restarts.   *)
TokenIsLetIn ==
  \A r \in Requests :
    /\ current[r] /\ reply[r] # "none"
    /\ cred[r].scheme = "bearer" /\ cred[r].id \in AllowlistedIds
    => reply[r] = "pass"

(* An administrator may use an API key as soon as it is printed: unless a  *)
(* call of the database fails it is never answered with 404.               *)
ApiKeyIsLetIn ==
  \A r \in Requests :
    current[r] /\ reply[r] # "none" /\ cred[r].scheme = "apikey" => reply[r] = "pass"

(* The ids an operator lists in BROKER_BEARER_IDENTITIES are let in.       *)
ListedIsLetIn ==
  \A r \in Requests :
    current[r] /\ cred[r].scheme = "bearer" /\ cred[r].id \in Allowlist => reply[r] # "403"

(* When the faults and the rotations end, the server ends up listening,    *)
(* with the keys IAM publishes: an old answer that overtakes a newer one,  *)
(* an answer without keys or a restart costs no more than time.            *)
CatchesUp == <>[](phase = "listening" /\ (production => publicKeys = published))
=============================================================================
