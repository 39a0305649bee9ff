------------------------------ MODULE Billing ------------------------------
(***************************************************************************)
(* The monthly billing job of BillingServiceImpl, the administrator's      *)
(* retries of it, and the billing_failure table they share.                *)
(*                                                                         *)
(* The job writes the usage record of every instance into the table as a   *)
(* failure, sends the table to the usage API page by page, and replaces    *)
(* the table by what failed, up to three times.  A retry sends the same    *)
(* pages and writes nothing.  Every await is a point where the other, or   *)
(* the end of the process, may come in between; an action takes the answer *)
(* to one await together with the continuation up to the next.             *)
(***************************************************************************)
EXTENDS Naturals, Sequences, Functions

CONSTANTS
  Admins,        \* the POST /admin/retry-billing requests of a behaviour
  MaxInstances,  \* bound on the instances there are at a tick
  MaxMonths,     \* bound on the ticks
  Limit,         \* the page size of chunkRepository, 100 in the code
  Receiver,      \* what "this" is in billingJob: the service or the CronJob
  Crashes,       \* may the process exit and be restarted?
  ItemRejects,   \* may the usage API refuse records of a batch it accepts?
  AlertsFail     \* may the notification fail?

ASSUME ConstantsAssumption ==
  /\ "job" \notin Admins
  /\ MaxInstances \in Nat \ {0}
  /\ MaxMonths \in Nat
  /\ Limit \in Nat \ {0}
  /\ Receiver \in {"service", "cronjob"}
  /\ Crashes \in BOOLEAN
  /\ ItemRejects \in BOOLEAN
  /\ AlertsFail \in BOOLEAN

VARIABLES
  month,     \* how many times the job has been started
  table,     \* billing_failure: the payloads, by ascending id
  accepted,  \* the payloads the usage API has taken
  (* The job, and each retry.                                              *)
  pc,        \* pc[r]: the await that r is suspended at
  skip,      \* skip[r]: how many rows of the table r has read
  page,      \* page[r]: the rows it is sending
  failures,  \* failures[r]: what the pages it sent have failed with
  pending,   \* the failures the job has still to insert
  attempt,   \* the attempts the job has begun
  reply,     \* reply[a]: the HTTP status of a retry
  (* History.                                                              *)
  ran,       \* the last month the job listed the instances of
  due,       \* the payloads of that month
  alerted,   \* was a notification sent since the job was started?
  watched    \* watched[a]: the rows retry a found, unless the job ran meanwhile

attempting == <<skip, page, failures>>
history    == <<ran, due, alerted, watched>>
vars       == <<month, table, accepted, pc, skip, page, failures, pending,
                attempt, reply, ran, due, alerted, watched>>

-----------------------------------------------------------------------------

Runs == Admins \cup {"job"}

JobSteps     == {"find", "clear", "insert", "delay", "clear-all", "notify"}
AttemptSteps == {"token", "read", "send"}

Payloads == [month : 1..MaxMonths, instance : 1..MaxInstances]

(* The payloads for the n instances the table has at the tick of a month.  *)
Bills(m, n) == [k \in 1..n |-> [month |-> m, instance |-> k]]

Init ==
  /\ month = 0
  /\ table = <<>>
  /\ accepted = {}
  /\ pc = [r \in Runs |-> "idle"]
  /\ skip = [r \in Runs |-> 0]
  /\ page = [r \in Runs |-> <<>>]
  /\ failures = [r \in Runs |-> <<>>]
  /\ pending = <<>>
  /\ attempt = 0
  /\ reply = [a \in Admins |-> "none"]
  /\ ran = 0
  /\ due = {}
  /\ alerted = FALSE
  /\ watched = [a \in Admins |-> {}]

Await(r, step) == pc' = [pc EXCEPT ![r] = step]

-----------------------------------------------------------------------------
(* The end of an attempt, and of the job.                                  *)

EndJob ==
  /\ Await("job", "idle")
  /\ attempt' = 0
  /\ pending' = <<>>

(* A mutation: the job's catch block only logs.                            *)
FailQuietly ==
  /\ EndJob
  /\ skip' = [skip EXCEPT !["job"] = 0]
  /\ page' = [page EXCEPT !["job"] = <<>>]
  /\ failures' = [failures EXCEPT !["job"] = <<>>]

(* billingJob's catch block, for a failed query or token.                  *)
FailJob ==
  /\ Await("job", "notify")
  /\ pending' = <<>>
  /\ skip' = [skip EXCEPT !["job"] = 0]
  /\ page' = [page EXCEPT !["job"] = <<>>]
  /\ failures' = [failures EXCEPT !["job"] = <<>>]
  /\ UNCHANGED attempt

FailRetry(a) ==
  /\ Await(a, "done")
  /\ reply' = [reply EXCEPT ![a] = "500"]
  /\ skip' = [skip EXCEPT ![a] = 0]
  /\ page' = [page EXCEPT ![a] = <<>>]
  /\ failures' = [failures EXCEPT ![a] = <<>>]

FailAttempt(r) ==
  \/ r = "job" /\ FailJob /\ UNCHANGED reply
  \/ r # "job" /\ FailRetry(r) /\ UNCHANGED <<pending, attempt>>

(* A mutation: the table is cleared after an attempt, whatever failed.     *)
FinishClearing(r, failed) ==
  \/ /\ r = "job"
     /\ Await(r, "clear-all")
     /\ UNCHANGED <<pending, reply>>
  \/ /\ r # "job"
     /\ Await(r, "done")
     /\ reply' = [reply EXCEPT ![r] = IF failed = <<>> THEN "200" ELSE "500"]
     /\ UNCHANGED pending

(* What follows the last page: the job clears the table or refills it with *)
(* what failed; a retry answers.                                           *)
FinishAttempt(r, failed) ==
  \/ /\ r = "job"
     /\ Await(r, IF failed = <<>> THEN "clear-all" ELSE "clear")
     /\ pending' = failed
     /\ UNCHANGED reply
  \/ /\ r # "job"
     /\ Await(r, "done")
     /\ reply' = [reply EXCEPT ![r] = IF failed = <<>> THEN "200" ELSE "500"]
     /\ UNCHANGED pending

-----------------------------------------------------------------------------
(* attemptBilling, by the job or by a retry.                               *)

(* A retry begins with the token, as each attempt of the job does.         *)
ReceiveRetry(a) ==
  /\ pc[a] = "idle"
  /\ Await(a, "token")
  /\ watched' = [watched EXCEPT ![a] = IF pc["job"] = "idle" THEN Range(table) ELSE {}]
  /\ UNCHANGED <<month, table, accepted, attempting, pending, attempt, reply,
                 ran, due, alerted>>

FetchToken(r) ==
  /\ pc[r] = "token"
  /\ \/ /\ Await(r, "read")
        /\ UNCHANGED <<attempting, pending, attempt, reply>>
     \/ FailAttempt(r)
  /\ UNCHANGED <<month, table, accepted, history>>

(* chunkRepository: the next Limit rows after the ones it has skipped.     *)
ReadPage(r) ==
  /\ pc[r] = "read"
  /\ \/ /\ page' = [page EXCEPT ![r] = SubSeq(table, skip[r] + 1,
                      IF skip[r] + Limit < Len(table) THEN skip[r] + Limit ELSE Len(table))]
        /\ Await(r, "send")
        /\ UNCHANGED <<skip, failures, pending, attempt, reply>>
     \/ FailAttempt(r)
  /\ UNCHANGED <<month, table, accepted, history>>

(* A mutation: a full page is taken for the last one.                      *)
LastPageIfFull(r) == Len(page[r]) <= Limit

(* A page that is not full is the last.                                    *)
LastPage(r) == Len(page[r]) < Limit

(* A mutation: a call that fails has no failures.                          *)
UnansweredFailures(r) == <<>>

(* Every record of a call that fails is a failure.                         *)
CallFailures(r) == page[r]

(* Of the records a 202 lists only the duplicates, which were taken        *)
(* before, are reported as failures, in their order.                       *)
Duplicates(payloads, before) ==
  LET found[n \in 0..Len(payloads)] ==
        IF n = 0 THEN <<>>
        ELSE IF payloads[n] \in before THEN Append(found[n - 1], payloads[n])
        ELSE found[n - 1]
  IN found[Len(payloads)]

(* A record that is refused for another reason is dropped.  If the call    *)
(* fails its records may have been taken all the same.                     *)
SendPage(r) ==
  /\ pc[r] = "send"
  /\ LET fresh      == Range(page[r]) \ accepted
         duplicates == Duplicates(page[r], accepted)
     IN \E failed \in {duplicates, CallFailures(r)}, taken \in SUBSET fresh :
          /\ \/ failed = duplicates /\ (taken = fresh \/ ItemRejects)
             \/ failed = CallFailures(r) /\ taken \in {{}, fresh}
          /\ accepted' = accepted \cup taken
          /\ IF LastPage(r)
               THEN /\ FinishAttempt(r, failures[r] \o failed)
                    /\ skip' = [skip EXCEPT ![r] = 0]
                    /\ failures' = [failures EXCEPT ![r] = <<>>]
               ELSE /\ Await(r, "read")
                    /\ skip' = [skip EXCEPT ![r] = @ + Len(page[r])]
                    /\ failures' = [failures EXCEPT ![r] = @ \o failed]
                    /\ UNCHANGED <<pending, reply>>
  /\ page' = [page EXCEPT ![r] = <<>>]
  /\ UNCHANGED <<month, table, attempt, history>>

-----------------------------------------------------------------------------
(* billingJob                                                               *)

(* onTick is handed to the CronJob unbound: with the CronJob as receiver   *)
(* the first use of "this" throws, so does the catch block, and billingJob *)
(* is over before it awaits anything.                                      *)
FirstAwait == IF Receiver = "service" THEN "find" ELSE "idle"

(* The first of the month.                                                 *)
Tick ==
  /\ pc["job"] = "idle"
  /\ month < MaxMonths
  /\ month' = month + 1
  /\ alerted' = FALSE
  /\ Await("job", FirstAwait)
  /\ watched' = [a \in Admins |-> IF pc[a] = "done" THEN watched[a] ELSE {}]
  /\ UNCHANGED <<table, accepted, attempting, pending, attempt, reply, ran, due>>

(* fillFailureDB without failures: one payload per instance.               *)
FindInstances ==
  /\ pc["job"] = "find"
  /\ \/ \E n \in 0..MaxInstances :
          /\ pending' = Bills(month, n)
          /\ due' = Range(Bills(month, n))
          /\ ran' = month
          /\ Await("job", "clear")
          /\ UNCHANGED <<attempting, attempt>>
     \/ FailJob /\ UNCHANGED <<ran, due>>
  /\ UNCHANGED <<month, table, accepted, reply, alerted, watched>>

(* The first fill is followed by an attempt, a refill by a pause.          *)
AfterInserts(left) ==
  Await("job", IF left # <<>> THEN "insert" ELSE IF attempt = 0 THEN "token" ELSE "delay")

(* A mutation: the table is cleared for a refill only.                     *)
ClearForRefill ==
  /\ pc["job"] = "clear"
  /\ \/ /\ table' = IF attempt = 0 THEN table ELSE <<>>
        /\ AfterInserts(pending)
        /\ attempt' = IF attempt = 0 /\ pending = <<>> THEN 1 ELSE attempt
        /\ UNCHANGED <<attempting, pending>>
     \/ table' \in {table, <<>>} /\ FailJob
  /\ UNCHANGED <<month, accepted, reply, history>>

(* fillFailureDB, after its payloads are known: first all rows are deleted.*)
ClearTable ==
  /\ pc["job"] = "clear"
  /\ \/ /\ table' = <<>>
        /\ AfterInserts(pending)
        /\ attempt' = IF attempt = 0 /\ pending = <<>> THEN 1 ELSE attempt
        /\ UNCHANGED <<attempting, pending>>
     \/ table' \in {table, <<>>} /\ FailJob
  /\ UNCHANGED <<month, accepted, reply, history>>

InsertFailure ==
  /\ pc["job"] = "insert"
  /\ LET grown == Append(table, Head(pending))
         left  == Tail(pending)
     IN \/ /\ table' = grown
           /\ pending' = left
           /\ AfterInserts(left)
           /\ attempt' = IF attempt = 0 /\ left = <<>> THEN 1 ELSE attempt
           /\ UNCHANGED attempting
        \/ table' \in {table, grown} /\ FailJob
  /\ UNCHANGED <<month, accepted, reply, history>>

(* A mutation: the attempts are counted from one too few.                  *)
PauseOnceMore ==
  /\ pc["job"] = "delay"
  /\ \/ attempt <= 3 /\ Await("job", "token") /\ attempt' = attempt + 1 /\ UNCHANGED pending
     \/ attempt > 3 /\ EndJob
  /\ UNCHANGED <<month, table, accepted, attempting, reply, history>>

(* A mutation: the job retries until it succeeds.                          *)
PauseForever ==
  /\ pc["job"] = "delay"
  /\ Await("job", "token")
  /\ UNCHANGED <<month, table, accepted, attempting, pending, attempt, reply, history>>

(* retryThreeTimes: a pause after every attempt that failed; after the     *)
(* third the job is over.                                                  *)
Pause ==
  /\ pc["job"] = "delay"
  /\ \/ attempt < 3 /\ Await("job", "token") /\ attempt' = attempt + 1 /\ UNCHANGED pending
     \/ attempt = 3 /\ EndJob
  /\ UNCHANGED <<month, table, accepted, attempting, reply, history>>

(* No failures: the table is cleared.                                      *)
ClearAll ==
  /\ pc["job"] = "clear-all"
  /\ \/ table' = <<>> /\ EndJob /\ UNCHANGED attempting
     \/ table' \in {table, <<>>} /\ FailJob
  /\ UNCHANGED <<month, accepted, reply, history>>

(* sendNotification; what it throws is swallowed.                          *)
Notify ==
  /\ pc["job"] = "notify"
  /\ \/ alerted' = TRUE
     \/ AlertsFail /\ UNCHANGED alerted
  /\ EndJob
  /\ UNCHANGED <<month, table, accepted, attempting, reply, ran, due, watched>>

(* The process ends and is restarted: the table and the usage API remain.  *)
Crash ==
  /\ Crashes
  /\ pc' = [r \in Runs |-> IF r = "job" \/ pc[r] = "idle" THEN "idle" ELSE "done"]
  /\ skip' = [r \in Runs |-> 0]
  /\ page' = [r \in Runs |-> <<>>]
  /\ failures' = [r \in Runs |-> <<>>]
  /\ pending' = <<>>
  /\ attempt' = 0
  /\ UNCHANGED <<month, table, accepted, reply, history>>

-----------------------------------------------------------------------------

Attempt(r) == FetchToken(r) \/ ReadPage(r) \/ SendPage(r)

JobStep ==
  \/ FindInstances \/ ClearTable \/ InsertFailure \/ Attempt("job")
  \/ Pause \/ ClearAll \/ Notify

Next ==
  \/ Tick
  \/ JobStep
  \/ \E a \in Admins : ReceiveRetry(a) \/ Attempt(a)
  \/ Crash

Spec == Init /\ [][Next]_vars

(* The calls of the job are answered or fail, and its timer fires.         *)
FairSpec == Spec /\ WF_vars(JobStep)

-----------------------------------------------------------------------------
(* Properties.                                                             *)

(* Types; the job makes at most three attempts, as retryThreeTimes says.   *)
TypeOK ==
  /\ month \in 0..MaxMonths
  /\ table \in Seq(Payloads)
  /\ accepted \subseteq Payloads
  /\ pc \in [Runs -> JobSteps \cup AttemptSteps \cup {"idle", "done"}]
  /\ skip \in [Runs -> 0..MaxInstances]
  /\ page \in [Runs -> Seq(Payloads)]
  /\ failures \in [Runs -> Seq(Payloads)]
  /\ pending \in Seq(Payloads)
  /\ attempt \in 0..3
  /\ reply \in [Admins -> {"none", "200", "500"}]
  /\ ran \in 0..MaxMonths
  /\ due \subseteq Payloads
  /\ alerted \in BOOLEAN
  /\ watched \in [Admins -> SUBSET Payloads]

(* Once the job has listed the instances of a month, every one of them is  *)
(* billed, or is in the table, or is about to be inserted, or an operator  *)
(* is told that the job failed: across pages, retries by the administrator *)
(* and failures of any call, nothing is dropped in silence before the next *)
(* month.                                                                  *)
NothingLostSilently ==
  \A x \in due :
    \/ x \in accepted
    \/ x \in Range(table)
    \/ pc["job"] \in {"clear", "insert"} /\ x \in Range(pending)
    \/ alerted \/ pc["job"] = "notify"
    \/ month # ran

(* The job and the retries keep the promise of Ledger: a bill leaves the   *)
(* table only taken, alerted or superseded by a later month's, although it *)
(* is the refill of the table that drops it.                               *)
Keeping == INSTANCE Ledger WITH
  Claims <- Payloads,
  month  <- ran,
  listed <- due,
  kept   <- Range(table) \cup (IF pc["job"] \in {"clear", "insert"} THEN Range(pending) ELSE {}),
  taken  <- accepted,
  alarm  <- alerted \/ pc["job"] = "notify"

KeepsLedger == Keeping!Spec

(* The table holds the bills of one month, and none of them twice: however *)
(* many retries fail, and wherever the process has ended before, a fill    *)
(* never mixes what it inserts with what was there.                        *)
OneMonthsBills ==
  \A j, k \in DOMAIN table :
    table[j].month = table[k].month /\ (table[j] = table[k] => j = k)

(* A retry that answers with success has billed every row it found when it *)
(* began, unless the job was changing the table meanwhile.                 *)
RetrySuccessMeansBilled ==
  \A a \in Admins : reply[a] = "200" => watched[a] \subseteq accepted

(* A job that has got as far as its query does not end in silence: when it *)
(* is over it has listed the instances of its month or told an operator    *)
(* that it could not, whatever calls fail and whoever retries meanwhile.   *)
JobEndsListedOrTold ==
  [][pc["job"] # "idle" /\ pc'["job"] = "idle" => ran' = month' \/ alerted']_vars

(* The job of every month runs: when it is over, or before it has awaited  *)
(* anything, the month is listed or an operator has been told.             *)
MonthlyJobRuns == pc["job"] = "idle" => ran = month \/ alerted

(* The job does not go on for ever, even if no call ever succeeds.         *)
JobEnds == pc["job"] # "idle" ~> pc["job"] = "idle"
=============================================================================
