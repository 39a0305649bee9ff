---------------------------- MODULE LedgerProofs -----------------------------
(***************************************************************************)
(* That Billing keeps the promise of Ledger, and loses no bill silently,   *)
(* if the process lives, the usage API refuses no record inside a 202 and  *)
(* the notification arrives.                                               *)
(***************************************************************************)
EXTENDS BillingProofs

Kept == Range(table) \cup (IF pc["job"] \in {"clear", "insert"} THEN Range(pending) ELSE {})

Alarm == alerted \/ pc["job"] = "notify"

Listed(B) == \A x \in B : x.month <= ran

(* No bill is about of a month that was not listed; when the table is      *)
(* about to be cleared, each of its rows is taken, pending or old.         *)
ListedOK ==
  /\ ran <= month
  /\ pc["job"] = "find" => ran < month
  /\ \A x \in due : x.month = ran
  /\ Listed(Range(table)) /\ Listed(Range(pending))
  /\ \A r \in Runs : Listed(Range(page[r]))
  /\ pc["job"] = "clear" =>
       \A x \in Range(table) : x \in accepted \cup Range(pending) \/ x.month < ran
  /\ pc["job"] = "clear-all" => Range(table) \subseteq accepted

LEMMA ListedInit == Init => ListedOK
  BY NoneIsFine DEF Init, ListedOK, Listed, Runs

(* Steps that change no more than where a run is, and drop or insert rows. *)
LEMMA ListedKeeps ==
  ASSUME BillingOK, ListedOK, UNCHANGED <<month, ran, due, accepted>>,
         Range(table') \subseteq Range(table) \cup Range(pending),
         Range(pending') \subseteq Range(pending),
         \A r \in Runs : Range(page'[r]) \subseteq Range(page[r]) \cup Range(table),
         pc'["job"] \in {"find", "clear", "clear-all"} =>
           pc'["job"] = pc["job"] /\ UNCHANGED <<table, pending>>
  PROVE  ListedOK'
  BY DEF ListedOK, Listed

LEMMA FailJobKeeps ==
  ASSUME BillingOK, ListedOK, FailJob, UNCHANGED <<month, ran, due, accepted>>,
         Range(table') \subseteq Range(table) \cup Range(pending)
  PROVE  ListedOK'
<1>1. /\ pc'["job"] = "notify" /\ Range(pending') = {}
      /\ \A r \in Runs : page'[r] \in {page[r], <<>>}
  BY NoneIsFine DEF FailJob, Await, BillingOK, TypeOK, Runs
<1> QED
  BY <1>1, NoneIsFine, ListedKeeps

(* The rows of a page that has been read are rows of the table.            *)
LEMMA PageOfTable ==
  ASSUME BillingOK, NEW r \in Runs, ReadPage(r), ~FailAttempt(r)
  PROVE  Range(page'[r]) \subseteq Range(table)
<1> DEFINE last == IF skip[r] + Limit < Len(table) THEN skip[r] + Limit ELSE Len(table)
           rows == SubSeq(table, skip[r] + 1, last)
<1>1. page'[r] = rows
  BY DEF ReadPage, BillingOK, TypeOK
<1>2. /\ skip[r] \in Nat /\ Len(table) \in Nat /\ Limit \in Nat \ {0} /\ table \in Seq(Payloads)
      /\ DOMAIN table = 1..Len(table)
  BY ConstantsAssumption DEF BillingOK, TypeOK, ConstantsAssumption
<1>3. last \in Nat /\ last <= Len(table)
  BY <1>2
<1> HIDE DEF last
<1>4. \A i \in (skip[r] + 1)..last : i \in DOMAIN table /\ table[i] \in Range(table)
  BY <1>2, <1>3 DEF Range
<1>5. skip[r] + 1 \in Int /\ last \in Int
  BY <1>2, <1>3
<1>6. rows \in Seq(Range(table))
  BY <1>4, <1>5, SubSeqProperties
<1> HIDE DEF rows
<1> QED
  BY <1>1, <1>6, RangeOfSeq

LEMMA ListedStep ==
  ASSUME BillingOK, BillingOK', ListedOK, ~ItemRejects, [Next]_vars
  PROVE  ListedOK'
<1>0. /\ "job" \in Runs /\ table \in Seq(Payloads) /\ pending \in Seq(Payloads)
      /\ month \in Nat /\ ran \in Nat /\ \A x \in Payloads : x.month \in Nat
      /\ TypeOK /\ Range(table) \subseteq Payloads
  <2>1. TypeOK /\ "job" \in Runs /\ MaxMonths \in Nat
    BY ConstantsAssumption DEF Runs, BillingOK, ConstantsAssumption
  <2>2. table \in Seq(Payloads) /\ pending \in Seq(Payloads) /\ month \in Nat /\ ran \in Nat
    BY <2>1 DEF TypeOK
  <2>3. \A x \in Payloads : x.month \in Nat
    BY <2>1 DEF Payloads
  <2>4. Range(table) \subseteq Payloads
    BY <2>2, RangeOfSeq
  <2> QED
    BY <2>1, <2>2, <2>3, <2>4
<1>1. CASE Tick
  <2>1. /\ pc'["job"] \in {"find", "idle"} /\ month' = month + 1
        /\ UNCHANGED <<table, pending, page, ran, due, accepted>>
    BY <1>0, <1>1 DEF Tick, FirstAwait, Await, TypeOK, attempting
  <2>2. ran < month' /\ ran <= month'
    BY <1>0, <2>1 DEF ListedOK
  <2> QED
    BY <2>1, <2>2 DEF ListedOK, Listed
<1>2. CASE FindInstances
  <2>1. CASE FailJob /\ UNCHANGED <<ran, due>>
    BY <1>2, <2>1, FailJobKeeps DEF FindInstances
  <2>2. CASE ~(FailJob /\ UNCHANGED <<ran, due>>)
    <3>1. PICK n \in 0..MaxInstances :
            /\ pending' = Bills(month, n)
            /\ due' = Range(Bills(month, n))
            /\ ran' = month
            /\ Await("job", "clear")
            /\ UNCHANGED <<attempting, attempt>>
      BY <1>2, <2>2 DEF FindInstances
    <3>2. month \in 1..MaxMonths /\ ran < month
      BY <1>2 DEF FindInstances, BillingOK, TypeOK, SizesOK, TableFits, ListedOK
    <3>3. \A x \in Range(pending') : x.month = month
      BY <3>1, <3>2, BillsOfMonth, ConstantsAssumption
    <3>4. pc'["job"] = "clear" /\ UNCHANGED <<table, month, page>>
      BY <1>0, <1>2, <3>1 DEF FindInstances, Await, TypeOK, attempting
    <3>5. \A x \in Payloads : x.month <= ran => x.month < month /\ x.month <= month
      BY <1>0, <3>2
    <3>6. \A r \in Runs : Range(page[r]) \subseteq Payloads
      BY <1>0, RangeOfSeq DEF TypeOK
    <3>7. /\ \A x \in Range(table) : x.month < month /\ x.month <= month
          /\ \A r \in Runs : \A x \in Range(page[r]) : x.month <= month
      BY <1>0, <3>5, <3>6 DEF ListedOK, Listed
    <3> QED
      BY <1>0, <3>1, <3>3, <3>4, <3>7 DEF ListedOK, Listed
  <2> QED
    BY <2>1, <2>2
<1>3. CASE ClearTable
  <2>1. CASE FailJob /\ table' \in {table, <<>>}
    BY <1>3, <2>1, FailJobKeeps, NoneIsFine DEF ClearTable, history
  <2>2. CASE ~(FailJob /\ table' \in {table, <<>>})
    <3>1. /\ table' = <<>> /\ pc'["job"] \in {"insert", "token", "delay"}
          /\ UNCHANGED <<page, pending, month, ran, due, accepted>>
      BY <1>0, <1>3, <2>2 DEF ClearTable, AfterInserts, Await, TypeOK, attempting, history
    <3> QED
      BY <3>1, ListedKeeps, NoneIsFine
  <2> QED
    BY <2>1, <2>2
<1>4. CASE InsertFailure
  <2> DEFINE grown == Append(table, Head(pending))
             left == Tail(pending)
  <2>1. pending # <<>> /\ pc["job"] = "insert"
    BY <1>4 DEF InsertFailure, BillingOK, SizesOK, TableFits
  <2>2. /\ Range(grown) \subseteq Range(table) \cup Range(pending)
        /\ Range(left) \subseteq Range(pending)
    BY <1>0, <2>1, InsertKeepsWhole
  <2> HIDE DEF grown, left
  <2>3. CASE FailJob /\ table' \in {table, grown}
    BY <1>4, <2>2, <2>3, FailJobKeeps DEF InsertFailure, history
  <2>4. CASE ~(FailJob /\ table' \in {table, grown})
    <3>1. table' = grown /\ pending' = left /\ AfterInserts(left) /\ UNCHANGED attempting
      BY <1>4, <2>4 DEF InsertFailure, grown, left
    <3>2. /\ pc'["job"] \in {"insert", "token", "delay"}
          /\ UNCHANGED <<page, month, ran, due, accepted>>
      BY <1>0, <1>4, <3>1 DEF InsertFailure, AfterInserts, Await, TypeOK, attempting, history
    <3> QED
      BY <2>2, <3>1, <3>2, ListedKeeps
  <2> QED
    BY <2>3, <2>4
<1>5. CASE Pause \/ Notify
  <2>1. /\ pc'["job"] \in {"token", "idle"} /\ pending' \in {pending, <<>>}
        /\ UNCHANGED <<table, page, month, ran, due, accepted>>
    BY <1>0, <1>5 DEF Pause, Notify, EndJob, Await, TypeOK, attempting, history
  <2> QED
    BY <2>1, ListedKeeps, NoneIsFine
<1>6. CASE ClearAll
  <2>1. CASE FailJob /\ table' \in {table, <<>>}
    BY <1>6, <2>1, FailJobKeeps, NoneIsFine DEF ClearAll, history
  <2>2. CASE ~(FailJob /\ table' \in {table, <<>>})
    <3>1. /\ table' = <<>> /\ pending' = <<>> /\ pc'["job"] = "idle"
          /\ UNCHANGED <<page, month, ran, due, accepted>>
      BY <1>0, <1>6, <2>2 DEF ClearAll, EndJob, Await, TypeOK, attempting, history
    <3> QED
      BY <3>1, ListedKeeps, NoneIsFine
  <2> QED
    BY <2>1, <2>2
<1>7. ASSUME NEW r \in Runs, FetchToken(r) \/ ReadPage(r) PROVE ListedOK'
  <2>1. UNCHANGED <<table, month, ran, due, accepted>>
    BY <1>7 DEF FetchToken, ReadPage, history
  <2>2. CASE FailAttempt(r)
    <3>1. CASE r = "job"
      BY <2>1, <2>2, <3>1, FailJobKeeps DEF FailAttempt
    <3>2. CASE r # "job"
      <4>1. /\ pc'["job"] = pc["job"] /\ pending' = pending
            /\ \A q \in Runs : page'[q] \in {page[q], <<>>}
        BY <1>0, <2>2, <3>2 DEF FailAttempt, FailRetry, Await, TypeOK
      <4> QED
        BY <2>1, <4>1, ListedKeeps, NoneIsFine
    <3> QED
      BY <3>1, <3>2
  <2>3. CASE ~FailAttempt(r)
    <3>1. \A q \in Runs : Range(page'[q]) \subseteq Range(page[q]) \cup Range(table)
      <4>1. CASE FetchToken(r)
        BY <2>3, <4>1 DEF FetchToken, attempting
      <4>2. CASE ReadPage(r)
        <5>1. \A q \in Runs : q # r => page'[q] = page[q]
          BY <1>0, <2>3, <4>2 DEF ReadPage, TypeOK
        <5> QED
          BY <2>3, <4>2, <5>1, PageOfTable
      <4> QED
        BY <1>7, <4>1, <4>2
    <3>2. pending' = pending /\ (pc'["job"] = pc["job"] \/ pc'["job"] \in {"read", "send"})
      BY <1>0, <1>7, <2>3 DEF FetchToken, ReadPage, Await, TypeOK
    <3> QED
      BY <2>1, <3>1, <3>2, ListedKeeps
  <2> QED
    BY <2>2, <2>3
<1>8. ASSUME NEW r \in Runs, SendPage(r) PROVE ListedOK'
  <2>1. PICK failed : Sent(r, failed)
    BY <1>0, <1>8, SendPageSends
  <2>2. /\ UNCHANGED <<table, month, ran, due>> /\ accepted \subseteq accepted'
        /\ \A q \in Runs : page'[q] \in {page[q], <<>>}
    BY <1>0, <1>8, <2>1 DEF SendPage, Sent, TypeOK, history
  <2>3. CASE r = "job" /\ LastPage(r)
    <3> DEFINE all == failures[r] \o failed
    <3>1. AttemptOK(r) /\ Distinct(table)
      BY <1>8, <2>3 DEF BillingOK, TableOK, AttemptSteps, SendPage
    <3>2. /\ Range(all) \subseteq Range(table)
          /\ Range(table) \subseteq accepted' \cup Range(all)
      BY <1>0, <1>8, <2>1, <2>3, <3>1, AttemptSends
    <3> HIDE DEF all
    <3>3. /\ pc'["job"] = IF all = <<>> THEN "clear-all" ELSE "clear"
          /\ pending' = all
      BY <1>0, <2>1, <2>3 DEF Sent, FinishAttempt, Await, TypeOK, all
    <3> QED
      BY <2>2, <3>2, <3>3, NoneIsFine DEF ListedOK, Listed
  <2>4. CASE ~(r = "job" /\ LastPage(r))
    <3>1. pending' = pending /\ (pc'["job"] = pc["job"] \/ pc'["job"] = "read")
      BY <1>0, <2>1, <2>4 DEF Sent, FinishAttempt, Await, TypeOK
    <3> QED
      BY <2>2, <3>1, NoneIsFine DEF ListedOK, Listed
  <2> QED
    BY <2>3, <2>4
<1>9. ASSUME NEW a \in Admins, ReceiveRetry(a) PROVE ListedOK'
  <2>1. /\ pc'["job"] = pc["job"]
        /\ UNCHANGED <<table, pending, page, month, ran, due, accepted>>
    BY <1>0, <1>9, RetriesLeaveJob DEF ReceiveRetry, attempting, Untouched
  <2> QED
    BY <2>1, ListedKeeps
<1>10. CASE Crash
  <2>1. /\ pc'["job"] = "idle" /\ pending' = <<>> /\ \A r \in Runs : page'[r] = <<>>
        /\ UNCHANGED <<table, month, ran, due, accepted>>
    BY <1>0, <1>10 DEF Crash, history
  <2> QED
    BY <2>1, ListedKeeps, NoneIsFine
<1>11. CASE UNCHANGED vars
  BY <1>11, ListedKeeps DEF vars
<1> QED
  BY <1>0, <1>1, <1>2, <1>3, <1>4, <1>5, <1>6, <1>7, <1>8, <1>9, <1>10, <1>11
  DEF Next, JobStep, Attempt, Runs

-----------------------------------------------------------------------------
(* Each step is one of Ledger's.                                           *)

LEMMA LedgerMapping ==
  /\ UNCHANGED Keeping!vars <=> UNCHANGED <<ran, due, Kept, accepted, Alarm>>
  /\ Keeping!Begin <=> /\ Alarm' = FALSE
                       /\ UNCHANGED <<ran, due, Kept, accepted>>
  /\ Keeping!List <=> /\ \E m \in {b.month : b \in Payloads} :
                           /\ m > ran /\ ran' = m
                           /\ due' \subseteq {b \in Payloads : b.month = m}
                      /\ Kept' = Kept \cup due'
                      /\ UNCHANGED <<accepted, Alarm>>
  /\ Keeping!Take <=> /\ accepted \subseteq accepted'
                      /\ \A b \in accepted' \ accepted : b \in Payloads /\ b.month <= ran
                      /\ UNCHANGED <<ran, due, Kept, Alarm>>
  /\ Keeping!Drop <=> /\ Kept' \subseteq Kept
                      /\ \A b \in Kept \ Kept' : b \in accepted \/ b.month < ran
                      /\ UNCHANGED <<ran, due, accepted, Alarm>>
  /\ Keeping!GiveUp <=> /\ Kept' \subseteq Kept
                        /\ Alarm' = TRUE
                        /\ UNCHANGED <<ran, due, accepted>>
  BY DEF Keeping!vars, Keeping!Begin, Keeping!List, Keeping!Take, Keeping!Drop, Keeping!GiveUp,
     Kept, Alarm

(* The Ledger's steps but the one that withdraws the alarm.                *)
Settle ==
  Keeping!List \/ Keeping!Take \/ Keeping!Drop \/ Keeping!GiveUp \/ UNCHANGED Keeping!vars

LEMMA FailJobGivesUp ==
  ASSUME TypeOK, FailJob, UNCHANGED <<ran, due, accepted>>, Range(table') \subseteq Kept
  PROVE  Settle
<1>1. pc'["job"] = "notify"
  BY DEF FailJob, Await, TypeOK, Runs
<1>2. Kept' = Range(table') /\ Alarm'
  BY <1>1 DEF Kept, Alarm
<1> QED
  BY <1>2, LedgerMapping DEF Settle

LEMMA LedgerStutters ==
  ASSUME UNCHANGED <<ran, due, accepted, alerted>>, Kept' = Kept,
         pc'["job"] = "notify" <=> pc["job"] = "notify"
  PROVE  Settle
  BY LedgerMapping DEF Settle, Alarm

LEMMA LedgerStep ==
  ASSUME BillingOK, ListedOK, ~ItemRejects, ~AlertsFail, ~Crashes, [Next]_vars
  PROVE  \/ Tick /\ Keeping!Begin
         \/ Settle /\ month' = month
<1>0. /\ "job" \in Runs /\ table \in Seq(Payloads) /\ pending \in Seq(Payloads) /\ TypeOK
      /\ alerted \in BOOLEAN
  BY DEF Runs, BillingOK, TypeOK
<1>1. CASE Tick
  <2>1. /\ pc["job"] = "idle" /\ pc'["job"] \in {"idle", "find"} /\ alerted' = FALSE
        /\ UNCHANGED <<table, ran, due, accepted>>
    BY <1>0, <1>1 DEF Tick, FirstAwait, Await, TypeOK
  <2>2. Alarm' = FALSE /\ Kept' = Kept
    BY <2>1 DEF Alarm, Kept
  <2> QED
    BY <1>1, <2>1, <2>2, LedgerMapping
<1>2. CASE FindInstances
  <2>1. CASE FailJob /\ UNCHANGED <<ran, due>>
    <3>1. UNCHANGED <<table, accepted, month>> /\ Range(table') \subseteq Kept
      BY <1>2 DEF FindInstances, Kept
    <3> QED
      BY <1>0, <2>1, <3>1, FailJobGivesUp
  <2>2. CASE ~(FailJob /\ UNCHANGED <<ran, due>>)
    <3>1. PICK n \in 0..MaxInstances :
            /\ pending' = Bills(month, n)
            /\ due' = Range(Bills(month, n))
            /\ ran' = month
            /\ Await("job", "clear")
            /\ UNCHANGED <<attempting, attempt>>
      BY <1>2, <2>2 DEF FindInstances
    <3>2. month \in 1..MaxMonths /\ ran < month /\ ran \in Nat
      BY <1>2 DEF FindInstances, BillingOK, TypeOK, SizesOK, TableFits, ListedOK
    <3>3. due' \subseteq {b \in Payloads : b.month = month}
      BY <3>1, <3>2, BillsOfMonth, ConstantsAssumption, RangeOfSeq
    <3>4. \E b \in Payloads : b.month = month
      <4>1. [month |-> month, instance |-> 1] \in Payloads
        BY <3>2, ConstantsAssumption DEF Payloads, ConstantsAssumption
      <4> QED
        BY <4>1
    <3>5. /\ pc["job"] = "find" /\ pc'["job"] = "clear"
          /\ UNCHANGED <<table, month, accepted, alerted>>
      BY <1>0, <1>2, <3>1 DEF FindInstances, Await, TypeOK
    <3>6. Kept' = Kept \cup due' /\ Alarm' = Alarm
      BY <3>1, <3>5 DEF Kept, Alarm
    <3>7. Keeping!List
      BY <3>1, <3>2, <3>3, <3>4, <3>5, <3>6, LedgerMapping
    <3> QED
      BY <3>5, <3>7 DEF Settle
  <2> QED
    BY <2>1, <2>2
<1>3. CASE ClearTable
  <2>1. CASE FailJob /\ table' \in {table, <<>>}
    <3>1. UNCHANGED <<month, ran, due, accepted>> /\ Range(table') \subseteq Kept
      BY <1>3, <2>1, NoneIsFine DEF ClearTable, history, Kept
    <3> QED
      BY <1>0, <2>1, <3>1, FailJobGivesUp
  <2>2. CASE ~(FailJob /\ table' \in {table, <<>>})
    <3>1. /\ pc["job"] = "clear" /\ table' = <<>> /\ AfterInserts(pending)
          /\ UNCHANGED <<pending, month, ran, due, accepted, alerted>>
      BY <1>3, <2>2 DEF ClearTable, history
    <3>2. /\ pc'["job"] \in {"insert", "token", "delay"}
          /\ pc'["job"] # "insert" => pending = <<>>
      BY <1>0, <3>1 DEF AfterInserts, Await, TypeOK
    <3>3. Kept = Range(table) \cup Range(pending) /\ Kept' = Range(pending) /\ Alarm' = Alarm
      BY <3>1, <3>2, NoneIsFine DEF Kept, Alarm
    <3>4. \A x \in Range(table) : x \in accepted \cup Range(pending) \/ x.month < ran
      BY <3>1 DEF ListedOK
    <3>5. Keeping!Drop
      BY <3>1, <3>3, <3>4, LedgerMapping
    <3> QED
      BY <3>1, <3>5 DEF Settle
  <2> QED
    BY <2>1, <2>2
<1>4. CASE InsertFailure
  <2> DEFINE grown == Append(table, Head(pending))
             left == Tail(pending)
  <2>1. pending # <<>> /\ pc["job"] = "insert"
    BY <1>4 DEF InsertFailure, BillingOK, SizesOK, TableFits
  <2>2. Range(grown) \cup Range(left) = Kept
    <3>1. /\ Range(grown) = Range(table) \cup {Head(pending)}
          /\ Range(pending) = Range(left) \cup {Head(pending)}
      BY <1>0, <2>1, InsertKeepsWhole
    <3> QED
      BY <2>1, <3>1 DEF Kept
  <2>3. Range(table) \subseteq Kept
    BY DEF Kept
  <2> HIDE DEF grown, left
  <2>4. UNCHANGED <<month, ran, due, accepted, alerted>>
    BY <1>4 DEF InsertFailure, history
  <2>5. CASE FailJob /\ table' \in {table, grown}
    BY <1>0, <2>2, <2>3, <2>4, <2>5, FailJobGivesUp
  <2>6. CASE ~(FailJob /\ table' \in {table, grown})
    <3>1. table' = grown /\ pending' = left /\ AfterInserts(left)
      BY <1>4, <2>6 DEF InsertFailure, grown, left
    <3>2. /\ pc'["job"] \in {"insert", "token", "delay"}
          /\ pc'["job"] # "insert" => left = <<>>
      BY <1>0, <3>1 DEF AfterInserts, Await, TypeOK
    <3>3. Kept' = Kept
      BY <2>2, <3>1, <3>2, NoneIsFine DEF Kept
    <3> QED
      BY <2>1, <2>4, <3>2, <3>3, LedgerStutters
  <2> QED
    BY <2>5, <2>6
<1>5. CASE Pause
  <2>1. /\ pc["job"] = "delay" /\ pc'["job"] \in {"token", "idle"}
        /\ UNCHANGED <<table, month, ran, due, accepted, alerted>>
    BY <1>0, <1>5 DEF Pause, EndJob, Await, TypeOK, history
  <2>2. Kept' = Kept
    BY <2>1 DEF Kept
  <2> QED
    BY <2>1, <2>2, LedgerStutters
<1>6. CASE Notify
  <2>1. /\ pc["job"] = "notify" /\ pc'["job"] = "idle" /\ alerted' = TRUE
        /\ UNCHANGED <<table, month, ran, due, accepted>>
    BY <1>0, <1>6 DEF Notify, EndJob, Await, TypeOK
  <2>2. Kept' = Kept /\ Alarm' = TRUE
    BY <2>1 DEF Kept, Alarm
  <2> QED
    BY <2>1, <2>2, LedgerMapping DEF Settle
<1>7. CASE ClearAll
  <2>1. CASE FailJob /\ table' \in {table, <<>>}
    <3>1. UNCHANGED <<month, ran, due, accepted>> /\ Range(table') \subseteq Kept
      BY <1>7, <2>1, NoneIsFine DEF ClearAll, history, Kept
    <3> QED
      BY <1>0, <2>1, <3>1, FailJobGivesUp
  <2>2. CASE ~(FailJob /\ table' \in {table, <<>>})
    <3>1. /\ pc["job"] = "clear-all" /\ pc'["job"] = "idle" /\ table' = <<>>
          /\ UNCHANGED <<month, ran, due, accepted, alerted>>
      BY <1>0, <1>7, <2>2 DEF ClearAll, EndJob, Await, TypeOK, history
    <3>2. Kept = Range(table) /\ Kept' = {} /\ Range(table) \subseteq accepted /\ Alarm' = Alarm
      BY <3>1, NoneIsFine DEF Kept, Alarm, ListedOK
    <3>3. Keeping!Drop
      BY <3>1, <3>2, LedgerMapping
    <3> QED
      BY <3>1, <3>3 DEF Settle
  <2> QED
    BY <2>1, <2>2
<1>8. ASSUME NEW r \in Runs, FetchToken(r) \/ ReadPage(r) PROVE Settle /\ month' = month
  <2>1. UNCHANGED <<table, month, ran, due, accepted, alerted>>
    BY <1>8 DEF FetchToken, ReadPage, history
  <2>2. CASE r = "job" /\ FailAttempt(r)
    BY <1>0, <2>1, <2>2, FailJobGivesUp DEF FailAttempt, Kept
  <2>3. CASE ~(r = "job" /\ FailAttempt(r))
    <3>1. pending' = pending /\ (pc'["job"] # pc["job"] => r = "job" /\ pc'["job"] \in {"read", "send"})
      BY <1>0, <1>8, <2>3 DEF FetchToken, ReadPage, FailAttempt, FailRetry, Await, TypeOK
    <3>2. r = "job" => pc["job"] \in {"token", "read"}
      BY <1>8 DEF FetchToken, ReadPage
    <3>3. Kept' = Kept /\ (pc'["job"] = "notify" <=> pc["job"] = "notify")
      BY <2>1, <3>1, <3>2 DEF Kept
    <3> QED
      BY <2>1, <3>3, LedgerStutters
  <2> QED
    BY <2>2, <2>3
<1>9. ASSUME NEW r \in Runs, SendPage(r) PROVE Settle /\ month' = month
  <2>1. PICK failed : Sent(r, failed)
    BY <1>0, <1>9, SendPageSends
  <2>2. UNCHANGED <<table, month, ran, due, alerted>> /\ pc[r] = "send"
    BY <1>9 DEF SendPage, history
  <2>3. /\ accepted \subseteq accepted'
        /\ \A b \in accepted' \ accepted : b \in Payloads /\ b.month <= ran
    <3>1. accepted' \subseteq accepted \cup Range(page[r])
      BY <2>1 DEF Sent
    <3>2. Range(page[r]) \subseteq Payloads
      BY <1>0, RangeOfSeq DEF TypeOK
    <3> QED
      BY <2>1, <3>1, <3>2 DEF Sent, ListedOK, Listed
  <2>4. Kept' = Kept /\ Alarm' = Alarm
    <3>1. CASE r = "job" /\ LastPage(r)
      <4> DEFINE all == failures[r] \o failed
      <4>1. AttemptOK(r) /\ Distinct(table)
        BY <2>2, <3>1 DEF BillingOK, TableOK, AttemptSteps
      <4>2. Range(all) \subseteq Range(table)
        BY <1>0, <1>9, <2>1, <4>1, AttemptSends
      <4> HIDE DEF all
      <4>3. pc'["job"] \in {"clear", "clear-all"} /\ pending' = all
        BY <1>0, <2>1, <3>1 DEF Sent, FinishAttempt, Await, TypeOK, all
      <4> QED
        BY <2>2, <3>1, <4>2, <4>3 DEF Kept, Alarm
    <3>2. CASE r = "job" /\ ~LastPage(r)
      <4>1. pc'["job"] = "read" /\ pending' = pending
        BY <1>0, <2>1, <3>2 DEF Sent, Await, TypeOK
      <4> QED
        BY <2>2, <3>2, <4>1 DEF Kept, Alarm
    <3>3. CASE r # "job"
      <4>1. pc'["job"] = pc["job"] /\ pending' = pending
        BY <1>0, <2>1, <3>3 DEF Sent, FinishAttempt, Await, TypeOK
      <4> QED
        BY <2>2, <4>1 DEF Kept, Alarm
    <3> QED
      BY <3>1, <3>2, <3>3
  <2>5. Keeping!Take
    BY <2>2, <2>3, <2>4, LedgerMapping
  <2> QED
    BY <2>2, <2>5 DEF Settle
<1>10. ASSUME NEW a \in Admins, ReceiveRetry(a) PROVE Settle /\ month' = month
  <2>1. pc'["job"] = pc["job"] /\ UNCHANGED <<month, table, pending, ran, due, alerted, accepted>>
    BY <1>0, <1>10, RetriesLeaveJob DEF ReceiveRetry, Untouched
  <2>2. Kept' = Kept
    BY <2>1 DEF Kept
  <2> QED
    BY <2>1, <2>2, LedgerStutters
<1>11. CASE UNCHANGED vars
  <2>1. Kept' = Kept /\ UNCHANGED <<month, ran, due, accepted, alerted, pc>>
    BY <1>11 DEF vars, Kept
  <2> QED
    BY <2>1, LedgerStutters
<1> QED
  BY <1>0, <1>1, <1>2, <1>3, <1>4, <1>5, <1>6, <1>7, <1>8, <1>9, <1>10, <1>11
  DEF Next, JobStep, Attempt, Crash, Runs

(* Nothing is lost in silence, as a settled bill is taken.                 *)
LEMMA NothingLostStep ==
  ASSUME BillingOK, ListedOK, NothingLostSilently, ~ItemRejects, ~AlertsFail, ~Crashes,
         [Next]_vars
  PROVE  NothingLostSilently'
<1>0. month \in Nat /\ ran \in Nat /\ \A x \in due : x.month = ran
  BY ConstantsAssumption DEF BillingOK, TypeOK, ListedOK, ConstantsAssumption
<1>1. \A x \in due : x \in accepted \/ x \in Kept \/ Alarm \/ month # ran
  BY DEF NothingLostSilently, Kept, Alarm
<1>2. CASE Tick
  <2>1. month' = month + 1 /\ ran' = ran /\ ran <= month
    BY <1>2 DEF Tick, ListedOK
  <2>2. month' # ran'
    BY <1>0, <2>1
  <2> QED
    BY <2>2 DEF NothingLostSilently
<1>3. CASE Settle /\ month' = month
  <2> SUFFICES ASSUME NEW x \in due' PROVE x \in accepted' \/ x \in Kept' \/ Alarm' \/ month' # ran'
    BY DEF NothingLostSilently, Kept, Alarm
  <2>1. CASE Keeping!List
    BY <2>1, LedgerMapping
  <2>2. CASE Keeping!Take
    BY <1>1, <1>3, <2>2, LedgerMapping
  <2>3. CASE Keeping!Drop
    <3>1. /\ \A b \in Kept \ Kept' : b \in accepted \/ b.month < ran
          /\ UNCHANGED <<ran, due, accepted, Alarm>>
      BY <2>3, LedgerMapping
    <3>2. ~(x.month < ran)
      BY <1>0, <3>1
    <3> QED
      BY <1>1, <1>3, <3>1, <3>2
  <2>4. CASE Keeping!GiveUp
    BY <2>4, LedgerMapping
  <2>5. CASE UNCHANGED Keeping!vars
    <3>1. UNCHANGED <<ran, due, Kept, accepted, Alarm>>
      BY <2>5, LedgerMapping
    <3> QED
      BY <1>1, <1>3, <3>1
  <2> QED
    BY <1>3, <2>1, <2>2, <2>3, <2>4, <2>5 DEF Settle
<1> QED
  BY <1>2, <1>3, LedgerStep

LEMMA LedgerInvariant ==
  ASSUME ~ItemRejects
  PROVE  Spec => [](BillingOK /\ ListedOK)
<1>1. Init => BillingOK /\ ListedOK
  BY BillingInit, ListedInit
<1>2. BillingOK /\ ListedOK /\ [Next]_vars => (BillingOK /\ ListedOK)'
  BY BillingStep, ListedStep
<1> QED
  BY <1>1, <1>2, PTL DEF Spec

(* If the process lives, the usage API refuses no record inside a 202 and  *)
(* the notification arrives, then every bill that was listed is taken,     *)
(* kept or alerted until the next month, whatever calls fail, for any page *)
(* size and any number of retries.                                         *)
THEOREM NothingIsLostSilently ==
  ASSUME ~ItemRejects, ~AlertsFail, ~Crashes
  PROVE  Spec => []NothingLostSilently
<1>1. Init => NothingLostSilently
  BY DEF Init, NothingLostSilently
<1>2. BillingOK /\ ListedOK /\ NothingLostSilently /\ [Next]_vars => NothingLostSilently'
  BY NothingLostStep
<1> QED
  BY <1>1, <1>2, LedgerInvariant, PTL DEF Spec

(* On the same assumptions Billing implements Ledger: each of its steps is *)
(* one of Ledger's or changes nothing that Ledger speaks of.               *)
THEOREM BillingKeepsLedger ==
  ASSUME ~ItemRejects, ~AlertsFail, ~Crashes
  PROVE  Spec => KeepsLedger
<1>1. Init => Keeping!Init
  BY NoneIsFine DEF Init, Keeping!Init, Runs
<1>2. BillingOK /\ ListedOK /\ [Next]_vars => [Keeping!Next]_(Keeping!vars)
  BY LedgerStep DEF Settle, Keeping!Next
<1> QED
  BY <1>1, <1>2, LedgerInvariant, PTL DEF Spec, KeepsLedger, Keeping!Spec
=============================================================================
