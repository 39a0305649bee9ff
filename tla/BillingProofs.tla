---------------------------- MODULE BillingProofs ----------------------------
(***************************************************************************)
(* What holds of Billing for any number of retries, instances and months   *)
(* and any page size: its type, that the table holds one month's bills,    *)
(* what the success of a retry means, and what is known of the month when  *)
(* the job is over.                                                        *)
(***************************************************************************)
EXTENDS Billing, TLAPS, SequenceTheorems, WellFoundedInduction

Distinct(s)  == \A j, k \in DOMAIN s : s[j] = s[k] => j = k

OneMonth(B)  == \A x, y \in B : x.month = y.month

-----------------------------------------------------------------------------
(* What the operators on sequences return.                                 *)

(* A set of numbers that is not empty has a least one.                     *)
LEMMA Least ==
  ASSUME NEW T \in SUBSET Nat, T # {}
  PROVE  \E x \in T : \A y \in T : ~ (y < x)
<1>1. IsWellFoundedOn(OpToRel(<, Nat), Nat)
  BY NatLessThanWellFounded
<1>2. PICK x \in T : \A y \in T : ~ (<<y, x>> \in OpToRel(<, Nat))
  BY <1>1, WFMin
<1> QED
  BY <1>2 DEF OpToRel

(* The duplicates of a page are some of its payloads, in their order.      *)
LEMMA DuplicatesAreSome ==
  ASSUME NEW S, NEW s \in Seq(S), NEW A
  PROVE  LET D == Duplicates(s, A) IN
           /\ D \in Seq(S)
           /\ Len(D) <= Len(s)
           /\ Range(D) \subseteq Range(s)
           /\ Distinct(s) => Distinct(D)
<1> DEFINE Step(f, n) == IF n = 0 THEN <<>>
                         ELSE IF s[n] \in A THEN Append(f[n - 1], s[n])
                         ELSE f[n - 1]
           Upto(f, m) == f = [n \in 0..m |-> Step(f, n)]
           D == Duplicates(s, A)
<1>0. Len(s) \in Nat
  OBVIOUS
<1>1. \A m \in Nat : \E f : Upto(f, m)
  <2> DEFINE Without == {m \in Nat : ~ \E f : Upto(f, m)}
  <2> SUFFICES ASSUME Without # {} PROVE FALSE
    OBVIOUS
  <2>1. PICK x \in Without : \A y \in Without : ~ (y < x)
    <3> HIDE DEF Without
    <3>1. Without \in SUBSET Nat
      BY DEF Without
    <3> QED
      BY <3>1, Least
  <2>2. x # 0
    <3>1. Upto([n \in 0..0 |-> <<>>], 0)
      OBVIOUS
    <3> QED
      BY <3>1, <2>1
  <2>3. x - 1 \in Nat /\ x - 1 < x /\ x \in Nat
    BY <2>1, <2>2
  <2>4. PICK g : Upto(g, x - 1)
    BY <2>1, <2>3
  <2> DEFINE h == [n \in 0..x |-> Step(g, n)]
  <2>5. \A n \in 0..(x - 1) : h[n] = g[n]
    <3> HIDE DEF Step
    <3>1. \A n \in 0..(x - 1) : g[n] = Step(g, n) /\ n \in 0..x
      BY <2>3, <2>4
    <3> QED
      BY <3>1
  <2>6. \A n \in 0..x : Step(g, n) = Step(h, n)
    <3> SUFFICES ASSUME NEW n \in 0..x, n # 0 PROVE g[n - 1] = h[n - 1]
      OBVIOUS
    <3>1. n - 1 \in 0..(x - 1)
      BY <2>3
    <3> HIDE DEF h
    <3> QED
      BY <2>5, <3>1
  <2>7. Upto(h, x)
    <3> HIDE DEF Step
    <3> QED
      BY <2>6
  <2> QED
    BY <2>1, <2>7
<1>2. PICK f : Upto(f, Len(s)) /\ D = f[Len(s)]
  <2> DEFINE c == CHOOSE f : Upto(f, Len(s))
  <2>1. Upto(c, Len(s))
    BY <1>0, <1>1
  <2>2. D = c[Len(s)]
    BY DEF Duplicates
  <2> QED
    BY <2>1, <2>2
<1> DEFINE Good(n) == /\ f[n] \in Seq(S)
                      /\ Len(f[n]) <= n
                      /\ \A j \in 1..Len(f[n]) : \E k \in 1..n : f[n][j] = s[k]
                      /\ Distinct(s) => Distinct(f[n])
<1>3. \A n \in 0..Len(s) : Good(n)
  <2> DEFINE Bad == {n \in 0..Len(s) : ~ Good(n)}
  <2> SUFFICES ASSUME Bad # {} PROVE FALSE
    OBVIOUS
  <2>1. PICK x \in Bad : \A y \in Bad : ~ (y < x)
    <3> HIDE DEF Bad
    <3>1. Bad \in SUBSET Nat
      BY <1>0 DEF Bad
    <3> QED
      BY <3>1, Least
  <2>2. f[0] = <<>>
    BY <1>0, <1>2
  <2>3. x # 0
    <3>1. Good(0)
      BY <2>2 DEF Distinct
    <3> QED
      BY <3>1, <2>1
  <2>4. x - 1 \in 0..Len(s) /\ x - 1 < x /\ x \in 1..Len(s)
    BY <1>0, <2>1, <2>3
  <2>5. Good(x - 1)
    BY <2>1, <2>4
  <2>6. f[x] = IF s[x] \in A THEN Append(f[x - 1], s[x]) ELSE f[x - 1]
    <3>1. f[x] = Step(f, x)
      <4> HIDE DEF Step
      <4> QED
        BY <1>2, <2>4
    <3> QED
      BY <2>4, <3>1
  <2> DEFINE p == f[x - 1]
             e == s[x]
  <2>7. p \in Seq(S) /\ e \in S
    BY <2>4, <2>5
  <2>8. CASE f[x] = p
    <3>1. Good(x)
      <4> HIDE DEF p
      <4>1. 1..(x - 1) \subseteq 1..x
        BY <2>4
      <4>2. /\ Len(p) <= x - 1
            /\ \A j \in 1..Len(p) : \E k \in 1..(x - 1) : p[j] = s[k]
            /\ Distinct(s) => Distinct(p)
        BY <2>5 DEF p
      <4>3. Len(p) \in Nat
        BY <2>7
      <4>4. Len(p) <= x
        BY <2>4, <4>2, <4>3
      <4> QED
        BY <2>7, <2>8, <4>1, <4>2, <4>4
    <3> QED
      BY <2>1, <3>1
  <2>9. CASE f[x] = Append(p, e)
    <3>0. /\ Len(p) <= x - 1 /\ Len(p) \in Nat
          /\ \A j \in 1..Len(p) : \E k \in 1..(x - 1) : p[j] = s[k]
          /\ Distinct(s) => Distinct(p)
      BY <2>5
    <3>3. \A k \in 1..(x - 1) : k \in DOMAIN s /\ k # x /\ k \in 1..x
      BY <2>4
    <3>4. x \in DOMAIN s /\ e = s[x] /\ x \in 1..x
      BY <2>4
    <3> HIDE DEF p, e
    <3> DEFINE q == Append(p, e)
    <3>1. /\ Append(p, e) \in Seq(S) /\ Len(Append(p, e)) = Len(p) + 1
          /\ \A j \in 1..Len(p) : Append(p, e)[j] = p[j]
          /\ Append(p, e)[Len(p) + 1] = e
      BY <2>7, AppendProperties
    <3>5. DOMAIN p = 1..Len(p) /\ DOMAIN q = 1..Len(q) /\ Len(q) = Len(p) + 1
      BY <2>7, <3>1
    <3>2. (\A j \in 1..Len(p) : q[j] = p[j]) /\ q[Len(p) + 1] = e
      BY <3>1
    <3> HIDE DEF q
    <3>6. \A j \in DOMAIN q : (j \in DOMAIN p /\ q[j] = p[j]) \/ (j = Len(p) + 1 /\ q[j] = e)
      BY <3>0, <3>2, <3>5
    <3>7. \A j \in DOMAIN q : \E k \in 1..x : q[j] = s[k]
      BY <3>0, <3>3, <3>4, <3>5, <3>6
    <3>8. ASSUME Distinct(s) PROVE Distinct(q)
      <4>1. \A j \in DOMAIN p : p[j] # e
        BY <3>0, <3>3, <3>4, <3>5, <3>8 DEF Distinct
      <4> QED
        BY <3>0, <3>6, <3>8, <4>1 DEF Distinct
    <3>9. q \in Seq(S) /\ Len(q) <= x
      BY <2>4, <3>0, <3>1, <3>5 DEF q
    <3>10. f[x] = q
      BY <2>9 DEF q
    <3>11. Good(x)
      BY <3>5, <3>7, <3>8, <3>9, <3>10
    <3> QED
      BY <2>1, <3>11
  <2> QED
    BY <2>6, <2>8, <2>9
<1> QED
  <2>1. Good(Len(s))
    BY <1>0, <1>3
  <2> HIDE DEF D
  <2>2. /\ D \in Seq(S) /\ Len(D) <= Len(s) /\ (Distinct(s) => Distinct(D))
        /\ \A j \in 1..Len(D) : \E k \in 1..Len(s) : D[j] = s[k]
    BY <2>1, <1>2
  <2>3. DOMAIN D = 1..Len(D) /\ DOMAIN s = 1..Len(s)
    BY <2>2
  <2>4. Range(D) \subseteq Range(s)
    BY <2>2, <2>3 DEF Range
  <2> QED
    BY <2>2, <2>4 DEF D
LEMMA BillsOfMonth ==
  ASSUME ConstantsAssumption, NEW m \in 1..MaxMonths, NEW n \in 0..MaxInstances
  PROVE  /\ Bills(m, n) \in Seq(Payloads)
         /\ Len(Bills(m, n)) = n
         /\ Distinct(Bills(m, n))
         /\ \A x \in Range(Bills(m, n)) : x.month = m
<1>1. \A k \in 1..n : [month |-> m, instance |-> k] \in Payloads
  BY DEF Payloads, ConstantsAssumption
<1>2. Bills(m, n) \in [1..n -> Payloads] /\ n \in Nat
  BY <1>1 DEF Bills, ConstantsAssumption
<1>3. Bills(m, n) \in Seq(Payloads) /\ Len(Bills(m, n)) = n
  BY <1>2, SeqDef
<1>4. Distinct(Bills(m, n))
  BY DEF Distinct, Bills
<1>5. \A x \in Range(Bills(m, n)) : x.month = m
  BY DEF Range, Bills
<1> QED
  BY <1>3, <1>4, <1>5

(* Inserting the first pending failure leaves the table that is being      *)
(* filled the same as a whole.                                             *)
LEMMA InsertKeepsWhole ==
  ASSUME NEW S, NEW s \in Seq(S), NEW t \in Seq(S), t # <<>>
  PROVE  LET grown == Append(s, Head(t))
         IN  /\ grown \in Seq(S) /\ Len(grown) = Len(s) + 1
             /\ Tail(t) \in Seq(S) /\ Len(Tail(t)) = Len(t) - 1
             /\ grown \o Tail(t) = s \o t
             /\ Range(grown) = Range(s) \cup {Head(t)}
             /\ Range(t) = Range(Tail(t)) \cup {Head(t)}
<1> DEFINE grown == Append(s, Head(t))
           h == <<Head(t)>>
<1>1. /\ Head(t) \in S /\ h \in Seq(S)
      /\ Tail(t) \in Seq(S) /\ Len(Tail(t)) = Len(t) - 1
  BY HeadTailProperties
<1>2. grown \in Seq(S) /\ Len(grown) = Len(s) + 1 /\ grown = s \o h
  BY <1>1, AppendProperties, AppendIsConcat
<1>3. t = h \o Tail(t)
  BY <1>1
<1>4. grown \o Tail(t) = s \o t
  <2>1. (s \o h) \o Tail(t) = s \o (h \o Tail(t))
    BY <1>1, ConcatAssociative
  <2> QED
    BY <1>2, <1>3, <2>1
<1>5. Range(h) = {Head(t)}
  BY DEF Range
<1>6. Range(s \o h) = Range(s) \cup Range(h) /\ Range(h \o Tail(t)) = Range(h) \cup Range(Tail(t))
  BY <1>1, RangeConcatenation
<1> QED
  BY <1>1, <1>2, <1>3, <1>4, <1>5, <1>6

(* The parts of a list without repetition have none.                       *)
LEMMA DistinctParts ==
  ASSUME NEW S, NEW s \in Seq(S), NEW t \in Seq(S)
  PROVE  Distinct(s \o t) <=>
           Distinct(s) /\ Distinct(t) /\ Range(s) \cap Range(t) = {}
<1>1. /\ s \o t \in Seq(S)
      /\ Len(s \o t) = Len(s) + Len(t)
      /\ \A i \in 1 .. Len(s) + Len(t) : (s \o t)[i] = IF i <= Len(s) THEN s[i] ELSE t[i - Len(s)]
  BY ConcatProperties
<1>2. /\ DOMAIN s = 1..Len(s) /\ DOMAIN t = 1..Len(t) /\ DOMAIN (s \o t) = 1..(Len(s) + Len(t))
      /\ Len(s) \in Nat /\ Len(t) \in Nat
  BY <1>1
<1>3. /\ \A i \in 1..Len(s) : i \in DOMAIN (s \o t) /\ (s \o t)[i] = s[i]
      /\ \A i \in 1..Len(t) : Len(s) + i \in DOMAIN (s \o t) /\ (s \o t)[Len(s) + i] = t[i]
  BY <1>1, <1>2
<1>4. \A i \in DOMAIN (s \o t) : \/ i \in 1..Len(s)
                                 \/ i - Len(s) \in 1..Len(t) /\ i = Len(s) + (i - Len(s))
  BY <1>2
<1>5. ASSUME Distinct(s \o t) PROVE Distinct(s) /\ Distinct(t) /\ Range(s) \cap Range(t) = {}
  <2>1. Distinct(s) 
    BY <1>2, <1>3, <1>5 DEF Distinct
  <2> DEFINE w == s \o t
  <2>2. \A i \in 1..Len(t) : Len(s) + i \in DOMAIN w /\ w[Len(s) + i] = t[i]
    BY <1>3
  <2>3. \A i \in 1..Len(s) : i \in DOMAIN w /\ w[i] = s[i]
    BY <1>3
  <2>4. \A j, k \in DOMAIN w : w[j] = w[k] => j = k
    BY <1>5 DEF Distinct
  <2> HIDE DEF w
  <2>5. Distinct(t)
    <3> SUFFICES ASSUME NEW i \in 1..Len(t), NEW j \in 1..Len(t), t[i] = t[j] PROVE i = j
      BY <1>2 DEF Distinct
    <3>1. Len(s) + i = Len(s) + j
      BY <2>2, <2>4
    <3> QED
      BY <1>2, <3>1
  <2>6. \A i \in 1..Len(s), j \in 1..Len(t) : s[i] # t[j]
    <3> SUFFICES ASSUME NEW i \in 1..Len(s), NEW j \in 1..Len(t), s[i] = t[j] PROVE FALSE
      OBVIOUS
    <3>1. i = Len(s) + j
      BY <2>2, <2>3, <2>4
    <3> QED
      BY <1>2, <3>1
  <2> QED
    BY <1>2, <2>1, <2>5, <2>6 DEF Range
<1>6. ASSUME Distinct(s), Distinct(t), Range(s) \cap Range(t) = {} PROVE Distinct(s \o t)
  <2>1. \A i \in 1..Len(s), j \in 1..Len(t) : s[i] # t[j]
    BY <1>2, <1>6 DEF Range
  <2> QED
    BY <1>2, <1>3, <1>4, <1>6, <2>1 DEF Distinct
<1> QED
  BY <1>5, <1>6

-----------------------------------------------------------------------------
(* What SendPage does, without the operators on sequences.                 *)

Sent(r, failed) ==
  /\ failed \in Seq(Payloads)
  /\ Len(failed) <= Len(page[r])
  /\ Range(failed) \subseteq Range(page[r])
  /\ Distinct(page[r]) => Distinct(failed)
  /\ ~ItemRejects => Range(page[r]) \subseteq accepted' \cup Range(failed)
  /\ accepted \subseteq accepted'
  /\ accepted' \subseteq accepted \cup Range(page[r])
  /\ \/ /\ LastPage(r)
        /\ FinishAttempt(r, failures[r] \o failed)
        /\ skip' = [skip EXCEPT ![r] = 0]
        /\ failures' = [failures EXCEPT ![r] = <<>>]
     \/ /\ ~LastPage(r)
        /\ Await(r, "read")
        /\ skip' = [skip EXCEPT ![r] = @ + Len(page[r])]
        /\ failures' = [failures EXCEPT ![r] = @ \o failed]
        /\ UNCHANGED <<pending, reply>>

LEMMA SendPageSends ==
  ASSUME TypeOK, NEW r \in Runs, SendPage(r)
  PROVE  \E failed : Sent(r, failed)
<1> DEFINE p == page[r]
           duplicates == Duplicates(p, accepted)
           fresh == Range(p) \ accepted
<1>1. p \in Seq(Payloads)
  BY DEF TypeOK
<1>2. PICK failed \in {duplicates, CallFailures(r)}, taken \in SUBSET fresh :
        /\ \/ failed = duplicates /\ (taken = fresh \/ ItemRejects)
           \/ failed = CallFailures(r) /\ taken \in {{}, fresh}
        /\ accepted' = accepted \cup taken
        /\ IF LastPage(r)
             THEN /\ FinishAttempt(r, failures[r] \o failed)
                  /\ skip' = [skip EXCEPT ![r] = 0]
                  /\ failures' = [failures EXCEPT ![r] = <<>>]
             ELSE /\ Await(r, "read")
                  /\ skip' = [skip EXCEPT ![r] = @ + Len(page[r])]
                  /\ failures' = [failures EXCEPT ![r] = @ \o failed]
                  /\ UNCHANGED <<pending, reply>>
  BY DEF SendPage
<1>3. /\ duplicates \in Seq(Payloads) /\ Len(duplicates) <= Len(p)
      /\ Range(duplicates) \subseteq Range(p)
      /\ Distinct(p) => Distinct(duplicates)
  <2> HIDE DEF p
  <2> QED
    BY <1>1, DuplicatesAreSome
<1> HIDE DEF duplicates
<1>4. /\ failed \in Seq(Payloads) /\ Len(failed) <= Len(p)
      /\ Range(failed) \subseteq Range(p)
      /\ Distinct(p) => Distinct(failed)
  BY <1>1, <1>2, <1>3 DEF CallFailures
<1>5. ~ItemRejects => Range(p) \subseteq accepted' \cup Range(failed)
  BY <1>2 DEF CallFailures
<1>6. Sent(r, failed)
  BY <1>2, <1>4, <1>5 DEF Sent
<1> QED
  BY <1>6

-----------------------------------------------------------------------------
(* Types.  That nobody skips more rows than the table may have needs the   *)
(* sizes of everything that is on its way into the table.                  *)

RunFits(r) ==
  /\ Len(failures[r]) <= skip[r]
  /\ skip[r] + Len(page[r]) <= MaxInstances
  /\ pc[r] # "send" => page[r] = <<>>
  /\ pc[r] \notin {"read", "send"} => skip[r] = 0 /\ failures[r] = <<>>

TableFits ==
  /\ pc["job"] # "idle" => month # 0
  /\ Len(table) <= MaxInstances
  /\ Len(pending) <= MaxInstances
  /\ pc["job"] = "insert" => pending # <<>> /\ Len(table) + Len(pending) <= MaxInstances

SizesOK == TableFits /\ \A r \in Runs : RunFits(r)

LEMMA SizesInit == Init => TypeOK /\ SizesOK
<1> SUFFICES ASSUME Init PROVE TypeOK /\ SizesOK
  OBVIOUS
<1>1. <<>> \in Seq(Payloads) /\ Len(<<>>) = 0 /\ "job" \in Runs
  BY DEF Runs
<1>2. TypeOK
  <2>1. /\ pc \in [Runs -> JobSteps \cup AttemptSteps \cup {"idle", "done"}]
        /\ reply \in [Admins -> {"none", "200", "500"}] /\ watched \in [Admins -> SUBSET Payloads]
        /\ skip \in [Runs -> 0..MaxInstances]
        /\ month \in 0..MaxMonths /\ ran \in 0..MaxMonths
        /\ accepted \subseteq Payloads /\ due \subseteq Payloads
    BY ConstantsAssumption DEF Init, ConstantsAssumption
  <2>2. /\ page \in [Runs -> Seq(Payloads)] /\ failures \in [Runs -> Seq(Payloads)]
        /\ table \in Seq(Payloads) /\ pending \in Seq(Payloads)
    BY <1>1 DEF Init
  <2>3. attempt \in 0..3
    BY DEF Init
  <2>4. alerted \in BOOLEAN
    BY DEF Init
  <2> QED
    BY <2>1, <2>2, <2>3, <2>4 DEF TypeOK
<1>3. SizesOK
  BY <1>1, ConstantsAssumption DEF Init, SizesOK, TableFits, RunFits, ConstantsAssumption
<1> QED
  BY <1>2, <1>3

(* The end of the job on an error.                                         *)
LEMMA FailJobTypes ==
  ASSUME TypeOK, SizesOK, pc["job"] # "idle", FailJob,
         UNCHANGED <<month, accepted, reply, alerted, watched, ran, due>>,
         table' \in Seq(Payloads), Len(table') <= MaxInstances
  PROVE  TypeOK' /\ SizesOK'
<1>1. "job" \in Runs
  BY DEF Runs
<1>2. TypeOK'
  BY <1>1, ConstantsAssumption DEF FailJob, Await, TypeOK, JobSteps, ConstantsAssumption
<1>3. TableFits'
  BY <1>1, ConstantsAssumption DEF FailJob, Await, TypeOK, SizesOK, TableFits, ConstantsAssumption
<1>4. ASSUME NEW r \in Runs PROVE RunFits(r)'
  BY <1>1, <1>4, ConstantsAssumption DEF FailJob, Await, TypeOK, SizesOK, RunFits, ConstantsAssumption
<1> QED
  BY <1>2, <1>3, <1>4 DEF SizesOK

LEMMA FailAttemptTypes ==
  ASSUME TypeOK, SizesOK, NEW r \in Runs, pc[r] # "idle", FailAttempt(r),
         UNCHANGED <<month, table, accepted, history>>
  PROVE  TypeOK' /\ SizesOK'
<1>1. CASE r = "job"
  BY <1>1, FailJobTypes DEF FailAttempt, TypeOK, SizesOK, TableFits, history
<1>2. CASE r # "job"
  <2>1. r \in Admins /\ FailRetry(r) /\ UNCHANGED <<pending, attempt>> /\ "job" \in Runs
    BY <1>2 DEF FailAttempt, Runs
  <2>2. TypeOK'
    BY <1>2, <2>1, ConstantsAssumption DEF FailRetry, Await, TypeOK, ConstantsAssumption, history
  <2>3. TableFits'
    BY <1>2, <2>1 DEF FailRetry, Await, TypeOK, TableFits, SizesOK
  <2>4. ASSUME NEW q \in Runs PROVE RunFits(q)'
    BY <2>1, <2>4, ConstantsAssumption DEF FailRetry, Await, TypeOK, SizesOK, RunFits, ConstantsAssumption
  <2> QED
    BY <2>2, <2>3, <2>4 DEF SizesOK
<1> QED
  BY <1>1, <1>2

(* The end of the job.                                                     *)
LEMMA EndJobTypes ==
  ASSUME TypeOK, SizesOK, pc["job"] \in JobSteps, EndJob,
         UNCHANGED <<month, accepted, attempting, reply, ran, due, watched>>,
         table' \in {table, <<>>}, alerted' \in BOOLEAN
  PROVE  TypeOK' /\ SizesOK'
<1>0. /\ "job" \in Runs /\ <<>> \in Seq(Payloads) /\ Len(<<>>) = 0 /\ MaxInstances \in Nat
  BY ConstantsAssumption DEF Runs, ConstantsAssumption
<1>1. table' \in Seq(Payloads) /\ pc' = [pc EXCEPT !["job"] = "idle"] /\ attempt' = 0 /\ pending' = <<>>
  BY <1>0 DEF EndJob, Await, TypeOK
<1>2. UNCHANGED <<month, accepted, skip, page, failures, reply, ran, due, watched>>
  BY DEF attempting
<1>3. TypeOK'
  BY <1>0, <1>1, <1>2 DEF TypeOK
<1>4. TableFits'
  BY <1>0 DEF EndJob, Await, TypeOK, SizesOK, TableFits
<1>5. ASSUME NEW r \in Runs PROVE RunFits(r)'
  BY <1>0, <1>1, <1>2, <1>5 DEF TypeOK, SizesOK, RunFits, JobSteps
<1> QED
  BY <1>3, <1>4, <1>5 DEF SizesOK

LEMMA ReadPageTypes ==
  ASSUME TypeOK, SizesOK, NEW r \in Runs, ReadPage(r)
  PROVE  TypeOK' /\ SizesOK'
<1> DEFINE last == IF skip[r] + Limit < Len(table) THEN skip[r] + Limit ELSE Len(table)
           rows == SubSeq(table, skip[r] + 1, last)
<1>1. CASE FailAttempt(r)
  BY <1>1, FailAttemptTypes DEF ReadPage
<1>2. CASE ~FailAttempt(r)
  <2>1. /\ page' = [page EXCEPT ![r] = rows]
        /\ pc' = [pc EXCEPT ![r] = "send"]
        /\ UNCHANGED <<skip, failures, pending, attempt, reply>>
        /\ UNCHANGED <<month, table, accepted, history>>
        /\ pc[r] = "read"
    BY <1>2 DEF ReadPage, Await
  <2>2. /\ skip[r] \in 0..MaxInstances /\ Len(table) \in Nat /\ Limit \in Nat \ {0}
        /\ MaxInstances \in Nat /\ table \in Seq(Payloads) /\ Len(table) <= MaxInstances
    BY ConstantsAssumption DEF TypeOK, SizesOK, TableFits, ConstantsAssumption
  <2>3. last \in Nat /\ last <= Len(table)
    BY <2>2
  <2>4. /\ rows \in Seq(Payloads)
        /\ Len(rows) = IF skip[r] + 1 <= last THEN last - (skip[r] + 1) + 1 ELSE 0
    <3> HIDE DEF last
    <3>1. \A i \in (skip[r] + 1)..last : table[i] \in Payloads
      BY <2>2, <2>3
    <3>2. skip[r] + 1 \in Int /\ last \in Int
      BY <2>2, <2>3
    <3> QED
      BY <3>1, <3>2, SubSeqProperties
  <2>5. skip[r] + Len(rows) <= MaxInstances
    BY <2>2, <2>3, <2>4
  <2> HIDE DEF rows
  <2>6. TypeOK'
    BY <2>1, <2>4 DEF TypeOK, AttemptSteps, history
  <2>7. TableFits'
    BY <2>1 DEF TypeOK, SizesOK, TableFits
  <2>8. ASSUME NEW q \in Runs PROVE RunFits(q)'
    BY <2>1, <2>5, <2>8 DEF TypeOK, SizesOK, RunFits
  <2> QED
    BY <2>6, <2>7, <2>8 DEF SizesOK
<1> QED
  BY <1>1, <1>2

LEMMA SendPageTypes ==
  ASSUME TypeOK, SizesOK, NEW r \in Runs, SendPage(r)
  PROVE  TypeOK' /\ SizesOK'
<1>1. PICK failed : Sent(r, failed)
  BY SendPageSends
<1> DEFINE all == failures[r] \o failed
<1>2. /\ failures[r] \in Seq(Payloads) /\ failed \in Seq(Payloads)
      /\ Len(failed) <= Len(page[r]) /\ Len(page[r]) \in Nat /\ page[r] \in Seq(Payloads)
      /\ skip[r] \in 0..MaxInstances /\ MaxInstances \in Nat /\ "job" \in Runs
      /\ Len(failures[r]) <= skip[r] /\ skip[r] + Len(page[r]) <= MaxInstances
  BY <1>1, ConstantsAssumption DEF TypeOK, SizesOK, RunFits, Sent, ConstantsAssumption, Runs
<1>3. all \in Seq(Payloads) /\ Len(all) = Len(failures[r]) + Len(failed)
  BY <1>2, ConcatProperties
<1>4. /\ Len(all) <= skip[r] + Len(page[r]) /\ skip[r] + Len(page[r]) \in 0..MaxInstances
      /\ Len(all) \in Nat
  BY <1>2, <1>3
<1>5. accepted' \subseteq Payloads
  BY <1>1, <1>2, RangeOfSeq DEF TypeOK, Sent
<1>6. /\ UNCHANGED <<month, table, attempt, history>>
      /\ page' = [page EXCEPT ![r] = <<>>] /\ pc[r] = "send"
  BY DEF SendPage
<1> HIDE DEF all
<1>7. CASE LastPage(r)
  <2>1. /\ skip' = [skip EXCEPT ![r] = 0]
        /\ failures' = [failures EXCEPT ![r] = <<>>]
        /\ FinishAttempt(r, all)
    BY <1>1, <1>7 DEF Sent, all
  <2>2. CASE r = "job"
    <3>1. /\ \E step \in {"clear-all", "clear"} : pc' = [pc EXCEPT ![r] = step]
          /\ pending' = all /\ UNCHANGED reply
      BY <2>1, <2>2 DEF FinishAttempt, Await
    <3>2. TypeOK'
      BY <1>2, <1>3, <1>4, <1>5, <1>6, <2>1, <3>1 DEF TypeOK, JobSteps, history
    <3>3. TableFits'
      BY <1>2, <1>4, <1>6, <2>2, <3>1 DEF TypeOK, SizesOK, TableFits
    <3>4. ASSUME NEW q \in Runs PROVE RunFits(q)'
      BY <1>2, <1>6, <2>1, <3>1, <3>4 DEF TypeOK, SizesOK, RunFits
    <3> QED
      BY <3>2, <3>3, <3>4 DEF SizesOK
  <2>3. CASE r # "job"
    <3>1. /\ \E status \in {"200", "500"} : reply' = [reply EXCEPT ![r] = status]
          /\ pc' = [pc EXCEPT ![r] = "done"] /\ UNCHANGED pending
      BY <2>1, <2>3 DEF FinishAttempt, Await
    <3>2. TypeOK'
      BY <1>2, <1>5, <1>6, <2>1, <2>3, <3>1 DEF TypeOK, JobSteps, history, Runs
    <3>3. TableFits'
      BY <1>2, <1>6, <2>3, <3>1 DEF TypeOK, SizesOK, TableFits
    <3>4. ASSUME NEW q \in Runs PROVE RunFits(q)'
      BY <1>2, <1>6, <2>1, <3>1, <3>4 DEF TypeOK, SizesOK, RunFits
    <3> QED
      BY <3>2, <3>3, <3>4 DEF SizesOK
  <2> QED
    BY <2>2, <2>3
<1>8. CASE ~LastPage(r)
  <2>1. /\ pc' = [pc EXCEPT ![r] = "read"]
        /\ skip' = [skip EXCEPT ![r] = skip[r] + Len(page[r])]
        /\ failures' = [failures EXCEPT ![r] = all]
        /\ UNCHANGED <<pending, reply>>
    BY <1>1, <1>8 DEF Sent, Await, all, TypeOK
  <2>2. TypeOK'
    BY <1>2, <1>3, <1>4, <1>5, <1>6, <2>1 DEF TypeOK, AttemptSteps, history
  <2>3. TableFits'
    BY <1>2, <1>6, <2>1 DEF TypeOK, SizesOK, TableFits
  <2>4. ASSUME NEW q \in Runs PROVE RunFits(q)'
    BY <1>2, <1>4, <1>6, <2>1, <2>4 DEF TypeOK, SizesOK, RunFits
  <2> QED
    BY <2>2, <2>3, <2>4 DEF SizesOK
<1> QED
  BY <1>7, <1>8

LEMMA SizesStep ==
  ASSUME TypeOK, SizesOK, [Next]_vars
  PROVE  TypeOK' /\ SizesOK'
<1>0. /\ "job" \in Runs /\ Admins \subseteq Runs /\ MaxInstances \in Nat /\ MaxMonths \in Nat
      /\ <<>> \in Seq(Payloads) /\ Len(<<>>) = 0
  BY ConstantsAssumption DEF ConstantsAssumption, Runs
<1>1. CASE Tick
  <2>1. pc' = [pc EXCEPT !["job"] = "find"] \/ pc' = [pc EXCEPT !["job"] = "idle"]
    BY <1>1 DEF Tick, Await, FirstAwait
  <2>2. TypeOK'
    <3>1. month' \in 0..MaxMonths
      BY <1>0, <1>1 DEF Tick, TypeOK
    <3>2. watched' \in [Admins -> SUBSET Payloads] /\ pc' \in [Runs -> JobSteps \cup AttemptSteps \cup {"idle", "done"}]
      BY <1>1, <2>1 DEF Tick, TypeOK, JobSteps
    <3> QED
      BY <1>1, <3>1, <3>2 DEF Tick, TypeOK, attempting
  <2>3. SizesOK'
    BY <1>0, <1>1, <2>1 DEF Tick, TypeOK, SizesOK, TableFits, RunFits, attempting
  <2> QED
    BY <2>2, <2>3
<1>2. CASE FindInstances
  <2>1. CASE FailJob /\ UNCHANGED <<ran, due>>
    BY <1>2, <2>1, FailJobTypes DEF FindInstances, TypeOK, SizesOK, TableFits
  <2>2. CASE ~(FailJob /\ UNCHANGED <<ran, due>>)
    <3>1. PICK n \in 0..MaxInstances :
            /\ pending' = Bills(month, n)
            /\ due' = Range(Bills(month, n))
            /\ ran' = month
            /\ Await("job", "clear")
            /\ UNCHANGED <<attempting, attempt>>
      BY <1>2, <2>2 DEF FindInstances
    <3>2. month \in 1..MaxMonths
      BY <1>2 DEF FindInstances, TypeOK, SizesOK, TableFits
    <3>3. /\ pending' \in Seq(Payloads) /\ Len(pending') = n /\ due' \subseteq Payloads
      BY <3>1, <3>2, BillsOfMonth, ConstantsAssumption, RangeOfSeq
    <3>4. TypeOK'
      BY <1>0, <1>2, <3>1, <3>3 DEF FindInstances, TypeOK, JobSteps, attempting, Await
    <3>5. SizesOK'
      BY <1>0, <1>2, <3>1, <3>3 DEF FindInstances, TypeOK, SizesOK, TableFits, RunFits, attempting, Await
    <3> QED
      BY <3>4, <3>5
  <2> QED
    BY <2>1, <2>2
<1>3. CASE ClearTable
  <2>1. CASE FailJob /\ table' \in {table, <<>>}
    <3>1. table' \in Seq(Payloads) /\ Len(table') <= MaxInstances
      <4>1. table \in Seq(Payloads) /\ Len(table) <= MaxInstances
        BY DEF TypeOK, SizesOK, TableFits
      <4>2. table' = table \/ table' = <<>>
        BY <2>1
      <4>3. CASE table' = <<>>
        BY <1>0, <4>3
      <4> QED
        BY <4>1, <4>2, <4>3
    <3> QED
      BY <1>3, <2>1, <3>1, FailJobTypes DEF ClearTable, history
  <2>2. CASE ~(FailJob /\ table' \in {table, <<>>})
    <3>1. /\ table' = <<>> /\ AfterInserts(pending) /\ attempt' \in {1, attempt}
          /\ UNCHANGED <<attempting, pending>> /\ pc["job"] = "clear"
      BY <1>3, <2>2 DEF ClearTable
    <3>2. PICK step \in {"insert", "token", "delay"} : 
            /\ pc' = [pc EXCEPT !["job"] = step]
            /\ step = "insert" => pending # <<>>
      BY <3>1 DEF AfterInserts, Await
    <3>3. TypeOK'
      BY <1>0, <1>3, <3>1, <3>2 DEF ClearTable, TypeOK, JobSteps, AttemptSteps, attempting, history
    <3>4. TableFits'
      BY <1>0, <1>3, <3>1, <3>2 DEF ClearTable, TypeOK, SizesOK, TableFits
    <3>5. ASSUME NEW r \in Runs PROVE RunFits(r)'
      BY <1>0, <3>1, <3>2, <3>5 DEF TypeOK, SizesOK, RunFits, attempting
    <3> QED
      BY <3>3, <3>4, <3>5 DEF SizesOK
  <2> QED
    BY <2>1, <2>2
<1>4. CASE InsertFailure
  <2> DEFINE grown == Append(table, Head(pending))
  <2>1. /\ pending # <<>> /\ Len(table) + Len(pending) <= MaxInstances
        /\ table \in Seq(Payloads) /\ pending \in Seq(Payloads) /\ pc["job"] = "insert"
    BY <1>4 DEF InsertFailure, SizesOK, TableFits, TypeOK
  <2>2. /\ grown \in Seq(Payloads) /\ Len(grown) = Len(table) + 1
        /\ Tail(pending) \in Seq(Payloads) /\ Len(Tail(pending)) = Len(pending) - 1
    BY <2>1, InsertKeepsWhole
  <2>3. Len(grown) <= MaxInstances /\ Len(grown) + Len(Tail(pending)) <= MaxInstances
    BY <1>0, <2>1, <2>2
  <2> HIDE DEF grown
  <2>4. CASE FailJob
    BY <1>4, <2>2, <2>3, <2>4, FailJobTypes DEF InsertFailure, TypeOK, SizesOK, TableFits, history, grown
  <2>5. CASE ~FailJob
    <3>1. /\ table' = grown /\ pending' = Tail(pending) /\ AfterInserts(Tail(pending))
          /\ attempt' \in {1, attempt} /\ UNCHANGED attempting
          /\ UNCHANGED <<month, accepted, reply, history>>
      BY <1>4, <2>5 DEF InsertFailure, grown
    <3>2. PICK step \in {"insert", "token", "delay"} : 
            /\ pc' = [pc EXCEPT !["job"] = step]
            /\ step = "insert" => pending' # <<>>
      BY <3>1 DEF AfterInserts, Await
    <3>3. TypeOK'
      BY <1>0, <2>2, <3>1, <3>2 DEF TypeOK, JobSteps, AttemptSteps, attempting, history
    <3>4. TableFits'
      BY <1>0, <2>1, <2>2, <2>3, <3>1, <3>2 DEF SizesOK, TableFits, TypeOK
    <3>5. ASSUME NEW r \in Runs PROVE RunFits(r)'
      BY <1>0, <2>1, <3>1, <3>2, <3>5 DEF TypeOK, SizesOK, RunFits, attempting
    <3> QED
      BY <3>3, <3>4, <3>5 DEF SizesOK
  <2> QED
    BY <2>4, <2>5
<1>5. CASE Pause
  <2>1. CASE attempt < 3
    <3>1. /\ pc' = [pc EXCEPT !["job"] = "token"] /\ attempt' = attempt + 1 /\ UNCHANGED pending
          /\ UNCHANGED <<month, table, accepted, attempting, reply, history>> /\ pc["job"] = "delay"
      BY <1>5, <2>1 DEF Pause, Await
    <3>2. TypeOK'
      BY <1>0, <2>1, <3>1 DEF TypeOK, AttemptSteps, attempting, history
    <3>3. SizesOK'
      BY <1>0, <3>1 DEF TypeOK, SizesOK, TableFits, RunFits, attempting
    <3> QED
      BY <3>2, <3>3
  <2>2. CASE ~(attempt < 3)
    <3>1. EndJob /\ UNCHANGED <<month, table, accepted, attempting, reply, history>>
      BY <1>5, <2>2 DEF Pause
    <3> QED
      BY <1>5, <3>1, EndJobTypes DEF Pause, JobSteps, history, TypeOK, SizesOK, TableFits
  <2> QED
    BY <2>1, <2>2
<1>6. CASE ClearAll
  <2>1. CASE FailJob /\ table' \in {table, <<>>}
    <3>1. table' \in Seq(Payloads) /\ Len(table') <= MaxInstances
      <4>1. table \in Seq(Payloads) /\ Len(table) <= MaxInstances
        BY DEF TypeOK, SizesOK, TableFits
      <4>2. table' = table \/ table' = <<>>
        BY <2>1
      <4>3. CASE table' = <<>>
        BY <1>0, <4>3
      <4> QED
        BY <4>1, <4>2, <4>3
    <3> QED
      BY <1>6, <2>1, <3>1, FailJobTypes DEF ClearAll, history
  <2>2. CASE ~(FailJob /\ table' \in {table, <<>>})
    <3>1. table' = <<>> /\ EndJob /\ UNCHANGED attempting
      BY <1>6, <2>2 DEF ClearAll
    <3> QED
      BY <1>0, <1>6, <3>1, EndJobTypes DEF ClearAll, JobSteps, history, TypeOK
  <2> QED
    BY <2>1, <2>2
<1>7. CASE Notify
  BY <1>7, EndJobTypes DEF Notify, JobSteps, TypeOK, SizesOK, TableFits
<1>8. CASE Crash
  <2>1. TypeOK'
    BY <1>0, <1>8 DEF Crash, TypeOK, history
  <2>2. SizesOK'
    BY <1>0, <1>8 DEF Crash, TypeOK, SizesOK, TableFits, RunFits
  <2> QED
    BY <2>1, <2>2
<1>9. ASSUME NEW a \in Admins, ReceiveRetry(a) PROVE TypeOK' /\ SizesOK'
  <2>1. Range(table) \subseteq Payloads
    BY RangeOfSeq DEF TypeOK
  <2>2. TypeOK'
    BY <1>0, <1>9, <2>1 DEF ReceiveRetry, Await, TypeOK, AttemptSteps, attempting
  <2>3. SizesOK'
    BY <1>0, <1>9, ConstantsAssumption DEF ReceiveRetry, Await, TypeOK, SizesOK, TableFits, RunFits, attempting, ConstantsAssumption
  <2> QED
    BY <2>2, <2>3
<1>10. ASSUME NEW r \in Runs, FetchToken(r) PROVE TypeOK' /\ SizesOK'
  <2>1. CASE FailAttempt(r)
    BY <1>10, <2>1, FailAttemptTypes DEF FetchToken
  <2>2. CASE ~FailAttempt(r)
    BY <1>0, <1>10, <2>2 DEF FetchToken, Await, TypeOK, AttemptSteps, SizesOK, TableFits, RunFits, attempting, history
  <2> QED
    BY <2>1, <2>2
<1>11. CASE UNCHANGED vars
  BY <1>11 DEF vars, TypeOK, SizesOK, TableFits, RunFits
<1> QED
  BY <1>0, <1>1, <1>2, <1>3, <1>4, <1>5, <1>6, <1>7, <1>8, <1>9, <1>10, <1>11,
     ReadPageTypes, SendPageTypes DEF Next, JobStep, Attempt

(* Every reachable state is well typed: nobody skips more rows than there  *)
(* are instances, and the job makes three attempts at most.                *)
THEOREM BillingTypeCorrect == Spec => []TypeOK
<1>1. Init => TypeOK /\ SizesOK
  BY SizesInit
<1>2. TypeOK /\ SizesOK /\ [Next]_vars => (TypeOK /\ SizesOK)'
  BY SizesStep
<1> QED
  BY <1>1, <1>2, PTL DEF Spec

-----------------------------------------------------------------------------
(* Who changes what.                                                       *)

Untouched(r) ==
  /\ pc'[r] = pc[r]
  /\ skip'[r] = skip[r]
  /\ page'[r] = page[r]
  /\ failures'[r] = failures[r]

LEMMA AttemptsAreApart ==
  ASSUME TypeOK, NEW r \in Runs, Attempt(r), NEW q \in Runs, q # r
  PROVE  Untouched(q) /\ (q \in Admins => reply'[q] = reply[q])
<1>1. CASE FetchToken(r) \/ ReadPage(r)
  <2>1. CASE FailAttempt(r)
    BY <1>1, <2>1
    DEF FetchToken, ReadPage, FailAttempt, FailJob, FailRetry, Await, TypeOK, Untouched
  <2>2. CASE ~FailAttempt(r)
    BY <1>1, <2>2 DEF FetchToken, ReadPage, Await, TypeOK, Untouched, attempting
  <2> QED
    BY <2>1, <2>2
<1>2. CASE SendPage(r)
  <2>1. PICK failed : Sent(r, failed)
    BY <1>2, SendPageSends
  <2>2. page'[q] = page[q]
    BY <1>2 DEF SendPage, TypeOK
  <2>3. skip'[q] = skip[q] /\ failures'[q] = failures[q]
    BY <2>1 DEF Sent, TypeOK
  <2>4. pc'[q] = pc[q] /\ (q \in Admins => reply'[q] = reply[q])
    BY <2>1 DEF Sent, FinishAttempt, Await, TypeOK
  <2> QED
    BY <2>2, <2>3, <2>4 DEF Untouched
<1> QED
  BY <1>1, <1>2 DEF Attempt

LEMMA RetriesLeaveJob ==
  ASSUME TypeOK, NEW a \in Admins, ReceiveRetry(a) \/ Attempt(a)
  PROVE  /\ UNCHANGED <<month, table, pending, attempt, ran, due, alerted>>
         /\ accepted \subseteq accepted'
         /\ Untouched("job")
<1>0. a # "job" /\ a \in Runs /\ "job" \in Runs
  BY ConstantsAssumption DEF ConstantsAssumption, Runs
<1>1. CASE ReceiveRetry(a)
  BY <1>0, <1>1 DEF ReceiveRetry, Await, TypeOK, Untouched, attempting
<1>2. CASE Attempt(a)
  <2>1. Untouched("job")
    BY <1>0, <1>2, AttemptsAreApart
  <2>2. CASE FetchToken(a) \/ ReadPage(a)
    BY <1>0, <2>1, <2>2 DEF FetchToken, ReadPage, FailAttempt, FailRetry, history
  <2>3. CASE SendPage(a)
    <3>1. PICK failed : Sent(a, failed)
      BY <1>0, <2>3, SendPageSends
    <3> QED
      BY <1>0, <2>1, <2>3, <3>1 DEF SendPage, Sent, FinishAttempt, history
  <2> QED
    BY <1>2, <2>2, <2>3 DEF Attempt
<1> QED
  BY <1>1, <1>2

LEMMA JobLeavesRetries ==
  ASSUME TypeOK, Tick \/ JobStep, NEW a \in Admins
  PROVE  Untouched(a) /\ reply'[a] = reply[a] /\ accepted \subseteq accepted'
<1>0. a # "job" /\ a \in Runs /\ "job" \in Runs
  BY ConstantsAssumption DEF ConstantsAssumption, Runs
<1>1. CASE Tick
  BY <1>0, <1>1 DEF Tick, Await, TypeOK, Untouched, attempting
<1>2. CASE Attempt("job")
  <2>1. Untouched(a) /\ reply'[a] = reply[a]
    BY <1>0, <1>2, AttemptsAreApart
  <2>2. accepted \subseteq accepted'
    <3>1. CASE SendPage("job")
      BY <1>0, <3>1, SendPageSends DEF Sent
    <3> QED
      BY <1>2, <3>1 DEF Attempt, FetchToken, ReadPage
  <2> QED
    BY <2>1, <2>2
<1>3. CASE FailJob /\ UNCHANGED <<accepted, reply>>
  BY <1>0, <1>3 DEF FailJob, Await, TypeOK, Untouched
<1>4. ASSUME NEW step, Await("job", step), UNCHANGED <<accepted, reply, attempting>>
      PROVE  Untouched(a) /\ reply'[a] = reply[a] /\ accepted \subseteq accepted'
  BY <1>0, <1>4 DEF Await, TypeOK, Untouched, attempting
<1>5. CASE FindInstances
  BY <1>3, <1>4, <1>5 DEF FindInstances
<1>6. CASE ClearTable
  BY <1>3, <1>4, <1>6 DEF ClearTable, AfterInserts
<1>7. CASE InsertFailure
  BY <1>3, <1>4, <1>7 DEF InsertFailure, AfterInserts
<1>8. CASE Pause
  BY <1>4, <1>8 DEF Pause, EndJob
<1>9. CASE ClearAll \/ Notify
  BY <1>3, <1>4, <1>9 DEF ClearAll, Notify, EndJob
<1> QED
  BY <1>1, <1>2, <1>5, <1>6, <1>7, <1>8, <1>9 DEF JobStep

-----------------------------------------------------------------------------
(* When the job is over its month is listed, or an operator is told.       *)

JobOK == pc["job"] \notin {"idle", "find", "notify"} => ran = month

(* The job is not over, or its month is listed or told of.                 *)
Accounted == pc["job"] # "idle" => pc'["job"] # "idle" \/ ran' = month' \/ alerted'

LEMMA JobStepOK ==
  ASSUME TypeOK, JobOK, ~Crashes, ~AlertsFail, [Next]_vars
  PROVE  JobOK' /\ Accounted
<1> USE DEF JobOK, Accounted
<1>0. "job" \in Runs
  BY DEF Runs
<1>1. CASE Tick
  BY <1>0, <1>1 DEF Tick, FirstAwait, Await, TypeOK
<1>2. ASSUME FailJob PROVE JobOK' /\ Accounted
  BY <1>0, <1>2 DEF FailJob, Await, TypeOK
<1>3. ASSUME NEW step \in JobSteps \cup AttemptSteps, Await("job", step),
             pc["job"] \notin {"idle", "find", "notify"}, UNCHANGED <<ran, month>>
      PROVE  JobOK' /\ Accounted
  BY <1>0, <1>3 DEF Await, TypeOK, JobSteps, AttemptSteps
<1>4. ASSUME EndJob, ran' = month' \/ alerted' PROVE JobOK' /\ Accounted
  BY <1>0, <1>4 DEF EndJob, Await, TypeOK
<1>5. CASE FindInstances
  <2>1. CASE ran' = month /\ Await("job", "clear")
    BY <1>0, <1>5, <2>1 DEF FindInstances, Await, TypeOK
  <2> QED
    BY <1>2, <1>5, <2>1 DEF FindInstances
<1>6. CASE ClearTable
  BY <1>2, <1>3, <1>6 DEF ClearTable, AfterInserts, JobSteps, AttemptSteps, history
<1>7. CASE InsertFailure
  BY <1>2, <1>3, <1>7 DEF InsertFailure, AfterInserts, JobSteps, AttemptSteps, history
<1>8. CASE Attempt("job")
  <2>1. CASE FetchToken("job") \/ ReadPage("job")
    BY <1>2, <1>3, <2>1
    DEF FetchToken, ReadPage, FailAttempt, JobSteps, AttemptSteps, history
  <2>2. CASE SendPage("job")
    <3>1. PICK failed : Sent("job", failed)
      BY <1>0, <2>2, SendPageSends
    <3>2. \E step \in JobSteps \cup AttemptSteps : Await("job", step)
      BY <3>1 DEF Sent, FinishAttempt, JobSteps, AttemptSteps
    <3>3. pc["job"] = "send" /\ UNCHANGED <<ran, month>>
      BY <2>2 DEF SendPage, history
    <3> QED
      BY <1>3, <3>2, <3>3
  <2> QED
    BY <1>8, <2>1, <2>2 DEF Attempt
<1>9. CASE Pause
  BY <1>3, <1>4, <1>9 DEF Pause, history, JobSteps, AttemptSteps
<1>10. CASE ClearAll
  BY <1>2, <1>4, <1>10 DEF ClearAll, history
<1>11. CASE Notify
  BY <1>4, <1>11 DEF Notify
<1>12. ASSUME NEW a \in Admins, ReceiveRetry(a) \/ Attempt(a) PROVE JobOK' /\ Accounted
  BY <1>12, RetriesLeaveJob DEF Untouched
<1>13. CASE UNCHANGED vars
  BY <1>13 DEF vars
<1> QED
  BY <1>1, <1>5, <1>6, <1>7, <1>8, <1>9, <1>10, <1>11, <1>12, <1>13 DEF Next, JobStep, Crash

(* If the process does not end and the notification arrives, a job that    *)
(* has got as far as its query has, when it is over, listed the instances  *)
(* of its month or told an operator that it could not, whatever calls fail *)
(* and whatever administrators retry meanwhile.                            *)
THEOREM JobAlwaysEndsListedOrTold ==
  ASSUME ~Crashes, ~AlertsFail
  PROVE  Spec => JobEndsListedOrTold
<1> DEFINE Inv == TypeOK /\ SizesOK /\ JobOK
<1>1. Init => Inv
  BY SizesInit DEF Init, JobOK, Runs
<1>2. Inv /\ [Next]_vars => Inv'
  BY SizesStep, JobStepOK
<1>3. Inv /\ [Next]_vars =>
        [pc["job"] # "idle" /\ pc'["job"] = "idle" => ran' = month' \/ alerted']_vars
  BY JobStepOK DEF Accounted
<1> QED
  BY <1>1, <1>2, <1>3, PTL DEF Spec, JobEndsListedOrTold

-----------------------------------------------------------------------------
(* The job as it is handed to the CronJob.                                 *)

(* Nothing is listed, kept or sent, and nobody is told.                    *)
NothingHappens ==
  /\ pc["job"] = "idle"
  /\ table = <<>> /\ accepted = {} /\ pending = <<>>
  /\ \A r \in Runs : page[r] = <<>>
  /\ ran = 0 /\ ~alerted

LEMMA NothingHappensStep ==
  ASSUME TypeOK, NothingHappens, Receiver = "cronjob", [Next]_vars
  PROVE  NothingHappens'
<1> USE DEF NothingHappens
<1>0. "job" \in Runs
  BY DEF Runs
<1>1. CASE Tick
  BY <1>0, <1>1 DEF Tick, FirstAwait, Await, TypeOK, attempting
<1>2. ~JobStep
  BY DEF JobStep, FindInstances, ClearTable, InsertFailure, Attempt, FetchToken, ReadPage,
     SendPage, Pause, ClearAll, Notify
<1>3. ASSUME NEW a \in Admins, ReceiveRetry(a) PROVE NothingHappens'
  BY <1>0, <1>3, ConstantsAssumption DEF ReceiveRetry, Await, TypeOK, attempting
<1>4. ASSUME NEW a \in Admins, Attempt(a) PROVE NothingHappens'
  <2>1. a \in Runs /\ a # "job"
    BY ConstantsAssumption DEF Runs
  <2>2. UNCHANGED <<table, ran, alerted>>
    BY <1>4 DEF Attempt, FetchToken, ReadPage, SendPage, history
  <2>3. UNCHANGED pending /\ pc'["job"] = pc["job"]
    BY <1>4, RetriesLeaveJob DEF Untouched
  <2>4. accepted' = {}
    <3>1. CASE SendPage(a)
      BY <2>1, <3>1 DEF SendPage, Range
    <3> QED
      BY <1>4, <3>1 DEF Attempt, FetchToken, ReadPage
  <2>5. \A r \in Runs : page'[r] = <<>>
    <3>1. page' = page \/ page' = [page EXCEPT ![a] = <<>>]
      <4>1. CASE ReadPage(a)
        <5>1. SubSeq(table, skip[a] + 1,
                IF skip[a] + Limit < Len(table) THEN skip[a] + Limit ELSE Len(table)) = <<>>
          BY <2>1, ConstantsAssumption DEF TypeOK
        <5> QED
          BY <2>1, <4>1, <5>1 DEF ReadPage, FailAttempt, FailRetry
      <4> QED
        BY <1>4, <2>1, <4>1 DEF Attempt, FetchToken, SendPage, FailAttempt, FailRetry, attempting
    <3> QED
      BY <2>1, <3>1 DEF TypeOK
  <2> QED
    BY <2>2, <2>3, <2>4, <2>5
<1>5. CASE Crash
  BY <1>0, <1>5 DEF Crash, history
<1>6. CASE UNCHANGED vars
  BY <1>6 DEF vars
<1> QED
  BY <1>1, <1>2, <1>3, <1>4, <1>5, <1>6 DEF Next

(* With the receiver the constructor gives it, no job of any month ever    *)
(* runs, and no usage is ever sent: it is not a matter of what fails or    *)
(* overlaps.                                                               *)
THEOREM UnboundJobNeverRuns ==
  ASSUME Receiver = "cronjob"
  PROVE  Spec => [](accepted = {} /\ (month # 0 => ~MonthlyJobRuns))
<1> DEFINE Inv == TypeOK /\ SizesOK /\ NothingHappens
<1>1. Init => Inv
  BY SizesInit DEF Init, NothingHappens, Runs
<1>2. Inv /\ [Next]_vars => Inv'
  BY SizesStep, NothingHappensStep
<1>3. Inv => accepted = {} /\ (month # 0 => ~MonthlyJobRuns)
  BY DEF NothingHappens, MonthlyJobRuns
<1> QED
  BY <1>1, <1>2, <1>3, PTL DEF Spec

-----------------------------------------------------------------------------
(* An attempt that the table is left alone during.                         *)

Read(r) == {table[k] : k \in 1..skip[r]}

(* It has read the first rows of the table, is sending the next, and knows *)
(* what failed of those it has sent.                                       *)
AttemptOK(r) ==
  /\ skip[r] + Len(page[r]) <= Len(table)
  /\ \A k \in 1..Len(page[r]) : page[r][k] = table[skip[r] + k]
  /\ pc[r] = "send" /\ LastPage(r) => skip[r] + Len(page[r]) = Len(table)
  /\ Range(failures[r]) \subseteq Read(r)
  /\ Distinct(failures[r])
  /\ ~ItemRejects => Read(r) \subseteq accepted \cup Range(failures[r])

LEMMA AttemptBegins ==
  ASSUME NEW r \in Runs, skip'[r] = 0, page'[r] = <<>>, failures'[r] = <<>>,
         pc'[r] # "send", table' \in Seq(Payloads)
  PROVE  AttemptOK(r)'
<1>1. Range(<<>>) = {} /\ Distinct(<<>>) /\ Len(<<>>) = 0
  BY DEF Range, Distinct
<1>2. Read(r)' = {}
  BY DEF Read
<1>3. Len(table') \in Nat
  OBVIOUS
<1> QED
  BY <1>1, <1>2, <1>3 DEF AttemptOK

LEMMA AttemptContinues ==
  ASSUME NEW r \in Runs, AttemptOK(r), table' = table, accepted \subseteq accepted',
         skip'[r] = skip[r], page'[r] = page[r], failures'[r] = failures[r],
         pc'[r] = "send" => pc[r] = "send"
  PROVE  AttemptOK(r)'
<1>1. Read(r)' = Read(r)
  BY DEF Read
<1> QED
  BY <1>1 DEF AttemptOK, LastPage

LEMMA AttemptReads ==
  ASSUME TypeOK, SizesOK, NEW r \in Runs, AttemptOK(r), ReadPage(r), ~FailAttempt(r)
  PROVE  AttemptOK(r)'
<1> DEFINE last == IF skip[r] + Limit < Len(table) THEN skip[r] + Limit ELSE Len(table)
           rows == SubSeq(table, skip[r] + 1, last)
<1>1. /\ page' = [page EXCEPT ![r] = rows] /\ UNCHANGED <<table, skip, failures, accepted>>
      /\ pc[r] = "read"
  BY DEF ReadPage
<1>2. /\ skip[r] \in Nat /\ Len(table) \in Nat /\ Limit \in Nat \ {0} /\ table \in Seq(Payloads)
      /\ skip[r] <= Len(table)
  BY <1>1, ConstantsAssumption DEF TypeOK, SizesOK, RunFits, AttemptOK, ConstantsAssumption
<1>3. last \in Nat /\ skip[r] <= last /\ last <= Len(table)
  BY <1>2
<1>4. last - skip[r] < Limit => last = Len(table)
  BY <1>2
<1>5. /\ Len(rows) = last - skip[r]
      /\ \A k \in 1..(last - skip[r]) : rows[k] = table[skip[r] + k]
  <2> HIDE DEF last
  <2>1. \A i \in (skip[r] + 1)..last : table[i] \in Payloads
    BY <1>2, <1>3
  <2>2. skip[r] + 1 \in Int /\ last \in Int
    BY <1>2, <1>3
  <2>3. /\ Len(rows) = IF skip[r] + 1 <= last THEN last - (skip[r] + 1) + 1 ELSE 0
        /\ \A i \in 1..(last - (skip[r] + 1) + 1) : rows[i] = table[(skip[r] + 1) + i - 1]
    BY <2>1, <2>2, SubSeqProperties
  <2>4. last - (skip[r] + 1) + 1 = last - skip[r]
    BY <1>2, <1>3
  <2>5. \A k \in 1..(last - skip[r]) : (skip[r] + 1) + k - 1 = skip[r] + k
    BY <1>2, <1>3
  <2> QED
    BY <1>2, <1>3, <2>3, <2>4, <2>5
<1> HIDE DEF rows, last
<1>6. page'[r] = rows /\ Read(r)' = Read(r)
  BY <1>1 DEF TypeOK, Read
<1>7. skip[r] + Len(rows) = last
  BY <1>2, <1>3, <1>5
<1>8. /\ skip'[r] + Len(page'[r]) <= Len(table')
      /\ \A k \in 1..Len(page'[r]) : page'[r][k] = table'[skip'[r] + k]
      /\ LastPage(r)' => skip'[r] + Len(page'[r]) = Len(table')
  BY <1>1, <1>3, <1>4, <1>5, <1>6, <1>7 DEF LastPage
<1> QED
  BY <1>1, <1>6, <1>8 DEF AttemptOK

(* Sending a page accounts for its rows as well.                           *)
LEMMA AttemptSends ==
  ASSUME TypeOK, NEW r \in Runs, AttemptOK(r), Distinct(table), SendPage(r),
         NEW failed, Sent(r, failed)
  PROVE  LET all == failures[r] \o failed IN
           /\ all \in Seq(Payloads)
           /\ Distinct(all)
           /\ Range(all) = Range(failures[r]) \cup Range(failed)
           /\ Range(all) \subseteq Range(table)
           /\ ~LastPage(r) => AttemptOK(r)'
           /\ LastPage(r) /\ ~ItemRejects => Range(table) \subseteq accepted' \cup Range(all)
<1> DEFINE all == failures[r] \o failed
           p == page[r]
           end == skip[r] + Len(p)
           sent == {table[k] : k \in 1..end}
<1>1. /\ failures[r] \in Seq(Payloads) /\ failed \in Seq(Payloads)
      /\ table \in Seq(Payloads) /\ p \in Seq(Payloads) /\ skip[r] \in Nat
      /\ Len(table) \in Nat /\ Len(p) \in Nat /\ DOMAIN table = 1..Len(table)
      /\ DOMAIN p = 1..Len(p)
  BY ConstantsAssumption DEF TypeOK, Sent, ConstantsAssumption
<1>2. /\ end \in Nat /\ end <= Len(table)
      /\ \A k \in 1..Len(p) : p[k] = table[skip[r] + k]
  BY <1>1 DEF AttemptOK
<1>3. /\ \A k \in 1..Len(p) : skip[r] + k \in 1..end /\ skip[r] + k \in DOMAIN table
      /\ \A k \in 1..skip[r] : k \in 1..end /\ k \in DOMAIN table
      /\ \A k \in 1..end : \/ k \in 1..skip[r]
                           \/ k - skip[r] \in 1..Len(p) /\ k = skip[r] + (k - skip[r])
  <2> HIDE DEF p
  <2> QED
    BY <1>1, <1>2
<1>4. Distinct(p) 
  <2> SUFFICES ASSUME NEW j \in 1..Len(p), NEW k \in 1..Len(p), p[j] = p[k] PROVE j = k
    BY <1>1 DEF Distinct
  <2>1. skip[r] + j = skip[r] + k
    BY <1>2, <1>3 DEF Distinct
  <2> HIDE DEF p
  <2> QED
    BY <1>1, <2>1
<1>5. Range(p) \cap Read(r) = {}
  <2> SUFFICES ASSUME NEW j \in 1..Len(p), NEW k \in 1..skip[r], p[j] = table[k] PROVE FALSE
    BY <1>1 DEF Range, Read
  <2>1. skip[r] + j = k
    BY <1>2, <1>3 DEF Distinct
  <2> HIDE DEF p
  <2> QED
    BY <1>1, <2>1
<1>6. sent = Read(r) \cup Range(p)
  <2>1. ASSUME NEW k \in 1..end PROVE table[k] \in Read(r) \cup Range(p)
    <3>1. CASE k \in 1..skip[r]
      BY <3>1 DEF Read
    <3>2. CASE k - skip[r] \in 1..Len(p) /\ k = skip[r] + (k - skip[r])
      BY <1>1, <1>2, <3>2 DEF Range
    <3> QED
      BY <1>3, <3>1, <3>2
  <2>2. Read(r) \cup Range(p) \subseteq sent
    BY <1>1, <1>2, <1>3 DEF Range, Read
  <2> QED
    BY <2>1, <2>2
<1>7. sent \subseteq Range(table)
  BY <1>1, <1>2 DEF Range
<1>8. /\ Distinct(failures[r]) /\ Distinct(failed)
      /\ Range(failures[r]) \subseteq Read(r) /\ Range(failed) \subseteq Range(p)
  BY <1>4 DEF AttemptOK, Sent
<1>9. /\ Distinct(all) /\ all \in Seq(Payloads)
      /\ Range(all) = Range(failures[r]) \cup Range(failed)
  BY <1>1, <1>5, <1>8, DistinctParts, ConcatProperties, RangeConcatenation
<1>10. ~ItemRejects => sent \subseteq accepted' \cup Range(all)
  BY <1>6, <1>9 DEF AttemptOK, Sent
<1>11. Range(all) \subseteq sent
  BY <1>6, <1>8, <1>9
<1>12. ASSUME ~LastPage(r) PROVE AttemptOK(r)'
  <2>1. /\ skip'[r] = end /\ failures'[r] = all /\ page'[r] = <<>> /\ table' = table
        /\ pc'[r] = "read"
    BY <1>12 DEF Sent, SendPage, TypeOK, Await
  <2> HIDE DEF end, all
  <2>2. Read(r)' = sent
    BY <2>1 DEF Read
  <2>3. Len(page'[r]) = 0 /\ skip'[r] + Len(page'[r]) = end
    BY <1>2, <2>1
  <2> QED
    BY <1>2, <1>9, <1>10, <1>11, <2>1, <2>2, <2>3 DEF AttemptOK
<1>13. ASSUME LastPage(r) PROVE sent = Range(table)
  <2>1. end = Len(table)
    BY <1>13 DEF AttemptOK, SendPage
  <2> QED
    BY <1>1, <2>1 DEF Range
<1> QED
  BY <1>7, <1>9, <1>10, <1>11, <1>12, <1>13

-----------------------------------------------------------------------------
(* The table.                                                              *)

(* Neither what is in the table nor what is on its way there, and while it *)
(* is being filled not the two together, mixes months or doubles a bill.   *)
TableOK ==
  /\ Distinct(table) /\ OneMonth(Range(table))
  /\ pc["job"] = "clear" => Distinct(pending) /\ OneMonth(Range(pending))
  /\ pc["job"] = "insert" => Distinct(table \o pending) /\ OneMonth(Range(table \o pending))
  /\ pc["job"] \in AttemptSteps => AttemptOK("job")

LEMMA NoneIsFine == Distinct(<<>>) /\ OneMonth(Range(<<>>)) /\ Range(<<>>) = {}
  BY DEF Distinct, OneMonth, Range

(* Wherever the job fails, only the table is left to be right.             *)
LEMMA TableFails ==
  ASSUME TypeOK, FailJob, Distinct(table'), OneMonth(Range(table'))
  PROVE  TableOK'
<1>1. pc'["job"] = "notify"
  BY DEF FailJob, Await, TypeOK, Runs
<1> QED
  BY <1>1 DEF TableOK, AttemptSteps

LEMMA TableIdles ==
  ASSUME TableOK, table' \in {table, <<>>}, pc'["job"] \in {"idle", "find", "delay", "clear-all", "notify"}
  PROVE  TableOK'
  BY NoneIsFine DEF TableOK, AttemptSteps

LEMMA TableBegins ==
  ASSUME TypeOK', SizesOK', Distinct(table'), OneMonth(Range(table')), pc'["job"] = "token"
  PROVE  TableOK'
<1>1. /\ "job" \in Runs /\ skip'["job"] = 0 /\ failures'["job"] = <<>> /\ page'["job"] = <<>>
      /\ table' \in Seq(Payloads)
  BY DEF SizesOK, RunFits, Runs, TypeOK
<1>2. AttemptOK("job")'
  BY <1>1, AttemptBegins
<1> QED
  BY <1>2 DEF TableOK

LEMMA TableStep ==
  ASSUME TypeOK, SizesOK, TypeOK', SizesOK', TableOK, [Next]_vars
  PROVE  TableOK'
<1>0. "job" \in Runs /\ table \in Seq(Payloads) /\ pending \in Seq(Payloads)
  BY DEF Runs, TypeOK
<1>1. CASE Tick
  BY <1>0, <1>1, TableIdles DEF Tick, FirstAwait, Await, TypeOK
<1>2. CASE FindInstances
  <2>1. CASE FailJob
    BY <1>2, <2>1, TableFails DEF FindInstances, TableOK
  <2>2. CASE ~FailJob
    <3>1. PICK n \in 0..MaxInstances : pending' = Bills(month, n) /\ Await("job", "clear")
      BY <1>2, <2>2 DEF FindInstances
    <3>2. month \in 1..MaxMonths
      BY <1>2 DEF FindInstances, TypeOK, SizesOK, TableFits
    <3>3. Distinct(pending') /\ OneMonth(Range(pending'))
      BY <3>1, <3>2, BillsOfMonth, ConstantsAssumption DEF OneMonth
    <3>4. pc'["job"] = "clear" /\ table' = table
      BY <1>0, <1>2, <3>1 DEF FindInstances, Await, TypeOK
    <3> QED
      BY <3>3, <3>4 DEF TableOK, AttemptSteps
  <2> QED
    BY <2>1, <2>2
<1>3. CASE ClearTable
  <2>1. CASE FailJob /\ table' \in {table, <<>>}
    BY <2>1, TableFails, NoneIsFine DEF TableOK
  <2>2. CASE ~(FailJob /\ table' \in {table, <<>>})
    <3>1. /\ table' = <<>> /\ AfterInserts(pending) /\ UNCHANGED pending /\ pc["job"] = "clear"
      BY <1>3, <2>2 DEF ClearTable
    <3>2. CASE pc'["job"] = "insert"
      <4>1. table' \o pending' = pending
        BY <1>0, <3>1, ConcatEmptySeq
      <4> QED
        BY <3>1, <3>2, <4>1, NoneIsFine DEF TableOK, AttemptSteps
    <3>3. CASE pc'["job"] = "token"
      BY <3>1, <3>3, NoneIsFine, TableBegins
    <3>4. CASE pc'["job"] = "delay"
      BY <3>1, <3>4, TableIdles
    <3> QED
      BY <1>0, <3>1, <3>2, <3>3, <3>4 DEF AfterInserts, Await, TypeOK
  <2> QED
    BY <2>1, <2>2
<1>4. CASE InsertFailure
  <2> DEFINE grown == Append(table, Head(pending))
             left == Tail(pending)
  <2>1. pending # <<>> /\ pc["job"] = "insert"
    BY <1>4 DEF InsertFailure, SizesOK, TableFits
  <2>2. /\ grown \in Seq(Payloads) /\ left \in Seq(Payloads)
        /\ grown \o left = table \o pending
    BY <1>0, <2>1, InsertKeepsWhole
  <2>3. Distinct(grown \o left) /\ OneMonth(Range(grown \o left))
    BY <2>1, <2>2 DEF TableOK
  <2> HIDE DEF grown, left
  <2>4. Distinct(grown) /\ OneMonth(Range(grown))
    <3>1. Distinct(grown)
      BY <2>2, <2>3, DistinctParts
    <3>2. Range(grown \o left) = Range(grown) \cup Range(left)
      <4>1. grown \in Seq(Payloads) /\ left \in Seq(Payloads)
        BY <2>2
      <4> QED
        BY <4>1, RangeConcatenation, Zenon
    <3> QED
      BY <2>3, <3>1, <3>2 DEF OneMonth
  <2>5. CASE FailJob /\ table' \in {table, grown}
    BY <2>4, <2>5, TableFails DEF TableOK
  <2>6. CASE ~(FailJob /\ table' \in {table, grown})
    <3>1. table' = grown /\ pending' = left /\ AfterInserts(left)
      BY <1>4, <2>6 DEF InsertFailure, grown, left
    <3>2. CASE pc'["job"] = "insert"
      BY <2>3, <2>4, <3>1, <3>2 DEF TableOK, AttemptSteps
    <3>3. CASE pc'["job"] = "token"
      BY <2>4, <3>1, <3>3, TableBegins
    <3>4. CASE pc'["job"] = "delay"
      BY <2>4, <3>1, <3>4 DEF TableOK, AttemptSteps
    <3> QED
      BY <1>0, <3>1, <3>2, <3>3, <3>4 DEF AfterInserts, Await, TypeOK
  <2> QED
    BY <2>5, <2>6
<1>5. CASE FetchToken("job") \/ ReadPage("job")
  <2>1. CASE FailAttempt("job")
    <3>1. FailJob /\ table' = table
      BY <1>5, <2>1 DEF FetchToken, ReadPage, FailAttempt
    <3> QED
      BY <3>1, TableFails DEF TableOK
  <2>2. CASE ~FailAttempt("job")
    <3>1. AttemptOK("job")
      BY <1>5 DEF TableOK, FetchToken, ReadPage, AttemptSteps
    <3>2. AttemptOK("job")'
      <4>1. CASE FetchToken("job")
        BY <1>0, <2>2, <3>1, <4>1, AttemptContinues DEF FetchToken, Await, TypeOK, attempting
      <4>2. CASE ReadPage("job")
        BY <1>0, <2>2, <3>1, <4>2, AttemptReads
      <4> QED
        BY <1>5, <4>1, <4>2
    <3>3. pc'["job"] \in AttemptSteps /\ table' = table
      BY <1>0, <1>5, <2>2 DEF FetchToken, ReadPage, Await, TypeOK, AttemptSteps
    <3> QED
      BY <3>2, <3>3 DEF TableOK, AttemptSteps
  <2> QED
    BY <2>1, <2>2
<1>6. CASE SendPage("job")
  <2>1. PICK failed : Sent("job", failed)
    BY <1>0, <1>6, SendPageSends
  <2> DEFINE all == failures["job"] \o failed
  <2>2. /\ AttemptOK("job") /\ Distinct(table) /\ table' = table
    BY <1>6 DEF TableOK, SendPage, AttemptSteps
  <2>3. /\ Distinct(all) /\ Range(all) \subseteq Range(table)
        /\ ~LastPage("job") => AttemptOK("job")'
    BY <1>0, <1>6, <2>1, <2>2, AttemptSends
  <2> HIDE DEF all
  <2>4. CASE LastPage("job")
    <3>1. pc'["job"] \in {"clear", "clear-all"} /\ pending' = all
      BY <1>0, <2>1, <2>4 DEF Sent, FinishAttempt, Await, TypeOK, all
    <3>2. OneMonth(Range(all))
      BY <2>3 DEF TableOK, OneMonth
    <3> QED
      BY <2>2, <2>3, <3>1, <3>2 DEF TableOK, AttemptSteps
  <2>5. CASE ~LastPage("job")
    <3>1. pc'["job"] = "read"
      BY <1>0, <2>1, <2>5 DEF Sent, Await, TypeOK
    <3> QED
      BY <2>2, <2>3, <2>5, <3>1 DEF TableOK
  <2> QED
    BY <2>4, <2>5
<1>7. CASE Pause
  <2>1. pc'["job"] \in {"token", "idle"} /\ table' = table
    BY <1>0, <1>7 DEF Pause, EndJob, Await, TypeOK
  <2> QED
    BY <2>1, TableBegins, TableIdles DEF TableOK
<1>8. CASE ClearAll \/ Notify
  <2>1. pc'["job"] \in {"idle", "notify"} /\ table' \in {table, <<>>}
    BY <1>0, <1>8 DEF ClearAll, Notify, FailJob, EndJob, Await, TypeOK
  <2> QED
    BY <2>1, TableIdles
<1>9. ASSUME NEW a \in Admins, ReceiveRetry(a) \/ Attempt(a) PROVE TableOK'
  <2>1. /\ table' = table /\ pending' = pending /\ accepted \subseteq accepted' /\ Untouched("job")
    BY <1>9, RetriesLeaveJob
  <2>2. AttemptOK("job") => AttemptOK("job")'
    BY <1>0, <2>1, AttemptContinues DEF Untouched
  <2> QED
    BY <2>1, <2>2 DEF TableOK, Untouched
<1>10. CASE Crash
  BY <1>0, <1>10, TableIdles DEF Crash
<1>11. CASE UNCHANGED vars
  <2>1. AttemptOK("job") => AttemptOK("job")'
    BY <1>0, <1>11, AttemptContinues DEF vars
  <2> QED
    BY <1>11, <2>1 DEF vars, TableOK
<1> QED
  BY <1>1, <1>2, <1>3, <1>4, <1>5, <1>6, <1>7, <1>8, <1>9, <1>10, <1>11
  DEF Next, JobStep, Attempt

(* The table holds the bills of one month and none of them twice, for any  *)
(* page size, wherever calls fail or the process ends, and however many    *)
(* retries read it while it changes.                                       *)
THEOREM TableHoldsOneMonth == Spec => []OneMonthsBills
<1>1. Init => TypeOK /\ SizesOK /\ TableOK
  BY SizesInit, NoneIsFine DEF Init, TableOK, AttemptSteps, Runs
<1>2. TypeOK /\ SizesOK /\ TableOK /\ [Next]_vars => (TypeOK /\ SizesOK /\ TableOK)'
  BY SizesStep, TableStep
<1>3. TableOK => OneMonthsBills
  BY DEF TableOK, OneMonthsBills, Distinct, OneMonth, Range
<1> QED
  BY <1>1, <1>2, <1>3, PTL DEF Spec

-----------------------------------------------------------------------------
(* The retries.                                                            *)

(* A retry that has found rows has the table to itself, and knows which of *)
(* its rows have been taken.                                               *)
RetryOK(a) ==
  /\ reply[a] # "none" => pc[a] = "done"
  /\ pc[a] \in AttemptSteps /\ watched[a] # {} =>
       pc["job"] = "idle" /\ watched[a] = Range(table) /\ AttemptOK(a)
  /\ ~ItemRejects /\ reply[a] = "200" => watched[a] \subseteq accepted

LEMMA RetryStep ==
  ASSUME TypeOK, SizesOK, TypeOK', SizesOK', TableOK, [Next]_vars,
         NEW a \in Admins, RetryOK(a)
  PROVE  RetryOK(a)'
<1>0. a \in Runs /\ "job" \in Runs /\ a # "job"
  BY ConstantsAssumption DEF ConstantsAssumption, Runs
<1>1. CASE Tick
  <2>1. watched'[a] = IF pc[a] = "done" THEN watched[a] ELSE {}
    BY <1>1 DEF Tick
  <2>2. Untouched(a) /\ reply'[a] = reply[a] /\ accepted \subseteq accepted'
    BY <1>1, JobLeavesRetries
  <2> QED
    BY <2>1, <2>2 DEF RetryOK, Untouched, AttemptSteps
<1>2. CASE JobStep
  <2>1. Untouched(a) /\ reply'[a] = reply[a] /\ accepted \subseteq accepted'
    BY <1>2, JobLeavesRetries
  <2>2. pc["job"] # "idle"
    BY <1>2 DEF JobStep, FindInstances, ClearTable, InsertFailure, Attempt, FetchToken, ReadPage,
       SendPage, Pause, ClearAll, Notify
  <2>3. watched' = watched
    BY <1>2 DEF JobStep, FindInstances, ClearTable, InsertFailure, Attempt, FetchToken, ReadPage,
       SendPage, Pause, ClearAll, Notify, history
  <2> QED
    BY <2>1, <2>2, <2>3 DEF RetryOK, Untouched
<1>3. CASE ReceiveRetry(a)
  <2>1. /\ pc'[a] = "token" /\ pc'["job"] = pc["job"] /\ table' = table /\ reply'[a] = reply[a]
        /\ watched'[a] = IF pc["job"] = "idle" THEN Range(table) ELSE {}
        /\ pc[a] = "idle"
    BY <1>0, <1>3 DEF ReceiveRetry, Await, TypeOK
  <2>2. reply[a] = "none"
    BY <2>1 DEF RetryOK, TypeOK
  <2>3. /\ skip'[a] = 0 /\ failures'[a] = <<>> /\ page'[a] = <<>> /\ table' \in Seq(Payloads)
    BY <1>0, <2>1 DEF SizesOK, RunFits, TypeOK
  <2>4. AttemptOK(a)'
    BY <1>0, <2>1, <2>3, AttemptBegins
  <2> QED
    BY <2>1, <2>2, <2>4 DEF RetryOK
<1>4. CASE FetchToken(a) \/ ReadPage(a)
  <2>1. pc[a] \in AttemptSteps /\ reply[a] = "none" /\ table' = table /\ watched' = watched
    BY <1>4 DEF FetchToken, ReadPage, AttemptSteps, RetryOK, TypeOK, history
  <2>2. pc'["job"] = pc["job"]
    BY <1>4, RetriesLeaveJob DEF Untouched, Attempt
  <2>3. CASE FailAttempt(a)
    BY <1>0, <2>3 DEF FailAttempt, FailRetry, Await, TypeOK, RetryOK, AttemptSteps
  <2>4. CASE ~FailAttempt(a)
    <3>1. AttemptOK(a) => AttemptOK(a)'
      <4>1. CASE FetchToken(a)
        BY <1>0, <2>4, <4>1, AttemptContinues DEF FetchToken, Await, TypeOK, attempting
      <4>2. CASE ReadPage(a)
        BY <1>0, <2>4, <4>2, AttemptReads
      <4> QED
        BY <1>4, <4>1, <4>2
    <3>2. reply' = reply
      BY <1>4, <2>4 DEF FetchToken, ReadPage
    <3> QED
      BY <2>1, <2>2, <3>1, <3>2 DEF RetryOK
  <2> QED
    BY <2>3, <2>4
<1>5. CASE SendPage(a)
  <2>1. PICK failed : Sent(a, failed)
    BY <1>0, <1>5, SendPageSends
  <2> DEFINE all == failures[a] \o failed
  <2>2. pc[a] \in AttemptSteps /\ reply[a] = "none" /\ table' = table /\ watched' = watched
    BY <1>5 DEF SendPage, AttemptSteps, RetryOK, TypeOK, history
  <2>3. pc'["job"] = pc["job"]
    BY <1>5, RetriesLeaveJob DEF Untouched, Attempt
  <2>4. ASSUME AttemptOK(a)
        PROVE  /\ ~LastPage(a) => AttemptOK(a)'
               /\ LastPage(a) /\ ~ItemRejects => Range(table) \subseteq accepted' \cup Range(all)
    BY <1>0, <1>5, <2>1, <2>4, AttemptSends DEF TableOK
  <2> HIDE DEF all
  <2>5. CASE LastPage(a)
    <3>1. /\ pc'[a] = "done" /\ reply'[a] = IF all = <<>> THEN "200" ELSE "500"
      BY <1>0, <2>1, <2>5 DEF Sent, FinishAttempt, Await, TypeOK, all
    <3>2. ASSUME all = <<>>, ~ItemRejects PROVE watched[a] \subseteq accepted'
      <4>1. CASE watched[a] # {}
        BY <2>2, <2>4, <2>5, <3>2, <4>1, NoneIsFine DEF RetryOK
      <4> QED
        BY <4>1
    <3> QED
      BY <2>2, <3>1, <3>2 DEF RetryOK, AttemptSteps
  <2>6. CASE ~LastPage(a)
    <3>1. pc'[a] = "read" /\ reply' = reply
      BY <1>0, <2>1, <2>6 DEF Sent, Await, TypeOK
    <3> QED
      BY <2>2, <2>3, <2>4, <2>6, <3>1 DEF RetryOK, AttemptSteps
  <2> QED
    BY <2>5, <2>6
<1>6. ASSUME NEW b \in Admins, b # a, ReceiveRetry(b) \/ Attempt(b) PROVE RetryOK(a)'
  <2>1. /\ table' = table /\ accepted \subseteq accepted' /\ pc'["job"] = pc["job"]
    BY <1>6, RetriesLeaveJob DEF Untouched
  <2>2. Untouched(a) /\ reply'[a] = reply[a]
    <3>1. CASE ReceiveRetry(b)
      BY <1>0, <1>6, <3>1 DEF ReceiveRetry, Await, TypeOK, Untouched, attempting, Runs
    <3> QED
      BY <1>0, <1>6, <3>1, AttemptsAreApart DEF Runs
  <2>3. watched'[a] = watched[a]
    BY <1>6 DEF ReceiveRetry, Attempt, FetchToken, ReadPage, SendPage, TypeOK, history
  <2>4. AttemptOK(a) => AttemptOK(a)'
    BY <1>0, <2>1, <2>2, AttemptContinues DEF Untouched
  <2> QED
    BY <2>1, <2>2, <2>3, <2>4 DEF RetryOK, Untouched
<1>7. CASE Crash
  <2>1. /\ pc'[a] = IF pc[a] = "idle" THEN "idle" ELSE "done"
        /\ UNCHANGED <<reply, watched, accepted>>
    BY <1>0, <1>7 DEF Crash, history
  <2> QED
    BY <2>1 DEF RetryOK, AttemptSteps
<1>8. CASE UNCHANGED vars
  <2>1. AttemptOK(a) => AttemptOK(a)'
    BY <1>0, <1>8, AttemptContinues DEF vars
  <2> QED
    BY <1>8, <2>1 DEF vars, RetryOK
<1> QED
  BY <1>1, <1>2, <1>3, <1>4, <1>5, <1>6, <1>7, <1>8 DEF Next, Attempt

BillingOK == TypeOK /\ SizesOK /\ TableOK /\ \A a \in Admins : RetryOK(a)

LEMMA BillingInit == Init => BillingOK
  BY SizesInit, NoneIsFine DEF Init, BillingOK, TableOK, RetryOK, AttemptSteps, Runs

LEMMA BillingStep == BillingOK /\ [Next]_vars => BillingOK'
  BY SizesStep, TableStep, RetryStep DEF BillingOK

(* If the usage API refuses no record inside a 202, a retry that answers   *)
(* with success has billed every row it found when it began, unless the    *)
(* job was changing the table meanwhile: for any page size, any number of  *)
(* retries at once and restarts at any await.                              *)
THEOREM RetrySuccessAlwaysMeansBilled ==
  ASSUME ~ItemRejects
  PROVE  Spec => []RetrySuccessMeansBilled
<1>1. Init => BillingOK
  BY BillingInit
<1>2. BillingOK /\ [Next]_vars => BillingOK'
  BY BillingStep
<1>3. BillingOK => RetrySuccessMeansBilled
  BY DEF BillingOK, RetryOK, RetrySuccessMeansBilled
<1> QED
  BY <1>1, <1>2, <1>3, PTL DEF Spec
=============================================================================
