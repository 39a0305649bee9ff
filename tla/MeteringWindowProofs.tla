------------------------ MODULE MeteringWindowProofs ------------------------
(***************************************************************************)
(* What holds of the usage records of an instance whatever the calendar,   *)
(* the resolution of the clock and the number of reports.                  *)
(***************************************************************************)
EXTENDS MeteringWindow, TLAPS

Clock == [month : 0..LastMonth, day : Nat, slot : 0..(Slots - 1)]

(* A later time is a time, in the same month or the next, and after it.    *)
LEMMA LaterIsLater ==
  ASSUME NEW t \in Clock, NEW n \in 1..Slots
  PROVE  /\ Later(t, n) \in Times
         /\ ~Before(Later(t, n), t)
         /\ Later(t, n).month \in {t.month, t.month + 1}
<1> USE ConstantsAssumption
<1>1. /\ t.month \in Nat /\ t.month \in 0..LastMonth /\ t.day \in Nat
      /\ t.slot \in 0..(Slots - 1)
      /\ n \in Nat /\ Slots \in Nat /\ DaysIn[t.month] \in Nat
  BY DEF Clock
<1>2. t = [month |-> t.month, day |-> t.day, slot |-> t.slot]
  BY DEF Clock
<1>3. CASE t.slot + n < Slots
  <2>1. Later(t, n) = [month |-> t.month, day |-> t.day, slot |-> t.slot + n]
    BY <1>2, <1>3 DEF Later
  <2> QED
    BY <1>1, <1>3, <2>1 DEF Times, Before
<1>4. CASE ~(t.slot + n < Slots)
  <2> DEFINE slot == (t.slot + n) - Slots
  <2>1. slot \in 0..(Slots - 1)
    BY <1>1, <1>4
  <2>2. CASE t.day + 1 < DaysIn[t.month]
    <3>1. Later(t, n) = [month |-> t.month, day |-> t.day + 1, slot |-> slot]
      BY <1>4, <2>2 DEF Later
    <3> HIDE DEF slot
    <3> QED
      BY <1>1, <2>1, <3>1 DEF Times, Before
  <2>3. CASE ~(t.day + 1 < DaysIn[t.month])
    <3>1. Later(t, n) = [month |-> t.month + 1, day |-> 0, slot |-> slot]
      BY <1>4, <2>3 DEF Later
    <3> HIDE DEF slot
    <3> QED
      BY <1>1, <2>1, <3>1 DEF Times, Before
  <2> QED
    BY <2>2, <2>3
<1> QED
  BY <1>3, <1>4

(* The start is the first day of the month reported for, or the buffered   *)
(* creation time of an instance created after that day.                    *)
LEMMA StartIsFirstOrCreation ==
  ASSUME NEW c \in Clock, NEW at \in Clock, NEW manual \in BOOLEAN,
         manual \/ at.month > 0
  PROVE  LET s   == GetMonthStart(c, at, manual)
             for == IF manual THEN at.month ELSE at.month - 1
         IN /\ s \in Times
            /\ for \in 0..LastMonth
            /\ \/ s.month = for /\ s.day = 0 /\ s.slot = at.slot /\ ~Before(s, c)
               \/ s = Buffered(c) /\ c.month >= for
<1> DEFINE for   == IF manual THEN at.month ELSE at.month - 1
           first == [month |-> for, day |-> 0, slot |-> at.slot]
           s     == GetMonthStart(c, at, manual)
<1> USE ConstantsAssumption
<1>1. /\ at.month \in 0..LastMonth /\ at.slot \in 0..(Slots - 1) /\ LastMonth \in Nat
      /\ c.month \in 0..LastMonth /\ c.day \in Nat /\ c.slot \in 0..(Slots - 1)
  BY DEF Clock
<1>2. for \in 0..LastMonth /\ for \in Nat
  BY <1>1
<1>3. first \in Times
  BY <1>1, <1>2 DEF Times
<1>4. s = IF Before(first, c) THEN Buffered(c) ELSE first
  <2>1. [at EXCEPT !.day = 0] = [month |-> at.month, day |-> 0, slot |-> at.slot]
    BY DEF Clock
  <2>2. CASE manual
    BY <2>1, <2>2 DEF GetMonthStart
  <2>3. CASE ~manual
    <3> DEFINE f == [month |-> at.month, day |-> 0, slot |-> at.slot]
    <3>1. [f EXCEPT !.month = f.month - 1]
            = [month |-> f.month - 1, day |-> f.day, slot |-> f.slot]
      OBVIOUS
    <3>2. first = [month |-> f.month - 1, day |-> f.day, slot |-> f.slot]
      BY <2>3
    <3>3. s = LET g == [[at EXCEPT !.day = 0] EXCEPT !.month = @ - 1]
              IN IF Before(g, c) THEN Buffered(c) ELSE g
      BY <2>3 DEF GetMonthStart
    <3>4. [[at EXCEPT !.day = 0] EXCEPT !.month = @ - 1] = first
      BY <2>1, <3>1, <3>2
    <3> HIDE DEF first, f, s
    <3> QED
      BY <3>3, <3>4
  <2> QED
    BY <2>2, <2>3
<1>5. /\ s \in Times
      /\ for \in 0..LastMonth
      /\ \/ s.month = for /\ s.day = 0 /\ s.slot = at.slot /\ ~Before(s, c)
         \/ s = Buffered(c) /\ c.month >= for
  <2>1. CASE Before(first, c)
    <3>1. Buffered(c) \in Times
      BY LaterIsLater DEF Buffered
    <3>2. c.month >= for
      BY <1>1, <1>2, <2>1 DEF Before
    <3> HIDE DEF for, s, first
    <3> QED
      BY <1>2, <1>4, <2>1, <3>1, <3>2
  <2>2. CASE ~Before(first, c)
    <3>1. first.month = for /\ first.day = 0 /\ first.slot = at.slot
      OBVIOUS
    <3> HIDE DEF for, s, first
    <3> QED
      BY <1>2, <1>3, <1>4, <2>2, <3>1
  <2> QED
    BY <2>1, <2>2
<1> QED
  BY <1>5

LEMMA BeforeIsTransitive ==
  ASSUME NEW s \in Times, NEW t \in Times, NEW u \in Times, ~Before(t, s), ~Before(u, t)
  PROVE  ~Before(u, s)
  BY DEF Times, Before

-----------------------------------------------------------------------------
(* The inductive invariant.  Nothing is reported before there is a row, and *)
(* the row was created in the past.  Settled is what EveryMonthIsReported  *)
(* needs to know of an instance that is still there: the months that are   *)
(* over are covered, and so is the month a running DELETE has reported.    *)

Covered(m) ==
  \/ \E r \in reports : r.start.month = m
  \/ m = created.month /\ CreatedAtEndOfMonth

CreatedInPast == ~Before(now, created) /\ (stage = "none" => reports = {})

Settled ==
  /\ \A m \in created.month..LastMonth : Over(m) => Covered(m) \/ m \in missed
  /\ stage # "gone" => missed = {}
  /\ stage = "leaving" => closed <= now.month /\ Covered(closed)

Inv == TypeOK /\ CreatedInPast /\ UsageIsPast /\ StartsInItsMonth

LEMMA ClockType == TypeOK => now \in Clock /\ created \in Clock
  BY DEF TypeOK, Times, Clock

LEMMA InvInit == Init => Inv
<1> SUFFICES ASSUME Init PROVE Inv
  OBVIOUS
<1>1. now.month = 0 /\ now.day = 0 /\ now.slot = 0 /\ created = now /\ reports = {}
  BY DEF Init
<1>2. TypeOK
  <2>1. [month |-> 0, day |-> 0, slot |-> 0] \in Times
    BY ConstantsAssumption DEF Times
  <2>2. 0 \in 0..LastMonth
    BY ConstantsAssumption
  <2> QED
    BY <1>1, <2>1, <2>2 DEF Init, TypeOK
<1>3. CreatedInPast
  BY <1>1 DEF CreatedInPast, Before
<1> QED
  BY <1>1, <1>2, <1>3 DEF Inv, UsageIsPast, StartsInItsMonth

(* What the clock does in a step.                                          *)
LEMMA ClockSteps ==
  ASSUME TypeOK, TimePasses
  PROVE  /\ now' \in Times /\ ~Before(now', now)
         /\ now'.month \in 0..LastMonth /\ now'.month \in {now.month, now.month + 1}
<1>1. 1 \in 1..Slots
  BY ConstantsAssumption
<1>2. /\ now' \in Times /\ ~Before(now', now)
      /\ now'.month \in {now.month, now.month + 1}
  BY <1>1, ClockType, LaterIsLater DEF TimePasses
<1> QED
  BY <1>2, ConstantsAssumption DEF TimePasses, Times

LEMMA TimePassesKeepsInv == ASSUME Inv, TimePasses PROVE Inv'
<1>1. /\ now' \in Times /\ ~Before(now', now)
      /\ now'.month \in 0..LastMonth /\ now'.month \in {now.month, now.month + 1}
  BY ClockSteps DEF Inv
<1>2. due' \in BOOLEAN /\ (due' => now'.month > 0)
  <2>1. due' \in BOOLEAN
    BY DEF TimePasses
  <2>2. now.month \in Nat /\ now'.month \in Nat
    BY <1>1 DEF Inv, TypeOK, Times
  <2>3. due' => due \/ now'.month # now.month
    BY DEF TimePasses
  <2>4. due => now.month > 0
    BY DEF Inv, TypeOK
  <2> QED
    BY <1>1, <2>1, <2>2, <2>3, <2>4
<1>3. TypeOK'
  BY <1>1, <1>2 DEF Inv, TypeOK, TimePasses
<1>4. CreatedInPast'
  BY <1>1, BeforeIsTransitive DEF Inv, TypeOK, CreatedInPast, TimePasses
<1>5. UsageIsPast'
  <2> SUFFICES ASSUME NEW r \in reports
               PROVE  /\ ~Before(r.start, created)
                      /\ ~Before(now', r.start) \/ r.start = Buffered(created)
    BY DEF UsageIsPast, TimePasses
  <2>1. r.start \in Times
    BY DEF Inv, TypeOK
  <2>2. /\ ~Before(r.start, created)
        /\ ~Before(now, r.start) \/ r.start = Buffered(created)
    BY DEF Inv, UsageIsPast
  <2> QED
    BY <1>1, <2>1, <2>2, BeforeIsTransitive DEF Inv, TypeOK
<1>6. StartsInItsMonth'
  BY DEF Inv, StartsInItsMonth, CreatedAtEndOfMonth, TimePasses
<1> QED
  BY <1>3, <1>4, <1>5, <1>6 DEF Inv

LEMMA ProvisionKeepsInv == ASSUME Inv, Provision PROVE Inv'
<1>1. reports' = {} /\ created' = now /\ now' = now /\ stage' = "present"
  BY DEF Inv, CreatedInPast, Provision
<1>2. TypeOK'
  BY <1>1 DEF Inv, TypeOK, Provision
<1>3. ~Before(now, now)
  BY DEF Inv, TypeOK, Times, Before
<1> QED
  BY <1>1, <1>2, <1>3 DEF Inv, CreatedInPast, UsageIsPast, StartsInItsMonth

(* What a record that is added looks like.                                 *)
LEMMA ReportedRecord ==
  ASSUME Inv, NEW manual \in BOOLEAN, manual \/ now.month > 0
  PROVE  LET for == IF manual THEN now.month ELSE now.month - 1
             s   == GetMonthStart(created, now, manual)
         IN /\ s \in Times /\ for \in 0..LastMonth
            /\ ~Before(s, created)
            /\ ~Before(now, s) \/ s = Buffered(created)
            /\ s.month = for \/ CreatedAtEndOfMonth \/ created.month > for
            /\ created.month <= for =>
                 s.month = for \/ (created.month = for /\ CreatedAtEndOfMonth)
<1> DEFINE for == IF manual THEN now.month ELSE now.month - 1
           s   == GetMonthStart(created, now, manual)
<1>1. /\ s \in Times
      /\ for \in 0..LastMonth
      /\ \/ s.month = for /\ s.day = 0 /\ s.slot = now.slot /\ ~Before(s, created)
         \/ s = Buffered(created) /\ created.month >= for
  BY ClockType, StartIsFirstOrCreation DEF Inv
<1>2. /\ Buffered(created) \in Times /\ ~Before(Buffered(created), created)
      /\ Buffered(created).month \in {created.month, created.month + 1}
  BY ClockType, LaterIsLater, ConstantsAssumption DEF Inv, Buffered
<1>3. for <= now.month /\ now.month \in Nat /\ now.day \in Nat /\ now.slot \in Nat
  BY ConstantsAssumption DEF Inv, TypeOK, Times
<1>4. created.month \in Nat /\ for \in Nat
  BY <1>1, ConstantsAssumption DEF Inv, TypeOK, Times
<1> HIDE DEF for, s
<1>5. ~Before(s, created) /\ (~Before(now, s) \/ s = Buffered(created))
  <2>1. CASE s.month = for /\ s.day = 0 /\ s.slot = now.slot /\ ~Before(s, created)
    BY <1>1, <1>3, <2>1 DEF Before
  <2>2. CASE s = Buffered(created)
    BY <1>2, <2>2
  <2> QED
    BY <1>1, <2>1, <2>2
<1>6. s.month = for \/ CreatedAtEndOfMonth \/ created.month > for
  BY <1>1, <1>2, <1>4 DEF CreatedAtEndOfMonth
<1>7. created.month <= for =>
        s.month = for \/ (created.month = for /\ CreatedAtEndOfMonth)
  BY <1>1, <1>2, <1>4 DEF CreatedAtEndOfMonth
<1> QED
  BY <1>1, <1>5, <1>6, <1>7 DEF for, s

LEMMA ReportKeepsInv ==
  ASSUME Inv, NEW manual \in BOOLEAN, manual \/ now.month > 0,
         Report(manual, IF manual THEN now.month ELSE now.month - 1),
         now' = now, created' = created, closed' \in 0..LastMonth, missed' = missed,
         due' \in BOOLEAN, due' => due, stage # "none", stage' \in {stage, "leaving"}
  PROVE  Inv'
<1> DEFINE for == IF manual THEN now.month ELSE now.month - 1
           s   == GetMonthStart(created, now, manual)
<1>1. /\ s \in Times /\ for \in 0..LastMonth
      /\ ~Before(s, created)
      /\ ~Before(now, s) \/ s = Buffered(created)
      /\ s.month = for \/ CreatedAtEndOfMonth \/ created.month > for
  BY ReportedRecord
<1>2. reports' = reports \cup {[start |-> s, for |-> for]}
  BY DEF Report
<1> HIDE DEF for, s
<1>3. TypeOK'
  <2>1. reports' \subseteq [start : Times, for : 0..LastMonth]
    BY <1>1, <1>2 DEF Inv, TypeOK
  <2>2. due' \in BOOLEAN /\ (due' => now.month > 0)
    BY DEF Inv, TypeOK
  <2>3. stage' \in {"none", "present", "leaving", "gone"}
    BY DEF Inv, TypeOK
  <2> QED
    BY <2>1, <2>2, <2>3 DEF Inv, TypeOK
<1>4. CreatedInPast'
  BY DEF Inv, CreatedInPast
<1>5. UsageIsPast'
  BY <1>1, <1>2 DEF Inv, UsageIsPast
<1>6. StartsInItsMonth'
  BY <1>1, <1>2 DEF Inv, StartsInItsMonth, CreatedAtEndOfMonth
<1> QED
  BY <1>3, <1>4, <1>5, <1>6 DEF Inv

LEMMA JobReportKeepsInv == ASSUME Inv, JobReport PROVE Inv'
<1>1. CASE HasRow
  <2>1. Report(FALSE, IF FALSE THEN now.month ELSE now.month - 1) /\ now.month > 0
    BY <1>1 DEF JobReport, Inv, TypeOK
  <2>2. /\ now' = now /\ created' = created /\ closed' \in 0..LastMonth /\ missed' = missed
        /\ due' \in BOOLEAN /\ (due' => due) /\ stage # "none" /\ stage' = stage
    BY <1>1 DEF JobReport, HasRow, Inv, TypeOK
  <2> QED
    BY <2>1, <2>2, ReportKeepsInv
<1>2. CASE ~HasRow
  BY <1>2 DEF JobReport, Inv, TypeOK, CreatedInPast, UsageIsPast, StartsInItsMonth,
              CreatedAtEndOfMonth
<1> QED
  BY <1>1, <1>2

LEMMA InvStep == Inv /\ [Next]_vars => Inv'
<1> SUFFICES ASSUME Inv, [Next]_vars PROVE Inv'
  OBVIOUS
<1>1. CASE TimePasses
  BY <1>1, TimePassesKeepsInv
<1>2. CASE Provision
  BY <1>2, ProvisionKeepsInv
<1>3. CASE JobReport
  BY <1>3, JobReportKeepsInv
<1>4. CASE ManualReport
  <2>1. Report(TRUE, IF TRUE THEN now.month ELSE now.month - 1)
    BY <1>4 DEF ManualReport
  <2> QED
    BY <1>4, <2>1, ReportKeepsInv DEF ManualReport, HasRow, Inv, TypeOK
<1>5. CASE Deprovision
  <2>1. Report(TRUE, IF TRUE THEN now.month ELSE now.month - 1)
    BY <1>5 DEF Deprovision
  <2> QED
    BY <1>5, <2>1, ReportKeepsInv DEF Deprovision, Inv, TypeOK
<1>6. CASE FinishDeprovision
  <2>1. missed' \subseteq 0..LastMonth
    <3>1. due => now.month - 1 \in 0..LastMonth
      BY ConstantsAssumption DEF Inv, TypeOK
    <3> QED
      BY <1>6, <3>1 DEF FinishDeprovision, Inv, TypeOK
  <2>2. TypeOK'
    BY <1>6, <2>1 DEF FinishDeprovision, Inv, TypeOK
  <2> QED
    BY <1>6, <2>2 DEF FinishDeprovision, Inv, CreatedInPast, UsageIsPast, StartsInItsMonth,
                      CreatedAtEndOfMonth
<1>7. CASE UNCHANGED vars
  BY <1>7 DEF vars, Inv, TypeOK, CreatedInPast, UsageIsPast, StartsInItsMonth, CreatedAtEndOfMonth
<1> QED
  BY <1>1, <1>2, <1>3, <1>4, <1>5, <1>6, <1>7 DEF Next

(* No record starts before its instance was created, and a start in the    *)
(* future is the buffered creation time.                                   *)
THEOREM UsageIsAlwaysPast == Spec => []UsageIsPast
<1>1. Inv => UsageIsPast
  BY DEF Inv
<1> QED
  BY <1>1, InvInit, InvStep, PTL DEF Spec

(* A record is charged to the month it is for, but for the two kinds of    *)
(* instances StartsInItsMonth names.                                       *)
THEOREM EveryRecordStartsInItsMonth == Spec => []StartsInItsMonth
<1>1. Inv => StartsInItsMonth
  BY DEF Inv
<1> QED
  BY <1>1, InvInit, InvStep, PTL DEF Spec

-----------------------------------------------------------------------------
(* No month is left out.                                                   *)

LEMMA SettledInit == Init => Settled
  BY DEF Init, Settled, Over, HasRow

(* Records are never taken back, and a report covers its month.            *)
LEMMA CoveredStays ==
  ASSUME NEW m, Covered(m), reports \subseteq reports', created' = created
  PROVE  Covered(m)'
  BY DEF Covered, CreatedAtEndOfMonth

LEMMA ReportCovers ==
  ASSUME Inv, NEW manual \in BOOLEAN, manual \/ now.month > 0,
         NEW for, for = IF manual THEN now.month ELSE now.month - 1,
         Report(manual, for), created' = created, created.month <= for
  PROVE  Covered(for)'
<1> DEFINE s == GetMonthStart(created, now, manual)
<1>1. s.month = for \/ (created.month = for /\ CreatedAtEndOfMonth)
  BY ReportedRecord
<1>2. [start |-> s, for |-> for] \in reports'
  BY DEF Report
<1> HIDE DEF s
<1> QED
  BY <1>1, <1>2 DEF Covered, CreatedAtEndOfMonth

(* The creation is no later than the clock, seen by the month.             *)
LEMMA CreatedBefore == Inv => created.month <= now.month
  BY DEF Inv, TypeOK, CreatedInPast, Times, Before

LEMMA TimePassesKeepsSettled == ASSUME Inv, Settled, TimePasses PROVE Settled'
<1>1. now'.month \in {now.month, now.month + 1} /\ now.month \in Nat
  BY ClockSteps DEF Inv, TypeOK, Times
<1>2. /\ reports' = reports /\ created' = created /\ stage' = stage
      /\ closed' = closed /\ missed' = missed
      /\ due => now'.month = now.month
      /\ due' <=> due \/ now'.month # now.month
  BY DEF TimePasses
<1>3. closed \in Nat
  BY ConstantsAssumption DEF Inv, TypeOK
<1>4. ASSUME NEW m \in created.month..LastMonth, Over(m)'
      PROVE  Over(m)
  <2>1. m \in Nat
    BY ConstantsAssumption DEF Inv, TypeOK
  <2>2. CASE stage = "gone"
    BY <1>2, <1>4, <2>2 DEF Over, HasRow
  <2>3. CASE stage # "gone"
    <3>1. HasRow /\ m < now'.month /\ (due' => m # now'.month - 1)
      BY <1>2, <1>4, <2>3 DEF Over, HasRow
    <3> QED
      BY <1>1, <1>2, <2>1, <3>1 DEF Over
  <2> QED
    BY <2>2, <2>3
<1>5. \A m : Covered(m) => Covered(m)'
  BY <1>2, CoveredStays
<1> QED
  BY <1>1, <1>2, <1>3, <1>4, <1>5 DEF Settled

LEMMA JobReportKeepsSettled == ASSUME Inv, Settled, JobReport PROVE Settled'
<1>1. /\ now' = now /\ created' = created /\ stage' = stage /\ closed' = closed
      /\ missed' = missed /\ reports \subseteq reports' /\ due /\ ~due'
  BY DEF JobReport, Report
<1>2. /\ now.month \in Nat /\ now.month > 0 /\ created.month \in Nat
  BY <1>1 DEF Inv, TypeOK, Times
<1>3. \A m : Covered(m) => Covered(m)'
  BY <1>1, CoveredStays
<1>4. ASSUME NEW m \in created.month..LastMonth, Over(m)'
      PROVE  (Covered(m) \/ m \in missed)'
  <2>1. CASE Over(m)
    BY <1>1, <1>3, <2>1 DEF Settled
  <2>2. CASE ~Over(m)
    <3>1. HasRow /\ m = now.month - 1
      BY <1>1, <1>2, <1>4, <2>2 DEF Over, HasRow
    <3>2. Report(FALSE, now.month - 1)
      BY <3>1 DEF JobReport
    <3>3. created.month <= m
      BY <1>2, ConstantsAssumption
    <3>4. m = IF FALSE THEN now.month ELSE now.month - 1
      BY <3>1
    <3> QED
      BY <1>1, <1>2, <3>1, <3>2, <3>3, <3>4, ReportCovers
  <2> QED
    BY <2>1, <2>2
<1> QED
  BY <1>1, <1>3, <1>4 DEF Settled

LEMMA DeprovisionKeepsSettled == ASSUME Inv, Settled, Deprovision PROVE Settled'
<1>1. /\ now' = now /\ created' = created /\ stage = "present" /\ stage' = "leaving"
      /\ closed' = now.month /\ due' = due /\ missed' = missed /\ reports \subseteq reports'
  BY DEF Deprovision, Report
<1>2. Covered(now.month)'
  <2>1. Report(TRUE, now.month) /\ now.month = IF TRUE THEN now.month ELSE now.month - 1
    BY DEF Deprovision
  <2> QED
    BY <1>1, <2>1, CreatedBefore, ReportCovers
<1>3. \A m : Covered(m) => Covered(m)'
  BY <1>1, CoveredStays
<1>4. \A m : Over(m)' => Over(m)
  BY <1>1 DEF Over, HasRow
<1>5. now.month <= now.month
  BY DEF Inv, TypeOK, Times
<1>6. Covered(closed)'
  BY <1>1, <1>2 DEF Covered
<1> QED
  BY <1>1, <1>3, <1>4, <1>5, <1>6 DEF Settled

LEMMA FinishDeprovisionKeepsSettled ==
  ASSUME Inv, Settled, FinishDeprovision PROVE Settled'
<1>1. /\ now' = now /\ created' = created /\ due' = due /\ reports' = reports
      /\ closed' = closed /\ stage = "leaving" /\ missed = {}
      /\ closed <= now.month /\ Covered(closed)
  BY DEF FinishDeprovision, Settled
<1>2. \A m : Covered(m) => Covered(m)'
  BY <1>1, CoveredStays
<1>3. now.month \in Nat /\ closed \in Nat /\ created.month \in Nat
  BY ConstantsAssumption DEF Inv, TypeOK, Times
<1>4. CASE stage' = "present" /\ missed' = missed
  BY <1>1, <1>2, <1>4 DEF Settled, Over, HasRow
<1>5. CASE stage' = "gone" /\ missed' = IF due THEN {now.month - 1} ELSE {}
  <2>1. ASSUME NEW m \in created.month..LastMonth, Over(m)'
        PROVE  (Covered(m) \/ m \in missed)'
    <3>1. m <= closed /\ m \in Nat
      BY <1>1, <1>3, <1>5, <2>1, ConstantsAssumption DEF Over, HasRow
    <3>2. CASE m = closed
      BY <1>1, <1>2, <3>2
    <3>3. CASE m # closed /\ due /\ m = now.month - 1
      BY <1>5, <3>3
    <3>4. CASE m # closed /\ ~(due /\ m = now.month - 1)
      <4>1. Over(m)
        BY <1>1, <1>3, <3>1, <3>4 DEF Over, HasRow
      <4> QED
        BY <1>1, <1>2, <4>1 DEF Settled
    <3> QED
      BY <3>2, <3>3, <3>4
  <2> QED
    BY <1>1, <1>5, <2>1 DEF Settled
<1> QED
  BY <1>4, <1>5 DEF FinishDeprovision, Settled

LEMMA SettledStep == Inv /\ Settled /\ [Next]_vars => Settled'
<1> SUFFICES ASSUME Inv, Settled, [Next]_vars PROVE Settled'
  OBVIOUS
<1>1. CASE TimePasses
  BY <1>1, TimePassesKeepsSettled
<1>2. CASE Provision
  <2>1. now.month \in Nat
    BY DEF Inv, TypeOK, Times
  <2>2. \A m \in created'.month..LastMonth : ~Over(m)'
    BY <1>2, <2>1 DEF Provision, Over, HasRow
  <2> QED
    BY <1>2, <2>2 DEF Provision, Settled
<1>3. CASE JobReport
  BY <1>3, JobReportKeepsSettled
<1>4. CASE ManualReport
  <2>1. \A m : Covered(m) => Covered(m)'
    BY <1>4, CoveredStays DEF ManualReport, Report
  <2> QED
    BY <1>4, <2>1 DEF ManualReport, Settled, Over, HasRow
<1>5. CASE Deprovision
  BY <1>5, DeprovisionKeepsSettled
<1>6. CASE FinishDeprovision
  BY <1>6, FinishDeprovisionKeepsSettled
<1>7. CASE UNCHANGED vars
  BY <1>7 DEF vars, Settled, Covered, CreatedAtEndOfMonth, Over, HasRow
<1> QED
  BY <1>1, <1>2, <1>3, <1>4, <1>5, <1>6, <1>7 DEF Next

(* No month of the life of an instance is left out between the job and the *)
(* DELETE, but for the two that EveryMonthIsReported names.                *)
THEOREM EveryMonthIsAlwaysReported == Spec => []EveryMonthIsReported
<1>1. Settled => EveryMonthIsReported
  BY DEF Settled, Covered, EveryMonthIsReported
<1> QED
  BY <1>1, InvInit, InvStep, SettledInit, SettledStep, PTL DEF Spec

(* Every reachable state is well typed; in particular the job never has a  *)
(* month before the first to report.                                       *)
THEOREM MeteringTypeCorrect == Spec => []TypeOK
<1>1. Inv => TypeOK
  BY DEF Inv
<1> QED
  BY <1>1, InvInit, InvStep, PTL DEF Spec
=============================================================================
