--------------------------- MODULE MeteringWindow ---------------------------
(***************************************************************************)
(* Which usage of one service instance is reported, and with which start   *)
(* time, over its life: between the monthly job, which reports the month   *)
(* before of every instance there is a row of, and the deprovision, which  *)
(* reports the month it is.  An administrator may report that month too.   *)
(* An instance younger than the month is reported from its creation.       *)
(*                                                                         *)
(* A time is a month, a day and a slot of the day, the finest difference   *)
(* the model tells apart.  Months may have any number of days; they are    *)
(* numbered without regard to years, and the clock has no summer time.     *)
(* The process is up at the first slot of every month, the job lists the   *)
(* instances on that day, and what it lists reaches the usage API: Billing *)
(* has the job itself.                                                     *)
(***************************************************************************)
EXTENDS Naturals, FiniteSets

CONSTANTS
  LastMonth,   \* bound on the clock
  DaysIn,      \* DaysIn[m]: the days of month m
  Slots,       \* the slots of a day
  Buffer,      \* the "couple hours" added to a creation time, in slots
  MaxReports   \* bound on the records after which nobody submits one by hand

ASSUME ConstantsAssumption ==
  /\ LastMonth \in Nat
  /\ DaysIn \in [0..LastMonth -> Nat \ {0}]
  /\ Slots \in Nat \ {0}
  /\ Buffer \in 1..(Slots - 1)
  /\ MaxReports \in Nat

VARIABLES
  now,      \* the clock
  stage,    \* of the instance: "none", "present", "leaving" (reported by a
            \* DELETE whose other steps are to come) or "gone"
  created,  \* its createDate
  due,      \* is the job of this month still to list the instances?
  reports,  \* the usage records: their start and the month they are for
  closed,   \* history: the month of the DELETE
  missed    \* history: the month the job had to report when the row went

vars == <<now, stage, created, due, reports, closed, missed>>

Times == [month : Nat, day : Nat, slot : 0..(Slots - 1)]

(* Date's <.                                                               *)
Before(s, t) ==
  \/ s.month < t.month
  \/ s.month = t.month /\ s.day < t.day
  \/ s.month = t.month /\ s.day = t.day /\ s.slot < t.slot

(* A time so many slots later, as setHours normalises it.                  *)
Later(t, slots) ==
  IF t.slot + slots < Slots THEN [t EXCEPT !.slot = @ + slots]
  ELSE IF t.day + 1 < DaysIn[t.month]
    THEN [month |-> t.month, day |-> t.day + 1, slot |-> (t.slot + slots) - Slots]
    ELSE [month |-> t.month + 1, day |-> 0, slot |-> (t.slot + slots) - Slots]

(* A mutation: the hours are added without carrying into the day.          *)
BufferedUncarried(createDate) == [createDate EXCEPT !.slot = @ + Buffer]

(* setHours(getHours() + 2) on the creation time.                          *)
Buffered(createDate) == Later(createDate, Buffer)

(* A mutation: the comparison with the creation time is left out.          *)
MonthStartUnchecked(createDate, at, manualRequest) ==
  [at EXCEPT !.day = 0, !.month = IF manualRequest THEN @ ELSE @ - 1]

(* A mutation: the job's request is not moved to the month before.         *)
MonthStartSameMonth(createDate, at, manualRequest) ==
  LET first == [at EXCEPT !.day = 0]
  IN IF Before(first, createDate) THEN Buffered(createDate) ELSE first

(* getMonthStart at a time: the first day of the month, at the time of day *)
(* it is; a month earlier for the job; or else the creation time, buffered.*)
GetMonthStart(createDate, at, manualRequest) ==
  LET first      == [at EXCEPT !.day = 0]
      monthStart == IF manualRequest THEN first ELSE [first EXCEPT !.month = @ - 1]
  IN IF Before(monthStart, createDate) THEN Buffered(createDate) ELSE monthStart

Init ==
  /\ now = [month |-> 0, day |-> 0, slot |-> 0]
  /\ stage = "none"
  /\ created = now
  /\ due = FALSE
  /\ reports = {}
  /\ closed = 0
  /\ missed = {}

HasRow == stage \in {"present", "leaving"}

(* The job starts at the first slot of a month.                            *)
TimePasses ==
  /\ now' = Later(now, 1)
  /\ now'.month <= LastMonth
  /\ due => now'.month = now.month /\ now'.day = 0
  /\ due' = (due \/ now'.month # now.month)
  /\ UNCHANGED <<stage, created, reports, closed, missed>>

(* The creation time is the time the entity is built.                      *)
Provision ==
  /\ stage = "none"
  /\ stage' = "present"
  /\ created' = now
  /\ UNCHANGED <<now, due, reports, closed, missed>>

Report(manualRequest, for) ==
  reports' = reports \cup {[start |-> GetMonthStart(created, now, manualRequest), for |-> for]}

(* The job lists the instances: one may have been created since it was     *)
(* started, and one may have gone.                                         *)
JobReport ==
  /\ due
  /\ due' = FALSE
  /\ IF HasRow THEN Report(FALSE, now.month - 1) ELSE UNCHANGED reports
  /\ UNCHANGED <<now, stage, created, closed, missed>>

(* POST /admin/submit-billing.  A test submission has quantity 0 and tells *)
(* of no usage: it is none of these records.                               *)
ManualReport ==
  /\ HasRow
  /\ Cardinality(reports) < MaxReports
  /\ Report(TRUE, now.month)
  /\ UNCHANGED <<now, stage, created, due, closed, missed>>

(* A mutation: a DELETE reports the month before, as the job does.         *)
DeprovisionAsJob ==
  /\ stage = "present" /\ now.month > 0
  /\ stage' = "leaving"
  /\ closed' = now.month
  /\ Report(FALSE, now.month - 1)
  /\ UNCHANGED <<now, created, due, missed>>

(* A DELETE has reported the instance, and goes on to its licenses.        *)
Deprovision ==
  /\ stage = "present"
  /\ stage' = "leaving"
  /\ closed' = now.month
  /\ Report(TRUE, now.month)
  /\ UNCHANGED <<now, created, due, missed>>

(* It fails, and may be repeated at any time later, or it deletes the row. *)
FinishDeprovision ==
  /\ stage = "leaving"
  /\ \/ stage' = "present" /\ UNCHANGED missed
     \/ stage' = "gone" /\ missed' = IF due THEN {now.month - 1} ELSE {}
  /\ UNCHANGED <<now, created, due, reports, closed>>

Next ==
  TimePasses \/ Provision \/ JobReport \/ ManualReport \/ Deprovision \/ FinishDeprovision

Spec == Init /\ [][Next]_vars

-----------------------------------------------------------------------------
(* Properties.                                                             *)

TypeOK ==
  /\ now \in Times /\ now.month \in 0..LastMonth
  /\ stage \in {"none", "present", "leaving", "gone"}
  /\ created \in Times /\ created.month \in 0..LastMonth
  /\ due \in BOOLEAN /\ (due => now.month > 0)
  /\ reports \subseteq [start : Times, for : 0..LastMonth]
  /\ closed \in 0..LastMonth
  /\ missed \subseteq 0..LastMonth

(* No usage is reported from before the instance existed, and none from a  *)
(* time still to come, except that of an instance created within the last  *)
(* couple of hours.                                                        *)
UsageIsPast ==
  \A r \in reports :
    /\ ~Before(r.start, created)
    /\ ~Before(now, r.start) \/ r.start = Buffered(created)

CreatedAtEndOfMonth == Buffered(created).month # created.month

(* A record starts in the month it is for: the metering service charges    *)
(* that month and no other.  The exceptions are instances created in the   *)
(* last couple of hours of a month, and those the job finds although they  *)
(* were created after it was started.                                      *)
StartsInItsMonth ==
  \A r \in reports :
    r.start.month = r.for \/ CreatedAtEndOfMonth \/ created.month > r.for

(* Is it time that the usage of a month has been reported?                 *)
Over(m) ==
  \/ HasRow /\ m < now.month /\ (due => m # now.month - 1)
  \/ stage = "gone" /\ m <= closed

(* Every month of the life of an instance has a record: the last one from  *)
(* the DELETE and the others from the job, however long the DELETE takes   *)
(* and however often it fails.  The exceptions are the month an instance   *)
(* was created in the last couple of hours of, and the month before when   *)
(* a DELETE on the first of a month removes the row before the job lists.  *)
EveryMonthIsReported ==
  \A m \in created.month..LastMonth :
    Over(m) =>
      \/ \E r \in reports : r.start.month = m
      \/ m = created.month /\ CreatedAtEndOfMonth
      \/ m \in missed
=============================================================================
