--------------------------- MODULE WorkerSchedule ---------------------------
(* The shifts of a worker: his weekly template, the cafe's opening hours,     *)
(* his absences, and the clock-ins checked against what they come to          *)
(* (worker-schedule.lib.ts, cafe-admin-workers.service.ts).  Times count from *)
(* midnight in Moscow, DayLength to a day.  Shifts are read on Moscow's clock,  *)
(* whether a cafe is open is read on the clock of the server.                 *)
EXTENDS Requests, Integers, Sequences, FiniteSetsExt

CONSTANTS
  DayLength, Week, \* minutes of a day and days of a week; a smaller clock in the runs
  ServerOffset,    \* how far the server's local clock is ahead of Moscow's
  ShiftWindow,     \* WINDOW_MS
  ShiftTemplates,      \* the weekly templates an administrator submits
  HoursTemplates,          \* the opening hours a cafe submits
  AbsenceRanges,   \* the absences that are entered, <<first day, last day>>
  NoShifts,
  Instants         \* bound: the instants the clock reaches

Weekdays == 0..(Week - 1)
TimeSegment == [open : 0..(DayLength - 1), close : 0..(DayLength - 1)]

\* A day of a template is closed, << >>, or has segments; a cafe's has one at most, and
\* may be unset too (parseOpeningHoursDay).
ASSUME WorkerScheduleAssumption ==
  /\ DayLength \in Nat \ {0} /\ Week \in Nat \ {0} /\ ShiftWindow \in 0..(DayLength - 1)
  /\ ServerOffset \in Int
  /\ \A w \in ShiftTemplates : w \in [Weekdays -> Seq(TimeSegment)]
  /\ \A h \in HoursTemplates : /\ h \in [Weekdays -> [isSet : BOOLEAN, segments : Seq(TimeSegment)]]
                              /\ \A d \in Weekdays : Len(h[d].segments) <= 1
  /\ NoShifts \notin ShiftTemplates
  /\ Instants \subseteq Nat

VARIABLES
  shiftSchedule, \* of the worker
  openingHours,  \* of the cafe
  absences,      \* worker_schedule_absences
  shiftStatus,   \* of the worker
  now,
  checked        \* the hours the template was checked against, and whether that found no violation

wvars == <<shiftSchedule, openingHours, absences, shiftStatus, now, checked>>

UnsetHours == [d \in Weekdays |-> [isSet |-> FALSE, segments |-> << >>]]

-----------------------------------------------------------------------------
(* Segments.                                                                 *)

\* A segment that does not close after it opens closes on the next day.
segmentToLocalMinuteRange(seg) ==
  [start |-> seg.open, end |-> IF seg.close > seg.open THEN seg.close ELSE seg.close + DayLength]

expandSegmentToUtcRange(day, seg) ==
  LET local == segmentToLocalMinuteRange(seg) IN
  [start |-> day * DayLength + local.start, end |-> day * DayLength + local.end]

Overlap(a, b) == a.start < b.end /\ b.start < a.end

validateWeeklyShiftSchedule(week) ==
  \A day \in Weekdays : \A i, j \in DOMAIN week[day] :
    i < j => ~Overlap(segmentToLocalMinuteRange(week[day][i]), segmentToLocalMinuteRange(week[day][j]))

validateCafeSchedule(hours) ==
  \A day \in Weekdays : \A i \in DOMAIN hours[day].segments :
    hours[day].segments[i].open # hours[day].segments[i].close

\* A new cafe's hours are validated too, if it is given any.
WorkerScheduleInit ==
  /\ shiftSchedule = NoShifts /\ openingHours \in {UnsetHours} \cup {h \in HoursTemplates : validateCafeSchedule(h)}
  /\ absences = {} /\ shiftStatus = "OFF_SHIFT"
  /\ now \in Instants
  /\ checked = [hours |-> UnsetHours, clean |-> FALSE]

isWeeklyShiftScheduleEmpty(week) == IF week = NoShifts THEN TRUE ELSE \A day \in Weekdays : week[day] = << >>

isCafeOpeningHoursSet(hours) == \E day \in Weekdays : hours[day].isSet

segmentWithinCafeDay(seg, cafeSegments) ==
  LET inner == expandSegmentToUtcRange(0, seg) IN
  \E i \in DOMAIN cafeSegments :
    LET outer == expandSegmentToUtcRange(0, cafeSegments[i]) IN
    inner.start >= outer.start /\ inner.end <= outer.end

\* The segments updateShiftSchedule warns of.
workerDayViolatesCafeBounds(week, hours, day) ==
  {i \in DOMAIN week[day] : ~segmentWithinCafeDay(week[day][i], hours[day].segments)}

\* The day and the hour of the server, whose time zone may be another (getDay, getHours).
ServerClock(t) == t + ServerOffset

\* isCafeOpenNow, by the hours of the day of that clock alone.
isCafeOpenNow(hours, t) ==
  LET day == hours[(ServerClock(t) \div DayLength) % Week]
      minute == ServerClock(t) % DayLength
  IN \E i \in DOMAIN day.segments :
       LET seg == day.segments[i] IN
       /\ seg.open # seg.close
       /\ IF seg.open < seg.close THEN seg.open <= minute /\ minute < seg.close
          ELSE minute >= seg.open \/ minute < seg.close

-----------------------------------------------------------------------------
(* What a worker's days come to.                                             *)

absenceCoversDate(day) == \E a \in absences : a[1] <= day /\ day <= a[2]

\* A worker with a template follows it; one whose days are all closed has none.
buildEffectiveSegmentsForDay(day) ==
  IF absenceCoversDate(day) THEN << >>
  ELSE IF isWeeklyShiftScheduleEmpty(shiftSchedule) THEN openingHours[day % Week].segments
  ELSE shiftSchedule[day % Week]

buildEffectiveScheduleWindow(fromDay, days) ==
  UNION {{expandSegmentToUtcRange(day, buildEffectiveSegmentsForDay(day)[i]) :
            i \in DOMAIN buildEffectiveSegmentsForDay(day)} : day \in fromDay..(fromDay + days - 1)}

Near(t, edge) == edge - ShiftWindow <= t /\ t <= edge + ShiftWindow

needsConfirmShiftOn(t, segments) == \A s \in segments : ~Near(t, s.start)
needsConfirmShiftOff(t, segments) == \A s \in segments : ~Near(t, s.end)

\* The schedule of yesterday, today and tomorrow, if there is any.
NeedsConfirm(goingOn, t) ==
  LET segments == buildEffectiveScheduleWindow((t \div DayLength) - 1, 3) IN
  /\ isCafeOpeningHoursSet(openingHours) \/ ~isWeeklyShiftScheduleEmpty(shiftSchedule)
  /\ segments # {}
  /\ IF goingOn THEN needsConfirmShiftOn(t, segments) ELSE needsConfirmShiftOff(t, segments)

-----------------------------------------------------------------------------
(* The requests.                                                             *)

\* All of the week must be given; violations of the cafe's hours are answered, not refused.
updateShiftSchedule(p, week) ==
  /\ Idle(p)
  /\ validateWeeklyShiftSchedule(week)
  /\ Become(p, [pc |-> "shift_write", week |-> week,
                checked |-> [hours |-> openingHours,
                             clean |-> /\ isCafeOpeningHoursSet(openingHours)
                                       /\ \A day \in Weekdays : workerDayViolatesCafeBounds(week, openingHours, day) = {}]])
  /\ UNCHANGED wvars

ShiftWrites(p) ==
  /\ In(p, "shift_write")
  /\ shiftSchedule' = handler[p].week /\ checked' = handler[p].checked
  /\ Finish(p)
  /\ UNCHANGED <<openingHours, absences, shiftStatus, now>>

\* The days that are not given are unset.
updateCafeSchedule(hours) ==
  /\ validateCafeSchedule(hours)
  /\ openingHours' = hours
  /\ UNCHANGED <<shiftSchedule, absences, shiftStatus, now, checked, rvars>>

createScheduleAbsence(range) ==
  /\ range[1] <= range[2]
  /\ absences' = absences \cup {range}
  /\ UNCHANGED <<shiftSchedule, openingHours, shiftStatus, now, checked, rvars>>

deleteScheduleAbsence(range) ==
  /\ range \in absences
  /\ absences' = absences \ {range}
  /\ UNCHANGED <<shiftSchedule, openingHours, shiftStatus, now, checked, rvars>>

\* A clock-in or clock-out far from the schedule must be confirmed.
toggleShiftStatus(p, confirmOutsideSchedule) ==
  /\ Idle(p)
  /\ NeedsConfirm(shiftStatus = "OFF_SHIFT", now) => confirmOutsideSchedule
  /\ Become(p, [pc |-> "toggle", status |-> IF shiftStatus = "ON_SHIFT" THEN "OFF_SHIFT" ELSE "ON_SHIFT"])
  /\ UNCHANGED wvars

ToggleWrites(p) ==
  /\ In(p, "toggle")
  /\ shiftStatus' = handler[p].status
  /\ Finish(p)
  /\ UNCHANGED <<shiftSchedule, openingHours, absences, now, checked>>

Tick ==
  /\ now + 1 \in Instants /\ now' = now + 1
  /\ UNCHANGED <<shiftSchedule, openingHours, absences, shiftStatus, checked, rvars>>

ShiftRequest(p) ==
  \/ \E week \in ShiftTemplates : updateShiftSchedule(p, week)
  \/ ShiftWrites(p)
  \/ \E confirmed \in BOOLEAN : toggleShiftStatus(p, confirmed)
  \/ ToggleWrites(p)

WorkerScheduleNext ==
  \/ \E p \in Procs : ShiftRequest(p) \/ (Dies(p) /\ UNCHANGED wvars)
  \/ \E hours \in HoursTemplates : updateCafeSchedule(hours)
  \/ \E range \in AbsenceRanges : createScheduleAbsence(range) \/ deleteScheduleAbsence(range)
  \/ Tick

WorkerScheduleSpec == WorkerScheduleInit /\ RequestsInit /\ [][WorkerScheduleNext]_<<wvars, rvars>>

-----------------------------------------------------------------------------
(* What is promised.                                                         *)

Day(t) == t \div DayLength
EffectiveSegments(day) ==
  LET segments == buildEffectiveSegmentsForDay(day) IN {expandSegmentToUtcRange(day, segments[i]) : i \in DOMAIN segments}

WorkerScheduleTypeOK ==
  /\ shiftSchedule \in {NoShifts} \cup ShiftTemplates /\ openingHours \in {UnsetHours} \cup HoursTemplates
  /\ absences \subseteq AbsenceRanges /\ now \in Instants
  /\ shiftStatus \in {"ON_SHIFT", "OFF_SHIFT"}

\* No instant belongs to two segments that begin on one day, nights included.  A
\* template that was saved without a warning keeps the worker to the hours in which
\* the cafe answers that it is open, up to midnight, until the cafe changes them: the
\* cafe answers so when the clock of the server, not Moscow's, shows a time of the shift.
\* A clock-in is asked to be confirmed only if no shift of any day starts near it,
\* and a clock-out only if none ends near it that started yesterday or later.
ShiftsFollowTheSchedule ==
  LET today == Day(now)
      shown == ServerClock(now)
  IN
  /\ Cardinality(EffectiveSegments(today)) = Len(buildEffectiveSegmentsForDay(today))
  /\ \A s, other \in EffectiveSegments(today) : s # other => ~Overlap(s, other)
  /\ \A s \in EffectiveSegments(Day(shown)) :
       /\ s.start <= shown /\ shown < s.end
       /\ checked.clean /\ checked.hours = openingHours
       => isCafeOpenNow(openingHours, now)
  /\ NeedsConfirm(TRUE, now) =>
       \A day \in 0..(today + 2) : \A s \in EffectiveSegments(day) : ~Near(now, s.start)
  /\ NeedsConfirm(FALSE, now) =>
       \A day \in (today - 1)..(today + 2) : \A s \in EffectiveSegments(day) : ~Near(now, s.end)
=============================================================================
