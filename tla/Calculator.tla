------------------------------ MODULE Calculator -------------------------------
(***************************************************************************)
(* The arithmetic of a month: shift-matching.util and timesheet-calculator. *)
(* A day has DayLength minutes, a minute TicksPerMinute instants; the days  *)
(* of the month are numbered and each is a weekday of its own; workDays is  *)
(* a set instead of a bitmask and wall-clock times are numbers              *)
(* (Europe/Istanbul has no daylight saving).                                *)
(***************************************************************************)
EXTENDS Integers, Sequences, FiniteSetsExt, Folds

CONSTANTS Days, DayLength, TicksPerMinute, None

ASSUME CalculatorConstants ==
  /\ Days \subseteq Nat /\ None \notin Nat
  /\ DayLength \in Nat \ {0} /\ TicksPerMinute \in Nat \ {0}

Minutes == 0..(DayLength - 1)
Ticks == 0..(DayLength * TicksPerMinute - 1)

\* A record of the day: IN or OUT at an instant, with the lateness stored with it;
\* a leave: a window, or the whole day when from is None.
CalcRecord == [id : Nat, day : Days, type : {"IN", "OUT"}, at : Ticks, late : Nat]
CalcLeave == [day : Days, from : Minutes, to : Minutes]
             \cup [day : Days, from : {None}, to : {None}]
WholeDay(l) == l.from = None

AtLeast0(n) == IF n < 0 THEN 0 ELSE n
Least(a, b) == IF a < b THEN a ELSE b
Most(a, b) == IF a < b THEN b ELSE a

-----------------------------------------------------------------------------
(* shift-matching.util                                                     *)

IsWorkDay(shift, d) == d \in shift.workDays

\* The end of an overnight shift is on the next day.
ShiftEnd(shift) == IF shift.end <= shift.start THEN shift.end + DayLength ELSE shift.end

\* The seconds of the record do not count.
ComputeLateMinutes(shift, d, at) ==
  IF IsWorkDay(shift, d)
  THEN AtLeast0((at \div TicksPerMinute) - (shift.start + shift.grace)) ELSE 0

ScheduledMinutes(shift) == AtLeast0(ShiftEnd(shift) - shift.start - shift.break)

-----------------------------------------------------------------------------
(* timesheet-calculator                                                    *)

\* Assignments that cover a day; the latest start wins.  Of two that start on
\* the same day either may: the order of the rows decides.
Effective(assignments, d) ==
  {a \in assignments : a.from <= d /\ (a.to = None \/ a.to >= d)}
ShiftForDate(assignments, d) ==
  {a.shift : a \in {b \in Effective(assignments, d) :
                      \A c \in Effective(assignments, d) : c.from <= b.from}}

\* The orders a day's records may come in: by time; those of one instant come as
\* the query returned them, which the sort keeps.
TimeOrders(records) ==
  {order \in [records -> 1..Cardinality(records)] :
     \A r, s \in records : /\ order[r] = order[s] => r = s
                           /\ r.at < s.at => order[r] < order[s]}

\* The records in such an order, from the last.
LastInTime(records, order) ==
  CHOOSE r \in records : \A s \in records : order[s] <= order[r]

\* Whole minutes from one instant to another.
MinutesFrom(open, at) == (at - open) \div TicksPerMinute

\* One record of the walk: an IN opens a pair unless one is open, an OUT closes it.
\* Mutant of Walk: every IN opens the pair anew.
WalkAnew(r, acc) ==
  IF r.type = "IN" THEN [acc EXCEPT !.open = r.at]
  ELSE IF acc.open = None THEN acc
  ELSE [open |-> None, total |-> acc.total + MinutesFrom(acc.open, r.at),
        pairs |-> acc.pairs + 1]

Walk(r, acc) ==
  IF r.type = "IN" THEN IF acc.open = None THEN [acc EXCEPT !.open = r.at] ELSE acc
  ELSE IF acc.open = None THEN acc
  ELSE [open |-> None, total |-> acc.total + MinutesFrom(acc.open, r.at),
        pairs |-> acc.pairs + 1]

NoPair == [open |-> None, total |-> 0, pairs |-> 0]
WalkOf(records, order) ==
  MapThenFoldSet(Walk, NoPair, LAMBDA r : r, LAMBDA rs : LastInTime(rs, order), records)

\* The sum of the pairs, less the break if there is only one.
WorkedMinutesForDay(records, order, break) ==
  LET day == WalkOf(records, order) IN
  IF day.pairs = 1 THEN AtLeast0(day.total - break) ELSE day.total

\* Mutant of LeaveOverlap: windows after midnight stay where they are.
LeaveOverlapSameDay(l, shift) ==
  AtLeast0(Least(l.to, ShiftEnd(shift)) - Most(l.from, shift.start))

\* A window before the start belongs to the morning after, in a night shift.
LeaveOverlap(l, shift) ==
  LET moved == ShiftEnd(shift) > DayLength /\ l.from < shift.start
      from == IF moved THEN l.from + DayLength ELSE l.from
      to == IF moved THEN l.to + DayLength ELSE l.to
  IN AtLeast0(Least(to, ShiftEnd(shift)) - Most(from, shift.start))

LeaveMinutesForDay(leaves, shift) ==
  IF \E l \in leaves : WholeDay(l) THEN ScheduledMinutes(shift)
  ELSE Least(MapThenSumSet(LAMBDA l : LeaveOverlap(l, shift), leaves), ScheduledMinutes(shift))

\* Mutant of ForgiveLate: the sign of the excuse is wrong.
ForgiveLateAdded(late, leaves, shift) ==
  LET lateEnd == shift.start + shift.grace + late
      overlap(l) == AtLeast0(Least(l.to, lateEnd) - Most(l.from, shift.start))
  IN IF late = 0 \/ leaves = {} THEN late
     ELSE IF \E l \in leaves : WholeDay(l) THEN 0
     ELSE AtLeast0(late + MapThenSumSet(overlap, leaves))

\* Leave since the start of the shift excuses lateness.
ForgiveLate(late, leaves, shift) ==
  LET lateEnd == shift.start + shift.grace + late
      overlap(l) == AtLeast0(Least(l.to, lateEnd) - Most(l.from, shift.start))
  IN IF late = 0 \/ leaves = {} THEN late
     ELSE IF \E l \in leaves : WholeDay(l) THEN 0
     ELSE AtLeast0(late - MapThenSumSet(overlap, leaves))

\* What one day with a shift (or None) adds to the totals of the month.
CalculateDay(records, order, shift, leaves, d) ==
  LET scheduled == IF shift = None \/ ~IsWorkDay(shift, d) THEN 0 ELSE ScheduledMinutes(shift)
      leave == IF scheduled = 0 THEN 0 ELSE LeaveMinutesForDay(leaves, shift)
      worked == WorkedMinutesForDay(records, order, IF shift = None THEN 0 ELSE shift.break)
      stored == MapThenSumSet(LAMBDA r : r.late, {r \in records : r.type = "IN"})
  IN [worked |-> worked, leave |-> leave,
      late |-> IF shift = None THEN stored ELSE ForgiveLate(stored, leaves, shift),
      absent |-> scheduled > 0 /\ records = {} /\ leave < scheduled,
      extra |-> IF scheduled > 0 /\ records = {} THEN 0 ELSE AtLeast0(worked - (scheduled - leave))]
=============================================================================
