-------------------------------- MODULE Shifts ---------------------------------
(***************************************************************************)
(* Shifts, their assignment to one employee, and what the month's totals   *)
(* make of them: ShiftsService and AttendanceVerificationService.matchShift *)
(* as handlers that interleave, the totals by Calculator.                  *)
(*                                                                         *)
(* Records come from the check chain (CheckIn), leaves from Timesheets,    *)
(* whose approvals and locks are left out here.  Dates of an assignment    *)
(* lie in the month.                                                       *)
(***************************************************************************)
EXTENDS Calculator

CONSTANTS
  ShiftIds,
  Definitions,               \* what a shift may be defined as
  Calls,                     \* assign and remove requests under way
  Instants,                  \* of a day, at which records are made or put
  ManualLates,               \* lateness an administrator types
  MaxInputs                  \* bound: assignments, records, leaves, edits in all

ASSUME ShiftsConstants ==
  /\ MaxInputs \in Nat /\ Instants \subseteq Ticks /\ ManualLates \subseteq Nat
  /\ None \notin [id : ShiftIds, from : Days, to : Nat \cup {None}]
  /\ \A s \in Definitions : /\ s.start \in Minutes /\ s.end \in Minutes
                            /\ s.grace \in Nat /\ s.break \in Nat /\ s.workDays \subseteq Days

VARIABLES
  shifts,      \* the shifts table: a definition per id, or None
  assigned,    \* user_shifts: the rows, in the order of their insertion
  call,        \* an assign past its reads, or a remove past its count
  crossed,     \* history: two assigns were under way at once
  orphaned,    \* history: assignments inserted after a remove had counted
  records, leaves,
  edits        \* shifts changed, records corrected and calls failed so far

vars == <<shifts, assigned, call, crossed, orphaned, records, leaves, edits>>

Init ==
  /\ shifts \in {[s \in ShiftIds |-> d] : d \in Definitions}
  /\ assigned = <<>> /\ call = [c \in Calls |-> None]
  /\ crossed = FALSE /\ orphaned = {} /\ records = {} /\ leaves = {} /\ edits = 0

\* A row's shift is read through the join when the totals are made.
Assignment(shift, from, to) == [id |-> shift, from |-> from, to |-> to]
Rows == {i \in DOMAIN assigned : assigned[i] # None}
Assignments == {[shift |-> shifts[assigned[i].id], from |-> assigned[i].from,
                 to |-> assigned[i].to] : i \in Rows}
ShiftsOn(d) == ShiftForDate(Assignments, d)

-----------------------------------------------------------------------------
(* ShiftsService                                                           *)

\* Room for one more input.
Room == Len(assigned) + Cardinality({c \in Calls : call[c] # None}) + Cardinality(records)
        + Cardinality(leaves) + edits < MaxInputs
Edit == Room /\ edits' = edits + 1

\* create, or update: the new definition counts for days past as well.
Define(s, definition) ==
  /\ Edit /\ shifts[s] # definition
  /\ shifts' = [shifts EXCEPT ![s] = definition]
  /\ UNCHANGED <<assigned, call, crossed, orphaned, records, leaves>>

\* assign has read the shift and the open assignments.
AssignLoad(c, s, from, to) ==
  /\ call[c] = None /\ shifts[s] # None
  /\ to # None => from <= to
  /\ Room
  /\ call' = [call EXCEPT ![c] =
       [op |-> "assign", new |-> Assignment(s, from, to),
        open |-> {i \in Rows : assigned[i].to = None}]]
  /\ crossed' = (crossed \/ \E b \in Calls : call[b] # None /\ call[b].op = "assign")
  /\ UNCHANGED <<shifts, assigned, orphaned, records, leaves, edits>>

\* Mutant of Closed: off by one, and whenever it began.
ClosedEarly(a, new) == [a EXCEPT !.to = new.from - 2]

\* An open assignment ends the day before the new one, but not before it began.
Closed(a, new) ==
  [a EXCEPT !.to = IF a.from > new.from - 1 THEN a.from ELSE new.from - 1]

\* Mutant of AssignClose: the last of the open assignments stays open.
AssignCloseFirst(c, i) ==
  /\ call[c] # None /\ call[c].op = "assign" /\ i \in call[c].open
  /\ assigned' = [assigned EXCEPT ![i] =
       IF Cardinality(call[c].open) = 1 \/ @ = None THEN @ ELSE Closed(@, call[c].new)]
  /\ call' = [call EXCEPT ![c].open = @ \ {i}]
  /\ UNCHANGED <<shifts, crossed, orphaned, records, leaves, edits>>

\* One save of the loop.  A row that is gone with its shift makes it fail.
AssignClose(c, i) ==
  /\ call[c] # None /\ call[c].op = "assign" /\ i \in call[c].open
  /\ assigned' = [assigned EXCEPT ![i] = IF @ = None THEN @ ELSE Closed(@, call[c].new)]
  /\ call' = [call EXCEPT ![c] =
       IF assigned[i] = None THEN None ELSE [call[c] EXCEPT !.open = call[c].open \ {i}]]
  /\ UNCHANGED <<shifts, crossed, orphaned, records, leaves, edits>>

\* The insert; the foreign key refuses a shift that is gone.
AssignInsert(c) ==
  /\ call[c] # None /\ call[c].op = "assign" /\ call[c].open = {}
  /\ assigned' = IF shifts[call[c].new.id] = None THEN assigned
                 ELSE Append(assigned, call[c].new)
  /\ call' = [call EXCEPT ![c] = None]
  /\ orphaned' = orphaned \cup
       {s \in {call[c].new.id} : \E b \in Calls : call[b] # None /\ call[b].op = "remove"
                                                  /\ call[b].id = s}
  /\ UNCHANGED <<shifts, crossed, records, leaves, edits>>

\* Mutant of RemoveCount: assignments that have ended do not count.
RemoveCountOpen(c, s) ==
  /\ call[c] = None /\ shifts[s] # None /\ Room
  /\ \A i \in Rows : assigned[i].id = s => assigned[i].to # None
  /\ call' = [call EXCEPT ![c] = [op |-> "remove", id |-> s, open |-> {}]]
  /\ orphaned' = orphaned \ {s}
  /\ UNCHANGED <<shifts, assigned, crossed, records, leaves, edits>>

\* remove counts the assignments, open or not.
RemoveCount(c, s) ==
  /\ call[c] = None /\ shifts[s] # None /\ Room
  /\ \A i \in Rows : assigned[i].id # s
  /\ call' = [call EXCEPT ![c] = [op |-> "remove", id |-> s, open |-> {}]]
  /\ orphaned' = orphaned \ {s}
  /\ UNCHANGED <<shifts, assigned, crossed, records, leaves, edits>>

\* The delete takes what was assigned meanwhile with it (ON DELETE CASCADE).
RemoveDelete(c) ==
  /\ call[c] # None /\ call[c].op = "remove"
  /\ shifts' = [shifts EXCEPT ![call[c].id] = None]
  /\ assigned' = [i \in DOMAIN assigned |->
       IF i \in Rows /\ assigned[i].id = call[c].id THEN None ELSE assigned[i]]
  /\ call' = [call EXCEPT ![c] = None]
  /\ UNCHANGED <<crossed, orphaned, records, leaves, edits>>

\* A database error or a crash: what is closed stays closed, without a successor.
Fail(c) ==
  /\ Edit /\ call[c] # None
  /\ call' = [call EXCEPT ![c] = None]
  /\ UNCHANGED <<shifts, assigned, crossed, orphaned, records, leaves>>

-----------------------------------------------------------------------------
(* Records and leaves                                                      *)

\* A check: matchShift fixes its lateness by the shift of the moment.  Its instant
\* is taken before the chain's awaits, so records need not come in its order.
Check(type, d, at) ==
  /\ Room
  /\ \E shift \in IF ShiftsOn(d) = {} THEN {None} ELSE ShiftsOn(d) :
       records' = records \cup {[id |-> Cardinality(records) + 1,
         day |-> d, type |-> type, at |-> at,
         late |-> IF shift = None \/ type = "OUT" THEN 0
                  ELSE ComputeLateMinutes(shift, d, at)]}
  /\ UNCHANGED <<shifts, assigned, call, crossed, orphaned, leaves, edits>>

\* AttendanceService.patch: any of time, type and lateness; the lateness stays unless
\* it is given, and another record may be of the same instant.
Patch(r, d, at, type, late) ==
  /\ Edit
  /\ records' = (records \ {r}) \cup
       {[r EXCEPT !.day = d, !.at = at, !.type = type, !.late = late]}
  /\ UNCHANGED <<shifts, assigned, call, crossed, orphaned, leaves>>

\* createLeave: a window that ends after it begins, or the day.
CreateLeave(l) ==
  /\ Room /\ l \notin leaves
  /\ ~WholeDay(l) => l.from < l.to
  /\ leaves' = leaves \cup {l}
  /\ UNCHANGED <<shifts, assigned, call, crossed, orphaned, records, edits>>

Next ==
  \/ \E s \in ShiftIds, definition \in Definitions : Define(s, definition)
  \/ \E c \in Calls, s \in ShiftIds, from \in Days, to \in Days \cup {None} :
       AssignLoad(c, s, from, to)
  \/ \E c \in Calls : AssignInsert(c) \/ RemoveDelete(c) \/ Fail(c)
  \/ \E c \in Calls, i \in DOMAIN assigned : AssignClose(c, i)
  \/ \E c \in Calls, s \in ShiftIds : RemoveCount(c, s)
  \/ \E type \in {"IN", "OUT"}, d \in Days, at \in Instants : Check(type, d, at)
  \/ \E r \in records, d \in Days, at \in Instants, type \in {"IN", "OUT"} :
       \E late \in ManualLates \cup {r.late} : Patch(r, d, at, type, late)
  \/ \E l \in CalcLeave : CreateLeave(l)

Spec == Init /\ [][Next]_vars

-----------------------------------------------------------------------------
(* Assignments                                                             *)

\* Assigning closes whatever was open: an employee has one open assignment, unless
\* two assigns had read the open ones before either inserted its own.
OneOpen ==
  crossed \/ \A i, j \in Rows :
               assigned[i].to = None /\ assigned[j].to = None => i = j

\* Assigning changes no day before the new assignment, at any of its steps: days
\* already worked keep their shift.  Of two overlapping assigns the later save can
\* move an end that the other has set.
AssignKeepsPast ==
  [][\A c \in Calls :
       ~crossed /\ call[c] # None /\ call[c].op = "assign" /\ call'[c] # call[c] =>
       \A d \in Days : d < call[c].new.from => ShiftsOn(d)' = ShiftsOn(d)]_vars

\* An assignment disappears only with a shift that nobody had it for when remove
\* counted (user_shifts are deleted with their shift).
AssignmentsSurvive ==
  [][\A i \in Rows : assigned'[i] = None => assigned[i].id \in orphaned]_vars

-----------------------------------------------------------------------------
(* Totals                                                                  *)

On(d, of) == {x \in of : x.day = d}

\* Instants somebody is in: since an IN that no OUT followed, before another OUT.
Outs(rs) == {o \in rs : o.type = "OUT"}
Inside(rs, order) ==
  {m \in Ticks :
     /\ \E i \in rs : /\ i.type = "IN" /\ i.at <= m
                      /\ \A o \in Outs(rs) : order[o] < order[i] \/ o.at > m
     /\ \E o \in Outs(rs) : o.at > m}

\* The walk over the records of a day adds up the time the employee was in (break
\* aside), however INs and OUTs repeat, miss or coincide, and in whichever order
\* those of one instant come: never more, and of no OUT a whole minute less.
WorkedIsInside ==
  \A d \in Days : LET rs == On(d, records) IN
    \A order \in TimeOrders(rs) :
      LET worked == TicksPerMinute * WorkedMinutesForDay(rs, order, 0)
          inside == Cardinality(Inside(rs, order))
      IN worked <= inside /\ inside <= worked + (TicksPerMinute - 1) * Cardinality(Outs(rs))

\* "Overlap of the leave windows with the day's shift window, in minutes": the
\* minutes of the shift in some leave, up to the schedule; a night shift reaches
\* into the morning, to which early leaves of its day belong.
InLeave(m, ls) == \E l \in ls : l.from <= m /\ m < l.to
LeaveMinutesOf(ls, shift) ==
  {m \in shift.start..(ShiftEnd(shift) - 1) :
     InLeave(m, ls) \/ InLeave(m - DayLength, ls)}
LeaveCounted(ls, shift) ==
  LeaveMinutesForDay(ls, shift) =
    Least(Cardinality(LeaveMinutesOf(ls, shift)), ScheduledMinutes(shift))
Disjoint(ls) ==
  \A k, l \in ls : k = l \/ k.to <= l.from \/ l.to <= k.from

\* So it is for the leaves of one day that neither overlap each other nor reach
\* over the start of a night shift.
LeaveIsOverlap ==
  \A d \in Days : \A shift \in ShiftsOn(d) \ {None} :
    LET ls == On(d, leaves) IN
    \/ \E l \in ls : WholeDay(l) \/ (ShiftEnd(shift) > DayLength
                                     /\ l.from < shift.start /\ l.to > shift.start)
    \/ ~Disjoint(ls)
    \/ LeaveCounted(ls, shift)

\* For every window, alone on its day.
LeaveAlwaysOverlap ==
  \A d \in Days : \A shift \in ShiftsOn(d) \ {None} :
    Cardinality(On(d, leaves)) = 1 /\ ~(\E l \in On(d, leaves) : WholeDay(l))
      => LeaveCounted(On(d, leaves), shift)

\* A leave never makes a day worse for the employee: not later, not absent, not
\* with less extra work than without it.
LeaveNeverHurts ==
  \A d \in Days : \A shift \in ShiftsOn(d) \ {None} :
    \A l \in On(d, leaves), order \in TimeOrders(On(d, records)) :
      LET with == CalculateDay(On(d, records), order, shift, On(d, leaves), d)
          without == CalculateDay(On(d, records), order, shift, On(d, leaves) \ {l}, d)
      IN /\ with.late <= without.late
         /\ with.absent => without.absent
         /\ with.extra >= without.extra
=============================================================================
