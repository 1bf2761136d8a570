------------------------------ MODULE Timesheets ------------------------------
(***************************************************************************)
(* One month of TimesheetsService: (re)generation by the nightly cron and  *)
(* by administrators, leaves, the classification of extra work and the     *)
(* approval, one action per database call.  No call holds a transaction or *)
(* a lock, so calls interleave between any two of them.                    *)
(*                                                                         *)
(* A repository save is one step that overwrites every loaded column,      *)
(* inserts when the row is gone and fails on a unique index.  Totals are   *)
(* represented by what they are calculated from (Basis).                   *)
(***************************************************************************)
EXTENDS Integers, FiniteSets, FiniteSetsExt

CONSTANTS
  Users,                     \* active employees
  Days,                      \* days of the month, a set of numbers
  Admins,                    \* handlers of administrators' requests
  Crons,                     \* the nightly job
  LeaveIds, None,
  Schedule,                  \* scheduled minutes of a day, 0 on an off day
  MaxWorked,                 \* bound: minutes worked on a day
  MaxChanges,                \* bound: attendance records and corrections
  MaxCalls,                  \* bound: administrators' requests
  MaxFailures                \* bound: calls that die between two awaits

Callers == Admins \cup Crons

ASSUME TimesheetsConstants ==
  /\ Days \subseteq Nat /\ IsFiniteSet(Days)
  /\ Schedule \in [Days -> Nat]
  /\ MaxWorked \in Nat /\ MaxChanges \in Nat
  /\ MaxCalls \in Nat /\ MaxFailures \in Nat
  /\ None \notin Users

VARIABLES
  worked,          \* minutes by attendance_records, per user and day
  leave,           \* leave_entries row [user, day], or None
  sheet,           \* timesheets row of a user, or None
  entry,           \* extra_work_entries row of a user and day, or None
  born,            \* number of extra work rows ever inserted: the next id
  changes, calls, failures,
  pc,              \* next database call of a caller
  on,              \* the employee it is working on, or None
  mem,             \* its other locals
  overtaken        \* callers whose employee was approved since their guard

dbVars  == <<worked, leave, sheet, entry, born>>
bounds  == <<changes, calls, failures>>
vars == <<dbVars, bounds, pc, on, mem, overtaken>>

DecidedStatus == {"OVERTIME", "MAKEUP"}
Status == {"PENDING"} \cup DecidedStatus

Blank == [todo |-> {}, seen |-> None, records |-> None, leaves |-> None,
          rows |-> [d \in Days |-> None], left |-> {}, day |-> None,
          sum |-> 0, id |-> None]

Approved(u) == sheet[u] # None /\ sheet[u].status = "APPROVED"
LeaveRows(u) == {leave[l] : l \in {i \in LeaveIds : leave[i] # None /\ leave[i].user = u}}
OnLeave(u) == {r.day : r \in LeaveRows(u)}

\* calculateMonth: what is due on a day, and the days with more than that.
Due(basis, d) == IF d \in basis.leaves THEN 0 ELSE Schedule[d]
Extra(basis, d) == basis.records[d] - Due(basis, d)
\* Mutant of ExtraDays: days that fall short count as well.
ExtraDaysAny(basis) == {d \in Days : Extra(basis, d) # 0}

ExtraDays(basis) == {d \in Days : Extra(basis, d) > 0}
Basis(u) == [records |-> worked[u], leaves |-> OnLeave(u)]

Overtime(rows) ==
  MapThenSumSet(LAMBDA d : rows[d].minutes,
                {d \in Days : rows[d] # None /\ rows[d].status = "OVERTIME"})

-----------------------------------------------------------------------------

Init ==
  /\ worked = [u \in Users |-> [d \in Days |-> 0]]
  /\ leave = [l \in LeaveIds |-> None]
  /\ sheet = [u \in Users |-> None]
  /\ entry = [u \in Users |-> [d \in Days |-> None]]
  /\ born = 0
  /\ changes = 0 /\ calls = 0 /\ failures = 0
  /\ pc = [c \in Callers |-> "idle"]
  /\ on = [c \in Callers |-> None]
  /\ mem = [c \in Callers |-> Blank]
  /\ overtaken = {}

\* A check-in, or the correction of a record, changes what was worked.
Attend(u, d, minutes) ==
  /\ changes < MaxChanges
  /\ minutes # worked[u][d]
  /\ worked' = [worked EXCEPT ![u][d] = minutes]
  /\ changes' = changes + 1
  /\ UNCHANGED <<leave, sheet, entry, born, calls, failures, pc, on, mem, overtaken>>

\* How a call begins, goes on, turns to generateForMonth, and ends.
Begin(c, first, u, locals) ==
  /\ pc[c] = "idle"
  /\ IF c \in Crons THEN calls' = calls ELSE calls < MaxCalls /\ calls' = calls + 1
  /\ pc' = [pc EXCEPT ![c] = first]
  /\ on' = [on EXCEPT ![c] = u]
  /\ mem' = [mem EXCEPT ![c] = locals]
  /\ UNCHANGED <<dbVars, changes, failures, overtaken>>

GoOn(c, from, to, locals) ==
  /\ pc[c] = from
  /\ pc' = [pc EXCEPT ![c] = to]
  /\ mem' = [mem EXCEPT ![c] = locals]
  /\ UNCHANGED <<on, bounds>>

NextEmployee(c, todo) ==
  /\ pc' = [pc EXCEPT ![c] = "sheet"]
  /\ on' = [on EXCEPT ![c] = None]
  /\ mem' = [mem EXCEPT ![c] = [Blank EXCEPT !.todo = todo]]
  /\ overtaken' = overtaken \ {c}
  /\ UNCHANGED bounds

End(c) ==
  /\ pc' = [pc EXCEPT ![c] = "idle"]
  /\ on' = [on EXCEPT ![c] = None]
  /\ mem' = [mem EXCEPT ![c] = Blank]
  /\ UNCHANGED <<changes, calls>>

Fail(c) == End(c) /\ overtaken' = overtaken \ {c} /\ UNCHANGED <<dbVars, failures>>

\* A database error or a crash between two awaits.
Abort(c) ==
  /\ pc[c] \notin {"idle", "over"} /\ failures < MaxFailures
  /\ failures' = failures + 1
  /\ End(c) /\ overtaken' = overtaken \ {c}
  /\ UNCHANGED dbVars

\* extra_work_entries is unique by user and day.
Clashes(u, d, row) == entry[u][d] # None /\ entry[u][d].id # row.id
SaveEntry(u, d, row) == entry' = [entry EXCEPT ![u][d] = row]

-----------------------------------------------------------------------------
\* generateForMonth: by the cron, by an administrator, or ending another call.

StartGenerate(c) == Begin(c, "sheet", None, [Blank EXCEPT !.todo = Users])

\* Mutant of ReadSheet: approved sheets are generated again.
ReadSheetAlways(c) ==
  /\ pc[c] = "sheet"
  /\ \E u \in mem[c].todo :
       /\ pc' = [pc EXCEPT ![c] = "input"]
       /\ on' = [on EXCEPT ![c] = u]
       /\ mem' = [mem EXCEPT ![c] = [mem[c] EXCEPT !.seen = sheet[u]]]
  /\ UNCHANGED <<dbVars, bounds, overtaken>>

\* The next employee's sheet; an approved one is skipped.
ReadSheet(c) ==
  /\ pc[c] = "sheet"
  /\ \E u \in mem[c].todo :
       IF Approved(u)
       THEN NextEmployee(c, mem[c].todo \ {u})
       ELSE /\ pc' = [pc EXCEPT ![c] = "input"]
            /\ on' = [on EXCEPT ![c] = u]
            /\ mem' = [mem EXCEPT ![c] = [mem[c] EXCEPT !.seen = sheet[u]]]
            /\ UNCHANGED <<bounds, overtaken>>
  /\ UNCHANGED dbVars

\* The job always takes the current month: from the next one on, never this.
MonthEnds(c) ==
  /\ c \in Crons /\ pc[c] = "idle"
  /\ pc' = [pc EXCEPT ![c] = "over"]
  /\ UNCHANGED <<dbVars, bounds, on, mem, overtaken>>

Generated(c) == pc[c] = "sheet" /\ mem[c].todo = {} /\ Fail(c)

\* Records and leaves are queried in parallel.
ReadRecords(c) ==
  /\ mem[c].records = None
  /\ GoOn(c, "input", "input", [mem[c] EXCEPT !.records = worked[on[c]]])
  /\ UNCHANGED <<dbVars, overtaken>>

ReadLeaves(c) ==
  /\ mem[c].leaves = None
  /\ GoOn(c, "input", "input", [mem[c] EXCEPT !.leaves = OnLeave(on[c])])
  /\ UNCHANGED <<dbVars, overtaken>>

ReadEntries(c) ==
  /\ mem[c].records # None /\ mem[c].leaves # None
  /\ GoOn(c, "input", "sync", [mem[c] EXCEPT !.rows = entry[on[c]],
                                             !.left = ExtraDays(mem[c])])
  /\ UNCHANGED <<dbVars, overtaken>>

\* Mutant of SyncDay: a row whose minutes change is made anew, under its id.
SyncDayAnew(c) ==
  /\ pc[c] = "sync" /\ mem[c].left # {}
  /\ LET d       == Min(mem[c].left)
         old     == mem[c].rows[d]
         minutes == Extra(mem[c], d)
         id      == IF old = None THEN born ELSE old.id
         new     == [id |-> id, minutes |-> minutes, status |-> "PENDING"]
     IN /\ ~Clashes(on[c], d, new)
        /\ GoOn(c, "sync", "sync", [mem[c] EXCEPT !.rows[d] = None,
                                                  !.left = @ \ {d}])
        /\ IF old # None /\ old.minutes = minutes
           THEN UNCHANGED entry ELSE SaveEntry(on[c], d, new)
        /\ born' = IF old = None THEN born + 1 ELSE born
        /\ UNCHANGED <<worked, leave, sheet, overtaken>>

\* One extra day: refresh the minutes of the row that was read, if they differ,
\* or insert a PENDING row.
SyncDay(c) ==
  /\ pc[c] = "sync" /\ mem[c].left # {}
  /\ LET d       == Min(mem[c].left)
         old     == mem[c].rows[d]
         minutes == Extra(mem[c], d)
         new     == IF old = None
                    THEN [id |-> born, minutes |-> minutes, status |-> "PENDING"]
                    ELSE [old EXCEPT !.minutes = minutes]
     IN IF new # old /\ Clashes(on[c], d, new)
        THEN Fail(c)
        ELSE /\ GoOn(c, "sync", "sync", [mem[c] EXCEPT !.rows[d] = None,
                                                       !.left = @ \ {d}])
             /\ IF new = old THEN UNCHANGED entry ELSE SaveEntry(on[c], d, new)
             /\ born' = IF old = None THEN born + 1 ELSE born
             /\ UNCHANGED <<worked, leave, sheet, overtaken>>

\* The rows that matched no extra day are deleted by id.
DropDay(c) ==
  /\ mem[c].left = {}
  /\ \E d \in Days :
       /\ mem[c].rows[d] # None
       /\ IF Clashes(on[c], d, mem[c].rows[d])
          THEN UNCHANGED entry
          ELSE SaveEntry(on[c], d, None)
       /\ GoOn(c, "sync", "sync", [mem[c] EXCEPT !.rows[d] = None])
  /\ UNCHANGED <<worked, leave, sheet, born, overtaken>>

SumOvertime(c) ==
  /\ mem[c].left = {} /\ \A d \in Days : mem[c].rows[d] = None
  /\ GoOn(c, "sync", "save", [mem[c] EXCEPT !.sum = Overtime(entry[on[c]])])
  /\ UNCHANGED <<dbVars, overtaken>>

\* Mutant of SaveSheet: the id of the existing sheet is not passed on.
SaveSheetWithoutId(c) ==
  /\ pc[c] = "save"
  /\ IF sheet[on[c]] # None
     THEN Fail(c)
     ELSE /\ sheet' = [sheet EXCEPT ![on[c]] =
                [status |-> "DRAFT", overtime |-> mem[c].sum,
                 totals |-> [records |-> mem[c].records, leaves |-> mem[c].leaves]]]
          /\ NextEmployee(c, mem[c].todo \ {on[c]})
          /\ UNCHANGED <<worked, leave, entry, born>>

\* timesheets is unique by user and month.
SaveSheet(c) ==
  /\ pc[c] = "save"
  /\ IF mem[c].seen = None /\ sheet[on[c]] # None
     THEN Fail(c)
     ELSE /\ sheet' = [sheet EXCEPT ![on[c]] =
                [status |-> "DRAFT", overtime |-> mem[c].sum,
                 totals |-> [records |-> mem[c].records, leaves |-> mem[c].leaves]]]
          /\ NextEmployee(c, mem[c].todo \ {on[c]})
          /\ UNCHANGED <<worked, leave, entry, born>>

-----------------------------------------------------------------------------
\* createLeave and deleteLeave.

StartCreateLeave(c) ==
  \E u \in Users, d \in Days :
    Begin(c, "assertAdd", u, [Blank EXCEPT !.day = d])

StartDeleteLeave(c) ==
  \E l \in LeaveIds :
    /\ leave[l] # None
    /\ Begin(c, "assertDrop", leave[l].user, [Blank EXCEPT !.id = l])

AssertMonthNotApproved(c) ==
  /\ pc[c] \in {"assertAdd", "assertDrop"}
  /\ IF Approved(on[c])
     THEN Fail(c)
     ELSE /\ GoOn(c, pc[c], IF pc[c] = "assertAdd" THEN "addLeave" ELSE "delLeave",
                  mem[c])
          /\ overtaken' = overtaken \ {c}
          /\ UNCHANGED dbVars

\* Ids are never reused while somebody may still delete by them.
FreshLeave(l) == leave[l] = None /\ \A c \in Callers : mem[c].id # l

AddLeave(c) ==
  /\ pc[c] = "addLeave"
  /\ \E l \in LeaveIds :
       /\ FreshLeave(l)
       /\ leave' = [leave EXCEPT ![l] = [user |-> on[c], day |-> mem[c].day]]
  /\ NextEmployee(c, Users)
  /\ UNCHANGED <<worked, sheet, entry, born>>

DropLeave(c) ==
  /\ pc[c] = "delLeave"
  /\ leave' = [leave EXCEPT ![mem[c].id] = None]
  /\ NextEmployee(c, Users)
  /\ UNCHANGED <<worked, sheet, entry, born>>

-----------------------------------------------------------------------------
\* classifyExtraWork: it keeps the entry it found, with the new status.

StartClassify(c) ==
  \E u \in Users, d \in Days, type \in DecidedStatus :
    /\ entry[u][d] # None
    /\ Begin(c, "frozen", u,
             [Blank EXCEPT !.day = d,
                           !.rows[d] = [entry[u][d] EXCEPT !.status = type]])

\* Mutant of CheckFrozen: no check of the sheet.
CheckFrozenNever(c) ==
  /\ GoOn(c, "frozen", "mark", mem[c])
  /\ UNCHANGED <<dbVars, overtaken>>

CheckFrozen(c) ==
  /\ pc[c] = "frozen"
  /\ IF Approved(on[c])
     THEN Fail(c)
     ELSE /\ GoOn(c, "frozen", "mark", mem[c])
          /\ overtaken' = overtaken \ {c}
          /\ UNCHANGED dbVars

\* Mutant of MarkEntry: the sheet is not refreshed.
MarkEntryOnly(c) ==
  LET d == mem[c].day IN
  /\ pc[c] = "mark" /\ ~Clashes(on[c], d, mem[c].rows[d])
  /\ SaveEntry(on[c], d, mem[c].rows[d])
  /\ End(c) /\ overtaken' = overtaken \ {c}
  /\ UNCHANGED <<worked, leave, sheet, born, failures>>

MarkEntry(c) ==
  LET d == mem[c].day IN
  /\ pc[c] = "mark"
  /\ IF Clashes(on[c], d, mem[c].rows[d])
     THEN Fail(c)
     ELSE /\ SaveEntry(on[c], d, mem[c].rows[d])
          /\ GoOn(c, "mark", "resheet", mem[c])
          /\ UNCHANGED <<worked, leave, sheet, born, overtaken>>

\* The sheet is read again; the refresh is skipped when it is missing or approved.
ReReadSheet(c) ==
  /\ pc[c] = "resheet"
  /\ IF sheet[on[c]] = None \/ Approved(on[c])
     THEN Fail(c)
     ELSE /\ GoOn(c, "resheet", "resum", [mem[c] EXCEPT !.seen = sheet[on[c]]])
          /\ overtaken' = overtaken \ {c}
          /\ UNCHANGED dbVars

ResumOvertime(c) ==
  /\ GoOn(c, "resum", "refresh",
          [mem[c] EXCEPT !.seen.overtime = Overtime(entry[on[c]])])
  /\ UNCHANGED <<dbVars, overtaken>>

RefreshSheet(c) ==
  /\ pc[c] = "refresh"
  /\ sheet' = [sheet EXCEPT ![on[c]] = mem[c].seen]
  /\ End(c) /\ overtaken' = overtaken \ {c}
  /\ UNCHANGED <<worked, leave, entry, born, failures>>

-----------------------------------------------------------------------------
\* approve.

StartApprove(c) ==
  \E u \in Users :
    /\ sheet[u] # None /\ ~Approved(u)
    /\ Begin(c, "undecided", u, [Blank EXCEPT !.seen = sheet[u]])

\* Mutant of CheckUndecided: the rows are not looked at.
CheckUndecidedNever(c) ==
  GoOn(c, "undecided", "approve", mem[c]) /\ UNCHANGED <<dbVars, overtaken>>

CheckUndecided(c) ==
  /\ pc[c] = "undecided"
  /\ IF \E d \in Days : entry[on[c]][d] # None /\ entry[on[c]][d].status = "PENDING"
     THEN Fail(c)
     ELSE GoOn(c, "undecided", "approve", mem[c]) /\ UNCHANGED <<dbVars, overtaken>>

Approve(c) ==
  /\ pc[c] = "approve"
  /\ sheet' = [sheet EXCEPT ![on[c]] = [mem[c].seen EXCEPT !.status = "APPROVED"]]
  /\ overtaken' = (overtaken \cup {b \in Callers : on[b] = on[c]}) \ {c}
  /\ End(c)
  /\ UNCHANGED <<worked, leave, entry, born, failures>>

-----------------------------------------------------------------------------

Generate(c) ==
  \/ ReadSheet(c) \/ Generated(c) \/ ReadRecords(c) \/ ReadLeaves(c)
  \/ ReadEntries(c) \/ SyncDay(c) \/ DropDay(c) \/ SumOvertime(c) \/ SaveSheet(c)

ChangeLeave(c) == AssertMonthNotApproved(c) \/ AddLeave(c) \/ DropLeave(c)

Classify(c) ==
  \/ CheckFrozen(c) \/ MarkEntry(c)
  \/ ReReadSheet(c) \/ ResumOvertime(c) \/ RefreshSheet(c)

Decide(c) == CheckUndecided(c) \/ Approve(c)

Handle(c) == Generate(c) \/ ChangeLeave(c) \/ Classify(c) \/ Decide(c)

Request(c) ==
  \/ StartCreateLeave(c) \/ StartDeleteLeave(c)
  \/ StartClassify(c) \/ StartApprove(c)

Next ==
  \/ \E u \in Users, d \in Days, m \in 0..MaxWorked : Attend(u, d, m)
  \/ \E c \in Callers : StartGenerate(c) \/ MonthEnds(c) \/ Handle(c) \/ Abort(c)
  \/ \E c \in Admins : Request(c)

Spec == Init /\ [][Next]_vars

\* Handlers go on; the cron fires night after night while the month lasts.
Fairness ==
  /\ \A c \in Callers : WF_vars(Handle(c))
  /\ \A c \in Crons : WF_vars(StartGenerate(c))

FairSpec == Spec /\ Fairness

-----------------------------------------------------------------------------

\* The rows and the locals, over the values a sum of minutes may take.
Totals == [records : [Days -> 0..MaxWorked], leaves : SUBSET Days]
SheetRow(Sums) == [status : {"DRAFT", "APPROVED"}, overtime : Sums, totals : Totals]
EntryRow == [id : Nat, minutes : Nat, status : Status]
LeaveRow == [user : Users, day : Days]
Locals(Sums) ==
  [todo : SUBSET Users, seen : SheetRow(Sums) \cup {None},
   records : [Days -> 0..MaxWorked] \cup {None}, leaves : (SUBSET Days) \cup {None},
   rows : [Days -> EntryRow \cup {None}], left : SUBSET Days,
   day : Days \cup {None}, sum : Sums, id : LeaveIds \cup {None}]

\* None is the database's null, not a row.
ASSUME NoneIsNoRow == None \notin EntryRow

Labels == {"idle", "over", "sheet", "input", "sync", "save", "assertAdd",
           "assertDrop", "addLeave", "delLeave", "frozen", "mark", "resheet",
           "resum", "refresh", "undecided", "approve"}

Typed(Sums) ==
  /\ worked \in [Users -> [Days -> 0..MaxWorked]]
  /\ leave \in [LeaveIds -> LeaveRow \cup {None}]
  /\ sheet \in [Users -> SheetRow(Sums) \cup {None}]
  /\ entry \in [Users -> [Days -> EntryRow \cup {None}]]
  /\ born \in Nat
  /\ changes \in Nat /\ calls \in Nat /\ failures \in Nat
  /\ pc \in [Callers -> Labels]
  /\ on \in [Callers -> Users \cup {None}]
  /\ mem \in [Callers -> Locals(Sums)]
  /\ overtaken \subseteq Callers

\* The columns hold what their types allow, the callers' locals too: no minutes
\* are negative.
TypeOK == Typed(Nat)

\* What a month consists of: its sheet, its extra work and its leaves.
Month(u) == <<sheet[u], entry[u], OnLeave(u)>>

\* An APPROVED month is final: its sheet, its classifications and its leaves
\* stay as they are (generateForMonth skips it, classifyExtraWork and the leave
\* handlers refuse it).  Calls that do not overlap guarantee this.
ApprovedIsImmutable ==
  [][\A u \in Users : Approved(u) => Month(u)' = Month(u)]_vars

\* "Approval freezes classifications, so none may still be undecided": the check
\* of approve, which generateForMonth must not undermine by new PENDING rows.
NothingUndecided ==
  \A u \in Users, d \in Days :
    Approved(u) /\ entry[u][d] # None => entry[u][d].status # "PENDING"

\* generateForMonth "preserves an existing admin decision": as long as the row
\* is the same, a decided day never becomes PENDING again.
DecisionsKept ==
  [][\A u \in Users, d \in Days :
       /\ entry[u][d] # None /\ entry[u][d].status \in DecidedStatus
       /\ entry'[u][d] # None /\ entry'[u][d].id = entry[u][d].id
       => entry'[u][d].status \in DecidedStatus]_vars

\* Between calls a sheet tells what the extra work table says: the overtime is
\* the sum of the OVERTIME rows, and the rows are the extra days of the totals,
\* with their minutes.  classifyExtraWork must refresh the sheet for this, and
\* generateForMonth must drop the days that no longer apply.
SheetsAgree ==
  (\A c \in Callers : pc[c] = "idle") /\ failures = 0 =>
    \A u \in Users : sheet[u] # None =>
      /\ sheet[u].overtime = Overtime(entry[u])
      /\ \A d \in Days :
           IF d \in ExtraDays(sheet[u].totals)
           THEN entry[u][d] # None /\ entry[u][d].minutes = Extra(sheet[u].totals, d)
           ELSE entry[u][d] = None

\* Calls that overlap can change an approved month, but only those that passed
\* their own check before the approval: a call that checks later leaves it alone.
LateCallsLeaveApprovedAlone ==
  [][\A u \in Users : Approved(u) /\ Month(u)' # Month(u) =>
       \E c \in overtaken : on[c] = u /\ <<pc[c], mem[c]>>' # <<pc[c], mem[c]>>]_vars

\* Whatever overlaps or dies, the nightly job repairs it, as long as the month
\* lasts: once nobody asks for anything more, every employee has a sheet, and it
\* is approved or accurate.
Accurate(u) ==
  /\ sheet[u].totals = Basis(u)
  /\ sheet[u].overtime = Overtime(entry[u])
EventuallyAccurate ==
  <>[]((\A c \in Crons : pc[c] # "over") =>
         \A u \in Users : sheet[u] # None /\ (Approved(u) \/ Accurate(u)))

\* The same statements as the documents make them, without regard to overlaps.

\* e2e-scenarios.md: "subsequent recalculations skip the approved row".
RecalculationSkipsApproved ==
  [][\A u \in Users : Approved(u) => sheet'[u] = sheet[u]]_vars

-----------------------------------------------------------------------------
\* The inductive invariant behind LateCallsLeaveApprovedAlone.

\* What a caller past its guard holds: an employee, and the locals to write.
Holds(c) ==
  /\ pc[c] \notin {"idle", "over", "sheet"} => on[c] \in Users
  /\ pc[c] \in {"sync", "save"} => mem[c].records # None /\ mem[c].leaves # None
  /\ pc[c] = "sync" => mem[c].left \subseteq ExtraDays(mem[c])
  /\ pc[c] \in {"assertAdd", "addLeave"} => mem[c].day \in Days
  /\ pc[c] \in {"frozen", "mark"} => mem[c].day \in Days /\ mem[c].rows[mem[c].day] \in EntryRow
  /\ pc[c] \in {"resum", "refresh"} => mem[c].seen.status = "DRAFT"
  /\ pc[c] \in {"assertDrop", "delLeave"} => mem[c].id \in LeaveIds

\* The leave a caller is about to delete is still its employee's.
KeepsLeave(c) ==
  pc[c] \in {"assertDrop", "delLeave"} /\ leave[mem[c].id] # None =>
    leave[mem[c].id].user = on[c]

\* Between its guard and its last write a caller is overtaken, or its employee's
\* month is not approved.
PastGuard == {"input", "sync", "save", "addLeave", "delLeave", "mark", "resum",
              "refresh", "undecided", "approve"}
Guarded(c) == pc[c] \in PastGuard /\ c \notin overtaken => ~Approved(on[c])

\* Every caller holds what it needs, keeps its leave and is guarded.
CallersSound == \A c \in Callers : Holds(c) /\ KeepsLeave(c) /\ Guarded(c)
==============================================================================
