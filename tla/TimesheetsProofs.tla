--------------------------- MODULE TimesheetsProofs ---------------------------
(***************************************************************************)
(* Theorems about Timesheets, for every number of employees, days, callers *)
(* and requests.  The inductive invariant is CallersSound with the types;  *)
(* a sum of minutes is typed by the sums there are until it is shown, by   *)
(* an induction over the days, that these are numbers.                     *)
(***************************************************************************)
EXTENDS Timesheets, FiniteSetTheorems, TLAPS, WellFoundedInduction

Sums == {0} \cup {Overtime(rows) : rows \in [Days -> EntryRow \cup {None}]}

\* A call that refreshes or approves a sheet holds one.
SeesSheet(c) ==
  pc[c] \in {"resum", "refresh", "undecided", "approve"} =>
    mem[c].seen \in SheetRow(Sums)

IInv ==
  /\ Typed(Sums)
  /\ CallersSound
  /\ \A c \in Callers : SeesSheet(c)

\* Every set of natural numbers but the empty one has a least element.
LEMMA LeastElement ==
  ASSUME NEW S \in SUBSET Nat, S # {}
  PROVE  \E n \in S : \A m \in S : n <= m
<1> DEFINE Less == {p \in Nat \X Nat : p[1] < p[2]}
<1>1. IsWellFoundedOn(Less, Nat)
  BY NatLessThanWellFounded DEF OpToRel
<1>2. PICK x \in S : \A y \in S : ~(<<y, x>> \in Less)
  BY <1>1, WFMin
<1>3. ASSUME NEW y \in S PROVE x =< y
  <2>1. x \in Nat /\ y \in Nat /\ <<y, x>> \in Nat \X Nat
    OBVIOUS
  <2>2. <<y, x>>[1] = y /\ <<y, x>>[2] = x
    OBVIOUS
  <2>3. ~(y < x)
    BY <1>2, <2>1, <2>2
  <2> QED BY <2>1, <2>3
<1> QED BY <1>3

\* A set of numbers has its least element.
LEMMA MinIsElement ==
  ASSUME NEW S \in SUBSET Nat, S # {}
  PROVE  Min(S) \in S
BY LeastElement DEF Min

\* A caller starts from empty locals.
LEMMA BlankTyped == Blank \in Locals(Sums)
<1>1. 0 \in Sums
  BY DEF Sums
<1>2. [d \in Days |-> None] \in [Days -> EntryRow \cup {None}]
  OBVIOUS
<1> QED BY <1>1, <1>2 DEF Blank, Locals

\* The sum over an employee's rows is one of the sums.
LEMMA SumTyped ==
  ASSUME Typed(Sums), NEW u \in Users
  PROVE  Overtime(entry[u]) \in Sums
<1>1. entry[u] \in [Days -> EntryRow \cup {None}]
  BY DEF Typed
<1> QED BY <1>1 DEF Sums

\* The days on leave are days.
LEMMA LeavesTyped ==
  ASSUME Typed(Sums), NEW u \in Users
  PROVE  OnLeave(u) \in SUBSET Days
<1>1. ASSUME NEW l \in LeaveIds, leave[l] # None
      PROVE  leave[l].day \in Days
  BY <1>1 DEF Typed, LeaveRow
<1> QED BY <1>1 DEF OnLeave, LeaveRows

\* What exceeds the schedule is a number of minutes.
LEMMA ExtraTyped ==
  ASSUME NEW m \in Locals(Sums), m.records # None, m.leaves # None,
         NEW d \in ExtraDays(m)
  PROVE  d \in Days /\ Extra(m, d) \in Nat
<1>1. d \in Days /\ Extra(m, d) > 0
  BY DEF ExtraDays
<1>2. m.records \in [Days -> 0..MaxWorked]
  BY DEF Locals
<1>3. m.records[d] \in Nat
  BY <1>1, <1>2, TimesheetsConstants
<1>4. Due(m, d) \in Nat
  BY <1>1, TimesheetsConstants DEF Due
<1> QED BY <1>1, <1>3, <1>4 DEF Extra

\* Ending a call, taking the next employee, beginning and going on keep the
\* callers' types.
LEMMA EndTyped ==
  ASSUME Typed(Sums), NEW c \in Callers, End(c), overtaken' \subseteq Callers,
         failures' \in Nat,
         sheet' \in [Users -> SheetRow(Sums) \cup {None}],
         UNCHANGED <<worked, leave, entry, born>>
  PROVE  Typed(Sums)'
BY BlankTyped DEF Typed, End, Labels

LEMMA FailTyped ==
  ASSUME Typed(Sums), NEW c \in Callers, Fail(c)
  PROVE  Typed(Sums)'
<1>1. End(c) /\ overtaken' \subseteq Callers /\ UNCHANGED <<dbVars, failures>>
  BY DEF Fail, Typed
<1>2. sheet' \in [Users -> SheetRow(Sums) \cup {None}]
  BY <1>1 DEF Typed, dbVars
<1>3. failures' \in Nat
  BY <1>1 DEF Typed
<1> QED BY <1>1, <1>2, <1>3, EndTyped DEF dbVars

\* What every other caller does not notice, and the caller's own locals.
LEMMA GoOnTyped ==
  ASSUME Typed(Sums), NEW c \in Callers, NEW from, NEW to \in Labels,
         NEW m \in Locals(Sums), GoOn(c, from, to, m),
         overtaken' \subseteq Callers,
         entry' \in [Users -> [Days -> EntryRow \cup {None}]], born' \in Nat,
         UNCHANGED <<worked, leave, sheet>>
  PROVE  Typed(Sums)'
BY DEF Typed, GoOn, bounds

LEMMA NextEmployeeTyped ==
  ASSUME Typed(Sums), NEW c \in Callers, NEW todo \in SUBSET Users,
         NextEmployee(c, todo),
         leave' \in [LeaveIds -> LeaveRow \cup {None}],
         sheet' \in [Users -> SheetRow(Sums) \cup {None}],
         UNCHANGED <<worked, entry, born>>
  PROVE  Typed(Sums)'
<1>1. [Blank EXCEPT !.todo = todo] \in Locals(Sums)
  BY BlankTyped DEF Locals
<1> QED BY <1>1 DEF Typed, NextEmployee, bounds, Labels

LEMMA BeginTyped ==
  ASSUME Typed(Sums), NEW c \in Callers, NEW first \in Labels,
         NEW u \in Users \cup {None}, NEW m \in Locals(Sums),
         Begin(c, first, u, m)
  PROVE  Typed(Sums)'
BY DEF Typed, Begin, dbVars

\* The steps of generateForMonth keep the types.
LEMMA GenerateTyped ==
  ASSUME IInv, NEW c \in Callers, Generate(c)
  PROVE  Typed(Sums)'
<1>1. Typed(Sums) /\ Holds(c) /\ mem[c] \in Locals(Sums)
  BY DEF IInv, CallersSound, Typed
<1>2. overtaken \subseteq Callers /\ born \in Nat
      /\ entry \in [Users -> [Days -> EntryRow \cup {None}]]
  BY <1>1 DEF Typed
<1>3. ASSUME pc[c] \in {"input", "sync", "save"}
      PROVE  on[c] \in Users
  BY <1>1, <1>3 DEF Holds
<1>4. CASE ReadSheet(c)
  <2>1. PICK u \in mem[c].todo :
          IF Approved(u)
          THEN NextEmployee(c, mem[c].todo \ {u})
          ELSE /\ pc' = [pc EXCEPT ![c] = "input"]
               /\ on' = [on EXCEPT ![c] = u]
               /\ mem' = [mem EXCEPT ![c] = [mem[c] EXCEPT !.seen = sheet[u]]]
               /\ UNCHANGED <<bounds, overtaken>>
    BY <1>4 DEF ReadSheet
  <2>2. u \in Users /\ mem[c].todo \ {u} \in SUBSET Users
    BY <1>1 DEF Locals
  <2>3. UNCHANGED dbVars
    BY <1>4 DEF ReadSheet
  <2>4. CASE Approved(u)
    <3>1. leave' \in [LeaveIds -> LeaveRow \cup {None}]
          /\ sheet' \in [Users -> SheetRow(Sums) \cup {None}]
      BY <1>1, <2>3 DEF Typed, dbVars
    <3> QED BY <1>1, <2>1, <2>2, <2>3, <2>4, <3>1, NextEmployeeTyped DEF dbVars
  <2>5. CASE ~Approved(u)
    <3>1. sheet[u] \in SheetRow(Sums) \cup {None}
      BY <1>1, <2>2 DEF Typed
    <3>2. [mem[c] EXCEPT !.seen = sheet[u]] \in Locals(Sums)
      BY <1>1, <3>1 DEF Locals
    <3> QED BY <1>1, <2>1, <2>2, <2>3, <2>5, <3>2 DEF Typed, dbVars, bounds, Labels
  <2> QED BY <2>4, <2>5
<1>5. CASE Generated(c)
  BY <1>1, <1>5, FailTyped DEF Generated
<1>6. CASE ReadRecords(c)
  <2>1. worked[on[c]] \in [Days -> 0..MaxWorked]
    BY <1>1, <1>3, <1>6 DEF ReadRecords, GoOn, Typed
  <2>2. [mem[c] EXCEPT !.records = worked[on[c]]] \in Locals(Sums)
    BY <1>1, <2>1 DEF Locals
  <2> QED BY <1>1, <1>2, <1>6, <2>2, GoOnTyped DEF ReadRecords, dbVars, Labels
<1>7. CASE ReadLeaves(c)
  <2>1. OnLeave(on[c]) \in SUBSET Days
    BY <1>1, <1>3, <1>7, LeavesTyped DEF ReadLeaves, GoOn
  <2>2. [mem[c] EXCEPT !.leaves = OnLeave(on[c])] \in Locals(Sums)
    BY <1>1, <2>1 DEF Locals
  <2> QED BY <1>1, <1>2, <1>7, <2>2, GoOnTyped DEF ReadLeaves, dbVars, Labels
<1>8. CASE ReadEntries(c)
  <2>1. entry[on[c]] \in [Days -> EntryRow \cup {None}]
    BY <1>2, <1>3, <1>8 DEF ReadEntries, GoOn
  <2>2. ExtraDays(mem[c]) \in SUBSET Days
    BY DEF ExtraDays
  <2>3. [mem[c] EXCEPT !.rows = entry[on[c]], !.left = ExtraDays(mem[c])]
          \in Locals(Sums)
    BY <1>1, <2>1, <2>2 DEF Locals
  <2> QED BY <1>1, <1>2, <1>8, <2>3, GoOnTyped DEF ReadEntries, dbVars, Labels
<1>9. CASE SumOvertime(c)
  <2>1. Overtime(entry[on[c]]) \in Sums
    BY <1>1, <1>3, <1>9, SumTyped DEF SumOvertime, GoOn
  <2>2. [mem[c] EXCEPT !.sum = Overtime(entry[on[c]])] \in Locals(Sums)
    BY <1>1, <2>1 DEF Locals
  <2> QED BY <1>1, <1>2, <1>9, <2>2, GoOnTyped DEF SumOvertime, dbVars, Labels
<1>10. CASE DropDay(c)
  <2>1. PICK d \in Days :
          /\ IF Clashes(on[c], d, mem[c].rows[d])
             THEN UNCHANGED entry
             ELSE SaveEntry(on[c], d, None)
          /\ GoOn(c, "sync", "sync", [mem[c] EXCEPT !.rows[d] = None])
    BY <1>10 DEF DropDay
  <2>2. entry' \in [Users -> [Days -> EntryRow \cup {None}]]
    BY <1>2, <2>1 DEF SaveEntry
  <2>3. [mem[c] EXCEPT !.rows[d] = None] \in Locals(Sums)
    BY <1>1 DEF Locals
  <2> QED BY <1>1, <1>2, <1>10, <2>1, <2>2, <2>3, GoOnTyped DEF DropDay, Labels
<1>11. CASE SaveSheet(c)
  <2>1. CASE Fail(c)
    BY <1>1, <2>1, FailTyped
  <2>2. CASE ~Fail(c)
    <3>1. on[c] \in Users /\ mem[c].records # None /\ mem[c].leaves # None
      BY <1>1, <1>3, <1>11 DEF SaveSheet, Holds
    <3>2. mem[c].sum \in Sums /\ mem[c].records \in [Days -> 0..MaxWorked]
          /\ mem[c].leaves \in SUBSET Days /\ mem[c].todo \ {on[c]} \in SUBSET Users
      BY <1>1, <3>1 DEF Locals
    <3> DEFINE row == [status |-> "DRAFT", overtime |-> mem[c].sum,
                       totals |-> [records |-> mem[c].records, leaves |-> mem[c].leaves]]
    <3>3. row \in SheetRow(Sums)
      BY <3>2 DEF SheetRow, Totals
    <3>4. /\ sheet' = [sheet EXCEPT ![on[c]] = row]
          /\ NextEmployee(c, mem[c].todo \ {on[c]})
          /\ UNCHANGED <<worked, leave, entry, born>>
      BY <1>11, <2>2 DEF SaveSheet
    <3> HIDE DEF row
    <3>5. sheet' \in [Users -> SheetRow(Sums) \cup {None}]
          /\ leave' \in [LeaveIds -> LeaveRow \cup {None}]
      BY <1>1, <3>3, <3>4 DEF Typed
    <3> QED BY <1>1, <3>2, <3>4, <3>5, NextEmployeeTyped
  <2> QED BY <2>1, <2>2
<1>12. CASE SyncDay(c)
  <2> DEFINE d       == Min(mem[c].left)
             old     == mem[c].rows[d]
             minutes == Extra(mem[c], d)
             new     == IF old = None
                        THEN [id |-> born, minutes |-> minutes, status |-> "PENDING"]
                        ELSE [old EXCEPT !.minutes = minutes]
             m       == [mem[c] EXCEPT !.rows[d] = None, !.left = @ \ {d}]
  <2>1. CASE Fail(c)
    BY <1>1, <2>1, FailTyped
  <2>2. CASE ~Fail(c)
    <3>1. pc[c] = "sync" /\ mem[c].left # {} /\ mem[c].left \in SUBSET Days
      BY <1>1, <1>12 DEF SyncDay, Locals
    <3>2. d \in mem[c].left
      BY <3>1, MinIsElement, TimesheetsConstants
    <3>3. /\ on[c] \in Users /\ mem[c].records # None /\ mem[c].leaves # None
          /\ mem[c].left \subseteq ExtraDays(mem[c])
      BY <1>1, <3>1 DEF Holds
    <3>4. d \in Days /\ minutes \in Nat
      BY <1>1, <3>2, <3>3, ExtraTyped
    <3>5. GoOn(c, "sync", "sync", m)
          /\ (UNCHANGED entry \/ SaveEntry(on[c], d, new))
          /\ (born' = born + 1 \/ born' = born)
          /\ UNCHANGED <<worked, leave, sheet, overtaken>>
      BY <1>12, <2>2 DEF SyncDay
    <3>6. old \in EntryRow \cup {None}
      BY <1>1, <3>4 DEF Locals
    <3>7. new \in EntryRow
      <4>1. CASE old = None
        BY <1>2, <3>4, <4>1 DEF EntryRow, Status
      <4>2. CASE old # None
        BY <3>4, <3>6, <4>2 DEF EntryRow
      <4> QED BY <4>1, <4>2
    <3>8. m \in Locals(Sums)
      BY <1>1, <3>4 DEF Locals
    <3> HIDE DEF d, new, m, old, minutes
    <3>9. entry' \in [Users -> [Days -> EntryRow \cup {None}]] /\ born' \in Nat
          /\ overtaken' \subseteq Callers
      BY <1>2, <3>3, <3>4, <3>5, <3>7 DEF SaveEntry
    <3> QED BY <1>1, <3>5, <3>8, <3>9, GoOnTyped DEF Labels
  <2> QED BY <2>1, <2>2
<1> QED BY <1>4, <1>5, <1>6, <1>7, <1>8, <1>9, <1>10, <1>11, <1>12 DEF Generate

\* The steps of the leave handlers, of classifyExtraWork and of approve keep the
\* types.
LEMMA HandleTyped ==
  ASSUME IInv, NEW c \in Callers, Handle(c)
  PROVE  Typed(Sums)'
<1>1. Typed(Sums) /\ Holds(c) /\ mem[c] \in Locals(Sums) /\ SeesSheet(c)
  BY DEF IInv, CallersSound, Typed
<1>2. overtaken \subseteq Callers /\ born \in Nat
      /\ entry \in [Users -> [Days -> EntryRow \cup {None}]]
      /\ leave \in [LeaveIds -> LeaveRow \cup {None}]
      /\ sheet \in [Users -> SheetRow(Sums) \cup {None}]
  BY <1>1 DEF Typed
<1>3. CASE Generate(c)
  BY <1>3, GenerateTyped
<1>4. CASE Fail(c)
  BY <1>1, <1>4, FailTyped
<1>5. CASE AssertMonthNotApproved(c) /\ ~Fail(c)
  BY <1>1, <1>2, <1>5, GoOnTyped DEF AssertMonthNotApproved, dbVars, Labels
<1>6. CASE AddLeave(c)
  <2>1. on[c] \in Users /\ mem[c].day \in Days
    BY <1>1, <1>6 DEF AddLeave, Holds
  <2>2. [user |-> on[c], day |-> mem[c].day] \in LeaveRow
    BY <2>1 DEF LeaveRow
  <2>3. leave' \in [LeaveIds -> LeaveRow \cup {None}]
    BY <1>2, <1>6, <2>2 DEF AddLeave
  <2> QED BY <1>1, <1>2, <1>6, <2>3, NextEmployeeTyped DEF AddLeave
<1>7. CASE DropLeave(c)
  <2>1. leave' \in [LeaveIds -> LeaveRow \cup {None}]
    BY <1>2, <1>7 DEF DropLeave
  <2> QED BY <1>1, <1>2, <1>7, <2>1, NextEmployeeTyped DEF DropLeave
<1>8. CASE CheckFrozen(c) /\ ~Fail(c)
  BY <1>1, <1>2, <1>8, GoOnTyped DEF CheckFrozen, dbVars, Labels
<1>9. CASE MarkEntry(c) /\ ~Fail(c)
  <2>1. on[c] \in Users /\ mem[c].day \in Days /\ mem[c].rows[mem[c].day] \in EntryRow
    BY <1>1, <1>9 DEF MarkEntry, Holds
  <2>2. entry' \in [Users -> [Days -> EntryRow \cup {None}]]
    BY <1>2, <1>9, <2>1 DEF MarkEntry, SaveEntry
  <2> QED BY <1>1, <1>2, <1>9, <2>2, GoOnTyped DEF MarkEntry, Labels
<1>10. CASE ReReadSheet(c) /\ ~Fail(c)
  <2>1. on[c] \in Users
    BY <1>1, <1>10 DEF ReReadSheet, Holds
  <2>2. [mem[c] EXCEPT !.seen = sheet[on[c]]] \in Locals(Sums)
    BY <1>1, <1>2, <2>1 DEF Locals
  <2>3. GoOn(c, "resheet", "resum", [mem[c] EXCEPT !.seen = sheet[on[c]]])
        /\ overtaken' = overtaken \ {c} /\ UNCHANGED dbVars
    BY <1>10 DEF ReReadSheet
  <2> QED BY <1>1, <1>2, <2>2, <2>3, GoOnTyped DEF dbVars, Labels
<1>11. CASE ResumOvertime(c)
  <2>1. pc[c] = "resum" /\ on[c] \in Users /\ mem[c].seen \in SheetRow(Sums)
    BY <1>1, <1>11 DEF ResumOvertime, GoOn, Holds, SeesSheet
  <2>2. Overtime(entry[on[c]]) \in Sums
    BY <1>1, <2>1, SumTyped
  <2>3. [mem[c].seen EXCEPT !.overtime = Overtime(entry[on[c]])] \in SheetRow(Sums)
    BY <2>1, <2>2 DEF SheetRow
  <2>4. [mem[c] EXCEPT !.seen.overtime = Overtime(entry[on[c]])] \in Locals(Sums)
    BY <1>1, <2>3 DEF Locals
  <2> QED BY <1>1, <1>2, <1>11, <2>4, GoOnTyped DEF ResumOvertime, dbVars, Labels
<1>12. CASE RefreshSheet(c)
  <2>1. on[c] \in Users /\ mem[c].seen \in SheetRow(Sums)
    BY <1>1, <1>12 DEF RefreshSheet, Holds, SeesSheet
  <2>2. sheet' \in [Users -> SheetRow(Sums) \cup {None}]
    BY <1>2, <1>12, <2>1 DEF RefreshSheet
  <2>3. failures' \in Nat /\ overtaken' \subseteq Callers
    BY <1>1, <1>2, <1>12 DEF RefreshSheet, Typed
  <2> QED BY <1>1, <1>12, <2>2, <2>3, EndTyped DEF RefreshSheet
<1>13. CASE CheckUndecided(c) /\ ~Fail(c)
  BY <1>1, <1>2, <1>13, GoOnTyped DEF CheckUndecided, dbVars, Labels
<1>14. CASE Approve(c)
  <2>1. on[c] \in Users /\ mem[c].seen \in SheetRow(Sums)
    BY <1>1, <1>14 DEF Approve, Holds, SeesSheet
  <2>2. [mem[c].seen EXCEPT !.status = "APPROVED"] \in SheetRow(Sums)
    BY <2>1 DEF SheetRow
  <2>3. sheet' \in [Users -> SheetRow(Sums) \cup {None}]
    BY <1>2, <1>14, <2>1, <2>2 DEF Approve
  <2>4. failures' \in Nat /\ overtaken' \subseteq Callers
    BY <1>1, <1>2, <1>14 DEF Approve, Typed
  <2> QED BY <1>1, <1>14, <2>3, <2>4, EndTyped DEF Approve
<1> QED BY <1>3, <1>4, <1>5, <1>6, <1>7, <1>8, <1>9, <1>10, <1>11, <1>12, <1>13, <1>14
        DEF Handle, ChangeLeave, Classify, Decide

\* An administrator's request keeps the types.
LEMMA RequestTyped ==
  ASSUME IInv, NEW c \in Callers, Request(c)
  PROVE  Typed(Sums)'
<1>1. Typed(Sums)
  BY DEF IInv
<1>2. CASE StartCreateLeave(c)
  <2>1. PICK u \in Users, d \in Days : Begin(c, "assertAdd", u, [Blank EXCEPT !.day = d])
    BY <1>2 DEF StartCreateLeave
  <2>2. [Blank EXCEPT !.day = d] \in Locals(Sums)
    BY BlankTyped DEF Locals
  <2> QED BY <1>1, <2>1, <2>2, BeginTyped DEF Labels
<1>3. CASE StartDeleteLeave(c)
  <2>1. PICK l \in LeaveIds :
          leave[l] # None /\ Begin(c, "assertDrop", leave[l].user, [Blank EXCEPT !.id = l])
    BY <1>3 DEF StartDeleteLeave
  <2>2. leave[l].user \in Users
    BY <1>1, <2>1 DEF Typed, LeaveRow
  <2>3. [Blank EXCEPT !.id = l] \in Locals(Sums)
    BY BlankTyped DEF Locals
  <2> QED BY <1>1, <2>1, <2>2, <2>3, BeginTyped DEF Labels
<1>4. CASE StartClassify(c)
  <2>1. PICK u \in Users, d \in Days, type \in DecidedStatus :
          /\ entry[u][d] # None
          /\ Begin(c, "frozen", u,
                   [Blank EXCEPT !.day = d, !.rows[d] = [entry[u][d] EXCEPT !.status = type]])
    BY <1>4 DEF StartClassify
  <2>2. [entry[u][d] EXCEPT !.status = type] \in EntryRow
    <3>1. entry[u][d] \in EntryRow
      BY <1>1, <2>1 DEF Typed
    <3> QED BY <3>1 DEF EntryRow, Status
  <2>3. [Blank EXCEPT !.day = d, !.rows[d] = [entry[u][d] EXCEPT !.status = type]]
          \in Locals(Sums)
    BY <2>2, BlankTyped DEF Locals
  <2> QED BY <1>1, <2>1, <2>3, BeginTyped DEF Labels
<1>5. CASE StartApprove(c)
  <2>1. PICK u \in Users :
          sheet[u] # None /\ Begin(c, "undecided", u, [Blank EXCEPT !.seen = sheet[u]])
    BY <1>5 DEF StartApprove
  <2>2. [Blank EXCEPT !.seen = sheet[u]] \in Locals(Sums)
    BY <1>1, <2>1, BlankTyped DEF Locals, Typed
  <2> QED BY <1>1, <2>1, <2>2, BeginTyped DEF Labels
<1> QED BY <1>2, <1>3, <1>4, <1>5 DEF Request

\* Every step keeps the types.
LEMMA TypeStep ==
  ASSUME IInv, [Next]_vars
  PROVE  Typed(Sums)'
<1>1. Typed(Sums)
  BY DEF IInv
<1>2. CASE UNCHANGED vars
  BY <1>1, <1>2 DEF Typed, vars, dbVars, bounds
<1>3. CASE \E u \in Users, d \in Days, m \in 0..MaxWorked : Attend(u, d, m)
  BY <1>1, <1>3 DEF Typed, Attend
<1>4. ASSUME NEW c \in Callers, StartGenerate(c)
      PROVE  Typed(Sums)'
  <2>1. [Blank EXCEPT !.todo = Users] \in Locals(Sums)
    BY BlankTyped DEF Locals
  <2> QED BY <1>1, <1>4, <2>1, BeginTyped DEF StartGenerate, Labels
<1>5. ASSUME NEW c \in Callers, MonthEnds(c)
      PROVE  Typed(Sums)'
  BY <1>1, <1>5 DEF MonthEnds, Typed, dbVars, bounds, Labels
<1>6. ASSUME NEW c \in Callers, Handle(c)
      PROVE  Typed(Sums)'
  BY <1>6, HandleTyped
<1>7. ASSUME NEW c \in Callers, Abort(c)
      PROVE  Typed(Sums)'
  <2>1. End(c) /\ failures' = failures + 1 /\ overtaken' = overtaken \ {c}
        /\ UNCHANGED dbVars
    BY <1>7 DEF Abort
  <2>2. failures' \in Nat /\ overtaken' \subseteq Callers
        /\ sheet' \in [Users -> SheetRow(Sums) \cup {None}]
    BY <1>1, <2>1 DEF Typed, dbVars
  <2> QED BY <1>1, <2>1, <2>2, EndTyped DEF dbVars
<1>8. ASSUME NEW c \in Admins, Request(c)
      PROVE  Typed(Sums)'
  BY <1>8, RequestTyped DEF Callers
<1> QED BY <1>2, <1>3, <1>4, <1>5, <1>6, <1>7, <1>8 DEF Next

\* A step of one caller.
Moves(c) ==
  \/ StartGenerate(c) \/ MonthEnds(c) \/ Handle(c) \/ Abort(c)
  \/ c \in Admins /\ Request(c)

\* A caller's step leaves the other callers' locals alone, and the overtaken ones
\* overtaken.
LEMMA Bystanders ==
  ASSUME IInv, NEW c \in Callers, Moves(c), NEW b \in Callers, b # c
  PROVE  /\ pc'[b] = pc[b] /\ on'[b] = on[b] /\ mem'[b] = mem[b]
         /\ b \in overtaken => b \in overtaken'
<1> USE DEF End, Fail, GoOn, NextEmployee, Begin
<1>1. /\ pc \in [Callers -> Labels]
      /\ on \in [Callers -> Users \cup {None}]
      /\ mem \in [Callers -> Locals(Sums)]
  BY DEF IInv, Typed
<1>2. CASE StartGenerate(c)
  BY <1>1, <1>2 DEF StartGenerate
<1>3. CASE MonthEnds(c)
  BY <1>1, <1>3 DEF MonthEnds
<1>4. CASE Abort(c)
  BY <1>1, <1>4 DEF Abort
<1>5. CASE Request(c)
  BY <1>1, <1>5 DEF Request, StartCreateLeave, StartDeleteLeave, StartClassify, StartApprove
<1>6. CASE Fail(c)
  BY <1>1, <1>6
<1>7. CASE ReadSheet(c) \/ SaveSheet(c)
  BY <1>1, <1>7 DEF ReadSheet, SaveSheet
<1>8. CASE Generated(c) \/ ReadRecords(c) \/ ReadLeaves(c) \/ ReadEntries(c)
           \/ SumOvertime(c)
  BY <1>1, <1>8 DEF Generated, ReadRecords, ReadLeaves, ReadEntries, SumOvertime
<1>9. CASE SyncDay(c)
  BY <1>1, <1>6, <1>9 DEF SyncDay
<1>10. CASE DropDay(c)
  BY <1>1, <1>10 DEF DropDay
<1>11. CASE ChangeLeave(c)
  BY <1>1, <1>11 DEF ChangeLeave, AssertMonthNotApproved, AddLeave, DropLeave
<1>12. CASE Classify(c)
  BY <1>1, <1>12 DEF Classify, CheckFrozen, MarkEntry, ReReadSheet, ResumOvertime,
                     RefreshSheet
<1>13. CASE Decide(c)
  BY <1>1, <1>13 DEF Decide, CheckUndecided, Approve
<1> QED BY <1>2, <1>3, <1>4, <1>5, <1>7, <1>8, <1>9, <1>10, <1>11, <1>12, <1>13
        DEF Moves, Handle, Generate

\* The mover holds what its next step needs.
LEMMA MoverHolds ==
  ASSUME IInv, NEW c \in Callers, Moves(c)
  PROVE  Holds(c)' /\ SeesSheet(c)'
<1> USE DEF End, Fail, GoOn, NextEmployee, Begin
<1>1. /\ pc \in [Callers -> Labels]
      /\ on \in [Callers -> Users \cup {None}]
      /\ mem \in [Callers -> Locals(Sums)]
      /\ sheet \in [Users -> SheetRow(Sums) \cup {None}]
  BY DEF IInv, Typed
<1>2. Holds(c) /\ SeesSheet(c)
  BY DEF IInv, CallersSound
<1>3. ASSUME pc'[c] \in {"idle", "over", "sheet"}
      PROVE  Holds(c)' /\ SeesSheet(c)'
  BY <1>3 DEF Holds, SeesSheet
<1>4. CASE StartGenerate(c)
  BY <1>1, <1>3, <1>4 DEF StartGenerate
<1>5. CASE MonthEnds(c)
  BY <1>1, <1>3, <1>5 DEF MonthEnds
<1>6. CASE Abort(c)
  BY <1>1, <1>3, <1>6 DEF Abort
<1>7. CASE Fail(c)
  BY <1>1, <1>3, <1>7
<1>8. CASE StartCreateLeave(c)
  <2>1. PICK u \in Users, d \in Days : Begin(c, "assertAdd", u, [Blank EXCEPT !.day = d])
    BY <1>8 DEF StartCreateLeave
  <2>2. pc'[c] = "assertAdd" /\ on'[c] = u /\ mem'[c].day = d
    BY <1>1, <2>1 DEF Blank
  <2> QED BY <2>2 DEF Holds, SeesSheet
<1>9. CASE StartDeleteLeave(c)
  <2>1. PICK l \in LeaveIds :
          leave[l] # None /\ Begin(c, "assertDrop", leave[l].user, [Blank EXCEPT !.id = l])
    BY <1>9 DEF StartDeleteLeave
  <2>2. leave[l].user \in Users
    BY <2>1 DEF IInv, Typed, LeaveRow
  <2>3. pc'[c] = "assertDrop" /\ on'[c] \in Users /\ mem'[c].id = l
    BY <1>1, <2>1, <2>2 DEF Blank
  <2> QED BY <2>3 DEF Holds, SeesSheet
<1>10. CASE StartClassify(c)
  <2>1. PICK u \in Users, d \in Days, type \in DecidedStatus :
          /\ entry[u][d] # None
          /\ Begin(c, "frozen", u,
                   [Blank EXCEPT !.day = d, !.rows[d] = [entry[u][d] EXCEPT !.status = type]])
    BY <1>10 DEF StartClassify
  <2>2. [entry[u][d] EXCEPT !.status = type] \in EntryRow
    <3>1. entry[u][d] \in EntryRow
      BY <2>1 DEF IInv, Typed
    <3> QED BY <3>1 DEF EntryRow, Status
  <2>3. pc'[c] = "frozen" /\ on'[c] = u /\ mem'[c].day = d
        /\ mem'[c].rows[d] = [entry[u][d] EXCEPT !.status = type]
    BY <1>1, <2>1 DEF Blank
  <2> QED BY <2>2, <2>3 DEF Holds, SeesSheet
<1>11. CASE StartApprove(c)
  <2>1. PICK u \in Users :
          sheet[u] # None /\ Begin(c, "undecided", u, [Blank EXCEPT !.seen = sheet[u]])
    BY <1>11 DEF StartApprove
  <2>2. pc'[c] = "undecided" /\ on'[c] = u /\ mem'[c].seen = sheet[u]
    BY <1>1, <2>1 DEF Blank
  <2> QED BY <1>1, <2>1, <2>2 DEF Holds, SeesSheet
<1>12. CASE ReadSheet(c) /\ pc'[c] # "sheet"
  <2>1. pc'[c] = "input" /\ on'[c] \in Users
    BY <1>1, <1>12 DEF ReadSheet, Locals
  <2> QED BY <2>1 DEF Holds, SeesSheet
<1>13. CASE Generated(c) \/ SaveSheet(c)
  BY <1>1, <1>3, <1>13 DEF Generated, SaveSheet
<1>14. CASE ReadRecords(c) \/ ReadLeaves(c)
  BY <1>1, <1>2, <1>14 DEF ReadRecords, ReadLeaves, Holds, SeesSheet
<1>15. CASE ReadEntries(c)
  <2>1. pc'[c] = "sync" /\ on'[c] \in Users
        /\ mem'[c] = [mem[c] EXCEPT !.rows = entry[on[c]], !.left = ExtraDays(mem[c])]
        /\ mem[c].records # None /\ mem[c].leaves # None
    BY <1>1, <1>2, <1>15 DEF ReadEntries, Holds
  <2>2. /\ mem'[c].records = mem[c].records /\ mem'[c].leaves = mem[c].leaves
        /\ mem'[c].left = ExtraDays(mem[c])
    BY <1>1, <2>1 DEF Locals
  <2>3. ExtraDays(mem'[c]) = ExtraDays(mem[c])
    BY <2>2 DEF ExtraDays, Extra, Due
  <2> QED BY <2>1, <2>2, <2>3 DEF Holds, SeesSheet
<1>16. CASE (SyncDay(c) /\ ~Fail(c)) \/ DropDay(c)
  <2>1. PICK d, left : /\ GoOn(c, "sync", "sync", [mem[c] EXCEPT !.rows[d] = None,
                                                                 !.left = left])
                       /\ left \subseteq mem[c].left
    <3>1. CASE SyncDay(c) /\ ~Fail(c)
      <4> DEFINE d == Min(mem[c].left)
      <4>1. GoOn(c, "sync", "sync", [mem[c] EXCEPT !.rows[d] = None, !.left = @ \ {d}])
        BY <3>1 DEF SyncDay
      <4>2. [mem[c] EXCEPT !.rows[d] = None, !.left = @ \ {d}]
              = [mem[c] EXCEPT !.rows[d] = None, !.left = mem[c].left \ {d}]
        BY <1>1 DEF Locals
      <4> HIDE DEF d, GoOn
      <4>3. GoOn(c, "sync", "sync",
                 [mem[c] EXCEPT !.rows[d] = None, !.left = mem[c].left \ {d}])
        BY <4>1, <4>2
      <4>4. mem[c].left \ {d} \subseteq mem[c].left
        OBVIOUS
      <4> QED BY ONLY <4>3, <4>4
    <3>2. CASE DropDay(c)
      <4>1. PICK d \in Days : GoOn(c, "sync", "sync", [mem[c] EXCEPT !.rows[d] = None])
        BY <3>2 DEF DropDay
      <4>2. [mem[c] EXCEPT !.rows[d] = None]
              = [mem[c] EXCEPT !.rows[d] = None, !.left = mem[c].left]
        BY <1>1 DEF Locals
      <4> QED BY <4>1, <4>2
    <3> QED BY <1>16, <3>1, <3>2
  <2>2. pc[c] = "sync" /\ pc'[c] = "sync" /\ on'[c] = on[c]
    BY <1>1, <2>1
  <2>3. mem'[c] = [mem[c] EXCEPT !.rows[d] = None, !.left = left]
    BY <1>1, <2>1
  <2>4. /\ mem'[c].records = mem[c].records /\ mem'[c].leaves = mem[c].leaves
        /\ mem'[c].left = left
    BY <1>1, <2>3 DEF Locals
  <2>5. ExtraDays(mem'[c]) = ExtraDays(mem[c])
    BY <2>4 DEF ExtraDays, Extra, Due
  <2> QED BY <1>2, <2>1, <2>2, <2>4, <2>5 DEF Holds, SeesSheet
<1>17. CASE SumOvertime(c)
  <2>1. pc[c] = "sync" /\ pc'[c] = "save" /\ on'[c] = on[c]
        /\ mem'[c].records = mem[c].records /\ mem'[c].leaves = mem[c].leaves
    BY <1>1, <1>17 DEF SumOvertime, Locals
  <2> QED BY <1>2, <2>1 DEF Holds, SeesSheet
<1>18. CASE AssertMonthNotApproved(c) /\ ~Fail(c)
  <2>1. /\ pc[c] \in {"assertAdd", "assertDrop"}
        /\ GoOn(c, pc[c], IF pc[c] = "assertAdd" THEN "addLeave" ELSE "delLeave", mem[c])
    BY <1>18 DEF AssertMonthNotApproved
  <2>2. on'[c] = on[c] /\ mem'[c] = mem[c]
    BY <1>1, <2>1
  <2>3. CASE pc[c] = "assertAdd"
    <3>1. pc'[c] = "addLeave"
      BY <1>1, <2>1, <2>3
    <3> QED BY <1>2, <2>2, <2>3, <3>1 DEF Holds, SeesSheet
  <2>4. CASE pc[c] = "assertDrop"
    <3>1. pc'[c] = "delLeave"
      BY <1>1, <2>1, <2>4
    <3> QED BY <1>2, <2>2, <2>4, <3>1 DEF Holds, SeesSheet
  <2> QED BY <2>1, <2>3, <2>4
<1>19. CASE AddLeave(c) \/ DropLeave(c)
  BY <1>1, <1>3, <1>19 DEF AddLeave, DropLeave
<1>20. CASE CheckFrozen(c) /\ ~Fail(c)
  <2>1. pc[c] = "frozen" /\ pc'[c] = "mark" /\ on'[c] = on[c] /\ mem'[c] = mem[c]
    BY <1>1, <1>20 DEF CheckFrozen
  <2> QED BY <1>2, <2>1 DEF Holds, SeesSheet
<1>21. CASE MarkEntry(c) /\ ~Fail(c)
  <2>1. pc[c] = "mark" /\ pc'[c] = "resheet" /\ on'[c] = on[c] /\ mem'[c] = mem[c]
    BY <1>1, <1>21 DEF MarkEntry
  <2> QED BY <1>2, <2>1 DEF Holds, SeesSheet
<1>22. CASE ReReadSheet(c) /\ ~Fail(c)
  <2>1. /\ pc[c] = "resheet" /\ pc'[c] = "resum" /\ on'[c] = on[c]
        /\ mem'[c].seen = sheet[on[c]] /\ sheet[on[c]] # None /\ ~Approved(on[c])
    BY <1>1, <1>22 DEF ReReadSheet, Locals
  <2>2. on[c] \in Users
    BY <1>2, <2>1 DEF Holds
  <2>3. sheet[on[c]] \in SheetRow(Sums) /\ sheet[on[c]].status = "DRAFT"
    BY <1>1, <2>1, <2>2 DEF SheetRow, Approved
  <2> QED BY <2>1, <2>2, <2>3 DEF Holds, SeesSheet
<1>23. CASE ResumOvertime(c)
  <2>1. /\ pc[c] = "resum" /\ pc'[c] = "refresh" /\ on'[c] = on[c]
        /\ mem'[c].seen = [mem[c].seen EXCEPT !.overtime = Overtime(entry[on[c]])]
    BY <1>1, <1>23 DEF ResumOvertime, Locals
  <2>2. on[c] \in Users /\ mem[c].seen \in SheetRow(Sums) /\ mem[c].seen.status = "DRAFT"
    BY <1>2, <2>1 DEF Holds, SeesSheet
  <2>3. Overtime(entry[on[c]]) \in Sums
    BY <2>2, SumTyped DEF IInv
  <2>4. mem'[c].seen \in SheetRow(Sums) /\ mem'[c].seen.status = "DRAFT"
    BY <2>1, <2>2, <2>3 DEF SheetRow
  <2> QED BY <2>1, <2>2, <2>4 DEF Holds, SeesSheet
<1>24. CASE RefreshSheet(c) \/ Approve(c)
  BY <1>1, <1>3, <1>24 DEF RefreshSheet, Approve
<1>25. CASE CheckUndecided(c) /\ ~Fail(c)
  <2>1. pc[c] = "undecided" /\ pc'[c] = "approve" /\ on'[c] = on[c] /\ mem'[c] = mem[c]
    BY <1>1, <1>25 DEF CheckUndecided
  <2> QED BY <1>2, <2>1 DEF Holds, SeesSheet
<1>26. CASE Generate(c)
  BY <1>3, <1>7, <1>12, <1>13, <1>14, <1>15, <1>16, <1>17, <1>26 DEF Generate
<1>27. CASE ChangeLeave(c) \/ Classify(c) \/ Decide(c)
  BY <1>7, <1>18, <1>19, <1>20, <1>21, <1>22, <1>23, <1>24, <1>25, <1>27
  DEF ChangeLeave, Classify, Decide
<1> QED BY <1>4, <1>5, <1>6, <1>8, <1>9, <1>10, <1>11, <1>26, <1>27
        DEF Moves, Request, Handle

\* Who writes what: leaves, sheets and extra work are written by few steps.
LEMMA Writers ==
  ASSUME NEW c \in Callers, Moves(c)
  PROVE  /\ leave' = leave \/ AddLeave(c) \/ DropLeave(c)
         /\ \/ sheet' = sheet
            \/ SaveSheet(c) /\ ~Fail(c)
            \/ RefreshSheet(c)
            \/ Approve(c)
         /\ \/ entry' = entry
            \/ SyncDay(c) /\ ~Fail(c)
            \/ DropDay(c)
            \/ MarkEntry(c) /\ ~Fail(c)
<1>1. CASE Fail(c) \/ Abort(c) \/ MonthEnds(c) \/ StartGenerate(c) \/ Request(c)
  BY <1>1 DEF Fail, Abort, MonthEnds, StartGenerate, Request, StartCreateLeave,
              StartDeleteLeave, StartClassify, StartApprove, Begin, dbVars
<1>2. CASE ReadSheet(c) \/ Generated(c) \/ ReadRecords(c) \/ ReadLeaves(c)
           \/ ReadEntries(c) \/ SumOvertime(c)
  BY <1>2 DEF ReadSheet, Generated, ReadRecords, ReadLeaves, ReadEntries, SumOvertime,
              Fail, dbVars
<1>3. CASE (SyncDay(c) /\ ~Fail(c)) \/ DropDay(c)
  BY <1>3 DEF SyncDay, DropDay
<1>4. CASE SaveSheet(c) /\ ~Fail(c)
  BY <1>4 DEF SaveSheet
<1>5. CASE (AssertMonthNotApproved(c) /\ ~Fail(c)) \/ (CheckFrozen(c) /\ ~Fail(c))
           \/ (ReReadSheet(c) /\ ~Fail(c)) \/ (CheckUndecided(c) /\ ~Fail(c))
           \/ ResumOvertime(c)
  BY <1>5 DEF AssertMonthNotApproved, CheckFrozen, ReReadSheet, CheckUndecided,
              ResumOvertime, dbVars
<1>6. CASE AddLeave(c) \/ DropLeave(c)
  BY <1>6 DEF AddLeave, DropLeave
<1>7. CASE MarkEntry(c) /\ ~Fail(c)
  BY <1>7 DEF MarkEntry
<1>8. CASE RefreshSheet(c) \/ Approve(c)
  BY <1>8 DEF RefreshSheet, Approve
<1> QED BY <1>1, <1>2, <1>3, <1>4, <1>5, <1>6, <1>7, <1>8
        DEF Moves, Handle, Generate, ChangeLeave, Classify, Decide

\* A leave that somebody is about to delete does not change hands.
LEMMA LeaveKept ==
  ASSUME IInv, NEW c \in Callers, Moves(c), NEW l \in LeaveIds, leave'[l] # leave[l]
  PROVE  leave'[l] = None \/ \A b \in Callers : mem[b].id # l
<1>1. leave \in [LeaveIds -> LeaveRow \cup {None}]
  BY DEF IInv, Typed
<1>2. CASE AddLeave(c)
  BY <1>1, <1>2 DEF AddLeave, FreshLeave
<1>3. CASE DropLeave(c)
  BY <1>1, <1>3 DEF DropLeave
<1> QED BY <1>2, <1>3, Writers

\* Only approve makes a sheet APPROVED.
LEMMA OnlyApproveApproves ==
  ASSUME IInv, NEW c \in Callers, Moves(c),
         NEW u \in Users, Approved(u)', ~Approved(u)
  PROVE  Approve(c) /\ on[c] = u
<1>1. sheet \in [Users -> SheetRow(Sums) \cup {None}]
  BY DEF IInv, Typed
<1>2. Holds(c)
  BY DEF IInv, CallersSound
<1>3. CASE sheet' = sheet
  BY <1>3 DEF Approved
<1>4. CASE SaveSheet(c) /\ ~Fail(c)
  <2> DEFINE row == [status |-> "DRAFT", overtime |-> mem[c].sum,
                     totals |-> [records |-> mem[c].records, leaves |-> mem[c].leaves]]
  <2>1. sheet' = [sheet EXCEPT ![on[c]] = row]
    BY <1>4 DEF SaveSheet
  <2>2. row.status = "DRAFT"
    OBVIOUS
  <2> HIDE DEF row
  <2> QED BY <1>1, <2>1, <2>2 DEF Approved
<1>5. CASE RefreshSheet(c)
  <2>1. sheet' = [sheet EXCEPT ![on[c]] = mem[c].seen] /\ mem[c].seen.status = "DRAFT"
    BY <1>2, <1>5 DEF RefreshSheet, Holds
  <2> QED BY <1>1, <2>1 DEF Approved
<1>6. CASE Approve(c)
  <2>1. sheet' = [sheet EXCEPT ![on[c]] = [mem[c].seen EXCEPT !.status = "APPROVED"]]
    BY <1>6 DEF Approve
  <2> QED BY <1>1, <1>6, <2>1 DEF Approved
<1> QED BY <1>3, <1>4, <1>5, <1>6, Writers

\* An approval overtakes every other caller that is working on the employee.
LEMMA ApprovalOvertakes ==
  ASSUME IInv, NEW c \in Callers, Moves(c),
         NEW u \in Users, Approved(u)', ~Approved(u)
  PROVE  \A b \in Callers : b # c /\ on[b] = u => b \in overtaken'
BY OnlyApproveApproves DEF Approve

\* A caller that passes its guard finds the month not approved; one that goes on
\* keeps its employee.
LEMMA MoverGuarded ==
  ASSUME IInv, NEW c \in Callers, Moves(c)
  PROVE  Guarded(c)'
<1> USE DEF End, Fail, GoOn, NextEmployee, Begin
<1>1. /\ pc \in [Callers -> Labels]
      /\ on \in [Callers -> Users \cup {None}]
      /\ sheet \in [Users -> SheetRow(Sums) \cup {None}]
  BY DEF IInv, Typed
<1>2. Holds(c) /\ Guarded(c)
  BY DEF IInv, CallersSound
<1>3. ASSUME pc'[c] \notin PastGuard
      PROVE  Guarded(c)'
  BY <1>3 DEF Guarded, PastGuard
<1>4. ASSUME UNCHANGED sheet, NEW u \in Users, on'[c] = u, ~Approved(u)
      PROVE  Guarded(c)'
  BY <1>4 DEF Guarded, Approved
<1>5. ASSUME UNCHANGED <<sheet, overtaken>>, pc[c] \in PastGuard, on'[c] = on[c]
      PROVE  Guarded(c)'
  BY <1>2, <1>5 DEF Guarded, Approved
<1>6. CASE StartGenerate(c) \/ MonthEnds(c) \/ Abort(c) \/ Fail(c)
  <2>1. pc'[c] \in {"sheet", "over", "idle"}
    BY <1>1, <1>6 DEF StartGenerate, MonthEnds, Abort
  <2> QED BY <1>3, <2>1 DEF PastGuard
<1>7. CASE StartCreateLeave(c) \/ StartDeleteLeave(c) \/ StartClassify(c)
  <2>1. pc'[c] \in {"assertAdd", "assertDrop", "frozen"}
    BY <1>1, <1>7 DEF StartCreateLeave, StartDeleteLeave, StartClassify
  <2> QED BY <1>3, <2>1 DEF PastGuard
<1>8. CASE StartApprove(c)
  <2>1. PICK u \in Users :
          ~Approved(u) /\ Begin(c, "undecided", u, [Blank EXCEPT !.seen = sheet[u]])
    BY <1>8 DEF StartApprove
  <2>2. on'[c] = u /\ UNCHANGED sheet
    BY <1>1, <2>1 DEF dbVars
  <2> QED BY <1>4, <2>1, <2>2
<1>9. CASE ReadSheet(c)
  <2>1. PICK u \in mem[c].todo :
          IF Approved(u)
          THEN NextEmployee(c, mem[c].todo \ {u})
          ELSE /\ pc' = [pc EXCEPT ![c] = "input"]
               /\ on' = [on EXCEPT ![c] = u]
               /\ mem' = [mem EXCEPT ![c] = [mem[c] EXCEPT !.seen = sheet[u]]]
               /\ UNCHANGED <<bounds, overtaken>>
    BY <1>9 DEF ReadSheet
  <2>2. CASE Approved(u)
    <3>1. pc'[c] = "sheet"
      BY <1>1, <2>1, <2>2
    <3> QED BY <1>3, <3>1 DEF PastGuard
  <2>3. CASE ~Approved(u)
    <3>1. on'[c] = u /\ UNCHANGED sheet
      BY <1>1, <1>9, <2>1, <2>3 DEF ReadSheet, dbVars
    <3>2. u \in Users
      BY DEF IInv, Typed, Locals
    <3> QED BY <1>4, <2>3, <3>1, <3>2
  <2> QED BY <2>2, <2>3
<1>10. CASE Generated(c) \/ SaveSheet(c) \/ AddLeave(c) \/ DropLeave(c)
            \/ (MarkEntry(c) /\ ~Fail(c)) \/ RefreshSheet(c) \/ Approve(c)
  <2>1. pc'[c] \in {"sheet", "idle", "resheet"}
    BY <1>1, <1>10 DEF Generated, SaveSheet, AddLeave, DropLeave, MarkEntry,
                       RefreshSheet, Approve
  <2> QED BY <1>3, <2>1 DEF PastGuard
<1>11. CASE ReadRecords(c) \/ ReadLeaves(c) \/ ReadEntries(c) \/ SumOvertime(c)
            \/ ResumOvertime(c) \/ (CheckUndecided(c) /\ ~Fail(c))
  <2>1. /\ pc[c] \in {"input", "sync", "resum", "undecided"} /\ on'[c] = on[c]
        /\ UNCHANGED <<sheet, overtaken>>
    BY <1>11 DEF ReadRecords, ReadLeaves, ReadEntries, SumOvertime, ResumOvertime,
                 CheckUndecided, dbVars
  <2> QED BY <1>5, <2>1 DEF PastGuard
<1>12. CASE (SyncDay(c) /\ ~Fail(c)) \/ DropDay(c)
  <2>1. pc[c] = "sync" /\ on'[c] = on[c] /\ UNCHANGED <<sheet, overtaken>>
    BY <1>12 DEF SyncDay, DropDay
  <2> QED BY <1>5, <2>1 DEF PastGuard
<1>13. CASE (AssertMonthNotApproved(c) /\ ~Fail(c)) \/ (CheckFrozen(c) /\ ~Fail(c))
            \/ (ReReadSheet(c) /\ ~Fail(c))
  <2>1. /\ pc[c] \in {"assertAdd", "assertDrop", "frozen", "resheet"}
        /\ on'[c] = on[c] /\ ~Approved(on[c]) /\ UNCHANGED sheet
    BY <1>13 DEF AssertMonthNotApproved, CheckFrozen, ReReadSheet, dbVars
  <2>2. on[c] \in Users
    BY <1>2, <2>1 DEF Holds
  <2> QED BY <1>4, <2>1, <2>2
<1> QED BY <1>6, <1>7, <1>8, <1>9, <1>10, <1>11, <1>12, <1>13
        DEF Moves, Request, Handle, Generate, ChangeLeave, Classify, Decide

\* The leave of the mover, too, stays its employee's.
LEMMA MoverKeepsLeave ==
  ASSUME IInv, NEW c \in Callers, Moves(c)
  PROVE  KeepsLeave(c)'
<1> USE DEF End, Fail, GoOn, NextEmployee, Begin
<1>1. /\ pc \in [Callers -> Labels]
      /\ mem \in [Callers -> Locals(Sums)]
      /\ on \in [Callers -> Users \cup {None}]
  BY DEF IInv, Typed
<1>2. KeepsLeave(c)
  BY DEF IInv, CallersSound
<1>3. ASSUME pc'[c] \notin {"assertDrop", "delLeave"}
      PROVE  KeepsLeave(c)'
  BY <1>3 DEF KeepsLeave
<1>4. CASE StartDeleteLeave(c)
  <2>1. PICK l \in LeaveIds :
          leave[l] # None /\ Begin(c, "assertDrop", leave[l].user, [Blank EXCEPT !.id = l])
    BY <1>4 DEF StartDeleteLeave
  <2>2. on'[c] = leave[l].user /\ mem'[c].id = l /\ UNCHANGED leave
    BY <1>1, <2>1 DEF dbVars, Blank
  <2> QED BY <2>2 DEF KeepsLeave
<1>5. CASE AssertMonthNotApproved(c) /\ ~Fail(c)
  <2>1. CASE pc[c] = "assertAdd"
    <3>1. pc'[c] = "addLeave"
      BY <1>1, <1>5, <2>1 DEF AssertMonthNotApproved
    <3> QED BY <1>3, <3>1
  <2>2. CASE pc[c] = "assertDrop"
    <3>1. on'[c] = on[c] /\ mem'[c] = mem[c] /\ UNCHANGED leave
      BY <1>1, <1>5, <2>2 DEF AssertMonthNotApproved, dbVars
    <3> QED BY <1>2, <2>2, <3>1 DEF KeepsLeave
  <2> QED BY <1>5, <2>1, <2>2 DEF AssertMonthNotApproved
<1>6. CASE StartGenerate(c) \/ MonthEnds(c) \/ Abort(c) \/ Fail(c)
  <2>1. pc'[c] \in {"sheet", "over", "idle"}
    BY <1>1, <1>6 DEF StartGenerate, MonthEnds, Abort
  <2> QED BY <1>3, <2>1
<1>7. CASE StartCreateLeave(c) \/ StartClassify(c) \/ StartApprove(c)
  <2>1. pc'[c] \in {"assertAdd", "frozen", "undecided"}
    BY <1>1, <1>7 DEF StartCreateLeave, StartClassify, StartApprove
  <2> QED BY <1>3, <2>1
<1>8. CASE ReadSheet(c) \/ Generated(c) \/ ReadRecords(c) \/ ReadLeaves(c)
           \/ ReadEntries(c) \/ SumOvertime(c) \/ SaveSheet(c)
  <2>1. pc'[c] \in {"sheet", "input", "sync", "save", "idle"}
    BY <1>1, <1>8 DEF ReadSheet, Generated, ReadRecords, ReadLeaves, ReadEntries,
                      SumOvertime, SaveSheet
  <2> QED BY <1>3, <2>1
<1>9. CASE (SyncDay(c) /\ ~Fail(c)) \/ DropDay(c)
  <2>1. pc'[c] = "sync"
    BY <1>1, <1>9 DEF SyncDay, DropDay
  <2> QED BY <1>3, <2>1
<1>10. CASE AddLeave(c) \/ DropLeave(c)
  <2>1. pc'[c] = "sheet"
    BY <1>1, <1>10 DEF AddLeave, DropLeave
  <2> QED BY <1>3, <2>1
<1>11. CASE (CheckFrozen(c) /\ ~Fail(c)) \/ (MarkEntry(c) /\ ~Fail(c))
            \/ (ReReadSheet(c) /\ ~Fail(c)) \/ ResumOvertime(c) \/ RefreshSheet(c)
            \/ (CheckUndecided(c) /\ ~Fail(c)) \/ Approve(c)
  <2>1. pc'[c] \in {"mark", "resheet", "resum", "refresh", "approve", "idle"}
    BY <1>1, <1>11 DEF CheckFrozen, MarkEntry, ReReadSheet, ResumOvertime,
                       RefreshSheet, CheckUndecided, Approve
  <2> QED BY <1>3, <2>1
<1> QED BY <1>4, <1>5, <1>6, <1>7, <1>8, <1>9, <1>10, <1>11
        DEF Moves, Request, Handle, Generate, ChangeLeave, Classify, Decide

\* A caller's step keeps every caller sound.
LEMMA CallersStep ==
  ASSUME IInv, NEW c \in Callers, Moves(c), NEW b \in Callers
  PROVE  Holds(b)' /\ KeepsLeave(b)' /\ Guarded(b)' /\ SeesSheet(b)'
<1>1. CASE b = c
  BY <1>1, MoverHolds, MoverKeepsLeave, MoverGuarded
<1>2. CASE b # c
  <2>1. /\ pc'[b] = pc[b] /\ on'[b] = on[b] /\ mem'[b] = mem[b]
        /\ b \in overtaken => b \in overtaken'
    BY <1>2, Bystanders
  <2>2. Holds(b) /\ KeepsLeave(b) /\ Guarded(b) /\ SeesSheet(b)
    BY DEF IInv, CallersSound
  <2>3. Holds(b)' /\ SeesSheet(b)'
    <3>1. ExtraDays(mem'[b]) = ExtraDays(mem[b])
      BY <2>1
    <3> QED BY <2>1, <2>2, <3>1 DEF Holds, SeesSheet
  <2>4. KeepsLeave(b)'
    <3>1. CASE pc[b] \in {"assertDrop", "delLeave"}
      <4>1. mem[b].id \in LeaveIds
        BY <2>2, <3>1 DEF Holds
      <4>2. leave'[mem[b].id] = leave[mem[b].id] \/ leave'[mem[b].id] = None
        BY <4>1, LeaveKept
      <4> QED BY <2>1, <2>2, <4>2 DEF KeepsLeave
    <3>2. CASE pc[b] \notin {"assertDrop", "delLeave"}
      BY <2>1, <3>2 DEF KeepsLeave
    <3> QED BY <3>1, <3>2
  <2>5. Guarded(b)'
    <3>1. SUFFICES ASSUME pc[b] \in PastGuard, b \notin overtaken', Approved(on[b])'
                   PROVE  FALSE
      BY <2>1 DEF Guarded, Approved
    <3>2. on[b] \in Users
      BY <2>2, <3>1 DEF Holds, PastGuard
    <3>3. ~Approved(on[b])
      BY <2>1, <2>2, <3>1 DEF Guarded
    <3>4. ASSUME NEW u \in Users, on[b] = u
          PROVE  ~(Approved(u)')
      BY <1>2, <3>1, <3>3, <3>4, ApprovalOvertakes
    <3> QED BY <2>1, <3>1, <3>2, <3>4 DEF Approved
  <2> QED BY <2>3, <2>4, <2>5
<1> QED BY <1>1, <1>2

\* Steps are steps of a caller, attendance, or none.
LEMMA NextMoves ==
  ASSUME [Next]_vars
  PROVE  \/ UNCHANGED <<leave, sheet, entry, failures, pc, on, mem, overtaken>>
         \/ \E c \in Callers : Moves(c)
<1>1. CASE UNCHANGED vars
  BY <1>1 DEF vars, dbVars, bounds
<1>2. CASE \E u \in Users, d \in Days, m \in 0..MaxWorked : Attend(u, d, m)
  BY <1>2 DEF Attend
<1> QED BY <1>1, <1>2 DEF Next, Moves, Callers

\* The inductive invariant: the types, and what every caller holds.
THEOREM Invariance == Spec => []IInv
<1>1. Init => IInv
  <2> SUFFICES ASSUME Init PROVE IInv
    OBVIOUS
  <2>1. Typed(Sums)
    <3>1. 0 \in 0..MaxWorked
      BY TimesheetsConstants
    <3> QED BY <3>1, BlankTyped DEF Init, Typed, Labels
  <2>2. \A c \in Callers : pc[c] = "idle"
    BY DEF Init
  <2>3. \A c \in Callers : Holds(c) /\ KeepsLeave(c) /\ Guarded(c) /\ SeesSheet(c)
    BY <2>2 DEF Holds, KeepsLeave, Guarded, PastGuard, SeesSheet
  <2> QED BY <2>1, <2>3 DEF IInv, CallersSound
<1>2. IInv /\ [Next]_vars => IInv'
  <2> SUFFICES ASSUME IInv, [Next]_vars PROVE IInv'
    OBVIOUS
  <2>1. Typed(Sums)'
    BY TypeStep
  <2>2. CASE UNCHANGED <<leave, sheet, entry, failures, pc, on, mem, overtaken>>
    <3>1. ASSUME NEW b \in Callers
          PROVE  Holds(b)' /\ KeepsLeave(b)' /\ Guarded(b)' /\ SeesSheet(b)'
      BY <2>2 DEF IInv, CallersSound, Holds, KeepsLeave, Guarded, SeesSheet, Approved
    <3> QED BY <2>1, <3>1 DEF IInv, CallersSound
  <2>3. ASSUME NEW c \in Callers, Moves(c)
        PROVE  IInv'
    BY <2>1, <2>3, CallersStep DEF IInv, CallersSound
  <2> QED BY <2>2, <2>3, NextMoves
<1> QED BY <1>1, <1>2, PTL DEF Spec

\* The type invariant, with sums of minutes in the place of numbers.
THEOREM TypesHold == Spec => []Typed(Sums)
BY Invariance, PTL DEF IInv

\* What every caller holds, and that it is guarded or overtaken.
THEOREM CallersAreSound == Spec => []CallersSound
BY Invariance, PTL DEF IInv

\* A step that changes a month is taken by a caller past its guard that is
\* working on that employee, and it shows in the caller.
LEMMA MonthWriter ==
  ASSUME IInv, NEW c \in Callers, Moves(c), NEW u \in Users, Month(u)' # Month(u)
  PROVE  /\ on[c] = u /\ pc[c] \in PastGuard
         /\ <<pc[c], mem[c]>>' # <<pc[c], mem[c]>>
<1>1. /\ pc \in [Callers -> Labels] /\ mem \in [Callers -> Locals(Sums)]
      /\ sheet \in [Users -> SheetRow(Sums) \cup {None}]
      /\ entry \in [Users -> [Days -> EntryRow \cup {None}]]
      /\ leave \in [LeaveIds -> LeaveRow \cup {None}]
  BY DEF IInv, Typed
<1>2. Holds(c) /\ KeepsLeave(c) /\ mem[c] \in Locals(Sums)
  BY <1>1 DEF IInv, CallersSound
<1>3. ASSUME on[c] # u => UNCHANGED <<sheet[u], entry[u], OnLeave(u)>>
      PROVE  on[c] = u
  BY <1>3 DEF Month
<1>4. CASE SaveSheet(c) /\ ~Fail(c)
  <2>1. on[c] # u => sheet'[u] = sheet[u]
    BY <1>1, <1>4 DEF SaveSheet
  <2>2. UNCHANGED <<entry, leave>> /\ pc[c] = "save" /\ pc'[c] = "sheet"
    BY <1>1, <1>4 DEF SaveSheet, NextEmployee
  <2>3. OnLeave(u)' = OnLeave(u)
    BY <2>2 DEF OnLeave, LeaveRows
  <2> QED BY <1>3, <2>1, <2>2, <2>3 DEF PastGuard
<1>5. CASE RefreshSheet(c) \/ Approve(c)
  <2>1. on[c] # u => sheet'[u] = sheet[u]
    BY <1>1, <1>5 DEF RefreshSheet, Approve
  <2>2. UNCHANGED <<entry, leave>> /\ pc[c] \in {"refresh", "approve"} /\ pc'[c] = "idle"
    BY <1>1, <1>5 DEF RefreshSheet, Approve, End
  <2>3. OnLeave(u)' = OnLeave(u)
    BY <2>2 DEF OnLeave, LeaveRows
  <2> QED BY <1>3, <2>1, <2>2, <2>3 DEF PastGuard
<1>6. CASE SyncDay(c) /\ ~Fail(c)
  <2> DEFINE d == Min(mem[c].left)
  <2>1. /\ pc[c] = "sync" /\ mem[c].left # {} /\ UNCHANGED <<sheet, leave>>
        /\ mem' = [mem EXCEPT ![c] = [mem[c] EXCEPT !.rows[d] = None, !.left = @ \ {d}]]
        /\ UNCHANGED entry \/ \E new : SaveEntry(on[c], d, new)
    BY <1>6 DEF SyncDay, GoOn
  <2>2. d \in mem[c].left
    <3>1. mem[c].left \in SUBSET Nat
      BY <1>2, TimesheetsConstants DEF Locals
    <3> QED BY <2>1, <3>1, MinIsElement
  <2> HIDE DEF d
  <2>3. mem'[c].left = mem[c].left \ {d}
    BY <1>1, <2>1 DEF Locals
  <2>4. on[c] # u => entry'[u] = entry[u]
    BY <1>1, <2>1 DEF SaveEntry
  <2>5. OnLeave(u)' = OnLeave(u)
    BY <2>1 DEF OnLeave, LeaveRows
  <2> QED BY <1>3, <2>1, <2>2, <2>3, <2>4, <2>5 DEF PastGuard
<1>7. CASE DropDay(c)
  <2>1. PICK d \in Days :
          /\ mem[c].rows[d] # None
          /\ UNCHANGED entry \/ SaveEntry(on[c], d, None)
          /\ GoOn(c, "sync", "sync", [mem[c] EXCEPT !.rows[d] = None])
    BY <1>7 DEF DropDay
  <2>2. mem'[c].rows[d] = None /\ pc[c] = "sync"
    BY <1>1, <2>1 DEF GoOn, Locals
  <2>3. on[c] # u => entry'[u] = entry[u]
    BY <1>1, <2>1 DEF SaveEntry
  <2>4. UNCHANGED <<sheet, leave>> /\ OnLeave(u)' = OnLeave(u)
    BY <1>7 DEF DropDay, OnLeave, LeaveRows
  <2> QED BY <1>3, <2>1, <2>2, <2>3, <2>4 DEF PastGuard
<1>8. CASE MarkEntry(c) /\ ~Fail(c)
  <2>1. /\ SaveEntry(on[c], mem[c].day, mem[c].rows[mem[c].day])
        /\ GoOn(c, "mark", "resheet", mem[c]) /\ UNCHANGED <<sheet, leave>>
    BY <1>8 DEF MarkEntry
  <2>2. pc[c] = "mark" /\ pc'[c] = "resheet"
    BY <1>1, <2>1 DEF GoOn
  <2>3. on[c] # u => entry'[u] = entry[u]
    BY <1>1, <2>1 DEF SaveEntry
  <2>4. OnLeave(u)' = OnLeave(u)
    BY <2>1 DEF OnLeave, LeaveRows
  <2> QED BY <1>3, <2>1, <2>2, <2>3, <2>4 DEF PastGuard
<1>9. CASE AddLeave(c)
  <2>1. PICK l \in LeaveIds :
          /\ leave[l] = None
          /\ leave' = [leave EXCEPT ![l] = [user |-> on[c], day |-> mem[c].day]]
    BY <1>9 DEF AddLeave, FreshLeave
  <2>2. UNCHANGED <<sheet, entry>> /\ pc[c] = "addLeave" /\ pc'[c] = "sheet"
    BY <1>1, <1>9 DEF AddLeave, NextEmployee
  <2>3. on[c] # u => OnLeave(u)' = OnLeave(u)
    <3>1. ASSUME on[c] # u, NEW i \in LeaveIds
          PROVE  /\ leave'[i] # None /\ leave'[i].user = u
                      <=> leave[i] # None /\ leave[i].user = u
                 /\ leave[i] # None => leave'[i] = leave[i]
      BY <1>1, <2>1, <3>1
    <3> QED BY <3>1 DEF OnLeave, LeaveRows
  <2> QED BY <1>3, <2>2, <2>3 DEF PastGuard
<1>10. CASE DropLeave(c)
  <2>1. leave' = [leave EXCEPT ![mem[c].id] = None]
    BY <1>10 DEF DropLeave
  <2>2. UNCHANGED <<sheet, entry>> /\ pc[c] = "delLeave" /\ pc'[c] = "sheet"
    BY <1>1, <1>10 DEF DropLeave, NextEmployee
  <2>3. on[c] # u => OnLeave(u)' = OnLeave(u)
    <3>1. ASSUME on[c] # u, NEW i \in LeaveIds, leave[i] # None, leave[i].user = u
          PROVE  leave'[i] = leave[i]
      BY <1>1, <1>2, <2>1, <2>2, <3>1 DEF KeepsLeave
    <3>2. ASSUME NEW i \in LeaveIds, leave'[i] # None
          PROVE  leave'[i] = leave[i]
      BY <1>1, <2>1, <3>2
    <3> QED BY <3>1, <3>2 DEF OnLeave, LeaveRows
  <2> QED BY <1>3, <2>2, <2>3 DEF PastGuard
<1>11. CASE UNCHANGED <<leave, sheet, entry>>
  BY <1>11 DEF Month, OnLeave, LeaveRows
<1> QED BY <1>4, <1>5, <1>6, <1>7, <1>8, <1>9, <1>10, <1>11, Writers

\* Only calls that passed their check before an approval can change what it
\* approved: every other call, of any number of callers, leaves it alone.
THEOREM LateCallsHarmless == Spec => LateCallsLeaveApprovedAlone
<1>1. IInv /\ [Next]_vars =>
        [\A u \in Users : Approved(u) /\ Month(u)' # Month(u) =>
           \E c \in overtaken : on[c] = u /\ <<pc[c], mem[c]>>' # <<pc[c], mem[c]>>]_vars
  <2> SUFFICES ASSUME IInv, [Next]_vars, NEW u \in Users, Approved(u), Month(u)' # Month(u)
               PROVE  \E c \in overtaken :
                        on[c] = u /\ <<pc[c], mem[c]>>' # <<pc[c], mem[c]>>
    OBVIOUS
  <2>1. CASE UNCHANGED <<leave, sheet, entry, failures, pc, on, mem, overtaken>>
    BY <2>1 DEF Month, OnLeave, LeaveRows
  <2>2. ASSUME NEW c \in Callers, Moves(c)
        PROVE  c \in overtaken /\ on[c] = u /\ <<pc[c], mem[c]>>' # <<pc[c], mem[c]>>
    <3>1. /\ on[c] = u /\ pc[c] \in PastGuard
          /\ <<pc[c], mem[c]>>' # <<pc[c], mem[c]>>
      BY <2>2, MonthWriter
    <3>2. c \in overtaken
      BY <3>1 DEF IInv, CallersSound, Guarded
    <3> QED BY <3>1, <3>2
  <2> QED BY <2>1, <2>2, NextMoves
<1> QED BY <1>1, Invariance, PTL DEF Spec, LateCallsLeaveApprovedAlone

\* Without others, nobody is overtaken.
LEMMA SerialOvertakesNobody ==
  ASSUME NEW c, Callers = {c}, overtaken = {}, Moves(c)
  PROVE  overtaken' = {}
<1> USE DEF End, Fail, GoOn, NextEmployee, Begin
<1>1. CASE StartGenerate(c) \/ MonthEnds(c) \/ Abort(c) \/ Request(c) \/ Fail(c)
  BY <1>1 DEF StartGenerate, MonthEnds, Abort, Request, StartCreateLeave,
              StartDeleteLeave, StartClassify, StartApprove
<1>2. CASE Generate(c) /\ ~Fail(c)
  BY <1>2 DEF Generate, ReadSheet, Generated, ReadRecords, ReadLeaves, ReadEntries,
              SyncDay, DropDay, SumOvertime, SaveSheet
<1>3. CASE ChangeLeave(c) /\ ~Fail(c)
  BY <1>3 DEF ChangeLeave, AssertMonthNotApproved, AddLeave, DropLeave
<1>4. CASE Classify(c) /\ ~Fail(c)
  BY <1>4 DEF Classify, CheckFrozen, MarkEntry, ReReadSheet, ResumOvertime, RefreshSheet
<1>5. CASE Decide(c) /\ ~Fail(c)
  BY <1>5 DEF Decide, CheckUndecided, Approve
<1> QED BY <1>1, <1>2, <1>3, <1>4, <1>5 DEF Moves, Handle

\* One caller at a time: no guard is ever overtaken.
LEMMA NobodyOvertaken ==
  ASSUME NEW only, Callers = {only}
  PROVE  Spec => [](overtaken = {})
<1>1. Init => overtaken = {}
  BY DEF Init
<1>2. IInv /\ overtaken = {} /\ [Next]_vars => (overtaken = {})'
  <2> SUFFICES ASSUME IInv, overtaken = {}, [Next]_vars PROVE overtaken' = {}
    OBVIOUS
  <2>1. ASSUME NEW c \in Callers, Moves(c) PROVE overtaken' = {}
    BY <2>1, SerialOvertakesNobody
  <2> QED BY <2>1, NextMoves
<1> QED BY <1>1, <1>2, Invariance, PTL DEF Spec

\* One caller at a time: an approved month never changes.
THEOREM SerialCallsKeepApproved ==
  ASSUME NEW only, Callers = {only}
  PROVE  Spec => ApprovedIsImmutable
<1>1. Spec => [](overtaken = {})
  BY NobodyOvertaken
<1>2. overtaken = {} /\ [\A u \in Users : Approved(u) /\ Month(u)' # Month(u) =>
           \E c \in overtaken : on[c] = u /\ <<pc[c], mem[c]>>' # <<pc[c], mem[c]>>]_vars
      => [\A u \in Users : Approved(u) => Month(u)' = Month(u)]_vars
  OBVIOUS
<1> QED BY <1>1, <1>2, LateCallsHarmless, PTL DEF LateCallsLeaveApprovedAlone, ApprovedIsImmutable

\* What approve has checked: the employee has no undecided row.
Decided(u) == \A d \in Days : entry[u][d] # None => entry[u][d].status # "PENDING"
ApprovesDecided == \A c \in Callers : pc[c] = "approve" => Decided(on[c])

\* A call is about to approve only after it has looked at the rows.
LEMMA ApproveAfterCheck ==
  ASSUME IInv, NEW c \in Callers, Moves(c), pc'[c] = "approve"
  PROVE  Decided(on[c])'
<1> USE DEF End, Fail, GoOn, NextEmployee, Begin
<1>1. pc \in [Callers -> Labels] /\ on \in [Callers -> Users \cup {None}]
  BY DEF IInv, Typed
<1>2. CASE CheckUndecided(c) /\ ~Fail(c)
  <2>1. on'[c] = on[c] /\ entry' = entry /\ Decided(on[c])
    BY <1>1, <1>2 DEF CheckUndecided, dbVars, Decided
  <2> QED BY <2>1 DEF Decided
<1>3. CASE StartGenerate(c) \/ MonthEnds(c) \/ Abort(c) \/ Fail(c)
  BY <1>1, <1>3 DEF StartGenerate, MonthEnds, Abort
<1>4. CASE Request(c)
  BY <1>1, <1>4 DEF Request, StartCreateLeave, StartDeleteLeave, StartClassify, StartApprove
<1>5. CASE Generate(c) /\ ~Fail(c)
  <2>1. pc'[c] \in {"sheet", "input", "sync", "save"}
    BY <1>1, <1>5 DEF Generate, ReadSheet, Generated, ReadRecords, ReadLeaves,
                      ReadEntries, SyncDay, DropDay, SumOvertime, SaveSheet
  <2> QED BY <2>1
<1>6. CASE ChangeLeave(c) /\ ~Fail(c)
  <2>1. pc'[c] \in {"addLeave", "delLeave", "sheet"}
    BY <1>1, <1>6 DEF ChangeLeave, AssertMonthNotApproved, AddLeave, DropLeave
  <2> QED BY <2>1
<1>7. CASE Classify(c) /\ ~Fail(c)
  <2>1. pc'[c] \in {"mark", "resheet", "resum", "refresh", "idle"}
    BY <1>1, <1>7 DEF Classify, CheckFrozen, MarkEntry, ReReadSheet, ResumOvertime,
                      RefreshSheet
  <2> QED BY <2>1
<1>8. CASE Approve(c)
  BY <1>1, <1>8 DEF Approve
<1> QED BY <1>2, <1>3, <1>4, <1>5, <1>6, <1>7, <1>8 DEF Moves, Handle, Decide

\* One caller at a time: an approved month has no undecided row.
THEOREM SerialApprovalsAreDecided ==
  ASSUME NEW only, Callers = {only}
  PROVE  Spec => []NothingUndecided
<1>1. Init => NothingUndecided /\ ApprovesDecided
  BY DEF Init, NothingUndecided, ApprovesDecided, Approved
<1>2. IInv /\ overtaken = {} /\ NothingUndecided /\ ApprovesDecided /\ [Next]_vars
      => (NothingUndecided /\ ApprovesDecided)'
  <2> SUFFICES ASSUME IInv, overtaken = {}, NothingUndecided, ApprovesDecided, [Next]_vars
               PROVE  (NothingUndecided /\ ApprovesDecided)'
    OBVIOUS
  <2>1. CASE UNCHANGED <<leave, sheet, entry, failures, pc, on, mem, overtaken>>
    BY <2>1 DEF NothingUndecided, ApprovesDecided, Decided, Approved
  <2>2. ASSUME NEW c \in Callers, Moves(c)
        PROVE  (NothingUndecided /\ ApprovesDecided)'
    <3>1. ASSUME NEW b \in Callers, pc'[b] = "approve"
          PROVE  Decided(on[b])'
      <4>1. b = c
        OBVIOUS
      <4> QED BY <2>2, <3>1, <4>1, ApproveAfterCheck
    <3>2. ASSUME NEW u \in Users, Approved(u)'
          PROVE  Decided(u)'
      <4>1. CASE Approved(u)
        <5>1. Month(u)' = Month(u)
          BY <2>2, <4>1, MonthWriter DEF IInv, CallersSound, Guarded
        <5>2. Decided(u) /\ entry'[u] = entry[u]
          BY <4>1, <5>1 DEF Month, NothingUndecided, Decided
        <5> QED BY <5>2 DEF Decided
      <4>2. CASE ~Approved(u)
        <5>1. Approve(c) /\ on[c] = u
          BY <2>2, <3>2, <4>2, OnlyApproveApproves
        <5>2. Decided(u) /\ entry' = entry
          BY <5>1 DEF Approve, ApprovesDecided
        <5> QED BY <5>2 DEF Decided
      <4> QED BY <4>1, <4>2
    <3> QED BY <3>1, <3>2 DEF NothingUndecided, ApprovesDecided, Decided
  <2> QED BY <2>1, <2>2, NextMoves
<1> QED BY <1>1, <1>2, Invariance, NobodyOvertaken, PTL DEF Spec

-----------------------------------------------------------------------------
\* Calls that do not overlap: what a call knows of the rows while it works on
\* them, and how far a sheet may be from its rows in the meantime.

\* The rows are the extra days of some totals, with their minutes.
RowsMatch(totals, u) ==
  \A d \in Days :
    IF d \in ExtraDays(totals)
    THEN entry[u][d] # None /\ entry[u][d].minutes = Extra(totals, d)
    ELSE entry[u][d] = None

\* While it synchronises, a day is either done or as it was read.
SyncSound(c) ==
  pc[c] = "sync" =>
    \A d \in Days :
      IF d \in ExtraDays(mem[c]) \ mem[c].left
      THEN /\ mem[c].rows[d] = None
           /\ entry[on[c]][d] # None /\ entry[on[c]][d].minutes = Extra(mem[c], d)
      ELSE mem[c].rows[d] = entry[on[c]][d]

\* What classifyExtraWork writes differs from the row only by its status.
MarkSound(c) ==
  pc[c] \in {"frozen", "mark"} =>
    LET row == mem[c].rows[mem[c].day]
        old == entry[on[c]][mem[c].day]
    IN /\ old # None /\ row.id = old.id /\ row.minutes = old.minutes
       /\ row.status \in DecidedStatus

\* What a call holds of the sheet is the sheet.
SheetSound(c) ==
  /\ pc[c] = "save" => RowsMatch(mem[c], on[c]) /\ mem[c].sum = Overtime(entry[on[c]])
  /\ pc[c] \in {"input", "sync", "save", "resum", "undecided", "approve"} =>
       mem[c].seen = sheet[on[c]]
  /\ pc[c] = "refresh" =>
       mem[c].seen = [sheet[on[c]] EXCEPT !.overtime = Overtime(entry[on[c]])]
  /\ pc[c] \in {"resum", "refresh", "undecided", "approve"} => sheet[on[c]] # None
  /\ pc[c] = "resheet" => ~Approved(on[c])

Snapshot(c) == SyncSound(c) /\ MarkSound(c) /\ SheetSound(c)

\* Unless a call died: rows and totals agree but for the employee whose rows are
\* being synchronised, the overtime but for the one just classified as well.
SyncsRows(c, u) == on[c] = u /\ pc[c] \in {"sync", "save"}
Reclassifies(c, u) == on[c] = u /\ pc[c] \in {"resheet", "resum", "refresh"}
Agreed(c) ==
  failures = 0 =>
    \A u \in Users : sheet[u] # None =>
      /\ SyncsRows(c, u) \/ RowsMatch(sheet[u].totals, u)
      /\ SyncsRows(c, u) \/ Reclassifies(c, u) \/ sheet[u].overtime = Overtime(entry[u])

\* By which steps a call comes to its labels.
LEMMA Arrivals ==
  ASSUME IInv, NEW c \in Callers, Moves(c)
  PROVE  /\ pc'[c] = "input" => ReadSheet(c) \/ ReadRecords(c) \/ ReadLeaves(c)
         /\ pc'[c] = "sync" =>
              ReadEntries(c) \/ (SyncDay(c) /\ ~Fail(c)) \/ DropDay(c)
         /\ pc'[c] = "save" => SumOvertime(c)
         /\ pc'[c] = "frozen" => StartClassify(c)
         /\ pc'[c] = "mark" => CheckFrozen(c) /\ ~Fail(c)
         /\ pc'[c] = "resheet" => MarkEntry(c) /\ ~Fail(c)
         /\ pc'[c] = "resum" => ReReadSheet(c) /\ ~Fail(c)
         /\ pc'[c] = "refresh" => ResumOvertime(c)
         /\ pc'[c] = "undecided" => StartApprove(c)
         /\ pc'[c] = "approve" => CheckUndecided(c) /\ ~Fail(c)
<1> USE DEF End, Fail, GoOn, NextEmployee, Begin
<1>1. pc \in [Callers -> Labels]
  BY DEF IInv, Typed
<1>2. CASE pc'[c] \in {"idle", "over", "sheet", "assertAdd", "assertDrop",
                       "addLeave", "delLeave"}
  BY <1>2
<1>3. CASE StartGenerate(c) \/ MonthEnds(c) \/ Abort(c) \/ Fail(c)
  <2>1. pc'[c] \in {"sheet", "over", "idle"}
    BY <1>1, <1>3 DEF StartGenerate, MonthEnds, Abort
  <2> QED BY <1>2, <2>1
<1>4. CASE StartCreateLeave(c) \/ StartDeleteLeave(c)
  <2>1. pc'[c] \in {"assertAdd", "assertDrop"}
    BY <1>1, <1>4 DEF StartCreateLeave, StartDeleteLeave
  <2> QED BY <1>2, <2>1
<1>5. CASE StartClassify(c)
  <2>1. pc'[c] = "frozen"
    BY <1>1, <1>5 DEF StartClassify
  <2> QED BY <1>5, <2>1
<1>6. CASE StartApprove(c)
  <2>1. pc'[c] = "undecided"
    BY <1>1, <1>6 DEF StartApprove
  <2> QED BY <1>6, <2>1
<1>7. CASE ReadSheet(c)
  <2>1. pc'[c] \in {"input", "sheet"}
    BY <1>1, <1>7 DEF ReadSheet
  <2> QED BY <1>7, <2>1
<1>8. CASE Generated(c) \/ SaveSheet(c) \/ AddLeave(c) \/ DropLeave(c)
           \/ RefreshSheet(c) \/ Approve(c)
  <2>1. pc'[c] \in {"sheet", "idle"}
    BY <1>1, <1>8 DEF Generated, SaveSheet, AddLeave, DropLeave, RefreshSheet, Approve
  <2> QED BY <1>2, <2>1
<1>9. CASE ReadRecords(c) \/ ReadLeaves(c)
  <2>1. pc'[c] = "input"
    BY <1>1, <1>9 DEF ReadRecords, ReadLeaves
  <2> QED BY <1>9, <2>1
<1>10. CASE ReadEntries(c) \/ (SyncDay(c) /\ ~Fail(c)) \/ DropDay(c)
  <2>1. pc'[c] = "sync"
    BY <1>1, <1>10 DEF ReadEntries, SyncDay, DropDay
  <2> QED BY <1>10, <2>1
<1>11. CASE SumOvertime(c)
  <2>1. pc'[c] = "save"
    BY <1>1, <1>11 DEF SumOvertime
  <2> QED BY <1>11, <2>1
<1>12. CASE AssertMonthNotApproved(c) /\ ~Fail(c)
  <2>1. pc'[c] \in {"addLeave", "delLeave"}
    BY <1>1, <1>12 DEF AssertMonthNotApproved
  <2> QED BY <1>2, <2>1
<1>13. CASE CheckFrozen(c) /\ ~Fail(c)
  <2>1. pc'[c] = "mark"
    BY <1>1, <1>13 DEF CheckFrozen
  <2> QED BY <1>13, <2>1
<1>14. CASE MarkEntry(c) /\ ~Fail(c)
  <2>1. pc'[c] = "resheet"
    BY <1>1, <1>14 DEF MarkEntry
  <2> QED BY <1>14, <2>1
<1>15. CASE ReReadSheet(c) /\ ~Fail(c)
  <2>1. pc'[c] = "resum"
    BY <1>1, <1>15 DEF ReReadSheet
  <2> QED BY <1>15, <2>1
<1>16. CASE ResumOvertime(c)
  <2>1. pc'[c] = "refresh"
    BY <1>1, <1>16 DEF ResumOvertime
  <2> QED BY <1>16, <2>1
<1>17. CASE CheckUndecided(c) /\ ~Fail(c)
  <2>1. pc'[c] = "approve"
    BY <1>1, <1>17 DEF CheckUndecided
  <2> QED BY <1>17, <2>1
<1> HIDE DEF End, Fail, GoOn, NextEmployee, Begin
<1> QED BY <1>3, <1>4, <1>5, <1>6, <1>7, <1>8, <1>9, <1>10, <1>11, <1>12, <1>13,
           <1>14, <1>15, <1>16, <1>17
        DEF Moves, Request, Handle, Generate, ChangeLeave, Classify, Decide

\* What a day's synchronisation writes: a row with the day's minutes; a row that
\* was read keeps its id and its status.
SyncWrites(c, d, row) ==
    /\ d \in Days /\ d \in ExtraDays(mem[c]) /\ row.minutes = Extra(mem[c], d)
    /\ mem[c].rows[d] # None =>
         row.id = mem[c].rows[d].id /\ row.status = mem[c].rows[d].status
    /\ \/ entry' = [entry EXCEPT ![on[c]][d] = row]
       \/ entry' = entry /\ row = mem[c].rows[d]
    /\ mem'[c] = [mem[c] EXCEPT !.rows[d] = None, !.left = mem[c].left \ {d}]
    /\ pc[c] = "sync" /\ pc'[c] = "sync" /\ on'[c] = on[c]
    /\ UNCHANGED <<sheet, failures>>

LEMMA SyncDayWrites ==
  ASSUME IInv, NEW c \in Callers, SyncDay(c), ~Fail(c)
  PROVE  \E d \in mem[c].left, row \in EntryRow : SyncWrites(c, d, row)
<1> DEFINE d       == Min(mem[c].left)
           old     == mem[c].rows[d]
           minutes == Extra(mem[c], d)
           new     == IF old = None
                      THEN [id |-> born, minutes |-> minutes, status |-> "PENDING"]
                      ELSE [old EXCEPT !.minutes = minutes]
           m       == [mem[c] EXCEPT !.rows[d] = None, !.left = @ \ {d}]
<1>1. /\ mem[c] \in Locals(Sums) /\ born \in Nat /\ Holds(c)
      /\ pc \in [Callers -> Labels] /\ mem \in [Callers -> Locals(Sums)]
  BY DEF IInv, Typed, CallersSound
<1>2. pc[c] = "sync" /\ mem[c].left # {} /\ mem[c].left \in SUBSET Days
  BY <1>1 DEF SyncDay, Locals
<1>3. d \in mem[c].left
  BY <1>2, MinIsElement, TimesheetsConstants
<1>4. d \in Days /\ d \in ExtraDays(mem[c]) /\ minutes \in Nat
  BY <1>1, <1>2, <1>3, ExtraTyped DEF Holds
<1>5. old \in EntryRow \cup {None}
  BY <1>1, <1>4 DEF Locals
<1>6. /\ GoOn(c, "sync", "sync", m)
      /\ IF new = old THEN UNCHANGED entry ELSE SaveEntry(on[c], d, new)
      /\ UNCHANGED sheet
  BY DEF SyncDay
<1>7. new \in EntryRow /\ new.minutes = minutes
      /\ (old # None => new.id = old.id /\ new.status = old.status)
  <2>1. CASE old = None
    BY <1>1, <1>4, <2>1 DEF EntryRow, Status
  <2>2. CASE old # None
    BY <1>4, <1>5, <2>2 DEF EntryRow
  <2> QED BY <2>1, <2>2
<1>8. m = [mem[c] EXCEPT !.rows[d] = None, !.left = mem[c].left \ {d}]
  BY <1>1 DEF Locals
<1>9. mem'[c] = m /\ pc'[c] = "sync" /\ on'[c] = on[c] /\ UNCHANGED failures
  BY <1>1, <1>6 DEF GoOn, bounds
<1> HIDE DEF d, old, minutes, new, m
<1>10. \/ entry' = [entry EXCEPT ![on[c]][d] = new]
       \/ entry' = entry /\ new = old
  BY <1>6 DEF SaveEntry
<1>11. minutes = Extra(mem[c], d) /\ old = mem[c].rows[d]
  BY DEF minutes, old
<1>12. mem'[c] = [mem[c] EXCEPT !.rows[d] = None, !.left = mem[c].left \ {d}]
  BY <1>8, <1>9
<1> QED BY <1>2, <1>3, <1>4, <1>6, <1>7, <1>9, <1>10, <1>11, <1>12 DEF SyncWrites

\* Without others, what a call writes never clashes with a row of another id, and
\* a sheet that was missing is still missing: no write fails.
LEMMA NoWriteFails ==
  ASSUME IInv, NEW c \in Callers, Snapshot(c), SyncDay(c) \/ MarkEntry(c) \/ SaveSheet(c)
  PROVE  ~Fail(c)
<1>1. pc \in [Callers -> Labels] /\ mem[c] \in Locals(Sums) /\ Holds(c)
  BY DEF IInv, Typed, CallersSound
<1>2. SUFFICES ASSUME Fail(c) PROVE FALSE
  OBVIOUS
<1>3. pc'[c] = "idle"
  BY <1>1, <1>2 DEF Fail, End
<1>4. CASE SyncDay(c)
  <2> DEFINE d       == Min(mem[c].left)
             old     == mem[c].rows[d]
             minutes == Extra(mem[c], d)
             new     == IF old = None
                        THEN [id |-> born, minutes |-> minutes, status |-> "PENDING"]
                        ELSE [old EXCEPT !.minutes = minutes]
  <2>1. pc[c] = "sync" /\ mem[c].left # {} /\ mem[c].left \in SUBSET Days
    BY <1>1, <1>4 DEF SyncDay, Locals
  <2>2. d \in mem[c].left
    BY <2>1, MinIsElement, TimesheetsConstants
  <2>3. d \in Days /\ old = entry[on[c]][d] /\ old \in EntryRow \cup {None}
    BY <1>1, <2>1, <2>2 DEF Snapshot, SyncSound, Locals
  <2>4. Clashes(on[c], d, new)
    BY <1>1, <1>3, <1>4 DEF SyncDay, GoOn
  <2>5. old # None /\ old.id # new.id
    BY <2>3, <2>4 DEF Clashes
  <2>6. old # None => new.id = old.id
    BY <2>3 DEF EntryRow
  <2> HIDE DEF d, old, minutes, new
  <2> QED BY <2>5, <2>6
<1>5. CASE MarkEntry(c)
  <2>1. pc[c] = "mark" /\ Clashes(on[c], mem[c].day, mem[c].rows[mem[c].day])
    BY <1>1, <1>3, <1>5 DEF MarkEntry, GoOn
  <2> QED BY <2>1 DEF Clashes, Snapshot, MarkSound
<1>6. CASE SaveSheet(c)
  <2>1. pc[c] = "save" /\ mem[c].seen = None /\ sheet[on[c]] # None
    BY <1>1, <1>3, <1>6 DEF SaveSheet, NextEmployee
  <2> QED BY <2>1 DEF Snapshot, SheetSound
<1> QED BY <1>4, <1>5, <1>6

\* Without others, a row that matched no extra day is the row it deletes.
LEMMA DropDayWrites ==
  ASSUME IInv, NEW c \in Callers, Snapshot(c), DropDay(c)
  PROVE  \E d \in Days :
           /\ mem[c].rows[d] # None /\ mem[c].rows[d] = entry[on[c]][d]
           /\ d \notin ExtraDays(mem[c]) /\ mem[c].left = {}
           /\ entry' = [entry EXCEPT ![on[c]][d] = None]
           /\ mem'[c] = [mem[c] EXCEPT !.rows[d] = None]
           /\ pc[c] = "sync" /\ pc'[c] = "sync" /\ on'[c] = on[c]
           /\ UNCHANGED <<sheet, failures>>
<1>1. pc \in [Callers -> Labels] /\ mem \in [Callers -> Locals(Sums)]
  BY DEF IInv, Typed
<1>2. PICK d \in Days :
        /\ mem[c].rows[d] # None
        /\ IF Clashes(on[c], d, mem[c].rows[d])
           THEN UNCHANGED entry
           ELSE SaveEntry(on[c], d, None)
        /\ GoOn(c, "sync", "sync", [mem[c] EXCEPT !.rows[d] = None])
  BY DEF DropDay
<1>3. pc[c] = "sync" /\ pc'[c] = "sync" /\ on'[c] = on[c]
      /\ mem'[c] = [mem[c] EXCEPT !.rows[d] = None] /\ UNCHANGED failures
  BY <1>1, <1>2 DEF GoOn, bounds
<1>4. mem[c].rows[d] = entry[on[c]][d] /\ d \notin ExtraDays(mem[c]) \ mem[c].left
  BY <1>2, <1>3 DEF Snapshot, SyncSound
<1>5. mem[c].left = {} /\ UNCHANGED sheet
  BY DEF DropDay
<1>6. entry' = [entry EXCEPT ![on[c]][d] = None]
  BY <1>2, <1>4 DEF Clashes, SaveEntry
<1> QED BY <1>2, <1>3, <1>4, <1>5, <1>6

\* The extra days of a month depend on its records and its leaves only.
LEMMA SameExtraDays ==
  ASSUME NEW a, NEW b, a.records = b.records, a.leaves = b.leaves
  PROVE  ExtraDays(a) = ExtraDays(b) /\ \A d : Extra(a, d) = Extra(b, d)
BY DEF ExtraDays, Extra, Due

\* A synchronising call stays sound.
LEMMA SyncSoundStep ==
  ASSUME IInv, NEW c \in Callers, Snapshot(c), Moves(c)
  PROVE  SyncSound(c)'
<1>1. /\ pc \in [Callers -> Labels] /\ mem \in [Callers -> Locals(Sums)]
      /\ on \in [Callers -> Users \cup {None}]
      /\ entry \in [Users -> [Days -> EntryRow \cup {None}]]
      /\ mem[c] \in Locals(Sums) /\ Holds(c) /\ SyncSound(c)
  BY DEF IInv, Typed, CallersSound, Snapshot
<1>2. SUFFICES ASSUME pc'[c] = "sync" PROVE SyncSound(c)'
  BY DEF SyncSound
<1>3. CASE ReadEntries(c)
  <2>1. /\ mem'[c] = [mem[c] EXCEPT !.rows = entry[on[c]], !.left = ExtraDays(mem[c])]
        /\ on'[c] = on[c] /\ entry' = entry
    BY <1>1, <1>3 DEF ReadEntries, GoOn, dbVars
  <2>2. /\ mem'[c].records = mem[c].records /\ mem'[c].leaves = mem[c].leaves
        /\ mem'[c].rows = entry[on[c]] /\ mem'[c].left = ExtraDays(mem[c])
    BY <1>1, <2>1 DEF Locals
  <2>3. ExtraDays(mem'[c]) = mem'[c].left
    BY <2>2, SameExtraDays
  <2> QED BY <2>1, <2>2, <2>3 DEF SyncSound
<1>4. CASE SyncDay(c) /\ ~Fail(c)
  <2>1. PICK d \in mem[c].left, row \in EntryRow : SyncWrites(c, d, row)
    BY <1>4, SyncDayWrites
  <2> USE DEF SyncWrites
  <2>2. /\ mem'[c].records = mem[c].records /\ mem'[c].leaves = mem[c].leaves
        /\ mem'[c].rows = [mem[c].rows EXCEPT ![d] = None]
        /\ mem'[c].left = mem[c].left \ {d} /\ mem[c].rows \in [Days -> EntryRow \cup {None}]
    BY <1>1, <2>1 DEF Locals
  <2>3. ExtraDays(mem'[c]) = ExtraDays(mem[c]) /\ \A e : Extra(mem'[c], e) = Extra(mem[c], e)
    BY <2>2, SameExtraDays
  <2>4. on[c] \in Users
    BY <1>1, <2>1 DEF Holds
  <2>5. mem[c].rows[d] = entry[on[c]][d]
    BY <1>1, <2>1 DEF SyncSound
  <2>6. entry'[on[c]][d] = row /\ \A e \in Days \ {d} : entry'[on[c]][e] = entry[on[c]][e]
    BY <1>1, <2>1, <2>4, <2>5
  <2>7. row # None
    BY NoneIsNoRow
  <2>8. ASSUME NEW e \in Days
        PROVE  IF e \in ExtraDays(mem'[c]) \ mem'[c].left
               THEN /\ mem'[c].rows[e] = None
                    /\ entry'[on[c]][e] # None
                    /\ entry'[on[c]][e].minutes = Extra(mem'[c], e)
               ELSE mem'[c].rows[e] = entry'[on[c]][e]
    <3>1. CASE e = d
      BY <2>1, <2>2, <2>3, <2>6, <2>7, <3>1
    <3>2. CASE e # d
      <4>1. mem'[c].rows[e] = mem[c].rows[e] /\ entry'[on[c]][e] = entry[on[c]][e]
            /\ (e \in mem'[c].left <=> e \in mem[c].left)
        BY <2>2, <2>6, <3>2
      <4> QED BY <1>1, <2>1, <2>3, <4>1 DEF SyncSound
    <3> QED BY <3>1, <3>2
  <2> QED BY <2>1, <2>8 DEF SyncSound
<1>5. CASE DropDay(c)
  <2>1. PICK d \in Days :
           /\ mem[c].rows[d] # None /\ d \notin ExtraDays(mem[c])
           /\ entry' = [entry EXCEPT ![on[c]][d] = None]
           /\ mem'[c] = [mem[c] EXCEPT !.rows[d] = None]
           /\ pc[c] = "sync" /\ on'[c] = on[c]
    BY <1>5, DropDayWrites
  <2>2. /\ mem'[c].records = mem[c].records /\ mem'[c].leaves = mem[c].leaves
        /\ mem'[c].rows = [mem[c].rows EXCEPT ![d] = None]
        /\ mem'[c].left = mem[c].left /\ mem[c].rows \in [Days -> EntryRow \cup {None}]
    BY <1>1, <2>1 DEF Locals
  <2>3. ExtraDays(mem'[c]) = ExtraDays(mem[c]) /\ \A e : Extra(mem'[c], e) = Extra(mem[c], e)
    BY <2>2, SameExtraDays
  <2>4. on[c] \in Users
    BY <1>1, <2>1 DEF Holds
  <2>5. entry'[on[c]][d] = None /\ \A e \in Days \ {d} : entry'[on[c]][e] = entry[on[c]][e]
    BY <1>1, <2>1, <2>4
  <2>6. ASSUME NEW e \in Days
        PROVE  IF e \in ExtraDays(mem'[c]) \ mem'[c].left
               THEN /\ mem'[c].rows[e] = None
                    /\ entry'[on[c]][e] # None
                    /\ entry'[on[c]][e].minutes = Extra(mem'[c], e)
               ELSE mem'[c].rows[e] = entry'[on[c]][e]
    <3>1. CASE e = d
      BY <2>1, <2>2, <2>3, <2>5, <3>1
    <3>2. CASE e # d
      <4>1. mem'[c].rows[e] = mem[c].rows[e] /\ entry'[on[c]][e] = entry[on[c]][e]
        BY <2>2, <2>5, <3>2
      <4> QED BY <1>1, <2>1, <2>2, <2>3, <4>1 DEF SyncSound
    <3> QED BY <3>1, <3>2
  <2> QED BY <2>1, <2>6 DEF SyncSound
<1> QED BY <1>2, <1>3, <1>4, <1>5, Arrivals

\* A classifying call stays sound.
LEMMA MarkSoundStep ==
  ASSUME IInv, NEW c \in Callers, Snapshot(c), Moves(c)
  PROVE  MarkSound(c)'
<1>1. /\ pc \in [Callers -> Labels] /\ mem \in [Callers -> Locals(Sums)]
      /\ on \in [Callers -> Users \cup {None}]
      /\ entry \in [Users -> [Days -> EntryRow \cup {None}]]
      /\ mem[c] \in Locals(Sums) /\ MarkSound(c)
  BY DEF IInv, Typed, Snapshot
<1>2. CASE StartClassify(c)
  <2>1. PICK u \in Users, d \in Days, type \in DecidedStatus :
          /\ entry[u][d] # None
          /\ Begin(c, "frozen", u,
                   [Blank EXCEPT !.day = d, !.rows[d] = [entry[u][d] EXCEPT !.status = type]])
    BY <1>2 DEF StartClassify
  <2>2. on'[c] = u /\ mem'[c].day = d /\ entry' = entry
        /\ mem'[c].rows[d] = [entry[u][d] EXCEPT !.status = type]
    BY <1>1, <2>1 DEF Begin, Blank, dbVars
  <2>3. entry[u][d] \in EntryRow
    BY <1>1, <2>1
  <2> QED BY <2>1, <2>2, <2>3 DEF MarkSound, EntryRow
<1>3. CASE CheckFrozen(c) /\ ~Fail(c)
  <2>1. pc[c] = "frozen" /\ UNCHANGED <<entry, on>> /\ mem'[c] = mem[c]
    BY <1>1, <1>3 DEF CheckFrozen, GoOn, dbVars
  <2> QED BY <1>1, <2>1 DEF MarkSound
<1>4. CASE pc'[c] \notin {"frozen", "mark"}
  BY <1>4 DEF MarkSound
<1> QED BY <1>2, <1>3, <1>4, Arrivals

\* What a call holds of the sheet stays the sheet.
LEMMA SheetSoundStep ==
  ASSUME IInv, overtaken = {}, NEW c \in Callers, Snapshot(c), Moves(c)
  PROVE  SheetSound(c)'
<1> USE DEF GoOn, dbVars
<1>1. /\ pc \in [Callers -> Labels] /\ mem \in [Callers -> Locals(Sums)]
      /\ on \in [Callers -> Users \cup {None}]
      /\ sheet \in [Users -> SheetRow(Sums) \cup {None}]
      /\ mem[c] \in Locals(Sums) /\ SheetSound(c) /\ SyncSound(c)
      /\ Holds(c) /\ Guarded(c) /\ SeesSheet(c)
  BY DEF IInv, Typed, Snapshot, CallersSound
<1>2. CASE ReadSheet(c) /\ pc'[c] = "input"
  <2>1. PICK u \in mem[c].todo :
          /\ on' = [on EXCEPT ![c] = u]
          /\ mem' = [mem EXCEPT ![c] = [mem[c] EXCEPT !.seen = sheet[u]]]
    BY <1>1, <1>2 DEF ReadSheet, NextEmployee
  <2>2. on'[c] = u /\ mem'[c].seen = sheet[u] /\ sheet' = sheet
    BY <1>1, <1>2, <2>1 DEF ReadSheet, Locals
  <2> QED BY <1>2, <2>2 DEF SheetSound
<1>3. CASE ReadRecords(c) \/ ReadLeaves(c) \/ ReadEntries(c)
  <2>1. /\ pc[c] = "input" /\ pc'[c] \in {"input", "sync"}
        /\ on'[c] = on[c] /\ sheet' = sheet
    BY <1>1, <1>3 DEF ReadRecords, ReadLeaves, ReadEntries
  <2>2. mem'[c].seen = mem[c].seen
    <3>1. CASE ReadRecords(c)
      BY <1>1, <3>1 DEF ReadRecords, Locals
    <3>2. CASE ReadLeaves(c)
      BY <1>1, <3>2 DEF ReadLeaves, Locals
    <3>3. CASE ReadEntries(c)
      BY <1>1, <3>3 DEF ReadEntries, Locals
    <3> QED BY <1>3, <3>1, <3>2, <3>3
  <2> QED BY <1>1, <2>1, <2>2 DEF SheetSound
<1>4. CASE SyncDay(c) /\ ~Fail(c)
  <2>1. /\ pc[c] = "sync" /\ pc'[c] = "sync"
        /\ on'[c] = on[c] /\ sheet' = sheet
        /\ mem'[c].seen = mem[c].seen
    <3>1. PICK d \in mem[c].left, row \in EntryRow : SyncWrites(c, d, row)
      BY <1>4, SyncDayWrites
    <3> USE DEF SyncWrites
    <3> QED BY <1>1, <3>1 DEF Locals
  <2> QED BY <1>1, <2>1 DEF SheetSound
<1>5. CASE DropDay(c)
  <2>1. /\ pc[c] = "sync" /\ pc'[c] = "sync"
        /\ on'[c] = on[c] /\ sheet' = sheet
        /\ mem'[c].seen = mem[c].seen
    BY <1>1, <1>5 DEF DropDay, Locals
  <2> QED BY <1>1, <2>1 DEF SheetSound
<1>6. CASE SumOvertime(c)
  <2>1. /\ pc[c] = "sync" /\ pc'[c] = "save" /\ on'[c] = on[c] /\ UNCHANGED <<sheet, entry>>
        /\ mem[c].left = {} /\ \A d \in Days : mem[c].rows[d] = None
        /\ mem'[c] = [mem[c] EXCEPT !.sum = Overtime(entry[on[c]])]
    BY <1>1, <1>6 DEF SumOvertime
  <2>2. /\ mem'[c].records = mem[c].records /\ mem'[c].leaves = mem[c].leaves
        /\ mem'[c].seen = mem[c].seen /\ mem'[c].sum = Overtime(entry[on[c]])
    BY <1>1, <2>1 DEF Locals
  <2>3. ExtraDays(mem'[c]) = ExtraDays(mem[c]) /\ \A e : Extra(mem'[c], e) = Extra(mem[c], e)
    BY <2>2, SameExtraDays
  <2>4. RowsMatch(mem[c], on[c])
    BY <1>1, <2>1 DEF SyncSound, RowsMatch
  <2>5. RowsMatch(mem[c], on[c])'
    BY <2>1, <2>3, <2>4 DEF RowsMatch
  <2> QED BY <1>1, <2>1, <2>2, <2>5 DEF SheetSound
<1>7. CASE MarkEntry(c) /\ ~Fail(c)
  <2>1. pc[c] = "mark" /\ pc'[c] = "resheet" /\ on'[c] = on[c] /\ sheet' = sheet
    BY <1>1, <1>7 DEF MarkEntry
  <2>2. ~Approved(on[c])
    BY <1>1, <2>1 DEF Guarded, PastGuard
  <2> QED BY <2>1, <2>2 DEF SheetSound, Approved
<1>8. CASE ReReadSheet(c) /\ ~Fail(c)
  <2>1. /\ pc'[c] = "resum" /\ on'[c] = on[c] /\ sheet' = sheet
        /\ sheet[on[c]] # None /\ mem'[c].seen = sheet[on[c]]
    BY <1>1, <1>8 DEF ReReadSheet, Locals
  <2> QED BY <2>1 DEF SheetSound
<1>9. CASE ResumOvertime(c)
  <2>1. /\ pc[c] = "resum" /\ pc'[c] = "refresh" /\ on'[c] = on[c]
        /\ UNCHANGED <<sheet, entry>>
        /\ mem'[c].seen = [mem[c].seen EXCEPT !.overtime = Overtime(entry[on[c]])]
    BY <1>1, <1>9 DEF ResumOvertime, Locals
  <2> QED BY <1>1, <2>1 DEF SheetSound
<1>10. CASE StartApprove(c)
  <2>1. PICK u \in Users :
          sheet[u] # None /\ Begin(c, "undecided", u, [Blank EXCEPT !.seen = sheet[u]])
    BY <1>10 DEF StartApprove
  <2>2. /\ pc'[c] = "undecided" /\ on'[c] = u /\ sheet' = sheet
        /\ mem'[c].seen = sheet[u]
    BY <1>1, <2>1 DEF Begin, Blank
  <2> QED BY <2>1, <2>2 DEF SheetSound
<1>11. CASE CheckUndecided(c) /\ ~Fail(c)
  <2>1. /\ pc[c] = "undecided" /\ pc'[c] = "approve" /\ on'[c] = on[c] /\ sheet' = sheet
        /\ mem'[c].seen = mem[c].seen
    BY <1>1, <1>11 DEF CheckUndecided
  <2> QED BY <1>1, <2>1 DEF SheetSound
<1>12. CASE pc'[c] \notin {"input", "sync", "save", "resheet", "resum", "refresh",
                           "undecided", "approve"}
  BY <1>12 DEF SheetSound
<1> QED BY <1>2, <1>3, <1>4, <1>5, <1>6, <1>7, <1>8, <1>9, <1>10, <1>11, <1>12, Arrivals

\* The sheet and its rows keep agreeing, as far as they have to.
LEMMA AgreedStep ==
  ASSUME IInv, overtaken = {}, NEW c \in Callers, Snapshot(c), Agreed(c), Moves(c)
  PROVE  Agreed(c)'
<1>1. /\ pc \in [Callers -> Labels] /\ mem \in [Callers -> Locals(Sums)]
      /\ on \in [Callers -> Users \cup {None}]
      /\ sheet \in [Users -> SheetRow(Sums) \cup {None}]
      /\ entry \in [Users -> [Days -> EntryRow \cup {None}]]
      /\ mem[c] \in Locals(Sums) /\ SheetSound(c) /\ SyncSound(c) /\ MarkSound(c)
      /\ Holds(c) /\ failures \in Nat
  BY DEF IInv, Typed, Snapshot, CallersSound
<1>2. CASE Abort(c)
  BY <1>1, <1>2 DEF Abort, Agreed
<1>3. CASE (SyncDay(c) /\ ~Fail(c)) \/ DropDay(c)
  <2>1. PICK d, row :
          /\ entry' = entry \/ entry' = [entry EXCEPT ![on[c]][d] = row]
          /\ pc[c] = "sync" /\ pc'[c] = "sync" /\ on'[c] = on[c]
          /\ UNCHANGED <<sheet, failures>>
    <3>1. CASE SyncDay(c) /\ ~Fail(c)
      <4>1. PICK d \in mem[c].left, row \in EntryRow : SyncWrites(c, d, row)
        BY <3>1, SyncDayWrites
      <4> USE DEF SyncWrites
      <4> QED BY <4>1
    <3>2. CASE DropDay(c)
      <4>1. PICK d \in Days :
              /\ entry' = [entry EXCEPT ![on[c]][d] = None]
              /\ pc[c] = "sync" /\ pc'[c] = "sync" /\ on'[c] = on[c]
              /\ UNCHANGED <<sheet, failures>>
        BY <3>2, DropDayWrites
      <4> QED BY <4>1
    <3> QED BY <1>3, <3>1, <3>2
  <2>2. ASSUME NEW u \in Users, u # on[c]
        PROVE  entry'[u] = entry[u]
    BY <1>1, <2>1, <2>2
  <2> QED BY <1>1, <2>1, <2>2 DEF Agreed, SyncsRows, Reclassifies, RowsMatch
<1>4. CASE SaveSheet(c)
  <2> DEFINE totals == [records |-> mem[c].records, leaves |-> mem[c].leaves]
             row    == [status |-> "DRAFT", overtime |-> mem[c].sum, totals |-> totals]
  <2>1. /\ sheet' = [sheet EXCEPT ![on[c]] = row] /\ NextEmployee(c, mem[c].todo \ {on[c]})
        /\ entry' = entry
    BY <1>4, NoWriteFails DEF SaveSheet
  <2>2. row.overtime = mem[c].sum /\ row.totals = totals
    OBVIOUS
  <2>3. ExtraDays(totals) = ExtraDays(mem[c]) /\ \A d : Extra(totals, d) = Extra(mem[c], d)
    BY SameExtraDays
  <2>4. pc[c] = "save" /\ on[c] \in Users
    BY <1>1, <1>4 DEF SaveSheet, Holds
  <2>5. RowsMatch(mem[c], on[c]) /\ mem[c].sum = Overtime(entry[on[c]])
    BY <1>1, <2>4 DEF SheetSound
  <2> HIDE DEF row, totals
  <2>6. RowsMatch(totals, on[c])
    BY <2>3, <2>5 DEF RowsMatch
  <2>7. sheet'[on[c]] = row /\ \A u \in Users \ {on[c]} : sheet'[u] = sheet[u]
    BY <1>1, <2>1, <2>4
  <2>8. failures' = failures
    BY <2>1 DEF NextEmployee, bounds
  <2>9. ASSUME NEW u \in Users, sheet'[u] # None, failures = 0
        PROVE  RowsMatch(sheet'[u].totals, u) /\ sheet'[u].overtime = Overtime(entry[u])
    <3>1. CASE u = on[c]
      BY <2>2, <2>5, <2>6, <2>7, <3>1
    <3>2. CASE u # on[c]
      BY <2>7, <2>9, <3>2 DEF Agreed, SyncsRows, Reclassifies
    <3> QED BY <3>1, <3>2
  <2> QED BY <2>1, <2>8, <2>9 DEF Agreed, RowsMatch
<1>5. CASE MarkEntry(c)
  <2> DEFINE day == mem[c].day
             row == mem[c].rows[day]
  <2>1. /\ entry' = [entry EXCEPT ![on[c]][day] = row]
        /\ GoOn(c, "mark", "resheet", mem[c]) /\ sheet' = sheet
    BY <1>5, NoWriteFails DEF MarkEntry, SaveEntry
  <2>2. pc[c] = "mark" /\ pc'[c] = "resheet" /\ on' = on /\ failures' = failures
    BY <1>1, <2>1 DEF GoOn, bounds
  <2>3. /\ on[c] \in Users /\ day \in Days /\ row # None
        /\ entry[on[c]][day] # None /\ row.minutes = entry[on[c]][day].minutes
    BY <1>1, <2>2, NoneIsNoRow DEF Holds, MarkSound
  <2> HIDE DEF day, row
  <2>4. /\ entry'[on[c]][day] = row
        /\ \A d \in Days \ {day} : entry'[on[c]][d] = entry[on[c]][d]
        /\ \A u \in Users \ {on[c]} : entry'[u] = entry[u]
    BY <1>1, <2>1, <2>3
  <2>5. ASSUME NEW u \in Users, failures = 0, sheet[u] # None
        PROVE  RowsMatch(sheet[u].totals, u)'
    <3>1. RowsMatch(sheet[u].totals, u)
      BY <2>2, <2>5 DEF Agreed, SyncsRows
    <3>2. ASSUME NEW d \in Days
          PROVE  /\ entry'[u][d] = None <=> entry[u][d] = None
                 /\ entry[u][d] # None => entry'[u][d].minutes = entry[u][d].minutes
      BY <2>3, <2>4
    <3> QED BY <2>1, <3>1, <3>2 DEF RowsMatch
  <2>6. ASSUME NEW u \in Users, failures = 0, sheet[u] # None, u # on[c]
        PROVE  sheet[u].overtime = Overtime(entry'[u])
    BY <2>4, <2>6 DEF Agreed, SyncsRows, Reclassifies
  <2> QED BY <2>1, <2>2, <2>5, <2>6 DEF Agreed, Reclassifies
<1>6. CASE ReReadSheet(c)
  <2>1. pc[c] = "resheet" /\ UNCHANGED <<sheet, entry, failures>>
        /\ (sheet[on[c]] = None \/ Approved(on[c])
              \/ GoOn(c, "resheet", "resum", [mem[c] EXCEPT !.seen = sheet[on[c]]]))
    BY <1>6 DEF ReReadSheet, Fail, GoOn, dbVars, bounds
  <2>2. sheet[on[c]] = None \/ (pc'[c] = "resum" /\ on' = on)
    BY <1>1, <2>1 DEF SheetSound, GoOn
  <2> QED BY <2>1, <2>2 DEF Agreed, SyncsRows, Reclassifies, RowsMatch
<1>7. CASE ResumOvertime(c)
  <2>1. pc[c] = "resum" /\ pc'[c] = "refresh" /\ on' = on
        /\ UNCHANGED <<sheet, entry, failures>>
    BY <1>1, <1>7 DEF ResumOvertime, GoOn, dbVars, bounds
  <2> QED BY <2>1 DEF Agreed, SyncsRows, Reclassifies, RowsMatch
<1>8. CASE SumOvertime(c)
  <2>1. pc[c] = "sync" /\ pc'[c] = "save" /\ on' = on
        /\ UNCHANGED <<sheet, entry, failures>>
    BY <1>1, <1>8 DEF SumOvertime, GoOn, dbVars, bounds
  <2> QED BY <2>1 DEF Agreed, SyncsRows, Reclassifies, RowsMatch
<1>9. CASE RefreshSheet(c) \/ Approve(c)
  <2>1. PICK row : /\ sheet' = [sheet EXCEPT ![on[c]] = row]
                   /\ row.totals = sheet[on[c]].totals
                   /\ row.overtime = sheet[on[c]].overtime \/ row.overtime = Overtime(entry[on[c]])
                   /\ pc[c] = "refresh" => row.overtime = Overtime(entry[on[c]])
    <3>1. on[c] \in Users /\ sheet[on[c]] # None
      BY <1>1, <1>9 DEF RefreshSheet, Approve, Holds, SheetSound
    <3>2. sheet[on[c]] \in SheetRow(Sums)
      BY <1>1, <3>1
    <3>3. CASE RefreshSheet(c)
      BY <1>1, <3>2, <3>3 DEF RefreshSheet, SheetSound, SheetRow
    <3>4. CASE Approve(c)
      BY <1>1, <3>2, <3>4 DEF Approve, SheetSound, SheetRow
    <3> QED BY <1>9, <3>3, <3>4
  <2>2. /\ pc[c] \in {"refresh", "approve"} /\ pc'[c] = "idle"
        /\ UNCHANGED <<entry, failures>>
    BY <1>1, <1>9 DEF RefreshSheet, Approve, End
  <2>3. on[c] \in Users /\ sheet[on[c]] # None
    BY <1>1, <2>2 DEF Holds, SheetSound
  <2>4. sheet'[on[c]] = row /\ \A u \in Users \ {on[c]} : sheet'[u] = sheet[u]
    BY <1>1, <2>1, <2>3
  <2>5. ASSUME NEW u \in Users, sheet'[u] # None, failures = 0
        PROVE  RowsMatch(sheet'[u].totals, u) /\ sheet'[u].overtime = Overtime(entry[u])
    <3>1. CASE u = on[c]
      BY <2>1, <2>2, <2>3, <2>4, <2>5, <3>1 DEF Agreed, SyncsRows, Reclassifies
    <3>2. CASE u # on[c]
      BY <2>4, <2>5, <3>2 DEF Agreed, SyncsRows, Reclassifies
    <3> QED BY <3>1, <3>2
  <2> QED BY <2>2, <2>5 DEF Agreed, RowsMatch
<1>10. ASSUME UNCHANGED <<sheet, entry, failures>>,
              pc[c] \notin {"sync", "save", "resheet", "resum", "refresh"}
       PROVE  Agreed(c)'
  <2>1. ASSUME NEW u \in Users, sheet[u] # None, failures = 0
        PROVE  RowsMatch(sheet[u].totals, u) /\ sheet[u].overtime = Overtime(entry[u])
    BY <1>10, <2>1 DEF Agreed, SyncsRows, Reclassifies
  <2> QED BY <1>10, <2>1 DEF Agreed, RowsMatch
<1> USE DEF End, Fail, GoOn, NextEmployee, Begin
<1>11. CASE StartGenerate(c) \/ MonthEnds(c) \/ Request(c)
  <2>1. pc[c] = "idle" /\ UNCHANGED <<sheet, entry, failures>>
    BY <1>11 DEF StartGenerate, MonthEnds, Request, StartCreateLeave, StartDeleteLeave,
                 StartClassify, StartApprove, dbVars, bounds
  <2> QED BY <1>10, <2>1
<1>12. CASE ReadSheet(c) \/ Generated(c) \/ ReadRecords(c) \/ ReadLeaves(c) \/ ReadEntries(c)
  <2>1. pc[c] \in {"sheet", "input"} /\ UNCHANGED <<sheet, entry, failures>>
    BY <1>12 DEF ReadSheet, Generated, ReadRecords, ReadLeaves, ReadEntries, dbVars, bounds
  <2> QED BY <1>10, <2>1
<1>13. CASE ChangeLeave(c)
  <2>1. pc[c] \in {"assertAdd", "assertDrop", "addLeave", "delLeave"}
        /\ UNCHANGED <<sheet, entry, failures>>
    BY <1>13 DEF ChangeLeave, AssertMonthNotApproved, AddLeave, DropLeave, dbVars, bounds
  <2> QED BY <1>10, <2>1
<1>14. CASE CheckFrozen(c) \/ CheckUndecided(c)
  <2>1. pc[c] \in {"frozen", "undecided"} /\ UNCHANGED <<sheet, entry, failures>>
    BY <1>14 DEF CheckFrozen, CheckUndecided, dbVars, bounds
  <2> QED BY <1>10, <2>1
<1> HIDE DEF End, Fail, GoOn, NextEmployee, Begin
<1> QED BY <1>2, <1>3, <1>4, <1>5, <1>6, <1>7, <1>8, <1>9, <1>11, <1>12, <1>13, <1>14,
           NoWriteFails
        DEF Moves, Handle, Generate, Classify, Decide

\* One caller at a time: its locals stay sound and the sheets agree.
LEMMA SerialSound ==
  ASSUME NEW only, Callers = {only}
  PROVE  Spec => [](Snapshot(only) /\ Agreed(only))
<1>1. only \in Callers
  OBVIOUS
<1>2. Init => Snapshot(only) /\ Agreed(only)
  BY <1>1 DEF Init, Snapshot, SyncSound, MarkSound, SheetSound, Agreed
<1>3. IInv /\ overtaken = {} /\ Snapshot(only) /\ Agreed(only) /\ [Next]_vars
      => (Snapshot(only) /\ Agreed(only))'
  <2> SUFFICES ASSUME IInv, overtaken = {}, Snapshot(only), Agreed(only), [Next]_vars
               PROVE  Snapshot(only)' /\ Agreed(only)'
    OBVIOUS
  <2>1. CASE UNCHANGED <<leave, sheet, entry, failures, pc, on, mem, overtaken>>
    BY <2>1 DEF Snapshot, SyncSound, MarkSound, SheetSound, Agreed, SyncsRows,
                Reclassifies, RowsMatch, Approved
  <2>2. CASE Moves(only)
    <3>1. SyncSound(only)' /\ MarkSound(only)' /\ SheetSound(only)'
      BY <1>1, <2>2, SyncSoundStep, MarkSoundStep, SheetSoundStep
    <3>2. Agreed(only)'
      BY <1>1, <2>2, AgreedStep
    <3> QED BY <3>1, <3>2 DEF Snapshot
  <2> QED BY <2>1, <2>2, NextMoves
<1> QED BY <1>2, <1>3, Invariance, NobodyOvertaken, PTL DEF Spec

\* One caller at a time: between calls, unless one died, every sheet tells what
\* the extra work table says.
THEOREM SerialSheetsAgree ==
  ASSUME NEW only, Callers = {only}
  PROVE  Spec => []SheetsAgree
<1>1. Agreed(only) => SheetsAgree
  BY DEF Agreed, SheetsAgree, SyncsRows, Reclassifies, RowsMatch
<1> QED BY <1>1, SerialSound, PTL

\* One caller at a time, dying or not: no step makes a decided row PENDING again.
THEOREM SerialDecisionsKept ==
  ASSUME NEW only, Callers = {only}
  PROVE  Spec => DecisionsKept
<1> DEFINE Kept == \A u \in Users, d \in Days :
                     /\ entry[u][d] # None /\ entry[u][d].status \in DecidedStatus
                     /\ entry'[u][d] # None /\ entry'[u][d].id = entry[u][d].id
                     => entry'[u][d].status \in DecidedStatus
<1>1. ASSUME NEW c \in Callers, IInv, Snapshot(c), Moves(c)
      PROVE  Kept
  <2>1. /\ entry \in [Users -> [Days -> EntryRow \cup {None}]] /\ Holds(c)
    BY <1>1 DEF IInv, Typed, CallersSound
  <2>2. ASSUME NEW d \in Days, NEW row,
               entry' = [entry EXCEPT ![on[c]][d] = row], on[c] \in Users,
               entry[on[c]][d] # None /\ entry[on[c]][d].status \in DecidedStatus
                 => row = None \/ row.status \in DecidedStatus
        PROVE  Kept
    <3>1. /\ entry'[on[c]][d] = row
          /\ \A e \in Days \ {d} : entry'[on[c]][e] = entry[on[c]][e]
          /\ \A u \in Users \ {on[c]} : entry'[u] = entry[u]
      BY <2>1, <2>2
    <3> QED BY <2>2, <3>1
  <2>3. CASE entry' = entry
    BY <2>3
  <2>4. CASE SyncDay(c) /\ ~Fail(c)
    <3>1. PICK d \in mem[c].left, row \in EntryRow : SyncWrites(c, d, row)
      BY <1>1, <2>4, SyncDayWrites
    <3> USE DEF SyncWrites
    <3>2. mem[c].rows[d] = entry[on[c]][d] /\ on[c] \in Users
      BY <1>1, <2>1, <3>1 DEF Snapshot, SyncSound, Holds
    <3>3. /\ d \in Days
          /\ entry[on[c]][d] # None => row.status = entry[on[c]][d].status
          /\ entry' = [entry EXCEPT ![on[c]][d] = row] \/ entry' = entry
      BY <3>1, <3>2
    <3> HIDE DEF SyncWrites
    <3> QED BY <2>2, <2>3, <3>2, <3>3
  <2>5. CASE DropDay(c)
    <3>1. PICK d \in Days : entry' = [entry EXCEPT ![on[c]][d] = None] /\ pc[c] = "sync"
      BY <1>1, <2>5, DropDayWrites
    <3>2. on[c] \in Users
      BY <2>1, <3>1 DEF Holds
    <3> QED BY <2>2, <3>1, <3>2
  <2>6. CASE MarkEntry(c) /\ ~Fail(c)
    <3>1. /\ entry' = [entry EXCEPT ![on[c]][mem[c].day] = mem[c].rows[mem[c].day]]
          /\ pc[c] = "mark"
      BY <2>6 DEF MarkEntry, SaveEntry
    <3>2. on[c] \in Users /\ mem[c].day \in Days
          /\ mem[c].rows[mem[c].day].status \in DecidedStatus
      BY <1>1, <2>1, <3>1 DEF Holds, Snapshot, MarkSound
    <3> QED BY <2>2, <3>1, <3>2
  <2> QED BY <1>1, <2>3, <2>4, <2>5, <2>6, Writers
<1>2. IInv /\ Snapshot(only) /\ [Next]_vars => [Kept]_vars
  <2> SUFFICES ASSUME IInv, Snapshot(only), [Next]_vars PROVE Kept \/ UNCHANGED vars
    OBVIOUS
  <2>1. CASE UNCHANGED <<leave, sheet, entry, failures, pc, on, mem, overtaken>>
    BY <2>1
  <2>2. CASE Moves(only)
    BY <1>1, <2>2
  <2> QED BY <2>1, <2>2, NextMoves
<1> QED BY <1>2, Invariance, SerialSound, PTL DEF Spec, DecisionsKept

-----------------------------------------------------------------------------
\* The sums of minutes are numbers.

AnyOf(s) == CHOOSE d \in s : TRUE
\* One round of the iteration that sums up the minutes of a set of days.
Round(rows, g, s) == IF s = {} THEN 0 ELSE rows[AnyOf(s)].minutes + g[s \ {AnyOf(s)}]

\* The subsets of up to n elements.
Small(S, n) == {s \in SUBSET S : Cardinality(s) <= n}

\* Without one of its elements a set is smaller.
LEMMA SmallerSet ==
  ASSUME NEW S, IsFiniteSet(S), NEW n \in Nat, NEW s \in Small(S, n), s # {}
  PROVE  /\ AnyOf(s) \in S /\ n # 0
         /\ s \ {AnyOf(s)} \in Small(S, n - 1)
<1>1. AnyOf(s) \in s /\ s \in SUBSET S /\ Cardinality(s) <= n
  BY DEF AnyOf, Small
<1>2. IsFiniteSet(s) /\ Cardinality(s) \in Nat /\ Cardinality(s) # 0
  BY <1>1, FS_Subset, FS_CardinalityType, FS_EmptySet
<1>3. Cardinality(s \ {AnyOf(s)}) = Cardinality(s) - 1
  BY <1>1, <1>2, FS_RemoveElement
<1> QED BY <1>1, <1>2, <1>3 DEF Small

\* The iteration that MapThenSumSet chooses exists: built up by the size of the
\* sets, of which the smallest that it does not reach cannot be.
LEMMA IterationExists ==
  ASSUME NEW rows, NEW S, IsFiniteSet(S), \A d \in S : rows[d].minutes \in Nat
  PROVE  \E g \in [SUBSET S -> Nat] : \A s \in SUBSET S : g[s] = Round(rows, g, s)
<1> DEFINE Reaches(n) == \E g \in [Small(S, n) -> Nat] :
                        \A s \in Small(S, n) : g[s] = Round(rows, g, s)
           Bad == {n \in Nat : ~Reaches(n)}
<1>1. Reaches(0)
  <2> DEFINE g == [s \in Small(S, 0) |-> 0]
  <2>1. \A s \in Small(S, 0) : s = {}
    BY SmallerSet
  <2>2. \A s \in Small(S, 0) : g[s] = Round(rows, g, s)
    BY <2>1 DEF Round
  <2>3. g \in [Small(S, 0) -> Nat]
    OBVIOUS
  <2> QED BY <2>2, <2>3
<1>2. ASSUME NEW n \in Nat, n # 0, Reaches(n - 1)
      PROVE  Reaches(n)
  <2>1. PICK g \in [Small(S, n - 1) -> Nat] :
          \A s \in Small(S, n - 1) : g[s] = Round(rows, g, s)
    BY <1>2
  <2> DEFINE h == [s \in Small(S, n) |-> Round(rows, g, s)]
  <2>2. ASSUME NEW s \in Small(S, n) PROVE h[s] \in Nat
    <3>1. CASE s = {}
      BY <3>1 DEF Round
    <3>2. CASE s # {}
      <4>1. AnyOf(s) \in S /\ s \ {AnyOf(s)} \in Small(S, n - 1)
        BY <3>2, SmallerSet
      <4>2. g[s \ {AnyOf(s)}] \in Nat /\ rows[AnyOf(s)].minutes \in Nat
        BY <2>1, <4>1
      <4> QED BY <3>2, <4>2 DEF Round
    <3> QED BY <3>1, <3>2
  <2>3. ASSUME NEW s \in Small(S, n - 1) PROVE s \in Small(S, n) /\ h[s] = g[s]
    <3>1. s \in Small(S, n)
      <4>1. s \in SUBSET S /\ Cardinality(s) <= n - 1
        BY DEF Small
      <4>2. Cardinality(s) \in Nat
        BY <4>1, FS_Subset, FS_CardinalityType
      <4> QED BY <1>2, <4>1, <4>2 DEF Small
    <3> QED BY <2>1, <3>1
  <2>4. ASSUME NEW s \in Small(S, n) PROVE h[s] = Round(rows, h, s)
    <3>1. CASE s = {}
      BY <3>1 DEF Round
    <3>2. CASE s # {}
      <4>1. s \ {AnyOf(s)} \in Small(S, n - 1)
        BY <3>2, SmallerSet
      <4>2. h[s \ {AnyOf(s)}] = g[s \ {AnyOf(s)}]
        BY <2>3, <4>1
      <4>3. h[s] = Round(rows, g, s)
        OBVIOUS
      <4> QED BY <4>2, <4>3 DEF Round
    <3> QED BY <3>1, <3>2
  <2>5. h \in [Small(S, n) -> Nat]
    BY <2>2
  <2> HIDE DEF h
  <2> QED BY <2>4, <2>5
<1>3. ASSUME NEW n \in Nat PROVE Reaches(n)
  <2>1. SUFFICES ASSUME Bad # {} PROVE FALSE
    OBVIOUS
  <2>2. PICK m \in Bad : \A k \in Bad : m <= k
    <3>1. Bad \in SUBSET Nat
      OBVIOUS
    <3> HIDE DEF Bad
    <3> QED BY <2>1, <3>1, LeastElement
  <2>3. m \in Nat /\ ~Reaches(m)
    OBVIOUS
  <2>4. m # 0
    BY <1>1, <2>3
  <2>5. m - 1 \in Nat /\ m - 1 \notin Bad
    <3>1. m - 1 \in Nat /\ ~(m <= m - 1)
      BY <2>3, <2>4
    <3> HIDE DEF Bad
    <3> QED BY <2>2, <3>1
  <2> HIDE DEF Reaches
  <2>6. Reaches(m - 1)
    BY <2>5
  <2> QED BY <1>2, <2>3, <2>4, <2>6
<1>4. Cardinality(S) \in Nat /\ Small(S, Cardinality(S)) = SUBSET S
  BY FS_Subset, FS_CardinalityType DEF Small
<1> QED BY <1>3, <1>4
\* Whatever the iteration is taken to be, it yields numbers.
LEMMA IterationTyped ==
  ASSUME NEW rows, NEW S, IsFiniteSet(S), \A d \in S : rows[d].minutes \in Nat,
         NEW g, \A s \in SUBSET S : g[s] = Round(rows, g, s)
  PROVE  g[S] \in Nat
<1> DEFINE Bad == {n \in Nat : \E s \in Small(S, n) : g[s] \notin Nat}
<1>1. SUFFICES ASSUME g[S] \notin Nat PROVE FALSE
  OBVIOUS
<1>2. Cardinality(S) \in Bad
  BY <1>1, FS_CardinalityType DEF Small
<1>3. PICK n \in Bad : \A m \in Bad : n <= m
  <2>1. Bad \in SUBSET Nat
    OBVIOUS
  <2> HIDE DEF Bad
  <2> QED BY <1>2, <2>1, LeastElement
<1>4. PICK s \in Small(S, n) : g[s] \notin Nat
  OBVIOUS
<1>5. g[s] = Round(rows, g, s)
  BY DEF Small
<1>6. s # {}
  BY <1>4, <1>5 DEF Round
<1>7. AnyOf(s) \in S /\ n # 0 /\ s \ {AnyOf(s)} \in Small(S, n - 1)
  BY <1>6, SmallerSet
<1>8. n - 1 \in Nat /\ n - 1 \notin Bad
  <2>1. n \in Nat /\ n - 1 \in Nat /\ ~(n <= n - 1)
    BY <1>7
  <2> HIDE DEF Bad
  <2> QED BY <1>3, <2>1
<1>9. g[s \ {AnyOf(s)}] \in Nat /\ rows[AnyOf(s)].minutes \in Nat
  BY <1>7, <1>8
<1> QED BY <1>4, <1>5, <1>6, <1>9 DEF Round

\* The sum of the minutes of a set of days is a number.
MinutesOf(rows, S) == MapThenSumSet(LAMBDA d : rows[d].minutes, S)

LEMMA SumIsNumber ==
  ASSUME NEW rows, NEW S, IsFiniteSet(S), \A d \in S : rows[d].minutes \in Nat
  PROVE  MinutesOf(rows, S) \in Nat
<1> DEFINE Iterates(g) == g = [s \in SUBSET S |-> Round(rows, g, s)]
<1>1. \E g : Iterates(g)
  <2>1. PICK g \in [SUBSET S -> Nat] : \A s \in SUBSET S : g[s] = Round(rows, g, s)
    BY IterationExists
  <2>2. g = [s \in SUBSET S |-> Round(rows, g, s)]
    BY <2>1
  <2> QED BY <2>2
<1>2. MinutesOf(rows, S) = (CHOOSE g : Iterates(g))[S]
  BY DEF MinutesOf, MapThenSumSet, MapThenFoldSet, Round, AnyOf
<1>3. Iterates(CHOOSE g : Iterates(g))
  BY <1>1
<1>4. ASSUME NEW g, Iterates(g) PROVE \A s \in SUBSET S : g[s] = Round(rows, g, s)
  BY <1>4
<1>5. ASSUME NEW g, Iterates(g) PROVE g[S] \in Nat
  BY <1>4, <1>5, IterationTyped
<1> HIDE DEF Iterates
<1> QED BY <1>2, <1>3, <1>5

\* The overtime of an employee's rows is a number.
LEMMA SumsAreNumbers == Sums \subseteq Nat
<1> SUFFICES ASSUME NEW rows \in [Days -> EntryRow \cup {None}]
             PROVE  Overtime(rows) \in Nat
  BY DEF Sums
<1> DEFINE S == {d \in Days : rows[d] # None /\ rows[d].status = "OVERTIME"}
<1>1. IsFiniteSet(S)
  BY FS_Subset, TimesheetsConstants
<1>2. \A d \in S : rows[d].minutes \in Nat
  BY DEF EntryRow
<1>3. Overtime(rows) = MinutesOf(rows, S)
  BY DEF Overtime, MinutesOf
<1> HIDE DEF S
<1> QED BY <1>1, <1>2, <1>3, SumIsNumber

\* The columns and the locals hold what their types allow: no sum of minutes, of
\* a sheet or held by a caller, is negative, whatever calls overlap or die.
THEOREM TypeCorrect == Spec => []TypeOK
<1>1. Typed(Sums) => TypeOK
  <2>1. SheetRow(Sums) \subseteq SheetRow(Nat)
    BY SumsAreNumbers DEF SheetRow
  <2>2. Locals(Sums) \subseteq Locals(Nat)
    BY <2>1, SumsAreNumbers DEF Locals
  <2>3. ASSUME NEW S, NEW T, NEW X, S \subseteq T
        PROVE  [X -> S] \subseteq [X -> T]
    BY <2>3
  <2>4. /\ [Users -> SheetRow(Sums) \cup {None}] \subseteq [Users -> SheetRow(Nat) \cup {None}]
        /\ [Callers -> Locals(Sums)] \subseteq [Callers -> Locals(Nat)]
    BY <2>1, <2>2, <2>3
  <2> QED BY <2>4 DEF Typed, TypeOK
<1> QED BY <1>1, TypesHold, PTL
==============================================================================
