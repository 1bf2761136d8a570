----------------------------- MODULE ShiftsProofs ------------------------------
(***************************************************************************)
(* Theorems about Shifts, for any number of shifts, days, calls and inputs: *)
(* first the assignments, by an inductive invariant; then the totals that  *)
(* Calculator makes of records and leaves.  These are folds over finite    *)
(* sets, reduced to their steps by an induction over the size of the sets. *)
(***************************************************************************)
EXTENDS Shifts, SequenceTheorems, FiniteSetTheorems, WellFoundedInduction, TLAPS

UserShift == [id : ShiftIds, from : Days, to : Nat \cup {None}]
AssignCall == [op : {"assign"}, new : UserShift, open : SUBSET Nat]
RemoveCall == [op : {"remove"}, id : ShiftIds, open : {{}}]
Assigns(c) == call[c] # None /\ call[c].op = "assign"
Removes(c) == call[c] # None /\ call[c].op = "remove"

Typed ==
  /\ assigned \in Seq(UserShift \cup {None})
  /\ call \in [Calls -> AssignCall \cup RemoveCall \cup {None}]

\* Unless two have crossed, an assign is alone, and the open rows it has yet to
\* close are the open rows there are.
Alone ==
  crossed \/ /\ \A b, c \in Calls : Assigns(b) /\ Assigns(c) => b = c
             /\ \A c \in Calls : Assigns(c) =>
                  \A i \in Rows : i \in call[c].open <=> assigned[i].to = None
             /\ OneOpen

\* What a remove will take with it was assigned after it had counted.
TakesOrphans ==
  \A c \in Calls : Removes(c) =>
    \A i \in Rows : assigned[i].id = call[c].id => call[c].id \in orphaned

IInv == Typed /\ Alone /\ TakesOrphans

LEMMA NaturalDays == Days \subseteq Nat /\ None \notin Nat
BY CalculatorConstants

LEMMA InitInv == Init => IInv
<1> SUFFICES ASSUME Init PROVE IInv
  OBVIOUS
<1>1. <<>> \in Seq(UserShift \cup {None}) /\ DOMAIN <<>> = {}
  OBVIOUS
<1>2. Rows = {} /\ \A c \in Calls : ~Assigns(c) /\ ~Removes(c)
  BY <1>1 DEF Init, Rows, Assigns, Removes
<1> QED BY <1>1, <1>2 DEF Init, IInv, Typed, Alone, OneOpen, TakesOrphans

-----------------------------------------------------------------------------
(* What each step does to the rows                                         *)

LEMMA RowTyped ==
  ASSUME Typed, NEW i \in Rows
  PROVE  assigned[i] \in UserShift /\ i \in DOMAIN assigned
BY DEF Typed, Rows

\* A row that is closed keeps its shift and its start, and ends not before it.
LEMMA ClosedTyped ==
  ASSUME NEW a \in UserShift, NEW new \in UserShift
  PROVE  /\ Closed(a, new) \in UserShift
         /\ Closed(a, new).id = a.id /\ Closed(a, new).from = a.from
         /\ Closed(a, new).to \in Nat
         /\ \A d \in Days : d < new.from => (a.from <= d => Closed(a, new).to >= d)
<1> DEFINE end == IF a.from > new.from - 1 THEN a.from ELSE new.from - 1
<1>1. a.from \in Nat /\ new.from \in Nat
  BY NaturalDays DEF UserShift
<1>2. end \in Nat /\ \A d \in Nat : d < new.from => (a.from <= d => end >= d)
  BY <1>1
<1>3. Closed(a, new) = [a EXCEPT !.to = end]
  BY DEF Closed
<1> HIDE DEF end
<1>4. /\ Closed(a, new) \in UserShift
      /\ Closed(a, new).id = a.id /\ Closed(a, new).from = a.from /\ Closed(a, new).to = end
  BY <1>2, <1>3 DEF UserShift
<1> QED BY <1>2, <1>4, NaturalDays

LEMMA CloseRows ==
  ASSUME Typed, NEW c \in Calls, NEW i \in DOMAIN assigned, AssignClose(c, i)
  PROVE  /\ assigned' \in Seq(UserShift \cup {None}) /\ DOMAIN assigned' = DOMAIN assigned
         /\ \A j \in DOMAIN assigned :
              assigned'[j] = IF j = i /\ i \in Rows THEN Closed(assigned[i], call[c].new)
                             ELSE assigned[j]
         /\ i \in Rows => assigned'[i] \in UserShift
         /\ call[c] \in AssignCall /\ i \in call[c].open
         /\ IF i \in Rows THEN call' = [call EXCEPT ![c].open = @ \ {i}]
            ELSE call' = [call EXCEPT ![c] = None]
<1>1. call[c] \in AssignCall
  BY DEF Typed, AssignClose, RemoveCall
<1>2. i \in Rows <=> assigned[i] # None
  BY DEF Rows
<1> DEFINE v == IF assigned[i] = None THEN assigned[i] ELSE Closed(assigned[i], call[c].new)
<1>3. v \in UserShift \cup {None} /\ (i \in Rows => v \in UserShift)
  BY <1>1, <1>2, RowTyped, ClosedTyped DEF AssignCall
<1>4. assigned' = [assigned EXCEPT ![i] = v]
  BY DEF AssignClose
<1> HIDE DEF v
<1>5. assigned' \in Seq(UserShift \cup {None}) /\ DOMAIN assigned' = DOMAIN assigned
  BY <1>3, <1>4 DEF Typed
<1>6. \A j \in DOMAIN assigned : assigned'[j] = IF j = i THEN v ELSE assigned[j]
  BY <1>4 DEF Typed
<1>7. IF i \in Rows THEN call' = [call EXCEPT ![c].open = @ \ {i}]
      ELSE call' = [call EXCEPT ![c] = None]
  <2>1. CASE i \in Rows
    <3>1. call' = [call EXCEPT ![c] = [call[c] EXCEPT !.open = call[c].open \ {i}]]
      BY <1>2, <2>1 DEF AssignClose
    <3> QED BY <2>1, <3>1
  <2>2. CASE i \notin Rows
    BY <1>2, <2>2 DEF AssignClose
  <2> QED BY <2>1, <2>2
<1> QED BY <1>1, <1>2, <1>3, <1>5, <1>6, <1>7 DEF AssignClose, v

LEMMA InsertRows ==
  ASSUME Typed, NEW c \in Calls, AssignInsert(c)
  PROVE  /\ call[c] \in AssignCall /\ call[c].open = {} /\ call' = [call EXCEPT ![c] = None]
         /\ assigned' \in Seq(UserShift \cup {None})
         /\ \/ assigned' = assigned
            \/ /\ Len(assigned) \in Nat /\ DOMAIN assigned = 1..Len(assigned)
               /\ DOMAIN assigned' = 1..(Len(assigned) + 1)
               /\ assigned'[Len(assigned) + 1] = call[c].new
               /\ \A j \in DOMAIN assigned : assigned'[j] = assigned[j]
<1>1. call[c] \in AssignCall
  BY DEF Typed, AssignInsert, RemoveCall
<1>2. call[c].new \in UserShift \cup {None}
  BY <1>1 DEF AssignCall
<1>3. assigned' = assigned \/ assigned' = Append(assigned, call[c].new)
  BY DEF AssignInsert
<1>4. ASSUME NEW S, NEW s \in Seq(S), NEW e \in S
      PROVE  /\ Append(s, e) \in Seq(S) /\ Len(s) \in Nat /\ DOMAIN s = 1..Len(s)
             /\ DOMAIN Append(s, e) = 1..(Len(s) + 1) /\ Append(s, e)[Len(s) + 1] = e
             /\ \A j \in 1..Len(s) : Append(s, e)[j] = s[j]
  OBVIOUS
<1>5. CASE assigned' = assigned
  BY <1>1, <1>5 DEF AssignInsert, Typed
<1>6. CASE assigned' = Append(assigned, call[c].new)
  BY <1>1, <1>2, <1>4, <1>6 DEF AssignInsert, Typed
<1> QED BY <1>3, <1>5, <1>6

LEMMA DeleteRows ==
  ASSUME Typed, NEW c \in Calls, RemoveDelete(c)
  PROVE  /\ Removes(c) /\ call' = [call EXCEPT ![c] = None]
         /\ assigned' \in Seq(UserShift \cup {None}) /\ DOMAIN assigned' = DOMAIN assigned
         /\ \A i \in DOMAIN assigned :
              assigned'[i] = IF i \in Rows /\ assigned[i].id = call[c].id THEN None ELSE assigned[i]
<1>1. Len(assigned) \in Nat /\ DOMAIN assigned = 1..Len(assigned)
      /\ \A i \in 1..Len(assigned) : assigned[i] \in UserShift \cup {None}
  BY DEF Typed
<1>2. assigned' = [i \in DOMAIN assigned |->
         IF i \in Rows /\ assigned[i].id = call[c].id THEN None ELSE assigned[i]]
  BY DEF RemoveDelete
<1>3. \A i \in DOMAIN assigned : assigned'[i] \in UserShift \cup {None}
  BY <1>1, <1>2
<1>4. assigned' \in [1..Len(assigned) -> UserShift \cup {None}]
  BY <1>1, <1>2, <1>3
<1>5. assigned' \in Seq(UserShift \cup {None})
  BY <1>1, <1>4, SeqDef
<1> QED BY <1>2, <1>5 DEF RemoveDelete, Removes

-----------------------------------------------------------------------------
(* The invariant                                                           *)

\* Steps that leave the rows alone and end a call, or none.
LEMMA QuietStep ==
  ASSUME IInv, UNCHANGED <<assigned, orphaned, crossed>>,
         \/ UNCHANGED call
         \/ \E c \in Calls : call' = [call EXCEPT ![c] = None]
  PROVE  IInv'
<1>1. call' \in [Calls -> AssignCall \cup RemoveCall \cup {None}]
      /\ \A c \in Calls : call'[c] = call[c] \/ call'[c] = None
  BY DEF IInv, Typed
<1>2. Rows' = Rows
  BY DEF Rows
<1>3. Alone'
  BY <1>1, <1>2 DEF IInv, Alone, Assigns, OneOpen
<1>4. TakesOrphans'
  BY <1>1, <1>2 DEF IInv, TakesOrphans, Removes
<1> QED BY <1>1, <1>3, <1>4 DEF IInv, Typed

LEMMA LoadStep ==
  ASSUME IInv, NEW c \in Calls, NEW s \in ShiftIds, NEW from \in Days, NEW to \in Days \cup {None},
         AssignLoad(c, s, from, to)
  PROVE  IInv'
<1> DEFINE r == [op |-> "assign", new |-> Assignment(s, from, to),
                 open |-> {i \in Rows : assigned[i].to = None}]
<1>1. Rows \subseteq Nat /\ Rows' = Rows
  <2>1. DOMAIN assigned = 1..Len(assigned) /\ Len(assigned) \in Nat
    BY DEF IInv, Typed
  <2>2. assigned' = assigned
    BY DEF AssignLoad
  <2> QED BY <2>1, <2>2 DEF Rows
<1>2. r \in AssignCall
  BY <1>1, NaturalDays DEF AssignCall, Assignment, UserShift
<1>3. /\ call' = [call EXCEPT ![c] = r] /\ call[c] = None
      /\ UNCHANGED <<assigned, orphaned>>
      /\ crossed' = (crossed \/ \E b \in Calls : Assigns(b))
  BY DEF AssignLoad, Assigns
<1>4. r.op = "assign" /\ r.open = {i \in Rows : assigned[i].to = None}
  OBVIOUS
<1> HIDE DEF r
<1>5. /\ call' \in [Calls -> AssignCall \cup RemoveCall \cup {None}]
      /\ \A b \in Calls : call'[b] = IF b = c THEN r ELSE call[b]
  BY <1>2, <1>3 DEF IInv, Typed
<1>6. Alone'
  <2> SUFFICES ASSUME ~crossed' PROVE Alone'
    BY DEF Alone
  <2>1. ~crossed /\ \A b \in Calls : ~Assigns(b)
    BY <1>3
  <2>2. \A b \in Calls : Assigns(b)' => b = c
    BY <1>5, <2>1 DEF Assigns
  <2>3. OneOpen'
    BY <1>1, <1>3, <2>1 DEF IInv, Alone, OneOpen
  <2>4. \A b \in Calls : Assigns(b)' => \A i \in Rows : i \in call'[b].open <=> assigned[i].to = None
    BY <1>4, <1>5, <2>2
  <2> QED BY <1>1, <1>3, <2>2, <2>3, <2>4 DEF Alone
<1>7. TakesOrphans'
  BY <1>1, <1>3, <1>4, <1>5 DEF IInv, TakesOrphans, Removes
<1> QED BY <1>3, <1>5, <1>6, <1>7 DEF IInv, Typed

LEMMA CloseStep ==
  ASSUME IInv, NEW c \in Calls, NEW i \in DOMAIN assigned, AssignClose(c, i)
  PROVE  IInv'
<1>1. Typed
  BY DEF IInv
<1>2. /\ assigned' \in Seq(UserShift \cup {None}) /\ DOMAIN assigned' = DOMAIN assigned
      /\ \A j \in DOMAIN assigned :
           assigned'[j] = IF j = i /\ i \in Rows THEN Closed(assigned[i], call[c].new)
                          ELSE assigned[j]
      /\ call[c] \in AssignCall /\ i \in call[c].open
      /\ IF i \in Rows THEN call' = [call EXCEPT ![c].open = @ \ {i}]
         ELSE call' = [call EXCEPT ![c] = None]
  BY <1>1, CloseRows
<1>3. UNCHANGED <<crossed, orphaned>> /\ Assigns(c)
  BY DEF AssignClose, Assigns
<1>4. CASE i \notin Rows
  <2>1. \A j \in DOMAIN assigned : assigned'[j] = assigned[j]
    BY <1>2, <1>4
  <2>2. assigned' = assigned
    BY <1>4 DEF AssignClose, Rows, IInv, Typed
  <2> QED BY <1>2, <1>3, <1>4, <2>2, QuietStep
<1>5. CASE i \in Rows
  <2> DEFINE r == [call[c] EXCEPT !.open = @ \ {i}]
  <2>1. r \in AssignCall /\ r.open = call[c].open \ {i} /\ r.op = "assign"
    BY <1>2 DEF AssignCall
  <2>2. call' = [call EXCEPT ![c] = r]
    BY <1>2, <1>5
  <2>3. /\ call' \in [Calls -> AssignCall \cup RemoveCall \cup {None}]
        /\ \A b \in Calls : call'[b] = IF b = c THEN r ELSE call[b]
    BY <1>1, <2>1, <2>2 DEF Typed
  <2> HIDE DEF r
  <2>4. assigned[i] \in UserShift /\ call[c].new \in UserShift
    BY <1>1, <1>2, <1>5, RowTyped DEF AssignCall
  <2>5. /\ Closed(assigned[i], call[c].new).id = assigned[i].id
        /\ Closed(assigned[i], call[c].new).to \in Nat
    BY <2>4, ClosedTyped
  <2>6. Rows' \subseteq Rows /\ \A j \in Rows' : assigned'[j].id = assigned[j].id
    BY <1>2, <1>5, <2>5 DEF Rows
  <2>7. \A j \in Rows' : assigned'[j].to = None <=> j # i /\ assigned[j].to = None
    BY <1>2, <1>5, <2>5, <2>6, NaturalDays DEF Rows
  <2>8. Alone'
    <3> SUFFICES ASSUME ~crossed' PROVE Alone'
      BY DEF Alone
    <3>1. \A b \in Calls : Assigns(b)' => b = c
      BY <1>3, <2>3 DEF IInv, Alone, Assigns
    <3>2. \A j \in Rows : j \in call[c].open <=> assigned[j].to = None
      BY <1>3 DEF IInv, Alone
    <3>3. \A j \in Rows' : j \in r.open <=> assigned'[j].to = None
      BY <2>1, <2>6, <2>7, <3>2
    <3>4. OneOpen'
      BY <1>3, <2>6, <2>7 DEF IInv, Alone, OneOpen
    <3> QED BY <2>3, <3>1, <3>3, <3>4 DEF Alone
  <2>9. TakesOrphans'
    BY <1>3, <2>1, <2>3, <2>6 DEF IInv, TakesOrphans, Removes
  <2> QED BY <1>2, <2>3, <2>8, <2>9 DEF IInv, Typed
<1> QED BY <1>4, <1>5

LEMMA InsertStep ==
  ASSUME IInv, NEW c \in Calls, AssignInsert(c)
  PROVE  IInv'
<1>1. Typed
  BY DEF IInv
<1>2. /\ call[c].open = {} /\ call' = [call EXCEPT ![c] = None]
      /\ assigned' \in Seq(UserShift \cup {None})
  BY <1>1, InsertRows
<1>3. /\ Assigns(c) /\ crossed' = crossed /\ orphaned \subseteq orphaned'
      /\ \A b \in Calls : Removes(b) /\ call[b].id = call[c].new.id => call[b].id \in orphaned'
  BY DEF AssignInsert, Assigns, Removes
<1>4. /\ call' \in [Calls -> AssignCall \cup RemoveCall \cup {None}]
      /\ \A b \in Calls : call'[b] = IF b = c THEN None ELSE call[b]
  BY <1>1, <1>2 DEF Typed
<1>5. \A j \in Rows' : \/ j \in Rows /\ assigned'[j] = assigned[j]
                       \/ j = Len(assigned) + 1 /\ assigned'[j] = call[c].new
  <2>1. CASE assigned' = assigned
    BY <2>1 DEF Rows
  <2>2. CASE assigned' # assigned
    <3>1. /\ Len(assigned) \in Nat /\ DOMAIN assigned = 1..Len(assigned)
          /\ DOMAIN assigned' = 1..(Len(assigned) + 1)
          /\ assigned'[Len(assigned) + 1] = call[c].new
          /\ \A j \in DOMAIN assigned : assigned'[j] = assigned[j]
      BY <1>1, <2>2, InsertRows
    <3>2. \A j \in DOMAIN assigned' : j \in DOMAIN assigned \/ j = Len(assigned) + 1
      BY <3>1
    <3> QED BY <3>1, <3>2 DEF Rows
  <2> QED BY <2>1, <2>2
<1>6. Alone'
  <2> SUFFICES ASSUME ~crossed' PROVE Alone'
    BY DEF Alone
  <2>1. \A b \in Calls : ~Assigns(b)'
    BY <1>3, <1>4 DEF IInv, Alone, Assigns
  <2>2. \A i \in Rows : assigned[i].to # None
    BY <1>2, <1>3 DEF IInv, Alone
  <2>3. OneOpen'
    BY <1>5, <2>2 DEF OneOpen
  <2> QED BY <2>1, <2>3 DEF Alone
<1>7. TakesOrphans'
  BY <1>3, <1>4, <1>5 DEF IInv, TakesOrphans, Removes
<1> QED BY <1>2, <1>4, <1>6, <1>7 DEF IInv, Typed

LEMMA CountStep ==
  ASSUME IInv, NEW c \in Calls, NEW s \in ShiftIds, RemoveCount(c, s)
  PROVE  IInv'
<1> DEFINE r == [op |-> "remove", id |-> s, open |-> {}]
<1>1. r \in RemoveCall /\ r.op = "remove" /\ r.id = s
  BY DEF RemoveCall
<1>2. /\ call' = [call EXCEPT ![c] = r] /\ UNCHANGED <<assigned, crossed>>
      /\ orphaned' = orphaned \ {s} /\ \A i \in Rows : assigned[i].id # s
  BY DEF RemoveCount
<1> HIDE DEF r
<1>3. /\ call' \in [Calls -> AssignCall \cup RemoveCall \cup {None}]
      /\ \A b \in Calls : call'[b] = IF b = c THEN r ELSE call[b]
  BY <1>1, <1>2 DEF IInv, Typed
<1>4. Rows' = Rows
  BY <1>2 DEF Rows
<1>5. \A b \in Calls : Assigns(b)' => Assigns(b) /\ call'[b] = call[b]
  BY <1>1, <1>3 DEF Assigns
<1>6. Alone'
  BY <1>2, <1>4, <1>5 DEF IInv, Alone, OneOpen
<1>7. TakesOrphans'
  BY <1>1, <1>2, <1>3, <1>4 DEF IInv, TakesOrphans, Removes
<1> QED BY <1>2, <1>3, <1>6, <1>7 DEF IInv, Typed

LEMMA DeleteStep ==
  ASSUME IInv, NEW c \in Calls, RemoveDelete(c)
  PROVE  IInv'
<1>1. /\ call' = [call EXCEPT ![c] = None]
      /\ assigned' \in Seq(UserShift \cup {None}) /\ DOMAIN assigned' = DOMAIN assigned
      /\ \A i \in DOMAIN assigned :
           assigned'[i] = IF i \in Rows /\ assigned[i].id = call[c].id THEN None ELSE assigned[i]
  BY DeleteRows DEF IInv
<1>2. UNCHANGED <<crossed, orphaned>>
  BY DEF RemoveDelete
<1>3. \A i \in Rows' : i \in Rows /\ assigned'[i] = assigned[i]
  BY <1>1 DEF Rows
<1>4. /\ call' \in [Calls -> AssignCall \cup RemoveCall \cup {None}]
      /\ \A b \in Calls : call'[b] = call[b] \/ call'[b] = None
  BY <1>1 DEF IInv, Typed
<1>5. Alone'
  BY <1>2, <1>3, <1>4 DEF IInv, Alone, Assigns, OneOpen
<1>6. TakesOrphans'
  BY <1>2, <1>3, <1>4 DEF IInv, TakesOrphans, Removes
<1> QED BY <1>1, <1>4, <1>5, <1>6 DEF IInv, Typed

-----------------------------------------------------------------------------
(* Theorems                                                                *)

\* What the table and the calls hold: unless two assigns crossed, one is alone
\* and closes what is open; a remove takes only what came after its count.
THEOREM Invariance == Spec => []IInv
<1>1. IInv /\ [Next]_vars => IInv'
  <2> SUFFICES ASSUME IInv, [Next]_vars PROVE IInv'
    OBVIOUS
  <2>1. CASE \/ \E s \in ShiftIds, definition \in Definitions : Define(s, definition)
             \/ \E type \in {"IN", "OUT"}, d \in Days, at \in Instants : Check(type, d, at)
             \/ \E r \in records, d \in Days, at \in Instants, type \in {"IN", "OUT"} :
                  \E late \in ManualLates \cup {r.late} : Patch(r, d, at, type, late)
             \/ \E l \in CalcLeave : CreateLeave(l)
             \/ UNCHANGED vars
    <3>1. UNCHANGED <<assigned, orphaned, crossed, call>>
      BY <2>1 DEF Define, Check, Patch, CreateLeave, vars
    <3> QED BY <3>1, QuietStep
  <2>2. ASSUME NEW c \in Calls, Fail(c) PROVE IInv'
    BY <2>2, QuietStep DEF Fail
  <2> QED BY <2>1, <2>2, LoadStep, CloseStep, InsertStep, CountStep, DeleteStep DEF Next
<1> QED BY <1>1, InitInv, PTL DEF Spec

\* An employee has one open assignment, unless two assigns had read the open
\* ones before either inserted its own (ShiftsService.assign).
THEOREM OneAssignmentIsOpen == Spec => []OneOpen
<1>1. IInv => OneOpen
  BY DEF IInv, Alone, OneOpen
<1> QED BY <1>1, Invariance, PTL

\* An assignment disappears only with a shift that nobody had it for when remove
\* counted (ShiftsService.remove).
THEOREM RemoveTakesOrphans == Spec => AssignmentsSurvive
<1>1. IInv /\ [Next]_vars =>
        [\A i \in Rows : assigned'[i] = None => assigned[i].id \in orphaned]_vars
  <2> SUFFICES ASSUME IInv, Next, NEW i \in Rows, assigned'[i] = None
               PROVE  assigned[i].id \in orphaned
    OBVIOUS
  <2>1. Typed /\ i \in DOMAIN assigned /\ assigned[i] # None /\ assigned' # assigned
    BY DEF IInv, Rows
  <2>2. ASSUME NEW c \in Calls, RemoveDelete(c) PROVE assigned[i].id \in orphaned
    BY <2>1, <2>2, DeleteRows DEF IInv, TakesOrphans
  <2>3. ASSUME NEW c \in Calls, AssignInsert(c) PROVE assigned[i].id \in orphaned
    BY <2>1, <2>3, InsertRows
  <2>4. ASSUME NEW c \in Calls, NEW j \in DOMAIN assigned, AssignClose(c, j)
        PROVE  assigned[i].id \in orphaned
    <3>1. None \notin UserShift
      BY ShiftsConstants DEF UserShift
    <3> QED BY <2>1, <2>4, <3>1, CloseRows
  <2> QED
    BY <2>1, <2>2, <2>3, <2>4
    DEF Next, Define, AssignLoad, RemoveCount, Fail, Check, Patch, CreateLeave
<1> QED BY <1>1, Invariance, PTL DEF Spec, AssignmentsSurvive

\* The rows that cover a day; the shifts on it are those of the latest of them.
Covering(rows, d) ==
  {i \in DOMAIN rows : /\ rows[i] # None
                       /\ rows[i].from <= d /\ (rows[i].to = None \/ rows[i].to >= d)}
Latest(rows, d) == {i \in Covering(rows, d) : \A j \in Covering(rows, d) : rows[j].from <= rows[i].from}

LEMMA ShiftsOfLatest ==
  ASSUME NEW rows, NEW table, NEW d
  PROVE  ShiftForDate({[shift |-> table[rows[i].id], from |-> rows[i].from, to |-> rows[i].to] :
                         i \in {j \in DOMAIN rows : rows[j] # None}}, d)
         = {table[rows[i].id] : i \in Latest(rows, d)}
<1> DEFINE Row(i) == [shift |-> table[rows[i].id], from |-> rows[i].from, to |-> rows[i].to]
           All == {Row(i) : i \in {j \in DOMAIN rows : rows[j] # None}}
<1>1. \A i : Row(i).shift = table[rows[i].id] /\ Row(i).from = rows[i].from
             /\ Row(i).to = rows[i].to
  OBVIOUS
<1> HIDE DEF Row
<1>2. Effective(All, d) = {Row(i) : i \in Covering(rows, d)}
  BY <1>1 DEF Effective, Covering
<1>3. {b \in Effective(All, d) : \A e \in Effective(All, d) : e.from <= b.from}
        = {Row(i) : i \in Latest(rows, d)}
  <2>1. ASSUME NEW i \in Covering(rows, d)
        PROVE  (\A e \in Effective(All, d) : e.from <= Row(i).from) <=> i \in Latest(rows, d)
    BY <1>1, <1>2 DEF Latest
  <2> HIDE DEF All
  <2> QED BY <1>2, <2>1 DEF Latest
<1>4. ShiftForDate(All, d) = {table[rows[i].id] : i \in Latest(rows, d)}
  <2> HIDE DEF All
  <2>1. ShiftForDate(All, d) = {a.shift : a \in {Row(i) : i \in Latest(rows, d)}}
    BY <1>3 DEF ShiftForDate
  <2> QED BY <1>1, <2>1
<1> QED BY <1>4 DEF Row

\* Rows that cover a day before and after with the same shift and start: the day's
\* shifts stay.
LEMMA SameCover ==
  ASSUME NEW d, shifts' = shifts, Covering(assigned', d) = Covering(assigned, d),
         \A i \in Covering(assigned, d) : assigned'[i].id = assigned[i].id
                                          /\ assigned'[i].from = assigned[i].from
  PROVE  ShiftsOn(d)' = ShiftsOn(d)
<1>1. Latest(assigned', d) = Latest(assigned, d)
  BY DEF Latest
<1>2. ShiftsOn(d) = {shifts[assigned[i].id] : i \in Latest(assigned, d)}
  BY ShiftsOfLatest DEF ShiftsOn, Assignments, Rows
<1>3. ShiftsOn(d)' = {shifts'[assigned'[i].id] : i \in Latest(assigned', d)}
  BY ShiftsOfLatest DEF ShiftsOn, Assignments, Rows
<1> QED BY <1>1, <1>2, <1>3 DEF Latest

\* Closing an open row ends it no earlier than the day before the new assignment.
LEMMA CloseKeepsPast ==
  ASSUME IInv, ~crossed, NEW c \in Calls, NEW i \in DOMAIN assigned, AssignClose(c, i),
         NEW d \in Days, d < call[c].new.from
  PROVE  ShiftsOn(d)' = ShiftsOn(d)
<1>1. Typed /\ shifts' = shifts /\ Assigns(c)
  BY DEF IInv, AssignClose, Assigns
<1>2. /\ DOMAIN assigned' = DOMAIN assigned
      /\ \A j \in DOMAIN assigned :
           assigned'[j] = IF j = i /\ i \in Rows THEN Closed(assigned[i], call[c].new)
                          ELSE assigned[j]
      /\ i \in Rows => assigned'[i] \in UserShift
      /\ call[c] \in AssignCall /\ i \in call[c].open
  BY <1>1, CloseRows
<1>3. i \in Rows => assigned[i].to = None
  BY <1>1, <1>2 DEF IInv, Alone
<1>4. i \in Rows => /\ assigned'[i].id = assigned[i].id /\ assigned'[i].from = assigned[i].from
                    /\ assigned[i].from <= d => assigned'[i].to >= d
  BY <1>1, <1>2, RowTyped, ClosedTyped DEF AssignCall
<1>5. Rows' = Rows
  BY <1>2, ShiftsConstants DEF Rows, UserShift
<1>6. ASSUME NEW j \in Rows
      PROVE  /\ assigned'[j].id = assigned[j].id /\ assigned'[j].from = assigned[j].from
             /\ j \in Covering(assigned', d) <=> j \in Covering(assigned, d)
  <2>1. CASE j = i
    <3>1. assigned'[i] # None /\ assigned[i] # None
      BY <1>5, <2>1 DEF Rows
    <3> QED BY <1>2, <1>3, <1>4, <2>1, <3>1 DEF Covering
  <2>2. CASE j # i
    BY <1>2, <1>5, <2>2 DEF Covering, Rows
  <2> QED BY <2>1, <2>2
<1>7. Covering(assigned', d) = Covering(assigned, d)
  BY <1>2, <1>5, <1>6 DEF Covering, Rows
<1> QED BY <1>1, <1>6, <1>7, SameCover DEF Covering, Rows

\* The new assignment covers no day before it begins.
LEMMA InsertKeepsPast ==
  ASSUME IInv, NEW c \in Calls, AssignInsert(c), NEW d \in Days, d < call[c].new.from
  PROVE  ShiftsOn(d)' = ShiftsOn(d)
<1>1. Typed /\ shifts' = shifts
  BY DEF IInv, AssignInsert
<1>2. CASE assigned' = assigned
  BY <1>1, <1>2, SameCover DEF Covering, Rows
<1>3. CASE assigned' # assigned
  <2>1. /\ Len(assigned) \in Nat /\ DOMAIN assigned = 1..Len(assigned)
        /\ DOMAIN assigned' = 1..(Len(assigned) + 1)
        /\ assigned'[Len(assigned) + 1] = call[c].new
        /\ \A j \in DOMAIN assigned : assigned'[j] = assigned[j]
        /\ call[c] \in AssignCall
    BY <1>1, <1>3, InsertRows
  <2>2. call[c].new.from \in Nat /\ d \in Nat
    BY <2>1, NaturalDays DEF AssignCall, UserShift
  <2>3. \A j \in DOMAIN assigned' : j \in DOMAIN assigned \/ j = Len(assigned) + 1
    BY <2>1
  <2>4. \A j \in DOMAIN assigned : j \in DOMAIN assigned'
    BY <2>1
  <2>5. Covering(assigned', d) = Covering(assigned, d)
    <3>1. ASSUME NEW j \in Covering(assigned', d) PROVE j \in Covering(assigned, d)
      BY <2>1, <2>2, <2>3, <3>1 DEF Covering, Rows
    <3>2. ASSUME NEW j \in Covering(assigned, d) PROVE j \in Covering(assigned', d)
      BY <2>1, <2>4, <3>2 DEF Covering, Rows
    <3> QED BY <3>1, <3>2
  <2> QED BY <1>1, <2>1, <2>5, SameCover DEF Covering, Rows
<1> QED BY <1>2, <1>3

\* Days before a new assignment keep their shift, at each step of an assign that
\* crossed no other (ShiftsService.assign closes, then inserts).
THEOREM AssigningKeepsPast == Spec => AssignKeepsPast
<1> DEFINE Keeps == \A c \in Calls :
                      ~crossed /\ call[c] # None /\ call[c].op = "assign" /\ call'[c] # call[c] =>
                      \A d \in Days : d < call[c].new.from => ShiftsOn(d)' = ShiftsOn(d)
<1>1. IInv /\ [Next]_vars => [Keeps]_vars
  <2> SUFFICES ASSUME IInv, Next, NEW c \in Calls,
                      ~crossed, call[c] # None, call[c].op = "assign", call'[c] # call[c],
                      NEW d \in Days, d < call[c].new.from
               PROVE  ShiftsOn(d)' = ShiftsOn(d)
    OBVIOUS
  <2>1. call \in [Calls -> AssignCall \cup RemoveCall \cup {None}]
    BY DEF IInv, Typed
  <2>2. ASSUME NEW b \in Calls, NEW v, call' = [call EXCEPT ![b] = v] PROVE b = c
    BY <2>1, <2>2
  <2>3. ASSUME NEW b \in Calls, NEW i \in DOMAIN assigned, AssignClose(b, i)
        PROVE  ShiftsOn(d)' = ShiftsOn(d)
    <3>1. b = c
      BY <2>2, <2>3 DEF AssignClose
    <3> QED BY <2>3, <3>1, CloseKeepsPast
  <2>4. ASSUME NEW b \in Calls, AssignInsert(b)
        PROVE  ShiftsOn(d)' = ShiftsOn(d)
    <3>1. b = c
      BY <2>2, <2>4 DEF AssignInsert
    <3> QED BY <2>4, <3>1, InsertKeepsPast
  <2>5. ASSUME NEW b \in Calls, Fail(b)
        PROVE  ShiftsOn(d)' = ShiftsOn(d)
    BY <2>5, SameCover DEF Fail, Covering, Rows
  <2>6. ASSUME NEW b \in Calls, RemoveDelete(b) PROVE FALSE
    <3>1. b = c
      BY <2>2, <2>6 DEF RemoveDelete
    <3> QED BY <2>6, <3>1 DEF RemoveDelete
  <2>7. ASSUME NEW b \in Calls, NEW s \in ShiftIds, RemoveCount(b, s) PROVE FALSE
    <3>1. b = c
      BY <2>2, <2>7 DEF RemoveCount
    <3> QED BY <2>7, <3>1 DEF RemoveCount
  <2>8. ASSUME NEW b \in Calls, NEW s \in ShiftIds, NEW from \in Days,
               NEW to \in Days \cup {None}, AssignLoad(b, s, from, to)
        PROVE  FALSE
    <3>1. b = c
      BY <2>2, <2>8 DEF AssignLoad
    <3> QED BY <2>8, <3>1 DEF AssignLoad
  <2> QED BY <2>3, <2>4, <2>5, <2>6, <2>7, <2>8
          DEF Next, Define, Check, Patch, CreateLeave
<1> QED BY <1>1, Invariance, PTL DEF Spec, AssignKeepsPast

-----------------------------------------------------------------------------
(* Folds.  The sums of the totals and the walk over the records are folds  *)
(* over finite sets: what each takes next, and what it makes of it.        *)

\* A set of numbers has its least element.
LEMMA LeastElement ==
  ASSUME NEW S \in SUBSET Nat, S # {}
  PROVE  \E n \in S : \A m \in S : n <= m
<1> DEFINE Less == {p \in Nat \X Nat : p[1] < p[2]}
<1>1. IsWellFoundedOn(Less, Nat)
  BY NatLessThanWellFounded DEF OpToRel
<1>2. PICK x \in S : \A y \in S : ~(<<y, x>> \in Less)
  BY <1>1, WFMin
<1>3. ASSUME NEW y \in S PROVE x =< y
  <2>1. x \in Nat /\ y \in Nat /\ <<y, x>> \in Nat \X Nat
    OBVIOUS
  <2>2. <<y, x>>[1] = y /\ <<y, x>>[2] = x
    OBVIOUS
  <2>3. ~(y < x)
    BY <1>2, <2>1, <2>2
  <2> QED BY <2>1, <2>3
<1> QED BY <1>3

\* Induction over the subsets of a finite set, for a set of good ones.
LEMMA SetInduction ==
  ASSUME NEW S, IsFiniteSet(S), NEW good,
         \A s \in SUBSET S : (\A x \in s : s \ {x} \in good) => s \in good
  PROVE  \A s \in SUBSET S : s \in good
<1> DEFINE Bad == {n \in Nat : \E s \in SUBSET S : Cardinality(s) = n /\ s \notin good}
<1>1. SUFFICES ASSUME NEW s \in SUBSET S, s \notin good PROVE FALSE
  OBVIOUS
<1>2. \A t \in SUBSET S : IsFiniteSet(t) /\ Cardinality(t) \in Nat
  BY FS_Subset, FS_CardinalityType
<1>3. Cardinality(s) \in Bad
  BY <1>1, <1>2
<1>4. PICK n \in Bad : \A m \in Bad : n <= m
  <2>1. Bad \in SUBSET Nat
    OBVIOUS
  <2> HIDE DEF Bad
  <2> QED BY <1>3, <2>1, LeastElement
<1>5. PICK t \in SUBSET S : Cardinality(t) = n /\ t \notin good
  OBVIOUS
<1>6. PICK x \in t : t \ {x} \notin good
  BY <1>5
<1>7. Cardinality(t \ {x}) = n - 1 /\ t \ {x} \in SUBSET S
  BY <1>2, <1>5, FS_RemoveElement
<1>8. n - 1 \in Nat /\ n \in Nat
  BY <1>2, <1>7
<1>9. n - 1 \in Bad
  BY <1>6, <1>7, <1>8
<1> HIDE DEF Bad
<1> QED BY <1>4, <1>8, <1>9

\* A fold takes from each set s of elements of W the element pick[s], and goes on
\* from what it has made of the others, a value of V.
Folds(W, V, base, next, pick) ==
  /\ IsFiniteSet(W) /\ base \in V /\ next \in [W -> [V -> V]]
  /\ \A s \in SUBSET W : s # {} => pick[s] \in s

Round(base, next, pick, g, s) ==
  IF s = {} THEN base ELSE next[pick[s]][g[s \ {pick[s]}]]

\* The subsets of up to n elements.
Small(S, n) == {s \in SUBSET S : Cardinality(s) <= n}

\* Without one of its elements a set is smaller.
LEMMA SmallerSet ==
  ASSUME NEW S, IsFiniteSet(S), NEW n \in Nat, NEW s \in Small(S, n), NEW x \in s
  PROVE  n # 0 /\ s \ {x} \in Small(S, n - 1)
<1>1. s \in SUBSET S /\ Cardinality(s) <= n
  BY DEF Small
<1>2. IsFiniteSet(s) /\ Cardinality(s) \in Nat /\ Cardinality(s) # 0
  BY <1>1, FS_Subset, FS_CardinalityType, FS_EmptySet
<1>3. Cardinality(s \ {x}) = Cardinality(s) - 1
  BY <1>1, <1>2, FS_RemoveElement
<1> QED BY <1>1, <1>2, <1>3 DEF Small

Iterated(V, base, next, pick, S) ==
  \E g \in [SUBSET S -> V] : \A s \in SUBSET S : g[s] = Round(base, next, pick, g, s)

\* The function of the subsets that a fold iterates to exists: it is built up by
\* the size of the sets.
LEMMA FoldExists ==
  ASSUME NEW W, NEW V, NEW base, NEW next, NEW pick, Folds(W, V, base, next, pick),
         NEW S \in SUBSET W
  PROVE  Iterated(V, base, next, pick, S)
<1> USE DEF Folds
<1> DEFINE Reaches(n) == \E g \in [Small(S, n) -> V] :
                        \A s \in Small(S, n) : g[s] = Round(base, next, pick, g, s)
           Bad == {n \in Nat : ~Reaches(n)}
<1>0. IsFiniteSet(S) /\ Cardinality(S) \in Nat
  BY FS_Subset, FS_CardinalityType
<1>1. Reaches(0)
  <2> DEFINE g == [s \in Small(S, 0) |-> base]
  <2>1. \A s \in Small(S, 0) : s = {}
    BY <1>0, SmallerSet
  <2>2. \A s \in Small(S, 0) : g[s] = Round(base, next, pick, g, s)
    BY <2>1 DEF Round
  <2>3. g \in [Small(S, 0) -> V]
    OBVIOUS
  <2> QED BY <2>2, <2>3
<1>2. ASSUME NEW n \in Nat, n # 0, Reaches(n - 1)
      PROVE  Reaches(n)
  <2>1. PICK g \in [Small(S, n - 1) -> V] :
          \A s \in Small(S, n - 1) : g[s] = Round(base, next, pick, g, s)
    BY <1>2
  <2> DEFINE h == [s \in Small(S, n) |-> Round(base, next, pick, g, s)]
  <2>2. ASSUME NEW s \in Small(S, n), s # {}
        PROVE  pick[s] \in s /\ pick[s] \in W /\ s \ {pick[s]} \in Small(S, n - 1)
    <3>1. s \in SUBSET S
      BY DEF Small
    <3>2. pick[s] \in s
      BY <2>2, <3>1
    <3> QED BY <1>0, <3>1, <3>2, SmallerSet
  <2>3. ASSUME NEW s \in Small(S, n) PROVE h[s] \in V
    <3>1. CASE s = {}
      BY <3>1 DEF Round
    <3>2. CASE s # {}
      <4>1. g[s \ {pick[s]}] \in V /\ next[pick[s]] \in [V -> V]
        BY <2>1, <2>2, <3>2
      <4>2. h[s] = next[pick[s]][g[s \ {pick[s]}]]
        BY <3>2 DEF Round
      <4> HIDE DEF h
      <4> QED BY <4>1, <4>2
    <3> QED BY <3>1, <3>2
  <2>4. ASSUME NEW s \in Small(S, n - 1) PROVE s \in Small(S, n) /\ h[s] = g[s]
    <3>1. s \in Small(S, n)
      <4>1. s \in SUBSET S /\ Cardinality(s) <= n - 1
        BY DEF Small
      <4>2. Cardinality(s) \in Nat
        BY <1>0, <4>1, FS_Subset, FS_CardinalityType
      <4> QED BY <1>2, <4>1, <4>2 DEF Small
    <3> QED BY <2>1, <3>1
  <2>5. ASSUME NEW s \in Small(S, n) PROVE h[s] = Round(base, next, pick, h, s)
    <3>1. CASE s = {}
      BY <3>1 DEF Round
    <3>2. CASE s # {}
      <4>1. h[s \ {pick[s]}] = g[s \ {pick[s]}]
        BY <2>2, <2>4, <3>2
      <4>2. h[s] = Round(base, next, pick, g, s)
        OBVIOUS
      <4> QED BY <4>1, <4>2 DEF Round
    <3> QED BY <3>1, <3>2
  <2>6. h \in [Small(S, n) -> V]
    BY <2>3
  <2> HIDE DEF h
  <2> QED BY <2>5, <2>6
<1>3. ASSUME NEW n \in Nat PROVE Reaches(n)
  <2>1. SUFFICES ASSUME Bad # {} PROVE FALSE
    OBVIOUS
  <2>2. PICK m \in Bad : \A k \in Bad : m <= k
    <3>1. Bad \in SUBSET Nat
      OBVIOUS
    <3> HIDE DEF Bad
    <3> QED BY <2>1, <3>1, LeastElement
  <2>3. m \in Nat /\ ~Reaches(m)
    OBVIOUS
  <2>4. m # 0
    BY <1>1, <2>3
  <2>5. m - 1 \in Nat /\ m - 1 \notin Bad
    <3>1. m - 1 \in Nat /\ ~(m <= m - 1)
      BY <2>3, <2>4
    <3> HIDE DEF Bad
    <3> QED BY <2>2, <3>1
  <2> HIDE DEF Reaches
  <2>6. Reaches(m - 1)
    BY <2>5
  <2> QED BY <1>2, <2>3, <2>4, <2>6
<1>4. Small(S, Cardinality(S)) = SUBSET S
  BY <1>0, FS_Subset, FS_CardinalityType DEF Small
<1> QED BY <1>0, <1>3, <1>4 DEF Iterated

Fold(base, next, pick, S) ==
  (CHOOSE g : g = [s \in SUBSET S |-> Round(base, next, pick, g, s)])[S]

\* What an iteration of the fold does, from values that are of V.
Follows(V, base, next, pick, g, S) ==
  \A s \in SUBSET S :
    /\ s = {} => g[s] = base
    /\ s # {} /\ g[s \ {pick[s]}] \in V => g[s] = next[pick[s]][g[s \ {pick[s]}]]

SameOn(V, g, h, S) == \A s \in SUBSET S : g[s] \in V /\ g[s] = h[s]

\* Two iterations agree on the subsets they share.
LEMMA FoldUnique ==
  ASSUME NEW W, NEW V, NEW base, NEW next, NEW pick, Folds(W, V, base, next, pick),
         NEW S \in SUBSET W, NEW T \in SUBSET W, NEW g, NEW h,
         Follows(V, base, next, pick, g, S), Follows(V, base, next, pick, h, T)
  PROVE  SameOn(V, g, h, S \cap T)
<1> DEFINE good == {s \in SUBSET (S \cap T) : g[s] \in V /\ g[s] = h[s]}
<1>1. IsFiniteSet(S \cap T)
  BY FS_Subset DEF Folds
<1>2. ASSUME NEW s \in SUBSET (S \cap T), \A x \in s : s \ {x} \in good
      PROVE  s \in good
  <2>1. s \in SUBSET S /\ s \in SUBSET T /\ s \in SUBSET W
    OBVIOUS
  <2>2. CASE s = {}
    BY <2>1, <2>2 DEF Follows, Folds
  <2>3. CASE s # {}
    <3>1. pick[s] \in s /\ pick[s] \in W /\ next[pick[s]] \in [V -> V]
      BY <2>1, <2>3 DEF Folds
    <3> DEFINE t == s \ {pick[s]}
    <3>2. g[t] \in V /\ g[t] = h[t]
      BY <1>2, <3>1
    <3>3. g[s] = next[pick[s]][g[t]] /\ h[s] = next[pick[s]][h[t]]
      BY <2>1, <2>3, <3>2 DEF Follows
    <3> QED BY <3>1, <3>2, <3>3
  <2> QED BY <2>2, <2>3
<1> HIDE DEF good
<1>3. \A s \in SUBSET (S \cap T) : s \in good
  BY <1>1, <1>2, SetInduction
<1> QED BY <1>3 DEF good, SameOn

\* The fold over a set is what an iteration that follows it makes of the set.
FoldedBy(V, base, next, pick, g, S) ==
  /\ Follows(V, base, next, pick, g, S) /\ Fold(base, next, pick, S) = g[S]
  /\ g \in [SUBSET S -> V]
Folded(V, base, next, pick, S) == \E g : FoldedBy(V, base, next, pick, g, S)

LEMMA FoldFollows ==
  ASSUME NEW W, NEW V, NEW base, NEW next, NEW pick, Folds(W, V, base, next, pick),
         NEW S \in SUBSET W
  PROVE  Folded(V, base, next, pick, S)
<1> DEFINE Iterates(g) == g = [s \in SUBSET S |-> Round(base, next, pick, g, s)]
           c == CHOOSE g : Iterates(g)
<1>1. \E g : Iterates(g)
  <2>1. PICK g \in [SUBSET S -> V] : \A s \in SUBSET S : g[s] = Round(base, next, pick, g, s)
    <3>1. Iterated(V, base, next, pick, S)
      BY FoldExists
    <3> QED BY <3>1 DEF Iterated
  <2>2. g = [s \in SUBSET S |-> Round(base, next, pick, g, s)]
    BY <2>1
  <2> QED BY <2>2
<1>2. Iterates(c)
  BY <1>1
<1>3. Fold(base, next, pick, S) = c[S]
  BY DEF Fold
<1>4. ASSUME NEW g, Iterates(g)
      PROVE  \A s \in SUBSET S : g[s] = Round(base, next, pick, g, s)
  BY <1>4
<1>5. ASSUME NEW g, Iterates(g)
      PROVE  Follows(V, base, next, pick, g, S) /\ g = [s \in SUBSET S |-> g[s]]
  <2>1. g = [s \in SUBSET S |-> g[s]]
    BY <1>5
  <2> QED BY <1>4, <1>5, <2>1 DEF Follows, Round
<1> HIDE DEF Iterates, c
<1>6. Follows(V, base, next, pick, c, S) /\ c = [s \in SUBSET S |-> c[s]]
  BY <1>2, <1>5
<1>7. SameOn(V, c, c, S \cap S)
  BY <1>6, FoldUnique
<1>8. c \in [SUBSET S -> V]
  BY <1>6, <1>7 DEF SameOn
<1> QED BY <1>3, <1>6, <1>8 DEF Folded, FoldedBy

\* What follows the fold yields its value.
LEMMA FoldValue ==
  ASSUME NEW W, NEW V, NEW base, NEW next, NEW pick, Folds(W, V, base, next, pick),
         NEW S \in SUBSET W, NEW g, Follows(V, base, next, pick, g, S), NEW s \in SUBSET S
  PROVE  g[s] = Fold(base, next, pick, s) /\ Fold(base, next, pick, s) \in V
<1>1. s \in SUBSET W /\ s \in SUBSET (S \cap s) /\ s \in SUBSET s
  OBVIOUS
<1>2. Folded(V, base, next, pick, s)
  BY <1>1, FoldFollows
<1>3. PICK h : FoldedBy(V, base, next, pick, h, s)
  BY <1>2 DEF Folded
<1>4. Follows(V, base, next, pick, h, s) /\ Fold(base, next, pick, s) = h[s]
  BY <1>3 DEF FoldedBy
<1>5. SameOn(V, g, h, S \cap s)
  BY <1>1, <1>4, FoldUnique
<1> QED BY <1>1, <1>4, <1>5 DEF SameOn

LEMMA FoldsTo ==
  ASSUME NEW W, NEW V, NEW base, NEW next, NEW pick, Folds(W, V, base, next, pick),
         NEW S \in SUBSET W, NEW g, Follows(V, base, next, pick, g, S)
  PROVE  g[S] = Fold(base, next, pick, S)
<1>1. S \in SUBSET S
  OBVIOUS
<1> QED BY <1>1, FoldValue

GoesOn(V, base, next, pick, S) ==
  /\ Fold(base, next, pick, S) \in V
  /\ S = {} => Fold(base, next, pick, S) = base
  /\ S # {} => /\ pick[S] \in S
               /\ Fold(base, next, pick, S)
                    = next[pick[S]][Fold(base, next, pick, S \ {pick[S]})]

\* A fold over a set goes on from the fold over the others.
LEMMA FoldStep ==
  ASSUME NEW W, NEW V, NEW base, NEW next, NEW pick, Folds(W, V, base, next, pick),
         NEW S \in SUBSET W
  PROVE  GoesOn(V, base, next, pick, S)
<1>0. Folded(V, base, next, pick, S)
  BY FoldFollows
<1>1. PICK g : FoldedBy(V, base, next, pick, g, S)
  BY <1>0 DEF Folded
<1> USE DEF FoldedBy
<1>2. S \in SUBSET S /\ S \ {pick[S]} \in SUBSET S
  OBVIOUS
<1>3. g[S \ {pick[S]}] = Fold(base, next, pick, S \ {pick[S]}) /\ g[S \ {pick[S]}] \in V
  BY <1>1, <1>2, FoldValue
<1>4. S # {} => pick[S] \in S
  BY DEF Folds
<1>5. S = {} => g[S] = base
  BY <1>1, <1>2 DEF Follows
<1>6. S # {} => g[S] = next[pick[S]][g[S \ {pick[S]}]]
  BY <1>1, <1>2, <1>3 DEF Follows
<1>7. g[S] \in V
  BY <1>1, <1>2
<1> QED BY <1>1, <1>3, <1>4, <1>5, <1>6, <1>7 DEF GoesOn

-----------------------------------------------------------------------------
(* Sums                                                                    *)

AnyOf(s) == CHOOSE x \in s : TRUE
Adds(W, v) == [x \in W |-> [n \in Nat |-> v[x] + n]]
Picks(W) == [s \in SUBSET W |-> AnyOf(s)]

\* The sum of v over a set of elements of W.
Total(W, v, S) == Fold(0, Adds(W, v), Picks(W), S)

Summable(W, v) == IsFiniteSet(W) /\ \A x \in W : v[x] \in Nat

LEMMA SumFolds ==
  ASSUME NEW W, NEW v, Summable(W, v) PROVE Folds(W, Nat, 0, Adds(W, v), Picks(W))
<1>1. Adds(W, v) \in [W -> [Nat -> Nat]]
  BY DEF Adds, Summable
<1>2. \A s \in SUBSET W : s # {} => Picks(W)[s] \in s
  BY DEF Picks, AnyOf
<1> QED BY <1>1, <1>2 DEF Folds, Summable

LEMMA TotalStep ==
  ASSUME NEW W, NEW v, Summable(W, v), NEW S \in SUBSET W
  PROVE  /\ Total(W, v, S) \in Nat
         /\ S = {} => Total(W, v, S) = 0
         /\ S # {} => /\ AnyOf(S) \in S
                      /\ Total(W, v, S) = v[AnyOf(S)] + Total(W, v, S \ {AnyOf(S)})
<1>1. Folds(W, Nat, 0, Adds(W, v), Picks(W))
  BY SumFolds
<1>2. ASSUME NEW T \in SUBSET W PROVE GoesOn(Nat, 0, Adds(W, v), Picks(W), T)
  BY <1>1, FoldStep
<1>3. Total(W, v, S) \in Nat /\ (S = {} => Total(W, v, S) = 0)
  BY <1>2 DEF Total, GoesOn
<1>4. ASSUME S # {}
      PROVE  /\ AnyOf(S) \in S
             /\ Total(W, v, S) = v[AnyOf(S)] + Total(W, v, S \ {AnyOf(S)})
  <2>1. Picks(W)[S] = AnyOf(S)
    BY DEF Picks
  <2>2. AnyOf(S) \in S
    BY <1>4 DEF AnyOf
  <2>3. Total(W, v, S) = Adds(W, v)[AnyOf(S)][Total(W, v, S \ {AnyOf(S)})]
    BY <1>2, <1>4, <2>1 DEF Total, GoesOn
  <2>4. Total(W, v, S \ {AnyOf(S)}) \in Nat
    BY <1>2 DEF Total, GoesOn
  <2> QED BY <2>2, <2>3, <2>4 DEF Adds
<1> QED BY <1>3, <1>4

\* Any element may be counted first.
LEMMA TotalRemove ==
  ASSUME NEW W, NEW v, Summable(W, v)
  PROVE  \A S \in SUBSET W : \A l \in S : Total(W, v, S) = v[l] + Total(W, v, S \ {l})
<1> DEFINE good == {S \in SUBSET W : \A l \in S : Total(W, v, S) = v[l] + Total(W, v, S \ {l})}
<1>1. IsFiniteSet(W)
  BY DEF Summable
<1>2. ASSUME NEW S \in SUBSET W, \A x \in S : S \ {x} \in good
      PROVE  S \in good
  <2>1. ASSUME NEW l \in S PROVE Total(W, v, S) = v[l] + Total(W, v, S \ {l})
    <3> DEFINE x == AnyOf(S)
    <3>1. x \in S /\ Total(W, v, S) = v[x] + Total(W, v, S \ {x})
      BY TotalStep
    <3> HIDE DEF x
    <3>2. CASE x = l
      BY <3>1, <3>2
    <3>3. CASE x # l
      <4>1. l \in S \ {x} /\ x \in S \ {l}
        BY <3>1, <3>3
      <4>2. Total(W, v, S \ {x}) = v[l] + Total(W, v, (S \ {x}) \ {l})
        BY <1>2, <3>1, <4>1
      <4>3. Total(W, v, S \ {l}) = v[x] + Total(W, v, (S \ {l}) \ {x})
        BY <1>2, <4>1
      <4>4. (S \ {x}) \ {l} = (S \ {l}) \ {x}
        OBVIOUS
      <4>5. Total(W, v, (S \ {l}) \ {x}) \in Nat
        BY TotalStep
      <4>6. v[x] \in Nat /\ v[l] \in Nat
        BY <3>1 DEF Summable
      <4> DEFINE n == Total(W, v, (S \ {l}) \ {x})
      <4>7. Total(W, v, S \ {x}) = v[l] + n
        BY <4>2, <4>4
      <4>8. Total(W, v, S) = v[x] + (v[l] + n) /\ Total(W, v, S \ {l}) = v[x] + n /\ n \in Nat
        BY <3>1, <4>3, <4>5, <4>7
      <4> HIDE DEF n
      <4> QED BY <4>6, <4>8
    <3> QED BY <3>2, <3>3
  <2> QED BY <2>1
<1> HIDE DEF good
<1>3. \A S \in SUBSET W : S \in good
  BY <1>1, <1>2, SetInduction
<1> QED BY <1>3 DEF good

\* What MapThenSumSet iterates, of numbers v.
SumRound(v, g, s) == IF s = {} THEN 0 ELSE v[AnyOf(s)] + g[s \ {AnyOf(s)}]
Sums(v, S, g) == g = [s \in SUBSET S |-> SumRound(v, g, s)]

LEMMA SumExists ==
  ASSUME NEW W, NEW v, Summable(W, v), NEW S \in SUBSET W PROVE \E g : Sums(v, S, g)
<1>1. Iterated(Nat, 0, Adds(W, v), Picks(W), S)
  BY SumFolds, FoldExists
<1>2. PICK g \in [SUBSET S -> Nat] :
        \A s \in SUBSET S : g[s] = Round(0, Adds(W, v), Picks(W), g, s)
  BY <1>1 DEF Iterated
<1>3. ASSUME NEW s \in SUBSET S PROVE g[s] = SumRound(v, g, s)
  <2>1. CASE s = {}
    BY <1>2, <2>1 DEF Round, SumRound
  <2>2. CASE s # {}
    <3>1. AnyOf(s) \in s /\ AnyOf(s) \in W /\ Picks(W)[s] = AnyOf(s)
      BY <2>2 DEF AnyOf, Picks
    <3>2. g[s] = Adds(W, v)[AnyOf(s)][g[s \ {AnyOf(s)}]]
      BY <1>2, <2>2, <3>1 DEF Round
    <3>3. g[s \ {AnyOf(s)}] \in Nat
      BY <1>2
    <3> QED BY <2>2, <3>1, <3>2, <3>3 DEF Adds, SumRound
  <2> QED BY <2>1, <2>2
<1>4. g = [s \in SUBSET S |-> SumRound(v, g, s)]
  BY <1>2, <1>3
<1> QED BY <1>4 DEF Sums

LEMMA SumIsTotal ==
  ASSUME NEW W, NEW v, Summable(W, v), NEW S \in SUBSET W, NEW c, Sums(v, S, c)
  PROVE  c[S] = Total(W, v, S)
<1>2. \A s \in SUBSET S : c[s] = SumRound(v, c, s)
  BY DEF Sums
<1>3. Follows(Nat, 0, Adds(W, v), Picks(W), c, S)
  <2> SUFFICES ASSUME NEW s \in SUBSET S
               PROVE  /\ s = {} => c[s] = 0
                      /\ s # {} /\ c[s \ {Picks(W)[s]}] \in Nat
                           => c[s] = Adds(W, v)[Picks(W)[s]][c[s \ {Picks(W)[s]}]]
    BY DEF Follows
  <2>1. s = {} => c[s] = 0
    BY <1>2 DEF SumRound
  <2>2. ASSUME s # {}, c[s \ {Picks(W)[s]}] \in Nat
        PROVE  c[s] = Adds(W, v)[Picks(W)[s]][c[s \ {Picks(W)[s]}]]
    <3>1. AnyOf(s) \in W /\ Picks(W)[s] = AnyOf(s)
      BY <2>2 DEF AnyOf, Picks
    <3>2. c[s] = v[AnyOf(s)] + c[s \ {AnyOf(s)}]
      BY <1>2, <2>2 DEF SumRound
    <3> QED BY <2>2, <3>1, <3>2 DEF Adds
  <2> QED BY <2>1, <2>2
<1>4. S \in SUBSET S
  OBVIOUS
<1> QED BY <1>3, <1>4, SumFolds, FoldValue DEF Total

\* The minutes of the leaves within the shift, within the lateness, and the
\* lateness stored with the records: the three sums of a day.
LeaveSum(S, shift) == MapThenSumSet(LAMBDA l : LeaveOverlap(l, shift), S)
LateOverlap(l, late, shift) ==
  AtLeast0(Least(l.to, shift.start + shift.grace + late) - Most(l.from, shift.start))
LateSum(S, late, shift) == MapThenSumSet(LAMBDA l : LateOverlap(l, late, shift), S)
StoredSum(S) == MapThenSumSet(LAMBDA r : r.late, S)

LEMMA LeaveSumIsTotal ==
  ASSUME NEW shift, NEW W, NEW v, v = [l \in W |-> LeaveOverlap(l, shift)], Summable(W, v),
         NEW S \in SUBSET W
  PROVE  LeaveSum(S, shift) = Total(W, v, S)
<1> DEFINE Iterates(g) == g = [s \in SUBSET S |-> IF s = {} THEN 0 ELSE
                             LeaveOverlap(AnyOf(s), shift) + g[s \ {AnyOf(s)}]]
<1>1. LeaveSum(S, shift) = (CHOOSE g : Iterates(g))[S]
  BY DEF LeaveSum, MapThenSumSet, MapThenFoldSet, AnyOf
<1>2. ASSUME NEW g PROVE Iterates(g) <=> Sums(v, S, g)
  <2>1. ASSUME NEW s \in SUBSET S, s # {} PROVE v[AnyOf(s)] = LeaveOverlap(AnyOf(s), shift)
    BY <2>1 DEF AnyOf
  <2> QED BY <2>1 DEF Sums, SumRound
<1>3. \E g : Sums(v, S, g)
  BY SumExists
<1> HIDE DEF Iterates
<1>4. Iterates(CHOOSE g : Iterates(g))
  BY <1>2, <1>3
<1> QED BY <1>1, <1>2, <1>4, SumIsTotal

LEMMA LateSumIsTotal ==
  ASSUME NEW shift, NEW late, NEW W, NEW v, v = [l \in W |-> LateOverlap(l, late, shift)],
         Summable(W, v), NEW S \in SUBSET W
  PROVE  LateSum(S, late, shift) = Total(W, v, S)
<1> DEFINE Iterates(g) == g = [s \in SUBSET S |-> IF s = {} THEN 0 ELSE
                             LateOverlap(AnyOf(s), late, shift) + g[s \ {AnyOf(s)}]]
<1>1. LateSum(S, late, shift) = (CHOOSE g : Iterates(g))[S]
  BY DEF LateSum, MapThenSumSet, MapThenFoldSet, AnyOf
<1>2. ASSUME NEW g PROVE Iterates(g) <=> Sums(v, S, g)
  <2>1. ASSUME NEW s \in SUBSET S, s # {} PROVE v[AnyOf(s)] = LateOverlap(AnyOf(s), late, shift)
    BY <2>1 DEF AnyOf
  <2> QED BY <2>1 DEF Sums, SumRound
<1>3. \E g : Sums(v, S, g)
  BY SumExists
<1> HIDE DEF Iterates
<1>4. Iterates(CHOOSE g : Iterates(g))
  BY <1>2, <1>3
<1> QED BY <1>1, <1>2, <1>4, SumIsTotal

LEMMA StoredSumIsTotal ==
  ASSUME NEW S, NEW v, v = [r \in S |-> r.late], Summable(S, v)
  PROVE  StoredSum(S) = Total(S, v, S)
<1> DEFINE Iterates(g) == g = [s \in SUBSET S |-> IF s = {} THEN 0 ELSE
                             AnyOf(s).late + g[s \ {AnyOf(s)}]]
<1>1. StoredSum(S) = (CHOOSE g : Iterates(g))[S]
  BY DEF StoredSum, MapThenSumSet, MapThenFoldSet, AnyOf
<1>2. ASSUME NEW g PROVE Iterates(g) <=> Sums(v, S, g)
  <2>1. ASSUME NEW s \in SUBSET S, s # {} PROVE v[AnyOf(s)] = AnyOf(s).late
    BY <2>1 DEF AnyOf
  <2> QED BY <2>1 DEF Sums, SumRound
<1>3. \E g : Sums(v, S, g)
  BY SumExists
<1> HIDE DEF Iterates
<1>4. Iterates(CHOOSE g : Iterates(g))
  BY <1>2, <1>3
<1> QED BY <1>1, <1>2, <1>4, SumIsTotal

-----------------------------------------------------------------------------
(* The day                                                                 *)

\* The columns of a shift are minutes, and numbers of minutes.
LEMMA ShiftColumns ==
  ASSUME NEW shift \in Definitions
  PROVE  /\ DayLength \in Nat \ {0} /\ Minutes = 0..(DayLength - 1)
         /\ shift.start \in Minutes /\ shift.end \in Minutes
         /\ shift.grace \in Nat /\ shift.break \in Nat /\ shift.workDays \subseteq Days
BY ShiftsConstants, CalculatorConstants DEF Minutes

\* Leaves with a window.
Windows(W) == IsFiniteSet(W) /\ W \subseteq CalcLeave /\ \A l \in W : ~WholeDay(l)

LEMMA WindowMinutes ==
  ASSUME NEW W, Windows(W), NEW l \in W PROVE l.from \in Minutes /\ l.to \in Minutes
BY DEF Windows, CalcLeave, WholeDay

\* A scheduled day is a number of minutes, and so is what a leave takes of it.
LEMMA OverlapsAreNumbers ==
  ASSUME NEW shift \in Definitions
  PROVE  /\ ScheduledMinutes(shift) \in Nat /\ ShiftEnd(shift) \in Nat
         /\ \A W : Windows(W) => \A l \in W : LeaveOverlap(l, shift) \in Nat
         /\ \A W : Windows(W) => \A l \in W : \A late \in Nat : LateOverlap(l, late, shift) \in Nat
<1>1. ScheduledMinutes(shift) \in Nat /\ ShiftEnd(shift) \in Nat
  BY ShiftColumns DEF ScheduledMinutes, ShiftEnd, AtLeast0
<1>2. ASSUME NEW W, Windows(W), NEW l \in W
      PROVE  /\ LeaveOverlap(l, shift) \in Nat
             /\ \A late \in Nat : LateOverlap(l, late, shift) \in Nat
  <2>1. l.from \in Int /\ l.to \in Int /\ shift.start \in Int /\ shift.grace \in Int
        /\ ShiftEnd(shift) \in Int /\ DayLength \in Int
    BY <1>1, <1>2, ShiftColumns, WindowMinutes
  <2>2. ASSUME NEW a \in Int, NEW b \in Int, NEW c \in Int, NEW d \in Int
        PROVE  AtLeast0(Least(a, b) - Most(c, d)) \in Nat
    <3>1. Least(a, b) - Most(c, d) \in Int
      BY DEF Least, Most
    <3> QED BY <3>1 DEF AtLeast0
  <2>3. LeaveOverlap(l, shift) \in Nat
    <3> DEFINE moved == ShiftEnd(shift) > DayLength /\ l.from < shift.start
               from == IF moved THEN l.from + DayLength ELSE l.from
               to == IF moved THEN l.to + DayLength ELSE l.to
    <3>1. LeaveOverlap(l, shift) = AtLeast0(Least(to, ShiftEnd(shift)) - Most(from, shift.start))
      BY DEF LeaveOverlap
    <3>2. from \in Int /\ to \in Int
      BY <2>1
    <3> HIDE DEF from, to
    <3> QED BY <2>1, <2>2, <3>1, <3>2
  <2>4. ASSUME NEW late \in Nat PROVE LateOverlap(l, late, shift) \in Nat
    <3> DEFINE end == shift.start + shift.grace + late
    <3>1. end \in Int
      BY <2>1
    <3>2. LateOverlap(l, late, shift) = AtLeast0(Least(l.to, end) - Most(l.from, shift.start))
      BY DEF LateOverlap
    <3> HIDE DEF end
    <3> QED BY <2>1, <2>2, <3>1, <3>2
  <2> QED BY <2>3, <2>4
<1> QED BY <1>1, <1>2

LEMMA LeaveSums ==
  ASSUME NEW shift \in Definitions, NEW W, Windows(W)
  PROVE  /\ LeaveSum(W, shift) \in Nat
         /\ \A l \in W : LeaveSum(W \ {l}, shift) \in Nat
                         /\ LeaveSum(W \ {l}, shift) <= LeaveSum(W, shift)
<1> DEFINE v == [l \in W |-> LeaveOverlap(l, shift)]
<1>1. Summable(W, v)
  BY OverlapsAreNumbers DEF Summable, Windows
<1>2. v = [l \in W |-> LeaveOverlap(l, shift)]
  OBVIOUS
<1> HIDE DEF v
<1>3. ASSUME NEW S \in SUBSET W
      PROVE  LeaveSum(S, shift) = Total(W, v, S) /\ Total(W, v, S) \in Nat
  <2>1. LeaveSum(S, shift) = Total(W, v, S)
    BY <1>1, <1>2, LeaveSumIsTotal
  <2> QED BY <1>1, <2>1, TotalStep
<1>4. ASSUME NEW l \in W PROVE Total(W, v, W) = v[l] + Total(W, v, W \ {l}) /\ v[l] \in Nat
  BY <1>1, TotalRemove DEF Summable
<1>5. ASSUME NEW l \in W
      PROVE  LeaveSum(W \ {l}, shift) \in Nat /\ LeaveSum(W \ {l}, shift) <= LeaveSum(W, shift)
  <2>1. /\ LeaveSum(W, shift) = Total(W, v, W) /\ Total(W, v, W) \in Nat
        /\ LeaveSum(W \ {l}, shift) = Total(W, v, W \ {l}) /\ Total(W, v, W \ {l}) \in Nat
    BY <1>3
  <2> QED BY <1>4, <2>1
<1>6. LeaveSum(W, shift) \in Nat
  BY <1>3
<1> QED BY <1>5, <1>6

LEMMA LateSums ==
  ASSUME NEW shift \in Definitions, NEW late \in Nat, NEW W, Windows(W)
  PROVE  /\ LateSum(W, late, shift) \in Nat
         /\ \A l \in W : LateSum(W \ {l}, late, shift) \in Nat
                         /\ LateSum(W \ {l}, late, shift) <= LateSum(W, late, shift)
<1> DEFINE v == [l \in W |-> LateOverlap(l, late, shift)]
<1>1. Summable(W, v)
  BY OverlapsAreNumbers DEF Summable, Windows
<1>2. v = [l \in W |-> LateOverlap(l, late, shift)]
  OBVIOUS
<1> HIDE DEF v
<1>3. ASSUME NEW S \in SUBSET W
      PROVE  LateSum(S, late, shift) = Total(W, v, S) /\ Total(W, v, S) \in Nat
  <2>1. LateSum(S, late, shift) = Total(W, v, S)
    BY <1>1, <1>2, LateSumIsTotal
  <2> QED BY <1>1, <2>1, TotalStep
<1>4. ASSUME NEW l \in W PROVE Total(W, v, W) = v[l] + Total(W, v, W \ {l}) /\ v[l] \in Nat
  BY <1>1, TotalRemove DEF Summable
<1>5. ASSUME NEW l \in W
      PROVE  /\ LateSum(W \ {l}, late, shift) \in Nat
             /\ LateSum(W \ {l}, late, shift) <= LateSum(W, late, shift)
  <2>1. /\ LateSum(W, late, shift) = Total(W, v, W) /\ Total(W, v, W) \in Nat
        /\ LateSum(W \ {l}, late, shift) = Total(W, v, W \ {l}) /\ Total(W, v, W \ {l}) \in Nat
    BY <1>3
  <2> QED BY <1>4, <2>1
<1>6. LateSum(W, late, shift) \in Nat
  BY <1>3
<1> QED BY <1>5, <1>6

LEMMA StoredIsNumber ==
  ASSUME NEW rs, IsFiniteSet(rs), rs \subseteq CalcRecord
  PROVE  StoredSum({r \in rs : r.type = "IN"}) \in Nat
<1> DEFINE S == {r \in rs : r.type = "IN"}
           v == [r \in S |-> r.late]
<1>1. IsFiniteSet(S)
  BY FS_Subset
<1>2. \A r \in S : v[r] \in Nat
  BY DEF CalcRecord
<1>3. Summable(S, v) /\ v = [r \in S |-> r.late]
  BY <1>1, <1>2 DEF Summable
<1> HIDE DEF S, v
<1>4. StoredSum(S) = Total(S, v, S) /\ Total(S, v, S) \in Nat
  BY <1>3, StoredSumIsTotal, TotalStep
<1> QED BY <1>4 DEF S

\* Another leave does not leave less of the day to leaves.
LEMMA MoreLeave ==
  ASSUME NEW shift \in Definitions, NEW ls, IsFiniteSet(ls), ls \subseteq CalcLeave, NEW l \in ls
  PROVE  /\ LeaveMinutesForDay(ls, shift) \in Nat /\ LeaveMinutesForDay(ls \ {l}, shift) \in Nat
         /\ LeaveMinutesForDay(ls \ {l}, shift) <= LeaveMinutesForDay(ls, shift)
<1> DEFINE scheduled == ScheduledMinutes(shift)
<1>1. \A W : LeaveMinutesForDay(W, shift) =
               IF \E k \in W : WholeDay(k) THEN scheduled ELSE Least(LeaveSum(W, shift), scheduled)
  BY DEF LeaveMinutesForDay, LeaveSum
<1>2. scheduled \in Nat
  BY OverlapsAreNumbers
<1>3. IsFiniteSet(ls \ {l})
  BY FS_RemoveElement
<1>4. ASSUME NEW n \in Nat PROVE Least(n, scheduled) \in Nat /\ Least(n, scheduled) <= scheduled
  BY <1>2 DEF Least
<1> HIDE DEF scheduled
<1>5. CASE \E k \in ls \ {l} : WholeDay(k)
  BY <1>1, <1>2, <1>5
<1>6. CASE WholeDay(l) /\ ~\E k \in ls \ {l} : WholeDay(k)
  <2>1. LeaveSum(ls \ {l}, shift) \in Nat
    BY <1>3, <1>6, LeaveSums DEF Windows
  <2>2. LeaveMinutesForDay(ls, shift) = scheduled
    BY <1>1, <1>6
  <2>3. LeaveMinutesForDay(ls \ {l}, shift) = Least(LeaveSum(ls \ {l}, shift), scheduled)
    BY <1>1, <1>6
  <2> QED BY <1>2, <1>4, <2>1, <2>2, <2>3
<1>7. CASE ~\E k \in ls : WholeDay(k)
  <2>1. /\ LeaveSum(ls, shift) \in Nat /\ LeaveSum(ls \ {l}, shift) \in Nat
        /\ LeaveSum(ls \ {l}, shift) <= LeaveSum(ls, shift)
    BY <1>7, LeaveSums DEF Windows
  <2>2. LeaveMinutesForDay(ls, shift) = Least(LeaveSum(ls, shift), scheduled)
    BY <1>1, <1>7
  <2>3. LeaveMinutesForDay(ls \ {l}, shift) = Least(LeaveSum(ls \ {l}, shift), scheduled)
    BY <1>1, <1>7
  <2> QED BY <1>2, <2>1, <2>2, <2>3 DEF Least
<1> QED BY <1>5, <1>6, <1>7

\* Nor does it excuse less of the lateness.
LEMMA MoreForgiven ==
  ASSUME NEW shift \in Definitions, NEW late \in Nat,
         NEW ls, IsFiniteSet(ls), ls \subseteq CalcLeave, NEW l \in ls
  PROVE  ForgiveLate(late, ls, shift) <= ForgiveLate(late, ls \ {l}, shift)
<1>1. \A W : ForgiveLate(late, W, shift) =
               IF late = 0 \/ W = {} THEN late
               ELSE IF \E k \in W : WholeDay(k) THEN 0
               ELSE AtLeast0(late - LateSum(W, late, shift))
  BY DEF ForgiveLate, LateSum, LateOverlap
<1>2. IsFiniteSet(ls \ {l})
  BY FS_RemoveElement
<1>3. ASSUME NEW n \in Nat PROVE AtLeast0(late - n) \in Nat /\ AtLeast0(late - n) <= late
  BY DEF AtLeast0
<1>4. CASE late = 0
  BY <1>1, <1>4
<1>5. CASE late # 0 /\ \E k \in ls : WholeDay(k)
  <2>1. ForgiveLate(late, ls, shift) = 0
    BY <1>1, <1>5
  <2>2. ForgiveLate(late, ls \ {l}, shift) \in Nat
    <3>1. CASE ls \ {l} = {} \/ \E k \in ls \ {l} : WholeDay(k)
      BY <1>1, <3>1
    <3>2. CASE ls \ {l} # {} /\ ~\E k \in ls \ {l} : WholeDay(k)
      <4>1. LateSum(ls \ {l}, late, shift) \in Nat
        BY <1>2, <3>2, LateSums DEF Windows
      <4> QED BY <1>1, <1>3, <1>5, <3>2, <4>1
    <3> QED BY <3>1, <3>2
  <2> QED BY <2>1, <2>2
<1>6. CASE late # 0 /\ ~\E k \in ls : WholeDay(k)
  <2>1. /\ LateSum(ls, late, shift) \in Nat /\ LateSum(ls \ {l}, late, shift) \in Nat
        /\ LateSum(ls \ {l}, late, shift) <= LateSum(ls, late, shift)
    BY <1>6, LateSums DEF Windows
  <2>2. ForgiveLate(late, ls, shift) = AtLeast0(late - LateSum(ls, late, shift))
    BY <1>1, <1>6
  <2>3. CASE ls \ {l} = {}
    <3>1. ForgiveLate(late, ls \ {l}, shift) = late
      BY <1>1, <2>3
    <3> QED BY <1>3, <2>1, <2>2, <3>1
  <2>4. CASE ls \ {l} # {}
    <3>1. ForgiveLate(late, ls \ {l}, shift) = AtLeast0(late - LateSum(ls \ {l}, late, shift))
      BY <1>1, <1>6, <2>4
    <3> QED BY <2>1, <2>2, <3>1 DEF AtLeast0
  <2> QED BY <2>3, <2>4
<1> QED BY <1>4, <1>5, <1>6

-----------------------------------------------------------------------------
(* The walk over the records of a day                                      *)

Acc == [open : Ticks \cup {None}, total : Int, pairs : Nat]
Walks(W) == [r \in W |-> [acc \in Acc |-> Walk(r, acc)]]
Lasts(W, order) == [s \in SUBSET W |-> LastInTime(s, order)]

\* Records of a day, in one of the orders they may come in.
Stamps(W) == IsFiniteSet(W) /\ W \subseteq CalcRecord
Queried(W, order) == Stamps(W) /\ order \in TimeOrders(W)

LEMMA TickNumbers ==
  /\ Ticks \subseteq Nat /\ None \notin Ticks /\ TicksPerMinute \in Nat \ {0}
  /\ \A n, m \in Nat : n \in Ticks /\ m <= n => m \in Ticks
<1>1. DayLength * TicksPerMinute \in Nat
  BY CalculatorConstants
<1> DEFINE n == DayLength * TicksPerMinute
<1> HIDE DEF n
<1>2. n \in Nat /\ Ticks = 0..(n - 1)
  BY <1>1 DEF n, Ticks
<1> QED BY <1>2, CalculatorConstants

\* Whole minutes take no more than the time, and less than one more would.
LEMMA MinutesFit ==
  ASSUME NEW open \in Nat, NEW at \in Nat, open <= at
  PROVE  /\ MinutesFrom(open, at) \in Nat
         /\ TicksPerMinute * MinutesFrom(open, at) <= at - open
         /\ at - open <= TicksPerMinute * MinutesFrom(open, at) + (TicksPerMinute - 1)
<1>1. ASSUME NEW n \in Nat, NEW t \in Nat \ {0}
      PROVE  n \div t \in Nat /\ t * (n \div t) <= n /\ n < t * (n \div t) + t
  OBVIOUS
<1>2. at - open \in Nat /\ TicksPerMinute \in Nat \ {0}
  BY TickNumbers
<1> DEFINE q == (at - open) \div TicksPerMinute
<1>3. /\ q \in Nat /\ TicksPerMinute * q <= at - open
      /\ at - open < TicksPerMinute * q + TicksPerMinute
  BY <1>1, <1>2
<1>4. TicksPerMinute * q \in Nat
  BY <1>2, <1>3
<1> HIDE DEF q
<1>5. at - open <= TicksPerMinute * q + (TicksPerMinute - 1)
  BY <1>2, <1>3, <1>4
<1> QED BY <1>3, <1>5 DEF q, MinutesFrom

LEMMA LastExists ==
  ASSUME NEW W, NEW order, Queried(W, order), NEW s \in SUBSET W, s # {}
  PROVE  LastInTime(s, order) \in s /\ \A r \in s : order[r] <= order[LastInTime(s, order)]
<1> DEFINE n == Cardinality(W)
           Left == {n - order[r] : r \in s}
<1>1. n \in Nat
  BY FS_CardinalityType DEF Queried, Stamps
<1> HIDE DEF n
<1>2. \A r \in W : order[r] \in 1..n
  BY DEF Queried, TimeOrders, n
<1>3. \A r \in s : order[r] \in Nat /\ order[r] <= n
  BY <1>1, <1>2
<1>4. Left \in SUBSET Nat /\ Left # {}
  BY <1>1, <1>3
<1>5. PICK m \in Left : \A k \in Left : m <= k
  <2> HIDE DEF Left
  <2> QED BY <1>4, LeastElement
<1>6. PICK r \in s : m = n - order[r]
  OBVIOUS
<1>7. \A t \in s : order[t] <= order[r]
  <2> SUFFICES ASSUME NEW t \in s PROVE order[t] <= order[r]
    OBVIOUS
  <2>1. n - order[t] \in Left
    OBVIOUS
  <2>2. n - order[r] <= n - order[t]
    BY <1>5, <1>6, <2>1
  <2> QED BY <1>1, <1>3, <2>2
<1> QED BY <1>7 DEF LastInTime

LEMMA WalkTyped ==
  ASSUME NEW r \in CalcRecord, NEW acc \in Acc
  PROVE  Walk(r, acc) \in Acc
<1>0. Ticks \subseteq Int
  BY TickNumbers
<1>1. r.at \in Ticks /\ r.at \in Int /\ acc.total \in Int /\ acc.pairs \in Nat
      /\ acc.open \in Ticks \cup {None}
  BY <1>0 DEF CalcRecord, Acc
<1>2. CASE r.type = "IN"
  <2>1. [acc EXCEPT !.open = r.at] \in Acc
    BY <1>1 DEF Acc
  <2> QED BY <1>2, <2>1 DEF Walk
<1>3. CASE r.type # "IN" /\ acc.open = None
  BY <1>3 DEF Walk
<1>4. CASE r.type # "IN" /\ acc.open # None
  <2>0. acc.open \in Int
    BY <1>0, <1>1, <1>4
  <2>1. acc.total + MinutesFrom(acc.open, r.at) \in Int /\ acc.pairs + 1 \in Nat
    BY <1>1, <2>0, TickNumbers DEF MinutesFrom
  <2>2. [open |-> None, total |-> acc.total + MinutesFrom(acc.open, r.at),
         pairs |-> acc.pairs + 1] \in Acc
    BY <2>1 DEF Acc
  <2> QED BY <1>4, <2>2 DEF Walk
<1> QED BY <1>2, <1>3, <1>4

LEMMA WalkFolds ==
  ASSUME NEW W, NEW order, Queried(W, order) PROVE Folds(W, Acc, NoPair, Walks(W), Lasts(W, order))
<1>1. NoPair \in Acc
  BY DEF NoPair, Acc
<1>2. Walks(W) \in [W -> [Acc -> Acc]]
  BY WalkTyped DEF Walks, Stamps, Queried
<1>3. ASSUME NEW s \in SUBSET W, s # {} PROVE Lasts(W, order)[s] \in s
  BY <1>3, LastExists DEF Lasts
<1> QED BY <1>1, <1>2, <1>3 DEF Folds, Stamps, Queried

WalkRound(order, g, s) ==
  IF s = {} THEN NoPair ELSE Walk(LastInTime(s, order), g[s \ {LastInTime(s, order)}])
Walked(order, S, g) == g = [s \in SUBSET S |-> WalkRound(order, g, s)]

LEMMA WalkExists ==
  ASSUME NEW W, NEW order, Queried(W, order), NEW S \in SUBSET W
  PROVE  \E g : Walked(order, S, g)
<1>1. Iterated(Acc, NoPair, Walks(W), Lasts(W, order), S)
  BY WalkFolds, FoldExists
<1>2. PICK g \in [SUBSET S -> Acc] :
        \A s \in SUBSET S : g[s] = Round(NoPair, Walks(W), Lasts(W, order), g, s)
  BY <1>1 DEF Iterated
<1>3. ASSUME NEW s \in SUBSET S PROVE g[s] = WalkRound(order, g, s)
  <2>1. CASE s = {}
    BY <1>2, <2>1 DEF Round, WalkRound
  <2>2. CASE s # {}
    <3> DEFINE r == LastInTime(s, order)
    <3>1. r \in s /\ r \in W /\ Lasts(W, order)[s] = r
      BY <2>2, LastExists DEF Lasts
    <3>2. g[s] = Walks(W)[r][g[s \ {r}]]
      BY <1>2, <2>2, <3>1 DEF Round
    <3>3. g[s \ {r}] \in Acc
      BY <1>2
    <3> QED BY <2>2, <3>1, <3>2, <3>3 DEF Walks, WalkRound
  <2> QED BY <2>1, <2>2
<1>4. g = [s \in SUBSET S |-> WalkRound(order, g, s)]
  BY <1>2, <1>3
<1> QED BY <1>4 DEF Walked

WalkFold(W, order, S) == Fold(NoPair, Walks(W), Lasts(W, order), S)

LEMMA WalkFollows ==
  ASSUME NEW W, NEW order, Queried(W, order), NEW S \in SUBSET W, NEW c,
         \A s \in SUBSET S : c[s] = WalkRound(order, c, s)
  PROVE  c[S] = WalkFold(W, order, S)
<1>1. ASSUME NEW s \in SUBSET S
      PROVE  /\ s = {} => c[s] = NoPair
             /\ s # {} /\ c[s \ {Lasts(W, order)[s]}] \in Acc
                  => c[s] = Walks(W)[Lasts(W, order)[s]][c[s \ {Lasts(W, order)[s]}]]
  <2>1. c[s] = WalkRound(order, c, s)
    OBVIOUS
  <2>2. ASSUME s # {}, c[s \ {Lasts(W, order)[s]}] \in Acc
        PROVE  c[s] = Walks(W)[Lasts(W, order)[s]][c[s \ {Lasts(W, order)[s]}]]
    <3> DEFINE r == LastInTime(s, order)
    <3>1. r \in W /\ Lasts(W, order)[s] = r
      BY <2>2, LastExists DEF Lasts
    <3>2. c[s] = Walk(r, c[s \ {r}])
      BY <2>1, <2>2 DEF WalkRound
    <3> QED BY <2>2, <3>1, <3>2 DEF Walks
  <2> QED BY <2>1, <2>2 DEF WalkRound
<1>2. Follows(Acc, NoPair, Walks(W), Lasts(W, order), c, S)
  BY <1>1 DEF Follows
<1>3. Folds(W, Acc, NoPair, Walks(W), Lasts(W, order))
  BY WalkFolds
<1> QED BY <1>2, <1>3, FoldsTo DEF WalkFold

LEMMA WalkIsFold ==
  ASSUME NEW W, NEW order, Queried(W, order), NEW S \in SUBSET W
  PROVE  WalkOf(S, order) = WalkFold(W, order, S)
<1> DEFINE Iterates(g) == g = [s \in SUBSET S |-> IF s = {} THEN NoPair ELSE
                             Walk(LastInTime(s, order), g[s \ {LastInTime(s, order)}])]
           c == CHOOSE g : Iterates(g)
<1>1. WalkOf(S, order) = c[S]
  BY DEF WalkOf, MapThenFoldSet
<1>2. \E g : Iterates(g)
  <2>1. PICK g : Walked(order, S, g)
    BY WalkExists
  <2> QED BY <2>1 DEF Walked, WalkRound
<1>3. Iterates(c)
  BY <1>2
<1>4. ASSUME NEW g, Iterates(g) PROVE \A s \in SUBSET S : g[s] = WalkRound(order, g, s)
  BY <1>4 DEF WalkRound
<1> HIDE DEF Iterates, c
<1> QED BY <1>1, <1>3, <1>4, WalkFollows

\* The walk over records ends with the last of them.
LEMMA WalkStep ==
  ASSUME NEW W, NEW order, Queried(W, order), NEW S \in SUBSET W
  PROVE  /\ WalkOf(S, order) \in Acc
         /\ S = {} => WalkOf(S, order) = NoPair
         /\ S # {} => WalkOf(S, order)
                        = Walk(LastInTime(S, order), WalkOf(S \ {LastInTime(S, order)}, order))
<1>1. ASSUME NEW T \in SUBSET W
      PROVE  /\ GoesOn(Acc, NoPair, Walks(W), Lasts(W, order), T)
             /\ WalkOf(T, order) = WalkFold(W, order, T)
  BY WalkFolds, FoldStep, WalkIsFold
<1>2. WalkOf(S, order) \in Acc /\ (S = {} => WalkOf(S, order) = NoPair)
  BY <1>1 DEF GoesOn, WalkFold
<1>3. ASSUME S # {}
      PROVE  WalkOf(S, order) = Walk(LastInTime(S, order), WalkOf(S \ {LastInTime(S, order)}, order))
  <2> DEFINE r == LastInTime(S, order)
  <2>1. r \in S /\ Lasts(W, order)[S] = r
    BY <1>3, LastExists DEF Lasts
  <2>2. WalkFold(W, order, S) = Walks(W)[r][WalkFold(W, order, S \ {r})]
    BY <1>1, <1>3, <2>1 DEF GoesOn, WalkFold
  <2>3. WalkFold(W, order, S \ {r}) \in Acc /\ WalkOf(S \ {r}, order) = WalkFold(W, order, S \ {r})
    BY <1>1 DEF GoesOn, WalkFold
  <2>4. WalkOf(S, order) = WalkFold(W, order, S)
    BY <1>1
  <2> QED BY <2>1, <2>2, <2>3, <2>4 DEF Walks
<1> QED BY <1>2, <1>3

\* Every IN was followed by an OUT; or an employee is in since open.
Ended(S, order) == \A i \in S : i.type = "IN" => \E o \in Outs(S) : order[o] > order[i]
Since(S, order, open) ==
  \E a \in S :
    /\ a.type = "IN" /\ a.at = open
    /\ \A o \in Outs(S) : order[o] < order[a]
    /\ \A i \in S : i.type = "IN" => order[i] >= order[a] \/ \E o \in Outs(S) : order[o] > order[i]

\* Whole minutes counted, of the time inside: each OUT loses less than one.
Fits(total, inside, outs) ==
  /\ total \in Nat /\ TicksPerMinute * total <= inside
  /\ inside <= TicksPerMinute * total + (TicksPerMinute - 1) * outs

WalkInv(S, order) ==
  /\ Fits(WalkOf(S, order).total, Cardinality(Inside(S, order)), Cardinality(Outs(S)))
  /\ IF WalkOf(S, order).open = None THEN Ended(S, order) ELSE Since(S, order, WalkOf(S, order).open)

\* A record that comes after all the others of T.
LastIn(T, r, order) ==
  /\ T \subseteq CalcRecord /\ IsFiniteSet(T) /\ r \in CalcRecord /\ order[r] \in Int
  /\ \A t \in T : order[t] \in Int /\ order[t] < order[r] /\ t.at <= r.at
  /\ \A s, t \in T : s.at < t.at => order[s] < order[t]

LEMMA RecordTimes ==
  \A r \in CalcRecord : r.at \in Ticks /\ r.at \in Nat /\ r.type \in {"IN", "OUT"}
BY TickNumbers DEF CalcRecord

\* What somebody is in between an IN and an OUT of T stays what it was.
LEMMA InsideGrows ==
  ASSUME NEW T, NEW r, NEW order, LastIn(T, r, order)
  PROVE  Inside(T, order) \subseteq Inside(T \cup {r}, order)
<1> SUFFICES ASSUME NEW m \in Inside(T, order) PROVE m \in Inside(T \cup {r}, order)
  OBVIOUS
<1>1. m \in Ticks /\ m \in Nat
  BY TickNumbers DEF Inside
<1>2. PICK i \in T : /\ i.type = "IN" /\ i.at <= m
                     /\ \A o \in Outs(T) : order[o] < order[i] \/ o.at > m
  BY DEF Inside
<1>3. PICK e \in T : e.type = "OUT" /\ e.at > m
  BY DEF Inside, Outs
<1>4. r.at > m
  <2>1. e.at <= r.at /\ e.at \in Nat /\ r.at \in Nat
    BY <1>3, RecordTimes DEF LastIn
  <2> QED BY <1>1, <1>3, <2>1
<1>5. \A o \in Outs(T \cup {r}) : order[o] < order[i] \/ o.at > m
  BY <1>2, <1>4 DEF Outs
<1>6. e \in Outs(T \cup {r})
  BY <1>3 DEF Outs
<1> QED BY <1>1, <1>2, <1>3, <1>5, <1>6 DEF Inside

LEMMA InsideOfIn ==
  ASSUME NEW T, NEW r, NEW order, LastIn(T, r, order), r.type = "IN"
  PROVE  Inside(T \cup {r}, order) = Inside(T, order) /\ Outs(T \cup {r}) = Outs(T)
<1>1. Outs(T \cup {r}) = Outs(T)
  BY DEF Outs
<1> SUFFICES ASSUME NEW m \in Inside(T \cup {r}, order) PROVE m \in Inside(T, order)
  BY <1>1, InsideGrows
<1>2. m \in Ticks /\ m \in Nat
  BY TickNumbers DEF Inside
<1>3. PICK i \in T \cup {r} : /\ i.type = "IN" /\ i.at <= m
                              /\ \A o \in Outs(T) : order[o] < order[i] \/ o.at > m
  BY <1>1 DEF Inside
<1>4. PICK e \in Outs(T) : e.at > m
  BY <1>1 DEF Inside
<1>5. i \in T
  <2>1. e.at <= r.at /\ e.at \in Nat /\ r.at \in Nat
    BY RecordTimes DEF LastIn, Outs
  <2> QED BY <1>2, <1>3, <1>4, <2>1
<1> QED BY <1>2, <1>3, <1>4, <1>5 DEF Inside

LEMMA InsideOfOut ==
  ASSUME NEW T, NEW r, NEW order, LastIn(T, r, order), r.type = "OUT", Ended(T, order)
  PROVE  Inside(T \cup {r}, order) = Inside(T, order)
<1> SUFFICES ASSUME NEW m \in Inside(T \cup {r}, order) PROVE m \in Inside(T, order)
  BY InsideGrows
<1>1. m \in Ticks
  BY DEF Inside
<1>2. PICK i \in T \cup {r} : /\ i.type = "IN" /\ i.at <= m
                              /\ \A o \in Outs(T \cup {r}) : order[o] < order[i] \/ o.at > m
  BY DEF Inside
<1>3. i \in T
  BY <1>2
<1>4. PICK e \in Outs(T) : order[e] > order[i]
  BY <1>2, <1>3 DEF Ended
<1>5. Outs(T) \subseteq Outs(T \cup {r})
  BY DEF Outs
<1>6. e.at > m
  <2>1. order[e] \in Int /\ order[i] \in Int
    BY <1>3 DEF LastIn, Outs
  <2> QED BY <1>2, <1>4, <1>5, <2>1
<1> QED BY <1>1, <1>2, <1>3, <1>4, <1>5, <1>6 DEF Inside

LEMMA InsideOfPair ==
  ASSUME NEW T, NEW r, NEW order, LastIn(T, r, order), r.type = "OUT",
         NEW open, Since(T, order, open)
  PROVE  /\ Inside(T \cup {r}, order) = Inside(T, order) \cup open..(r.at - 1)
         /\ Inside(T, order) \cap open..(r.at - 1) = {}
         /\ open \in Nat /\ r.at \in Nat /\ open <= r.at
<1>1. PICK a \in T : /\ a.type = "IN" /\ a.at = open
                     /\ \A o \in Outs(T) : order[o] < order[a]
                     /\ \A i \in T : i.type = "IN" =>
                          order[i] >= order[a] \/ \E o \in Outs(T) : order[o] > order[i]
  BY DEF Since
<1>2. open \in Nat /\ r.at \in Nat /\ open <= r.at /\ r.at \in Ticks
  BY <1>1, RecordTimes DEF LastIn
<1>3. \A t \in T : t.at \in Nat /\ order[t] \in Int /\ order[t] < order[r] /\ order[r] \in Int
  BY RecordTimes DEF LastIn
<1>4. \A s, t \in T : s.at < t.at => order[s] < order[t]
  BY DEF LastIn
<1>5. Outs(T) \subseteq T /\ r \in Outs(T \cup {r}) /\ Outs(T \cup {r}) = Outs(T) \cup {r}
  BY DEF Outs
<1>6. ASSUME NEW m \in Inside(T, order) PROVE m < open /\ m \in Nat
  <2>1. PICK e \in Outs(T) : e.at > m
    BY DEF Inside
  <2>2. m \in Nat
    BY TickNumbers DEF Inside
  <2>3. ~(a.at < e.at)
    BY <1>1, <1>3, <1>4, <1>5
  <2> QED BY <1>1, <1>2, <1>3, <1>5, <2>1, <2>2, <2>3
<1>7. ASSUME NEW m \in open..(r.at - 1) PROVE m \in Inside(T \cup {r}, order)
  <2>1. m \in Nat /\ open <= m /\ m < r.at
    BY <1>2
  <2>2. m \in Ticks
    BY <1>2, <2>1, TickNumbers
  <2>3. \A o \in Outs(T \cup {r}) : order[o] < order[a] \/ o.at > m
    BY <1>1, <1>5, <2>1
  <2> QED BY <1>1, <1>5, <2>1, <2>2, <2>3 DEF Inside
<1>8. ASSUME NEW m \in Inside(T \cup {r}, order), m \notin Inside(T, order)
      PROVE  m \in open..(r.at - 1)
  <2>1. m \in Ticks /\ m \in Nat
    BY TickNumbers DEF Inside
  <2>2. PICK i \in T \cup {r} : /\ i.type = "IN" /\ i.at <= m
                                /\ \A o \in Outs(T \cup {r}) : order[o] < order[i] \/ o.at > m
    BY DEF Inside
  <2>3. i \in T
    BY <2>2
  <2>4. r.at > m
    <3>1. ~(order[r] < order[i])
      BY <1>3, <2>3
    <3> QED BY <1>5, <2>2, <3>1
  <2>5. \A o \in Outs(T) : ~(o.at > m)
    BY <1>5, <1>8, <2>1, <2>2, <2>3 DEF Inside
  <2>6. i.at >= open
    <3>1. \A o \in Outs(T) : order[o] < order[i]
      BY <1>5, <2>2, <2>5
    <3>2. order[i] >= order[a]
      BY <1>1, <1>3, <1>5, <2>2, <2>3, <3>1
    <3>3. ~(i.at < a.at)
      BY <1>3, <1>4, <2>3, <3>2
    <3> QED BY <1>1, <1>3, <2>3, <3>3
  <2> QED BY <1>2, <1>3, <2>1, <2>2, <2>3, <2>4, <2>6
<1>9. Inside(T \cup {r}, order) = Inside(T, order) \cup open..(r.at - 1)
  BY <1>7, <1>8, InsideGrows
<1>10. Inside(T, order) \cap open..(r.at - 1) = {}
  BY <1>2, <1>6
<1> QED BY <1>2, <1>9, <1>10

LEMMA InsideIsFinite ==
  ASSUME NEW S, NEW order
  PROVE  IsFiniteSet(Inside(S, order)) /\ Cardinality(Inside(S, order)) \in Nat
<1>1. DayLength * TicksPerMinute \in Int
  BY CalculatorConstants
<1>2. IsFiniteSet(Ticks)
  BY <1>1, FS_Interval DEF Ticks
<1>3. Inside(S, order) \subseteq Ticks
  BY DEF Inside
<1> QED BY <1>2, <1>3, FS_Subset, FS_CardinalityType

\* An OUT more: what is lost with it, and what its pair adds.
LEMMA FitsGrows ==
  ASSUME NEW total \in Nat, NEW inside \in Nat, NEW outs \in Nat, Fits(total, inside, outs),
         NEW whole \in Nat, NEW span \in Nat, TicksPerMinute * whole <= span,
         span <= TicksPerMinute * whole + (TicksPerMinute - 1)
  PROVE  Fits(total, inside, outs + 1) /\ Fits(total + whole, inside + span, outs + 1)
<1>1. TicksPerMinute \in Nat \ {0}
  BY TickNumbers
<1>2. \A k, m, n \in Nat : k * (m + n) = k * m + k * n /\ k * m \in Nat
  OBVIOUS
<1> DEFINE rest == TicksPerMinute - 1
<1>3. rest \in Nat
  BY <1>1
<1>4. rest * (outs + 1) = rest * outs + rest /\ rest * outs \in Nat
  BY <1>2, <1>3
<1>5. TicksPerMinute * (total + whole) = TicksPerMinute * total + TicksPerMinute * whole
      /\ TicksPerMinute * total \in Nat /\ TicksPerMinute * whole \in Nat /\ total + whole \in Nat
  BY <1>1, <1>2
<1>6. /\ TicksPerMinute * total <= inside /\ inside <= TicksPerMinute * total + rest * outs
      /\ span <= TicksPerMinute * whole + rest
  BY DEF Fits
<1> HIDE DEF rest
<1>7. inside <= TicksPerMinute * total + rest * (outs + 1)
  BY <1>3, <1>4, <1>5, <1>6
<1>8. /\ TicksPerMinute * (total + whole) <= inside + span
      /\ inside + span <= TicksPerMinute * (total + whole) + rest * (outs + 1)
  BY <1>3, <1>4, <1>5, <1>6
<1> QED BY <1>5, <1>6, <1>7, <1>8 DEF Fits, rest

\* One more record keeps what is said of the walk.
LEMMA WalkGoesOn ==
  ASSUME NEW T, NEW r, NEW order, LastIn(T, r, order), r \notin T,
         WalkOf(T, order) \in Acc, WalkInv(T, order),
         WalkOf(T \cup {r}, order) = Walk(r, WalkOf(T, order))
  PROVE  WalkInv(T \cup {r}, order)
<1> DEFINE S == T \cup {r}
           a == WalkOf(T, order)
           n == Cardinality(Inside(T, order))
           outs == Cardinality(Outs(T))
<1>1. a.open \in Ticks \cup {None} /\ None \notin Ticks /\ r.type \in {"IN", "OUT"} /\ r \in S
  BY RecordTimes, TickNumbers DEF Acc, LastIn
<1>2. /\ order[r] \in Int
      /\ \A t \in T : order[t] \in Int /\ order[t] < order[r] /\ t.type \in {"IN", "OUT"}
  BY RecordTimes DEF LastIn
<1>3. Fits(a.total, n, outs) /\ a.total \in Nat /\ n \in Nat
  BY InsideIsFinite DEF WalkInv, Fits
<1>4. IsFiniteSet(Outs(T)) /\ outs \in Nat
  BY FS_Subset, FS_CardinalityType DEF Outs, LastIn
<1>5. CASE r.type = "IN" /\ a.open = None
  <2>1. WalkOf(S, order) = [a EXCEPT !.open = r.at]
    BY <1>5 DEF Walk
  <2>2. WalkOf(S, order).open = r.at /\ WalkOf(S, order).total = a.total
    BY <2>1 DEF Acc
  <2>3. Ended(T, order)
    BY <1>5 DEF WalkInv
  <2>4. Inside(S, order) = Inside(T, order) /\ Outs(S) = Outs(T)
    BY <1>5, InsideOfIn
  <2>5. Since(S, order, r.at)
    <3>1. \A o \in Outs(S) : order[o] < order[r]
      BY <1>2, <2>4 DEF Outs
    <3>2. \A i \in S : i.type = "IN" =>
            order[i] >= order[r] \/ \E o \in Outs(S) : order[o] > order[i]
      BY <1>2, <2>3, <2>4 DEF Ended
    <3> HIDE DEF S
    <3> QED BY <1>1, <1>5, <3>1, <3>2 DEF Since
  <2>6. WalkOf(S, order).open # None
    BY <1>1, <2>2, RecordTimes DEF LastIn
  <2> HIDE DEF a, S
  <2>7. Fits(WalkOf(S, order).total, Cardinality(Inside(S, order)), Cardinality(Outs(S)))
    BY <1>3, <2>2, <2>4
  <2> QED BY <2>2, <2>5, <2>6, <2>7 DEF WalkInv, S
<1>6. CASE r.type = "IN" /\ a.open # None
  <2>1. WalkOf(S, order) = a
    BY <1>6 DEF Walk
  <2>2. Inside(S, order) = Inside(T, order) /\ Outs(S) = Outs(T)
    BY <1>6, InsideOfIn
  <2>3. Since(S, order, a.open)
    <3>1. PICK e \in T : /\ e.type = "IN" /\ e.at = a.open
                         /\ \A o \in Outs(T) : order[o] < order[e]
                         /\ \A i \in T : i.type = "IN" =>
                              order[i] >= order[e] \/ \E o \in Outs(T) : order[o] > order[i]
      BY <1>6 DEF WalkInv, Since
    <3>2. order[r] >= order[e]
      BY <1>2
    <3>3. \A i \in S : i.type = "IN" =>
            order[i] >= order[e] \/ \E o \in Outs(S) : order[o] > order[i]
      BY <2>2, <3>1, <3>2
    <3>4. e \in S
      OBVIOUS
    <3> HIDE DEF S
    <3> QED BY <2>2, <3>1, <3>3, <3>4 DEF Since
  <2> HIDE DEF a, S
  <2>4. Fits(WalkOf(S, order).total, Cardinality(Inside(S, order)), Cardinality(Outs(S)))
    BY <1>3, <2>1, <2>2
  <2> QED BY <1>6, <2>1, <2>3, <2>4 DEF WalkInv, S
<1>7. CASE r.type = "OUT"
  <2>1. Outs(S) = Outs(T) \cup {r} /\ r \notin Outs(T)
    BY <1>7 DEF Outs
  <2>2. Cardinality(Outs(S)) = outs + 1
    <3> HIDE DEF S
    <3> QED BY <1>4, <2>1, FS_AddElement
  <2>3. Ended(S, order)
    BY <1>2, <1>7, <2>1 DEF Ended
  <2>4. CASE a.open = None
    <3>1. WalkOf(S, order) = a
      BY <1>7, <2>4 DEF Walk
    <3>2. Inside(S, order) = Inside(T, order)
      BY <1>7, <2>4, InsideOfOut DEF WalkInv
    <3> HIDE DEF a, S, n, outs
    <3>3. Fits(a.total, n, outs + 1)
      <4>1. TicksPerMinute * 0 <= 0 /\ 0 <= TicksPerMinute * 0 + (TicksPerMinute - 1)
        BY TickNumbers
      <4> QED BY <1>3, <1>4, <4>1, FitsGrows
    <3> QED BY <2>2, <2>3, <2>4, <3>1, <3>2, <3>3 DEF WalkInv, S, n
  <2>5. CASE a.open # None
    <3> DEFINE open == a.open
               whole == MinutesFrom(open, r.at)
               pair == open..(r.at - 1)
    <3>1. WalkOf(S, order).open = None /\ WalkOf(S, order).total = a.total + whole
      BY <1>7, <2>5 DEF Walk
    <3>2. Since(T, order, open)
      BY <2>5 DEF WalkInv
    <3> HIDE DEF a, open
    <3>3. /\ Inside(S, order) = Inside(T, order) \cup pair /\ Inside(T, order) \cap pair = {}
          /\ open \in Nat /\ r.at \in Nat /\ open <= r.at
      <4>1. /\ Inside(T \cup {r}, order) = Inside(T, order) \cup open..(r.at - 1)
            /\ Inside(T, order) \cap open..(r.at - 1) = {}
            /\ open \in Nat /\ r.at \in Nat /\ open <= r.at
        BY <1>7, <3>2, InsideOfPair
      <4> QED BY <4>1
    <3>4. /\ whole \in Nat /\ TicksPerMinute * whole <= r.at - open
          /\ r.at - open <= TicksPerMinute * whole + (TicksPerMinute - 1)
      BY <3>3, MinutesFit
    <3>5. IsFiniteSet(pair) /\ Cardinality(pair) = r.at - open
      <4>1. open \in Int /\ r.at - 1 \in Int
            /\ (IF open > r.at - 1 THEN 0 ELSE (r.at - 1) - open + 1) = r.at - open
        BY <3>3
      <4>2. IsFiniteSet(pair)
            /\ Cardinality(pair) = IF open > r.at - 1 THEN 0 ELSE (r.at - 1) - open + 1
        BY <4>1, FS_Interval
      <4> QED BY <4>1, <4>2
    <3> HIDE DEF pair, whole
    <3>6. Cardinality(Inside(S, order)) = n + (r.at - open)
      <4>1. Cardinality(Inside(T, order) \cap pair) = 0
        BY <3>3, FS_EmptySet
      <4>2. IsFiniteSet(Inside(T, order))
        BY InsideIsFinite
      <4>3. Cardinality(Inside(T, order) \cup pair)
              = n + Cardinality(pair) - Cardinality(Inside(T, order) \cap pair)
        BY <3>5, <4>2, FS_Union
      <4> HIDE DEF S, n
      <4> QED BY <1>3, <3>3, <3>5, <4>1, <4>3
    <3> HIDE DEF n, outs, S
    <3>7. r.at - open \in Nat
      BY <3>3
    <3>8. Fits(a.total + whole, n + (r.at - open), outs + 1)
      BY <1>3, <1>4, <3>4, <3>7, FitsGrows
    <3> QED BY <2>2, <2>3, <3>1, <3>6, <3>8 DEF WalkInv, S
  <2> QED BY <2>4, <2>5
<1> QED BY <1>1, <1>5, <1>6, <1>7

LEMMA WalkHolds == ASSUME NEW W, NEW order, Queried(W, order) PROVE WalkInv(W, order)
<1> DEFINE good == {S \in SUBSET W : WalkInv(S, order)}
<1>1. IsFiniteSet(W) /\ W \subseteq CalcRecord
  BY DEF Queried, Stamps
<1>2. /\ \A s \in W : order[s] \in Int
      /\ \A s, t \in W : /\ order[s] = order[t] => s = t
                         /\ s.at < t.at => order[s] < order[t]
  BY DEF Queried, TimeOrders
<1>3. ASSUME NEW S \in SUBSET W, \A x \in S : S \ {x} \in good
      PROVE  S \in good
  <2>1. CASE S = {}
    <3>1. WalkOf(S, order) = NoPair
      BY <2>1, WalkStep
    <3>2. Cardinality(Inside(S, order)) = 0 /\ Cardinality(Outs(S)) = 0
      BY <2>1, FS_EmptySet DEF Inside, Outs
    <3>3. Fits(0, 0, 0)
      BY TickNumbers DEF Fits
    <3> QED BY <2>1, <3>1, <3>2, <3>3 DEF WalkInv, NoPair, Ended
  <2>2. CASE S # {}
    <3> DEFINE r == LastInTime(S, order)
               T == S \ {r}
    <3>1. r \in S /\ r \in W /\ \A t \in S : order[t] <= order[r]
      BY <2>2, LastExists
    <3> HIDE DEF r
    <3>2. T \subseteq W /\ r \notin T /\ \A t \in T : t \in S /\ t # r
      BY <3>1
    <3>3. LastIn(T, r, order)
      <4>1. ASSUME NEW t \in T PROVE order[t] < order[r] /\ t.at <= r.at
        <5>1. order[t] < order[r]
          BY <1>2, <3>1, <3>2
        <5>2. ~(r.at < t.at)
          BY <1>2, <3>1, <3>2, <5>1
        <5>3. t.at \in Nat /\ r.at \in Nat
          BY <1>1, <3>1, <3>2, RecordTimes
        <5> QED BY <5>1, <5>2, <5>3
      <4>2. IsFiniteSet(T)
        BY <1>1, <3>2, FS_Subset
      <4> HIDE DEF T
      <4> QED BY <1>1, <1>2, <3>1, <3>2, <4>1, <4>2 DEF LastIn
    <3>4. WalkInv(T, order) /\ T \in SUBSET W
      BY <1>3, <3>1
    <3>5. WalkOf(T, order) \in Acc
      BY <3>4, WalkStep
    <3>6. WalkOf(S, order) = Walk(r, WalkOf(T, order))
      BY <2>2, WalkStep DEF r
    <3>7. S = T \cup {r}
      BY <3>1
    <3> HIDE DEF T
    <3> QED BY <3>2, <3>3, <3>4, <3>5, <3>6, <3>7, WalkGoesOn
  <2> QED BY <2>1, <2>2
<1> HIDE DEF good
<1>4. \A S \in SUBSET W : S \in good
  BY <1>1, <1>3, SetInduction
<1>5. W \in SUBSET W
  OBVIOUS
<1>6. W \in good
  BY <1>4, <1>5
<1> QED BY <1>6 DEF good

\* The minutes worked, break aside, fit the time somebody was in.
LEMMA WorkedCounts ==
  ASSUME NEW W, NEW order, Queried(W, order)
  PROVE  Fits(WorkedMinutesForDay(W, order, 0), Cardinality(Inside(W, order)), Cardinality(Outs(W)))
<1>1. /\ Fits(WalkOf(W, order).total, Cardinality(Inside(W, order)), Cardinality(Outs(W)))
      /\ WalkOf(W, order).total \in Nat
  BY WalkHolds DEF WalkInv, Fits
<1>2. WorkedMinutesForDay(W, order, 0)
        = IF WalkOf(W, order).pairs = 1 THEN AtLeast0(WalkOf(W, order).total - 0)
          ELSE WalkOf(W, order).total
  BY DEF WorkedMinutesForDay
<1>3. \A n \in Nat : AtLeast0(n - 0) = n
  BY DEF AtLeast0
<1> QED BY <1>1, <1>2, <1>3

LEMMA WorkedIsNumber ==
  ASSUME NEW W, NEW order, Queried(W, order), NEW break \in Nat
  PROVE  WorkedMinutesForDay(W, order, break) \in Int
<1>1. W \in SUBSET W
  OBVIOUS
<1>2. WalkOf(W, order) \in Acc
  BY <1>1, WalkStep
<1>3. WalkOf(W, order).total \in Int
  BY <1>2 DEF Acc
<1>4. \A n \in Int : AtLeast0(n) \in Int
  BY DEF AtLeast0
<1> QED BY <1>3, <1>4 DEF WorkedMinutesForDay

-----------------------------------------------------------------------------
(* The rows the totals are made of                                         *)

RowsTyped ==
  /\ shifts \in [ShiftIds -> Definitions \cup {None}]
  /\ records \subseteq CalcRecord /\ IsFiniteSet(records)
  /\ leaves \subseteq CalcLeave /\ IsFiniteSet(leaves)

LEMMA ShiftsOnTyped ==
  ASSUME Typed, RowsTyped, NEW d PROVE ShiftsOn(d) \subseteq Definitions \cup {None}
<1> SUFFICES ASSUME NEW shift \in ShiftsOn(d) PROVE shift \in Definitions \cup {None}
  OBVIOUS
<1>1. PICK a \in Assignments : shift = a.shift
  BY DEF ShiftsOn, ShiftForDate, Effective
<1>2. PICK i \in Rows : a.shift = shifts[assigned[i].id]
  BY <1>1 DEF Assignments
<1>3. assigned[i].id \in ShiftIds
  BY RowTyped DEF UserShift
<1> QED BY <1>1, <1>2, <1>3 DEF RowsTyped

LEMMA CheckRows ==
  ASSUME Typed, RowsTyped, NEW type \in {"IN", "OUT"}, NEW d \in Days, NEW at \in Instants,
         Check(type, d, at)
  PROVE  RowsTyped'
<1>1. PICK shift \in (IF ShiftsOn(d) = {} THEN {None} ELSE ShiftsOn(d)) :
        records' = records \cup {[id |-> Cardinality(records) + 1,
          day |-> d, type |-> type, at |-> at,
          late |-> IF shift = None \/ type = "OUT" THEN 0
                   ELSE ComputeLateMinutes(shift, d, at)]}
  BY DEF Check
<1> DEFINE late == IF shift = None \/ type = "OUT" THEN 0 ELSE ComputeLateMinutes(shift, d, at)
           new == [id |-> Cardinality(records) + 1, day |-> d, type |-> type, at |-> at, late |-> late]
<1>2. late \in Nat
  <2>1. at \in Nat /\ TicksPerMinute \in Nat \ {0}
    BY ShiftsConstants, TickNumbers
  <2>2. ASSUME shift \in Definitions PROVE ComputeLateMinutes(shift, d, at) \in Nat
    <3>1. shift.start + shift.grace \in Nat
      BY <2>2, ShiftColumns
    <3>2. at \div TicksPerMinute \in Int
      BY <2>1
    <3>3. \A m, n \in Int : AtLeast0(m - n) \in Nat
      BY DEF AtLeast0
    <3> QED BY <3>1, <3>2, <3>3 DEF ComputeLateMinutes
  <2>3. shift \in Definitions \cup {None}
    BY ShiftsOnTyped
  <2> QED BY <2>2, <2>3
<1> HIDE DEF late
<1>3. at \in Ticks /\ Cardinality(records) + 1 \in Nat
  BY ShiftsConstants, FS_CardinalityType DEF RowsTyped
<1>4. new \in CalcRecord
  BY <1>2, <1>3 DEF CalcRecord
<1>5. records' = records \cup {new}
  BY <1>1 DEF late
<1> HIDE DEF new
<1>6. IsFiniteSet(records') /\ records' \subseteq CalcRecord
  BY <1>4, <1>5, FS_AddElement DEF RowsTyped
<1> QED BY <1>6 DEF RowsTyped, Check

LEMMA PatchRows ==
  ASSUME RowsTyped, NEW r \in records, NEW d \in Days, NEW at \in Instants,
         NEW type \in {"IN", "OUT"}, NEW late \in ManualLates \cup {r.late},
         Patch(r, d, at, type, late)
  PROVE  RowsTyped'
<1> DEFINE new == [r EXCEPT !.day = d, !.at = at, !.type = type, !.late = late]
<1>1. r \in CalcRecord /\ at \in Ticks /\ late \in Nat
  BY ShiftsConstants DEF RowsTyped, CalcRecord
<1>2. new \in CalcRecord
  BY <1>1 DEF CalcRecord
<1>3. records' = (records \ {r}) \cup {new}
  BY DEF Patch
<1> HIDE DEF new
<1>4. IsFiniteSet(records') /\ records' \subseteq CalcRecord
  BY <1>2, <1>3, FS_AddElement, FS_RemoveElement DEF RowsTyped
<1> QED BY <1>4 DEF RowsTyped, Patch, Edit

\* Shifts, records and leaves are rows of their types, finitely many, after every
\* check, correction, leave, definition and removal: what the totals sum up.
THEOREM RowsCorrect == Spec => []RowsTyped
<1>1. Init => RowsTyped
  <2> SUFFICES ASSUME Init PROVE RowsTyped
    OBVIOUS
  <2>1. shifts \in [ShiftIds -> Definitions \cup {None}]
    BY DEF Init
  <2> QED BY <2>1, FS_EmptySet DEF Init, RowsTyped
<1>2. IInv /\ RowsTyped /\ [Next]_vars => RowsTyped'
  <2> SUFFICES ASSUME IInv, RowsTyped, [Next]_vars PROVE RowsTyped'
    OBVIOUS
  <2> USE DEF IInv
  <2>1. CASE UNCHANGED <<shifts, records, leaves>>
    BY <2>1 DEF RowsTyped
  <2>2. ASSUME NEW s \in ShiftIds, NEW definition \in Definitions, Define(s, definition)
        PROVE  RowsTyped'
    BY <2>2 DEF Define, RowsTyped
  <2>3. ASSUME NEW c \in Calls, RemoveDelete(c) PROVE RowsTyped'
    BY <2>3 DEF RemoveDelete, RowsTyped
  <2>4. ASSUME NEW l \in CalcLeave, CreateLeave(l) PROVE RowsTyped'
    BY <2>4, FS_AddElement DEF CreateLeave, RowsTyped
  <2>5. ASSUME NEW c \in Calls, NEW s \in ShiftIds, NEW from \in Days,
               NEW to \in Days \cup {None}, AssignLoad(c, s, from, to)
        PROVE  UNCHANGED <<shifts, records, leaves>>
    BY <2>5 DEF AssignLoad
  <2>6. ASSUME NEW c \in Calls, AssignInsert(c) \/ Fail(c)
               \/ (\E i \in DOMAIN assigned : AssignClose(c, i))
               \/ (\E s \in ShiftIds : RemoveCount(c, s))
        PROVE  UNCHANGED <<shifts, records, leaves>>
    BY <2>6 DEF AssignInsert, Fail, AssignClose, RemoveCount
  <2>7. UNCHANGED vars => UNCHANGED <<shifts, records, leaves>>
    BY DEF vars
  <2> QED BY <2>1, <2>2, <2>3, <2>4, <2>5, <2>6, <2>7, CheckRows, PatchRows DEF Next
<1> QED BY <1>1, <1>2, Invariance, PTL DEF Spec

-----------------------------------------------------------------------------
(* The totals                                                              *)

LEMMA OfTheDay ==
  ASSUME RowsTyped, NEW d
  PROVE  /\ Stamps(On(d, records))
         /\ On(d, leaves) \subseteq CalcLeave /\ IsFiniteSet(On(d, leaves))
<1>1. On(d, records) \subseteq records /\ On(d, leaves) \subseteq leaves
  BY DEF On
<1> QED BY <1>1, FS_Subset DEF RowsTyped, Stamps

\* The walk of timesheet-calculator over a day's records adds up the time the
\* employee was in, less than a minute short for each OUT, in every history of
\* checks and corrections and whichever of two records of one instant comes first.
THEOREM WorkedAddsUp == Spec => []WorkedIsInside
<1>1. ASSUME RowsTyped PROVE WorkedIsInside
  <2> SUFFICES ASSUME NEW d \in Days, NEW order \in TimeOrders(On(d, records))
               PROVE  LET worked == TicksPerMinute * WorkedMinutesForDay(On(d, records), order, 0)
                          inside == Cardinality(Inside(On(d, records), order))
                      IN /\ worked <= inside
                         /\ inside <= worked + (TicksPerMinute - 1) * Cardinality(Outs(On(d, records)))
    BY DEF WorkedIsInside
  <2>1. Queried(On(d, records), order)
    BY <1>1, OfTheDay DEF Queried
  <2> QED BY <2>1, WorkedCounts DEF Fits
<1>2. RowsTyped => WorkedIsInside
  BY <1>1
<1> QED BY <1>2, RowsCorrect, PTL

\* One leave more makes no day later, absent, or with less extra work.
LEMMA LeaveHelps ==
  ASSUME NEW rs, NEW order, Queried(rs, order), NEW shift \in Definitions, shift # None, NEW d,
         NEW ls, IsFiniteSet(ls), ls \subseteq CalcLeave, NEW l \in ls
  PROVE  LET with == CalculateDay(rs, order, shift, ls, d)
             without == CalculateDay(rs, order, shift, ls \ {l}, d)
         IN /\ with.late <= without.late
            /\ with.absent => without.absent
            /\ with.extra >= without.extra
<1> DEFINE scheduled == IF IsWorkDay(shift, d) THEN ScheduledMinutes(shift) ELSE 0
           worked == WorkedMinutesForDay(rs, order, shift.break)
           stored == StoredSum({r \in rs : r.type = "IN"})
           leave(W) == IF scheduled = 0 THEN 0 ELSE LeaveMinutesForDay(W, shift)
           extra(n) == IF scheduled > 0 /\ rs = {} THEN 0 ELSE AtLeast0(worked - (scheduled - n))
<1>1. ASSUME NEW W
      PROVE  /\ CalculateDay(rs, order, shift, W, d).late = ForgiveLate(stored, W, shift)
             /\ CalculateDay(rs, order, shift, W, d).absent <=>
                  scheduled > 0 /\ rs = {} /\ leave(W) < scheduled
             /\ CalculateDay(rs, order, shift, W, d).extra = extra(leave(W))
  BY DEF CalculateDay, StoredSum
<1>2. scheduled \in Nat /\ worked \in Int /\ stored \in Nat
  <2>1. scheduled \in Nat
    BY OverlapsAreNumbers
  <2>2. worked \in Int
    BY ShiftColumns, WorkedIsNumber
  <2>3. stored \in Nat
    BY StoredIsNumber DEF Queried, Stamps
  <2> QED BY <2>1, <2>2, <2>3
<1> HIDE DEF scheduled, worked, stored
<1>3. leave(ls) \in Nat /\ leave(ls \ {l}) \in Nat /\ leave(ls \ {l}) <= leave(ls)
  BY MoreLeave
<1> HIDE DEF leave
<1>4. ForgiveLate(stored, ls, shift) <= ForgiveLate(stored, ls \ {l}, shift)
  BY <1>2, MoreForgiven
<1>5. ASSUME NEW m \in Nat, NEW n \in Nat, m <= n PROVE extra(n) >= extra(m)
  BY <1>2, <1>5 DEF AtLeast0
<1> HIDE DEF extra
<1>6. extra(leave(ls)) >= extra(leave(ls \ {l}))
  BY <1>3, <1>5
<1>7. scheduled > 0 /\ leave(ls) < scheduled => leave(ls \ {l}) < scheduled
  BY <1>2, <1>3
<1> QED BY <1>1, <1>4, <1>6, <1>7

\* No leave that is entered makes a day worse, whatever the shift, the records
\* and the other leaves (calculateDay takes leaves off lateness and schedule).
THEOREM LeavesDoNotHurt == Spec => []LeaveNeverHurts
<1>1. ASSUME Typed, RowsTyped PROVE LeaveNeverHurts
  <2> SUFFICES ASSUME NEW d \in Days, NEW shift \in ShiftsOn(d) \ {None}, NEW l \in On(d, leaves),
                      NEW order \in TimeOrders(On(d, records))
               PROVE  LET with == CalculateDay(On(d, records), order, shift, On(d, leaves), d)
                          without == CalculateDay(On(d, records), order, shift, On(d, leaves) \ {l}, d)
                      IN /\ with.late <= without.late
                         /\ with.absent => without.absent
                         /\ with.extra >= without.extra
    BY DEF LeaveNeverHurts
  <2>1. shift \in Definitions /\ shift # None
    BY <1>1, ShiftsOnTyped
  <2>2. Queried(On(d, records), order) /\ On(d, leaves) \subseteq CalcLeave /\ IsFiniteSet(On(d, leaves))
    BY <1>1, OfTheDay DEF Queried
  <2> QED BY <2>1, <2>2, LeaveHelps
<1>2. IInv /\ RowsTyped => LeaveNeverHurts
  BY <1>1 DEF IInv
<1> QED BY <1>2, RowsCorrect, Invariance, PTL

\* The minutes from one number to another.
LEMMA SpanCounts ==
  ASSUME NEW a \in Int, NEW b \in Int
  PROVE  /\ IsFiniteSet({m \in Int : a <= m /\ m < b})
         /\ Cardinality({m \in Int : a <= m /\ m < b}) = AtLeast0(b - a)
<1> DEFINE span == {m \in Int : a <= m /\ m < b}
<1>1. span = a..(b - 1)
  OBVIOUS
<1>2. IsFiniteSet(a..(b - 1))
      /\ Cardinality(a..(b - 1)) = IF a > b - 1 THEN 0 ELSE (b - 1) - a + 1
  BY FS_Interval
<1>3. (IF a > b - 1 THEN 0 ELSE (b - 1) - a + 1) = AtLeast0(b - a)
  BY DEF AtLeast0
<1> HIDE DEF span
<1>4. IsFiniteSet(span) /\ Cardinality(span) = AtLeast0(b - a)
  BY <1>1, <1>2, <1>3
<1> QED BY <1>4 DEF span

\* A leave of a night shift lies on one side of its start.
Straddles(l, shift) ==
  ShiftEnd(shift) > DayLength /\ l.from < shift.start /\ l.to > shift.start
OneSided(W, shift) == \A l \in W : ~Straddles(l, shift)

\* What the overlap of one leave counts.
LEMMA OverlapCounts ==
  ASSUME NEW shift \in Definitions, NEW W, Windows(W), NEW l \in W, ~Straddles(l, shift)
  PROVE  /\ IsFiniteSet(LeaveMinutesOf({l}, shift))
         /\ Cardinality(LeaveMinutesOf({l}, shift)) = LeaveOverlap(l, shift)
<1> DEFINE end == ShiftEnd(shift)
           moved == end > DayLength /\ l.from < shift.start
           from == IF moved THEN l.from + DayLength ELSE l.from
           to == IF moved THEN l.to + DayLength ELSE l.to
           span == {m \in Int : Most(from, shift.start) <= m /\ m < Least(to, end)}
<1>1. /\ DayLength \in Nat /\ shift.start \in Nat /\ shift.start < DayLength
      /\ shift.end \in Nat /\ shift.end < DayLength
      /\ l.from \in Nat /\ l.from < DayLength /\ l.to \in Nat /\ l.to < DayLength
  BY ShiftColumns, WindowMinutes
<1>2. end \in Int /\ (end > DayLength => end <= shift.start + DayLength)
  BY <1>1 DEF ShiftEnd
<1>3. end > DayLength /\ l.from < shift.start => l.to <= shift.start
  BY <1>1 DEF Straddles
<1> HIDE DEF end
<1>4. \A m \in shift.start..(end - 1) :
        (l.from <= m /\ m < l.to) \/ (l.from <= m - DayLength /\ m - DayLength < l.to)
          <=> from <= m /\ m < to
  BY <1>1, <1>2, <1>3
<1>5. \A m : InLeave(m, {l}) <=> l.from <= m /\ m < l.to
  BY DEF InLeave
<1>6. LeaveMinutesOf({l}, shift) = {m \in shift.start..(end - 1) : from <= m /\ m < to}
  BY <1>4, <1>5 DEF LeaveMinutesOf, end
<1>7. from \in Int /\ to \in Int
  BY <1>1
<1>8. LeaveOverlap(l, shift) = AtLeast0(Least(to, end) - Most(from, shift.start))
  BY DEF LeaveOverlap, end
<1> HIDE DEF from, to
<1>9. {m \in shift.start..(end - 1) : from <= m /\ m < to} = span
  BY <1>1, <1>2, <1>7 DEF Most, Least
<1>10. Most(from, shift.start) \in Int /\ Least(to, end) \in Int
  BY <1>1, <1>2, <1>7 DEF Most, Least
<1> QED BY <1>6, <1>8, <1>9, <1>10, SpanCounts

\* Leaves that do not overlap each other take different minutes of the shift.
LEMMA LeavesApart ==
  ASSUME NEW shift \in Definitions, NEW W, Windows(W), Disjoint(W),
         NEW S \in SUBSET W, NEW l \in S
  PROVE  /\ LeaveMinutesOf(S, shift)
              = LeaveMinutesOf({l}, shift) \cup LeaveMinutesOf(S \ {l}, shift)
         /\ LeaveMinutesOf({l}, shift) \cap LeaveMinutesOf(S \ {l}, shift) = {}
<1>1. \A n : InLeave(n, S) <=> InLeave(n, {l}) \/ InLeave(n, S \ {l})
  BY DEF InLeave
<1>2. \A k \in W : /\ k.from \in Int /\ k.to \in Int
                   /\ 0 <= k.from /\ k.to < DayLength /\ DayLength \in Int
  BY WindowMinutes, CalculatorConstants DEF Minutes
<1>3. \A n \in Int : ~(InLeave(n, {l}) /\ InLeave(n, S \ {l}))
  BY <1>2 DEF InLeave, Disjoint
<1>4. \A n \in Int : InLeave(n, S) => 0 <= n /\ n < DayLength
  BY <1>2 DEF InLeave
<1>5. ASSUME NEW m \in shift.start..(ShiftEnd(shift) - 1),
             InLeave(m, {l}) \/ InLeave(m - DayLength, {l}),
             InLeave(m, S \ {l}) \/ InLeave(m - DayLength, S \ {l})
      PROVE  FALSE
  <2>1. m \in Int /\ m - DayLength \in Int /\ DayLength \in Int
    BY CalculatorConstants
  <2>2. ~(InLeave(m, S) /\ InLeave(m - DayLength, S))
    BY <1>4, <2>1
  <2> QED BY <1>1, <1>3, <1>5, <2>1, <2>2
<1> QED BY <1>1, <1>5 DEF LeaveMinutesOf

LEMMA LeaveMinutesCount ==
  ASSUME NEW shift \in Definitions, NEW W, Windows(W), OneSided(W, shift), Disjoint(W)
  PROVE  /\ LeaveSum(W, shift) = Cardinality(LeaveMinutesOf(W, shift))
         /\ IsFiniteSet(LeaveMinutesOf(W, shift))
<1> DEFINE v == [l \in W |-> LeaveOverlap(l, shift)]
           good == {S \in SUBSET W : /\ Total(W, v, S) = Cardinality(LeaveMinutesOf(S, shift))
                                     /\ IsFiniteSet(LeaveMinutesOf(S, shift))}
<1>1. Summable(W, v) /\ \A l \in W : v[l] = LeaveOverlap(l, shift)
  BY OverlapsAreNumbers DEF Summable, Windows
<1>2. v = [l \in W |-> LeaveOverlap(l, shift)]
  OBVIOUS
<1> HIDE DEF v
<1>3. ASSUME NEW S \in SUBSET W, \A x \in S : S \ {x} \in good
      PROVE  S \in good
  <2>1. CASE S = {}
    <3>1. LeaveMinutesOf(S, shift) = {}
      BY <2>1 DEF LeaveMinutesOf, InLeave
    <3> QED BY <1>1, <2>1, <3>1, TotalStep, FS_EmptySet
  <2>2. CASE S # {}
    <3> DEFINE l == AnyOf(S)
               A == LeaveMinutesOf({l}, shift)
               B == LeaveMinutesOf(S \ {l}, shift)
    <3>1. l \in S /\ l \in W /\ Total(W, v, S) = v[l] + Total(W, v, S \ {l})
      BY <1>1, <2>2, TotalStep
    <3> HIDE DEF l
    <3>2. IsFiniteSet(A) /\ Cardinality(A) = v[l]
      BY <1>1, <3>1, OverlapCounts DEF OneSided
    <3>3. IsFiniteSet(B) /\ Cardinality(B) = Total(W, v, S \ {l})
      BY <1>3, <3>1
    <3>4. LeaveMinutesOf(S, shift) = A \cup B /\ A \cap B = {}
      BY <3>1, LeavesApart
    <3> HIDE DEF A, B
    <3>5. IsFiniteSet(A \cup B) /\ Cardinality(A \cup B) = Cardinality(A) + Cardinality(B)
      <4>1. Cardinality(A \cup B) = Cardinality(A) + Cardinality(B) - Cardinality(A \cap B)
            /\ IsFiniteSet(A \cup B)
        BY <3>2, <3>3, FS_Union
      <4>2. Cardinality(A \cap B) = 0
        BY <3>4, FS_EmptySet
      <4>3. Cardinality(A) \in Nat /\ Cardinality(B) \in Nat
        BY <3>2, <3>3, FS_CardinalityType
      <4> QED BY <4>1, <4>2, <4>3
    <3>6. Cardinality(LeaveMinutesOf(S, shift)) = Cardinality(A \cup B)
          /\ IsFiniteSet(LeaveMinutesOf(S, shift))
      BY <3>4, <3>5
    <3> QED BY <3>1, <3>2, <3>3, <3>5, <3>6
  <2> QED BY <2>1, <2>2
<1>4. IsFiniteSet(W) /\ W \in SUBSET W
  BY DEF Windows
<1> HIDE DEF good
<1>5. \A S \in SUBSET W : S \in good
  BY <1>3, <1>4, SetInduction
<1>6. W \in good
  BY <1>4, <1>5
<1>7. LeaveSum(W, shift) = Total(W, v, W)
  BY <1>1, <1>2, <1>4, LeaveSumIsTotal
<1> QED BY <1>6, <1>7 DEF good

\* Leaves that neither overlap nor reach over the start of a night shift count the
\* minutes of the shift they cover, up to the schedule ("overlap of the leave
\* windows with the day's shift window, in minutes": leaveMinutesForDay).
THEOREM LeavesCountOverlap == Spec => []LeaveIsOverlap
<1>1. ASSUME Typed, RowsTyped PROVE LeaveIsOverlap
  <2> SUFFICES ASSUME NEW d \in Days, NEW shift \in ShiftsOn(d) \ {None},
                      ~\E l \in On(d, leaves) : WholeDay(l) \/ Straddles(l, shift),
                      Disjoint(On(d, leaves))
               PROVE  LeaveCounted(On(d, leaves), shift)
    BY DEF LeaveIsOverlap, Straddles
  <2> DEFINE ls == On(d, leaves)
  <2>1. shift \in Definitions
    BY <1>1, ShiftsOnTyped
  <2>2. Windows(ls) /\ OneSided(ls, shift)
    BY <1>1, OfTheDay DEF Windows, OneSided
  <2>3. Disjoint(ls) /\ ~\E l \in ls : WholeDay(l)
    OBVIOUS
  <2> HIDE DEF ls
  <2>4. LeaveSum(ls, shift) = Cardinality(LeaveMinutesOf(ls, shift))
    BY <2>1, <2>2, <2>3, LeaveMinutesCount
  <2>5. LeaveMinutesForDay(ls, shift) = Least(LeaveSum(ls, shift), ScheduledMinutes(shift))
    BY <2>3 DEF LeaveMinutesForDay, LeaveSum
  <2> QED BY <2>4, <2>5 DEF LeaveCounted, ls
<1>2. IInv /\ RowsTyped => LeaveIsOverlap
  BY <1>1 DEF IInv
<1> QED BY <1>2, RowsCorrect, Invariance, PTL
==============================================================================
