---------------------------- MODULE DevicesProofs ------------------------------
(***************************************************************************)
(* Theorems about Devices, for any number of phones, approvals,            *)
(* registrations and keys.                                                 *)
(***************************************************************************)
EXTENDS Devices, TLAPS

Row == [key : Nat, status : Statuses \cup {"DELETED"}]

\* A phone; what it shows of its device may be anything.
Phone(ph) ==
  ph \in [key : Nat, session : BOOLEAN, fresh : BOOLEAN,
          screen : {"entry", "login", "device", "home"}, current : {ph.current},
          call : {"none", "insert", "mine"}]

Typed ==
  /\ keys \in Nat /\ rows \in Seq(Row)
  /\ phone = [p \in Phones |-> phone[p]] /\ \A p \in Phones : Phone(phone[p])

\* register's check lasts until its transaction: a registration that was let
\* through has no rival, unless an approval came in between.
CheckHolds ==
  \A p \in Phones : phone[p].call = "insert" /\ p \notin overtaken =>
    \A d \in Active : rows[d].key = phone[p].key

IInv == Typed /\ CheckHolds

LEMMA InitInv == Init => IInv
<1> SUFFICES ASSUME Init PROVE IInv
  OBVIOUS
<1>1. <<>> \in Seq(Row)
  OBVIOUS
<1>2. \A p \in Phones : Phone(phone[p]) /\ phone[p].call = "none"
  BY DEF Init, Installed, Phone
<1> QED BY <1>1, <1>2 DEF Init, IInv, Typed, CheckHolds

-----------------------------------------------------------------------------
(* Steps of one phone                                                      *)

\* What phone p may become without a registration: it keeps its key, or has none
\* under way.
Quiet(p, ph) ==
  /\ Phone(ph)
  /\ ph.call = "insert" => phone[p].call = "insert" /\ ph.key = phone[p].key

LEMMA QuietStep ==
  ASSUME IInv, NEW p \in Phones, NEW ph, Quiet(p, ph), phone' = [phone EXCEPT ![p] = ph],
         UNCHANGED <<rows, keys, overtaken>>
  PROVE  IInv'
<1>1. \A q \in Phones : phone'[q] = IF q = p THEN ph ELSE phone[q]
  BY DEF IInv, Typed
<1>2. Typed'
  BY <1>1 DEF IInv, Typed, Quiet
<1>3. CheckHolds'
  BY <1>1 DEF IInv, CheckHolds, Quiet, Active, HasStatus
<1> QED BY <1>2, <1>3 DEF IInv

LEMMA PhoneStep ==
  ASSUME IInv, NEW p \in Phones,
         \/ Login(p) \/ Expire(p) \/ Logout(p) \/ Relaunch(p)
         \/ Registered(p) \/ ResolveEntryRoute(p) \/ Poll(p)
  PROVE  IInv'
<1> USE DEF Rejected, Accepted
<1>1. Phone(phone[p])
  BY DEF IInv, Typed
<1>2. PICK ph : phone' = [phone EXCEPT ![p] = ph] /\ Quiet(p, ph)
  <2>1. CASE Login(p)
    <3> DEFINE ph == [phone[p] EXCEPT !.session = TRUE, !.fresh = TRUE, !.screen = "entry"]
    <3>1. phone' = [phone EXCEPT ![p] = ph]
      BY <2>1 DEF Login
    <3>2. Quiet(p, ph)
      BY <1>1 DEF Quiet, Phone
    <3> QED BY <3>1, <3>2
  <2>2. CASE Expire(p)
    <3> DEFINE ph == [phone[p] EXCEPT !.fresh = FALSE]
    <3>1. phone' = [phone EXCEPT ![p] = ph]
      BY <2>2 DEF Expire
    <3>2. Quiet(p, ph)
      BY <1>1 DEF Quiet, Phone
    <3> QED BY <3>1, <3>2
  <2>3. CASE Logout(p)
    <3> DEFINE ph == [Rejected(p) EXCEPT !.screen = "login", !.current = None]
    <3>1. phone' = [phone EXCEPT ![p] = ph]
      BY <2>3 DEF Logout
    <3>2. Quiet(p, ph)
      BY <1>1 DEF Quiet, Phone
    <3> QED BY <3>1, <3>2
  <2>4. CASE Relaunch(p)
    <3> DEFINE ph == [phone[p] EXCEPT !.screen = "entry", !.current = None]
    <3>1. phone' = [phone EXCEPT ![p] = ph] \/ phone' = [phone EXCEPT ![p] = Installed]
      BY <2>4 DEF Relaunch
    <3>2. Quiet(p, ph) /\ Quiet(p, Installed)
      BY <1>1 DEF Quiet, Phone, Installed
    <3> QED BY <3>1, <3>2
  <2>5. CASE Registered(p)
    <3> DEFINE ph == IF Allowed(p) THEN [Accepted(p) EXCEPT !.call = "none", !.current = FindMine]
                     ELSE [Rejected(p) EXCEPT !.call = "none"]
    <3>1. phone' = [phone EXCEPT ![p] = ph]
      BY <2>5 DEF Registered
    <3>2. Quiet(p, ph)
      BY <1>1 DEF Quiet, Phone
    <3> QED BY <3>1, <3>2
  <2>6. CASE ResolveEntryRoute(p)
    <3> DEFINE mine == FindMine
               ph == IF ~Allowed(p) THEN [Rejected(p) EXCEPT !.screen = "login"]
                     ELSE IF mine = "ACTIVE" /\ phone[p].key # 0
                     THEN [Accepted(p) EXCEPT !.screen = "home"]
                     ELSE [Accepted(p) EXCEPT !.screen = "device",
                             !.current = IF mine = "ACTIVE" THEN None ELSE mine]
    <3>1. phone' = [phone EXCEPT ![p] = ph]
      BY <2>6 DEF ResolveEntryRoute
    <3>2. Quiet(p, ph)
      BY <1>1 DEF Quiet, Phone
    <3> QED BY <3>1, <3>2
  <2>7. CASE Poll(p)
    <3> DEFINE ph == IF ~Allowed(p) THEN Rejected(p)
                     ELSE IF FindMine = "ACTIVE"
                     THEN [Accepted(p) EXCEPT !.screen = "home", !.current = None]
                     ELSE [Accepted(p) EXCEPT !.current = FindMine]
    <3>1. phone' = [phone EXCEPT ![p] = ph]
      BY <2>7 DEF Poll
    <3>2. Quiet(p, ph)
      BY <1>1 DEF Quiet, Phone
    <3> QED BY <3>1, <3>2
  <2> QED BY <2>1, <2>2, <2>3, <2>4, <2>5, <2>6, <2>7
<1>3. UNCHANGED <<rows, keys, overtaken>>
  BY DEF Login, Expire, Logout, Relaunch, Registered, ResolveEntryRoute, Poll
<1> QED BY <1>2, <1>3, QuietStep

LEMMA RegisterCheckStep ==
  ASSUME IInv, NEW p \in Phones, RegisterCheck(p)
  PROVE  IInv'
<1> USE DEF Rejected, Accepted
<1> DEFINE ph == [Accepted(p) EXCEPT !.key = KeyOf(p)]
           to == IF ~Allowed(p) THEN [Rejected(p) EXCEPT !.key = KeyOf(p)]
                 ELSE IF \A d \in Active : rows[d].key = KeyOf(p)
                      THEN [ph EXCEPT !.call = "insert"] ELSE ph
<1>1. Phone(phone[p]) /\ keys \in Nat /\ KeyOf(p) \in Nat
  BY DEF IInv, Typed, Phone, KeyOf
<1>2. /\ phone' = [phone EXCEPT ![p] = to] /\ rows' = rows
      /\ overtaken' = overtaken \ {p} /\ phone[p].call = "none"
  BY DEF RegisterCheck
<1>3. /\ Phone(to) /\ to.key = KeyOf(p)
      /\ to.call = "insert" => \A d \in Active : rows[d].key = KeyOf(p)
  BY <1>1, <1>2 DEF Phone
<1>4. keys' \in Nat
  BY <1>1 DEF RegisterCheck
<1>5. \A q \in Phones : phone'[q] = IF q = p THEN to ELSE phone[q]
  BY <1>2 DEF IInv, Typed
<1>6. Typed'
  BY <1>2, <1>3, <1>4, <1>5 DEF IInv, Typed
<1>7. CheckHolds'
  BY <1>2, <1>3, <1>5 DEF IInv, CheckHolds, Active, HasStatus
<1> QED BY <1>6, <1>7 DEF IInv

-----------------------------------------------------------------------------
(* Steps of the table                                                      *)

LEMMA RegisterInsertRows ==
  ASSUME Typed, NEW p \in Phones, RegisterInsert(p)
  PROVE  /\ rows' \in Seq(Row) /\ Len(rows') = Len(rows) + 1 /\ Len(rows) \in Nat
         /\ \A d \in 1..Len(rows) :
              rows'[d] = IF rows[d].status = "PENDING_APPROVAL"
                         THEN [rows[d] EXCEPT !.status = "DELETED"] ELSE rows[d]
         /\ rows'[Len(rows) + 1].status = "PENDING_APPROVAL"
<1> DEFINE f == [d \in DOMAIN rows |-> IF rows[d].status = "PENDING_APPROVAL"
                                       THEN [rows[d] EXCEPT !.status = "DELETED"] ELSE rows[d]]
           new == [key |-> phone[p].key, status |-> "PENDING_APPROVAL"]
<1>1. Len(rows) \in Nat /\ DOMAIN rows = 1..Len(rows) /\ \A d \in 1..Len(rows) : rows[d] \in Row
  BY DEF Typed
<1>2. new \in Row
  BY DEF Typed, Phone, Row, Statuses
<1>3. \A d \in 1..Len(rows) : f[d] \in Row
  BY <1>1 DEF Row
<1>4. f \in Seq(Row) /\ Len(f) = Len(rows)
  BY <1>1, <1>3
<1>5. rows' = Append(f, new)
  BY DEF RegisterInsert
<1>6. /\ Append(f, new) \in Seq(Row) /\ Len(Append(f, new)) = Len(f) + 1
      /\ Append(f, new)[Len(f) + 1] = new
      /\ \A d \in 1..Len(f) : Append(f, new)[d] = f[d]
  BY <1>2, <1>4
<1> HIDE DEF f, new
<1>7. rows' \in Seq(Row) /\ Len(rows') = Len(rows) + 1 /\ rows'[Len(rows) + 1] = new
      /\ \A d \in 1..Len(rows) : rows'[d] = f[d]
  BY <1>4, <1>5, <1>6
<1> QED BY <1>1, <1>7 DEF f, new

\* A step of the table that keeps its rows, but for their status.
LEMMA StatusStep ==
  ASSUME Typed, NEW to, rows' = [d \in DOMAIN rows |-> [rows[d] EXCEPT !.status = to[d]]],
         \A d \in DOMAIN rows : to[d] \in Statuses \cup {"DELETED"}
  PROVE  /\ rows' \in Seq(Row) /\ Len(rows') = Len(rows) /\ DOMAIN rows' = DOMAIN rows
         /\ \A d \in DOMAIN rows : rows'[d].key = rows[d].key /\ rows'[d].status = to[d]
<1>1. Len(rows) \in Nat /\ DOMAIN rows = 1..Len(rows) /\ \A d \in 1..Len(rows) : rows[d] \in Row
  BY DEF Typed
<1>2. \A d \in 1..Len(rows) : rows'[d] \in Row /\ rows'[d].key = rows[d].key /\ rows'[d].status = to[d]
  BY <1>1 DEF Row
<1>3. rows' \in [1..Len(rows) -> Row]
  BY <1>1, <1>2
<1> QED BY <1>1, <1>2, <1>3

\* An approval, or a revocation.
LEMMA AdminRows ==
  ASSUME Typed, NEW a \in Admins, Approve(a)
  PROVE  /\ rows' \in Seq(Row) /\ Len(rows') = Len(rows) /\ DOMAIN rows' = DOMAIN rows
         /\ \A d \in DOMAIN rows :
              /\ rows'[d].key = rows[d].key
              /\ rows[d].status = "ACTIVE" => rows'[d].status \in {"ACTIVE", "REVOKED"}
         /\ rows' # rows => overtaken' = overtaken \cup {p \in Phones : phone[p].call = "insert"}
         /\ overtaken \subseteq overtaken'
<1> DEFINE to == [d \in DOMAIN rows |->
             IF d = admin[a] THEN IF rows[d].status = "DELETED" THEN "DELETED" ELSE "ACTIVE"
             ELSE IF rows[d].status = "ACTIVE" THEN "REVOKED" ELSE rows[d].status]
<1>1. CASE UNCHANGED <<rows, overtaken>>
  BY <1>1 DEF Typed
<1>2. CASE rows' # rows
  <2>0. \A d \in DOMAIN rows : rows[d] \in Row
    BY DEF Typed
  <2>1. \A d \in DOMAIN rows : rows[d] \in Row /\ to[d] \in Statuses \cup {"DELETED"}
    BY <2>0 DEF Row, Statuses
  <2>2. rows' = [d \in DOMAIN rows |-> [rows[d] EXCEPT !.status = to[d]]]
    BY <1>2, <2>1 DEF Approve, Row
  <2>3. overtaken' = overtaken \cup {p \in Phones : phone[p].call = "insert"}
    BY <1>2 DEF Approve
  <2> HIDE DEF to
  <2>4. /\ rows' \in Seq(Row) /\ Len(rows') = Len(rows) /\ DOMAIN rows' = DOMAIN rows
        /\ \A d \in DOMAIN rows : rows'[d].key = rows[d].key /\ rows'[d].status = to[d]
    BY <2>1, <2>2, StatusStep
  <2> QED BY <2>3, <2>4 DEF to
<1>3. CASE rows' = rows /\ overtaken' # overtaken
  BY <1>3 DEF Approve, Typed
<1> QED BY <1>1, <1>2, <1>3

LEMMA RevokeRows ==
  ASSUME Typed, NEW e \in DOMAIN rows, Revoke(e)
  PROVE  /\ rows' \in Seq(Row) /\ Len(rows') = Len(rows) /\ DOMAIN rows' = DOMAIN rows
         /\ \A d \in DOMAIN rows :
              /\ rows'[d].key = rows[d].key
              /\ rows'[d].status = IF d = e THEN "REVOKED" ELSE rows[d].status
<1> DEFINE to == [d \in DOMAIN rows |-> IF d = e THEN "REVOKED" ELSE rows[d].status]
<1>0. \A d \in DOMAIN rows : rows[d] \in Row
  BY DEF Typed
<1>1. \A d \in DOMAIN rows : rows[d] \in Row /\ to[d] \in Statuses \cup {"DELETED"}
  BY <1>0 DEF Row, Statuses
<1>2. rows' = [d \in DOMAIN rows |-> [rows[d] EXCEPT !.status = to[d]]]
  BY <1>1 DEF Revoke, Row
<1> HIDE DEF to
<1>3. /\ rows' \in Seq(Row) /\ Len(rows') = Len(rows) /\ DOMAIN rows' = DOMAIN rows
      /\ \A d \in DOMAIN rows : rows'[d].key = rows[d].key /\ rows'[d].status = to[d]
  BY <1>1, <1>2, StatusStep
<1> QED BY <1>3 DEF to

LEMMA TableStep ==
  ASSUME IInv,
         \/ \E p \in Phones : RegisterInsert(p)
         \/ \E a \in Admins : Approve(a)
         \/ \E d \in DOMAIN rows : Revoke(d)
  PROVE  IInv'
<1>1. CASE \E p \in Phones : RegisterInsert(p)
  <2>1. PICK p \in Phones : RegisterInsert(p)
    BY <1>1
  <2>2. /\ rows' \in Seq(Row) /\ Len(rows') = Len(rows) + 1 /\ Len(rows) \in Nat
        /\ \A d \in 1..Len(rows) :
             rows'[d] = IF rows[d].status = "PENDING_APPROVAL"
                        THEN [rows[d] EXCEPT !.status = "DELETED"] ELSE rows[d]
        /\ rows'[Len(rows) + 1].status = "PENDING_APPROVAL"
    BY <2>1, RegisterInsertRows DEF IInv
  <2>3. DOMAIN rows = 1..Len(rows) /\ DOMAIN rows' = 1..(Len(rows) + 1)
        /\ \A d \in DOMAIN rows : rows[d] \in Row
    BY <2>2 DEF IInv, Typed
  <2>4. ASSUME NEW d \in Active' PROVE d \in Active /\ rows'[d].key = rows[d].key
    <3>1. d \in 1..(Len(rows) + 1) /\ rows'[d].status = "ACTIVE"
      BY <2>3 DEF Active, HasStatus
    <3>2. d \in 1..Len(rows) /\ rows[d] \in Row
      BY <2>2, <2>3, <3>1
    <3>3. rows'[d] = rows[d]
      BY <2>2, <3>1, <3>2 DEF Row
    <3> QED BY <2>3, <3>1, <3>2, <3>3 DEF Active, HasStatus
  <2>5. /\ Phone(phone[p]) /\ phone' = [phone EXCEPT ![p].call = "mine"]
        /\ UNCHANGED <<keys, overtaken>>
    BY <2>1 DEF RegisterInsert, IInv, Typed
  <2>6. \A q \in Phones : phone'[q] = IF q = p THEN [phone[p] EXCEPT !.call = "mine"] ELSE phone[q]
    BY <2>5 DEF IInv, Typed
  <2>7. Phone([phone[p] EXCEPT !.call = "mine"]) /\ [phone[p] EXCEPT !.call = "mine"].call = "mine"
    BY <2>5 DEF Phone
  <2>8. Typed'
    BY <2>2, <2>5, <2>6, <2>7 DEF IInv, Typed
  <2>9. CheckHolds'
    BY <2>4, <2>5, <2>6, <2>7 DEF IInv, CheckHolds
  <2> QED BY <2>8, <2>9 DEF IInv
<1>2. ASSUME NEW a \in Admins, Approve(a) PROVE IInv'
  <2>1. UNCHANGED <<keys, phone>> /\ rows' \in Seq(Row)
    BY <1>2, AdminRows DEF Approve, IInv
  <2>2. Typed'
    BY <2>1 DEF IInv, Typed
  <2>3. CheckHolds'
    <3>1. CASE rows' = rows
      BY <1>2, <2>1, <3>1, AdminRows DEF IInv, CheckHolds, Active, HasStatus
    <3>2. CASE rows' # rows
      BY <1>2, <2>1, <3>2, AdminRows DEF IInv, CheckHolds
    <3> QED BY <3>1, <3>2
  <2> QED BY <2>2, <2>3 DEF IInv
<1>3. ASSUME NEW e \in DOMAIN rows, Revoke(e) PROVE IInv'
  <2>1. UNCHANGED <<keys, phone, overtaken>>
    BY <1>3 DEF Revoke
  <2>2. Typed'
    BY <1>3, <2>1, RevokeRows DEF IInv, Typed
  <2>3. \A d \in Active' : d \in Active /\ rows'[d].key = rows[d].key
    BY <1>3, RevokeRows DEF IInv, Active, HasStatus
  <2>4. CheckHolds'
    BY <2>1, <2>3 DEF IInv, CheckHolds
  <2> QED BY <2>2, <2>4 DEF IInv
<1> QED BY <1>1, <1>2, <1>3

-----------------------------------------------------------------------------
(* Theorems                                                                *)

\* What the table and the phones hold, and that register's check lasts until its
\* transaction, in every reachable state.
THEOREM Invariance == Spec => []IInv
<1>1. IInv /\ [Next]_vars => IInv'
  <2> SUFFICES ASSUME IInv, [Next]_vars PROVE IInv'
    OBVIOUS
  <2>1. CASE \/ SetUserActive \/ UNCHANGED vars
             \/ \E d \in DOMAIN rows, a \in Admins : ApproveLoad(a, d)
    <3>1. UNCHANGED <<rows, keys, phone, overtaken>>
      BY <2>1 DEF SetUserActive, ApproveLoad, vars
    <3> QED BY <3>1 DEF IInv, Typed, CheckHolds, Active, HasStatus
  <2> QED BY <2>1, PhoneStep, RegisterCheckStep, TableStep DEF Next
<1> QED BY <1>1, InitInv, PTL DEF Spec

\* An active device ends by an approval or a revocation, and is then revoked; no
\* registration, by whatever phone, takes it away (register's transaction).
THEOREM RegistrationsTakeNothing == Spec => ActiveEndsByAdmin
<1>1. IInv /\ [Next]_vars =>
        [\A d \in Active : rows'[d].status # "ACTIVE" =>
           rows'[d].status = "REVOKED" /\ Len(rows') = Len(rows)]_vars
  <2> SUFFICES ASSUME IInv, Next, NEW d \in Active, rows'[d].status # "ACTIVE"
               PROVE  rows'[d].status = "REVOKED" /\ Len(rows') = Len(rows)
    OBVIOUS
  <2>1. d \in DOMAIN rows /\ rows[d].status = "ACTIVE" /\ DOMAIN rows = 1..Len(rows) /\ rows' # rows
    BY DEF Active, HasStatus, IInv, Typed
  <2>2. ASSUME NEW p \in Phones, RegisterInsert(p) PROVE FALSE
    BY <2>1, <2>2, RegisterInsertRows DEF IInv
  <2>3. ASSUME NEW a \in Admins, Approve(a)
        PROVE  rows'[d].status = "REVOKED" /\ Len(rows') = Len(rows)
    BY <2>1, <2>3, AdminRows DEF IInv
  <2>4. ASSUME NEW e \in DOMAIN rows, Revoke(e)
        PROVE  rows'[d].status = "REVOKED" /\ Len(rows') = Len(rows)
    BY <2>1, <2>4, RevokeRows DEF IInv
  <2> QED
    BY <2>1, <2>2, <2>3, <2>4 DEF Next, Login, Expire, Logout, Relaunch, RegisterCheck,
       Registered, ResolveEntryRoute, Poll, ApproveLoad, SetUserActive
<1> QED BY <1>1, Invariance, PTL DEF Spec, ActiveEndsByAdmin

\* No phone registers while another key is active, unless an approval came
\* between register's check and its transaction.
THEOREM RivalsAreRefused == Spec => NoRivalRegistration
<1>1. IInv /\ [Next]_vars =>
        [\A p \in Phones : phone[p].call = "insert" /\ phone'[p].call = "mine" =>
           p \in overtaken \/ \A d \in Active : rows[d].key = phone[p].key]_vars
  BY DEF IInv, CheckHolds
<1> QED BY <1>1, Invariance, PTL DEF Spec, NoRivalRegistration
=============================================================================
