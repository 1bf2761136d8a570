-------------------------------- MODULE Devices --------------------------------
(***************************************************************************)
(* One employee's account and the phones that want to be its device: login *)
(* and refresh with the one-device rule (AuthService), registration,       *)
(* approval and revocation (DevicesService), and the screens that wait for *)
(* them.                                                                   *)
(*                                                                         *)
(* Device rows and keys are numbered as they are made; registeredAt is the *)
(* row's number.  Platforms, audit rows, rate limits and passwords are     *)
(* left out, and so is the encryption of keys at rest: equal keys have     *)
(* equal fingerprints.                                                     *)
(***************************************************************************)
EXTENDS Naturals, Sequences, FiniteSetsExt

CONSTANTS
  Phones,
  Admins,                    \* approvals under way
  None,
  MaxRows, MaxKeys           \* bounds: registrations, keys (installations)

ASSUME DevicesConstants ==
  /\ None \notin Nat /\ MaxRows \in Nat /\ MaxKeys \in Nat

VARIABLES
  active,      \* users.isActive
  rows,        \* devices of the user: [key, status], by number
  keys,        \* number of keys generated
  phone,       \* per phone: key, session, screen, call under way
  admin,       \* the device an approval has loaded
  overtaken    \* history: registrations that passed their check before an approval

vars == <<active, rows, keys, phone, admin, overtaken>>

\* A row that a later registration replaced is "DELETED".
Statuses == {"PENDING_APPROVAL", "ACTIVE", "REVOKED"}
DeviceRow == [key : 1..MaxKeys, status : Statuses \cup {"DELETED"}]

\* key 0 is an empty keystore; current is what the device screen shows.
Installed == [key |-> 0, session |-> FALSE, fresh |-> FALSE, screen |-> "entry",
              current |-> None, call |-> "none"]

TypeOK ==
  /\ active \in BOOLEAN /\ rows \in Seq(DeviceRow) /\ keys \in 0..MaxKeys
  /\ \A p \in Phones :
       /\ phone[p].key \in 0..keys
       /\ phone[p].screen \in {"entry", "login", "device", "home"}
       /\ phone[p].current \in Statuses \cup {None}
       /\ phone[p].call \in {"none", "insert", "mine"}
  /\ overtaken \subseteq Phones

Init ==
  /\ active = TRUE /\ rows = <<>> /\ keys = 0
  /\ phone = [p \in Phones |-> Installed]
  /\ admin = [a \in Admins |-> None]
  /\ overtaken = {}

HasStatus(s) == {d \in DOMAIN rows : rows[d].status = s}
Active == HasStatus("ACTIVE")

-----------------------------------------------------------------------------
(* Login and refresh                                                       *)

\* fingerprintCheck: does a row with this status have the phone's key?
Matches(p, s) == \E d \in HasStatus(s) : rows[d].key = phone[p].key

\* enforceDeviceBinding: no revoked key, and only the active one if there is one.
EnforceDeviceBinding(p) ==
  /\ Matches(p, "REVOKED") => Matches(p, "ACTIVE")
  /\ Active # {} => Matches(p, "ACTIVE")

Login(p) ==
  /\ phone[p].screen = "login"
  /\ active /\ EnforceDeviceBinding(p)
  /\ phone' = [phone EXCEPT ![p].session = TRUE, ![p].fresh = TRUE,
                            ![p].screen = "entry"]
  /\ UNCHANGED <<active, rows, keys, admin, overtaken>>

\* AuthService.refresh, behind apiRequest: an expired access token is renewed
\* under the same rules, or the session is over.
Refresh(p) == active /\ EnforceDeviceBinding(p)
Allowed(p) == phone[p].session /\ (phone[p].fresh \/ Refresh(p))
Rejected(p) == [phone[p] EXCEPT !.session = FALSE, !.fresh = FALSE]
Accepted(p) == [phone[p] EXCEPT !.fresh = TRUE]

Expire(p) ==
  /\ phone[p].fresh
  /\ phone' = [phone EXCEPT ![p].fresh = FALSE]
  /\ UNCHANGED <<active, rows, keys, admin, overtaken>>

-----------------------------------------------------------------------------
(* DevicesService                                                          *)

\* findMine: the newest row of the user, whichever phone registered it.
FindMine ==
  LET there == {d \in DOMAIN rows : rows[d].status # "DELETED"} IN
  IF there = {} THEN None ELSE rows[Max(there)].status

\* getOrCreateDeviceKey: the keystore's key, or the next one.
KeyOf(p) == IF phone[p].key = 0 THEN keys + 1 ELSE phone[p].key

\* Mutant of RegisterCheck: the check asks only whether the phone may talk.
RegisterUnchecked(p) ==
  LET ph == [Accepted(p) EXCEPT !.key = KeyOf(p)] IN
  /\ phone[p].screen = "device" /\ phone[p].call = "none"
  /\ phone[p].current \in {None, "REVOKED"}
  /\ KeyOf(p) <= MaxKeys /\ keys' = IF phone[p].key = 0 THEN keys + 1 ELSE keys
  /\ phone' = [phone EXCEPT ![p] =
       IF Allowed(p) THEN [ph EXCEPT !.call = "insert"]
       ELSE [Rejected(p) EXCEPT !.key = KeyOf(p)]]
  /\ overtaken' = overtaken \ {p}
  /\ UNCHANGED <<active, rows, admin>>

\* The button on the device screen: a key if there is none, then register's
\* check that no other key is active.
RegisterCheck(p) ==
  LET ph == [Accepted(p) EXCEPT !.key = KeyOf(p)] IN
  /\ phone[p].screen = "device" /\ phone[p].call = "none"
  /\ phone[p].current \in {None, "REVOKED"}
  /\ KeyOf(p) <= MaxKeys /\ keys' = IF phone[p].key = 0 THEN keys + 1 ELSE keys
  /\ phone' = [phone EXCEPT ![p] =
       IF ~Allowed(p) THEN [Rejected(p) EXCEPT !.key = KeyOf(p)]
       ELSE IF \A d \in Active : rows[d].key = KeyOf(p)
            THEN [ph EXCEPT !.call = "insert"] ELSE ph]
  /\ overtaken' = overtaken \ {p}
  /\ UNCHANGED <<active, rows, admin>>

\* Mutant of RegisterInsert: the registration replaces whatever there was.
RegisterReplace(p) ==
  /\ phone[p].call = "insert" /\ Len(rows) < MaxRows
  /\ rows' = Append([d \in DOMAIN rows |-> [rows[d] EXCEPT !.status = "DELETED"]],
       [key |-> phone[p].key, status |-> "PENDING_APPROVAL"])
  /\ phone' = [phone EXCEPT ![p].call = "mine"]
  /\ UNCHANGED <<active, keys, admin, overtaken>>

\* register's transaction: the new row replaces every pending one.
RegisterInsert(p) ==
  /\ phone[p].call = "insert" /\ Len(rows) < MaxRows
  /\ rows' = Append([d \in DOMAIN rows |->
                       IF rows[d].status = "PENDING_APPROVAL"
                       THEN [rows[d] EXCEPT !.status = "DELETED"] ELSE rows[d]],
                    [key |-> phone[p].key, status |-> "PENDING_APPROVAL"])
  /\ phone' = [phone EXCEPT ![p].call = "mine"]
  /\ UNCHANGED <<active, keys, admin, overtaken>>

\* approve loads the device, pending or not; it may be replaced meanwhile.
ApproveLoad(a, d) ==
  /\ admin[a] = None /\ rows[d].status # "DELETED"
  /\ admin' = [admin EXCEPT ![a] = d]
  /\ UNCHANGED <<active, rows, keys, phone, overtaken>>

\* approve's transaction, or its failure: of two at once the unique index
\* devices_one_active_per_user lets one through.  A deleted row stays deleted.
Approve(a) ==
  /\ admin[a] # None
  /\ \/ /\ rows' = [d \in DOMAIN rows |->
             IF d = admin[a]
             THEN [rows[d] EXCEPT !.status = IF @ = "DELETED" THEN @ ELSE "ACTIVE"]
             ELSE [rows[d] EXCEPT !.status = IF @ = "ACTIVE" THEN "REVOKED" ELSE @]]
        /\ overtaken' = overtaken \cup {p \in Phones : phone[p].call = "insert"}
     \/ UNCHANGED <<rows, overtaken>>
  /\ admin' = [admin EXCEPT ![a] = None]
  /\ UNCHANGED <<active, keys, phone>>

Revoke(d) ==
  /\ rows[d].status # "DELETED"
  /\ rows' = [rows EXCEPT ![d].status = "REVOKED"]
  /\ UNCHANGED <<active, keys, phone, admin, overtaken>>

\* UsersService.update, deactivate.
SetUserActive ==
  /\ active' = ~active
  /\ UNCHANGED <<rows, keys, phone, admin, overtaken>>

-----------------------------------------------------------------------------
(* The app                                                                 *)

\* resolveEntryRoute: home needs an active device and a key in the keystore.
ResolveEntryRoute(p) ==
  LET mine == FindMine IN
  /\ phone[p].screen = "entry"
  /\ phone' = [phone EXCEPT ![p] =
       IF ~Allowed(p) THEN [Rejected(p) EXCEPT !.screen = "login"]
       ELSE IF mine = "ACTIVE" /\ phone[p].key # 0
       THEN [Accepted(p) EXCEPT !.screen = "home"]
       ELSE [Accepted(p) EXCEPT !.screen = "device",
               !.current = IF mine = "ACTIVE" THEN None ELSE mine]]
  /\ UNCHANGED <<active, rows, keys, admin, overtaken>>

\* After the registration the screen asks what the device's status is.
Registered(p) ==
  /\ phone[p].call = "mine"
  /\ phone' = [phone EXCEPT ![p] =
       IF Allowed(p) THEN [Accepted(p) EXCEPT !.call = "none", !.current = FindMine]
       ELSE [Rejected(p) EXCEPT !.call = "none"]]
  /\ UNCHANGED <<active, rows, keys, admin, overtaken>>

Waiting(p) == phone[p].screen = "device" /\ phone[p].current = "PENDING_APPROVAL"

\* Mutant of Poll: it shows what it learns and leaves it at that.
PollShows(p) ==
  /\ Waiting(p)
  /\ phone' = [phone EXCEPT ![p] =
       IF ~Allowed(p) THEN Rejected(p) ELSE [Accepted(p) EXCEPT !.current = FindMine]]
  /\ UNCHANGED <<active, rows, keys, admin, overtaken>>

\* The interval of the device screen, as long as it shows a pending device.
Poll(p) ==
  /\ Waiting(p)
  /\ phone' = [phone EXCEPT ![p] =
       IF ~Allowed(p) THEN Rejected(p)
       ELSE IF FindMine = "ACTIVE" THEN [Accepted(p) EXCEPT !.screen = "home", !.current = None]
       ELSE [Accepted(p) EXCEPT !.current = FindMine]]
  /\ UNCHANGED <<active, rows, keys, admin, overtaken>>

Logout(p) ==
  /\ phone[p].screen \in {"device", "home"} /\ phone[p].call = "none"
  /\ phone' = [phone EXCEPT ![p] = [Rejected(p) EXCEPT !.screen = "login", !.current = None]]
  /\ UNCHANGED <<active, rows, keys, admin, overtaken>>

\* The app is launched again, or reinstalled: storage and keystore are wiped.
Relaunch(p) ==
  /\ phone[p].call = "none" /\ phone[p].screen # "entry"
  /\ \/ phone' = [phone EXCEPT ![p].screen = "entry", ![p].current = None]
     \/ phone' = [phone EXCEPT ![p] = Installed]
  /\ UNCHANGED <<active, rows, keys, admin, overtaken>>

Next ==
  \/ \E p \in Phones : \/ Login(p) \/ Expire(p) \/ Logout(p) \/ Relaunch(p)
                       \/ RegisterCheck(p) \/ RegisterInsert(p) \/ Registered(p)
                       \/ ResolveEntryRoute(p) \/ Poll(p)
  \/ \E d \in DOMAIN rows : Revoke(d) \/ \E a \in Admins : ApproveLoad(a, d)
  \/ \E a \in Admins : Approve(a)
  \/ SetUserActive

Spec == Init /\ [][Next]_vars

\* The poll is a timer, and requests end; nobody has to press or approve anything.
FairSpec ==
  /\ Spec
  /\ \A p \in Phones : WF_vars(Poll(p)) /\ WF_vars(ResolveEntryRoute(p))

-----------------------------------------------------------------------------
(* What the binding promises                                               *)

\* "an ACTIVE device stays active until an admin approves the new one": no
\* registration takes it away, only its revocation or an approval does.
ActiveEndsByAdmin ==
  [][\A d \in Active : rows'[d].status # "ACTIVE" =>
       rows'[d].status = "REVOKED" /\ Len(rows') = Len(rows)]_vars

\* "while an ACTIVE binding exists, no other device may register", unless the
\* approval came between register's check and its transaction.
NoRivalRegistration ==
  [][\A p \in Phones : phone[p].call = "insert" /\ phone'[p].call = "mine" =>
       p \in overtaken \/ \A d \in Active : rows[d].key = phone[p].key]_vars

\* "Once approved, this screen closes by itself": a phone that waits while the
\* newest device is active leaves the device screen, unless it loses the status
\* or the session first.
WaitingEnds ==
  \A p \in Phones : Waiting(p) /\ FindMine = "ACTIVE" ~>
     phone[p].screen # "device" \/ FindMine # "ACTIVE" \/ ~phone[p].session

\* The device screen "waits for admin approval" of the key it registered: a
\* phone that got home has a key that was approved.
HomeHasApprovedKey ==
  \A p \in Phones : phone[p].screen = "home" =>
    \E d \in DOMAIN rows : rows[d].key = phone[p].key /\ rows[d].status \in {"ACTIVE", "REVOKED"}
=============================================================================
