------------------------------- MODULE CheckIn -------------------------------
(***************************************************************************)
(* POST /attendance/check: the nine-step verification chain of             *)
(* AttendanceVerificationService.verifyAndRecord, one action per await, so *)
(* that several requests, the tablet's QR rotation and nonce sync, the     *)
(* administrators and failures interleave between any two database calls.  *)
(*                                                                         *)
(* HMACs are symbolic: a signature is the record of its inputs, and two    *)
(* signatures agree exactly when the inputs do.  Audit rows, wording, the  *)
(* IN/OUT type and the late minutes are abstracted.                        *)
(***************************************************************************)
EXTENDS Integers, FiniteSets

CONSTANTS
  Users, Tablets, Keys, Secrets, Nonces, Challenges,
  Requests,                  \* HTTP requests to /attendance/check
  None,
  QR_TS_MAX_SKEW_SECONDS, CHALLENGE_TTL_SECONDS, DUPLICATE_WINDOW_SECONDS,
  NONCE_HISTORY_SIZE, TABLET_AUTH_MAX_SKEW_SECONDS,
  KioskDrift,                \* kiosk clock minus server clock, per tablet
  ManualTimes,               \* timestamps an administrator may type
  MaxTime, MaxAdmin          \* bounds: last clock value, administrator actions

ASSUME CheckInConstants ==
  /\ QR_TS_MAX_SKEW_SECONDS \in Nat
  /\ CHALLENGE_TTL_SECONDS \in Nat
  /\ DUPLICATE_WINDOW_SECONDS \in Nat
  /\ NONCE_HISTORY_SIZE \in Nat /\ TABLET_AUTH_MAX_SKEW_SECONDS \in Nat
  /\ KioskDrift \in [Tablets -> Int]
  /\ ManualTimes \subseteq Nat
  /\ MaxTime \in Nat /\ MaxAdmin \in Nat

VARIABLES
  clock,           \* server time
  admin,           \* administrator actions taken so far
  userActive,      \* users.isActive
  deviceKey,       \* key of the user's ACTIVE device, or None
  tabletActive,    \* tablets.isActive
  tabletSecret,    \* tablets.tabletSecretEncrypted, or None before the first claim
  nonceRow,        \* qr_nonces: "absent", "unused" or "used" (usedAt set)
  challenge,       \* challenges row [user, tablet, expiresAt], or None
  challengeUsed,   \* challenges whose usedAt is set
  records,         \* attendance_records row inserted by a request, or None
  kioskSecret,     \* secret the kiosk holds, or None
  shown,           \* nonce the kiosk shows and answers BLE reads with, or None
  qr,              \* QR token a kiosk generated for a nonce, or None
  proof,           \* BLE response and device signature obtained for it, or None
  pc, verdict,     \* next step of a request; step that answered it, or None
  who, what, at,   \* its JWT user, its challenge id, its `now`
  token,           \* the nonce of its qrPayload, or None
  secret           \* the tablet secret it read in step 3

dbVars    == <<userActive, deviceKey, tabletActive, tabletSecret>>
rowVars   == <<nonceRow, challengeUsed, records>>
kioskVars == <<kioskSecret, shown, qr>>
phoneVars == <<challenge, proof>>
reqVars   == <<pc, verdict, who, what, token, at, secret>>
vars == <<clock, admin, dbVars, rowVars, kioskVars, phoneVars, reqVars>>

Steps == {"user", "device", "tablet", "insert", "claim", "owner", "consume",
          "ble", "duplicate", "save", "reply"}
InFlight(r) == pc[r] \in Steps
Qr(r)       == qr[token[r]]              \* the request's qrPayload

\* The rows and messages: a challenges row, an attendance_records row, a QR
\* token, and what the phone adds to it after the BLE exchange.
ChallengeRow == [user : Users, tablet : Tablets, expiresAt : Int]
RecordRow    == [user : Users, tablet : Tablets, challenge : Challenges,
                 timestamp : Int, createdAt : Int, isManual : BOOLEAN]
QrToken      == [tid : Tablets, ts : Int, key : Secrets]
Proof        == [secret : Secrets, nonce : Nonces, key : Keys]
ASSUME NoRecordIsNone == None \notin RecordRow

TypeOK ==
  /\ clock \in 0..MaxTime /\ admin \in 0..MaxAdmin
  /\ userActive \in [Users -> BOOLEAN]
  /\ deviceKey \in [Users -> Keys \cup {None}]
  /\ tabletActive \in [Tablets -> BOOLEAN]
  /\ tabletSecret \in [Tablets -> Secrets \cup {None}]
  /\ nonceRow \in [Nonces -> {"absent", "unused", "used"}]
  /\ challenge \in [Challenges -> ChallengeRow \cup {None}]
  /\ challengeUsed \subseteq Challenges
  /\ records \in [Requests -> RecordRow \cup {None}]
  /\ kioskSecret \in [Tablets -> Secrets \cup {None}]
  /\ shown \in [Tablets -> Nonces \cup {None}]
  /\ qr \in [Nonces -> QrToken \cup {None}]
  /\ proof \in [Challenges -> Proof \cup {None}]
  /\ pc \in [Requests -> Steps \cup {"idle", "answered", "aborted"}]
  /\ verdict \in [Requests -> 1..9 \cup {None}]
  /\ who \in [Requests -> Users \cup {None}]
  /\ what \in [Requests -> Challenges \cup {None}]
  /\ token \in [Requests -> Nonces \cup {None}]
  /\ at \in [Requests -> Int]
  /\ secret \in [Requests -> Secrets \cup {None}]

\* Claimed tablets with secrets of their own, nothing scanned yet.
Init ==
  /\ clock = 0 /\ admin = 0
  /\ userActive = [u \in Users |-> TRUE]
  /\ deviceKey \in [Users -> Keys]
  /\ tabletActive = [t \in Tablets |-> TRUE]
  /\ tabletSecret \in [Tablets -> Secrets]
  /\ \A t1, t2 \in Tablets : t1 # t2 => tabletSecret[t1] # tabletSecret[t2]
  /\ nonceRow = [n \in Nonces |-> "absent"]
  /\ challenge = [c \in Challenges |-> None] /\ challengeUsed = {}
  /\ records = [r \in Requests |-> None]
  /\ kioskSecret = tabletSecret
  /\ shown = [t \in Tablets |-> None]
  /\ qr = [n \in Nonces |-> None]
  /\ proof = [c \in Challenges |-> None]
  /\ pc = [r \in Requests |-> "idle"]
  /\ verdict = [r \in Requests |-> None]
  /\ who = [r \in Requests |-> None] /\ what = [r \in Requests |-> None]
  /\ token = [r \in Requests |-> None]
  /\ at = [r \in Requests |-> 0] /\ secret = [r \in Requests |-> None]

-----------------------------------------------------------------------------
(* Time and administrators                                                 *)

Tick ==
  /\ clock < MaxTime
  /\ clock' = clock + 1
  /\ UNCHANGED <<admin, dbVars, rowVars, kioskVars, phoneVars, reqVars>>

AdminStep ==
  /\ admin < MaxAdmin
  /\ admin' = admin + 1
  /\ UNCHANGED <<clock, nonceRow, challengeUsed, kioskVars, phoneVars, reqVars>>

SetUserActive(u, b) ==
  /\ AdminStep
  /\ userActive' = [userActive EXCEPT ![u] = b]
  /\ UNCHANGED <<deviceKey, tabletActive, tabletSecret, records>>

\* Approval makes k the user's only ACTIVE key; revocation leaves none.
SetDevice(u, k) ==
  /\ AdminStep
  /\ deviceKey' = [deviceKey EXCEPT ![u] = k]
  /\ UNCHANGED <<userActive, tabletActive, tabletSecret, records>>

SetTabletActive(t, b) ==
  /\ AdminStep
  /\ tabletActive' = [tabletActive EXCEPT ![t] = b]
  /\ UNCHANGED <<userActive, deviceKey, tabletSecret, records>>

\* A fresh random secret replaces the old one as soon as the code is claimed.
ClaimTablet(t, s) ==
  /\ AdminStep
  /\ s \notin {tabletSecret[x] : x \in Tablets} \cup {kioskSecret[x] : x \in Tablets}
  /\ tabletSecret' = [tabletSecret EXCEPT ![t] = s]
  /\ UNCHANGED <<userActive, deviceKey, tabletActive, records>>

\* Heartbeat, sync and update save the whole row they loaded: a claim or a
\* change of isActive in between is undone, back to a secret t once signed with.
ResaveTablet(t, s, b) ==
  /\ AdminStep
  /\ \E n \in Nonces : qr[n] # None /\ qr[n].tid = t /\ qr[n].key = s
  /\ tabletSecret' = [tabletSecret EXCEPT ![t] = s]
  /\ tabletActive' = [tabletActive EXCEPT ![t] = b]
  /\ UNCHANGED <<userActive, deviceKey, records>>

\* Mutant: the correction is not flagged as manual.
PatchRecordUnflagged(r, ts) ==
  /\ AdminStep
  /\ records[r] # None
  /\ records' = [records EXCEPT ![r].timestamp = ts]
  /\ UNCHANGED dbVars

PatchRecord(r, ts) ==
  /\ AdminStep
  /\ records[r] # None
  /\ records' = [records EXCEPT ![r].timestamp = ts, ![r].isManual = TRUE]
  /\ UNCHANGED dbVars

-----------------------------------------------------------------------------
(* Kiosk and phone, as far as they produce what the server verifies        *)

\* The claim's answer reaches the kiosk, which starts over with a new generator.
StoreSecret(t) ==
  /\ kioskSecret[t] # tabletSecret[t]
  /\ kioskSecret' = [kioskSecret EXCEPT ![t] = tabletSecret[t]]
  /\ shown' = [shown EXCEPT ![t] = None]
  /\ UNCHANGED <<clock, admin, qr, dbVars, rowVars, phoneVars, reqVars>>

\* Every QR_ROTATION_SECONDS, online or not.
RotateQr(t, n) ==
  /\ kioskSecret[t] # None /\ qr[n] = None
  /\ qr' = [qr EXCEPT ![n] =
              [tid |-> t, ts |-> clock + KioskDrift[t], key |-> kioskSecret[t]]]
  /\ shown' = [shown EXCEPT ![t] = n]
  /\ UNCHANGED <<clock, admin, kioskSecret, dbVars, rowVars, phoneVars, reqVars>>

\* INSERT ... ON CONFLICT DO NOTHING of the nonces the kiosk has not synced.
SyncNonces(t, S) ==
  /\ tabletActive[t] /\ kioskSecret[t] # None /\ kioskSecret[t] = tabletSecret[t]
  /\ KioskDrift[t] <= TABLET_AUTH_MAX_SKEW_SECONDS
  /\ -KioskDrift[t] <= TABLET_AUTH_MAX_SKEW_SECONDS
  /\ \A n \in S : qr[n] # None /\ qr[n].tid = t
  /\ nonceRow' = [n \in Nonces |->
       IF n \in S /\ nonceRow[n] = "absent" THEN "unused" ELSE nonceRow[n]]
  /\ UNCHANGED <<clock, admin, challengeUsed, records, dbVars, kioskVars, phoneVars, reqVars>>

\* createChallenge, for the tablet of a QR the phone has scanned, or any other.
RequestChallenge(u, t, c) ==
  /\ challenge[c] = None /\ tabletActive[t]
  /\ challenge' = [challenge EXCEPT ![c] =
       [user |-> u, tablet |-> t, expiresAt |-> clock + CHALLENGE_TTL_SECONDS]]
  /\ UNCHANGED <<clock, admin, proof, dbVars, rowVars, kioskVars, reqVars>>

\* BLE exchange: the kiosk answers with the nonce it shows NOW; the phone signs.
Prove(c, k) ==
  /\ challenge[c] # None /\ proof[c] = None
  /\ LET t == challenge[c].tablet IN
       /\ kioskSecret[t] # None /\ shown[t] # None
       /\ proof' = [proof EXCEPT ![c] =
            [secret |-> kioskSecret[t], nonce |-> shown[t], key |-> k]]
  /\ UNCHANGED <<clock, admin, challenge, dbVars, rowVars, kioskVars, reqVars>>

-----------------------------------------------------------------------------
(* The server.  A request starts with `now`; then one action per await.    *)

\* A first sending, a resending from the phone's queue, or a body put together
\* anew: the device signs the challenge with its BLE response, not the QR, which
\* may be any that a kiosk has shown; and any user may be logged in by then.
Submit(r, u, c, n) ==
  /\ pc[r] = "idle" /\ proof[c] # None /\ qr[n] # None
  /\ pc' = [pc EXCEPT ![r] = "user"]
  /\ who' = [who EXCEPT ![r] = u]
  /\ what' = [what EXCEPT ![r] = c]
  /\ token' = [token EXCEPT ![r] = n]
  /\ at' = [at EXCEPT ![r] = clock]
  /\ UNCHANGED <<clock, admin, verdict, secret, dbVars, rowVars, kioskVars, phoneVars>>

\* A step passes on to the next one, or answers 403.
Judge(r, step, passes, next) ==
  /\ pc' = [pc EXCEPT ![r] = IF passes THEN next ELSE "answered"]
  /\ verdict' = [verdict EXCEPT ![r] = IF passes THEN None ELSE step]
  /\ UNCHANGED <<clock, admin, who, what, token, at, dbVars, kioskVars, phoneVars>>

CheckUser(r) ==
  /\ pc[r] = "user"
  /\ Judge(r, 1, userActive[who[r]], "device")
  /\ UNCHANGED <<secret, rowVars>>

CheckDevice(r) ==
  /\ pc[r] = "device"
  /\ Judge(r, 2, deviceKey[who[r]] = proof[what[r]].key, "tablet")
  /\ UNCHANGED <<secret, rowVars>>

\* Steps 3 and 4: one read of the tablet, then its QR signature and its age.
CheckQr(r) ==
  /\ pc[r] = "tablet"
  /\ LET q == Qr(r)
         signed == tabletActive[q.tid] /\ tabletSecret[q.tid] = q.key
         drift  == at[r] - q.ts
         recent == drift <= QR_TS_MAX_SKEW_SECONDS /\ -drift <= QR_TS_MAX_SKEW_SECONDS
     IN  /\ Judge(r, IF signed THEN 4 ELSE 3, signed /\ recent, "insert")
         /\ secret' = [secret EXCEPT ![r] = tabletSecret[q.tid]]
  /\ UNCHANGED rowVars

\* Mutant: an upsert that resets usedAt.
InsertNonceUpsert(r) ==
  /\ pc[r] = "insert"
  /\ Judge(r, 5, TRUE, "claim")
  /\ nonceRow' = [nonceRow EXCEPT ![token[r]] = "unused"]
  /\ UNCHANGED <<secret, challengeUsed, records>>

\* Step 5, first statement: a duplicate is ignored, and so is any other failure.
InsertNonce(r) ==
  /\ pc[r] = "insert"
  /\ Judge(r, 5, TRUE, "claim")
  /\ \/ nonceRow' = [nonceRow EXCEPT ![token[r]] = IF @ = "absent" THEN "unused" ELSE @]
     \/ UNCHANGED nonceRow
  /\ UNCHANGED <<secret, challengeUsed, records>>

\* Mutants: the claim without its condition; a claim that waits instead of failing.
ClaimNonceUnguarded(r) ==
  /\ pc[r] = "claim"
  /\ Judge(r, 5, nonceRow[token[r]] # "absent", "owner")
  /\ nonceRow' = [nonceRow EXCEPT ![token[r]] = IF @ = "absent" THEN @ ELSE "used"]
  /\ UNCHANGED <<secret, challengeUsed, records>>
ClaimNonceWaiting(r) ==
  /\ pc[r] = "claim" /\ nonceRow[token[r]] = "unused"
  /\ Judge(r, 5, TRUE, "owner")
  /\ nonceRow' = [nonceRow EXCEPT ![token[r]] = "used"]
  /\ UNCHANGED <<secret, challengeUsed, records>>

\* Step 5, second statement: UPDATE ... WHERE "usedAt" IS NULL.
ClaimNonce(r) ==
  /\ pc[r] = "claim"
  /\ Judge(r, 5, nonceRow[token[r]] = "unused", "owner")
  /\ nonceRow' = [nonceRow EXCEPT ![token[r]] = IF @ = "unused" THEN "used" ELSE @]
  /\ UNCHANGED <<secret, challengeUsed, records>>

\* Mutants: only the challenge's tablet is compared; only its user is.
CheckOwnerAnyUser(r) ==
  /\ pc[r] = "owner"
  /\ Judge(r, 6, challenge[what[r]].tablet = Qr(r).tid, "consume")
  /\ UNCHANGED <<secret, rowVars>>
CheckOwnerAnyTablet(r) ==
  /\ pc[r] = "owner"
  /\ Judge(r, 6, challenge[what[r]].user = who[r], "consume")
  /\ UNCHANGED <<secret, rowVars>>

CheckOwner(r) ==
  /\ pc[r] = "owner"
  /\ Judge(r, 6, challenge[what[r]].user = who[r] /\ challenge[what[r]].tablet = Qr(r).tid,
           "consume")
  /\ UNCHANGED <<secret, rowVars>>

\* Mutant: the update without its usedAt condition.
ConsumeChallengeReused(r) ==
  /\ pc[r] = "consume"
  /\ LET open == challenge[what[r]].expiresAt >= at[r]
     IN  /\ Judge(r, 6, open, "ble")
         /\ challengeUsed' = IF open THEN challengeUsed \cup {what[r]} ELSE challengeUsed
  /\ UNCHANGED <<secret, nonceRow, records>>

\* UPDATE ... WHERE "usedAt" IS NULL AND "expiresAt" >= now.
ConsumeChallenge(r) ==
  /\ pc[r] = "consume"
  /\ LET open == what[r] \notin challengeUsed /\ challenge[what[r]].expiresAt >= at[r]
     IN  /\ Judge(r, 6, open, "ble")
         /\ challengeUsed' = IF open THEN challengeUsed \cup {what[r]} ELSE challengeUsed
  /\ UNCHANGED <<secret, nonceRow, records>>

\* The newest NONCE_HISTORY_SIZE rows of the tablet; ties in any order.
RecentNonces(t) ==
  LET known == {n \in Nonces : nonceRow[n] # "absent" /\ qr[n].tid = t}
  IN  {S \in SUBSET known :
         /\ Cardinality(S) <= NONCE_HISTORY_SIZE
         /\ S = known \/ Cardinality(S) = NONCE_HISTORY_SIZE
         /\ \A m \in S, n \in known \ S : qr[m].ts >= qr[n].ts}

CheckBle(r) ==
  /\ pc[r] = "ble"
  /\ \E S \in RecentNonces(Qr(r).tid) :
       Judge(r, 7, /\ proof[what[r]].secret = secret[r]
                   /\ proof[what[r]].nonce \in S \cup {token[r]}, "duplicate")
  /\ UNCHANGED <<secret, rowVars>>

\* Mutant: the window's first instant is left out.
RecentStrict(r) ==
  {x \in Requests : /\ records[x] # None
                    /\ records[x].user = who[r]
                    /\ records[x].timestamp > at[r] - DUPLICATE_WINDOW_SECONDS}

\* Records of the user whose timestamp is not older than the window.
Recent(r) ==
  {x \in Requests : /\ records[x] # None
                    /\ records[x].user = who[r]
                    /\ records[x].timestamp >= at[r] - DUPLICATE_WINDOW_SECONDS}

CheckDuplicate(r) ==
  /\ pc[r] = "duplicate"
  /\ Judge(r, 8, Recent(r) = {}, "save")
  /\ UNCHANGED <<secret, rowVars>>

SaveRecord(r) ==
  /\ pc[r] = "save"
  /\ Judge(r, 9, TRUE, "reply")
  /\ records' = [records EXCEPT ![r] =
       [user |-> who[r], tablet |-> Qr(r).tid, challenge |-> what[r],
        timestamp |-> at[r], createdAt |-> clock, isManual |-> FALSE]]
  /\ UNCHANGED <<secret, nonceRow, challengeUsed>>

Reply(r) ==
  /\ pc[r] = "reply"
  /\ Judge(r, 9, FALSE, "answered")
  /\ UNCHANGED <<secret, rowVars>>

\* A database error (500) or a crash of the API process between two awaits.
Abort(r) ==
  /\ InFlight(r)
  /\ pc' = [pc EXCEPT ![r] = "aborted"]
  /\ UNCHANGED <<clock, admin, verdict, who, what, token, at, secret,
                 dbVars, rowVars, kioskVars, phoneVars>>

Handle(r) ==
  \/ CheckUser(r) \/ CheckDevice(r) \/ CheckQr(r) \/ InsertNonce(r)
  \/ ClaimNonce(r) \/ CheckOwner(r) \/ ConsumeChallenge(r) \/ CheckBle(r)
  \/ CheckDuplicate(r) \/ SaveRecord(r) \/ Reply(r)

Administer ==
  \/ \E u \in Users, b \in BOOLEAN : SetUserActive(u, b)
  \/ \E u \in Users, k \in Keys \cup {None} : SetDevice(u, k)
  \/ \E t \in Tablets, b \in BOOLEAN : SetTabletActive(t, b)
  \/ \E t \in Tablets, s \in Secrets : ClaimTablet(t, s)
  \/ \E t \in Tablets, s \in Secrets, b \in BOOLEAN : ResaveTablet(t, s, b)
  \/ \E r \in Requests, ts \in ManualTimes : PatchRecord(r, ts)

Operate ==
  \/ \E t \in Tablets : StoreSecret(t)
  \/ \E t \in Tablets, n \in Nonces : RotateQr(t, n)
  \/ \E t \in Tablets, S \in SUBSET Nonces : SyncNonces(t, S)
  \/ \E u \in Users, t \in Tablets, c \in Challenges : RequestChallenge(u, t, c)
  \/ \E c \in Challenges, k \in Keys : Prove(c, k)
  \/ \E r \in Requests, u \in Users, c \in Challenges, n \in Nonces : Submit(r, u, c, n)

Next == Tick \/ Administer \/ Operate \/ \E r \in Requests : Handle(r) \/ Abort(r)

Spec == Init /\ [][Next]_vars

\* Node's event loop and the database answer every statement or fail it.
FairSpec == Spec /\ \A r \in Requests : WF_vars(Handle(r))

-----------------------------------------------------------------------------
(* What the chain promises                                                 *)

Recorded(r) == records[r] # None
Answered(r, step) == pc[r] = "answered" /\ verdict[r] = step

\* A QR nonce is worth one record, however many requests carry it at once, with
\* whatever challenges (the atomic claim of step 5).
OneRecordPerNonce ==
  \A r1, r2 \in Requests :
    Recorded(r1) /\ Recorded(r2) /\ token[r1] = token[r2] => r1 = r2

\* A record stands on a spent challenge of that very user and tablet, used
\* before it expired, a spent nonce of a QR of that tablet and of the right age,
\* and one secret behind the QR, the BLE response and the server, whatever
\* challenge and QR a body combines (steps 3 to 7 together).
RecordJustified ==
  \A r \in Requests : Recorded(r) =>
    LET rec == records[r]
        c == challenge[rec.challenge]
        drift == rec.timestamp - Qr(r).ts
    IN  /\ rec.challenge \in challengeUsed /\ nonceRow[token[r]] = "used"
        /\ rec.user = c.user /\ rec.tablet = c.tablet /\ rec.tablet = Qr(r).tid
        /\ ~rec.isManual => /\ rec.timestamp <= c.expiresAt
                            /\ drift <= QR_TS_MAX_SKEW_SECONDS
                            /\ -drift <= QR_TS_MAX_SKEW_SECONDS
        /\ Qr(r).key = proof[rec.challenge].secret

\* Two records of one user lie within the duplicate window only if their
\* requests overlapped: each was accepted (its timestamp) no later than the
\* other was inserted (step 8 against step 9 of another request).
DuplicatesOnlyIfOverlapping ==
  \A r1, r2 \in Requests :
    /\ r1 # r2 /\ Recorded(r1) /\ Recorded(r2)
    /\ records[r1].user = records[r2].user
    /\ ~records[r1].isManual /\ ~records[r2].isManual
    /\ records[r1].createdAt < records[r2].timestamp
    => records[r2].timestamp - records[r1].timestamp > DUPLICATE_WINDOW_SECONDS

\* "Window in which a second check by the same user is rejected as duplicate".
NoDuplicateWithinWindow ==
  \A r1, r2 \in Requests :
    /\ r1 # r2 /\ Recorded(r1) /\ Recorded(r2)
    /\ records[r1].user = records[r2].user
    /\ ~records[r1].isManual /\ ~records[r2].isManual
    => \/ records[r2].timestamp - records[r1].timestamp > DUPLICATE_WINDOW_SECONDS
       \/ records[r1].timestamp - records[r2].timestamp > DUPLICATE_WINDOW_SECONDS

\* x is past step 6 of the chain, or died on its way.
Consumed(x) ==
  \/ pc[x] \in {"ble", "duplicate", "save", "reply", "aborted"}
  \/ pc[x] = "answered" /\ verdict[x] \in 7..9

\* Step 6 refuses a challenge of the user and tablet, in time, only if the user
\* has used it with another QR of that tablet: a replayed challenge is refused
\* ("step 6 challenge_expired_or_used"), while a body that is resent as it was never
\* gets there, and a body refused at step 6 spends no challenge.
ChallengeRefusalHasCause ==
  \A r \in Requests : Answered(r, 6) =>
    LET c == challenge[what[r]] IN
    \/ who[r] # c.user \/ Qr(r).tid # c.tablet \/ at[r] > c.expiresAt
    \/ \E x \in Requests :
         /\ what[x] = what[r] /\ who[x] = c.user /\ Consumed(x)
         /\ token[x] # token[r] /\ Qr(x).tid = c.tablet

\* Step 7 refuses a phone that did talk to the tablet only if the tablet's
\* secret was replaced meanwhile; in particular not because it is offline.
BleRefusalMeansNewSecret ==
  \A r \in Requests : Answered(r, 7) => proof[what[r]].secret # secret[r]

\* A check whose every earlier sending ended in an error can be sent again
\* within the challenge's TTL: it is not refused as a replay unless its QR was
\* sent with another check too.
RetryAfterErrorIsAccepted ==
  \A r \in Requests :
    /\ Answered(r, 5)
    /\ at[r] <= challenge[what[r]].expiresAt
    /\ \A x \in Requests \ {r} : what[x] = what[r] => pc[x] = "aborted"
    => \E x \in Requests : token[x] = token[r] /\ what[x] # what[r]

\* A spent nonce or challenge is never given back, whatever inserts, syncs or
\* retries come later; a record is only ever amended.
ClaimsAreFinal ==
  [][/\ \A n \in Nonces : nonceRow[n] = "used" => nonceRow'[n] = "used"
     /\ challengeUsed \subseteq challengeUsed'
     /\ \A r \in Requests : Recorded(r) =>
          records'[r] \in {records[r], [records[r] EXCEPT
                             !.timestamp = records'[r].timestamp, !.isManual = TRUE]}
    ]_vars

\* Every request is answered, or fails with an error.
EveryCheckAnswered ==
  \A r \in Requests : InFlight(r) ~> pc[r] \in {"answered", "aborted"}

\* Seen from outside, the whole chain enters a record in one step, which takes
\* one ticket and one QR nonce that no other entry has taken (steps 5, 6 and 9).
Paid == [r \in Requests |-> IF Recorded(r) THEN token[r] ELSE None]
Ledger == INSTANCE AttendanceLedger WITH
            ticket <- challenge, ledger <- records, Entries <- Requests, paid <- Paid
LedgerSpec == Ledger!Spec
=============================================================================
