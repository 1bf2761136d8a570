---------------------------- MODULE CheckInProofs ----------------------------
(***************************************************************************)
(* Theorems about the check-in chain for every number of users, tablets,   *)
(* nonces, challenges and requests, every time bound and every TTL, skew   *)
(* and duplicate window.                                                   *)
(***************************************************************************)
EXTENDS CheckInInvariant, TLAPS

\* The request's QR is spelled out in every obligation.
USE DEF Qr

(***************************************************************************)
(* Types.                                                                  *)
(***************************************************************************)

LEMMA TypeInit == Init => TypeOK
  BY CheckInConstants DEF Init, TypeOK, Steps

\* The tablet and the challenge a submitted request refers to exist.
LEMMA Refers ==
  ASSUME TypeOK, Issued, Submitted, NEW r \in Requests, pc[r] # "idle"
  PROVE  /\ who[r] \in Users /\ what[r] \in Challenges
         /\ challenge[what[r]] \in ChallengeRow
         /\ proof[what[r]] \in Proof
         /\ token[r] \in Nonces
         /\ qr[token[r]] # None
         /\ qr[token[r]] \in QrToken
<1>1. who[r] \in Users /\ what[r] \in Challenges /\ proof[what[r]] # None
  BY DEF Submitted
<1>2. challenge[what[r]] # None
  BY <1>1 DEF Issued
<1>3. token[r] \in Nonces /\ qr[token[r]] # None
  BY DEF Submitted
<1>4. QED
  BY <1>1, <1>2, <1>3 DEF TypeOK

LEMMA AmendedRow ==
  ASSUME NEW rec \in RecordRow, NEW ts \in Int
  PROVE  [rec EXCEPT !.timestamp = ts, !.isManual = TRUE] \in RecordRow
BY DEF RecordRow

LEMMA TypeHandle ==
  ASSUME TypeOK, Issued, Submitted, NEW r \in Requests, Handle(r)
  PROVE  TypeOK'
<1> USE DEF TypeOK, Judge, Steps, dbVars, kioskVars, phoneVars, rowVars
<1>1. CASE CheckUser(r)        BY <1>1 DEF CheckUser
<1>2. CASE CheckDevice(r)      BY <1>2 DEF CheckDevice
<1>3. CASE CheckQr(r)          BY <1>3, Refers DEF CheckQr, QrToken
<1>4. CASE InsertNonce(r)      BY <1>4 DEF InsertNonce
<1>5. CASE ClaimNonce(r)
  <2>1. nonceRow' \in [Nonces -> {"absent", "unused", "used"}]
    BY <1>5 DEF ClaimNonce
  <2>2. QED
    BY <1>5, <2>1 DEF ClaimNonce
<1>6. CASE CheckOwner(r)       BY <1>6 DEF CheckOwner
<1>7. CASE ConsumeChallenge(r) BY <1>7, Refers DEF ConsumeChallenge
<1>8. CASE CheckBle(r)         BY <1>8 DEF CheckBle
<1>9. CASE CheckDuplicate(r)   BY <1>9 DEF CheckDuplicate
<1>10. CASE SaveRecord(r)      BY <1>10, Refers DEF SaveRecord, RecordRow, QrToken
<1>11. CASE Reply(r)           BY <1>11 DEF Reply
<1>12. QED
  BY <1>1, <1>2, <1>3, <1>4, <1>5, <1>6, <1>7, <1>8, <1>9, <1>10, <1>11 DEF Handle

LEMMA TypeStep ==
  ASSUME TypeOK, Issued, Submitted, [Next]_vars
  PROVE  TypeOK'
<1> USE DEF TypeOK, dbVars, kioskVars, phoneVars, rowVars, reqVars
<1>1. CASE Tick
  BY <1>1, CheckInConstants DEF Tick
<1>2. CASE Administer
  <2> USE CheckInConstants DEF AdminStep
  <2>1. ASSUME NEW u \in Users, NEW b \in BOOLEAN, SetUserActive(u, b) PROVE TypeOK'
    BY <2>1 DEF SetUserActive
  <2>2. ASSUME NEW u \in Users, NEW k \in Keys \cup {None}, SetDevice(u, k) PROVE TypeOK'
    BY <2>2 DEF SetDevice
  <2>3. ASSUME NEW t \in Tablets, NEW b \in BOOLEAN, SetTabletActive(t, b) PROVE TypeOK'
    BY <2>3 DEF SetTabletActive
  <2>4. ASSUME NEW t \in Tablets, NEW s \in Secrets, ClaimTablet(t, s) PROVE TypeOK'
    BY <2>4 DEF ClaimTablet
  <2>7. ASSUME NEW t \in Tablets, NEW s \in Secrets, NEW b \in BOOLEAN, ResaveTablet(t, s, b)
        PROVE  TypeOK'
    BY <2>7 DEF ResaveTablet
  <2>5. ASSUME NEW r \in Requests, NEW ts \in ManualTimes, PatchRecord(r, ts) PROVE TypeOK'
    <3>1. ts \in Int /\ records[r] # None
      BY <2>5 DEF PatchRecord
    <3>2. [records[r] EXCEPT !.timestamp = ts, !.isManual = TRUE] \in RecordRow
      BY <3>1, AmendedRow
    <3>3. records' \in [Requests -> RecordRow \cup {None}]
      BY <2>5, <3>2 DEF PatchRecord
    <3>4. UNCHANGED <<clock, nonceRow, challengeUsed, kioskVars, phoneVars, reqVars, dbVars>>
          /\ admin' \in 0..MaxAdmin
      BY <2>5 DEF PatchRecord
    <3>5. QED
      BY <3>3, <3>4
  <2>6. QED
    BY <1>2, <2>1, <2>2, <2>3, <2>4, <2>5, <2>7 DEF Administer
<1>3. CASE Operate
  <2>1. ASSUME NEW t \in Tablets, StoreSecret(t) PROVE TypeOK'
    BY <2>1 DEF StoreSecret
  <2>2. ASSUME NEW t \in Tablets, NEW n \in Nonces, RotateQr(t, n) PROVE TypeOK'
    <3>1. clock + KioskDrift[t] \in Int /\ kioskSecret[t] \in Secrets
      <4>1. KioskDrift[t] \in Int /\ clock \in Int
        BY CheckInConstants
      <4>2. QED
        BY <4>1, <2>2 DEF RotateQr
    <3>2. [tid |-> t, ts |-> clock + KioskDrift[t], key |-> kioskSecret[t]]
            \in QrToken
      BY <3>1 DEF QrToken
    <3>3. qr' \in [Nonces -> QrToken \cup {None}]
      BY <2>2, <3>2 DEF RotateQr
    <3>4. QED
      BY <2>2, <3>3 DEF RotateQr
  <2>3. ASSUME NEW t \in Tablets, NEW S \in SUBSET Nonces, SyncNonces(t, S) PROVE TypeOK'
    BY <2>3 DEF SyncNonces
  <2>4. ASSUME NEW u \in Users, NEW t \in Tablets, NEW c \in Challenges,
               RequestChallenge(u, t, c)
        PROVE TypeOK'
    <3>1. clock + CHALLENGE_TTL_SECONDS \in Int
      BY CheckInConstants
    <3>2. [user |-> u, tablet |-> t, expiresAt |-> clock + CHALLENGE_TTL_SECONDS]
            \in ChallengeRow
      BY <3>1 DEF ChallengeRow
    <3>3. challenge' \in [Challenges -> ChallengeRow \cup {None}]
      BY <2>4, <3>2 DEF RequestChallenge
    <3>4. QED
      BY <2>4, <3>3 DEF RequestChallenge
  <2>5. ASSUME NEW c \in Challenges, NEW k \in Keys, Prove(c, k) PROVE TypeOK'
    <3> DEFINE t == challenge[c].tablet
               p == [secret |-> kioskSecret[t], nonce |-> shown[t], key |-> k]
    <3>1. challenge[c] \in ChallengeRow
      BY <2>5 DEF Prove
    <3>2. t \in Tablets
      BY <3>1 DEF ChallengeRow
    <3>3. p \in Proof
      BY <2>5, <3>2 DEF Prove, Proof
    <3>4. proof' = [proof EXCEPT ![c] = p]
      BY <2>5 DEF Prove
    <3>5. proof' \in [Challenges -> Proof \cup {None}]
      BY <3>3, <3>4
    <3>6. QED
      BY <2>5, <3>5 DEF Prove
  <2>6. ASSUME NEW r \in Requests, NEW u \in Users, NEW c \in Challenges,
             NEW n \in Nonces, Submit(r, u, c, n)
        PROVE TypeOK'
    BY <2>6 DEF Submit, Steps
  <2>7. QED
    BY <1>3, <2>1, <2>2, <2>3, <2>4, <2>5, <2>6 DEF Operate
<1>4. ASSUME NEW r \in Requests, Handle(r) PROVE TypeOK'
  BY <1>4, TypeHandle
<1>5. ASSUME NEW r \in Requests, Abort(r) PROVE TypeOK'
  BY <1>5 DEF Abort
<1>6. CASE UNCHANGED vars
  BY <1>6 DEF vars
<1>7. QED
  BY <1>1, <1>2, <1>3, <1>4, <1>5, <1>6 DEF Next

(***************************************************************************)
(* What a step does to a request.                                          *)
(***************************************************************************)

\* A row, token or body once there is never taken back or changed, but for
\* an amended record; a submitted request keeps its body.
Monotone ==
  /\ clock <= clock' /\ challengeUsed \subseteq challengeUsed'
  /\ \A n \in Nonces : /\ qr[n] # None => qr'[n] = qr[n]
                       /\ nonceRow[n] = "used" => nonceRow'[n] = "used"
  /\ \A c \in Challenges :
       /\ challenge[c] # None => challenge'[c] = challenge[c]
       /\ proof[c] # None => proof'[c] = proof[c]
  /\ \A r \in Requests : pc[r] # "idle" =>
       /\ who'[r] = who[r] /\ what'[r] = what[r] /\ token'[r] = token[r]
       /\ at'[r] = at[r]

\* An administrator, a kiosk, a phone or the clock: no request moves, no
\* record appears, no challenge is used.
Quiet ==
  /\ UNCHANGED <<pc, verdict, who, what, token, at, secret, challengeUsed>>
  /\ \A r \in Requests :
       \/ records'[r] = records[r]
       \/ /\ records[r] # None /\ records'[r] \in RecordRow
          /\ records'[r].isManual
          /\ \A f \in {"user", "tablet", "challenge", "createdAt"} :
               records'[r][f] = records[r][f]

Moves == \E r \in Requests :
  Handle(r) \/ Abort(r) \/ \E u \in Users, c \in Challenges, n \in Nonces : Submit(r, u, c, n)

LEMMA QuietOrMoves ==
  ASSUME TypeOK, [Next]_vars
  PROVE  Quiet \/ Moves
<1> USE DEF Quiet, reqVars, rowVars, phoneVars, kioskVars, dbVars
<1>1. CASE Tick
  BY <1>1 DEF Tick
<1>2. CASE Administer
  <2> USE DEF AdminStep
  <2>1. ASSUME NEW u \in Users, NEW b \in BOOLEAN, SetUserActive(u, b) PROVE Quiet
    BY <2>1 DEF SetUserActive
  <2>2. ASSUME NEW u \in Users, NEW k \in Keys \cup {None}, SetDevice(u, k) PROVE Quiet
    BY <2>2 DEF SetDevice
  <2>3. ASSUME NEW t \in Tablets, NEW b \in BOOLEAN, SetTabletActive(t, b) PROVE Quiet
    BY <2>3 DEF SetTabletActive
  <2>4. ASSUME NEW t \in Tablets, NEW s \in Secrets, ClaimTablet(t, s) PROVE Quiet
    BY <2>4 DEF ClaimTablet
  <2>7. ASSUME NEW t \in Tablets, NEW s \in Secrets, NEW b \in BOOLEAN, ResaveTablet(t, s, b)
        PROVE  Quiet
    BY <2>7 DEF ResaveTablet
  <2>5. ASSUME NEW r \in Requests, NEW ts \in ManualTimes, PatchRecord(r, ts) PROVE Quiet
    <3>1. /\ records[r] \in RecordRow /\ records[r] # None
          /\ records' = [records EXCEPT
               ![r] = [records[r] EXCEPT !.timestamp = ts, !.isManual = TRUE]]
      BY <2>5 DEF PatchRecord, TypeOK
    <3>2. [records[r] EXCEPT !.timestamp = ts, !.isManual = TRUE] \in RecordRow
      <4>1. ts \in Int
        BY CheckInConstants
      <4>2. QED
        BY <3>1, <4>1, AmendedRow
    <3>3. \A x \in Requests : x # r => records'[x] = records[x]
      BY <3>1 DEF TypeOK
    <3>4. records'[r] = [records[r] EXCEPT !.timestamp = ts, !.isManual = TRUE]
      BY <3>1 DEF TypeOK
    <3>5. records'[r].isManual /\ \A f \in {"user", "tablet", "challenge", "createdAt"} :
               records'[r][f] = records[r][f]
      <4> DEFINE old == records[r]
                 new == records'[r]
      <4>1. old \in RecordRow /\ new = [old EXCEPT !.timestamp = ts, !.isManual = TRUE]
        BY <3>1, <3>4
      <4> HIDE DEF old, new
      <4>2. new.isManual /\ new.user = old.user /\ new.tablet = old.tablet
            /\ new.challenge = old.challenge /\ new.createdAt = old.createdAt
        BY <4>1 DEF RecordRow
      <4>3. QED
        BY <4>2 DEF old, new
    <3>6. QED
      BY <2>5, <3>1, <3>2, <3>3, <3>4, <3>5 DEF PatchRecord
  <2>6. QED
    BY <1>2, <2>1, <2>2, <2>3, <2>4, <2>5, <2>7 DEF Administer
<1>3. CASE Operate
  BY <1>3 DEF Operate, StoreSecret, RotateQr, SyncNonces, RequestChallenge, Prove, Moves
<1>4. ASSUME NEW r \in Requests, Handle(r) \/ Abort(r) PROVE Moves
  BY <1>4 DEF Moves
<1>5. CASE UNCHANGED vars
  BY <1>5 DEF vars
<1>6. QED
  BY <1>1, <1>2, <1>3, <1>4, <1>5 DEF Next

LEMMA StepMonotone ==
  ASSUME TypeOK, [Next]_vars
  PROVE  Monotone
<1> USE DEF Monotone, TypeOK, reqVars, rowVars, phoneVars, kioskVars, dbVars
<1>1. CASE Tick
  BY <1>1 DEF Tick
<1>2. CASE Administer
  <2>1. UNCHANGED <<clock, nonceRow, challengeUsed, kioskVars, phoneVars, reqVars>>
    BY <1>2 DEF Administer, AdminStep, SetUserActive, SetDevice, SetTabletActive,
                ClaimTablet, ResaveTablet, PatchRecord
  <2>2. QED
    BY <2>1
<1>3. CASE Operate
  <2>1. ASSUME NEW t \in Tablets, StoreSecret(t) PROVE Monotone
    BY <2>1 DEF StoreSecret
  <2>2. ASSUME NEW t \in Tablets, NEW n \in Nonces, RotateQr(t, n) PROVE Monotone
    BY <2>2 DEF RotateQr
  <2>3. ASSUME NEW t \in Tablets, NEW S \in SUBSET Nonces, SyncNonces(t, S) PROVE Monotone
    BY <2>3 DEF SyncNonces
  <2>4. ASSUME NEW u \in Users, NEW t \in Tablets, NEW c \in Challenges,
               RequestChallenge(u, t, c)
        PROVE Monotone
    BY <2>4 DEF RequestChallenge
  <2>5. ASSUME NEW c \in Challenges, NEW k \in Keys, Prove(c, k) PROVE Monotone
    BY <2>5 DEF Prove
  <2>6. ASSUME NEW r \in Requests, NEW u \in Users, NEW c \in Challenges,
             NEW n \in Nonces, Submit(r, u, c, n)
        PROVE Monotone
    BY <2>6 DEF Submit
  <2>7. QED
    BY <1>3, <2>1, <2>2, <2>3, <2>4, <2>5, <2>6 DEF Operate
<1>4. ASSUME NEW r \in Requests, Handle(r) PROVE Monotone
  <2> USE DEF Judge
  <2>1. CASE CheckUser(r) \/ CheckDevice(r) \/ CheckOwner(r) \/ CheckDuplicate(r) \/ Reply(r)
    BY <2>1 DEF CheckUser, CheckDevice, CheckOwner, CheckDuplicate, Reply
  <2>2. CASE CheckQr(r)
    BY <2>2 DEF CheckQr
  <2>3. CASE InsertNonce(r)
    BY <2>3 DEF InsertNonce
  <2>4. CASE ClaimNonce(r)
    BY <2>4 DEF ClaimNonce
  <2>5. CASE ConsumeChallenge(r)
    BY <2>5 DEF ConsumeChallenge
  <2>6. CASE CheckBle(r)
    BY <2>6 DEF CheckBle
  <2>7. CASE SaveRecord(r)
    BY <2>7 DEF SaveRecord
  <2>8. QED
    BY <1>4, <2>1, <2>2, <2>3, <2>4, <2>5, <2>6, <2>7 DEF Handle
<1>5. ASSUME NEW r \in Requests, Abort(r) PROVE Monotone
  BY <1>5 DEF Abort
<1>6. CASE UNCHANGED vars
  BY <1>6 DEF vars
<1>7. QED
  BY <1>1, <1>2, <1>3, <1>4, <1>5, <1>6 DEF Next

\* A handler step moves one request one step along the chain; only "save"
\* inserts a row, the request's own.
Moved(r) ==
  /\ pc[r] \in Steps /\ UNCHANGED <<clock, who, what, token, at>>
  /\ \A x \in Requests \ {r} : /\ pc'[x] = pc[x] /\ records'[x] = records[x]
                               /\ secret'[x] = secret[x] /\ verdict'[x] = verdict[x]
  /\ pc'[r] \in Steps \cup {"answered", "aborted"}
  /\ \/ records'[r] = records[r]
     \/ /\ pc[r] = "save" /\ pc'[r] = "reply"
        /\ records'[r] = [user |-> who[r], tablet |-> qr[token[r]].tid,
                          challenge |-> what[r], timestamp |-> at[r],
                          createdAt |-> clock, isManual |-> FALSE]
  /\ UNCHANGED <<challenge, proof, qr>>

LEMMA HandlerMoves ==
  ASSUME TypeOK, NEW r \in Requests, Handle(r) \/ Abort(r)
  PROVE  Moved(r)
<1> USE DEF Moved, TypeOK, Judge, Steps, dbVars, kioskVars, phoneVars, rowVars
<1>1. CASE CheckUser(r)        BY <1>1 DEF CheckUser
<1>2. CASE CheckDevice(r)      BY <1>2 DEF CheckDevice
<1>3. CASE CheckQr(r)          BY <1>3 DEF CheckQr
<1>4. CASE InsertNonce(r)      BY <1>4 DEF InsertNonce
<1>5. CASE ClaimNonce(r)       BY <1>5 DEF ClaimNonce
<1>6. CASE CheckOwner(r)       BY <1>6 DEF CheckOwner
<1>7. CASE ConsumeChallenge(r) BY <1>7 DEF ConsumeChallenge
<1>8. CASE CheckBle(r)         BY <1>8 DEF CheckBle
<1>9. CASE CheckDuplicate(r)   BY <1>9 DEF CheckDuplicate
<1>10. CASE SaveRecord(r)      BY <1>10 DEF SaveRecord
<1>11. CASE Reply(r)           BY <1>11 DEF Reply
<1>12. CASE Abort(r)           BY <1>12 DEF Abort, InFlight
<1>13. QED
  BY <1>1, <1>2, <1>3, <1>4, <1>5, <1>6, <1>7, <1>8, <1>9, <1>10, <1>11, <1>12 DEF Handle

(***************************************************************************)
(* The parts of the inductive invariant, one lemma each.                   *)
(***************************************************************************)

LEMMA IssuedStep ==
  ASSUME TypeOK, Issued, Submitted, [Next]_vars
  PROVE  Issued'
<1>1. Monotone
  BY StepMonotone
<1>2. CASE UNCHANGED <<challenge, proof, challengeUsed>>
  BY <1>2 DEF Issued
<1>3. ASSUME NEW u \in Users, NEW t \in Tablets, NEW c \in Challenges,
             RequestChallenge(u, t, c)
      PROVE  Issued'
  BY <1>1, <1>3 DEF Issued, Monotone, RequestChallenge, TypeOK, rowVars, kioskVars
<1>4. ASSUME NEW c \in Challenges, NEW k \in Keys, Prove(c, k)
      PROVE  Issued'
  BY <1>4 DEF Issued, Prove, TypeOK, rowVars, kioskVars
<1>5. ASSUME NEW r \in Requests, ConsumeChallenge(r)
      PROVE  Issued'
  <2>1. challenge[what[r]] # None
    BY <1>5, Refers DEF ConsumeChallenge, Submitted, Issued
  <2>2. QED
    BY <1>5, <2>1 DEF Issued, ConsumeChallenge, Judge, phoneVars, kioskVars
<1>6. QED
  <2>1. \/ UNCHANGED <<challenge, proof, challengeUsed>>
        \/ \E u \in Users, t \in Tablets, c \in Challenges : RequestChallenge(u, t, c)
        \/ \E c \in Challenges, k \in Keys : Prove(c, k)
        \/ \E r \in Requests : ConsumeChallenge(r)
    <3> USE DEF phoneVars, rowVars
    <3>1. CASE Tick
      BY <3>1 DEF Tick
    <3>2. CASE Administer
      BY <3>2 DEF Administer, AdminStep, SetUserActive, SetDevice, SetTabletActive,
                  ClaimTablet, ResaveTablet, PatchRecord
    <3>3. CASE Operate
      BY <3>3 DEF Operate, StoreSecret, RotateQr, SyncNonces, Submit
    <3>4. ASSUME NEW r \in Requests, Abort(r)
          PROVE  UNCHANGED <<challenge, proof, challengeUsed>>
      BY <3>4 DEF Abort
    <3>5. ASSUME NEW r \in Requests, Handle(r)
          PROVE  UNCHANGED <<challenge, proof, challengeUsed>> \/ ConsumeChallenge(r)
      <4> USE DEF Judge
      <4>1. CASE CheckUser(r) \/ CheckDevice(r) \/ CheckQr(r)
        BY <4>1 DEF CheckUser, CheckDevice, CheckQr
      <4>2. CASE InsertNonce(r) \/ ClaimNonce(r) \/ CheckOwner(r)
        BY <4>2 DEF InsertNonce, ClaimNonce, CheckOwner
      <4>3. CASE CheckBle(r) \/ CheckDuplicate(r)
        BY <4>3 DEF CheckBle, CheckDuplicate
      <4>4. CASE SaveRecord(r) \/ Reply(r)
        BY <4>4 DEF SaveRecord, Reply
      <4>5. QED
        BY <3>5, <4>1, <4>2, <4>3, <4>4 DEF Handle
    <3>6. CASE UNCHANGED vars
      BY <3>6 DEF vars
    <3>7. QED
      BY <3>1, <3>2, <3>3, <3>4, <3>5, <3>6 DEF Next
  <2>2. QED
    BY <1>2, <1>3, <1>4, <1>5, <2>1

LEMMA SubmittedStep ==
  ASSUME TypeOK, Issued, Submitted, [Next]_vars
  PROVE  Submitted'
<1>1. Monotone /\ (Quiet \/ Moves)
  BY StepMonotone, QuietOrMoves
<1>2. CASE Quiet
  <2>1. \A r \in Requests : Recorded(r)' => Recorded(r)
    BY <1>2 DEF Quiet, Recorded
  <2>2. /\ UNCHANGED <<pc, who, what, token, at>> /\ clock <= clock'
        /\ \A c \in Challenges : proof[c] # None => proof'[c] = proof[c]
        /\ \A n \in Nonces : qr[n] # None => qr'[n] = qr[n]
    BY <1>1, <1>2 DEF Quiet, Monotone
  <2>3. clock \in Int /\ clock' \in Int /\ at \in [Requests -> Int]
    BY TypeStep, CheckInConstants DEF TypeOK
  <2>4. QED
    BY <2>1, <2>2, <2>3 DEF Submitted
<1>3. ASSUME NEW r \in Requests, Handle(r) \/ Abort(r)
      PROVE  Submitted'
  <2>1. Moved(r)
    BY <1>3, HandlerMoves
  <2>2. Recorded(r)' => pc'[r] \in {"reply", "answered", "aborted"}
    BY <1>3, <2>1 DEF Submitted, Moved, Recorded, Handle, Abort, CheckUser, CheckDevice,
           CheckQr, InsertNonce, ClaimNonce, CheckOwner, ConsumeChallenge, CheckBle,
           CheckDuplicate, SaveRecord, Reply, Judge, TypeOK
  <2>3. QED
    BY <1>1, <2>1, <2>2 DEF Submitted, Monotone, Moved, Recorded, Steps
<1>4. ASSUME NEW r \in Requests, NEW u \in Users, NEW c \in Challenges,
             NEW n \in Nonces, Submit(r, u, c, n)
      PROVE  Submitted'
  BY <1>1, <1>4 DEF Submitted, Monotone, Submit, Recorded, TypeOK, rowVars, phoneVars
<1>5. QED
  BY <1>1, <1>2, <1>3, <1>4 DEF Moves

\* A submitted request keeps what it refers to.
LEMMA Kept ==
  ASSUME TypeOK, Issued, Submitted, [Next]_vars, NEW r \in Requests, pc[r] # "idle"
  PROVE  /\ who'[r] = who[r] /\ what'[r] = what[r] /\ at'[r] = at[r]
         /\ challenge'[what[r]] = challenge[what[r]]
         /\ proof'[what[r]] = proof[what[r]]
         /\ token'[r] = token[r]
         /\ qr'[token[r]] = qr[token[r]]
<1>1. Monotone
  BY StepMonotone
<1>2. /\ what[r] \in Challenges /\ proof[what[r]] # None /\ challenge[what[r]] # None
      /\ token[r] \in Nonces /\ qr[token[r]] # None
  <2>1. what[r] \in Challenges /\ proof[what[r]] # None
    BY DEF Submitted
  <2>2. challenge[what[r]] # None
    BY <2>1 DEF Issued
  <2>3. QED
    BY <2>1, <2>2, Refers
<1>3. /\ who'[r] = who[r] /\ what'[r] = what[r] /\ at'[r] = at[r]
      /\ challenge'[what[r]] = challenge[what[r]]
      /\ proof'[what[r]] = proof[what[r]]
  BY <1>1, <1>2 DEF Monotone
<1>4. token'[r] = token[r]
  BY <1>1 DEF Monotone
<1>5. QED
  BY <1>1, <1>2, <1>3, <1>4 DEF Monotone

LEMMA RecordOfStep ==
  ASSUME TypeOK, Issued, Submitted, RecordOf, [Next]_vars
  PROVE  RecordOf'
<1>1. Monotone /\ (Quiet \/ Moves) /\ clock \in Int /\ clock' \in Int
  BY StepMonotone, QuietOrMoves, TypeStep, CheckInConstants DEF TypeOK
<1> DEFINE Repeats(r) ==
      /\ records[r].user = who[r] /\ records[r].challenge = what[r]
      /\ records[r].tablet = qr[token[r]].tid
      /\ records[r].createdAt <= clock
      /\ ~records[r].isManual => records[r].timestamp = at[r]
<1> SUFFICES ASSUME NEW r \in Requests, Recorded(r)'
             PROVE  Repeats(r)'
  BY DEF RecordOf
<1>2. CASE Recorded(r) /\ records'[r] = records[r]
  <2>1. pc[r] # "idle" /\ Repeats(r) /\ records[r] \in RecordRow
    BY <1>2 DEF Submitted, RecordOf, Recorded, TypeOK
  <2>2. records[r].createdAt \in Int
    BY <2>1 DEF RecordRow
  <2>3. QED
    BY <1>1, <1>2, <2>1, <2>2, Kept DEF Monotone
<1>3. CASE Quiet /\ records'[r] # records[r]
  <2>1. /\ records[r] # None /\ records[r] \in RecordRow /\ records'[r].isManual
        /\ records'[r].user = records[r].user /\ records'[r].tablet = records[r].tablet
        /\ records'[r].challenge = records[r].challenge
        /\ records'[r].createdAt = records[r].createdAt
    BY <1>3 DEF Quiet, TypeOK
  <2>2. pc[r] # "idle" /\ Repeats(r)
    BY <2>1 DEF Submitted, RecordOf, Recorded
  <2>3. records[r].createdAt \in Int
    BY <2>1 DEF RecordRow
  <2>4. QED
    BY <1>1, <2>1, <2>2, <2>3, Kept DEF Monotone
<1>4. ASSUME NEW x \in Requests, Moved(x), records'[r] # records[r]
      PROVE  Repeats(r)'
  <2>1. /\ x = r /\ pc[r] # "idle" /\ clock' = clock
        /\ records'[r] = [user |-> who[r], tablet |-> qr[token[r]].tid,
                          challenge |-> what[r], timestamp |-> at[r],
                          createdAt |-> clock, isManual |-> FALSE]
    BY <1>4 DEF Moved
  <2>2. QED
    BY <1>1, <2>1, Kept
<1>5. ASSUME NEW x \in Requests, NEW u \in Users, NEW c \in Challenges,
             NEW n \in Nonces, Submit(x, u, c, n)
      PROVE  records'[r] = records[r]
  BY <1>5 DEF Submit, rowVars
<1>6. QED
  <2>1. records'[r] = records[r] => Recorded(r)
    BY DEF Recorded
  <2>2. CASE records'[r] = records[r]
    BY <1>2, <2>1, <2>2
  <2>3. CASE records'[r] # records[r]
    BY <1>1, <1>3, <1>4, <1>5, <2>3, HandlerMoves DEF Moves
  <2>4. QED
    BY <2>2, <2>3

\* The only way past a step is that step, passed.
Entered(r) ==
  /\ Past(r, AfterQr)'        => Past(r, AfterQr) \/ (CheckQr(r) /\ pc'[r] = "insert")
  /\ Past(r, AfterClaim)'     => Past(r, AfterClaim) \/ (ClaimNonce(r) /\ pc'[r] = "owner")
  /\ Past(r, AfterOwner)'     => Past(r, AfterOwner) \/ (CheckOwner(r) /\ pc'[r] = "consume")
  /\ Past(r, AfterConsume)'   => Past(r, AfterConsume) \/ (ConsumeChallenge(r) /\ pc'[r] = "ble")
  /\ Past(r, AfterBle)'       => Past(r, AfterBle) \/ (CheckBle(r) /\ pc'[r] = "duplicate")
  /\ Past(r, AfterDuplicate)' => Past(r, AfterDuplicate) \/ (CheckDuplicate(r) /\ pc'[r] = "save")

LEMMA StepEntered ==
  ASSUME TypeOK, Submitted, [Next]_vars, NEW r \in Requests
  PROVE  Entered(r)
<1> USE DEF Entered, Past, Recorded, AfterQr, AfterClaim, AfterOwner, AfterConsume,
            AfterBle, AfterDuplicate
<1>1. Quiet \/ Moves
  BY QuietOrMoves
<1>2. CASE Quiet
  BY <1>2 DEF Quiet
<1>3. ASSUME NEW x \in Requests, Handle(x) \/ Abort(x), x # r
      PROVE  Entered(r)
  <2>1. Moved(x)
    BY <1>3, HandlerMoves
  <2>2. pc'[r] = pc[r] /\ records'[r] = records[r]
    BY <1>3, <2>1 DEF Moved
  <2>3. QED
    BY <2>2
<1>4. ASSUME Handle(r) PROVE Entered(r)
  <2> USE DEF Judge, TypeOK
  <2>1. Recorded(r)' => Recorded(r) \/ pc[r] = "save"
    BY <1>4, HandlerMoves DEF Moved
  <2>2. CASE CheckUser(r)        BY <2>1, <2>2 DEF CheckUser
  <2>3. CASE CheckDevice(r)      BY <2>1, <2>3 DEF CheckDevice
  <2>4. CASE CheckQr(r)          BY <2>1, <2>4 DEF CheckQr
  <2>5. CASE InsertNonce(r)      BY <2>1, <2>5 DEF InsertNonce
  <2>6. CASE ClaimNonce(r)       BY <2>1, <2>6 DEF ClaimNonce
  <2>7. CASE CheckOwner(r)       BY <2>1, <2>7 DEF CheckOwner
  <2>8. CASE ConsumeChallenge(r) BY <2>1, <2>8 DEF ConsumeChallenge
  <2>9. CASE CheckBle(r)         BY <2>1, <2>9 DEF CheckBle
  <2>10. CASE CheckDuplicate(r)  BY <2>1, <2>10 DEF CheckDuplicate
  <2>11. CASE SaveRecord(r)      BY <2>1, <2>11 DEF SaveRecord
  <2>12. CASE Reply(r)           BY <2>1, <2>12 DEF Reply
  <2>13. QED
    BY <1>4, <2>2, <2>3, <2>4, <2>5, <2>6, <2>7, <2>8, <2>9, <2>10, <2>11, <2>12 DEF Handle
<1>5. ASSUME Abort(r) PROVE Entered(r)
  BY <1>5 DEF Abort, TypeOK, rowVars
<1>6. ASSUME NEW x \in Requests, NEW u \in Users, NEW c \in Challenges,
             NEW n \in Nonces, Submit(x, u, c, n)
      PROVE  Entered(r)
  BY <1>6 DEF Submit, TypeOK, rowVars
<1>7. QED
  BY <1>1, <1>2, <1>3, <1>4, <1>5, <1>6 DEF Moves

\* Whoever is past a step has been submitted.
LEMMA PastNotIdle ==
  ASSUME Submitted, NEW r \in Requests, NEW rest \in SUBSET Steps, Past(r, rest)
  PROVE  pc[r] # "idle"
BY DEF Submitted, Past, Steps

LEMMA RestsAreSteps ==
  /\ AfterQr \in SUBSET Steps /\ AfterClaim \in SUBSET Steps /\ AfterOwner \in SUBSET Steps
  /\ AfterConsume \in SUBSET Steps /\ AfterBle \in SUBSET Steps
  /\ AfterDuplicate \in SUBSET Steps
BY DEF AfterQr, AfterClaim, AfterOwner, AfterConsume, AfterBle, AfterDuplicate, Steps

\* The claim is atomic and finds the row unused, so nobody held the nonce.
LEMMA NonceHeldStep ==
  ASSUME TypeOK, Issued, Submitted, NonceHeld, [Next]_vars
  PROVE  NonceHeld'
<1>1. Monotone
  BY StepMonotone
<1>2. ASSUME NEW r \in Requests, Past(r, AfterClaim)
      PROVE  /\ pc[r] # "idle" /\ token[r] \in Nonces /\ token'[r] = token[r]
             /\ nonceRow[token[r]] = "used" /\ nonceRow'[token[r]] = "used"
  <2>1. pc[r] # "idle"
    BY <1>2, PastNotIdle, RestsAreSteps
  <2>2. token[r] \in Nonces /\ token'[r] = token[r] /\ nonceRow[token[r]] = "used"
    BY <1>2, <2>1, Refers, Kept DEF NonceHeld
  <2>3. QED
    BY <1>1, <2>1, <2>2 DEF Monotone
<1>3. ASSUME NEW r \in Requests, ClaimNonce(r), pc'[r] = "owner"
      PROVE  /\ token[r] \in Nonces /\ token'[r] = token[r]
             /\ nonceRow[token[r]] = "unused" /\ nonceRow'[token[r]] = "used"
             /\ \A x \in Requests : ClaimNonce(x) => x = r
  <2>1. pc[r] = "claim"
    BY <1>3 DEF ClaimNonce
  <2>2. token[r] \in Nonces /\ token'[r] = token[r]
    BY <2>1, Refers, Kept
  <2>3. nonceRow[token[r]] = "unused"
    BY <1>3, <2>1 DEF ClaimNonce, Judge, TypeOK
  <2>4. \A x \in Requests : ClaimNonce(x) => x = r
    BY <1>3, <2>1 DEF ClaimNonce, Judge, TypeOK
  <2>5. nonceRow'[token[r]] = "used"
    BY <1>3, <2>2, <2>3 DEF ClaimNonce, TypeOK
  <2>6. QED
    BY <2>2, <2>3, <2>4, <2>5
<1>4. ASSUME NEW r \in Requests, Past(r, AfterClaim)'
      PROVE  Past(r, AfterClaim) \/ (ClaimNonce(r) /\ pc'[r] = "owner")
  BY <1>4, StepEntered DEF Entered
<1>5. ASSUME NEW r \in Requests, Past(r, AfterClaim)'
      PROVE  (nonceRow[token[r]] = "used")'
  BY <1>2, <1>3, <1>4, <1>5
<1>6. ASSUME NEW r1 \in Requests, NEW r2 \in Requests, Past(r1, AfterClaim)',
             Past(r2, AfterClaim)', (token[r1] = token[r2])'
      PROVE  r1 = r2
  <2>1. CASE Past(r1, AfterClaim) /\ Past(r2, AfterClaim)
    BY <1>2, <1>6, <2>1 DEF NonceHeld
  <2>2. CASE ~Past(r1, AfterClaim)
    BY <1>2, <1>3, <1>4, <1>6, <2>2
  <2>3. CASE ~Past(r2, AfterClaim)
    BY <1>2, <1>3, <1>4, <1>6, <2>3
  <2>4. QED
    BY <2>1, <2>2, <2>3
<1>7. QED
  BY <1>5, <1>6 DEF NonceHeld

\* The consuming update is atomic too, and finds the challenge not yet used.
LEMMA ChallengeHeldStep ==
  ASSUME TypeOK, Issued, Submitted, ChallengeHeld, [Next]_vars
  PROVE  ChallengeHeld'
<1>1. Monotone
  BY StepMonotone
<1>2. ASSUME NEW r \in Requests, Past(r, AfterConsume)
      PROVE  what'[r] = what[r] /\ what[r] \in challengeUsed /\ what[r] \in challengeUsed'
  <2>1. pc[r] # "idle"
    BY <1>2, PastNotIdle, RestsAreSteps
  <2>2. QED
    BY <1>1, <1>2, <2>1, Kept DEF Monotone, ChallengeHeld
<1>3. ASSUME NEW r \in Requests, ConsumeChallenge(r), pc'[r] = "ble"
      PROVE  /\ what'[r] = what[r] /\ what[r] \notin challengeUsed /\ what[r] \in challengeUsed'
             /\ \A x \in Requests : ConsumeChallenge(x) => x = r
  BY <1>3 DEF ConsumeChallenge, Judge, TypeOK
<1>4. ASSUME NEW r \in Requests, Past(r, AfterConsume)'
      PROVE  Past(r, AfterConsume) \/ (ConsumeChallenge(r) /\ pc'[r] = "ble")
  BY <1>4, StepEntered DEF Entered
<1>5. ASSUME NEW r \in Requests, Past(r, AfterConsume)'
      PROVE  (what[r] \in challengeUsed)'
  BY <1>2, <1>3, <1>4, <1>5
<1>6. ASSUME NEW r1 \in Requests, NEW r2 \in Requests, Past(r1, AfterConsume)',
             Past(r2, AfterConsume)', what'[r1] = what'[r2]
      PROVE  r1 = r2
  <2>1. CASE Past(r1, AfterConsume) /\ Past(r2, AfterConsume)
    BY <1>2, <1>6, <2>1 DEF ChallengeHeld
  <2>2. CASE ~Past(r1, AfterConsume)
    BY <1>2, <1>3, <1>4, <1>6, <2>2
  <2>3. CASE ~Past(r2, AfterConsume)
    BY <1>2, <1>3, <1>4, <1>6, <2>3
  <2>4. QED
    BY <2>1, <2>2, <2>3
<1>7. QED
  BY <1>5, <1>6 DEF ChallengeHeld

\* Only step 3 writes the secret a request goes on with.
LEMMA SecretKept ==
  ASSUME TypeOK, Submitted, [Next]_vars, NEW r \in Requests, Past(r, AfterQr)
  PROVE  secret'[r] = secret[r]
<1>1. Quiet \/ Moves
  BY QuietOrMoves
<1>2. CASE Quiet
  BY <1>2 DEF Quiet
<1>3. ASSUME NEW x \in Requests, Handle(x) \/ Abort(x), x # r
      PROVE  secret'[r] = secret[r]
  BY <1>3, HandlerMoves DEF Moved
<1>4. pc[r] # "tablet"
  BY DEF Past, Submitted, AfterQr, AfterClaim, AfterOwner, AfterConsume, AfterBle,
         AfterDuplicate
<1>5. ASSUME Handle(r) \/ Abort(r) PROVE secret'[r] = secret[r]
  BY <1>4, <1>5 DEF Handle, Abort, CheckUser, CheckDevice, CheckQr, InsertNonce, ClaimNonce,
         CheckOwner, ConsumeChallenge, CheckBle, CheckDuplicate, SaveRecord, Reply
<1>6. ASSUME NEW x \in Requests, NEW u \in Users, NEW c \in Challenges,
             NEW n \in Nonces, Submit(x, u, c, n)
      PROVE  secret'[r] = secret[r]
  BY <1>6 DEF Submit
<1>7. QED
  BY <1>1, <1>2, <1>3, <1>5, <1>6 DEF Moves

LEMMA EstablishedStep ==
  ASSUME TypeOK, Issued, Submitted, Established, [Next]_vars
  PROVE  Established'
<1> SUFFICES ASSUME NEW r \in Requests
    PROVE /\ Past(r, AfterQr)' =>
               /\ (secret[r] = qr[token[r]].key)'
               /\ (at[r] - qr[token[r]].ts <= QR_TS_MAX_SKEW_SECONDS)'
               /\ (qr[token[r]].ts - at[r] <= QR_TS_MAX_SKEW_SECONDS)'
          /\ Past(r, AfterOwner)' => /\ (challenge[what[r]].user = who[r])'
                                    /\ (challenge[what[r]].tablet = qr[token[r]].tid)'
          /\ Past(r, AfterConsume)' => (at[r] <= challenge[what[r]].expiresAt)'
          /\ Past(r, AfterBle)' => (proof[what[r]].secret = secret[r])'
  BY DEF Established
<1>1. Monotone /\ Entered(r)
  BY StepMonotone, StepEntered
<1>2. Past(r, AfterOwner) \/ Past(r, AfterConsume) \/ Past(r, AfterBle) => Past(r, AfterQr)
  BY DEF Past, AfterQr, AfterClaim, AfterOwner, AfterConsume, AfterBle
<1>3. ASSUME Past(r, AfterQr)'
      PROVE  /\ (secret[r] = qr[token[r]].key)'
             /\ (at[r] - qr[token[r]].ts <= QR_TS_MAX_SKEW_SECONDS)'
             /\ (qr[token[r]].ts - at[r] <= QR_TS_MAX_SKEW_SECONDS)'
  <2>1. CASE Past(r, AfterQr)
    <3>1. pc[r] # "idle" /\ secret'[r] = secret[r]
      BY <2>1, PastNotIdle, RestsAreSteps, SecretKept
    <3>2. QED
      BY <2>1, <3>1, Kept DEF Established
  <2>2. CASE CheckQr(r) /\ pc'[r] = "insert"
    <3>1. pc[r] = "tablet"
      BY <2>2 DEF CheckQr
    <3>2. /\ at'[r] = at[r] /\ token'[r] = token[r] /\ qr'[token[r]] = qr[token[r]]
          /\ qr[token[r]] \in QrToken
      BY <3>1, Kept, Refers
    <3>3. qr[token[r]].ts \in Int /\ at[r] \in Int
      BY <3>2 DEF QrToken, TypeOK
    <3>4. /\ at[r] - qr[token[r]].ts <= QR_TS_MAX_SKEW_SECONDS
          /\ -(at[r] - qr[token[r]].ts) <= QR_TS_MAX_SKEW_SECONDS
          /\ secret'[r] = qr[token[r]].key
      BY <2>2, <3>1 DEF CheckQr, Judge, TypeOK
    <3>5. QED
      BY <3>2, <3>3, <3>4, CheckInConstants
  <2>3. QED
    BY <1>1, <1>3, <2>1, <2>2 DEF Entered
<1>4. ASSUME Past(r, AfterOwner)'
      PROVE  /\ (challenge[what[r]].user = who[r])'
             /\ (challenge[what[r]].tablet = qr[token[r]].tid)'
  <2>1. CASE Past(r, AfterOwner)
    <3>1. pc[r] # "idle"
      BY <2>1, PastNotIdle, RestsAreSteps
    <3>2. QED
      BY <2>1, <3>1, Kept DEF Established
  <2>2. CASE CheckOwner(r) /\ pc'[r] = "consume"
    <3>1. /\ pc[r] = "owner" /\ challenge[what[r]].user = who[r]
          /\ challenge[what[r]].tablet = qr[token[r]].tid
      BY <2>2 DEF CheckOwner, Judge, TypeOK
    <3>2. QED
      BY <3>1, Kept
  <2>3. QED
    BY <1>1, <1>4, <2>1, <2>2 DEF Entered
<1>5. ASSUME Past(r, AfterConsume)'
      PROVE  (at[r] <= challenge[what[r]].expiresAt)'
  <2>1. CASE Past(r, AfterConsume)
    <3>1. pc[r] # "idle"
      BY <2>1, PastNotIdle, RestsAreSteps
    <3>2. QED
      BY <1>1, <2>1, <3>1, Kept DEF Established, Monotone
  <2>2. CASE ConsumeChallenge(r) /\ pc'[r] = "ble"
    <3>1. pc[r] = "consume" /\ challenge[what[r]].expiresAt >= at[r]
      BY <2>2 DEF ConsumeChallenge, Judge, TypeOK
    <3>2. challenge[what[r]] \in ChallengeRow /\ at[r] \in Int
      BY <3>1, Refers DEF TypeOK
    <3>3. challenge[what[r]].expiresAt \in Int
      BY <3>2 DEF ChallengeRow
    <3>4. QED
      BY <3>1, <3>2, <3>3, Kept
  <2>3. QED
    BY <1>1, <1>5, <2>1, <2>2 DEF Entered
<1>6. ASSUME Past(r, AfterBle)' PROVE (proof[what[r]].secret = secret[r])'
  <2>1. CASE Past(r, AfterBle)
    <3>1. pc[r] # "idle" /\ secret'[r] = secret[r]
      BY <1>2, <2>1, PastNotIdle, RestsAreSteps, SecretKept
    <3>2. QED
      BY <2>1, <3>1, Kept DEF Established
  <2>2. CASE CheckBle(r) /\ pc'[r] = "duplicate"
    <3>1. /\ pc[r] = "ble" /\ proof[what[r]].secret = secret[r]
          /\ secret'[r] = secret[r]
      BY <2>2 DEF CheckBle, Judge, TypeOK
    <3>2. QED
      BY <3>1, Kept
  <2>3. QED
    BY <1>1, <1>6, <2>1, <2>2 DEF Entered
<1>7. QED
  BY <1>3, <1>4, <1>5, <1>6

\* Being past step 6, or dead on the way, is for good.
LEMMA ConsumedStays ==
  ASSUME TypeOK, Submitted, [Next]_vars, NEW x \in Requests, Consumed(x)
  PROVE  Consumed(x)'
<1> USE DEF Consumed
<1>1. Quiet \/ Moves
  BY QuietOrMoves
<1>2. CASE Quiet
  BY <1>2 DEF Quiet
<1>3. ASSUME NEW y \in Requests, Handle(y) \/ Abort(y), y # x
      PROVE  Consumed(x)'
  <2>1. pc'[x] = pc[x] /\ verdict'[x] = verdict[x]
    BY <1>3, HandlerMoves DEF Moved
  <2>2. QED
    BY <2>1
<1>4. CASE Handle(x)
  BY <1>4 DEF Handle, CheckUser, CheckDevice, CheckQr, InsertNonce, ClaimNonce, CheckOwner,
       ConsumeChallenge, CheckBle, CheckDuplicate, SaveRecord, Reply, Judge, TypeOK
<1>5. CASE Abort(x)
  BY <1>5 DEF Abort, TypeOK
<1>6. ASSUME NEW y \in Requests, NEW u \in Users, NEW c \in Challenges,
             NEW n \in Nonces, Submit(y, u, c, n)
      PROVE  Consumed(x)'
  BY <1>6 DEF Submit, TypeOK
<1>7. QED
  BY <1>1, <1>2, <1>3, <1>4, <1>5, <1>6 DEF Moves

\* A spent nonce cannot be claimed again, so a challenge's spender stays the only
\* holder of the nonce that was spent on it.
LEMMA SpenderStays ==
  ASSUME TypeOK, Issued, Submitted, [Next]_vars,
         NEW x \in Requests, NEW c \in Challenges, Spender(x, c)
  PROVE  Spender(x, c)'
<1>1. Monotone /\ Consumed(x)'
  BY StepMonotone, ConsumedStays DEF Spender
<1>2. pc[x] # "idle"
  BY DEF Spender, Consumed
<1>3. /\ what'[x] = what[x] /\ who'[x] = who[x] /\ token'[x] = token[x]
      /\ challenge'[c] = challenge[c] /\ qr'[token[x]] = qr[token[x]] /\ token[x] \in Nonces
  BY <1>2, Kept, Refers DEF Spender
<1>4. nonceRow'[token[x]] = "used"
  BY <1>1, <1>3 DEF Monotone, Spender
<1>5. ASSUME NEW r \in Requests \ {x}, Past(r, AfterClaim)'
      PROVE  token'[r] # token'[x]
  <2>1. CASE Past(r, AfterClaim)
    <3>1. pc[r] # "idle"
      BY <2>1, PastNotIdle, RestsAreSteps
    <3>2. QED
      BY <1>3, <2>1, <3>1, Kept DEF Spender
  <2>2. CASE ClaimNonce(r) /\ pc'[r] = "owner"
    <3>1. nonceRow[token[r]] = "unused" /\ token'[r] = token[r]
      BY <2>2 DEF ClaimNonce, Judge, TypeOK
    <3>2. QED
      BY <1>3, <3>1 DEF Spender
  <2>3. QED
    BY <1>5, <2>1, <2>2, StepEntered DEF Entered
<1>6. QED
  BY <1>1, <1>3, <1>4, <1>5 DEF Spender

\* Whoever makes a challenge used is entitled to it and holds its nonce.
LEMMA UsedBySomebodyStep ==
  ASSUME TypeOK, Issued, Submitted, NonceHeld, Established, UsedBySomebody, [Next]_vars
  PROVE  UsedBySomebody'
<1>1. challengeUsed' = challengeUsed
      \/ \E x \in Requests : /\ ConsumeChallenge(x)
                             /\ challengeUsed' \subseteq challengeUsed \cup {what[x]}
  BY DEF Next, Tick, Administer, AdminStep, SetUserActive, SetDevice, SetTabletActive,
         ClaimTablet, ResaveTablet, PatchRecord, Operate, StoreSecret, RotateQr, SyncNonces,
         RequestChallenge, Prove, Submit, Handle, Abort, CheckUser, CheckDevice, CheckQr,
         InsertNonce, ClaimNonce, CheckOwner, ConsumeChallenge, CheckBle, CheckDuplicate,
         SaveRecord, Reply, Judge, vars, rowVars
<1>2. ASSUME NEW c \in challengeUsed
      PROVE  \E x \in Requests : Spender(x, c)'
  <2>1. PICK x \in Requests : Spender(x, c)
    BY DEF UsedBySomebody
  <2>2. c \in Challenges
    BY DEF TypeOK
  <2>3. QED
    BY <2>1, <2>2, SpenderStays
<1>3. ASSUME NEW x \in Requests, ConsumeChallenge(x), what[x] \in challengeUsed',
             what[x] \notin challengeUsed
      PROVE  Spender(x, what[x])'
  <2>1. /\ pc[x] = "consume" /\ pc'[x] = "ble"
        /\ UNCHANGED <<who, what, token, challenge, qr, nonceRow>>
    BY <1>3 DEF ConsumeChallenge, Judge, phoneVars, kioskVars, TypeOK
  <2>2. Past(x, AfterClaim) /\ Past(x, AfterOwner) /\ Past(x, AfterClaim)'
    BY <2>1 DEF Past, AfterClaim, AfterOwner, AfterConsume
  <2>3. /\ nonceRow[token[x]] = "used" /\ challenge[what[x]].user = who[x]
        /\ challenge[what[x]].tablet = qr[token[x]].tid
    BY <2>2 DEF NonceHeld, Established
  <2>4. NonceHeld'
    BY NonceHeldStep
  <2>5. \A r \in Requests \ {x} : Past(r, AfterClaim)' => token'[r] # token'[x]
    BY <2>2, <2>4 DEF NonceHeld
  <2>6. QED
    BY <2>1, <2>3, <2>5 DEF Spender, Consumed
<1>4. ASSUME NEW x \in Requests, ConsumeChallenge(x),
             challengeUsed' \subseteq challengeUsed \cup {what[x]}
      PROVE  UsedBySomebody'
  <2>1. what'[x] = what[x]
    BY <1>4 DEF ConsumeChallenge, Judge
  <2>2. ASSUME NEW c \in challengeUsed' PROVE \E y \in Requests : Spender(y, c)'
    <3>1. CASE c \in challengeUsed
      BY <1>2, <3>1
    <3>2. CASE c \notin challengeUsed
      <4>1. c = what[x]
        BY <1>4, <3>2
      <4>2. Spender(x, what[x])'
        BY <1>3, <1>4, <3>2, <4>1
      <4>3. Spender(x, c)'
        BY <2>1, <4>1, <4>2
      <4>4. QED
        BY <4>3
    <3>3. QED
      BY <3>1, <3>2
  <2>3. QED
    BY <2>2 DEF UsedBySomebody
<1>5. CASE challengeUsed' = challengeUsed
  BY <1>2, <1>5 DEF UsedBySomebody
<1>6. QED
  BY <1>1, <1>4, <1>5

\* A record is inserted no earlier than any request already submitted, and
\* step 8 saw every record inserted before its own request began.
LEMMA WindowClearStep ==
  ASSUME TypeOK, Issued, Submitted, RecordOf, WindowClear, [Next]_vars
  PROVE  WindowClear'
<1> SUFFICES ASSUME NEW r1 \in Requests, NEW r2 \in Requests, r1 # r2, Recorded(r1)',
                    Past(r2, AfterDuplicate)', who'[r1] = who'[r2],
                    ~records'[r1].isManual, records'[r1].createdAt < at'[r2]
             PROVE  at'[r2] - at'[r1] > DUPLICATE_WINDOW_SECONDS
  BY DEF WindowClear
<1>1. Past(r2, AfterDuplicate) \/ (CheckDuplicate(r2) /\ pc'[r2] = "save")
  BY StepEntered DEF Entered
<1>2. pc[r2] # "idle"
  BY <1>1, PastNotIdle, RestsAreSteps DEF CheckDuplicate
<1>3. at'[r2] = at[r2] /\ who'[r2] = who[r2] /\ at[r2] <= clock
  BY <1>2, Kept DEF Submitted
<1>4. Recorded(r1) /\ records'[r1] = records[r1]
  <2>1. Quiet \/ Moves
    BY QuietOrMoves
  <2>2. ASSUME NEW x \in Requests, Moved(x) PROVE records'[r1] = records[r1]
    <3>1. CASE records'[r1] # records[r1]
      <4>1. records'[r1].createdAt = clock
        BY <2>2, <3>1 DEF Moved
      <4>2. QED
        BY <1>3, <4>1, CheckInConstants DEF TypeOK
    <3>2. QED
      BY <3>1
  <2>3. ASSUME NEW x \in Requests, NEW u \in Users, NEW c \in Challenges,
             NEW n \in Nonces, Submit(x, u, c, n)
        PROVE  records'[r1] = records[r1]
    BY <2>3 DEF Submit, rowVars
  <2>4. CASE Quiet
    BY <2>4 DEF Quiet, Recorded
  <2>5. QED
    BY <2>1, <2>2, <2>3, <2>4, HandlerMoves DEF Moves, Recorded
<1>5. pc[r1] # "idle"
  BY <1>4 DEF Submitted
<1>6. at'[r1] = at[r1] /\ who'[r1] = who[r1]
  BY <1>5, Kept
<1>7. CASE Past(r2, AfterDuplicate)
  BY <1>3, <1>4, <1>6, <1>7 DEF WindowClear
<1>8. CASE CheckDuplicate(r2) /\ pc'[r2] = "save"
  <2>1. Recent(r2) = {}
    BY <1>8 DEF CheckDuplicate, Judge, TypeOK
  <2>2. /\ records[r1] # None /\ records[r1].user = who[r2]
        /\ records[r1].timestamp = at[r1]
    BY <1>3, <1>4, <1>6 DEF RecordOf, Recorded
  <2>3. ~(records[r1].timestamp >= at[r2] - DUPLICATE_WINDOW_SECONDS)
    BY <2>1, <2>2 DEF Recent
  <2>4. at[r1] \in Int /\ at[r2] \in Int /\ DUPLICATE_WINDOW_SECONDS \in Int
    BY CheckInConstants DEF TypeOK
  <2>5. QED
    BY <1>3, <1>6, <2>2, <2>3, <2>4
<1>9. QED
  BY <1>1, <1>7, <1>8

\* A request refused at step 6, before or after a step, has a cause then.
HasCause(r) ==
  LET c == challenge[what[r]] IN
  \/ who[r] # c.user \/ qr[token[r]].tid # c.tablet \/ at[r] > c.expiresAt
  \/ \E x \in Requests :
       /\ what[x] = what[r] /\ who[x] = c.user /\ Consumed(x)
       /\ token[x] # token[r] /\ qr[token[x]].tid = c.tablet

LEMMA CauseStays ==
  ASSUME TypeOK, Issued, Submitted, [Next]_vars, NEW r \in Requests, pc[r] # "idle", HasCause(r)
  PROVE  HasCause(r)'
<1>1. /\ who'[r] = who[r] /\ what'[r] = what[r] /\ at'[r] = at[r] /\ token'[r] = token[r]
      /\ challenge'[what[r]] = challenge[what[r]] /\ qr'[token[r]] = qr[token[r]]
  BY Kept
<1>2. CASE \/ who[r] # challenge[what[r]].user \/ at[r] > challenge[what[r]].expiresAt
           \/ qr[token[r]].tid # challenge[what[r]].tablet
  BY <1>1, <1>2 DEF HasCause
<1>3. ASSUME NEW x \in Requests, what[x] = what[r], who[x] = challenge[what[r]].user,
             Consumed(x), token[x] # token[r], qr[token[x]].tid = challenge[what[r]].tablet
      PROVE  HasCause(r)'
  <2>1. pc[x] # "idle" /\ Consumed(x)'
    BY <1>3, ConsumedStays DEF Consumed
  <2>2. /\ who'[x] = who[x] /\ what'[x] = what[x] /\ token'[x] = token[x]
        /\ qr'[token[x]] = qr[token[x]]
    BY <2>1, Kept
  <2>3. QED
    BY <1>1, <1>3, <2>1, <2>2 DEF HasCause
<1>4. QED
  BY <1>2, <1>3 DEF HasCause

LEMMA ChallengeRefusalStep ==
  ASSUME TypeOK, Issued, Submitted, NonceHeld, UsedBySomebody, ChallengeRefusalHasCause,
         [Next]_vars
  PROVE  ChallengeRefusalHasCause'
<1> SUFFICES ASSUME NEW r \in Requests, Answered(r, 6)'
             PROVE  HasCause(r)'
  BY DEF ChallengeRefusalHasCause, HasCause
<1>1. \/ Answered(r, 6)
      \/ CheckOwner(r) /\ pc'[r] = "answered"
      \/ ConsumeChallenge(r) /\ pc'[r] = "answered"
  <2>1. Quiet \/ Moves
    BY QuietOrMoves
  <2>2. CASE Quiet
    BY <2>2 DEF Quiet, Answered
  <2>3. ASSUME NEW x \in Requests, Handle(x) \/ Abort(x), x # r PROVE Answered(r, 6)
    <3>1. Moved(x)
      BY <2>3, HandlerMoves
    <3>2. pc'[r] = pc[r] /\ verdict'[r] = verdict[r]
      BY <2>3, <3>1 DEF Moved
    <3>3. QED
      BY <3>2 DEF Answered
  <2>4. CASE Abort(r)
    BY <2>4 DEF Abort, Answered, TypeOK
  <2>5. CASE Handle(r)
    BY <2>5 DEF Answered, Handle, CheckUser, CheckDevice, CheckQr, InsertNonce, ClaimNonce,
           CheckOwner, ConsumeChallenge, CheckBle, CheckDuplicate, SaveRecord, Reply,
           Judge, TypeOK
  <2>6. ASSUME NEW x \in Requests, NEW u \in Users, NEW c \in Challenges,
             NEW n \in Nonces, Submit(x, u, c, n)
        PROVE  Answered(r, 6)
    BY <2>6 DEF Submit, Answered, TypeOK
  <2>7. QED
    BY <2>1, <2>2, <2>3, <2>4, <2>5, <2>6 DEF Moves
<1>2. pc[r] # "idle"
  BY <1>1 DEF Answered, CheckOwner, ConsumeChallenge
<1>3. HasCause(r)
  <2>1. CASE Answered(r, 6)
    BY <2>1 DEF ChallengeRefusalHasCause, HasCause
  <2>2. CASE CheckOwner(r) /\ pc'[r] = "answered"
    BY <2>2 DEF CheckOwner, Judge, TypeOK, HasCause
  <2>3. CASE ConsumeChallenge(r) /\ pc'[r] = "answered"
    <3>1. /\ pc[r] = "consume"
          /\ ~(what[r] \notin challengeUsed /\ challenge[what[r]].expiresAt >= at[r])
      BY <2>3 DEF ConsumeChallenge, Judge, TypeOK
    <3>2. challenge[what[r]].expiresAt \in Int /\ at[r] \in Int
      <4>1. challenge[what[r]] \in ChallengeRow
        BY <1>2, Refers
      <4>2. QED
        BY <4>1 DEF ChallengeRow, TypeOK
    <3>3. CASE what[r] \in challengeUsed
      <4>1. PICK x \in Requests : Spender(x, what[r])
        BY <3>3 DEF UsedBySomebody
      <4>2. x # r /\ Past(r, AfterClaim)
        BY <3>1, <4>1 DEF Spender, Consumed, Past, AfterClaim, AfterOwner
      <4>3. token[x] # token[r]
        BY <4>1, <4>2 DEF Spender
      <4>4. QED
        BY <4>1, <4>3 DEF Spender, HasCause
    <3>4. CASE challenge[what[r]].expiresAt < at[r]
      BY <3>2, <3>4 DEF HasCause
    <3>5. QED
      BY <3>1, <3>2, <3>3, <3>4
  <2>4. QED
    BY <1>1, <2>1, <2>2, <2>3
<1>4. QED
  BY <1>2, <1>3, CauseStays

(***************************************************************************)
(* The theorems.                                                           *)
(***************************************************************************)

LEMMA InitIInv == Init => IInv
<1> SUFFICES ASSUME Init PROVE IInv
  OBVIOUS
<1>1. TypeOK
  BY TypeInit
<1>2. \A r \in Requests : pc[r] = "idle" /\ ~Recorded(r) /\ verdict[r] = None
  BY DEF Init, Recorded
<1>3. \A c \in Challenges : challenge[c] = None /\ proof[c] = None
  BY DEF Init
<1>4. challengeUsed = {}
  BY DEF Init
<1> USE DEF AfterQr, AfterClaim, AfterOwner, AfterConsume, AfterBle, AfterDuplicate
<1>5. Issued /\ Submitted /\ RecordOf /\ UsedBySomebody
  BY <1>2, <1>3, <1>4 DEF Issued, Submitted, RecordOf, UsedBySomebody
<1>6. NonceHeld /\ ChallengeHeld /\ Established /\ WindowClear
  BY <1>2 DEF NonceHeld, ChallengeHeld, Established, WindowClear, Past
<1>7. ChallengeRefusalHasCause
  BY <1>2 DEF ChallengeRefusalHasCause, Answered
<1>8. QED
  BY <1>1, <1>5, <1>6, <1>7 DEF IInv

LEMMA StepIInv == IInv /\ [Next]_vars => IInv'
  BY TypeStep, IssuedStep, SubmittedStep, RecordOfStep, NonceHeldStep, ChallengeHeldStep,
     EstablishedStep, UsedBySomebodyStep, WindowClearStep, ChallengeRefusalStep DEF IInv

\* In every state of every run the inductive invariant holds, types included.
THEOREM Invariance == Spec => []IInv
  BY InitIInv, StepIInv, PTL DEF Spec

\* A QR nonce is worth one record: the atomic claim of step 5 is enough,
\* whatever crashes, retries and interleavings happen.
THEOREM NonceIsWorthOneRecord == Spec => []OneRecordPerNonce
<1>1. IInv => OneRecordPerNonce
  BY DEF IInv, OneRecordPerNonce, NonceHeld, Past
<1>2. QED
  BY <1>1, Invariance, PTL

\* Every record rests on all the evidence steps 3 to 7 ask for.
THEOREM RecordsAreJustified == Spec => []RecordJustified
<1>1. IInv => RecordJustified
  <2> SUFFICES ASSUME IInv PROVE RecordJustified
    OBVIOUS
  <2>1. ASSUME NEW r \in Requests, Recorded(r)
        PROVE  /\ records[r].challenge = what[r] /\ records[r].user = who[r]
               /\ records[r].tablet = challenge[what[r]].tablet
               /\ records[r].tablet = qr[token[r]].tid
               /\ what[r] \in challengeUsed /\ nonceRow[token[r]] = "used"
               /\ challenge[what[r]].user = who[r]
               /\ ~records[r].isManual => records[r].timestamp = at[r]
               /\ at[r] <= challenge[what[r]].expiresAt
               /\ at[r] - qr[token[r]].ts <= QR_TS_MAX_SKEW_SECONDS
               /\ qr[token[r]].ts - at[r] <= QR_TS_MAX_SKEW_SECONDS
               /\ qr[token[r]].key = proof[what[r]].secret
    <3>1. /\ Past(r, AfterClaim) /\ Past(r, AfterQr) /\ Past(r, AfterOwner)
          /\ Past(r, AfterConsume) /\ Past(r, AfterBle)
      BY <2>1 DEF Past
    <3>2. /\ records[r].challenge = what[r] /\ records[r].user = who[r]
          /\ records[r].tablet = qr[token[r]].tid
          /\ ~records[r].isManual => records[r].timestamp = at[r]
      BY <2>1 DEF IInv, RecordOf
    <3>3. what[r] \in challengeUsed /\ nonceRow[token[r]] = "used"
      BY <3>1 DEF IInv, NonceHeld, ChallengeHeld
    <3>4. /\ challenge[what[r]].user = who[r]
          /\ challenge[what[r]].tablet = qr[token[r]].tid
          /\ at[r] <= challenge[what[r]].expiresAt
          /\ at[r] - qr[token[r]].ts <= QR_TS_MAX_SKEW_SECONDS
          /\ qr[token[r]].ts - at[r] <= QR_TS_MAX_SKEW_SECONDS
          /\ qr[token[r]].key = proof[what[r]].secret
      BY <3>1 DEF IInv, Established
    <3>5. QED
      BY <3>2, <3>3, <3>4
  <2>2. ASSUME NEW r \in Requests, Recorded(r)
        PROVE  at[r] \in Int /\ qr[token[r]].ts \in Int
    <3>1. qr[token[r]] \in QrToken
      BY <2>2, Refers DEF IInv, Submitted
    <3>2. QED
      BY <3>1 DEF QrToken, IInv, TypeOK
  <2>3. QED
    BY <2>1, <2>2, CheckInConstants DEF RecordJustified
<1>2. QED
  BY <1>1, Invariance, PTL

\* Records within one window belong to overlapping requests.
THEOREM WindowHoldsForSuccessiveChecks == Spec => []DuplicatesOnlyIfOverlapping
<1>1. IInv => DuplicatesOnlyIfOverlapping
  BY DEF IInv, DuplicatesOnlyIfOverlapping, WindowClear, RecordOf, Past
<1>2. QED
  BY <1>1, Invariance, PTL

\* Step 6 refuses the owner of a challenge at its tablet, in time, only if they used
\* it before with another QR.
THEOREM RefusalsHaveCauses == Spec => []ChallengeRefusalHasCause
  BY Invariance, PTL DEF IInv

\* What was claimed stays claimed, and a record only ever changes into an
\* amended one: no step of any request, kiosk or administrator undoes it.
THEOREM ClaimsStay == Spec => ClaimsAreFinal
<1> DEFINE Final ==
      /\ \A n \in Nonces : nonceRow[n] = "used" => nonceRow'[n] = "used"
      /\ challengeUsed \subseteq challengeUsed'
      /\ \A r \in Requests : Recorded(r) =>
           records'[r] \in {records[r], [records[r] EXCEPT
                              !.timestamp = records'[r].timestamp, !.isManual = TRUE]}
<1>1. ASSUME IInv, [Next]_vars PROVE Final
  <2>1. Monotone /\ (Quiet \/ Moves)
    BY <1>1, StepMonotone, QuietOrMoves DEF IInv
  <2>2. ASSUME NEW r \in Requests, Recorded(r), records'[r] # records[r]
        PROVE  records'[r] = [records[r] EXCEPT
                 !.timestamp = records'[r].timestamp, !.isManual = TRUE]
    <3>1. records[r] \in RecordRow /\ pc[r] # "save"
      BY <1>1, <2>2 DEF IInv, TypeOK, Recorded, Submitted
    <3>2. Quiet
      BY <1>1, <2>1, <2>2, <3>1, HandlerMoves
         DEF Moves, Moved, Submit, rowVars, IInv
    <3>3. /\ records'[r] \in RecordRow /\ records'[r].isManual
          /\ records'[r].user = records[r].user /\ records'[r].tablet = records[r].tablet
          /\ records'[r].challenge = records[r].challenge
          /\ records'[r].createdAt = records[r].createdAt
      BY <2>2, <3>2 DEF Quiet
    <3> DEFINE old == records[r]
               new == records'[r]
    <3>4. /\ old \in RecordRow /\ new \in RecordRow /\ new.isManual = TRUE
          /\ new.user = old.user /\ new.tablet = old.tablet
          /\ new.challenge = old.challenge /\ new.createdAt = old.createdAt
      BY <3>1, <3>3 DEF RecordRow
    <3> HIDE DEF old, new
    <3>5. new = [old EXCEPT !.timestamp = new.timestamp, !.isManual = TRUE]
      BY <3>4 DEF RecordRow
    <3>6. QED
      BY <3>5 DEF old, new
  <2>3. QED
    BY <2>1, <2>2 DEF Monotone
<1>2. IInv /\ [Next]_vars => [Final]_vars
  BY <1>1
<1>3. QED
  BY <1>2, Invariance, PTL DEF Spec, ClaimsAreFinal

(***************************************************************************)
(* Refinement: the chain implements the ledger.                            *)
(***************************************************************************)

\* Saving is entering: nobody else holds the nonce, the challenge is the
\* user's own and was not expired.
LEMMA SaveEnters ==
  ASSUME IInv, [Next]_vars, NEW r \in Requests, SaveRecord(r)
  PROVE  Ledger!Enter(r)
<1>1. /\ pc[r] = "save" /\ Past(r, AfterClaim) /\ ~Recorded(r)
      /\ UNCHANGED <<challenge, token>> /\ token[r] \in Nonces
  BY DEF SaveRecord, Past, AfterClaim, AfterOwner, AfterConsume, AfterBle, AfterDuplicate,
         IInv, Submitted, Judge, phoneVars
<1> DEFINE c == what[r]
           row == [user |-> who[r], tablet |-> qr[token[r]].tid, challenge |-> c,
                   timestamp |-> at[r], createdAt |-> clock, isManual |-> FALSE]
<1>2. c \in Challenges /\ challenge[c] \in ChallengeRow /\ challenge[c] # None
  BY <1>1, Refers DEF IInv, Submitted, Issued
<1>3. /\ challenge[c].user = who[r] /\ challenge[c].tablet = qr[token[r]].tid
      /\ at[r] <= challenge[c].expiresAt
  BY <1>1 DEF IInv, Established, Past, AfterOwner, AfterConsume, AfterBle, AfterDuplicate
<1>4. records' = [records EXCEPT ![r] = row] /\ records'[r] = row
  BY DEF SaveRecord, IInv, TypeOK
<1>5. ASSUME NEW e \in Requests, Recorded(e)
      PROVE  records[e].challenge # c /\ Paid[e] # token[r]
  <2>1. /\ e # r /\ Past(e, AfterClaim) /\ Past(e, AfterConsume) /\ Past(r, AfterConsume)
        /\ records[e].challenge = what[e] /\ Paid[e] = token[e]
    BY <1>1, <1>5 DEF Past, AfterConsume, AfterBle, AfterDuplicate, IInv, RecordOf, Paid
  <2>2. QED
    BY <1>1, <2>1 DEF IInv, NonceHeld, ChallengeHeld
<1>6. Ledger!Fresh(c, token[r])
  BY <1>5 DEF Ledger!Fresh, Recorded
<1>7. at[r] \in Int /\ clock \in Int
  BY CheckInConstants DEF IInv, TypeOK
<1>8. row \in [user : {challenge[c].user}, tablet : {challenge[c].tablet}, challenge : {c},
               timestamp : Int, createdAt : Int, isManual : {FALSE}]
  BY <1>2, <1>3, <1>7
<1>9. records'[r].timestamp = at[r]
  BY <1>4
<1>10. /\ records[r] = None /\ records' = [records EXCEPT ![r] = records'[r]]
       /\ records'[r] \in [user : {challenge[c].user}, tablet : {challenge[c].tablet},
                          challenge : {c}, timestamp : Int, createdAt : Int,
                          isManual : {FALSE}]
       /\ records'[r].timestamp <= challenge[c].expiresAt
  BY <1>1, <1>3, <1>4, <1>8, <1>9 DEF Recorded
<1>11. records'[r] \in RecordRow
  <2>1. challenge[c].user \in Users /\ challenge[c].tablet \in Tablets
    BY <1>2 DEF ChallengeRow
  <2>2. QED
    BY <1>2, <1>4, <1>8, <2>1 DEF RecordRow
<1>12. Paid' = [Paid EXCEPT ![r] = token[r]]
  <2>1. records'[r] # None /\ \A e \in Requests \ {r} : Recorded(e)' <=> Recorded(e)
    BY <1>4, <1>11, NoRecordIsNone DEF Recorded, IInv, TypeOK
  <2>2. QED
    BY <1>1, <2>1 DEF Paid, Recorded
<1> HIDE DEF c, row
<1>13. QED
  BY <1>1, <1>2, <1>6, <1>10, <1>12 DEF Ledger!Enter

LEMMA PatchAmends ==
  ASSUME TypeOK, NEW r \in Requests, NEW ts \in ManualTimes, PatchRecord(r, ts)
  PROVE  Ledger!Amend(r)
<1>1. records[r] \in RecordRow /\ ts \in Int /\ records[r] # None
  <2>1. ts \in Int
    BY CheckInConstants
  <2>2. QED
    BY <2>1 DEF PatchRecord, TypeOK
<1>2. records' = [records EXCEPT
                    ![r] = [records[r] EXCEPT !.timestamp = ts, !.isManual = TRUE]]
  BY DEF PatchRecord, TypeOK
<1>3. records'[r].timestamp = ts
  <2> DEFINE old == records[r]
  <2>1. records'[r] = [old EXCEPT !.timestamp = ts, !.isManual = TRUE]
    BY <1>2 DEF TypeOK
  <2>2. old \in RecordRow
    BY <1>1
  <2> HIDE DEF old
  <2>3. QED
    BY <2>1, <2>2 DEF RecordRow
<1>4. UNCHANGED <<challenge, token, Paid>>
  <2>1. UNCHANGED <<challenge, token>>
    <3>1. AdminStep
      BY DEF PatchRecord
    <3>2. QED
      BY <3>1 DEF AdminStep, phoneVars, reqVars, kioskVars
  <2>2. records'[r] # None
    <3>1. [records[r] EXCEPT !.timestamp = ts, !.isManual = TRUE] \in RecordRow
      BY <1>1, AmendedRow
    <3>2. records'[r] = [records[r] EXCEPT !.timestamp = ts, !.isManual = TRUE]
      BY <1>2 DEF TypeOK
    <3>3. QED
      BY <3>1, <3>2, NoRecordIsNone
  <2>3. \A e \in Requests : Recorded(e)' <=> Recorded(e)
    BY <1>1, <1>2, <2>2 DEF Recorded, TypeOK
  <2>4. QED
    BY <2>1, <2>3 DEF Paid
<1>5. QED
  BY <1>1, <1>2, <1>3, <1>4 DEF Ledger!Amend

LEMMA RequestIssues ==
  ASSUME TypeOK, TypeOK', NEW u \in Users, NEW t \in Tablets, NEW c \in Challenges,
         RequestChallenge(u, t, c)
  PROVE  Ledger!Issue(c)
<1>1. /\ challenge' = [challenge EXCEPT ![c] = challenge'[c]]
      /\ challenge[c] = None /\ UNCHANGED <<records, Paid>>
  BY DEF RequestChallenge, TypeOK, rowVars, reqVars, Paid, Recorded
<1>2. challenge'[c] \in ChallengeRow
  <2>1. clock + CHALLENGE_TTL_SECONDS \in Int
    BY CheckInConstants DEF TypeOK
  <2>2. challenge'[c] = [user |-> u, tablet |-> t,
                         expiresAt |-> clock + CHALLENGE_TTL_SECONDS]
    BY DEF RequestChallenge, TypeOK
  <2>3. QED
    BY <2>1, <2>2 DEF ChallengeRow, QrToken
<1>3. QED
  BY <1>1, <1>2 DEF Ledger!Issue, ChallengeRow

\* Whoever has a record keeps the nonce it was paid with.
LEMMA PaidKept ==
  ASSUME IInv, [Next]_vars, UNCHANGED records
  PROVE  UNCHANGED Paid
<1>1. ASSUME NEW r \in Requests, Recorded(r) PROVE token'[r] = token[r]
  <2>1. pc[r] # "idle"
    BY <1>1 DEF IInv, Submitted
  <2>2. QED
    BY <2>1, Kept DEF IInv
<1>2. QED
  BY <1>1 DEF Paid, Recorded

\* Seen from outside, a check is entered in one atomic step or not at all.
THEOREM ImplementsLedger == Spec => LedgerSpec
<1>1. Init => Ledger!Init
  BY DEF Init, Ledger!Init, Paid, Recorded
<1>2. IInv /\ IInv' /\ [Next]_vars => [Ledger!Next]_(Ledger!vars)
  <2> SUFFICES ASSUME IInv, IInv', [Next]_vars
               PROVE  Ledger!Next \/ UNCHANGED <<challenge, records, Paid>>
    BY DEF Ledger!vars
  <2>1. \/ UNCHANGED <<challenge, records>>
        \/ \E u \in Users, t \in Tablets, c \in Challenges : RequestChallenge(u, t, c)
        \/ \E r \in Requests : SaveRecord(r)
        \/ \E r \in Requests, ts \in ManualTimes : PatchRecord(r, ts)
    <3> USE DEF phoneVars, rowVars
    <3>1. CASE Tick
      BY <3>1 DEF Tick
    <3>2. CASE Administer
      BY <3>2 DEF Administer, AdminStep, SetUserActive, SetDevice, SetTabletActive, ClaimTablet,
                  ResaveTablet
    <3>3. CASE Operate
      BY <3>3 DEF Operate, StoreSecret, RotateQr, SyncNonces, Prove, Submit
    <3>4. ASSUME NEW r \in Requests, Abort(r)
          PROVE  UNCHANGED <<challenge, records>>
      BY <3>4 DEF Abort
    <3>5. ASSUME NEW r \in Requests, Handle(r)
          PROVE  UNCHANGED <<challenge, records>> \/ SaveRecord(r)
      <4> USE DEF Judge
      <4>1. CASE CheckUser(r) \/ CheckDevice(r) \/ CheckQr(r)
        BY <4>1 DEF CheckUser, CheckDevice, CheckQr
      <4>2. CASE InsertNonce(r) \/ ClaimNonce(r) \/ CheckOwner(r)
        BY <4>2 DEF InsertNonce, ClaimNonce, CheckOwner
      <4>3. CASE ConsumeChallenge(r) \/ CheckBle(r)
        BY <4>3 DEF ConsumeChallenge, CheckBle
      <4>4. CASE CheckDuplicate(r) \/ Reply(r)
        BY <4>4 DEF CheckDuplicate, Reply
      <4>5. QED
        BY <3>5, <4>1, <4>2, <4>3, <4>4 DEF Handle
    <3>6. CASE UNCHANGED vars
      BY <3>6 DEF vars
    <3>7. QED
      BY <3>1, <3>2, <3>3, <3>4, <3>5, <3>6 DEF Next
  <2>2. QED
    BY <2>1, PaidKept, SaveEnters, PatchAmends, RequestIssues DEF Ledger!Next, IInv
<1>3. QED
  BY <1>1, <1>2, Invariance, PTL DEF Spec, LedgerSpec, Ledger!Spec
=============================================================================
