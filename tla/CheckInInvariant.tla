-------------------------- MODULE CheckInInvariant --------------------------
(***************************************************************************)
(* The inductive invariant behind the safety properties of CheckIn: what   *)
(* is true between any two awaits of any number of requests.               *)
(***************************************************************************)
EXTENDS CheckIn

\* What is left of the chain after a step.
AfterDuplicate == {"save"}
AfterBle       == {"duplicate"} \cup AfterDuplicate
AfterConsume   == {"ble"} \cup AfterBle
AfterOwner     == {"consume"} \cup AfterConsume
AfterClaim     == {"owner"} \cup AfterOwner
AfterQr        == {"insert", "claim"} \cup AfterClaim

\* r got past a step, and is still on its way to a record or has made one.
Past(r, rest) == pc[r] \in rest \/ Recorded(r)

\* A proof is for a challenge that was issued, and so is every use.
Issued ==
  /\ \A c \in Challenges : proof[c] # None => challenge[c] # None
  /\ \A c \in challengeUsed : challenge[c] # None

\* A submitted request carries a complete body; only "save" makes a record.
Submitted ==
  \A r \in Requests :
    /\ pc[r] # "idle" => /\ who[r] \in Users /\ what[r] \in Challenges
                         /\ token[r] \in Nonces
                         /\ proof[what[r]] # None /\ Qr(r) # None
                         /\ at[r] <= clock
    /\ Recorded(r) => pc[r] \in {"reply", "answered", "aborted"}

\* The record repeats its request, but for the time an administrator typed.
RecordOf ==
  \A r \in Requests : Recorded(r) =>
    /\ records[r].user = who[r] /\ records[r].challenge = what[r]
    /\ records[r].tablet = Qr(r).tid
    /\ records[r].createdAt <= clock
    /\ ~records[r].isManual => records[r].timestamp = at[r]

\* Past step 5 a request is the only live holder of its nonce, past step 6 of its
\* challenge.
NonceHeld ==
  /\ \A r \in Requests : Past(r, AfterClaim) => nonceRow[token[r]] = "used"
  /\ \A r1, r2 \in Requests :
       Past(r1, AfterClaim) /\ Past(r2, AfterClaim) /\ token[r1] = token[r2] => r1 = r2
ChallengeHeld ==
  /\ \A r \in Requests : Past(r, AfterConsume) => what[r] \in challengeUsed
  /\ \A r1, r2 \in Requests :
       Past(r1, AfterConsume) /\ Past(r2, AfterConsume) /\ what[r1] = what[r2] => r1 = r2

\* What each later step has established stays true while the chain goes on.
Established ==
  \A r \in Requests :
    /\ Past(r, AfterQr) =>
         /\ secret[r] = Qr(r).key
         /\ at[r] - Qr(r).ts <= QR_TS_MAX_SKEW_SECONDS
         /\ Qr(r).ts - at[r] <= QR_TS_MAX_SKEW_SECONDS
    /\ Past(r, AfterOwner) => /\ challenge[what[r]].user = who[r]
                              /\ challenge[what[r]].tablet = Qr(r).tid
    /\ Past(r, AfterConsume) => at[r] <= challenge[what[r]].expiresAt
    /\ Past(r, AfterBle) => proof[what[r]].secret = secret[r]

\* Somebody entitled to a used challenge has used it: with a nonce that was spent
\* on it and that nobody else holds.
Spender(x, c) ==
  /\ what[x] = c /\ Consumed(x)
  /\ who[x] = challenge[c].user /\ Qr(x).tid = challenge[c].tablet
  /\ nonceRow[token[x]] = "used"
  /\ \A r \in Requests \ {x} : Past(r, AfterClaim) => token[r] # token[x]
UsedBySomebody == \A c \in challengeUsed : \E x \in Requests : Spender(x, c)

\* Past step 8 no record made before the request began lies in its window.
WindowClear ==
  \A r1, r2 \in Requests :
    /\ r1 # r2 /\ Recorded(r1) /\ Past(r2, AfterDuplicate)
    /\ who[r1] = who[r2] /\ ~records[r1].isManual
    /\ records[r1].createdAt < at[r2]
    => at[r2] - at[r1] > DUPLICATE_WINDOW_SECONDS

\* All of it: true initially and kept by every step.
IInv ==
  /\ TypeOK /\ Issued /\ Submitted /\ RecordOf /\ NonceHeld /\ ChallengeHeld
  /\ Established /\ UsedBySomebody /\ WindowClear /\ ChallengeRefusalHasCause
=============================================================================
