------------------------------- MODULE Tablets --------------------------------
(***************************************************************************)
(* One tablet's row in the registry (TabletsService) and the kiosks that   *)
(* claim it: provision codes, secrets, heartbeats.  Every handler loads    *)
(* the row, changes its copy and saves the whole copy; calls interleave    *)
(* between the two, answers get lost, kiosks restart.                      *)
(*                                                                         *)
(* Rows of different tablets share nothing, so one row stands for each.    *)
(* Names, lastSeenAt, audit rows and the hash of a code are abstracted; a  *)
(* signature verifies when both sides hold the same secret (the clock skew *)
(* is CheckIn's, the nonces that come with a heartbeat are KioskLink's).   *)
(***************************************************************************)
EXTENDS Naturals

CONSTANTS
  Kiosks,                    \* devices with the kiosk app
  Calls,                     \* requests the API can be working on
  Codes, Secrets,            \* random values, each generated at most once
  None,
  MaxFaults                  \* bound: restarts, lost answers, failed calls

\* The columns that matter; provisionCodeExpiresAt goes with the code.
TabletRow == [secret : Secrets \cup {None}, code : Codes \cup {None},
              active : BOOLEAN]

\* A request past its load, with its copy of the row.
Call == [op : {"rotate", "update", "claim", "heartbeat"}, by : Kiosks \cup {None},
         copy : TabletRow, code : Codes \cup {None}, pc : {"save", "answer"}]

ASSUME TabletsConstants ==
  /\ None \notin Codes \cup Secrets \cup Kiosks \cup TabletRow \cup Call
  /\ MaxFaults \in Nat

VARIABLES
  row,         \* the tablets row, or None before it is provisioned
  issued,      \* codes generated so far
  expired,     \* codes whose provisionCodeExpiresAt has passed
  sold,        \* history: the code each saved secret was given for
  call,        \* a request past its load, with its copy of the row
  stale,       \* history: calls whose copy is older than the row
  undone,      \* history: a stale copy has been saved
  kiosk,       \* per device: its screen, and the secret in its RAM and keychain
  faults

vars == <<row, issued, expired, sold, call, stale, undone, kiosk, faults>>

\* The KioskConfig, as far as it is secret: in RAM and in the keychain.
KioskConfig == [secret : Secrets \cup {None}, stored : Secrets \cup {None},
                screen : {"loading", "provision", "busy", "store", "main"}]

TypeOK ==
  /\ row \in TabletRow \cup {None}
  /\ issued \subseteq Codes /\ expired \subseteq issued
  /\ sold \in [Secrets -> Codes \cup {None}]
  /\ call \in [Calls -> Call \cup {None}]
  /\ stale \subseteq Calls /\ undone \in BOOLEAN
  /\ kiosk \in [Kiosks -> KioskConfig]
  /\ faults \in 0..MaxFaults

Init ==
  /\ row = None /\ issued = {} /\ expired = {} /\ sold = [s \in Secrets |-> None]
  /\ call = [c \in Calls |-> None] /\ stale = {} /\ undone = FALSE
  /\ kiosk = [k \in Kiosks |-> [secret |-> None, stored |-> None, screen |-> "loading"]]
  /\ faults = 0

Busy(c, pc) == call[c] # None /\ call[c].pc = pc

-----------------------------------------------------------------------------
(* The API.  A call has loaded the row when it begins.                     *)

\* The first code comes with the row.
Provision(code) ==
  /\ row = None /\ code \notin issued
  /\ row' = [secret |-> None, code |-> code, active |-> TRUE]
  /\ issued' = issued \cup {code}
  /\ UNCHANGED <<expired, sold, call, stale, undone, kiosk, faults>>

Begin(c, op, k, copy) ==
  /\ call[c] = None /\ row # None
  /\ call' = [call EXCEPT ![c] =
       [op |-> op, by |-> k, copy |-> copy, code |-> row.code, pc |-> "save"]]
  /\ UNCHANGED <<row, expired, sold, stale, undone, faults>>

\* Mutant of RotateSecret: the old secret ends with the old code.
RotateSecretNow(c, code) ==
  /\ code \notin issued
  /\ Begin(c, "rotate", None, [row EXCEPT !.code = code, !.secret = None])
  /\ issued' = issued \cup {code}
  /\ UNCHANGED kiosk

\* A new code; the secret keeps working until the code is claimed.
RotateSecret(c, code) ==
  /\ code \notin issued
  /\ Begin(c, "rotate", None, [row EXCEPT !.code = code])
  /\ issued' = issued \cup {code}
  /\ UNCHANGED kiosk

\* Mutant of Update: a deactivated tablet loses its secret.
UpdateRevoking(c, b) ==
  /\ Begin(c, "update", None, [row EXCEPT !.active = b, !.secret = IF b THEN @ ELSE None])
  /\ UNCHANGED <<issued, kiosk>>

Update(c, b) ==
  /\ Begin(c, "update", None, [row EXCEPT !.active = b])
  /\ UNCHANGED <<issued, kiosk>>

\* provisionCodeExpiresAt passes.
Expire(code) ==
  /\ code \in issued \ expired
  /\ expired' = expired \cup {code}
  /\ UNCHANGED <<row, issued, sold, call, stale, undone, kiosk, faults>>

\* randomBytes: never a secret that somebody has, or is about to get.
Fresh(s) == sold[s] = None /\ \A c \in Calls : call[c] # None => call[c].copy.secret # s

\* Mutant of Claim: the code stays in the row.
ClaimAgain(c, k, code, s) ==
  /\ kiosk[k].screen = "provision" /\ Fresh(s)
  /\ row # None /\ row.code = code /\ code \notin expired
  /\ Begin(c, "claim", k, [row EXCEPT !.secret = s])
  /\ kiosk' = [kiosk EXCEPT ![k].screen = "busy"]
  /\ UNCHANGED issued

\* A kiosk submits a code: findOneBy its hash, then a new secret for it.  An
\* unknown or expired code is refused and leaves everything as it is.
Claim(c, k, code, s) ==
  /\ kiosk[k].screen = "provision" /\ Fresh(s)
  /\ row # None /\ row.code = code /\ code \notin expired
  /\ Begin(c, "claim", k, [row EXCEPT !.secret = s, !.code = None])
  /\ kiosk' = [kiosk EXCEPT ![k].screen = "busy"]
  /\ UNCHANGED issued

\* verifyTabletSignature: the kiosk's signature against the row's secret.
Verified(k) ==
  /\ row # None /\ row.active
  /\ row.secret # None /\ kiosk[k].secret = row.secret

\* heartbeat and syncNonces: nothing but lastSeenAt is new in the copy.
Heartbeat(c, k) ==
  /\ kiosk[k].screen = "main" /\ Verified(k)
  /\ Begin(c, "heartbeat", k, row)
  /\ UNCHANGED <<issued, kiosk>>

\* Repository.save: all columns of the copy, whatever the row is by now.
Save(c) ==
  /\ Busy(c, "save")
  /\ row' = call[c].copy
  /\ call' = [call EXCEPT ![c].pc = "answer"]
  /\ sold' = IF call[c].op = "claim"
             THEN [sold EXCEPT ![call[c].copy.secret] = call[c].code] ELSE sold
  /\ stale' = (IF row' = row THEN stale ELSE stale \cup {b \in Calls : Busy(b, "save")})
              \ {c}
  /\ undone' = (undone \/ c \in stale)
  /\ UNCHANGED <<issued, expired, kiosk, faults>>

-----------------------------------------------------------------------------
(* The kiosk                                                               *)

\* App: loadConfig decides between the two screens.
Boot(k) ==
  /\ kiosk[k].screen = "loading"
  /\ kiosk' = [kiosk EXCEPT ![k].secret = kiosk[k].stored,
                 ![k].screen = IF kiosk[k].stored = None THEN "provision" ELSE "main"]
  /\ UNCHANGED <<row, issued, expired, sold, call, stale, undone, faults>>

\* The answer to a claim carries the secret, which ProvisionScreen stores next.
Answer(c) ==
  /\ Busy(c, "answer")
  /\ kiosk' = [k \in Kiosks |-> IF call[c].op = "claim" /\ k = call[c].by
                 THEN [kiosk[k] EXCEPT !.screen = "store", !.secret = call[c].copy.secret]
                 ELSE kiosk[k]]
  /\ call' = [call EXCEPT ![c] = None]
  /\ UNCHANGED <<row, issued, expired, sold, stale, undone, faults>>

\* saveConfig, then onProvisioned.
StoreConfig(k) ==
  /\ kiosk[k].screen = "store"
  /\ kiosk' = [kiosk EXCEPT ![k].stored = kiosk[k].secret, ![k].screen = "main"]
  /\ UNCHANGED <<row, issued, expired, sold, call, stale, undone, faults>>

-----------------------------------------------------------------------------
(* Faults                                                                  *)

Fault == faults < MaxFaults /\ faults' = faults + 1

\* The screen that waits for a claim shows an error and takes a code again.
GiveUp(c) ==
  kiosk' = [k \in Kiosks |-> IF call[c].op = "claim" /\ k = call[c].by
              THEN [kiosk[k] EXCEPT !.screen = "provision"] ELSE kiosk[k]]

\* The connection breaks: the API goes on, nobody hears of it.
LoseAnswer(c) ==
  /\ Fault /\ call[c] # None /\ call[c].by # None
  /\ GiveUp(c)
  /\ call' = [call EXCEPT ![c].by = None]
  /\ UNCHANGED <<row, issued, expired, sold, stale, undone>>

\* A database error or a crash of the API between two awaits.
Fail(c) ==
  /\ Fault /\ call[c] # None
  /\ GiveUp(c)
  /\ call' = [call EXCEPT ![c] = None]
  /\ stale' = stale \ {c}
  /\ UNCHANGED <<row, issued, expired, sold, undone>>

\* What is not in the keychain dies with the app.
Restart(k) ==
  /\ Fault /\ kiosk[k].screen # "loading"
  /\ kiosk' = [kiosk EXCEPT ![k].screen = "loading", ![k].secret = None]
  /\ call' = [c \in Calls |-> IF call[c] # None /\ call[c].by = k
                THEN [call[c] EXCEPT !.by = None] ELSE call[c]]
  /\ UNCHANGED <<row, issued, expired, sold, stale, undone>>

Next ==
  \/ \E code \in Codes : Provision(code) \/ Expire(code)
  \/ \E c \in Calls, code \in Codes : RotateSecret(c, code)
  \/ \E c \in Calls, b \in BOOLEAN : Update(c, b)
  \/ \E c \in Calls, k \in Kiosks, code \in Codes, s \in Secrets : Claim(c, k, code, s)
  \/ \E c \in Calls, k \in Kiosks : Heartbeat(c, k)
  \/ \E k \in Kiosks : Boot(k) \/ StoreConfig(k) \/ Restart(k)
  \/ \E c \in Calls : Save(c) \/ Answer(c) \/ LoseAnswer(c) \/ Fail(c)

Spec == Init /\ [][Next]_vars

-----------------------------------------------------------------------------
(* What the registry promises                                              *)

Live(k) == kiosk[k].screen = "main" /\ Verified(k)
Saves(c) == Busy(c, "save") /\ call'[c] # None /\ call'[c].pc = "answer"

\* "one-time provision code": no code buys two secrets.
OneTimeCode ==
  \A s1, s2 \in Secrets : sold[s1] # None /\ sold[s1] = sold[s2] => s1 = s2

\* A code gives one secret away, as long as no call saved a copy of the row that
\* another call had made obsolete (claim clears the code it consumed).
CodeSellsOnce == undone \/ OneTimeCode

Registry == INSTANCE TabletRegistry

\* Up to the first obsolete copy that is saved, the handlers, though they interleave
\* between load and save, do to the row what they would do one at a time: each save
\* is one operation of the registry, or changes nothing (TabletsService loads the
\* row, alters it and saves it without a transaction).
RegistryWhileFresh == Registry!Init /\ [][undone' \/ Registry!Next]_(Registry!vars)

\* The step saves a claim, a deactivation or an obsolete copy of the row.
SavesClaim ==
  \E c \in Calls :
    /\ Saves(c)
    /\ \/ c \in stale
       \/ call[c].op = "claim"
       \/ call[c].op = "update" /\ ~call[c].copy.active

\* "The current secret keeps working until the kiosk claims the new code": a
\* running kiosk is cut off by the save of a claim or of a deactivation, or by
\* that of a stale copy, and by nothing else.
CutOffOnlyByClaim ==
  [][\A k \in Kiosks : Live(k) /\ ~Live(k)' =>
       kiosk'[k].screen = "loading" \/ SavesClaim]_vars
=============================================================================
