----------------------------- MODULE TabletsProofs -----------------------------
(***************************************************************************)
(* Theorems about Tablets, for any number of kiosks, calls, codes and      *)
(* secrets.  What makes them inductive is what a call that is not stale    *)
(* holds: a copy that differs from the row in its own columns only.        *)
(***************************************************************************)
EXTENDS Tablets, TLAPS

\* A copy as recent as the row: it brings its own columns, the rest is the row's.
Recent(c) ==
  /\ call[c].code = row.code
  /\ call[c].op # "claim" => call[c].copy.secret = row.secret
  /\ call[c].op # "update" => call[c].copy.active = row.active
  /\ call[c].op \in {"update", "heartbeat"} => call[c].copy.code = row.code
  /\ call[c].op = "claim" => call[c].copy.code = None /\ row.code # None

CopiesRecent == \A c \in Calls : Busy(c, "save") /\ c \notin stale => Recent(c)

\* A kiosk that a claim will answer is waiting for it, and for nothing else.
Claims(c, k) == call[c] # None /\ call[c].op = "claim" /\ call[c].by = k

ClaimantWaits ==
  \A k \in Kiosks : \A c \in Calls : Claims(c, k) =>
    /\ kiosk[k].screen = "busy"
    /\ \A d \in Calls : Claims(d, k) => d = c

\* There is nothing to load before there is a row.
RowFirst == row = None => \A c \in Calls : call[c] = None

\* Codes in the row and on their way to it have been issued.
CodesIssued ==
  /\ row # None /\ row.code # None => row.code \in issued
  /\ \A c \in Calls : call[c] # None =>
       /\ call[c].code # None => call[c].code \in issued
       /\ call[c].copy.code # None => call[c].copy.code \in issued
  /\ \A s \in Secrets : sold[s] # None => sold[s] \in issued

\* A sold code is neither in the row nor about to come back to it.
SoldIsGone ==
  \A s \in Secrets : sold[s] # None =>
    /\ row # None => row.code # sold[s]
    /\ \A c \in Calls : Busy(c, "save") /\ c \notin stale => call[c].copy.code # sold[s]

IInv ==
  /\ TypeOK /\ RowFirst /\ CopiesRecent /\ ClaimantWaits /\ CodesIssued
  /\ undone \/ (SoldIsGone /\ OneTimeCode)

LEMMA InitInv == Init => IInv
<1> SUFFICES ASSUME Init PROVE IInv
  OBVIOUS
<1> USE TabletsConstants DEF Init
<1>1. TypeOK
  <2>1. kiosk \in [Kiosks -> KioskConfig]
    BY DEF KioskConfig
  <2>2. faults \in 0..MaxFaults /\ sold \in [Secrets -> Codes \cup {None}]
    OBVIOUS
  <2>3. /\ row \in TabletRow \cup {None} /\ call \in [Calls -> Call \cup {None}]
        /\ issued \subseteq Codes /\ expired \subseteq issued
        /\ stale \subseteq Calls /\ undone \in BOOLEAN
    OBVIOUS
  <2> QED BY <2>1, <2>2, <2>3 DEF TypeOK
<1>2. RowFirst /\ CopiesRecent /\ ClaimantWaits /\ CodesIssued /\ SoldIsGone /\ OneTimeCode
  BY DEF RowFirst, CopiesRecent, Busy, ClaimantWaits, Claims, CodesIssued, SoldIsGone, OneTimeCode
<1> QED BY <1>1, <1>2 DEF IInv

-----------------------------------------------------------------------------
(* Types                                                                   *)

\* What a request begins with is a call.
LEMMA BeginTyped ==
  ASSUME TypeOK, NEW c \in Calls, NEW op, NEW k, NEW copy, Begin(c, op, k, copy),
         op \in {"rotate", "update", "claim", "heartbeat"},
         k \in Kiosks \cup {None}, copy \in TabletRow
  PROVE  call' \in [Calls -> Call \cup {None}]
<1>1. row.code \in Codes \cup {None}
  BY DEF TypeOK, TabletRow, Begin
<1>2. [op |-> op, by |-> k, copy |-> copy, code |-> row.code, pc |-> "save"] \in Call
  BY <1>1 DEF Call
<1> QED BY <1>2 DEF Begin, TypeOK

LEMMA TypeStep ==
  ASSUME TypeOK, [Next]_vars
  PROVE  TypeOK'
<1> USE DEF TypeOK
<1>1. ASSUME NEW code \in Codes, Provision(code) \/ Expire(code) PROVE TypeOK'
  <2>1. [secret |-> None, code |-> code, active |-> TRUE] \in TabletRow
    BY DEF TabletRow
  <2>2. CASE Provision(code)
    <3>1. row' \in TabletRow \cup {None} /\ issued' \subseteq Codes /\ expired' \subseteq issued'
      BY <2>1, <2>2 DEF Provision
    <3>2. UNCHANGED <<sold, call, stale, undone, kiosk, faults>>
      BY <2>2 DEF Provision
    <3> QED BY <3>1, <3>2
  <2>3. CASE Expire(code)
    BY <2>3 DEF Expire
  <2> QED BY <1>1, <2>2, <2>3
<1>2. ASSUME NEW c \in Calls, NEW code \in Codes, RotateSecret(c, code) PROVE TypeOK'
  <2>1. [row EXCEPT !.code = code] \in TabletRow
    BY <1>2 DEF RotateSecret, Begin, TabletRow
  <2>2. call' \in [Calls -> Call \cup {None}]
    BY <1>2, <2>1, BeginTyped DEF RotateSecret
  <2> QED BY <1>2, <2>2 DEF RotateSecret, Begin
<1>3. ASSUME NEW c \in Calls, NEW b \in BOOLEAN, Update(c, b) PROVE TypeOK'
  <2>1. [row EXCEPT !.active = b] \in TabletRow
    BY <1>3 DEF Update, Begin, TabletRow
  <2>2. call' \in [Calls -> Call \cup {None}]
    BY <1>3, <2>1, BeginTyped DEF Update
  <2> QED BY <1>3, <2>2 DEF Update, Begin
<1>4. ASSUME NEW c \in Calls, NEW k \in Kiosks, NEW code \in Codes, NEW s \in Secrets,
             Claim(c, k, code, s)
      PROVE  TypeOK'
  <2>1. [row EXCEPT !.secret = s, !.code = None] \in TabletRow
    BY <1>4 DEF Claim, TabletRow
  <2>2. call' \in [Calls -> Call \cup {None}]
    BY <1>4, <2>1, BeginTyped DEF Claim
  <2>3. [kiosk[k] EXCEPT !.screen = "busy"] \in KioskConfig
    BY DEF KioskConfig
  <2> QED BY <1>4, <2>2, <2>3 DEF Claim, Begin
<1>5. ASSUME NEW c \in Calls, NEW k \in Kiosks, Heartbeat(c, k) PROVE TypeOK'
  <2>1. row \in TabletRow
    BY <1>5 DEF Heartbeat, Begin
  <2>2. call' \in [Calls -> Call \cup {None}]
    BY <1>5, <2>1, BeginTyped DEF Heartbeat
  <2> QED BY <1>5, <2>2 DEF Heartbeat, Begin
<1>6. ASSUME NEW k \in Kiosks, Boot(k) \/ StoreConfig(k) PROVE TypeOK'
  <2>1. kiosk[k].secret \in Secrets \cup {None} /\ kiosk[k].stored \in Secrets \cup {None}
    BY DEF KioskConfig
  <2>2. kiosk' \in [Kiosks -> KioskConfig]
    BY <1>6, <2>1 DEF Boot, StoreConfig, KioskConfig
  <2> QED BY <1>6, <2>2 DEF Boot, StoreConfig
<1>7. ASSUME NEW k \in Kiosks, Restart(k) PROVE TypeOK'
  <2>1. [kiosk[k] EXCEPT !.screen = "loading", !.secret = None] \in KioskConfig
    BY DEF KioskConfig
  <2>2. kiosk' \in [Kiosks -> KioskConfig]
    BY <1>7, <2>1 DEF Restart, KioskConfig
  <2>3. \A c \in Calls : call[c] # None => [call[c] EXCEPT !.by = None] \in Call
    BY DEF Call
  <2>4. call' \in [Calls -> Call \cup {None}]
    BY <1>7, <2>3 DEF Restart
  <2>5. faults' \in 0..MaxFaults
    BY <1>7, TabletsConstants DEF Restart, Fault
  <2> QED BY <1>7, <2>2, <2>4, <2>5 DEF Restart
<1>8. ASSUME NEW c \in Calls, Save(c) PROVE TypeOK'
  <2>1. call[c] \in Call
    BY <1>8 DEF Save, Busy
  <2>2. /\ [call[c] EXCEPT !.pc = "answer"] \in Call /\ call[c].copy \in TabletRow
        /\ call[c].code \in Codes \cup {None}
    BY <2>1 DEF Call
  <2>3. call' \in [Calls -> Call \cup {None}]
    BY <1>8, <2>2 DEF Save
  <2>4. sold' \in [Secrets -> Codes \cup {None}]
    BY <1>8, <2>2 DEF Save
  <2>5. stale' \subseteq Calls /\ undone' \in BOOLEAN
    BY <1>8 DEF Save
  <2> QED BY <1>8, <2>2, <2>3, <2>4, <2>5 DEF Save
<1>9. ASSUME NEW c \in Calls, Answer(c) PROVE TypeOK'
  <2>1. call[c] \in Call
    BY <1>9 DEF Answer, Busy
  <2>2. call[c].copy.secret \in Secrets \cup {None}
    BY <2>1 DEF Call, TabletRow
  <2>3. \A k \in Kiosks :
          [kiosk[k] EXCEPT !.screen = "store", !.secret = call[c].copy.secret] \in KioskConfig
    BY <2>2 DEF KioskConfig
  <2> QED BY <1>9, <2>3 DEF Answer
<1>10. ASSUME NEW c \in Calls, LoseAnswer(c) \/ Fail(c) PROVE TypeOK'
  <2>1. call[c] # None /\ call[c] \in Call
    BY <1>10 DEF LoseAnswer, Fail
  <2>2. \A k \in Kiosks : [kiosk[k] EXCEPT !.screen = "provision"] \in KioskConfig
    BY DEF KioskConfig
  <2>3. kiosk' \in [Kiosks -> KioskConfig]
    BY <1>10, <2>2 DEF LoseAnswer, Fail, GiveUp
  <2>4. [call[c] EXCEPT !.by = None] \in Call
    BY <2>1 DEF Call
  <2>5. call' \in [Calls -> Call \cup {None}]
    BY <1>10, <2>4 DEF LoseAnswer, Fail
  <2>6. faults' \in 0..MaxFaults
    BY <1>10, TabletsConstants DEF LoseAnswer, Fail, Fault
  <2> QED BY <1>10, <2>3, <2>5, <2>6 DEF LoseAnswer, Fail
<1>11. CASE UNCHANGED vars
  BY <1>11 DEF vars
<1> QED BY <1>1, <1>2, <1>3, <1>4, <1>5, <1>6, <1>7, <1>8, <1>9, <1>10, <1>11 DEF Next

-----------------------------------------------------------------------------
(* What requests hold                                                      *)

Beginning(c) ==
  \/ \E code \in Codes : RotateSecret(c, code)
  \/ \E b \in BOOLEAN : Update(c, b)
  \/ \E k \in Kiosks, code \in Codes, s \in Secrets : Claim(c, k, code, s)
  \/ \E k \in Kiosks : Heartbeat(c, k)

\* A request begins with a recent copy, whose code may be a new one.
LEMMA BeginRecent ==
  ASSUME IInv, NEW c \in Calls, Beginning(c)
  PROVE  /\ row # None /\ call[c] = None /\ Recent(c)'
         /\ row' = row /\ stale' = stale /\ sold' = sold /\ undone' = undone
         /\ \A d \in Calls \ {c} : call'[d] = call[d]
         /\ issued \subseteq issued'
         /\ call'[c].code = row.code /\ call'[c].by \in Kiosks \cup {None}
         /\ \/ call'[c].copy.code \in {row.code, None}
            \/ call'[c].copy.code \in issued' \ issued
<1> DEFINE Same == /\ row # None /\ call[c] = None /\ row' = row /\ stale' = stale
                   /\ sold' = sold /\ undone' = undone
                   /\ \A d \in Calls \ {c} : call'[d] = call[d]
           Goal == /\ Same /\ Recent(c)' /\ issued \subseteq issued'
                   /\ call'[c].code = row.code /\ call'[c].by \in Kiosks \cup {None}
                   /\ \/ call'[c].copy.code \in {row.code, None}
                      \/ call'[c].copy.code \in issued' \ issued
<1>1. ASSUME NEW op, NEW k, NEW copy, Begin(c, op, k, copy)
      PROVE  /\ Same /\ row \in TabletRow
             /\ call'[c] = [op |-> op, by |-> k, copy |-> copy, code |-> row.code, pc |-> "save"]
  BY <1>1 DEF Begin, IInv, TypeOK
<1> HIDE DEF Same
<1>2. ASSUME NEW code \in Codes, RotateSecret(c, code) PROVE Goal
  <2>1. Begin(c, "rotate", None, [row EXCEPT !.code = code])
    BY <1>2 DEF RotateSecret
  <2>2. code \in issued' \ issued /\ issued \subseteq issued'
    BY <1>2 DEF RotateSecret
  <2>3. Same /\ row \in TabletRow /\ row' = row
    BY <1>1, <2>1 DEF Same
  <2>4. call'[c] = [op |-> "rotate", by |-> None, copy |-> [row EXCEPT !.code = code],
                    code |-> row.code, pc |-> "save"]
    BY <1>1, <2>1
  <2> QED BY <2>2, <2>3, <2>4 DEF Recent, TabletRow
<1>3. ASSUME NEW b \in BOOLEAN, Update(c, b) PROVE Goal
  <2>1. Begin(c, "update", None, [row EXCEPT !.active = b]) /\ issued' = issued
    BY <1>3 DEF Update
  <2>2. Same /\ row \in TabletRow /\ row' = row
    BY <1>1, <2>1 DEF Same
  <2>3. call'[c] = [op |-> "update", by |-> None, copy |-> [row EXCEPT !.active = b],
                    code |-> row.code, pc |-> "save"]
    BY <1>1, <2>1
  <2> QED BY <2>1, <2>2, <2>3 DEF Recent, TabletRow
<1>4. ASSUME NEW k \in Kiosks, NEW code \in Codes, NEW s \in Secrets, Claim(c, k, code, s)
      PROVE  Goal
  <2>1. /\ Begin(c, "claim", k, [row EXCEPT !.secret = s, !.code = None])
        /\ issued' = issued /\ row.code = code
    BY <1>4 DEF Claim
  <2>2. Same /\ row \in TabletRow /\ row' = row
    BY <1>1, <2>1 DEF Same
  <2>3. call'[c] = [op |-> "claim", by |-> k, copy |-> [row EXCEPT !.secret = s, !.code = None],
                    code |-> row.code, pc |-> "save"]
    BY <1>1, <2>1
  <2>4. row.code # None
    BY <2>1, TabletsConstants
  <2>5. /\ call'[c].op = "claim" /\ call'[c].by = k /\ call'[c].code = row.code
        /\ call'[c].copy = [row EXCEPT !.secret = s, !.code = None]
    BY <2>3
  <2>6. call'[c].copy.code = None /\ call'[c].copy.active = row.active
    BY <2>2, <2>5 DEF TabletRow
  <2>7. Recent(c)'
    BY <2>2, <2>4, <2>5, <2>6 DEF Recent
  <2> QED BY <2>1, <2>2, <2>5, <2>6, <2>7
<1>5. ASSUME NEW k \in Kiosks, Heartbeat(c, k) PROVE Goal
  <2>1. Begin(c, "heartbeat", k, row) /\ issued' = issued
    BY <1>5 DEF Heartbeat
  <2>2. Same /\ row \in TabletRow /\ row' = row
    BY <1>1, <2>1 DEF Same
  <2>3. call'[c] = [op |-> "heartbeat", by |-> k, copy |-> row, code |-> row.code, pc |-> "save"]
    BY <1>1, <2>1
  <2> QED BY <2>1, <2>2, <2>3 DEF Recent, TabletRow
<1>6. Goal
  BY <1>2, <1>3, <1>4, <1>5 DEF Beginning
<1> QED BY <1>6 DEF Same

\* What every other step but a save does to the requests: it ends some, or forgets
\* who waits for them.
LEMMA CallsElse ==
  ASSUME IInv, [Next]_vars, \A c \in Calls : ~Beginning(c) /\ ~Save(c)
  PROVE  /\ sold' = sold /\ undone' = undone /\ issued \subseteq issued'
         /\ \A c \in Calls :
              /\ Busy(c, "save")' => Busy(c, "save") /\ (c \in stale => c \in stale')
              /\ call'[c] # None =>
                   /\ call[c] # None /\ call'[c].op = call[c].op /\ call'[c].code = call[c].code
                   /\ call'[c].copy = call[c].copy /\ call'[c].by \in {call[c].by, None}
         /\ \/ row' = row
            \/ /\ row = None /\ row' \in TabletRow
               /\ row'.code \in issued' \ issued
<1> USE DEF IInv, TypeOK
<1>1. ASSUME NEW code \in Codes, Provision(code)
      PROVE  /\ row = None /\ row' \in TabletRow /\ row'.code \in issued' \ issued
             /\ issued \subseteq issued' /\ UNCHANGED <<sold, call, stale, undone>>
  BY <1>1 DEF Provision, TabletRow
<1>2. ASSUME NEW c \in Calls, Answer(c) \/ Fail(c)
      PROVE  /\ call' = [call EXCEPT ![c] = None] /\ stale \ {c} \subseteq stale'
             /\ UNCHANGED <<row, sold, undone, issued>>
  BY <1>2 DEF Answer, Fail
<1>3. ASSUME NEW c \in Calls, call[c] # None
      PROVE  LET b == [call[c] EXCEPT !.by = None]
             IN b.op = call[c].op /\ b.code = call[c].code /\ b.copy = call[c].copy
                /\ b.by = None /\ b.pc = call[c].pc
  BY <1>3 DEF Call
<1>4. CASE \E c \in Calls : LoseAnswer(c)
  BY <1>3, <1>4 DEF LoseAnswer, Busy
<1>5. CASE \E k \in Kiosks : Restart(k)
  BY <1>3, <1>5 DEF Restart, Busy
<1>6. CASE \E c \in Calls : Answer(c) \/ Fail(c)
  BY <1>2, <1>6 DEF Busy
<1>7. CASE \E code \in Codes : Provision(code)
  BY <1>1, <1>7 DEF Busy
<1>8. CASE UNCHANGED <<row, issued, sold, call, stale, undone>>
  BY <1>8 DEF Busy
<1> QED BY <1>4, <1>5, <1>6, <1>7, <1>8
        DEF Next, Beginning, Expire, Boot, StoreConfig, vars

LEMMA RowFirstStep ==
  ASSUME IInv, [Next]_vars
  PROVE  RowFirst'
<1>1. CASE \E c \in Calls : Beginning(c)
  BY <1>1, BeginRecent DEF RowFirst
<1>2. ASSUME NEW c \in Calls, Save(c) PROVE row' # None
  BY <1>2, TabletsConstants DEF Save, Busy, IInv, TypeOK, Call
<1>3. CASE \A c \in Calls : ~Beginning(c) /\ ~Save(c)
  BY <1>3, CallsElse, TabletsConstants DEF RowFirst, IInv
<1> QED BY <1>1, <1>2, <1>3 DEF RowFirst

LEMMA RecentStep ==
  ASSUME IInv, [Next]_vars
  PROVE  CopiesRecent'
<1> SUFFICES ASSUME NEW c \in Calls, Busy(c, "save")', c \notin stale'
             PROVE  Recent(c)'
  BY DEF CopiesRecent
<1> USE DEF IInv
<1>1. ASSUME NEW d \in Calls, Beginning(d) PROVE Recent(c)'
  <2>1. CASE d = c
    BY <1>1, <2>1, BeginRecent
  <2>2. CASE d # c
    BY <1>1, <2>2, BeginRecent DEF CopiesRecent, Recent, Busy
  <2> QED BY <2>1, <2>2
<1>2. ASSUME NEW d \in Calls, Save(d) PROVE Recent(c)'
  <2>1. d # c
    BY <1>2 DEF Save, Busy, TypeOK, Call
  <2>2. call'[c] = call[c]
    BY <1>2, <2>1 DEF Save, TypeOK
  <2>3. row' = row /\ c \notin stale
    BY <1>2, <2>1, <2>2 DEF Save, Busy
  <2> QED BY <2>2, <2>3 DEF CopiesRecent, Recent, Busy
<1>3. CASE \A d \in Calls : ~Beginning(d) /\ ~Save(d)
  <2>1. /\ Busy(c, "save") /\ c \notin stale
        /\ call'[c].op = call[c].op /\ call'[c].code = call[c].code
        /\ call'[c].copy = call[c].copy
    BY <1>3, CallsElse DEF Busy
  <2>2. row' = row
    BY <1>3, <2>1, CallsElse DEF RowFirst, Busy
  <2> QED BY <2>1, <2>2 DEF CopiesRecent, Recent
<1> QED BY <1>1, <1>2, <1>3

\* What a save does to the history and the other requests.
LEMMA SaveKeeps ==
  ASSUME IInv, NEW c \in Calls, Save(c)
  PROVE  /\ call[c] \in Call /\ row' = call[c].copy /\ issued' = issued
         /\ ~Busy(c, "save")'
         /\ \A d \in Calls \ {c} : call'[d] = call[d]
         /\ /\ call'[c].op = call[c].op /\ call'[c].by = call[c].by
            /\ call'[c].code = call[c].code /\ call'[c].copy = call[c].copy
         /\ \A s \in Secrets : sold'[s] = sold[s]
                             \/ (call[c].op = "claim" /\ sold'[s] = call[c].code)
<1>1. call[c] \in Call /\ call[c] # None /\ call' = [call EXCEPT ![c].pc = "answer"]
  BY DEF IInv, TypeOK, Save, Busy
<1>2. call'[c] = [call[c] EXCEPT !.pc = "answer"]
  BY <1>1 DEF IInv, TypeOK
<1>3. ~Busy(c, "save")' /\ \A d \in Calls \ {c} : call'[d] = call[d]
  BY <1>1, <1>2 DEF Busy, Call, IInv, TypeOK
<1>4. /\ call'[c].op = call[c].op /\ call'[c].by = call[c].by
      /\ call'[c].code = call[c].code /\ call'[c].copy = call[c].copy
  BY <1>1, <1>2 DEF Call
<1>5. \A s \in Secrets : sold'[s] = sold[s]
                          \/ (call[c].op = "claim" /\ sold'[s] = call[c].code)
  <2>1. sold \in [Secrets -> Codes \cup {None}]
    BY DEF IInv, TypeOK
  <2>2. CASE call[c].op = "claim"
    <3>1. sold' = [sold EXCEPT ![call[c].copy.secret] = call[c].code]
      BY <2>2 DEF Save
    <3> QED BY <2>1, <2>2, <3>1
  <2>3. CASE call[c].op # "claim"
    <3>1. sold' = sold
      BY <2>3 DEF Save
    <3> QED BY <3>1
  <2> QED BY <2>2, <2>3
<1> QED BY <1>1, <1>3, <1>4, <1>5 DEF Save

LEMMA IssuedStep ==
  ASSUME IInv, [Next]_vars
  PROVE  CodesIssued'
<1> USE DEF IInv
<1>1. ASSUME NEW c \in Calls, Beginning(c) PROVE CodesIssued'
  <2>1. /\ row # None /\ row' = row /\ sold' = sold /\ issued \subseteq issued'
        /\ \A d \in Calls \ {c} : call'[d] = call[d]
        /\ call'[c].code = row.code
        /\ call'[c].copy.code \in {row.code, None} \/ call'[c].copy.code \in issued'
    BY <1>1, BeginRecent
  <2> QED BY <2>1 DEF CodesIssued
<1>2. ASSUME NEW c \in Calls, Save(c) PROVE CodesIssued'
  <2>1. call[c] # None
    BY <1>2 DEF Save, Busy
  <2> QED BY <1>2, <2>1, SaveKeeps DEF CodesIssued
<1>3. CASE \A c \in Calls : ~Beginning(c) /\ ~Save(c)
  <2>1. /\ sold' = sold /\ issued \subseteq issued'
        /\ \A c \in Calls : call'[c] # None =>
              /\ call[c] # None /\ call'[c].code = call[c].code
              /\ call'[c].copy = call[c].copy
        /\ row' = row \/ row'.code \in issued'
    BY <1>3, CallsElse
  <2> QED BY <2>1 DEF CodesIssued
<1> QED BY <1>1, <1>2, <1>3

\* A save that is not stale may sell the row's code, which it then takes away.
LEMMA SoldStep ==
  ASSUME IInv, [Next]_vars, ~undone'
  PROVE  SoldIsGone' /\ OneTimeCode'
<1> USE DEF IInv
<1>1. ASSUME NEW c \in Calls, Beginning(c) PROVE SoldIsGone' /\ OneTimeCode'
  <2>1. /\ row # None /\ row' = row /\ stale' = stale /\ sold' = sold /\ undone' = undone
        /\ \A d \in Calls \ {c} : call'[d] = call[d]
        /\ \/ call'[c].copy.code \in {row.code, None}
           \/ call'[c].copy.code \notin issued
    BY <1>1, BeginRecent
  <2>2. SoldIsGone /\ OneTimeCode /\ CodesIssued
    BY <2>1
  <2>3. \A s \in Secrets : sold[s] # None => call'[c].copy.code # sold[s]
    BY <2>1, <2>2 DEF SoldIsGone, CodesIssued
  <2>4. SoldIsGone'
    BY <2>1, <2>2, <2>3 DEF SoldIsGone, Busy
  <2> QED BY <2>1, <2>2, <2>4 DEF OneTimeCode
<1>2. ASSUME NEW c \in Calls, Save(c) PROVE SoldIsGone' /\ OneTimeCode'
  <2>1. ~undone /\ c \notin stale /\ Busy(c, "save")
    BY <1>2 DEF Save
  <2>2. SoldIsGone /\ OneTimeCode /\ Recent(c)
    BY <2>1 DEF CopiesRecent
  <2>3. /\ row' = call[c].copy /\ ~Busy(c, "save")'
        /\ \A d \in Calls \ {c} : call'[d] = call[d]
    BY <1>2, SaveKeeps
  <2>4. \A d \in Calls : Busy(d, "save")' /\ d \notin stale' =>
          d # c /\ Busy(d, "save") /\ d \notin stale /\ row' = row
    BY <1>2, <2>3 DEF Save, Busy
  <2>5. CASE call[c].op = "claim"
    <3>1. row # None /\ row.code # None /\ row'.code = None /\ row' # row
      BY <2>1, <2>2, <2>3, <2>5 DEF Recent, RowFirst, Busy
    <3>2. \A s \in Secrets : sold'[s] = sold[s] \/ sold'[s] = row.code
      BY <1>2, <2>2, <2>5, SaveKeeps DEF Recent
    <3>3. \A s \in Secrets : sold[s] # None => sold[s] # row.code
      BY <2>2, <3>1 DEF SoldIsGone
    <3>4. \A s \in Secrets : sold'[s] # sold[s] => s = call[c].copy.secret
      BY <1>2 DEF Save, TypeOK
    <3>5. OneTimeCode'
      BY <2>2, <3>2, <3>3, <3>4 DEF OneTimeCode
    <3>6. SoldIsGone'
      BY <2>4, <3>1 DEF SoldIsGone
    <3> QED BY <3>5, <3>6
  <2>6. CASE call[c].op # "claim"
    <3>1. sold' = sold
      BY <1>2, <2>6 DEF Save
    <3>2. SoldIsGone'
      BY <2>1, <2>2, <2>3, <2>4, <3>1 DEF SoldIsGone, Busy
    <3> QED BY <2>2, <3>1, <3>2 DEF OneTimeCode
  <2> QED BY <2>5, <2>6
<1>3. CASE \A c \in Calls : ~Beginning(c) /\ ~Save(c)
  <2>1. /\ sold' = sold /\ undone' = undone
        /\ \A c \in Calls : Busy(c, "save")' /\ c \notin stale' =>
             Busy(c, "save") /\ c \notin stale /\ call'[c].copy = call[c].copy
        /\ row' = row \/ row'.code \notin issued
    BY <1>3, CallsElse DEF Busy
  <2>2. SoldIsGone /\ OneTimeCode /\ CodesIssued
    BY <2>1
  <2>3. SoldIsGone'
    BY <2>1, <2>2 DEF SoldIsGone, CodesIssued
  <2> QED BY <2>1, <2>2, <2>3 DEF OneTimeCode
<1> QED BY <1>1, <1>2, <1>3

LEMMA WaitsStep ==
  ASSUME IInv, [Next]_vars
  PROVE  ClaimantWaits'
<1> USE DEF IInv, ClaimantWaits
<1>1. ASSUME NEW c \in Calls, NEW k \in Kiosks, NEW code \in Codes, NEW s \in Secrets,
             Claim(c, k, code, s)
      PROVE  ClaimantWaits'
  <2>1. \A d \in Calls : ~Claims(d, k)
    BY <1>1 DEF Claim
  <2>2. \A d \in Calls \ {c} : call'[d] = call[d]
    BY <1>1 DEF Claim, Begin, TypeOK
  <2>3. call'[c].by = k
    BY <1>1 DEF Claim, Begin, TypeOK
  <2>4. kiosk'[k].screen = "busy" /\ \A j \in Kiosks \ {k} : kiosk'[j] = kiosk[j]
    BY <1>1 DEF Claim, TypeOK, KioskConfig
  <2> QED BY <2>1, <2>2, <2>3, <2>4 DEF Claims
<1>2. ASSUME kiosk' = kiosk,
             \A c \in Calls, k \in Kiosks : Claims(c, k)' => Claims(c, k)
      PROVE  ClaimantWaits'
  BY <1>2
<1>3. ASSUME NEW c \in Calls,
             \/ \E code \in Codes : RotateSecret(c, code)
             \/ \E b \in BOOLEAN : Update(c, b)
             \/ \E k \in Kiosks : Heartbeat(c, k)
      PROVE  ClaimantWaits'
  <2>1. call'[c].op # "claim" /\ kiosk' = kiosk
    BY <1>3 DEF RotateSecret, Update, Heartbeat, Begin, TypeOK
  <2>2. \A d \in Calls \ {c} : call'[d] = call[d]
    BY <1>3 DEF RotateSecret, Update, Heartbeat, Begin, TypeOK
  <2> QED BY <1>2, <2>1, <2>2 DEF Claims
<1>4. ASSUME NEW c \in Calls, Save(c) PROVE ClaimantWaits'
  <2>1. kiosk' = kiosk /\ call[c] # None
    BY <1>4 DEF Save, Busy
  <2> QED BY <1>2, <1>4, <2>1, SaveKeeps DEF Claims
<1>5. ASSUME NEW c \in Calls, Answer(c) \/ LoseAnswer(c) \/ Fail(c) PROVE ClaimantWaits'
  <2>1. \A d \in Calls \ {c} : call'[d] = call[d]
    BY <1>5 DEF Answer, LoseAnswer, Fail, TypeOK
  <2>2. \A k \in Kiosks : ~Claims(c, k)'
    <3>1. CASE Answer(c) \/ Fail(c)
      BY <3>1 DEF Answer, Fail, TypeOK, Claims
    <3>2. CASE LoseAnswer(c)
      <4>1. call[c] \in Call /\ call'[c] = [call[c] EXCEPT !.by = None]
        BY <3>2 DEF LoseAnswer, TypeOK
      <4>2. call'[c].by = None
        BY <4>1 DEF Call
      <4> QED BY <4>2, TabletsConstants DEF Claims
    <3> QED BY <1>5, <3>1, <3>2
  <2>3. \A k \in Kiosks : kiosk'[k] = kiosk[k] \/ Claims(c, k)
    BY <1>5 DEF Answer, LoseAnswer, Fail, GiveUp, TypeOK, Claims, Busy
  <2> QED BY <2>1, <2>2, <2>3 DEF Claims
<1>6. ASSUME NEW k \in Kiosks, Boot(k) \/ StoreConfig(k) PROVE ClaimantWaits'
  <2>1. call' = call /\ \A c \in Calls : ~Claims(c, k)
    BY <1>6 DEF Boot, StoreConfig
  <2>2. \A j \in Kiosks \ {k} : kiosk'[j] = kiosk[j]
    BY <1>6 DEF Boot, StoreConfig, TypeOK
  <2> QED BY <2>1, <2>2 DEF Claims
<1>7. ASSUME NEW k \in Kiosks, Restart(k) PROVE ClaimantWaits'
  <2>1. \A c \in Calls, j \in Kiosks : Claims(c, j)' => Claims(c, j) /\ j # k
    BY <1>7, TabletsConstants DEF Restart, Claims, TypeOK, Call
  <2>2. \A j \in Kiosks \ {k} : kiosk'[j] = kiosk[j]
    BY <1>7 DEF Restart, TypeOK
  <2> QED BY <2>1, <2>2
<1>8. CASE UNCHANGED <<call, kiosk>>
  BY <1>8 DEF Claims
<1> QED BY <1>1, <1>3, <1>4, <1>5, <1>6, <1>7, <1>8 DEF Next, Provision, Expire, vars

-----------------------------------------------------------------------------
(* The theorems                                                            *)

\* Types, recent copies and waiting kiosks hold in every reachable state.
THEOREM Invariance == Spec => []IInv
<1>1. Init => IInv
  BY InitInv
<1>2. IInv /\ [Next]_vars => IInv'
  <2> SUFFICES ASSUME IInv, [Next]_vars PROVE IInv'
    OBVIOUS
  <2>1. TypeOK'
    BY TypeStep DEF IInv
  <2>2. undone' \/ (SoldIsGone' /\ OneTimeCode')
    BY SoldStep
  <2> QED BY <2>1, <2>2, RowFirstStep, RecentStep, WaitsStep, IssuedStep DEF IInv
<1> QED BY <1>1, <1>2, PTL DEF Spec

\* However many kiosks submit a code, and whatever is lost or dies in between, it
\* gives one secret away, unless a call saved an obsolete copy of the row (claim).
THEOREM CodesAreOneTime == Spec => []CodeSellsOnce
<1>1. IInv => CodeSellsOnce
  BY DEF IInv, CodeSellsOnce
<1> QED BY <1>1, Invariance, PTL

\* A step that takes a running kiosk's secret away saves a claim, a deactivation
\* or an obsolete copy, or is the kiosk's own restart.
LEMMA CutOffStep ==
  ASSUME IInv, [Next]_vars, NEW k \in Kiosks, Live(k), ~Live(k)'
  PROVE  kiosk'[k].screen = "loading" \/ SavesClaim
<1> USE DEF IInv
<1>1. /\ kiosk[k].screen = "main" /\ row # None /\ row.active /\ row.secret # None
      /\ kiosk[k].secret = row.secret
  BY DEF Live, Verified
<1>2. ~(row' = row /\ kiosk'[k] = kiosk[k])
  BY DEF Live, Verified
<1>3. \A c \in Calls : ~Claims(c, k)
  BY <1>1 DEF ClaimantWaits
<1>4. ASSUME NEW c \in Calls, Beginning(c) PROVE FALSE
  <2>1. row' = row
    BY <1>4, BeginRecent
  <2>2. kiosk'[k] = kiosk[k]
    BY <1>1, <1>4 DEF Beginning, RotateSecret, Update, Claim, Heartbeat, TypeOK
  <2> QED BY <1>2, <2>1, <2>2
<1>5. ASSUME NEW c \in Calls, Save(c), c \notin stale, call[c].op # "claim",
             call[c].op = "update" => call[c].copy.active
      PROVE  FALSE
  <2>1. Recent(c) /\ row' = call[c].copy /\ kiosk' = kiosk
    BY <1>5 DEF CopiesRecent, Save
  <2>2. row'.secret = row.secret /\ row'.active
    BY <1>1, <1>5, <2>1 DEF Recent
  <2>3. row' # None
    BY <1>5, <2>1, SaveKeeps, TabletsConstants DEF Call
  <2> QED BY <1>1, <2>1, <2>2, <2>3 DEF Live, Verified
<1>6. ASSUME NEW c \in Calls, Save(c) PROVE Saves(c)
  <2>1. call[c] \in Call /\ call[c] # None /\ call' = [call EXCEPT ![c].pc = "answer"]
    BY <1>6 DEF TypeOK, Save, Busy
  <2>2. call'[c] = [call[c] EXCEPT !.pc = "answer"] /\ call'[c] \in Call
    BY <2>1 DEF TypeOK, Call
  <2>3. Busy(c, "save") /\ call'[c].pc = "answer"
    BY <1>6, <2>1, <2>2 DEF Save, Call
  <2> QED BY <2>2, <2>3, TabletsConstants DEF Saves
<1>7. ASSUME NEW c \in Calls, Answer(c) \/ LoseAnswer(c) \/ Fail(c) PROVE FALSE
  <2>1. row' = row
    BY <1>7 DEF Answer, LoseAnswer, Fail
  <2>2. kiosk'[k] = kiosk[k] \/ Claims(c, k)
    BY <1>7 DEF Answer, LoseAnswer, Fail, GiveUp, Claims, Busy
  <2> QED BY <1>2, <1>3, <2>1, <2>2
<1>8. ASSUME NEW j \in Kiosks, Boot(j) \/ StoreConfig(j) PROVE FALSE
  BY <1>1, <1>2, <1>8 DEF Boot, StoreConfig, TypeOK
<1>9. ASSUME NEW j \in Kiosks, Restart(j) PROVE kiosk'[k].screen = "loading"
  BY <1>2, <1>9 DEF Restart, TypeOK, KioskConfig
<1>10. ASSUME NEW code \in Codes, Provision(code) \/ Expire(code) PROVE FALSE
  BY <1>1, <1>2, <1>10 DEF Provision, Expire
<1>11. CASE UNCHANGED vars
  BY <1>2, <1>11 DEF vars
<1> QED BY <1>4, <1>5, <1>6, <1>7, <1>8, <1>9, <1>10, <1>11
        DEF Next, Beginning, SavesClaim

\* "The current secret keeps working until the kiosk claims the new code": but
\* for obsolete copies (rotateSecret, heartbeat, update, claim).
THEOREM SecretsKeepWorking == Spec => CutOffOnlyByClaim
<1> DEFINE CutOff == \A k \in Kiosks : Live(k) /\ ~Live(k)' =>
                       kiosk'[k].screen = "loading" \/ SavesClaim
<1>1. ASSUME IInv, [Next]_vars PROVE CutOff
  BY <1>1, CutOffStep
<1>2. IInv /\ [Next]_vars => [CutOff]_vars
  BY <1>1
<1> QED BY <1>2, Invariance, PTL DEF Spec, CutOffOnlyByClaim

-----------------------------------------------------------------------------
(* The registry of single operations                                       *)

\* A secret on its way into the row is nobody's yet; any other has been sold.
OnItsWay(c) == call[c].op = "claim" /\ call[c].pc = "save"

HoldsFresh(c) ==
  /\ call[c].copy.secret \in Secrets /\ call[c].code # None
  /\ sold[call[c].copy.secret] = None
  /\ row # None => row.secret # call[c].copy.secret
  /\ \A b \in Calls \ {c} : call[b] # None => call[b].copy.secret # call[c].copy.secret

SecretsOnce ==
  /\ row # None /\ row.secret # None => sold[row.secret] # None
  /\ \A c \in Calls : call[c] # None =>
       /\ OnItsWay(c) => HoldsFresh(c)
       /\ ~OnItsWay(c) /\ call[c].copy.secret # None => sold[call[c].copy.secret] # None
       /\ call[c].op = "rotate" => call[c].copy.code \in Codes

LEMMA SecretsBegin ==
  ASSUME IInv, SecretsOnce, NEW c \in Calls, Beginning(c)
  PROVE  SecretsOnce'
<1> USE DEF IInv
<1>1. /\ row # None /\ call[c] = None /\ row' = row /\ sold' = sold
      /\ \A d \in Calls \ {c} : call'[d] = call[d]
  BY BeginRecent
<1>2. row \in TabletRow /\ call \in [Calls -> Call \cup {None}]
      /\ sold \in [Secrets -> Codes \cup {None}]
  BY <1>1 DEF TypeOK
<1>3. ASSUME NEW op, NEW k, NEW copy, Begin(c, op, k, copy)
      PROVE  call'[c] = [op |-> op, by |-> k, copy |-> copy, code |-> row.code, pc |-> "save"]
  BY <1>2, <1>3 DEF Begin
<1>4. CASE call'[c].op # "claim" /\ call'[c].copy.secret = row.secret
           /\ (call'[c].op = "rotate" => call'[c].copy.code \in Codes)
  BY <1>1, <1>4 DEF SecretsOnce, OnItsWay, HoldsFresh
<1>5. CASE \E code \in Codes : RotateSecret(c, code)
  <2>1. PICK code \in Codes : Begin(c, "rotate", None, [row EXCEPT !.code = code])
    BY <1>5 DEF RotateSecret
  <2>0. call'[c] = [op |-> "rotate", by |-> None, copy |-> [row EXCEPT !.code = code],
                    code |-> row.code, pc |-> "save"]
    BY <1>3, <2>1
  <2>2. call'[c].op = "rotate" /\ call'[c].copy = [row EXCEPT !.code = code]
    BY <2>0
  <2>3. call'[c].copy.secret = row.secret /\ call'[c].copy.code \in Codes
    BY <1>2, <2>2 DEF TabletRow
  <2> QED BY <1>4, <2>2, <2>3
<1>6. CASE \E b \in BOOLEAN : Update(c, b)
  <2>1. PICK b \in BOOLEAN : Begin(c, "update", None, [row EXCEPT !.active = b])
    BY <1>6 DEF Update
  <2>0. call'[c] = [op |-> "update", by |-> None, copy |-> [row EXCEPT !.active = b],
                    code |-> row.code, pc |-> "save"]
    BY <1>3, <2>1
  <2>2. call'[c].op = "update" /\ call'[c].copy = [row EXCEPT !.active = b]
    BY <2>0
  <2>3. call'[c].copy.secret = row.secret
    BY <1>2, <2>2 DEF TabletRow
  <2> QED BY <1>4, <2>2, <2>3
<1>7. CASE \E k \in Kiosks : Heartbeat(c, k)
  <2>1. PICK k \in Kiosks : Begin(c, "heartbeat", k, row)
    BY <1>7 DEF Heartbeat
  <2>0. call'[c] = [op |-> "heartbeat", by |-> k, copy |-> row,
                    code |-> row.code, pc |-> "save"]
    BY <1>3, <2>1
  <2>2. call'[c].op = "heartbeat" /\ call'[c].copy = row
    BY <2>0
  <2> QED BY <1>4, <2>2
<1>8. ASSUME NEW k \in Kiosks, NEW code \in Codes, NEW s \in Secrets, Claim(c, k, code, s)
      PROVE  SecretsOnce'
  <2>1. /\ Begin(c, "claim", k, [row EXCEPT !.secret = s, !.code = None])
        /\ row.code = code /\ Fresh(s)
    BY <1>8 DEF Claim
  <2>0. call'[c] = [op |-> "claim", by |-> k, copy |-> [row EXCEPT !.secret = s, !.code = None],
                    code |-> row.code, pc |-> "save"]
    BY <1>3, <2>1
  <2>2. /\ call'[c].op = "claim" /\ call'[c].pc = "save" /\ call'[c].code = code
        /\ call'[c].copy = [row EXCEPT !.secret = s, !.code = None]
    BY <2>0, <2>1
  <2>3. call'[c].copy.secret = s
    BY <1>2, <2>2 DEF TabletRow
  <2>4. s # None /\ code # None
    BY TabletsConstants
  <2>5. sold[s] = None /\ row.secret # s
        /\ \A d \in Calls : call[d] # None => call[d].copy.secret # s
    BY <1>1, <2>1, <2>4 DEF Fresh, SecretsOnce
  <2>6. HoldsFresh(c)'
    BY <1>1, <2>2, <2>3, <2>4, <2>5 DEF HoldsFresh
  <2>7. ASSUME NEW d \in Calls \ {c}, call[d] # None, OnItsWay(d) PROVE HoldsFresh(d)'
    <3>1. HoldsFresh(d)
      BY <2>7 DEF SecretsOnce
    <3>2. call'[c].copy.secret # call[d].copy.secret
      BY <2>3, <2>5, <2>7
    <3> QED BY <1>1, <3>1, <3>2 DEF HoldsFresh
  <2> QED BY <1>1, <2>2, <2>6, <2>7 DEF SecretsOnce, OnItsWay
<1> QED BY <1>5, <1>6, <1>7, <1>8 DEF Beginning

LEMMA SecretsSave ==
  ASSUME IInv, SecretsOnce, NEW c \in Calls, Save(c)
  PROVE  SecretsOnce'
<1> USE DEF IInv
<1>1. /\ call[c] \in Call /\ row' = call[c].copy
      /\ \A d \in Calls \ {c} : call'[d] = call[d]
      /\ call'[c].op = call[c].op /\ call'[c].copy = call[c].copy
  BY SaveKeeps
<1>2. call[c] # None /\ call[c].pc = "save" /\ ~OnItsWay(c)'
      /\ sold \in [Secrets -> Codes \cup {None}]
  BY <1>1 DEF Save, Busy, TypeOK, OnItsWay, Call
<1>3. CASE call[c].op = "claim"
  <2> DEFINE s == call[c].copy.secret
  <2>1. HoldsFresh(c)
    BY <1>2, <1>3 DEF SecretsOnce, OnItsWay
  <2>2. s \in Secrets /\ sold[s] = None /\ call[c].code # None
        /\ \A b \in Calls \ {c} : call[b] # None => call[b].copy.secret # s
    BY <2>1 DEF HoldsFresh
  <2>3. sold' = [sold EXCEPT ![s] = call[c].code]
    BY <1>3 DEF Save
  <2>4. sold'[s] # None /\ \A t \in Secrets : sold'[t] = IF t = s THEN call[c].code ELSE sold[t]
    BY <1>2, <2>2, <2>3
  <2>5. ASSUME NEW d \in Calls \ {c}, call[d] # None, OnItsWay(d) PROVE HoldsFresh(d)'
    <3>1. HoldsFresh(d)
      BY <2>5 DEF SecretsOnce
    <3>2. call[d].copy.secret # s
      BY <2>2, <2>5
    <3> QED BY <1>1, <2>4, <2>5, <3>1, <3>2 DEF HoldsFresh
  <2>6. ASSUME NEW d \in Calls \ {c}, call[d] # None, call[d].copy.secret # None, ~OnItsWay(d)
        PROVE  sold'[call[d].copy.secret] # None
    <3>1. call[d].copy.secret \in Secrets
      BY <2>6 DEF TypeOK, Call, TabletRow
    <3>2. sold[call[d].copy.secret] # None
      BY <2>6 DEF SecretsOnce
    <3> QED BY <2>2, <2>4, <2>6, <3>1, <3>2
  <2> HIDE DEF s
  <2>7. row'.secret = s /\ call'[c].copy.secret = s
    BY <1>1 DEF s
  <2> QED BY <1>1, <1>2, <1>3, <2>4, <2>5, <2>6, <2>7 DEF SecretsOnce, OnItsWay
<1>4. CASE call[c].op # "claim"
  <2>1. sold' = sold
    BY <1>4 DEF Save
  <2>2. ~OnItsWay(c)
    BY <1>4 DEF OnItsWay
  <2>3. ASSUME NEW d \in Calls \ {c}, call[d] # None, OnItsWay(d) PROVE HoldsFresh(d)'
    <3>1. HoldsFresh(d)
      BY <2>3 DEF SecretsOnce
    <3>2. call[c].copy.secret # call[d].copy.secret
      BY <1>2, <3>1 DEF HoldsFresh
    <3> QED BY <1>1, <2>1, <3>1, <3>2 DEF HoldsFresh
  <2> QED BY <1>1, <1>2, <2>1, <2>2, <2>3 DEF SecretsOnce, OnItsWay
<1> QED BY <1>3, <1>4

LEMMA SecretsElse ==
  ASSUME IInv, SecretsOnce, [Next]_vars, \A c \in Calls : ~Beginning(c) /\ ~Save(c)
  PROVE  SecretsOnce'
<1> USE DEF IInv, TypeOK
<1>1. /\ sold' = sold
      /\ \A c \in Calls : call'[c] # None =>
           call[c] # None /\ call'[c].op = call[c].op /\ call'[c].code = call[c].code
           /\ call'[c].copy = call[c].copy
      /\ row' = row \/ (row = None /\ row' \in TabletRow)
  BY CallsElse
<1>2. \A c \in Calls : call'[c] # None => call'[c].pc = call[c].pc
  <2>1. ASSUME NEW c \in Calls, call[c] # None
        PROVE  [call[c] EXCEPT !.by = None].pc = call[c].pc
    BY <2>1 DEF Call
  <2>2. CASE \E c \in Calls : LoseAnswer(c)
    BY <2>1, <2>2 DEF LoseAnswer
  <2>3. CASE \E k \in Kiosks : Restart(k)
    BY <2>1, <2>3 DEF Restart
  <2>4. CASE \E c \in Calls : Answer(c) \/ Fail(c)
    BY <2>4 DEF Answer, Fail
  <2> QED BY <2>2, <2>3, <2>4
          DEF Next, Beginning, Provision, Expire, Boot, StoreConfig, vars
<1>3. row' # row => row'.secret = None
  <2>1. ASSUME NEW code \in Codes, Provision(code) PROVE row'.secret = None
    BY <2>1 DEF Provision
  <2> QED BY <2>1 DEF Next, Beginning, Expire, Boot, StoreConfig, Restart, Answer, LoseAnswer,
                      Fail, vars
<1>4. \A c \in Calls : call'[c] # None => (OnItsWay(c)' <=> OnItsWay(c))
  BY <1>1, <1>2 DEF OnItsWay
<1>5. ASSUME NEW c \in Calls, call'[c] # None, OnItsWay(c) PROVE HoldsFresh(c)'
  <2>1. HoldsFresh(c)
    BY <1>1, <1>5 DEF SecretsOnce
  <2>2. row' # None => row'.secret # call[c].copy.secret
    BY <1>3, <2>1, TabletsConstants DEF HoldsFresh
  <2> QED BY <1>1, <1>5, <2>1, <2>2 DEF HoldsFresh
<1>6. row' # None /\ row'.secret # None => sold'[row'.secret] # None
  BY <1>1, <1>3 DEF SecretsOnce
<1> QED BY <1>1, <1>4, <1>5, <1>6 DEF SecretsOnce

\* A secret is sold once: what a claim brings is in no row and no other copy yet.
THEOREM SecretsAreNew == Spec => []SecretsOnce
<1>1. Init => SecretsOnce
  BY DEF Init, SecretsOnce
<1>2. IInv /\ SecretsOnce /\ [Next]_vars => SecretsOnce'
  BY SecretsBegin, SecretsSave, SecretsElse
<1> QED BY <1>1, <1>2, Invariance, PTL DEF Spec

\* What a save does to the row that its copy is recent of.
LEMMA SaveIsOperation ==
  ASSUME IInv, SecretsOnce, NEW c \in Calls, Save(c), ~undone'
  PROVE  Registry!Next \/ UNCHANGED <<row, sold>>
<1> USE DEF IInv
<1>1. /\ call[c] \in Call /\ call[c] # None /\ Busy(c, "save") /\ c \notin stale /\ ~undone
      /\ row' = call[c].copy /\ call[c].copy \in TabletRow
  BY DEF Save, Busy, TypeOK, Call
<1>2. row # None /\ row \in TabletRow /\ Recent(c)
  BY <1>1 DEF RowFirst, CopiesRecent, TypeOK
<1>3. /\ row' = [secret |-> row'.secret, code |-> row'.code, active |-> row'.active]
      /\ row = [secret |-> row.secret, code |-> row.code, active |-> row.active]
  BY <1>1, <1>2 DEF TabletRow
<1>4. CASE call[c].op = "claim"
  <2> DEFINE s == call[c].copy.secret
  <2>1. s \in Secrets /\ sold[s] = None
    BY <1>1, <1>4 DEF SecretsOnce, OnItsWay, HoldsFresh, Busy
  <2>2. row' = [row EXCEPT !.secret = s, !.code = None] /\ row.code # None
    BY <1>1, <1>2, <1>3, <1>4 DEF Recent
  <2>3. sold' = [sold EXCEPT ![s] = row.code]
    BY <1>2, <1>4 DEF Save, Recent
  <2>4. Registry!Sell(s)
    BY <1>2, <2>1, <2>2, <2>3 DEF Registry!Sell
  <2> QED BY <2>1, <2>4 DEF Registry!Next
<1>5. sold' = sold \/ call[c].op = "claim"
  BY DEF Save
<1>6. CASE call[c].op = "rotate"
  <2> DEFINE code == call[c].copy.code
  <2>1. code \in Codes /\ \A s \in Secrets : sold[s] # code
    BY <1>1, <1>6, TabletsConstants DEF SecretsOnce, SoldIsGone
  <2>2. row' = [row EXCEPT !.code = code]
    BY <1>1, <1>2, <1>3, <1>6 DEF Recent
  <2>3. Registry!Rotate(code)
    BY <1>2, <1>5, <1>6, <2>1, <2>2 DEF Registry!Rotate, Registry!Unsold
  <2> QED BY <2>1, <2>3 DEF Registry!Next
<1>7. CASE call[c].op = "update"
  <2> DEFINE b == call[c].copy.active
  <2>1. b \in BOOLEAN
    BY <1>1 DEF TabletRow
  <2>2. row' = [row EXCEPT !.active = b]
    BY <1>1, <1>2, <1>3, <1>7 DEF Recent
  <2>3. Registry!SetActive(b)
    BY <1>2, <1>5, <1>7, <2>2 DEF Registry!SetActive
  <2> QED BY <2>1, <2>3 DEF Registry!Next
<1>8. CASE call[c].op = "heartbeat"
  BY <1>1, <1>2, <1>3, <1>5, <1>8 DEF Recent
<1> QED BY <1>1, <1>4, <1>6, <1>7, <1>8 DEF Call

\* Tablets implements TabletRegistry up to the first obsolete copy that is saved: the
\* handlers' loads and saves, however they interleave, are single operations on the
\* row (provision, rotateSecret, update, claim, heartbeat).
THEOREM ImplementsRegistry == Spec => RegistryWhileFresh
<1>1. Init => Registry!Init
  BY DEF Init, Registry!Init
<1>2. IInv /\ SecretsOnce /\ [Next]_vars => [undone' \/ Registry!Next]_(Registry!vars)
  <2> SUFFICES ASSUME IInv, SecretsOnce, [Next]_vars, ~undone'
               PROVE  Registry!Next \/ UNCHANGED <<row, sold>>
    BY DEF Registry!vars
  <2>1. CASE \E c \in Calls : Save(c)
    BY <2>1, SaveIsOperation
  <2>2. CASE \E c \in Calls : Beginning(c)
    BY <2>2, BeginRecent
  <2>3. ASSUME NEW code \in Codes, Provision(code) PROVE Registry!Next
    <3>1. undone' = undone /\ sold' = sold /\ row = None /\ code \notin issued
          /\ row' = [secret |-> None, code |-> code, active |-> TRUE]
      BY <2>3 DEF Provision
    <3>2. code # None /\ \A s \in Secrets : sold[s] # code
      BY <3>1, TabletsConstants DEF IInv, CodesIssued
    <3>3. Registry!Provision(code)
      BY <3>1, <3>2 DEF Registry!Provision, Registry!Unsold
    <3> QED BY <3>3 DEF Registry!Next
  <2> QED BY <2>1, <2>2, <2>3
          DEF Next, Beginning, Expire, Boot, StoreConfig, Restart, Answer, LoseAnswer, Fail, vars
<1> QED BY <1>1, <1>2, Invariance, SecretsAreNew, PTL DEF Spec, RegistryWhileFresh, Registry!vars
==============================================================================
