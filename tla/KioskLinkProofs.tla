---------------------------- MODULE KioskLinkProofs ----------------------------
(***************************************************************************)
(* Theorems about KioskLink, for any number of kiosks, phones, syncs and   *)
(* faults.  Each conjunct of IInv has a lemma: the few steps that touch    *)
(* its variables one by one, all others at once.                           *)
(***************************************************************************)
EXTENDS KioskLink, TLAPS, SequenceTheorems

LEMMA InitInv == Init => IInv
<1> SUFFICES ASSUME Init PROVE IInv
  OBVIOUS
<1> USE KioskLinkConstants DEF Init
<1>1. Idle \in Exchange
  BY DEF Idle, Exchange
<1>2. TypeOK
  <2>1. /\ up \subseteq Kiosks /\ gone \subseteq Kiosks \X Phones
        /\ nonces \in 0..MaxNonces /\ challenges \in 0..MaxChallenges
        /\ made \in [Kiosks -> SUBSET (1..MaxNonces)]
        /\ pending \in [Kiosks -> SUBSET (1..MaxNonces)]
        /\ ble \in [Kiosks -> {"off", "on", "failed"}]
        /\ bridge \in [Kiosks -> Seq(1..MaxNonces)]
    OBVIOUS
  <2>2. /\ sync \in [Syncs -> Sync \cup {None}]
        /\ nonce \in [Kiosks -> (1..MaxNonces) \cup {None}]
        /\ responses \in [Kiosks -> [Phones -> Answer \cup {None}]]
    OBVIOUS
  <2> QED BY <1>1, <2>1, <2>2 DEF TypeOK
<1>3. Equipped /\ ReadsOwn /\ OwnAnswer
  BY DEF Equipped, ReadsOwn, OwnAnswer, Idle
<1>4. AnsweredKnown /\ HandedOver /\ PendingOrKnown
  BY DEF AnsweredKnown, HandedOver, PendingOrKnown
<1> QED BY <1>2, <1>3, <1>4 DEF IInv

-----------------------------------------------------------------------------
(* Types                                                                   *)

\* A fresh nonce is in bounds.
LEMMA NonceBound ==
  ASSUME TypeOK, NEW k \in Kiosks, NextNonce(k)
  PROVE  /\ nonces' \in 0..MaxNonces /\ nonces' \in 1..MaxNonces
         /\ made' \in [Kiosks -> SUBSET (1..MaxNonces)]
         /\ pending' \in [Kiosks -> SUBSET (1..MaxNonces)]
<1>1. nonces' \in 0..MaxNonces /\ nonces' \in 1..MaxNonces
  BY KioskLinkConstants DEF TypeOK, NextNonce
<1>2. /\ made[k] \cup {nonces'} \in SUBSET (1..MaxNonces)
      /\ pending[k] \cup {nonces'} \in SUBSET (1..MaxNonces)
  BY <1>1 DEF TypeOK
<1>3. /\ made' \in [Kiosks -> SUBSET (1..MaxNonces)]
      /\ pending' \in [Kiosks -> SUBSET (1..MaxNonces)]
  BY <1>2 DEF TypeOK, NextNonce
<1> QED BY <1>1, <1>3

\* A request to the API carries nonces of its kiosk.
LEMMA SyncTyped ==
  ASSUME TypeOK, NEW k \in Kiosks, NEW items \in SUBSET (1..MaxNonces),
         StartSync(k, items)
  PROVE  sync' \in [Syncs -> Sync \cup {None}]
<1>1. [from |-> k, items |-> items, pc |-> "sent"] \in Sync
  BY DEF Sync
<1> QED BY <1>1 DEF TypeOK, StartSync

LEMMA TypeStep ==
  ASSUME IInv, [Next]_vars
  PROVE  TypeOK'
<1> USE DEF IInv
<1>1. ASSUME NEW k \in Kiosks, Mount(k) PROVE TypeOK'
  BY <1>1 DEF Mount, TypeOK, radio
<1>2. ASSUME NEW k \in Kiosks, RotateQr(k) PROVE TypeOK'
  <2>1. NextNonce(k) /\ StartSync(k, pending'[k])
    BY <1>2 DEF RotateQr
  <2>2. /\ nonces' \in 0..MaxNonces /\ nonces' \in 1..MaxNonces
        /\ made' \in [Kiosks -> SUBSET (1..MaxNonces)]
        /\ pending' \in [Kiosks -> SUBSET (1..MaxNonces)]
    BY <2>1, NonceBound
  <2>3. sync' \in [Syncs -> Sync \cup {None}]
    BY <2>1, <2>2, SyncTyped
  <2>4. bridge' \in [Kiosks -> Seq(1..MaxNonces)]
    BY <1>2, <2>2 DEF RotateQr, TypeOK
  <2> QED BY <1>2, <2>2, <2>3, <2>4 DEF RotateQr, TypeOK
<1>3. ASSUME NEW k \in Kiosks, Heartbeat(k) PROVE TypeOK'
  <2>1. sync' \in [Syncs -> Sync \cup {None}]
    <3>1. StartSync(k, pending[k]) /\ pending[k] \in SUBSET (1..MaxNonces)
      BY <1>3 DEF Heartbeat, TypeOK
    <3> QED BY <3>1, SyncTyped
  <2> QED BY <1>3, <2>1 DEF Heartbeat, TypeOK, kept, radio
<1>4. ASSUME NEW k \in Kiosks, StartServer(k) PROVE TypeOK'
  BY <1>4 DEF StartServer, TypeOK, feed
<1>5. ASSUME NEW k \in Kiosks, UpdateSecretAndNonce(k) PROVE TypeOK'
  <2>1. /\ Head(bridge[k]) \in 1..MaxNonces
        /\ Tail(bridge[k]) \in Seq(1..MaxNonces)
    <3>1. bridge[k] \in Seq(1..MaxNonces) /\ bridge[k] # <<>>
      BY <1>5 DEF UpdateSecretAndNonce, TypeOK
    <3> QED BY <3>1, HeadTailProperties
  <2>2. /\ nonce' \in [Kiosks -> (1..MaxNonces) \cup {None}]
        /\ bridge' \in [Kiosks -> Seq(1..MaxNonces)]
    BY <1>5, <2>1 DEF UpdateSecretAndNonce, TypeOK
  <2> QED BY <1>5, <2>2 DEF UpdateSecretAndNonce, TypeOK, feed
<1>6. ASSUME NEW k \in Kiosks, Restart(k) PROVE TypeOK'
  <2>1. phone' \in [Phones -> Exchange]
    <3>1. ASSUME NEW p \in Phones PROVE [phone[p] EXCEPT !.pc = "error"] \in Exchange
      BY DEF TypeOK, Exchange
    <3> QED BY <1>6, <3>1 DEF Restart, TypeOK
  <2>2. /\ nonce' \in [Kiosks -> (1..MaxNonces) \cup {None}]
        /\ bridge' \in [Kiosks -> Seq(1..MaxNonces)]
        /\ responses' \in [Kiosks -> [Phones -> Answer \cup {None}]]
    BY <1>6 DEF Restart, TypeOK
  <2> QED BY <1>6, <2>1, <2>2 DEF Restart, TypeOK
<1>7. ASSUME NEW s \in Syncs, Deliver(s) \/ LoseSync(s) PROVE TypeOK'
  <2>1. CASE ReceiveNonces(s)
    <3>1. sync[s] \in Sync
      BY <2>1 DEF ReceiveNonces, TypeOK
    <3>2. [sync[s] EXCEPT !.pc = "answered"] \in Sync
      BY <3>1 DEF Sync
    <3> QED BY <2>1, <3>2 DEF ReceiveNonces, TypeOK, kept, radio
  <2>2. CASE MarkSynced(s)
    <3>1. sync[s].from \in Kiosks
      BY <2>2 DEF MarkSynced, TypeOK, Sync
    <3>2. pending' \in [Kiosks -> SUBSET (1..MaxNonces)]
      BY <2>2, <3>1 DEF MarkSynced, TypeOK
    <3> QED BY <2>2, <3>2 DEF MarkSynced, TypeOK, kept, radio
  <2>3. CASE LoseSync(s)
    BY <2>3 DEF LoseSync, TypeOK, radio
  <2> QED BY <1>7, <2>1, <2>2, <2>3 DEF Deliver
<1>8. ASSUME NEW k \in Kiosks, NEW p \in Phones, OnDisconnect(k, p) PROVE TypeOK'
  <2>1. responses' \in [Kiosks -> [Phones -> Answer \cup {None}]]
    BY <1>8 DEF OnDisconnect, TypeOK
  <2> QED BY <1>8, <2>1 DEF OnDisconnect, TypeOK, feed
<1>9. ASSUME NEW p \in Phones, NEW k \in Kiosks,
             StartScan(p, k) \/ \E d \in BOOLEAN : Discover(p, k, d)
      PROVE  TypeOK'
  <2>1. CASE StartScan(p, k)
    <3>1. challenges' \in 0..MaxChallenges /\ challenges' \in 1..MaxChallenges
      BY <2>1, KioskLinkConstants DEF StartScan, TypeOK
    <3>2. [Idle EXCEPT !.pc = "scan", !.wants = k, !.challenge = challenges'] \in Exchange
      BY <3>1 DEF Idle, Exchange
    <3> QED BY <2>1, <3>1, <3>2 DEF StartScan, TypeOK, feed, radio
  <2>2. ASSUME NEW d \in BOOLEAN, Discover(p, k, d) PROVE TypeOK'
    <3>1. [phone[p] EXCEPT !.pc = "connect", !.found = k] \in Exchange
      BY DEF TypeOK, Exchange
    <3>2. phone' = [phone EXCEPT ![p] = [phone[p] EXCEPT !.pc = "connect", !.found = k]]
      BY <2>2 DEF Discover, TypeOK
    <3> QED BY <2>2, <3>1, <3>2 DEF Discover, TypeOK, feed, radio
  <2> QED BY <1>9, <2>1, <2>2
<1>10. ASSUME NEW p \in Phones, ScanTimeout(p) \/ BreakLink(p) \/ Connect(p)
                                \/ CancelConnection(p)
       PROVE  TypeOK'
  <2>1. Idle \in Exchange
    BY DEF Idle, Exchange
  <2>2. \A pc \in {"write", "error"} : [phone[p] EXCEPT !.pc = pc] \in Exchange
    BY DEF TypeOK, Exchange
  <2>3. phone' \in [Phones -> Exchange]
    BY <1>10, <2>1, <2>2
       DEF TypeOK, ScanTimeout, BreakLink, Connect, CancelConnection
  <2>4. gone' \subseteq Kiosks \X Phones
    <3>1. CancelConnection(p) => phone[p].found \in Kiosks
      BY DEF CancelConnection, Equipped
    <3> QED BY <1>10, <3>1
            DEF TypeOK, ScanTimeout, BreakLink, Connect, CancelConnection, feed, radio
  <2> QED BY <1>10, <2>3, <2>4
          DEF TypeOK, ScanTimeout, BreakLink, Connect, CancelConnection, feed, radio
<1>11. ASSUME NEW p \in Phones, OnWrite(p) PROVE TypeOK'
  <2> DEFINE k == phone[p].found
             r == [by |-> k, to |-> phone[p].challenge, nonce |-> nonce[k]]
  <2>1. k \in Kiosks /\ phone[p].challenge \in 1..MaxChallenges
    BY <1>11 DEF OnWrite, Equipped
  <2>2. nonce[k] # None => r \in Answer
    BY <2>1 DEF TypeOK, Answer
  <2>3. responses' \in [Kiosks -> [Phones -> Answer \cup {None}]]
    BY <1>11, <2>1, <2>2 DEF OnWrite, TypeOK
  <2>4. \A pc \in {"read", "error"} : [phone[p] EXCEPT !.pc = pc] \in Exchange
    BY DEF TypeOK, Exchange
  <2>5. phone' \in [Phones -> Exchange]
    BY <1>11, <2>4 DEF OnWrite, TypeOK
  <2> QED BY <1>11, <2>3, <2>5 DEF OnWrite, TypeOK, feed
<1>12. ASSUME NEW p \in Phones, OnRead(p) PROVE TypeOK'
  <2> DEFINE r == responses[phone[p].found][p]
  <2>1. r \in Answer \cup {None}
    <3>1. phone[p].found \in Kiosks
      BY <1>12 DEF OnRead, Equipped
    <3> QED BY <3>1 DEF TypeOK
  <2>2. \A pc \in {"close", "error"} : [phone[p] EXCEPT !.answer = r, !.pc = pc] \in Exchange
    BY <2>1 DEF TypeOK, Exchange
  <2>3. phone' = [phone EXCEPT ![p] =
           [phone[p] EXCEPT !.answer = r, !.pc = IF r = None THEN "error" ELSE "close"]]
    BY <1>12 DEF OnRead, TypeOK
  <2>4. phone' \in [Phones -> Exchange]
    BY <2>2, <2>3 DEF TypeOK
  <2> QED BY <1>12, <2>4 DEF OnRead, TypeOK, feed, radio
<1>13. CASE UNCHANGED vars
  BY <1>13 DEF TypeOK, vars, feed, kept, radio
<1> QED BY <1>1, <1>2, <1>3, <1>4, <1>5, <1>6, <1>7, <1>8, <1>9, <1>10, <1>11,
           <1>12, <1>13 DEF Next, Serve

-----------------------------------------------------------------------------
(* The conjuncts                                                           *)

\* Nonces once generated stay so.
LEMMA MadeGrows ==
  ASSUME TypeOK, [Next]_vars, NEW k \in Kiosks
  PROVE  made[k] \subseteq made'[k]
<1>1. CASE \E j \in Kiosks : RotateQr(j)
  BY <1>1 DEF RotateQr, NextNonce, TypeOK
<1>2. CASE UNCHANGED made
  BY <1>2
<1> QED BY <1>1, <1>2
        DEF Next, Serve, Deliver, Mount, Heartbeat, StartServer, UpdateSecretAndNonce,
            Restart, ReceiveNonces, MarkSynced, LoseSync, OnDisconnect, StartScan,
            Discover, ScanTimeout, OnWrite, OnRead, Connect, CancelConnection,
            BreakLink, vars, feed

LEMMA PendingStep ==
  ASSUME IInv, [Next]_vars
  PROVE  PendingOrKnown'
<1> USE DEF IInv, PendingOrKnown
<1>1. ASSUME NEW k \in Kiosks, RotateQr(k) PROVE PendingOrKnown'
  BY <1>1 DEF RotateQr, NextNonce, TypeOK
<1>2. ASSUME NEW s \in Syncs, ReceiveNonces(s) PROVE PendingOrKnown'
  BY <1>2 DEF ReceiveNonces
<1>3. ASSUME NEW s \in Syncs, MarkSynced(s) PROVE PendingOrKnown'
  BY <1>3 DEF MarkSynced, AnsweredKnown, TypeOK
<1>4. ASSUME NEW k \in Kiosks, Restart(k) PROVE PendingOrKnown'
  BY <1>4 DEF Restart, TypeOK
<1>5. CASE UNCHANGED <<made, pending, known, lost>>
  BY <1>5
<1> QED BY <1>1, <1>2, <1>3, <1>4, <1>5
        DEF Next, Serve, Deliver, Mount, Heartbeat, StartServer, UpdateSecretAndNonce,
            LoseSync, OnDisconnect, StartScan, Discover, ScanTimeout, OnWrite, OnRead,
            Connect, CancelConnection, BreakLink, vars, feed

LEMMA AnsweredStep ==
  ASSUME IInv, [Next]_vars
  PROVE  AnsweredKnown'
<1> USE DEF IInv, AnsweredKnown, TypeOK
<1>1. ASSUME NEW k \in Kiosks, RotateQr(k) \/ Heartbeat(k) PROVE AnsweredKnown'
  <2>1. ASSUME NEW items, StartSync(k, items), NEW t \in Syncs,
               sync'[t] # None, sync'[t].pc = "answered"
        PROVE  sync'[t] = sync[t]
    BY <2>1 DEF StartSync
  <2>2. (\E items : StartSync(k, items)) /\ known' = known
    BY <1>1 DEF RotateQr, Heartbeat
  <2> QED BY <2>1, <2>2
<1>2. ASSUME NEW s \in Syncs, ReceiveNonces(s) PROVE AnsweredKnown'
  <2>1. ASSUME NEW t \in Syncs, sync'[t] # None, sync'[t].pc = "answered"
        PROVE  sync'[t].items \subseteq known'
    <3>1. sync[s] \in Sync
      BY <1>2 DEF ReceiveNonces
    <3>2. CASE t = s
      BY <1>2, <3>1, <3>2 DEF ReceiveNonces, Sync
    <3>3. CASE t # s
      BY <1>2, <2>1, <3>3 DEF ReceiveNonces
    <3> QED BY <3>2, <3>3
  <2> QED BY <2>1
<1>3. ASSUME NEW s \in Syncs, MarkSynced(s) \/ LoseSync(s) PROVE AnsweredKnown'
  BY <1>3 DEF MarkSynced, LoseSync
<1>4. CASE UNCHANGED <<sync, known>>
  BY <1>4
<1> QED BY <1>1, <1>2, <1>3, <1>4
        DEF Next, Serve, Deliver, Mount, StartServer, UpdateSecretAndNonce, Restart,
            OnDisconnect, StartScan, Discover, ScanTimeout, OnWrite, OnRead, Connect,
            CancelConnection, BreakLink, vars, feed

LEMMA HandedStep ==
  ASSUME IInv, [Next]_vars
  PROVE  HandedOver'
<1> USE DEF IInv
<1>1. \A k \in Kiosks : made[k] \subseteq made'[k]
  BY MadeGrows
<1>2. ASSUME NEW k \in Kiosks, RotateQr(k) PROVE HandedOver'
  <2>1. nonces' \in 1..MaxNonces /\ nonces' \in made'[k]
    BY <1>2, NonceBound DEF RotateQr, NextNonce, TypeOK
  <2>2. ASSUME NEW i \in 1..Len(bridge'[k]) PROVE bridge'[k][i] \in made'[k]
    <3>1. bridge[k] \in Seq(1..MaxNonces) /\ bridge'[k] = Append(bridge[k], nonces')
      BY <1>2 DEF RotateQr, TypeOK
    <3>2. CASE i = Len(bridge[k]) + 1
      BY <2>1, <3>1, <3>2
    <3>3. CASE i \in 1..Len(bridge[k])
      BY <1>1, <3>1, <3>3 DEF HandedOver
    <3> QED BY <3>1, <3>2, <3>3
  <2>3. ASSUME NEW j \in Kiosks, j # k PROVE bridge'[j] = bridge[j]
    BY <1>2, <2>3 DEF RotateQr, TypeOK
  <2> QED BY <1>1, <1>2, <2>2, <2>3 DEF RotateQr, HandedOver
<1>3. ASSUME NEW k \in Kiosks, UpdateSecretAndNonce(k) PROVE HandedOver'
  <2>1. /\ bridge[k] \in Seq(1..MaxNonces) /\ bridge[k] # <<>>
        /\ bridge'[k] = Tail(bridge[k]) /\ nonce'[k] = Head(bridge[k])
    BY <1>3 DEF UpdateSecretAndNonce, TypeOK
  <2>2. /\ Len(Tail(bridge[k])) = Len(bridge[k]) - 1
        /\ \A i \in 1..Len(Tail(bridge[k])) : Tail(bridge[k])[i] = bridge[k][i + 1]
    BY <2>1, HeadTailProperties
  <2>3. Head(bridge[k]) = bridge[k][1] /\ 1 \in 1..Len(bridge[k])
    BY <2>1
  <2>4. ASSUME NEW i \in 1..Len(bridge'[k]) PROVE bridge'[k][i] \in made[k]
    <3>1. i + 1 \in 1..Len(bridge[k])
      BY <2>1, <2>2
    <3> QED BY <2>1, <2>2, <3>1 DEF HandedOver
  <2>5. nonce'[k] \in made[k]
    BY <2>1, <2>3 DEF HandedOver
  <2>6. ASSUME NEW j \in Kiosks, j # k PROVE bridge'[j] = bridge[j] /\ nonce'[j] = nonce[j]
    BY <1>3, <2>6 DEF UpdateSecretAndNonce, TypeOK
  <2>7. made' = made
    BY <1>3 DEF UpdateSecretAndNonce, feed
  <2> QED BY <2>4, <2>5, <2>6, <2>7 DEF HandedOver
<1>4. ASSUME NEW k \in Kiosks, Restart(k) PROVE HandedOver'
  BY <1>4 DEF Restart, HandedOver, TypeOK
<1>5. CASE UNCHANGED <<made, bridge, nonce>>
  BY <1>5 DEF HandedOver
<1> QED BY <1>2, <1>3, <1>4, <1>5
        DEF Next, Serve, Deliver, Mount, Heartbeat, StartServer, ReceiveNonces,
            MarkSynced, LoseSync, OnDisconnect, StartScan, Discover, ScanTimeout,
            OnWrite, OnRead, Connect, CancelConnection, BreakLink, vars, feed, kept, radio

\* What a step may do to a phone.
LEMMA PhoneMoves ==
  ASSUME IInv, [Next]_vars, NEW q \in Phones
  PROVE  LET Keeps == /\ phone'[q].found = phone[q].found
                      /\ phone'[q].challenge = phone[q].challenge
                      /\ phone[q].pc \notin {"idle", "scan"}
         IN \/ phone'[q] = phone[q]
            \/ phone'[q].pc = "idle"
            \/ phone'[q].pc = "scan" /\ phone'[q].challenge \in 1..MaxChallenges
            \/ /\ phone'[q].pc = "connect" /\ phone'[q].found \in Kiosks
               /\ phone'[q].challenge = phone[q].challenge /\ phone[q].pc = "scan"
            \/ phone'[q].pc \in {"write", "error"} /\ Keeps
            \/ phone'[q].pc = "read" /\ Keeps /\ OnWrite(q)
            \/ phone'[q].pc = "close" /\ Keeps /\ OnRead(q)
<1> DEFINE Keeps == /\ phone'[q].found = phone[q].found
                    /\ phone'[q].challenge = phone[q].challenge
                    /\ phone[q].pc \notin {"idle", "scan"}
           Goal == \/ phone'[q] = phone[q]
                   \/ phone'[q].pc = "idle"
                   \/ phone'[q].pc = "scan" /\ phone'[q].challenge \in 1..MaxChallenges
                   \/ /\ phone'[q].pc = "connect" /\ phone'[q].found \in Kiosks
                      /\ phone'[q].challenge = phone[q].challenge /\ phone[q].pc = "scan"
                   \/ phone'[q].pc \in {"write", "error"} /\ Keeps
                   \/ phone'[q].pc = "read" /\ Keeps /\ OnWrite(q)
                   \/ phone'[q].pc = "close" /\ Keeps /\ OnRead(q)
<1> SUFFICES Goal
  OBVIOUS
<1>0. phone \in [Phones -> Exchange] /\ phone[q] \in Exchange
  BY DEF IInv, TypeOK
<1>1. ASSUME NEW p \in Phones, NEW k \in Kiosks, StartScan(p, k) PROVE Goal
  <2>1. challenges' \in 1..MaxChallenges
    BY <1>1, KioskLinkConstants DEF StartScan, IInv, TypeOK
  <2> QED BY <1>0, <1>1, <2>1 DEF StartScan, Idle
<1>2. ASSUME NEW p \in Phones, NEW k \in Kiosks, NEW d \in BOOLEAN, Discover(p, k, d)
      PROVE  Goal
  BY <1>0, <1>2 DEF Discover, Exchange
<1>3. ASSUME NEW p \in Phones, ScanTimeout(p) \/ CancelConnection(p) PROVE Goal
  BY <1>0, <1>3 DEF ScanTimeout, CancelConnection, Idle
<1>4. ASSUME NEW p \in Phones, Connect(p) PROVE Goal
  BY <1>0, <1>4 DEF Connect, Exchange
<1>5. ASSUME NEW p \in Phones, BreakLink(p) PROVE Goal
  BY <1>0, <1>5 DEF BreakLink, Exchange
<1>6. ASSUME NEW p \in Phones, OnWrite(p) PROVE Goal
  <2>1. CASE p # q
    BY <1>0, <1>6, <2>1 DEF OnWrite
  <2>2. CASE p = q
    <3>1. phone[q].pc = "write" /\ phone'[q].pc \in {"read", "error"}
      BY <1>0, <1>6, <2>2 DEF OnWrite, Exchange
    <3>2. phone'[q].found = phone[q].found /\ phone'[q].challenge = phone[q].challenge
      BY <1>0, <1>6, <2>2 DEF OnWrite, Exchange
    <3> QED BY <1>6, <2>2, <3>1, <3>2
  <2> QED BY <2>1, <2>2
<1>7. ASSUME NEW p \in Phones, OnRead(p) PROVE Goal
  <2>1. CASE p # q
    BY <1>0, <1>7, <2>1 DEF OnRead
  <2>2. CASE p = q
    <3>1. phone[q].pc = "read" /\ phone'[q].pc \in {"close", "error"}
      BY <1>0, <1>7, <2>2 DEF OnRead, Exchange
    <3>2. phone'[q].found = phone[q].found /\ phone'[q].challenge = phone[q].challenge
      BY <1>0, <1>7, <2>2 DEF OnRead, Exchange
    <3> QED BY <1>7, <2>2, <3>1, <3>2
  <2> QED BY <2>1, <2>2
<1>8. ASSUME NEW k \in Kiosks, Restart(k) PROVE Goal
  BY <1>0, <1>8 DEF Restart, Exchange
<1>9. CASE UNCHANGED phone
  BY <1>9
<1> HIDE DEF Goal
<1> QED BY <1>1, <1>2, <1>3, <1>4, <1>5, <1>6, <1>7, <1>8, <1>9
        DEF Next, Serve, Deliver, Mount, RotateQr, Heartbeat, StartServer,
            UpdateSecretAndNonce, ReceiveNonces, MarkSynced, LoseSync, OnDisconnect,
            vars, kept

LEMMA EquippedStep ==
  ASSUME IInv, [Next]_vars
  PROVE  Equipped'
<1> SUFFICES ASSUME NEW q \in Phones
             PROVE  /\ phone'[q].pc # "idle" => phone'[q].challenge \in 1..MaxChallenges
                    /\ phone'[q].pc \notin {"idle", "scan"} => phone'[q].found \in Kiosks
  BY DEF Equipped
<1> QED BY PhoneMoves DEF Equipped, IInv

\* Nobody else's step puts a response where a phone is about to read.
LEMMA ReadKept ==
  ASSUME IInv, [Next]_vars, NEW q \in Phones,
         phone[q].pc = "read", phone'[q] = phone[q]
  PROVE  Read(q)' \in {Read(q), None}
<1>0. /\ phone[q].found \in Kiosks /\ phone \in [Phones -> Exchange]
      /\ responses \in [Kiosks -> [Phones -> Answer \cup {None}]]
  BY DEF IInv, TypeOK, Equipped
<1>1. ASSUME NEW p \in Phones, OnWrite(p) PROVE Read(q)' = Read(q)
  <2>1. p # q
    BY <1>1 DEF OnWrite
  <2> QED BY <1>0, <1>1, <2>1 DEF OnWrite, Read
<1>2. ASSUME NEW k \in Kiosks, NEW p \in Phones, OnDisconnect(k, p)
      PROVE  Read(q)' \in {Read(q), None}
  BY <1>0, <1>2 DEF OnDisconnect, Read
<1>3. ASSUME NEW k \in Kiosks, Restart(k) PROVE Read(q)' = None \/ Read(q)' = Read(q)
  BY <1>0, <1>3 DEF Restart, Read
<1>4. CASE UNCHANGED responses
  BY <1>4 DEF Read
<1> QED BY <1>1, <1>2, <1>3, <1>4
        DEF Next, Serve, Deliver, Mount, RotateQr, Heartbeat, StartServer,
            UpdateSecretAndNonce, ReceiveNonces, MarkSynced, LoseSync, ScanTimeout,
            Connect, CancelConnection, BreakLink, OnRead, StartScan, Discover,
            vars, kept, radio

\* The response to a write is the writer's own.
LEMMA WriteOwn ==
  ASSUME IInv, NEW q \in Phones, OnWrite(q), phone'[q].pc = "read",
         phone'[q].found = phone[q].found, phone'[q].challenge = phone[q].challenge
  PROVE  Own(q, Read(q))'
<1> DEFINE k == phone[q].found
           r == [by |-> k, to |-> phone[q].challenge, nonce |-> nonce[k]]
<1>1. k \in Kiosks /\ phone[q].challenge \in 1..MaxChallenges
  BY DEF IInv, OnWrite, Equipped
<1>2. nonce[k] # None
  BY DEF IInv, TypeOK, Exchange, OnWrite
<1>3. nonce[k] \in made[k] /\ nonce[k] \in 1..MaxNonces
  BY <1>1, <1>2 DEF IInv, HandedOver, TypeOK
<1>4. r \in Answer /\ r.to = phone[q].challenge /\ r.by = k /\ r.nonce \in made[k]
  BY <1>1, <1>3 DEF Answer
<1>5. responses'[k][q] = r /\ made' = made
  BY <1>1, <1>2 DEF IInv, OnWrite, TypeOK, feed
<1> HIDE DEF r
<1> QED BY <1>4, <1>5 DEF Own, Read

LEMMA ReadsStep ==
  ASSUME IInv, [Next]_vars
  PROVE  ReadsOwn'
<1> SUFFICES ASSUME NEW q \in Phones, phone'[q].pc = "read", Read(q)' # None
             PROVE  Own(q, Read(q))'
  BY DEF ReadsOwn
<1>1. CASE phone'[q] = phone[q]
  <2>1. Read(q)' = Read(q)
    BY <1>1, ReadKept
  <2>2. Own(q, Read(q)) /\ phone[q].found \in Kiosks
    BY <1>1, <2>1 DEF IInv, ReadsOwn, Equipped
  <2>3. made[phone[q].found] \subseteq made'[phone[q].found]
    BY <2>2, MadeGrows DEF IInv
  <2> QED BY <1>1, <2>1, <2>2, <2>3 DEF Own
<1>2. CASE /\ OnWrite(q)
           /\ phone'[q].found = phone[q].found /\ phone'[q].challenge = phone[q].challenge
  BY <1>2, WriteOwn
<1> QED BY <1>1, <1>2, PhoneMoves

LEMMA OwnStep ==
  ASSUME IInv, [Next]_vars
  PROVE  OwnAnswer'
<1> SUFFICES ASSUME NEW q \in Phones, phone'[q].pc = "close"
             PROVE  Own(q, phone[q].answer)'
  BY DEF OwnAnswer
<1>1. CASE phone'[q] = phone[q]
  <2>1. Own(q, phone[q].answer) /\ phone[q].found \in Kiosks
    BY <1>1 DEF IInv, OwnAnswer, Equipped
  <2>2. made[phone[q].found] \subseteq made'[phone[q].found]
    BY <2>1, MadeGrows DEF IInv
  <2> QED BY <1>1, <2>1, <2>2 DEF Own
<1>2. CASE /\ OnRead(q)
           /\ phone'[q].found = phone[q].found /\ phone'[q].challenge = phone[q].challenge
  <2>1. Read(q) # None /\ phone'[q].answer = Read(q)
    BY <1>2 DEF IInv, TypeOK, Exchange, OnRead, Read
  <2>2. Own(q, Read(q))
    BY <1>2, <2>1 DEF IInv, ReadsOwn, OnRead
  <2>3. made' = made
    BY <1>2 DEF OnRead, feed
  <2> QED BY <1>2, <2>1, <2>2, <2>3 DEF Own
<1> QED BY <1>1, <1>2, PhoneMoves

-----------------------------------------------------------------------------
(* The theorems                                                            *)

\* What the steps of kiosk, API, radio and phones preserve together.
THEOREM Invariance == Spec => []IInv
<1>1. Init => IInv
  BY InitInv
<1>2. IInv /\ [Next]_vars => IInv'
  BY TypeStep, PendingStep, AnsweredStep, HandedStep, EquippedStep, ReadsStep, OwnStep
     DEF IInv
<1> QED BY <1>1, <1>2, PTL DEF Spec

\* No nonce that was ever shown is forgotten while its kiosk lives, however its
\* syncs overlap and fail (QrGenerator.markSynced).
THEOREM NoncesReachTheApi == Spec => []PendingOrKnown
<1>1. IInv => PendingOrKnown
  BY DEF IInv
<1> QED BY <1>1, Invariance, PTL

\* Every phone reads the answer to its own challenge from the kiosk it talks to
\* (BleGattServerModule, responses per device).
THEOREM AnswersAreOwn == Spec => []OwnAnswer
<1>1. IInv => OwnAnswer
  BY DEF IInv
<1> QED BY <1>1, Invariance, PTL
=============================================================================
