------------------------------ MODULE KioskLink -------------------------------
(***************************************************************************)
(* The kiosk between server and phones: QrGenerator and MainScreen rotate  *)
(* the QR and sync its nonces to the API, BleGattServerModule answers the  *)
(* challenges that phones write (BlePlxTabletClient), on a thread of its   *)
(* own and with the nonce it was handed last.                              *)
(*                                                                         *)
(* Nonces and challenges are numbered as they are generated; no step but   *)
(* that compares them by order.  An answer is the record of who gave it,   *)
(* to which challenge, with which nonce.  Whether the API accepts a kiosk  *)
(* at all is Tablets'; what it makes of the answer is CheckIn's.           *)
(***************************************************************************)
EXTENDS Naturals, Sequences

CONSTANTS
  Kiosks, Phones,
  Syncs,                     \* POST .../nonces requests under way
  None,
  MaxNonces, MaxChallenges,  \* bounds: rotations, exchanges
  MaxFaults                  \* bound: restarts, broken links, lost requests

ASSUME KioskLinkConstants ==
  /\ None \notin Kiosks \cup Nat
  /\ MaxNonces \in Nat /\ MaxChallenges \in Nat /\ MaxFaults \in Nat

VARIABLES
  up,          \* kiosks whose app is running
  made,        \* nonces the kiosk generated
  nonces,      \* number of nonces generated by all kiosks
  pending,     \* pendingSync of the running generator
  lost,        \* history: nonces that were pending when the app died
  known,       \* qr_nonces
  sync,        \* a sync: [from, items, pc], or None
  ble,         \* native module: "off", "on" (advertising) or "failed"
  bridge,      \* updateSecretAndNonce calls not yet executed, oldest first
  nonce,       \* currentNonceB64
  responses,   \* last computed response per remote device
  gone,        \* disconnections the GATT server has yet to hear of
  phone,       \* a phone's getBleResponse: step, kiosks, challenge, answer
  challenges,  \* number of challenges the phones were issued
  faults

radio == <<ble, bridge, nonce, responses, gone>>
feed  == <<up, made, nonces, pending, lost, known, sync>>
kept  == <<radio, phone, challenges, faults>>
vars  == <<feed, kept>>

Answer == [by : Kiosks, to : 1..MaxChallenges, nonce : 1..MaxNonces]
Idle == [pc |-> "idle", wants |-> None, found |-> None, challenge |-> None,
         answer |-> None]

Init ==
  /\ up = {} /\ lost = {} /\ known = {}
  /\ made = [k \in Kiosks |-> {}] /\ nonces = 0
  /\ pending = [k \in Kiosks |-> {}]
  /\ sync = [s \in Syncs |-> None]
  /\ ble = [k \in Kiosks |-> "off"]
  /\ bridge = [k \in Kiosks |-> <<>>]
  /\ nonce = [k \in Kiosks |-> None]
  /\ responses = [k \in Kiosks |-> [p \in Phones |-> None]]
  /\ gone = {}
  /\ phone = [p \in Phones |-> Idle]
  /\ challenges = 0 /\ faults = 0

-----------------------------------------------------------------------------
(* MainScreen and QrGenerator                                              *)

\* The app starts, or starts again: whatever was in RAM is empty.
Mount(k) ==
  /\ k \notin up
  /\ up' = up \cup {k}
  /\ UNCHANGED <<made, nonces, pending, lost, known, sync, radio, phone,
                 challenges, faults>>

\* QrGenerator.next: a nonce for the QR, to be synced.
NextNonce(k) ==
  /\ nonces < MaxNonces
  /\ nonces' = nonces + 1
  /\ made' = [made EXCEPT ![k] = @ \cup {nonces'}]
  /\ pending' = [pending EXCEPT ![k] = @ \cup {nonces'}]

\* A request to /nonces leaves with a copy of the pending list, or fails at once.
StartSync(k, items) ==
  \/ \E s \in Syncs : /\ sync[s] = None
                      /\ sync' = [sync EXCEPT ![s] =
                           [from |-> k, items |-> items, pc |-> "sent"]]
  \/ UNCHANGED sync

\* rotateQr: next QR, the new nonce on its way to the native module, all that
\* is pending on its way to the API.
RotateQr(k) ==
  /\ k \in up
  /\ NextNonce(k)
  /\ bridge' = [bridge EXCEPT ![k] = Append(@, nonces')]
  /\ StartSync(k, pending'[k])
  /\ UNCHANGED <<up, lost, known, ble, nonce, responses, gone, phone,
                 challenges, faults>>

\* Mutant of Heartbeat: it relies on the rotations for the sync.
HeartbeatOnly(k) == k \in up /\ UNCHANGED vars

\* The timer: once the heartbeat is answered, what is still pending is sent.
Heartbeat(k) ==
  /\ k \in up /\ pending[k] # {}
  /\ StartSync(k, pending[k])
  /\ sync' # sync
  /\ UNCHANGED <<up, made, nonces, pending, lost, known, kept>>

\* TabletsService.syncNonces: INSERT ... ON CONFLICT DO NOTHING.
ReceiveNonces(s) ==
  /\ sync[s] # None /\ sync[s].pc = "sent"
  /\ known' = known \cup sync[s].items
  /\ sync' = [sync EXCEPT ![s].pc = "answered"]
  /\ UNCHANGED <<up, made, nonces, pending, lost, kept>>

\* Mutant of MarkSynced: everything pending counts as synced.
MarkAllSynced(s) ==
  /\ sync[s] # None /\ sync[s].pc = "answered"
  /\ pending' = [pending EXCEPT ![sync[s].from] = {}]
  /\ sync' = [sync EXCEPT ![s] = None]
  /\ UNCHANGED <<up, made, nonces, lost, known, kept>>

\* An answer acknowledges what its own request carried.
MarkSynced(s) ==
  /\ sync[s] # None /\ sync[s].pc = "answered"
  /\ pending' = [pending EXCEPT ![sync[s].from] = @ \ sync[s].items]
  /\ sync' = [sync EXCEPT ![s] = None]
  /\ UNCHANGED <<up, made, nonces, lost, known, kept>>

-----------------------------------------------------------------------------
(* BleGattServerModule                                                     *)

\* Once per app start, without a retry: no permission, Bluetooth off or no
\* advertiser leave it failed.
StartServer(k) ==
  /\ k \in up /\ ble[k] = "off"
  /\ \E state \in {"on", "failed"} : ble' = [ble EXCEPT ![k] = state]
  /\ UNCHANGED <<feed, bridge, nonce, responses, gone, phone, challenges, faults>>

\* The secret is written before the nonce; without either there is no response.
UpdateSecretAndNonce(k) ==
  /\ bridge[k] # <<>>
  /\ nonce' = [nonce EXCEPT ![k] = Head(bridge[k])]
  /\ bridge' = [bridge EXCEPT ![k] = Tail(@)]
  /\ UNCHANGED <<feed, ble, responses, gone, phone, challenges, faults>>

\* Mutant of OnWrite: one response for whoever reads next.
OnWriteShared(p) ==
  LET k == phone[p].found IN
  /\ phone[p].pc = "write"
  /\ responses' = IF nonce[k] = None THEN responses
       ELSE [responses EXCEPT ![k] = [q \in Phones |->
               [by |-> k, to |-> phone[p].challenge, nonce |-> nonce[k]]]]
  /\ phone' = [phone EXCEPT ![p].pc = IF nonce[k] = None THEN "error" ELSE "read"]
  /\ UNCHANGED <<feed, ble, bridge, nonce, gone, challenges, faults>>

\* onCharacteristicWriteRequest: computeResponse for the written challenge, kept
\* under the device's address; GATT_FAILURE before the first nonce.
OnWrite(p) ==
  LET k == phone[p].found IN
  /\ phone[p].pc = "write"
  /\ responses' = IF nonce[k] = None THEN responses
       ELSE [responses EXCEPT ![k][p] =
               [by |-> k, to |-> phone[p].challenge, nonce |-> nonce[k]]]
  /\ phone' = [phone EXCEPT ![p].pc = IF nonce[k] = None THEN "error" ELSE "read"]
  /\ UNCHANGED <<feed, ble, bridge, nonce, gone, challenges, faults>>

\* onCharacteristicReadRequest, and the phone takes the answer apart.
OnRead(p) ==
  LET r == responses[phone[p].found][p] IN
  /\ phone[p].pc = "read"
  /\ phone' = [phone EXCEPT ![p].answer = r,
                            ![p].pc = IF r = None THEN "error" ELSE "close"]
  /\ UNCHANGED <<feed, radio, challenges, faults>>

\* onConnectionStateChange: the response does not outlive the connection.
OnDisconnect(k, p) ==
  /\ <<k, p>> \in gone
  /\ gone' = gone \ {<<k, p>>}
  /\ responses' = [responses EXCEPT ![k][p] = None]
  /\ UNCHANGED <<feed, ble, bridge, nonce, phone, challenges, faults>>

-----------------------------------------------------------------------------
(* The phone: getBleResponse                                               *)

\* With the QR of kiosk k scanned and a challenge in hand, scanning begins.
StartScan(p, k) ==
  /\ phone[p].pc = "idle" /\ made[k] # {} /\ challenges < MaxChallenges
  /\ challenges' = challenges + 1
  /\ phone' = [phone EXCEPT ![p] =
       [Idle EXCEPT !.pc = "scan", !.wants = k, !.challenge = challenges']]
  /\ UNCHANGED <<feed, radio, faults>>

\* The first kiosk whose id hash fits is taken; so is one whose advertisement
\* came without service data (it rides in the scan response).
Discover(p, k, serviceData) ==
  /\ phone[p].pc = "scan" /\ ble[k] = "on"
  /\ serviceData => k = phone[p].wants
  /\ phone' = [phone EXCEPT ![p].pc = "connect", ![p].found = k]
  /\ UNCHANGED <<feed, radio, challenges, faults>>

\* Mutant of ScanTimeout: no timer.
ScanForever(p) == phone[p].pc = "scan" /\ UNCHANGED vars

\* SCAN_TIMEOUT_MS.
ScanTimeout(p) ==
  /\ phone[p].pc = "scan"
  /\ phone' = [phone EXCEPT ![p] = Idle]
  /\ UNCHANGED <<feed, radio, challenges, faults>>

\* A kiosk takes the connection, or the connection attempt times out.
Connect(p) ==
  /\ phone[p].pc = "connect" /\ <<phone[p].found, p>> \notin gone
  /\ \E pc \in {"write", "error"} :
       /\ pc = "write" => ble[phone[p].found] = "on"
       /\ phone' = [phone EXCEPT ![p].pc = pc]
  /\ UNCHANGED <<feed, radio, challenges, faults>>

\* finally: cancelConnection, whether there is a result or an error.
CancelConnection(p) ==
  /\ phone[p].pc \in {"close", "error"}
  /\ gone' = gone \cup {<<phone[p].found, p>>}
  /\ phone' = [phone EXCEPT ![p] = Idle]
  /\ UNCHANGED <<feed, ble, bridge, nonce, responses, challenges, faults>>

-----------------------------------------------------------------------------
(* Faults                                                                  *)

Fault == faults < MaxFaults /\ faults' = faults + 1

\* The link breaks: the phone's await fails.
BreakLink(p) ==
  /\ Fault /\ phone[p].pc \in {"write", "read"}
  /\ phone' = [phone EXCEPT ![p].pc = "error"]
  /\ UNCHANGED <<feed, radio, challenges>>

\* A sync, or its answer, does not arrive.
LoseSync(s) ==
  /\ Fault /\ sync[s] # None
  /\ sync' = [sync EXCEPT ![s] = None]
  /\ UNCHANGED <<up, made, nonces, pending, lost, known, radio, phone, challenges>>

\* The kiosk's app dies with all that is in RAM; its syncs may still arrive.
Restart(k) ==
  /\ Fault /\ k \in up
  /\ up' = up \ {k}
  /\ lost' = lost \cup pending[k]
  /\ pending' = [pending EXCEPT ![k] = {}]
  /\ ble' = [ble EXCEPT ![k] = "off"]
  /\ bridge' = [bridge EXCEPT ![k] = <<>>]
  /\ nonce' = [nonce EXCEPT ![k] = None]
  /\ responses' = [responses EXCEPT ![k] = [p \in Phones |-> None]]
  /\ gone' = {g \in gone : g[1] # k}
  /\ phone' = [p \in Phones |->
       IF phone[p].found = k /\ phone[p].pc \in {"write", "read"}
       THEN [phone[p] EXCEPT !.pc = "error"] ELSE phone[p]]
  /\ UNCHANGED <<made, nonces, known, sync, challenges>>

Serve(p) == OnWrite(p) \/ OnRead(p) \/ Connect(p) \/ CancelConnection(p)
Deliver(s) == ReceiveNonces(s) \/ MarkSynced(s)

Next ==
  \/ \E k \in Kiosks : Mount(k) \/ RotateQr(k) \/ Heartbeat(k) \/ StartServer(k)
                       \/ UpdateSecretAndNonce(k) \/ Restart(k)
  \/ \E s \in Syncs : Deliver(s) \/ LoseSync(s)
  \/ \E k \in Kiosks, p \in Phones : OnDisconnect(k, p)
  \/ \E p \in Phones, k \in Kiosks : StartScan(p, k)
  \/ \E p \in Phones, k \in Kiosks, d \in BOOLEAN : Discover(p, k, d)
  \/ \E p \in Phones : ScanTimeout(p) \/ Serve(p) \/ BreakLink(p)

Spec == Init /\ [][Next]_vars

\* Timers fire, requests are answered or fail, the radio answers or the link
\* breaks; nothing makes a kiosk rotate, start or advertise.
FairSpec ==
  /\ Spec
  /\ \A k \in Kiosks : WF_vars(Heartbeat(k))
  /\ \A s \in Syncs : WF_vars(Deliver(s))
  /\ \A p \in Phones : WF_vars(Serve(p)) /\ WF_vars(ScanTimeout(p))
  /\ \A k \in Kiosks, p \in Phones : WF_vars(OnDisconnect(k, p))

-----------------------------------------------------------------------------
(* What the kiosk promises                                                 *)

\* A nonce the kiosk ever showed is known to the API or still on its list,
\* however syncs overlap, fail and are answered out of order; only the death of
\* the app loses any (takePending and markSynced).
PendingOrKnown ==
  \A k \in Kiosks : made[k] \subseteq pending[k] \cup known \cup lost

\* r answers phone p's own challenge, and comes from the kiosk p has found with a
\* nonce that this kiosk has shown.
Own(p, r) ==
  /\ r \in Answer
  /\ r.to = phone[p].challenge
  /\ r.by = phone[p].found
  /\ r.nonce \in made[phone[p].found]

\* A phone gets the answer to its own challenge, whoever else is connected and
\* however often the kiosk rotates meanwhile (responses per device address).
OwnAnswer == \A p \in Phones : phone[p].pc = "close" => Own(p, phone[p].answer)

\* "so we talk to the RIGHT tablet": the answer is the wanted kiosk's.
RightTablet ==
  \A p \in Phones : phone[p].pc = "close" => phone[p].answer.by = phone[p].wants

\* What is pending reaches the API at last, or dies with the app.
PendingDrains ==
  \A n \in 1..MaxNonces : (\E k \in Kiosks : n \in pending[k]) ~> n \in known \cup lost

\* Every BLE exchange ends, with an answer or an error: no await of
\* getBleResponse hangs for ever.
ExchangeEnds == \A p \in Phones : phone[p].pc # "idle" ~> phone[p].pc = "idle"

-----------------------------------------------------------------------------
(* The inductive invariant behind PendingOrKnown and OwnAnswer             *)

Sync == [from : Kiosks, items : SUBSET (1..MaxNonces), pc : {"sent", "answered"}]
Exchange ==
  [pc : {"idle", "scan", "connect", "write", "read", "close", "error"},
   wants : Kiosks \cup {None}, found : Kiosks \cup {None},
   challenge : (1..MaxChallenges) \cup {None}, answer : Answer \cup {None}]

TypeOK ==
  /\ up \subseteq Kiosks
  /\ nonces \in 0..MaxNonces /\ challenges \in 0..MaxChallenges
  /\ made \in [Kiosks -> SUBSET (1..MaxNonces)]
  /\ pending \in [Kiosks -> SUBSET (1..MaxNonces)]
  /\ sync \in [Syncs -> Sync \cup {None}]
  /\ ble \in [Kiosks -> {"off", "on", "failed"}]
  /\ bridge \in [Kiosks -> Seq(1..MaxNonces)]
  /\ nonce \in [Kiosks -> (1..MaxNonces) \cup {None}]
  /\ responses \in [Kiosks -> [Phones -> Answer \cup {None}]]
  /\ gone \subseteq Kiosks \X Phones
  /\ phone \in [Phones -> Exchange]

\* Whoever is past the scan has found a kiosk, and has a challenge for it.
Equipped ==
  \A p \in Phones :
    /\ phone[p].pc # "idle" => phone[p].challenge \in 1..MaxChallenges
    /\ phone[p].pc \notin {"idle", "scan"} => phone[p].found \in Kiosks

\* An answered sync's nonces are in the table.
AnsweredKnown ==
  \A s \in Syncs : sync[s] # None /\ sync[s].pc = "answered" => sync[s].items \subseteq known

\* The native module answers with nonces that its kiosk has shown, and with no
\* others on their way to it.
HandedOver ==
  \A k \in Kiosks :
    /\ \A i \in 1..Len(bridge[k]) : bridge[k][i] \in made[k]
    /\ nonce[k] # None => nonce[k] \in made[k]

\* What a phone is about to read is its own, or nothing.
Read(p) == responses[phone[p].found][p]
ReadsOwn == \A p \in Phones : phone[p].pc = "read" /\ Read(p) # None => Own(p, Read(p))

\* What the steps of KioskLink preserve together: types, what the API has
\* acknowledged, what the native module holds, and both promises.
IInv ==
  /\ TypeOK /\ Equipped /\ AnsweredKnown /\ HandedOver /\ ReadsOwn
  /\ PendingOrKnown /\ OwnAnswer
=============================================================================
