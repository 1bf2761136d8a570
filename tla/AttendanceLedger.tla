-------------------------- MODULE AttendanceLedger --------------------------
(***************************************************************************)
(* What the attendance API promises, seen from outside: a ticket (the      *)
(* challenge) is issued to one user at one tablet, and the ledger of       *)
(* attendance records takes one entry per ticket and one per QR nonce,     *)
(* whatever ticket and nonce come together, never one for an expired       *)
(* ticket.  One step enters a record, whatever happens in between in the   *)
(* nine-step chain that module CheckIn models; CheckIn implements this.    *)
(***************************************************************************)
EXTENDS Integers

CONSTANTS Users, Tablets, Nonces, Challenges,
          Entries,      \* identities of ledger entries
          None

VARIABLES ticket,       \* challenge -> [user, tablet, expiresAt] or None
          ledger,       \* entry -> attendance record or None
          paid          \* entry -> the QR nonce it was entered with, or None

vars == <<ticket, ledger, paid>>

Init ==
  /\ ticket = [c \in Challenges |-> None]
  /\ ledger = [e \in Entries |-> None]
  /\ paid   = [e \in Entries |-> None]

\* A ticket is issued once and is never changed afterwards.
Issue(c) ==
  /\ ticket[c] = None
  /\ ticket'[c] \in [user : Users, tablet : Tablets, expiresAt : Int]
  /\ ticket'  = [ticket EXCEPT ![c] = ticket'[c]]
  /\ UNCHANGED <<ledger, paid>>

\* No entry was made for ticket c, and none with nonce n.
Fresh(c, n) ==
  \A e \in Entries : ledger[e] # None => ledger[e].challenge # c /\ paid[e] # n

\* A record is entered in one step, for the ticket's own user and tablet.
Enter(e) ==
  /\ ledger[e] = None
  /\ \E c \in Challenges, n \in Nonces :
       /\ ticket[c] # None
       /\ Fresh(c, n)
       /\ ledger'[e] \in [user : {ticket[c].user}, tablet : {ticket[c].tablet},
                          challenge : {c}, timestamp : Int, createdAt : Int,
                          isManual : {FALSE}]
       /\ ledger'[e].timestamp <= ticket[c].expiresAt
       /\ paid' = [paid EXCEPT ![e] = n]
  /\ ledger' = [ledger EXCEPT ![e] = ledger'[e]]
  /\ UNCHANGED ticket

\* An administrator corrects an entry: its time only, and it is flagged.
Amend(e) ==
  /\ ledger[e] # None
  /\ ledger'[e].timestamp \in Int
  /\ ledger' = [ledger EXCEPT ![e].timestamp = ledger'[e].timestamp, ![e].isManual = TRUE]
  /\ UNCHANGED <<ticket, paid>>

Next ==
  \/ \E c \in Challenges : Issue(c)
  \/ \E e \in Entries : Enter(e) \/ Amend(e)

Spec == Init /\ [][Next]_vars
=============================================================================
