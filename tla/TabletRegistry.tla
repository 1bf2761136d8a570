---------------------------- MODULE TabletRegistry -----------------------------
(***************************************************************************)
(* What the tablet registry means to do, seen from the table: one operation *)
(* at a time on the one row, each of which changes its own columns.  A      *)
(* heartbeat changes none.  A code is in the row until it is claimed, buys  *)
(* one secret, and never comes back.  Tablets implements this module as     *)
(* long as no call saves a copy of the row that another made obsolete.      *)
(***************************************************************************)

CONSTANTS Codes, Secrets, None

VARIABLES
  row,         \* the tablet's row, or None
  sold         \* the code each secret was given for, or None

vars == <<row, sold>>

Init == row = None /\ sold = [s \in Secrets |-> None]

Unsold(code) == \A s \in Secrets : sold[s] # code

\* The row comes with its first code, which nobody has claimed.
Provision(code) ==
  /\ row = None /\ Unsold(code)
  /\ row' = [secret |-> None, code |-> code, active |-> TRUE]
  /\ UNCHANGED sold

\* Another code; the secret, and what it is worth, stay.
Rotate(code) ==
  /\ row # None /\ Unsold(code)
  /\ row' = [row EXCEPT !.code = code]
  /\ UNCHANGED sold

SetActive(b) ==
  /\ row # None
  /\ row' = [row EXCEPT !.active = b]
  /\ UNCHANGED sold

\* The row's code for a secret that nobody has.
Sell(s) ==
  /\ row # None /\ row.code # None /\ sold[s] = None
  /\ row' = [row EXCEPT !.secret = s, !.code = None]
  /\ sold' = [sold EXCEPT ![s] = row.code]

Next ==
  \/ \E code \in Codes : Provision(code) \/ Rotate(code)
  \/ \E b \in BOOLEAN : SetActive(b)
  \/ \E s \in Secrets : Sell(s)

Spec == Init /\ [][Next]_vars
=============================================================================
