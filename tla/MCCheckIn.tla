------------------------------ MODULE MCCheckIn ------------------------------
(* Instances of CheckIn for TLC: clocks of the kiosks, symmetry.             *)
EXTENDS CheckInInvariant, TLC

NoDrift == [t \in Tablets |-> 0]
SlowKiosk == [t \in Tablets |-> -1]

\* Identities that no step compares by order.  Sound for safety runs only.
Symmetry == Permutations(Nonces) \cup Permutations(Challenges)
            \cup Permutations(Requests) \cup Permutations(Users)
            \cup Permutations(Tablets) \cup Permutations(Keys) \cup Permutations(Secrets)
=============================================================================
