------------------------------ MODULE MCTablets -------------------------------
(* Instances of Tablets for TLC: symmetry, for safety runs only.             *)
EXTENDS Tablets, TLC

Symmetry == Permutations(Kiosks) \cup Permutations(Calls)
            \cup Permutations(Codes) \cup Permutations(Secrets)
=============================================================================
