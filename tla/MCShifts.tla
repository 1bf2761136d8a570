------------------------------- MODULE MCShifts --------------------------------
(* Instances of Shifts for TLC: days of five minutes, a day shift and a night  *)
(* shift, and a day off after the workday; of a day's ten instants three are   *)
(* used, two a whole number of minutes apart and one half a minute off.        *)
EXTENDS Shifts, TLC

MCDays == 1..2
MCInstants == {0, 5, 8}
DayShift == [start |-> 1, end |-> 4, grace |-> 1, break |-> 1, workDays |-> {1}]
NightShift == [start |-> 3, end |-> 1, grace |-> 0, break |-> 1, workDays |-> {1}]
MCDefinitions == {DayShift, NightShift}
Symmetry == Permutations(Calls)
=============================================================================
