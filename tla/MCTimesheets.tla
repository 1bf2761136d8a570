---------------------------- MODULE MCTimesheets ----------------------------
(* Instances of Timesheets for TLC: schedules, symmetry.                   *)
EXTENDS Timesheets, TLC

OneWorkday == [d \in Days |-> 1]
WeekendAfter == [d \in Days |-> IF d = 1 THEN 1 ELSE 0]

Symmetry == Permutations(Users) \cup Permutations(Admins)
            \cup Permutations(LeaveIds)
=============================================================================
