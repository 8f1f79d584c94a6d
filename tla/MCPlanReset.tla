---------------------------- MODULE MCPlanReset ----------------------------
(***************************************************************************)
(* Two slices of one state space: reports of the port with their faults    *)
(* and overlaps on two days, and plans on three days.                      *)
(***************************************************************************)
EXTENDS PlanReset

(* A month from 31 January ends on 3 March, and one from 14 March a day    *)
(* after 13 April.                                                         *)
Dates    == {Date(0, 31), Date(2, 14), Date(3, 15)}
Month    == [months |-> 1, total |-> 0]
Quarter  == [months |-> 3, total |-> 1]
TwoPlans == {Month, Quarter}
Entered  == {Date(3, 13), Date(11, 31)}

Reports == [bytes |-> 2, faults |-> 1, changes |-> 3, days |-> 1, others |-> 0, plans |-> 0]
Resets  == [bytes |-> 0, faults |-> 1, changes |-> 0, days |-> 2, others |-> 1, plans |-> 3]
Slices  == {Reports, Resets}
=============================================================================
