------------------------ MODULE MCPlannerLifecycle -------------------------
(* Values of the constants of PlannerLifecycle for TLC.                    *)
EXTENDS PlannerLifecycle, TLC

CONSTANTS s1, s2, first, second, rival, i1, i2, o1, edited, j1

\* first and second are Plans for the same Objective; rival reuses the id of first
\* for an Objective with the same id and other content.
MCIdOf == [x \in Plan |-> IF x = second THEN i2 ELSE i1]
MCObjectiveOf == [x \in Plan |-> IF x = rival THEN edited ELSE o1]
MCObjectiveIdOf == [o \in Objective |-> j1]

MCSymmetry == Permutations(Planner)
=============================================================================
