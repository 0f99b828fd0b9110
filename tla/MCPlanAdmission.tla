-------------------------- MODULE MCPlanAdmission --------------------------
(* Plans that collide on an identity, on an Objective and on a Task.       *)
EXTENDS PlanAdmission

CONSTANTS o1, o2, a1, t1, t2, p1, p2, p3, x, y

MCObjective == {o1, o2}
MCAssumption == {a1}
MCTask == {t1, t2}
MCPlanId == {p1, p2, p3}
MCContent == {x, y}
MCStatus == {"pending", "completed"}

None == [i \in {} |-> x]
Task1(c) == [t \in {t1} |-> c]
MCCandidate ==
    {[plan |-> p1, objective |-> o1, text |-> x, assumptions |-> [a \in {a1} |-> x],
      tasks |-> [t \in {t1, t2} |-> <<o1, x>>], dependencies |-> {<<t1, t2>>}],
     [plan |-> p1, objective |-> o1, text |-> x, assumptions |-> None,
      tasks |-> Task1(<<o1, y>>), dependencies |-> {}],
     [plan |-> p2, objective |-> o1, text |-> x, assumptions |-> None,
      tasks |-> Task1(<<o1, x>>), dependencies |-> {}],
     [plan |-> p3, objective |-> o2, text |-> y, assumptions |-> None,
      tasks |-> Task1(<<o2, x>>), dependencies |-> {}]}
=============================================================================
