---------------------------- MODULE MCPlanGraph ----------------------------
(* Every digraph over four Tasks, and the malformed candidates.            *)
EXTENDS PlanGraph, SequencesExt

CONSTANTS t1, t2, t3, t4, foreign

MCTask == {t1, t2, t3, t4, foreign}
MCOwnTask == MCTask \ {foreign}
Up == <<t1, t2, t3, t4>>
Down == <<t4, t3, t2, t1>>
InOrder(q, S) == SelectSeq(q, LAMBDA t : t \in S)

\* Rows come back in the one order or the other.
MCListings == {InOrder(q, S) : q \in {Up, Down}, S \in SUBSET MCOwnTask}

Graphs == {f \in [MCOwnTask -> SUBSET MCOwnTask] : \A t \in MCOwnTask : t \notin f[t]}
AsCandidate(f) ==
    LET heads == InOrder(Up, {t \in MCOwnTask : f[t] # {}}) IN
    [tasks |-> Up,
     dependencies |-> [i \in DOMAIN heads |->
                          [prerequisite |-> heads[i], dependents |-> InOrder(Up, f[heads[i]])]]]

Edge(p, d) == [prerequisite |-> p, dependents |-> <<d>>]
Malformed ==
    {[tasks |-> <<t1, t1, t2>>, dependencies |-> <<>>],
     [tasks |-> <<t1, foreign>>, dependencies |-> <<>>],
     [tasks |-> <<t1, t2>>, dependencies |-> <<Edge(t1, t3)>>],
     [tasks |-> <<t1, t2>>, dependencies |-> <<Edge(t3, t1)>>],
     [tasks |-> <<t1, t2>>, dependencies |-> <<Edge(t2, t2)>>],
     [tasks |-> <<t1, t2, t3>>, dependencies |-> <<Edge(t1, t2), Edge(t1, t3)>>],
     [tasks |-> <<t1, t2>>, dependencies |-> <<Edge(t1, t2), Edge(t1, t2)>>],
     [tasks |-> <<t1, t2>>,
      dependencies |-> <<[prerequisite |-> t1, dependents |-> <<t2, t2>>]>>],
     [tasks |-> <<t1, t2>>,
      dependencies |-> <<[prerequisite |-> t1, dependents |-> <<>>]>>],
     [tasks |-> <<>>, dependencies |-> <<>>]}

MCSubmitted == {AsCandidate(f) : f \in Graphs} \cup Malformed
=============================================================================
