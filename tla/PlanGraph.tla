----------------------------- MODULE PlanGraph -----------------------------
(***************************************************************************)
(* A Plan's Task DAG: the validators that construct the immutable Plan     *)
(* from what a model or a row set names, the removal of ready Tasks that   *)
(* decides acyclicity, the Tasks the Plan calls eligible, and the way a    *)
(* Plan is flattened into plan_tasks and plan_dependencies rows and built  *)
(* again from them.                                                        *)
(*                                                                         *)
(* A tuple that the code sorts and holds without duplicates is a set; the  *)
(* tuples it is given, which may repeat an id, stay sequences.  The list   *)
(* of ready Tasks is a set, popped in any order: it is filled from a dict  *)
(* and from sets, whose order nothing relies on.                           *)
(***************************************************************************)
EXTENDS Naturals, Sequences, FiniteSets, Functions

CONSTANTS
    Task,        \* task_id values
    OwnTask,     \* those whose objective_id is the Plan's Objective
    Submitted,   \* what callers construct a Plan from
    Listings     \* the orders in which a query may return rows

Group == [prerequisite : Task, dependents : Seq(Task)]
Candidate == [tasks : Seq(Task), dependencies : Seq(Group)]

ASSUME GraphAssumption ==
    /\ IsFiniteSet(Task)
    /\ OwnTask \subseteq Task
    /\ Submitted \subseteq Candidate
    /\ Listings \subseteq Seq(Task)

VARIABLES
    candidate,   \* the arguments of the construction under way
    phase,       \* where that construction stands
    inDegree,    \* in_degree of _validate_dependency_graph
    ready,       \* its list of Tasks with no prerequisite left
    visited,     \* its counter
    done,        \* history: the Tasks popped from ready
    stored       \* the rows of the Plan once PlanRepository.add wrote them

vars == <<candidate, phase, inDegree, ready, visited, done, stored>>

Members == Range(candidate.tasks)
Edges(c) == {e \in Task \X Task :
                 \E g \in Range(c.dependencies) :
                     g.prerequisite = e[1] /\ e[2] \in Range(g.dependents)}
Dependents(t) == {d \in Task : <<t, d>> \in Edges(candidate)}
Prerequisites(t) == {p \in Task : <<p, t>> \in Edges(candidate)}

NoRows == [plan |-> FALSE, tasks |-> {}, dependencies |-> {}, fingerprint |-> {}]

Init ==
    /\ candidate \in Submitted
    /\ phase = "submitted"
    /\ inDegree = [t \in {} |-> 0]
    /\ ready = {} /\ visited = 0 /\ done = {}
    /\ stored = NoRows

-----------------------------------------------------------------------------
(* The validators.                                                         *)

\* What the tuples may not repeat: Tasks, prerequisites, dependents of one.
NoDuplicates(c) ==
    /\ IsInjective(c.tasks)
    /\ \A i, j \in DOMAIN c.dependencies :
           c.dependencies[i].prerequisite = c.dependencies[j].prerequisite => i = j
    /\ \A g \in Range(c.dependencies) : IsInjective(g.dependents)

EndpointsAreMembers(c) ==
    \A g \in Range(c.dependencies) :
        /\ g.prerequisite \in Range(c.tasks)
        /\ Range(g.dependents) \subseteq Range(c.tasks)

WellFormed(c) ==
    /\ NoDuplicates(c)
    /\ \A g \in Range(c.dependencies) :
           g.dependents # <<>> /\ g.prerequisite \notin Range(g.dependents)
    /\ Range(c.tasks) \subseteq OwnTask
    /\ EndpointsAreMembers(c)

Reject ==
    /\ phase = "submitted" /\ ~WellFormed(candidate)
    /\ phase' = "rejected"
    /\ UNCHANGED <<candidate, inDegree, ready, visited, done, stored>>

\* in_degree counts every occurrence of a dependent, as the nested loop does.
Occurrences(t) ==
    UNION {{<<i, j>> : j \in {k \in DOMAIN candidate.dependencies[i].dependents :
                                  candidate.dependencies[i].dependents[k] = t}} :
           i \in DOMAIN candidate.dependencies}

CountEdges ==
    /\ phase = "submitted" /\ WellFormed(candidate)
    /\ phase' = "visiting"
    /\ inDegree' = [t \in Members |-> Cardinality(Occurrences(t))]
    /\ ready' = {t \in Members : inDegree'[t] = 0}
    /\ visited' = 0 /\ done' = {}
    /\ UNCHANGED <<candidate, stored>>

\* Seeded fault: a dependent is ready once all but one prerequisite is visited.
EarlyRelease(t) ==
    {d \in Dependents(t) : inDegree[d] \in {1, 2}}
\* Seeded fault: a Task whose in-degree falls to zero is never queued.
NoRelease(t) == {}

\* The dependents that t was the last prerequisite of.
Released(t) == {d \in Dependents(t) : inDegree[d] = 1}

Visit(t) ==
    /\ phase = "visiting" /\ t \in ready
    /\ ready' = (ready \ {t}) \cup Released(t)
    /\ visited' = visited + 1 /\ done' = done \cup {t}
    /\ inDegree' = [d \in Members |->
                       IF d \in Dependents(t) THEN inDegree[d] - 1 ELSE inDegree[d]]
    /\ UNCHANGED <<candidate, phase, stored>>

\* Seeded fault: a Plan is accepted as soon as no Task is ready.
AnyCount == TRUE
AllVisited == visited = Cardinality(Members)

\* Seeded fault: the loop runs until every Task was visited.
ConcludeWhenAllVisited ==
    /\ phase = "visiting" /\ ready = {} /\ AllVisited
    /\ phase' = "constructed"
    /\ UNCHANGED <<candidate, inDegree, ready, visited, done, stored>>

Conclude ==
    /\ phase = "visiting" /\ ready = {}
    /\ phase' = IF AllVisited THEN "constructed" ELSE "rejected"
    /\ UNCHANGED <<candidate, inDegree, ready, visited, done, stored>>

-----------------------------------------------------------------------------
(* Rows and reconstruction.                                                *)

\* The sorted content, which the fingerprint is the digest of.
Canonical(c) ==
    [tasks |-> Range(c.tasks),
     dependencies |-> {[prerequisite |-> g.prerequisite,
                        dependents |-> Range(g.dependents)] : g \in Range(c.dependencies)}]

Add ==
    /\ phase = "constructed" /\ ~stored.plan
    /\ phase' = "stored"
    /\ stored' = [plan |-> TRUE, tasks |-> Members, dependencies |-> Edges(candidate),
                  fingerprint |-> Canonical(candidate)]
    /\ UNCHANGED <<candidate, inDegree, ready, visited, done>>

Listed(S) == {q \in Listings : IsInjective(q) /\ Range(q) = S}
Heads(edges) == {e[1] : e \in edges}
\* Seeded fault: every row becomes a group of its own.
UngroupedRows(edges) ==
    {[i \in 1..Cardinality(edges) |-> [prerequisite |-> o[i][1], dependents |-> <<o[i][2]>>]] :
        o \in Injection(1..Cardinality(edges), edges)}

\* defaultdict(list): one group for each prerequisite, its dependents in row order.
Grouped(edges) ==
    LET Tails(p) == Listed({e[2] : e \in {x \in edges : x[1] = p}})
        tails == {f \in [Heads(edges) -> UNION {Tails(p) : p \in Heads(edges)}] :
                      \A p \in Heads(edges) : f[p] \in Tails(p)} IN
    {[i \in DOMAIN heads |-> [prerequisite |-> heads[i], dependents |-> f[heads[i]]]] :
        heads \in Listed(Heads(edges)), f \in tails}

\* get_by_id hands the rows to the constructor, in whatever order they came.
Load ==
    /\ phase \in {"stored", "returned"}
    /\ \E ts \in Listed(stored.tasks), ds \in Grouped(stored.dependencies) :
           candidate' = [tasks |-> ts, dependencies |-> ds]
    /\ phase' = "submitted"
    /\ UNCHANGED <<inDegree, ready, visited, done, stored>>

CompareFingerprint ==
    /\ phase = "constructed" /\ stored.plan
    /\ phase' = IF Canonical(candidate) = stored.fingerprint
                THEN "returned" ELSE "mismatch"
    /\ UNCHANGED <<candidate, inDegree, ready, visited, done, stored>>

Next ==
    \/ Reject \/ CountEdges \/ (\E t \in Task : Visit(t)) \/ Conclude
    \/ Add \/ Load \/ CompareFingerprint

\* One thread runs a construction from its first validator to its last.
Construction == Reject \/ CountEdges \/ (\E t \in Task : Visit(t)) \/ Conclude

Spec == Init /\ [][Next]_vars
FairSpec == Spec /\ WF_vars(Construction)

-----------------------------------------------------------------------------
(* Properties.                                                             *)

TypeOK ==
    /\ candidate \in Candidate
    /\ phase \in {"submitted", "visiting", "constructed", "rejected", "stored",
                  "returned", "mismatch"}
    /\ ready \subseteq Task /\ done \subseteq Task /\ visited \in Nat
    /\ DOMAIN inDegree \subseteq Task
    /\ \A t \in DOMAIN inDegree : inDegree[t] \in Nat
    /\ stored.plan \in BOOLEAN

IsPlan == phase \in {"constructed", "stored", "returned"}

\* No Task of S can run before another Task of S has.
Deadlocked(S, edges) ==
    S # {} /\ \A t \in S : \E p \in S : <<p, t>> \in edges
HasCycle(S, edges) == \E C \in SUBSET S : Deadlocked(C, edges)

\* A Plan the validators let through has no cycle among its Tasks, in
\* whatever order ready Tasks were popped (plan.py, _validate_dependency_graph).
PlanIsAcyclic == IsPlan => ~HasCycle(Members, Edges(candidate))

\* The count condemns no Plan that is a DAG: a well-formed candidate is
\* rejected only for a cycle.
OnlyCyclesAreRejected ==
    phase = "rejected" /\ WellFormed(candidate) => HasCycle(Members, Edges(candidate))

\* A Task leaves the list after all its prerequisites have, so the order of
\* the visits is one the Plan could be executed in.
VisitsFollowEdges ==
    phase = "visiting" \/ IsPlan => \A t \in done : Prerequisites(t) \subseteq done

\* eligible_task_ids.
Eligible(completed) ==
    {t \in Members : t \notin completed /\ Prerequisites(t) \subseteq completed}

\* Whatever part of a Plan is complete, some Task of the rest is eligible:
\* following eligible_task_ids never stalls before the Plan is done.
SomeTaskIsEligible ==
    IsPlan => \A completed \in SUBSET Members :
                  completed # Members => Eligible(completed) # {}

\* A Plan that was stored is constructed again from its rows, in any order
\* they are returned, and has the fingerprint it was stored with.
StoredPlanReloads == stored.plan => phase \notin {"rejected", "mismatch"}

\* The removal of ready Tasks ends: every construction returns a Plan or raises.
ConstructionEnds == phase = "submitted" ~> (phase = "rejected" \/ IsPlan)

=============================================================================
