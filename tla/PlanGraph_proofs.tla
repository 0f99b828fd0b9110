-------------------------- MODULE PlanGraph_proofs --------------------------
(***************************************************************************)
(* Proofs about PlanGraph, for any finite set of Tasks and any candidate.  *)
(*                                                                         *)
(* The argument: while Tasks are popped, inDegree counts the prerequisites *)
(* not yet visited, ready and done together hold the Tasks whose count is  *)
(* zero, and a set of Tasks that wait for each other is never entered.     *)
(***************************************************************************)
EXTENDS PlanGraph, FiniteSetTheorems, TLAPS

Pending(t) == {p \in Prerequisites(t) : p \notin done}

\* What holds of the counters from CountEdges on.
Counted ==
    /\ inDegree \in [Members -> Nat]
    /\ \A t \in Members : inDegree[t] = Cardinality(Pending(t))
    /\ ready \subseteq Members /\ done \subseteq Members
    /\ ready \cap done = {}
    /\ ready \cup done = {t \in Members : inDegree[t] = 0}
    /\ visited = Cardinality(done)

\* Nothing is visited before what it waits for.
Ordered ==
    /\ \A t \in done : Prerequisites(t) \subseteq done
    /\ \A S \in SUBSET Members : Deadlocked(S, Edges(candidate)) => S \cap done = {}

\* The rows are those of the candidate, which is a DAG.
RowsAgree ==
    /\ WellFormed(candidate)
    /\ stored.tasks = Members /\ stored.dependencies = Edges(candidate)
    /\ stored.fingerprint = Canonical(candidate)
    /\ ~HasCycle(Members, Edges(candidate))
    /\ phase \notin {"rejected", "mismatch"}

IInv ==
    /\ TypeOK
    /\ phase \notin {"submitted", "rejected"} => WellFormed(candidate) /\ Counted /\ Ordered
    /\ IsPlan => done = Members
    /\ OnlyCyclesAreRejected
    /\ phase \in {"stored", "returned"} => stored.plan
    /\ stored.plan => RowsAgree

-----------------------------------------------------------------------------
(* The graph a well-formed candidate describes.                            *)

\* A candidate's Tasks are Tasks, and finitely many.
LEMMA MembersFinite ==
    ASSUME candidate \in Candidate
    PROVE  Members \subseteq Task /\ IsFiniteSet(Members)
<1>1. Members \subseteq Task
    BY DEF Members, Range, Candidate
<1> QED BY <1>1, GraphAssumption, FS_Subset

\* Prerequisites are found among the Plan's own Tasks.
LEMMA PrerequisitesAreMembers ==
    ASSUME candidate \in Candidate, WellFormed(candidate), NEW t \in Task
    PROVE  /\ Prerequisites(t) \subseteq Members
           /\ Dependents(t) \subseteq Members
           /\ IsFiniteSet(Prerequisites(t))
           /\ t \notin Prerequisites(t)
<1>1. Prerequisites(t) \subseteq Members /\ Dependents(t) \subseteq Members
    BY DEF WellFormed, EndpointsAreMembers, Prerequisites, Dependents, Edges, Members
<1>2. IsFiniteSet(Prerequisites(t))
    BY <1>1, MembersFinite, FS_Subset
<1>3. t \notin Prerequisites(t)
    BY DEF WellFormed, Prerequisites, Edges
<1> QED BY <1>1, <1>2, <1>3

\* Because no id is repeated, the nested loop counts each prerequisite once.
LEMMA OccurrencesCount ==
    ASSUME candidate \in Candidate, WellFormed(candidate), NEW t \in Members
    PROVE  Cardinality(Occurrences(t)) = Cardinality(Prerequisites(t))
<1> DEFINE deps == candidate.dependencies
           at(p) == CHOOSE o \in Occurrences(t) : deps[o[1]].prerequisite = p
           F == [p \in Prerequisites(t) |-> at(p)]
<1>1. t \in Task
    BY MembersFinite
<1>2. /\ deps \in Seq(Group)
      /\ \A i \in DOMAIN deps : deps[i] \in Range(deps) /\ deps[i] \in Group
    BY DEF Candidate, Range
<1>3. \A o : o \in Occurrences(t) <=>
          \E i \in DOMAIN deps : \E j \in DOMAIN deps[i].dependents :
              deps[i].dependents[j] = t /\ o = <<i, j>>
    BY DEF Occurrences
<1>4. ASSUME NEW p \in Prerequisites(t)
      PROVE  \E o \in Occurrences(t) : deps[o[1]].prerequisite = p
  <2>1. PICK i \in DOMAIN deps : deps[i].prerequisite = p /\ t \in Range(deps[i].dependents)
      BY <1>2 DEF Prerequisites, Edges, Range
  <2>2. PICK j \in DOMAIN deps[i].dependents : deps[i].dependents[j] = t
      BY <2>1 DEF Range
  <2>3. <<i, j>> \in Occurrences(t) /\ deps[<<i, j>>[1]].prerequisite = p
      BY <2>1, <2>2, <1>3
  <2> QED BY <2>3
<1>5. \A p \in Prerequisites(t) :
          F[p] \in Occurrences(t) /\ deps[F[p][1]].prerequisite = p
    BY <1>4
<1>6. F \in [Prerequisites(t) -> Occurrences(t)]
    BY <1>5
<1>7. \A p, q \in Prerequisites(t) : F[p] = F[q] => p = q
    BY <1>5
<1>8. ASSUME NEW o \in Occurrences(t)
      PROVE  \E p \in Prerequisites(t) : F[p] = o
  <2>1. PICK i \in DOMAIN deps : \E j \in DOMAIN deps[i].dependents :
            deps[i].dependents[j] = t /\ o = <<i, j>>
      BY <1>3
  <2>2. PICK j \in DOMAIN deps[i].dependents : deps[i].dependents[j] = t /\ o = <<i, j>>
      BY <2>1
  <2>3. deps[i] \in Group /\ deps[i] \in Range(deps) /\ t \in Range(deps[i].dependents)
      BY <1>2, <2>2 DEF Range
  <2> DEFINE p == deps[i].prerequisite
  <2>4. p \in Prerequisites(t)
      BY <2>3, <1>1 DEF Prerequisites, Edges, Group
  <2>10. F[p] \in Occurrences(t) /\ deps[F[p][1]].prerequisite = p
      BY <1>5, <2>4
  <2> HIDE DEF F
  <2>5. PICK k \in DOMAIN deps : \E l \in DOMAIN deps[k].dependents :
            deps[k].dependents[l] = t /\ F[p] = <<k, l>>
      BY <1>3, <2>10
  <2>6. PICK l \in DOMAIN deps[k].dependents : deps[k].dependents[l] = t /\ F[p] = <<k, l>>
      BY <2>5
  <2>7. deps[k].prerequisite = p
      BY <2>10, <2>6
  <2>8. k = i
      BY <2>7 DEF WellFormed, NoDuplicates
  <2>9. l = j
      BY <2>8, <2>2, <2>6, <2>3 DEF WellFormed, NoDuplicates, IsInjective
  <2> QED BY <2>2, <2>4, <2>6, <2>8, <2>9
<1>9. ExistsBijection(Prerequisites(t), Occurrences(t))
  <2>1. F \in Bijection(Prerequisites(t), Occurrences(t))
      BY <1>6, <1>7, <1>8 DEF Bijection, Injection, Surjection, IsInjective
  <2> QED BY <2>1 DEF ExistsBijection
<1>10. IsFiniteSet(Prerequisites(t))
    BY <1>1, PrerequisitesAreMembers
<1> QED BY <1>9, <1>10, FS_Bijection

-----------------------------------------------------------------------------
(* Preservation.                                                           *)

\* The construction starts with nothing visited and no rows.
LEMMA InitInv == Init => IInv
<1> SUFFICES ASSUME Init PROVE IInv
    OBVIOUS
<1>1. TypeOK
    BY GraphAssumption DEF Init, TypeOK, NoRows
<1> QED BY <1>1 DEF Init, IInv, IsPlan, OnlyCyclesAreRejected, NoRows

\* Members, Edges and what is derived from them depend on the candidate alone.
LEMMA SameCandidate ==
    ASSUME candidate' = candidate
    PROVE  /\ Members' = Members /\ Edges(candidate)' = Edges(candidate)
           /\ \A t : Prerequisites(t)' = Prerequisites(t)
           /\ WellFormed(candidate)' = WellFormed(candidate)
           /\ Canonical(candidate)' = Canonical(candidate)
BY DEF Members, Prerequisites

\* CountEdges establishes the counters.
LEMMA CountEdgesInv == IInv /\ CountEdges => IInv'
<1> SUFFICES ASSUME IInv, CountEdges PROVE IInv'
    OBVIOUS
<1> USE SameCandidate
<1>1. candidate \in Candidate /\ candidate' = candidate /\ WellFormed(candidate)
      /\ stored' = stored /\ phase' = "visiting"
    BY DEF IInv, TypeOK, CountEdges
<1>2. IsFiniteSet(Members) /\ Members \subseteq Task
    BY <1>1, MembersFinite
<1>3. \A t \in Members : /\ IsFiniteSet(Prerequisites(t))
                        /\ inDegree'[t] = Cardinality(Prerequisites(t))
    BY <1>1, <1>2, OccurrencesCount, PrerequisitesAreMembers DEF CountEdges
<1>4. DOMAIN inDegree' = Members /\ inDegree' = [t \in Members |-> inDegree'[t]]
    BY DEF CountEdges
<1>5. inDegree' \in [Members -> Nat]
    BY <1>3, <1>4, FS_CardinalityType
<1>6. done' = {} /\ visited' = 0 /\ ready' = {t \in Members : inDegree'[t] = 0}
    BY DEF CountEdges
<1>7. \A t \in Members : Pending(t)' = Prerequisites(t)
    BY <1>1, <1>6 DEF Pending
<1>8. Counted'
    BY <1>1, <1>3, <1>5, <1>6, <1>7, FS_EmptySet DEF Counted
<1>9. Ordered'
    BY <1>6 DEF Ordered
<1>10. TypeOK'
    BY <1>1, <1>2, <1>5, <1>6 DEF TypeOK, IInv
<1>11. stored'.plan => RowsAgree'
    BY <1>1 DEF IInv, RowsAgree
<1> QED BY <1>1, <1>8, <1>9, <1>10, <1>11 DEF IInv, IsPlan, OnlyCyclesAreRejected

\* A visit moves one prerequisite out of the counts of its dependents.
LEMMA VisitInv == ASSUME NEW t \in Task PROVE IInv /\ Visit(t) => IInv'
<1> SUFFICES ASSUME IInv, Visit(t) PROVE IInv'
    OBVIOUS
<1> USE SameCandidate
<1>1. /\ candidate \in Candidate /\ candidate' = candidate /\ WellFormed(candidate)
      /\ phase = "visiting" /\ phase' = "visiting" /\ stored' = stored
      /\ t \in ready /\ done' = done \cup {t} /\ visited' = visited + 1
      /\ Counted /\ Ordered
    BY DEF IInv, TypeOK, Visit
<1>2. IsFiniteSet(Members) /\ Members \subseteq Task
    BY <1>1, MembersFinite
<1>3. t \in Members /\ t \notin done /\ inDegree[t] = 0
    BY <1>1 DEF Counted
<1>4. Prerequisites(t) \subseteq done
  <2>1. IsFiniteSet(Pending(t))
      BY <1>1, <1>2, PrerequisitesAreMembers, FS_Subset DEF Pending
  <2>2. Pending(t) = {}
      BY <1>1, <1>3, <2>1, FS_EmptySet DEF Counted
  <2> QED BY <2>2 DEF Pending
<1>5. ASSUME NEW d \in Members
      PROVE  /\ d \in Dependents(t) => /\ Pending(d)' = Pending(d) \ {t} /\ t \in Pending(d)
                                      /\ inDegree[d] # 0
             /\ d \notin Dependents(t) => Pending(d)' = Pending(d)
             /\ IsFiniteSet(Pending(d))
  <2>1. d \in Dependents(t) <=> t \in Prerequisites(d)
      BY <1>2, <1>3 DEF Dependents, Prerequisites
  <2>2. IsFiniteSet(Pending(d))
      BY <1>1, <1>2, PrerequisitesAreMembers, FS_Subset DEF Pending
  <2>3. d \in Dependents(t) => t \in Pending(d)
      BY <2>1, <1>3 DEF Pending
  <2>4. d \in Dependents(t) => inDegree[d] # 0
      BY <2>2, <2>3, <1>1, FS_EmptySet DEF Counted
  <2>5. Pending(d)' = IF d \in Dependents(t) THEN Pending(d) \ {t} ELSE Pending(d)
      BY <1>1, <2>1 DEF Pending
  <2> QED BY <2>2, <2>3, <2>4, <2>5
<1>6. inDegree' = [d \in Members |->
                     IF d \in Dependents(t) THEN inDegree[d] - 1 ELSE inDegree[d]]
    BY DEF Visit
<1>7. inDegree' \in [Members -> Nat]
    BY <1>1, <1>5, <1>6 DEF Counted
<1>8. \A d \in Members : inDegree'[d] = Cardinality(Pending(d)')
    BY <1>1, <1>5, <1>6, FS_RemoveElement DEF Counted
<1>9. ready' = (ready \ {t}) \cup {d \in Dependents(t) : inDegree[d] = 1}
    BY DEF Visit, Released
<1>10. Dependents(t) \subseteq Members /\ t \notin Dependents(t)
    BY <1>1, <1>2, <1>3, PrerequisitesAreMembers DEF Dependents, Prerequisites
<1>11. {d \in Members : inDegree'[d] = 0} =
          {d \in Members : inDegree[d] = 0} \cup {d \in Dependents(t) : inDegree[d] = 1}
  <2>1. ASSUME NEW d \in Members
        PROVE  inDegree'[d] = 0 <=> inDegree[d] = 0 \/ (d \in Dependents(t) /\ inDegree[d] = 1)
      BY <1>1, <1>5, <1>6 DEF Counted
  <2> QED BY <2>1, <1>10
<1>12. ready' \subseteq Members /\ done' \subseteq Members
    BY <1>1, <1>3, <1>9, <1>10 DEF Counted
<1>13. ready' \cap done' = {}
  <2>1. \A d \in Dependents(t) : inDegree[d] = 1 => d \notin done
      BY <1>1, <1>10 DEF Counted
  <2> QED BY <2>1, <1>1, <1>9, <1>10 DEF Counted
<1>14. ready' \cup done' = {d \in Members : inDegree'[d] = 0}
    BY <1>1, <1>9, <1>11 DEF Counted
<1>15. visited' = Cardinality(done')
  <2>1. IsFiniteSet(done)
      BY <1>1, <1>2, FS_Subset DEF Counted
  <2> QED BY <2>1, <1>1, <1>3, FS_AddElement DEF Counted
<1>16. Counted'
    BY <1>1, <1>7, <1>8, <1>12, <1>13, <1>14, <1>15 DEF Counted
<1>17. Ordered'
  <2>1. \A d \in done' : Prerequisites(d) \subseteq done'
      BY <1>1, <1>4 DEF Ordered
  <2>2. ASSUME NEW S \in SUBSET Members, Deadlocked(S, Edges(candidate))
        PROVE  S \cap done' = {}
    <3>1. S \cap done = {}
        BY <1>1, <2>2 DEF Ordered
    <3>2. t \in S => \E p \in S : p \in Prerequisites(t)
        BY <2>2, <1>2 DEF Deadlocked, Prerequisites
    <3> QED BY <3>1, <3>2, <1>1, <1>4
  <2>3. \A d \in done' : Prerequisites(d)' \subseteq done'
      BY <1>1, <2>1
  <2>4. \A S \in SUBSET Members' : Deadlocked(S, Edges(candidate)') => S \cap done' = {}
      BY <1>1, <2>2
  <2> QED BY <2>3, <2>4 DEF Ordered, Deadlocked
<1>18. TypeOK'
    BY <1>1, <1>2, <1>7, <1>12, <1>15 DEF TypeOK, IInv
<1>19. stored'.plan => RowsAgree'
    BY <1>1 DEF IInv, RowsAgree
<1> QED BY <1>1, <1>16, <1>17, <1>18, <1>19 DEF IInv, IsPlan, OnlyCyclesAreRejected

\* When no Task is ready, the visited ones are all of them or those left
\* wait for each other.
LEMMA ConcludeInv == IInv /\ Conclude => IInv'
<1> SUFFICES ASSUME IInv, Conclude PROVE IInv'
    OBVIOUS
<1> USE SameCandidate
<1>1. /\ candidate \in Candidate /\ WellFormed(candidate) /\ phase = "visiting"
      /\ ready = {} /\ Counted /\ Ordered
      /\ candidate' = candidate /\ inDegree' = inDegree /\ ready' = ready
      /\ visited' = visited /\ done' = done /\ stored' = stored
      /\ phase' = IF AllVisited THEN "constructed" ELSE "rejected"
    BY DEF IInv, TypeOK, Conclude
<1>2. IsFiniteSet(Members) /\ Members \subseteq Task
    BY <1>1, MembersFinite
<1>3. /\ done \subseteq Members /\ visited = Cardinality(done)
      /\ done = {t \in Members : inDegree[t] = 0}
    BY <1>1 DEF Counted
<1>4. AllVisited <=> done = Members
    BY <1>2, <1>3, FS_Subset DEF AllVisited
<1>5. ASSUME done # Members
      PROVE  Deadlocked(Members \ done, Edges(candidate))
  <2>1. ASSUME NEW t \in Members \ done
        PROVE  \E p \in Members \ done : <<p, t>> \in Edges(candidate)
    <3>1. inDegree[t] # 0
        BY <1>3
    <3>2. Pending(t) # {}
        BY <1>1, <3>1, FS_EmptySet DEF Counted
    <3>3. PICK p \in Prerequisites(t) : p \notin done
        BY <3>2 DEF Pending
    <3>4. p \in Members
        BY <1>1, <1>2, PrerequisitesAreMembers
    <3> QED BY <3>3, <3>4 DEF Prerequisites
  <2> QED BY <2>1, <1>3, <1>5 DEF Deadlocked
<1>6. done # Members => HasCycle(Members, Edges(candidate))
  <2>1. Members \ done \in SUBSET Members
      OBVIOUS
  <2> QED BY <2>1, <1>5 DEF HasCycle
<1>7. done = Members => ~HasCycle(Members, Edges(candidate))
    BY <1>1 DEF Ordered, HasCycle, Deadlocked
<1>8. TypeOK'
    BY <1>1 DEF TypeOK, IInv
<1>9. Counted'
    BY <1>1 DEF Counted, Pending
<1>10. Ordered'
  <2>1. \A t \in done' : Prerequisites(t)' \subseteq done'
      BY <1>1 DEF Ordered
  <2>2. \A S \in SUBSET Members' : Deadlocked(S, Edges(candidate)') => S \cap done' = {}
      BY <1>1 DEF Ordered
  <2> QED BY <2>1, <2>2 DEF Ordered, Deadlocked
<1>11. OnlyCyclesAreRejected'
  <2>1. phase' = "rejected" => HasCycle(Members, Edges(candidate))
      BY <1>1, <1>4, <1>6
  <2> QED BY <2>1, <1>1 DEF OnlyCyclesAreRejected, HasCycle, Deadlocked
<1>12. stored'.plan => RowsAgree'
  <2> SUFFICES ASSUME stored.plan PROVE RowsAgree'
      BY <1>1
  <2>1. RowsAgree /\ ~HasCycle(Members, Edges(candidate))
      BY DEF IInv, RowsAgree
  <2>2. phase' = "constructed"
      BY <2>1, <1>1, <1>4, <1>6
  <2> QED BY <2>1, <2>2, <1>1 DEF RowsAgree, HasCycle, Deadlocked
<1> QED BY <1>1, <1>4, <1>8, <1>9, <1>10, <1>11, <1>12 DEF IInv, IsPlan

\* The validators before the graph reject only what is malformed, which the
\* rows of a Plan are not.
LEMMA RejectInv == IInv /\ Reject => IInv'
<1> SUFFICES ASSUME IInv, Reject PROVE IInv'
    OBVIOUS
<1> USE SameCandidate
<1>1. /\ ~WellFormed(candidate) /\ phase' = "rejected" /\ candidate' = candidate
      /\ inDegree' = inDegree /\ ready' = ready /\ visited' = visited
      /\ done' = done /\ stored' = stored
    BY DEF Reject
<1>2. ~stored.plan
    BY <1>1 DEF IInv, RowsAgree
<1>3. TypeOK'
    BY <1>1 DEF IInv, TypeOK
<1> QED BY <1>1, <1>2, <1>3 DEF IInv, IsPlan, OnlyCyclesAreRejected

\* What leaves the candidate and its counters alone keeps what was counted.
LEMMA CountersKept ==
    ASSUME candidate' = candidate, inDegree' = inDegree, ready' = ready,
           visited' = visited, done' = done, Counted, Ordered
    PROVE  Counted' /\ Ordered'
<1> USE SameCandidate
<1>1. Counted'
    BY DEF Counted, Pending
<1>2. \A t \in done' : Prerequisites(t)' \subseteq done'
    BY DEF Ordered
<1>3. \A S \in SUBSET Members' : Deadlocked(S, Edges(candidate)') => S \cap done' = {}
    BY DEF Ordered
<1> QED BY <1>1, <1>2, <1>3 DEF Ordered, Deadlocked

\* An accepted Plan has no cycle.
LEMMA AcceptedIsAcyclic == IInv => PlanIsAcyclic
BY DEF IInv, PlanIsAcyclic, IsPlan, Ordered, HasCycle, Deadlocked

\* The rows are written from a Plan that is a DAG.
LEMMA AddInv == IInv /\ Add => IInv'
<1> SUFFICES ASSUME IInv, Add PROVE IInv'
    OBVIOUS
<1> USE SameCandidate
<1>1. /\ phase = "constructed" /\ phase' = "stored" /\ candidate' = candidate
      /\ inDegree' = inDegree /\ ready' = ready /\ visited' = visited /\ done' = done
      /\ stored' = [plan |-> TRUE, tasks |-> Members, dependencies |-> Edges(candidate),
                    fingerprint |-> Canonical(candidate)]
    BY DEF Add
<1>2. WellFormed(candidate) /\ Counted /\ Ordered /\ done = Members
    BY <1>1 DEF IInv, IsPlan
<1>3. Counted' /\ Ordered'
    BY <1>1, <1>2, CountersKept
<1>4. TypeOK'
    BY <1>1 DEF IInv, TypeOK
<1>5. ~HasCycle(Members, Edges(candidate))
    BY <1>1, AcceptedIsAcyclic DEF PlanIsAcyclic, IsPlan
<1>6. RowsAgree'
    BY <1>1, <1>2, <1>5 DEF RowsAgree, HasCycle, Deadlocked
<1> QED BY <1>1, <1>2, <1>3, <1>4, <1>6 DEF IInv, IsPlan, OnlyCyclesAreRejected

\* The fingerprint of the Plan rebuilt from the rows is the stored one.
LEMMA CompareFingerprintInv == IInv /\ CompareFingerprint => IInv'
<1> SUFFICES ASSUME IInv, CompareFingerprint PROVE IInv'
    OBVIOUS
<1> USE SameCandidate
<1>1. /\ phase = "constructed" /\ stored.plan /\ candidate' = candidate
      /\ inDegree' = inDegree /\ ready' = ready /\ visited' = visited
      /\ done' = done /\ stored' = stored
      /\ phase' = IF Canonical(candidate) = stored.fingerprint
                  THEN "returned" ELSE "mismatch"
    BY DEF CompareFingerprint
<1>2. RowsAgree /\ WellFormed(candidate) /\ Counted /\ Ordered /\ done = Members
    BY <1>1 DEF IInv, IsPlan
<1>3. phase' = "returned"
    BY <1>1, <1>2 DEF RowsAgree
<1>4. Counted' /\ Ordered'
    BY <1>1, <1>2, CountersKept
<1>5. TypeOK'
    BY <1>1, <1>3 DEF IInv, TypeOK
<1>6. RowsAgree'
    BY <1>1, <1>2, <1>3 DEF RowsAgree, HasCycle, Deadlocked
<1> QED BY <1>1, <1>2, <1>3, <1>4, <1>5, <1>6 DEF IInv, IsPlan, OnlyCyclesAreRejected

\* The canonical content of a well-formed candidate is its Tasks and, for each
\* Task with dependents, the set of those.
LEMMA CanonicalOfEdges ==
    ASSUME NEW c \in Candidate, WellFormed(c)
    PROVE  Canonical(c) =
             [tasks |-> Range(c.tasks),
              dependencies |-> {[prerequisite |-> p,
                                 dependents |-> {d \in Task : <<p, d>> \in Edges(c)}] :
                                p \in {q \in Task : \E d \in Task : <<q, d>> \in Edges(c)}}]
<1> DEFINE T(p) == {d \in Task : <<p, d>> \in Edges(c)}
           H == {q \in Task : \E d \in Task : <<q, d>> \in Edges(c)}
           L == {[prerequisite |-> g.prerequisite, dependents |-> Range(g.dependents)] :
                    g \in Range(c.dependencies)}
           R == {[prerequisite |-> p, dependents |-> T(p)] : p \in H}
<1>1. ASSUME NEW g \in Range(c.dependencies)
      PROVE  /\ g.prerequisite \in Task /\ Range(g.dependents) \subseteq Task
             /\ g.dependents # <<>> /\ g.dependents \in Seq(Task)
  <2>1. c.dependencies \in Seq(Group)
      BY DEF Candidate
  <2>2. g \in Group
      BY <2>1 DEF Range
  <2>3. g.dependents \in Seq(Task) /\ g.prerequisite \in Task
      BY <2>2 DEF Group
  <2>4. Range(g.dependents) \subseteq Task
      BY <2>3 DEF Range
  <2> QED BY <2>3, <2>4 DEF WellFormed
<1>2. ASSUME NEW g \in Range(c.dependencies)
      PROVE  Range(g.dependents) = T(g.prerequisite)
  <2>1. PICK i \in DOMAIN c.dependencies : c.dependencies[i] = g
      BY DEF Range
  <2>2. ASSUME NEW h \in Range(c.dependencies), h.prerequisite = g.prerequisite
        PROVE  h = g
    <3>1. PICK j \in DOMAIN c.dependencies : c.dependencies[j] = h
        BY DEF Range
    <3> QED BY <2>1, <2>2, <3>1 DEF WellFormed, NoDuplicates
  <2> QED BY <1>1, <2>2 DEF Edges
<1>3. ASSUME NEW g \in Range(c.dependencies)
      PROVE  g.prerequisite \in H
  <2>1. g.dependents[1] \in Range(g.dependents)
      BY <1>1 DEF Range
  <2> QED BY <1>1, <1>2, <2>1
<1>4. ASSUME NEW p \in H
      PROVE  \E g \in Range(c.dependencies) : g.prerequisite = p
    BY DEF Edges
<1>5. L = R
  <2>1. L \subseteq R
      BY <1>2, <1>3
  <2>2. R \subseteq L
      BY <1>2, <1>4
  <2> QED BY <2>1, <2>2
<1> QED BY <1>5 DEF Canonical

\* What get_by_id passes to the constructor is well-formed and describes the
\* same graph, in whatever order the rows came.
LEMMA RebuiltCandidate ==
    ASSUME candidate \in Candidate, WellFormed(candidate),
           NEW ts \in Listed(Members), NEW ds \in Grouped(Edges(candidate)),
           NEW c, c = [tasks |-> ts, dependencies |-> ds]
    PROVE  /\ c \in Candidate /\ WellFormed(c)
           /\ Range(c.tasks) = Members /\ Edges(c) = Edges(candidate)
           /\ Canonical(c) = Canonical(candidate)
<1> DEFINE E == Edges(candidate)
           T(p) == {d \in Task : <<p, d>> \in E}
           H == Heads(E)
           Tails(p) == Listed({e[2] : e \in {x \in E : x[1] = p}})
<1>1. /\ E \subseteq Task \X Task
      /\ \A p \in Task : {e[2] : e \in {x \in E : x[1] = p}} = T(p)
      /\ H \subseteq Task /\ \A p \in H : T(p) # {}
      /\ \A e \in E : e[1] \in H
  <2>1. E \subseteq Task \X Task
      BY DEF Edges
  <2>2. \A p \in Task : {e[2] : e \in {x \in E : x[1] = p}} = T(p)
      BY <2>1
  <2>3. H \subseteq Task /\ \A p \in H : T(p) # {}
      BY <2>1 DEF Heads
  <2> QED BY <2>1, <2>2, <2>3 DEF Heads
<1>2. PICK heads \in Listed(H), f \in [H -> UNION {Tails(p) : p \in H}] :
         /\ \A p \in H : f[p] \in Tails(p)
         /\ ds = [i \in DOMAIN heads |->
                    [prerequisite |-> heads[i], dependents |-> f[heads[i]]]]
  <2> DEFINE fs == {f \in [H -> UNION {Tails(p) : p \in H}] : \A p \in H : f[p] \in Tails(p)}
             Built(heads, f) == [i \in DOMAIN heads |->
                    [prerequisite |-> heads[i], dependents |-> f[heads[i]]]]
  <2>1. Grouped(E) = {Built(heads, f) : heads \in Listed(H), f \in fs}
      BY DEF Grouped
  <2>2. ds \in Grouped(E)
      OBVIOUS
  <2>3. \E heads \in Listed(H), f \in fs : ds = Built(heads, f)
      <3> HIDE DEF Built, fs
      <3> QED BY <2>1, <2>2
  <2> QED BY <2>3
<1>3. heads \in Seq(Task) /\ IsInjective(heads) /\ Range(heads) = H
    BY <1>2, GraphAssumption DEF Listed
<1>4. \A p \in H : f[p] \in Seq(Task) /\ IsInjective(f[p]) /\ Range(f[p]) = T(p)
    BY <1>1, <1>2, GraphAssumption DEF Listed
<1>5. ts \in Seq(Task) /\ IsInjective(ts) /\ Range(ts) = Members
    BY GraphAssumption DEF Listed
<1>6. \A i \in DOMAIN heads : heads[i] \in H
    BY <1>3 DEF Range
<1>7. DOMAIN ds = DOMAIN heads /\ ds \in Seq(Group)
  <2>1. DOMAIN ds = 1..Len(heads) /\ DOMAIN heads = 1..Len(heads) /\ Len(heads) \in Nat
      BY <1>2, <1>3
  <2>2. \A i \in 1..Len(heads) : ds[i] \in Group
      BY <1>1, <1>2, <1>4, <1>6, <2>1 DEF Group
  <2>3. ds = [i \in 1..Len(heads) |-> ds[i]]
      BY <1>2, <2>1
  <2> QED BY <2>1, <2>2, <2>3
<1>8. c \in Candidate
    BY <1>5, <1>7 DEF Candidate
<1>9. Range(ds) = {[prerequisite |-> p, dependents |-> f[p]] : p \in H}
  <2>1. \A g : g \in Range(ds) <=> \E i \in DOMAIN heads :
            g = [prerequisite |-> heads[i], dependents |-> f[heads[i]]]
      BY <1>2 DEF Range
  <2>2. \A p : p \in H <=> \E i \in DOMAIN heads : p = heads[i]
      BY <1>3 DEF Range
  <2> QED BY <2>1, <2>2
<1>10. Edges(c) = E
  <2>1. \A e \in Task \X Task : (\E g \in Range(ds) :
            g.prerequisite = e[1] /\ e[2] \in Range(g.dependents)) <=> e \in E
    <3> TAKE e \in Task \X Task
    <3>1. (\E g \in Range(ds) : g.prerequisite = e[1] /\ e[2] \in Range(g.dependents))
              <=> e[1] \in H /\ e[2] \in T(e[1])
      <4>1. ASSUME NEW g \in Range(ds), g.prerequisite = e[1], e[2] \in Range(g.dependents)
            PROVE  e[1] \in H /\ e[2] \in T(e[1])
        <5>1. PICK p \in H : g = [prerequisite |-> p, dependents |-> f[p]]
            BY <1>9
        <5>2. Range(f[p]) = T(p) /\ e[1] = p
            BY <1>4, <4>1, <5>1
        <5> QED BY <4>1, <5>1, <5>2
      <4>2. ASSUME e[1] \in H, e[2] \in T(e[1])
            PROVE  \E g \in Range(ds) : g.prerequisite = e[1] /\ e[2] \in Range(g.dependents)
        <5> DEFINE g == [prerequisite |-> e[1], dependents |-> f[e[1]]]
        <5>1. g \in Range(ds)
            BY <1>9, <4>2
        <5>2. e[2] \in Range(g.dependents) /\ g.prerequisite = e[1]
            BY <1>4, <4>2
        <5> QED BY <5>1, <5>2
      <4> QED BY <4>1, <4>2
    <3>2. e = <<e[1], e[2]>> /\ e[2] \in Task
        OBVIOUS
    <3> QED BY <3>1, <3>2, <1>1
  <2> QED BY <2>1, <1>1 DEF Edges
<1>11. \A p \in H : p \in Members /\ T(p) \subseteq Members /\ p \notin T(p)
    BY <1>1, PrerequisitesAreMembers, MembersFinite DEF Prerequisites, Dependents
<1>12. NoDuplicates(c)
  <2>1. \A i, j \in DOMAIN ds : ds[i].prerequisite = ds[j].prerequisite => i = j
      BY <1>2, <1>3, <1>7 DEF IsInjective
  <2> QED BY <2>1, <1>4, <1>5, <1>9 DEF NoDuplicates
<1>13. ASSUME NEW g \in Range(ds)
       PROVE  /\ g.dependents # <<>> /\ g.prerequisite \notin Range(g.dependents)
              /\ g.prerequisite \in Members /\ Range(g.dependents) \subseteq Members
  <2>1. PICK p \in H : g = [prerequisite |-> p, dependents |-> f[p]]
      BY <1>9
  <2>2. Range(f[p]) = T(p) /\ T(p) # {}
      BY <1>1, <1>4
  <2>3. f[p] # <<>>
    <3>1. Range(<<>>) = {}
        BY DEF Range
    <3> QED BY <2>2, <3>1
  <2> QED BY <2>1, <2>2, <2>3, <1>11
<1>14. WellFormed(c)
    BY <1>12, <1>13, <1>5 DEF WellFormed, EndpointsAreMembers, Members
<1>15. Canonical(c) = Canonical(candidate)
  <2> DEFINE C(M, edges) ==
               [tasks |-> M,
                dependencies |-> {[prerequisite |-> p,
                                   dependents |-> {d \in Task : <<p, d>> \in edges}] :
                                  p \in {q \in Task : \E d \in Task : <<q, d>> \in edges}}]
  <2>1. Canonical(c) = C(Range(c.tasks), Edges(c))
      BY <1>8, <1>14, CanonicalOfEdges
  <2>2. Canonical(candidate) = C(Members, E)
      BY CanonicalOfEdges DEF Members
  <2>3. Range(c.tasks) = Members /\ Edges(c) = E
      BY <1>5, <1>10
  <2> HIDE DEF C
  <2> QED BY <2>1, <2>2, <2>3
<1> QED BY <1>5, <1>8, <1>10, <1>14, <1>15

\* Loading keeps the rows and the candidate in agreement.
LEMMA LoadInv == IInv /\ Load => IInv'
<1> SUFFICES ASSUME IInv, Load PROVE IInv'
    OBVIOUS
<1>1. /\ phase \in {"stored", "returned"} /\ phase' = "submitted"
      /\ inDegree' = inDegree /\ ready' = ready /\ visited' = visited
      /\ done' = done /\ stored' = stored
    BY DEF Load
<1>2. /\ candidate \in Candidate /\ stored.plan /\ RowsAgree
    BY <1>1 DEF IInv, TypeOK
<1>3. PICK ts \in Listed(Members), ds \in Grouped(Edges(candidate)) :
          candidate' = [tasks |-> ts, dependencies |-> ds]
    BY <1>2 DEF Load, RowsAgree
<1>4. /\ candidate' \in Candidate /\ WellFormed(candidate')
      /\ Range(candidate'.tasks) = Members /\ Edges(candidate') = Edges(candidate)
      /\ Canonical(candidate') = Canonical(candidate)
    BY <1>2, <1>3, RebuiltCandidate DEF RowsAgree
<1>5. Members' = Members
    BY <1>4 DEF Members
<1>6. ~HasCycle(Members', Edges(candidate'))
    BY <1>2, <1>4, <1>5 DEF RowsAgree
<1>7. RowsAgree'
    BY <1>1, <1>2, <1>4, <1>5, <1>6 DEF RowsAgree, WellFormed, NoDuplicates,
       EndpointsAreMembers, HasCycle, Deadlocked
<1>8. TypeOK'
    BY <1>1, <1>4 DEF IInv, TypeOK
<1> QED BY <1>1, <1>2, <1>7, <1>8 DEF IInv, IsPlan, OnlyCyclesAreRejected

-----------------------------------------------------------------------------
(* The theorems.                                                           *)

\* The inductive invariant: counters, visits and rows agree in every
\* reachable state of the construction.
THEOREM Invariant == Spec => []IInv
<1>1. Init => IInv
    BY InitInv
<1>2. IInv /\ [Next]_vars => IInv'
  <2> SUFFICES ASSUME IInv, [Next]_vars PROVE IInv'
      OBVIOUS
  <2>1. CASE Reject
      BY <2>1, RejectInv
  <2>2. CASE CountEdges
      BY <2>2, CountEdgesInv
  <2>3. CASE \E t \in Task : Visit(t)
      BY <2>3, VisitInv
  <2>4. CASE Conclude
      BY <2>4, ConcludeInv
  <2>5. CASE Add
      BY <2>5, AddInv
  <2>6. CASE Load
      BY <2>6, LoadInv
  <2>7. CASE CompareFingerprint
      BY <2>7, CompareFingerprintInv
  <2>8. CASE UNCHANGED vars
    <3>1. /\ candidate' = candidate /\ phase' = phase /\ inDegree' = inDegree
          /\ ready' = ready /\ visited' = visited /\ done' = done /\ stored' = stored
        BY <2>8 DEF vars
    <3>2. Counted /\ Ordered => Counted' /\ Ordered'
        BY <3>1, CountersKept
    <3>3. RowsAgree => RowsAgree'
        BY <3>1, SameCandidate DEF RowsAgree, HasCycle, Deadlocked
    <3>4. TypeOK' /\ OnlyCyclesAreRejected'
        BY <3>1, SameCandidate DEF IInv, TypeOK, OnlyCyclesAreRejected, HasCycle, Deadlocked
    <3> QED BY <3>1, <3>2, <3>3, <3>4, SameCandidate DEF IInv, IsPlan
  <2> QED BY <2>1, <2>2, <2>3, <2>4, <2>5, <2>6, <2>7, <2>8 DEF Next
<1> QED BY <1>1, <1>2, PTL DEF Spec

\* Types, for every candidate.
THEOREM Typing == Spec => []TypeOK
<1>1. IInv => TypeOK
    BY DEF IInv
<1> QED BY <1>1, Invariant, PTL

\* No cycle passes _validate_dependency_graph, whatever the number of Tasks
\* and the order of the visits.
THEOREM AcyclicPlans == Spec => []PlanIsAcyclic
<1> QED BY AcceptedIsAcyclic, Invariant, PTL

\* The count of visited Tasks condemns only graphs with a cycle.
THEOREM JustRejections == Spec => []OnlyCyclesAreRejected
<1>1. IInv => OnlyCyclesAreRejected
    BY DEF IInv
<1> QED BY <1>1, Invariant, PTL

\* Tasks are visited after their prerequisites.
THEOREM VisitOrder == Spec => []VisitsFollowEdges
<1>1. IInv => VisitsFollowEdges
    BY DEF IInv, VisitsFollowEdges, IsPlan, Ordered
<1> QED BY <1>1, Invariant, PTL

\* A Plan being executed along eligible_task_ids cannot stall: were no Task
\* of the rest eligible, each would wait for another of the rest.
THEOREM Progress == Spec => []SomeTaskIsEligible
<1>1. IInv => SomeTaskIsEligible
  <2> SUFFICES ASSUME IInv, IsPlan, NEW completed \in SUBSET Members,
                      completed # Members, Eligible(completed) = {}
               PROVE  FALSE
      BY DEF SomeTaskIsEligible
  <2>1. candidate \in Candidate /\ WellFormed(candidate)
      BY DEF IInv, TypeOK, IsPlan
  <2> DEFINE rest == Members \ completed
  <2>2. ASSUME NEW t \in rest
        PROVE  \E p \in rest : <<p, t>> \in Edges(candidate)
    <3>1. PICK p \in Prerequisites(t) : p \notin completed
        BY DEF Eligible
    <3>2. p \in Members
        BY <2>1, MembersFinite, PrerequisitesAreMembers
    <3> QED BY <3>1, <3>2 DEF Prerequisites
  <2>3. rest \in SUBSET Members /\ rest # {}
      OBVIOUS
  <2>4. HasCycle(Members, Edges(candidate))
      BY <2>2, <2>3 DEF HasCycle, Deadlocked
  <2> QED BY <2>4, AcceptedIsAcyclic DEF PlanIsAcyclic
<1> QED BY <1>1, Invariant, PTL

\* Persisting a Plan and reading it back neither fails nor changes it.
THEOREM ReloadsAlways == Spec => []StoredPlanReloads
<1>1. IInv => StoredPlanReloads
    BY DEF IInv, RowsAgree, StoredPlanReloads
<1> QED BY <1>1, Invariant, PTL

\* Each round of the loop visits a Task that was not visited before.
LEMMA RoundVisitsNew ==
    ASSUME IInv, [Next]_vars, ~UNCHANGED vars, phase = "visiting", phase' = "visiting"
    PROVE  /\ WellFormed(candidate) /\ candidate' = candidate
           /\ \E t \in Members \ done : done' = done \cup {t}
<1>1. PICK t \in Task : Visit(t)
    BY DEF Next, Reject, CountEdges, Conclude, Add, Load, CompareFingerprint
<1>2. Counted /\ WellFormed(candidate)
    BY DEF IInv
<1>3. t \in Members \ done /\ done' = done \cup {t} /\ candidate' = candidate
    BY <1>1, <1>2 DEF Visit, Counted
<1> QED BY <1>2, <1>3

\* The loop visits no Task twice, so it has no more rounds than there are Tasks,
\* although a Task is appended to the list once for each time its count is zero.
VisitsEachTaskOnce ==
    [][phase = "visiting" /\ phase' = "visiting" =>
           \E t \in Members \ done : done' = done \cup {t}]_vars

\* No Task is visited twice, whatever is popped first.
THEOREM VisitedOnce == Spec => VisitsEachTaskOnce
<1>1. IInv /\ [Next]_vars =>
          [phase = "visiting" /\ phase' = "visiting" =>
               \E t \in Members \ done : done' = done \cup {t}]_vars
    BY RoundVisitsNew
<1> QED BY <1>1, Invariant, PTL DEF Spec, VisitsEachTaskOnce

RoundsLeft == Cardinality(Members \ done)

\* The variant of the loop: a natural number that every round makes smaller, so
\* that no candidate and no order of the visits keeps a construction going.
THEOREM LoopDescends ==
    Spec => [][phase = "visiting" /\ phase' = "visiting" =>
                   RoundsLeft \in Nat /\ RoundsLeft' \in Nat /\ RoundsLeft' < RoundsLeft]_vars
<1>1. ASSUME IInv, [Next]_vars, ~UNCHANGED vars, phase = "visiting", phase' = "visiting"
      PROVE  RoundsLeft \in Nat /\ RoundsLeft' \in Nat /\ RoundsLeft' < RoundsLeft
  <2>1. PICK t \in Members \ done : done' = done \cup {t}
      BY <1>1, RoundVisitsNew
  <2>2. candidate' = candidate /\ IsFiniteSet(Members)
      BY <1>1, RoundVisitsNew, MembersFinite DEF IInv, TypeOK
  <2>3. Members' = Members
      BY <2>2 DEF Members
  <2> DEFINE rest == Members \ done
  <2>4. IsFiniteSet(rest) /\ Members' \ done' = rest \ {t} /\ t \in rest
      BY <2>1, <2>2, <2>3, FS_Subset
  <2>5. /\ Cardinality(rest) \in Nat /\ IsFiniteSet(rest \ {t})
        /\ Cardinality(rest \ {t}) \in Nat
        /\ Cardinality(rest \ {t}) = Cardinality(rest) - 1
      BY <2>4, FS_RemoveElement, FS_CardinalityType
  <2> QED BY <2>4, <2>5 DEF RoundsLeft
<1> QED BY <1>1, Invariant, PTL DEF Spec

=============================================================================
