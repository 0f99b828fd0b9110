----------------------- MODULE PlannerCommit_proofs -----------------------
(***************************************************************************)
(* Proofs about PlannerCommit, for any operations, lists, reviewers and    *)
(* commits that race.                                                      *)
(*                                                                         *)
(* The argument: a commit checks the ids it inserts against the tables it  *)
(* inserts them into, and every row ever inserted stays there, so each     *)
(* application is of rows that are new, whatever became of the operations  *)
(* after they were loaded; and what was loaded was governed by a review,   *)
(* or by how it was proposed, which no later step takes back.              *)
(***************************************************************************)
EXTENDS PlannerCommit, TLAPS

\* A state that lets an operation be committed is a review's or the proposal's, or
\* needs none.
Governed(o, state) ==
    /\ state = "approved" => o \in reviewed \/ GivenState[o] = "approved"
    /\ state = "not_required" => ~NeedsApproval[o]

OperationsGoverned == \A o \in Operation : Governed(o, operations[o].state)

LoadedGoverned ==
    \A c \in Committer : \A i \in DOMAIN commit[c].records :
        Governed(commit[c].records[i].op, commit[c].records[i].state)

\* What an application inserted is in the table of its kind.
InTables(o, x, known, attempts) ==
    \/ Kind[o] = "create_assumption" /\ x \in known
    \/ Kind[o] \in ExecutionKind /\ x \in attempts

RowsAreKept == \A p \in applied : InTables(p[1], p[2], assumptions, runs)

IInv ==
    /\ TypeOK
    /\ OperationsGoverned
    /\ LoadedGoverned
    /\ RowsAreKept
    /\ OneSourcePerRow
    /\ ReviewGoverns
    /\ CommittedIsApplied
    /\ AttemptHasIntent

-----------------------------------------------------------------------------
(* What a commit works on.                                                 *)

LEMMA NoCommitType ==
    NoCommit \in [phase : {"idle", "loaded", "failed"}, records : Loadable,
                  failing : Operation \cup {NoOperation}]
<1>1. NoRecords \in [{} -> Record]
    BY DEF NoRecords
<1>2. NoRecords \in Loadable
    BY <1>1 DEF Loadable
<1> QED BY <1>2 DEF NoCommit

LEMMA LoadedType ==
    ASSUME TypeOK, NEW c \in Committer
    PROVE  /\ commit[c].records \in [DOMAIN commit[c].records -> Record]
           /\ DOMAIN commit[c].records \subseteq Place
           /\ \A i \in DOMAIN commit[c].records :
                  /\ commit[c].records[i].op \in Operation
                  /\ commit[c].records[i].state \in CommittableStates
                  /\ commit[c].records[i].target \in Object \cup {NoObject}
<1>1. commit[c].records \in Loadable
    BY DEF TypeOK
<1>2. PICK D \in SUBSET Place : commit[c].records \in [D -> Record]
    BY <1>1 DEF Loadable
<1> QED BY <1>2 DEF Record

LEMMA PlacesAreNumbers == Place \subseteq Nat
<1>1. \A list \in IdLists \cup {ByCreation} : list \in Seq(Operation)
    BY CommitAssumption
<1>2. \A list \in Seq(Operation) : DOMAIN list \subseteq Nat
    OBVIOUS
<1> QED BY <1>1, <1>2 DEF Place

\* A list of operations, as an argument or as the rows of a session come.
IsList(list) ==
    /\ list \in [DOMAIN list -> Operation]
    /\ DOMAIN list \subseteq Place

LEMMA Lists ==
    /\ \A ids \in IdLists : IsList(ids)
    /\ \A sessions :
           IsList(Restrict(ByCreation,
                           {i \in DOMAIN ByCreation : SessionOf[ByCreation[i]] \in sessions}))
<1>1. \A list \in IdLists \cup {ByCreation} :
          list \in [DOMAIN list -> Operation] /\ DOMAIN list \subseteq Place
    BY CommitAssumption DEF Place
<1>2. ASSUME NEW sessions
      PROVE  IsList(Restrict(ByCreation,
                    {i \in DOMAIN ByCreation : SessionOf[ByCreation[i]] \in sessions}))
    BY <1>1 DEF IsList, Restrict
<1> QED BY <1>1, <1>2 DEF IsList

LEMMA CommittableType ==
    ASSUME TypeOK, NEW list, IsList(list)
    PROVE  /\ Committable(list) \in Loadable
           /\ \A i \in DOMAIN Committable(list) :
                  /\ Committable(list)[i].op \in Operation
                  /\ Committable(list)[i].state = operations[Committable(list)[i].op].state
<1> DEFINE D == {i \in DOMAIN list : operations[list[i]].state \in CommittableStates}
<1>1. \A i \in D : Read(list[i]) \in Record
    BY DEF TypeOK, IsList, Read, Record
<1>2. Committable(list) \in [D -> Record]
    BY <1>1 DEF Committable
<1>3. D \in SUBSET Place
    BY DEF IsList
<1>4. Committable(list) \in Loadable
    BY <1>2, <1>3 DEF Loadable
<1>5. \A i \in DOMAIN Committable(list) :
          /\ Committable(list)[i].op \in Operation
          /\ Committable(list)[i].state = operations[Committable(list)[i].op].state
    BY DEF Committable, Read, IsList
<1> QED BY <1>4, <1>5

-----------------------------------------------------------------------------
(* An application of what a commit loaded.                                 *)

\* The rows inserted are new, in the table of their kind, one for each operation.
Inserts(c, id) ==
    LET records == commit[c].records IN
    /\ id \in [DOMAIN records -> Object]
    /\ Finish(c, id)
    /\ \A i \in DOMAIN records : /\ InTables(records[i].op, id[i], assumptions', runs')
                                 /\ ~InTables(records[i].op, id[i], assumptions, runs)
    /\ \A i, j \in DOMAIN records :
           id[i] = id[j] /\ Kind[records[i].op] = Kind[records[j].op] =>
               records[i].op = records[j].op
    /\ assumptions \subseteq assumptions' /\ assumptions' \subseteq Object
    /\ runs \subseteq runs' /\ runs' \subseteq Object
    /\ outboxes' \subseteq Object
    /\ DOMAIN records = {} => UNCHANGED <<assumptions, runs, outboxes>>

\* All are assumptions, and no operation is applied twice.
MakesAssumptions(c, id) ==
    LET records == commit[c].records IN
    /\ \A i \in DOMAIN records : Kind[records[i].op] = "create_assumption"
    /\ \A i, j \in DOMAIN records : records[i].op = records[j].op => i = j
    /\ assumptions' = assumptions \cup Range(id)
    /\ runs' = runs /\ outboxes' = outboxes

LEMMA ApplyOperationsInserts ==
    ASSUME TypeOK, NEW c \in Committer, ApplyOperations(c)
    PROVE  \E id : Inserts(c, id) /\ MakesAssumptions(c, id)
<1> DEFINE records == commit[c].records
<1>1. /\ ~HasExecution(records)
      /\ \A i \in DOMAIN records : ~Raises(records, i)
      /\ runs' = runs /\ outboxes' = outboxes
    BY DEF ApplyOperations
<1>2. PICK id \in [DOMAIN records -> Object] :
          /\ \A i \in DOMAIN records :
                 IF KnownId(records[i]) # NoObject THEN id[i] = KnownId(records[i])
                 ELSE id[i] \in Fresh \ assumptions
          /\ \A i, j \in DOMAIN records : id[i] = id[j] => i = j
          /\ assumptions' = assumptions \cup Range(id)
          /\ Finish(c, id)
    BY DEF ApplyOperations
<1>3. ASSUME NEW i \in DOMAIN records
      PROVE  /\ Kind[records[i].op] = "create_assumption"
             /\ id[i] \notin assumptions
             /\ id[i] \in assumptions'
  <2>1. records[i].op \in Operation
      BY LoadedType
  <2>2. Kind[records[i].op] \in OperationKind
      BY <2>1, CommitAssumption
  <2>3. Kind[records[i].op] = "create_assumption"
      BY <1>1, <2>2 DEF OperationKind, ExecutionKind, HasExecution, Raises
  <2>4. id[i] \notin assumptions
      BY <1>1, <1>2 DEF Raises
  <2>5. id[i] \in Range(id)
      BY <1>2 DEF Range
  <2> QED BY <2>3, <2>4, <2>5, <1>2
<1>4. Range(id) \subseteq Object
    BY <1>2 DEF Range
<1>5. \A i \in DOMAIN records : /\ InTables(records[i].op, id[i], assumptions', runs')
                                /\ ~InTables(records[i].op, id[i], assumptions, runs)
    BY <1>3 DEF InTables, ExecutionKind
<1>6. \A i, j \in DOMAIN records :
           id[i] = id[j] /\ Kind[records[i].op] = Kind[records[j].op] =>
               records[i].op = records[j].op
    BY <1>2
<1>7. DOMAIN records = {} => assumptions' = assumptions
    BY <1>2 DEF Range
<1> HIDE DEF records
<1>8. Inserts(c, id)
    BY <1>1, <1>2, <1>4, <1>5, <1>6, <1>7 DEF Inserts, TypeOK, records
<1>9. \A i, j \in DOMAIN records : i \in Nat /\ j \in Nat
    BY LoadedType, PlacesAreNumbers DEF records
<1>10. ASSUME NEW i \in DOMAIN records, NEW j \in DOMAIN records,
              records[i].op = records[j].op
       PROVE  i = j
    BY <1>1, <1>9, <1>10 DEF Raises
<1>11. MakesAssumptions(c, id)
    BY <1>1, <1>2, <1>3, <1>10 DEF MakesAssumptions, records
<1> QED BY <1>8, <1>11

\* A bundle is a run operation and the outbox operation that matches it.
MakesAttempt(c, id, run, b) ==
    /\ b \in DOMAIN IntentOf
    /\ Kind[b] = "create_execution_outbox" /\ Kind[IntentOf[b]] = "create_execution_run"
    /\ {commit[c].records[i].op : i \in DOMAIN commit[c].records} = {b, IntentOf[b]}
    /\ id = [i \in DOMAIN commit[c].records |-> run]
    /\ runs' = runs \cup {run} /\ outboxes' = outboxes \cup {run}
    /\ UNCHANGED assumptions

LEMMA ApplyBundleInserts ==
    ASSUME TypeOK, AttemptHasIntent, NEW c \in Committer, ApplyBundle(c)
    PROVE  \E run, id, b : run \in Object /\ Inserts(c, id) /\ MakesAttempt(c, id, run, b)
<1> DEFINE records == commit[c].records
<1>1. PICK i \in DOMAIN records, j \in DOMAIN records :
          /\ DOMAIN records = {i, j}
          /\ Kind[records[i].op] = "create_execution_run"
          /\ Kind[records[j].op] = "create_execution_outbox"
          /\ records[j].op \in DOMAIN IntentOf
          /\ IntentOf[records[j].op] = records[i].op
          /\ Named[records[i].op] \notin runs
    BY DEF ApplyBundle, BundleAdmissible
<1>2. PICK run \in {Named[records[k].op] : k \in DOMAIN records} :
          /\ runs' = runs \cup {run}
          /\ outboxes' = outboxes \cup {run}
          /\ Finish(c, [k \in DOMAIN records |-> run])
    BY DEF ApplyBundle
<1>3. UNCHANGED assumptions
    BY DEF ApplyBundle
<1>4. records[i].op \in Operation /\ records[j].op \in Operation
    BY LoadedType
<1>5. Named[records[j].op] = Named[records[i].op]
    BY <1>1, CommitAssumption
<1>6. Named[records[i].op] \in Object
    BY <1>1, <1>4, CommitAssumption DEF ExecutionKind
<1>7. run = Named[records[i].op]
    BY <1>1, <1>2, <1>5
<1> DEFINE id == [k \in DOMAIN records |-> run]
<1>8. \A k \in DOMAIN records : /\ InTables(records[k].op, id[k], assumptions', runs')
                                /\ ~InTables(records[k].op, id[k], assumptions, runs)
    BY <1>1, <1>2, <1>7 DEF InTables, ExecutionKind
<1>9. \A k, l \in DOMAIN records :
           id[k] = id[l] /\ Kind[records[k].op] = Kind[records[l].op] =>
               records[k].op = records[l].op
    BY <1>1
<1>10. id \in [DOMAIN records -> Object] /\ Finish(c, id)
    BY <1>2, <1>6, <1>7
<1>11. {records[k].op : k \in DOMAIN records} = {records[j].op, IntentOf[records[j].op]}
    BY <1>1
<1>12. MakesAttempt(c, id, run, records[j].op)
    BY <1>1, <1>2, <1>3, <1>11 DEF MakesAttempt
<1> HIDE DEF records, id
<1>13. Inserts(c, id)
    BY <1>1, <1>2, <1>3, <1>6, <1>7, <1>8, <1>9, <1>10 DEF Inserts, TypeOK, records
<1> QED BY <1>6, <1>7, <1>12, <1>13

\* Every part of the invariant but the pairing of runs and outboxes is kept.
LEMMA InsertStep ==
    ASSUME IInv, NEW c \in Committer, NEW id, Inserts(c, id)
    PROVE  /\ TypeOK' /\ OperationsGoverned' /\ LoadedGoverned' /\ RowsAreKept'
           /\ OneSourcePerRow' /\ ReviewGoverns' /\ CommittedIsApplied'
           /\ applied \subseteq applied'
<1> DEFINE records == commit[c].records
           rows == {<<records[i].op, id[i]>> : i \in DOMAIN records}
<1> USE DEF IInv
<1>1. /\ operations' = Committed(records, id)
      /\ applied' = applied \cup rows
      /\ commit' = [commit EXCEPT ![c] = NoCommit]
      /\ UNCHANGED <<review, reviewed>>
    BY DEF Inserts, Finish
<1>2. /\ id \in [DOMAIN records -> Object]
      /\ \A i \in DOMAIN records : records[i].op \in Operation
                                   /\ records[i].state \in CommittableStates
    BY LoadedType DEF Inserts
<1>3. ASSUME NEW o \in Operation
      PROVE  \/ operations'[o] = operations[o]
             \/ /\ operations'[o] \in [state : {"committed"}, target : Object]
                /\ operations'[o].state = "committed"
                /\ <<o, operations'[o].target>> \in rows
  <2>1. CASE \E i \in DOMAIN records : records[i].op = o
    <3> DEFINE i == CHOOSE i \in DOMAIN records : records[i].op = o
    <3>1. i \in DOMAIN records /\ records[i].op = o
        BY <2>1
    <3>2. operations'[o] = [state |-> "committed", target |-> id[i]]
        BY <1>1, <2>1 DEF Committed
    <3>3. id[i] \in Object /\ <<o, id[i]>> \in rows
        BY <1>2, <3>1
    <3> QED BY <3>2, <3>3
  <2>2. CASE ~\E i \in DOMAIN records : records[i].op = o
      BY <1>1, <2>2 DEF Committed
  <2> QED BY <2>1, <2>2
<1>4. operations' \in [Operation -> [state : ApprovalState \cup {"absent"},
                                     target : Object \cup {NoObject}]]
  <2>1. ASSUME NEW o \in Operation
        PROVE  operations'[o] \in [state : ApprovalState \cup {"absent"},
                                  target : Object \cup {NoObject}]
    <3>1. operations[o] \in [state : ApprovalState \cup {"absent"},
                            target : Object \cup {NoObject}]
        BY DEF TypeOK
    <3>2. [state : {"committed"}, target : Object]
              \subseteq [state : ApprovalState \cup {"absent"}, target : Object \cup {NoObject}]
        BY DEF ApprovalState
    <3> QED BY <1>3, <3>1, <3>2
  <2>2. operations' = [o \in Operation |-> operations'[o]]
      BY <1>1 DEF Committed
  <2> QED BY <2>1, <2>2
<1>5. TypeOK'
    BY <1>1, <1>2, <1>4, NoCommitType DEF TypeOK, Inserts
<1>6. OperationsGoverned'
    BY <1>1, <1>3 DEF OperationsGoverned, Governed
<1>7. LoadedGoverned'
    BY <1>1 DEF LoadedGoverned, Governed, TypeOK, NoCommit, NoRecords
<1>8. ASSUME NEW p \in rows
      PROVE  InTables(p[1], p[2], assumptions', runs') /\ ~InTables(p[1], p[2], assumptions, runs) /\ p[1] \in Operation
    BY <1>2 DEF Inserts
<1>9. \A p \in applied : InTables(p[1], p[2], assumptions, runs) /\ InTables(p[1], p[2], assumptions', runs')
    BY DEF RowsAreKept, InTables, Inserts
<1>10. RowsAreKept'
    BY <1>1, <1>8, <1>9 DEF RowsAreKept
<1>11. OneSourcePerRow'
  <2> SUFFICES ASSUME NEW p \in applied', NEW q \in applied',
                      p[2] = q[2], Kind[p[1]] = Kind[q[1]]
               PROVE  p[1] = q[1]
      BY DEF OneSourcePerRow
  <2>1. CASE p \in applied /\ q \in applied
      BY <2>1 DEF OneSourcePerRow
  <2>2. CASE p \in rows /\ q \in rows
    <3>1. PICK i \in DOMAIN records : p = <<records[i].op, id[i]>>
        BY <2>2
    <3>2. PICK j \in DOMAIN records : q = <<records[j].op, id[j]>>
        BY <2>2
    <3> QED BY <3>1, <3>2 DEF Inserts
  <2>3. CASE p \in applied /\ q \in rows
      BY <2>3, <1>8, <1>9 DEF InTables
  <2>4. CASE p \in rows /\ q \in applied
      BY <2>4, <1>8, <1>9 DEF InTables
  <2> QED BY <1>1, <2>1, <2>2, <2>3, <2>4
<1>12. ReviewGoverns'
  <2>1. ASSUME NEW i \in DOMAIN records
        PROVE  NeedsReview[records[i].op] => records[i].op \in reviewed
      BY <1>2 DEF LoadedGoverned, Governed, CommittableStates, NeedsReview
  <2> QED BY <1>1, <2>1 DEF ReviewGoverns
<1>13. CommittedIsApplied'
    BY <1>1, <1>3 DEF CommittedIsApplied
<1> QED BY <1>1, <1>5, <1>6, <1>7, <1>10, <1>11, <1>12, <1>13

\* An application of operations admits no attempt.
LEMMA ApplyOperationsStep ==
    ASSUME IInv, NEW c \in Committer, ApplyOperations(c)
    PROVE  IInv'
<1>1. PICK id : Inserts(c, id)
    BY ApplyOperationsInserts DEF IInv
<1>2. /\ TypeOK' /\ OperationsGoverned' /\ LoadedGoverned' /\ RowsAreKept'
      /\ OneSourcePerRow' /\ ReviewGoverns' /\ CommittedIsApplied'
      /\ applied \subseteq applied'
    BY <1>1, InsertStep
<1>3. AttemptHasIntent'
    BY <1>2 DEF AttemptHasIntent, ApplyOperations, IInv
<1> QED BY <1>2, <1>3 DEF IInv

\* An application of a bundle admits one, with its intent.
LEMMA ApplyBundleStep ==
    ASSUME IInv, NEW c \in Committer, ApplyBundle(c)
    PROVE  IInv'
<1>1. PICK run, id, b : run \in Object /\ Inserts(c, id) /\ MakesAttempt(c, id, run, b)
    BY ApplyBundleInserts DEF IInv
<1>2. /\ TypeOK' /\ OperationsGoverned' /\ LoadedGoverned' /\ RowsAreKept'
      /\ OneSourcePerRow' /\ ReviewGoverns' /\ CommittedIsApplied'
      /\ applied \subseteq applied'
    BY <1>1, InsertStep
<1>3. <<b, run>> \in applied' /\ <<IntentOf[b], run>> \in applied'
    BY <1>1 DEF Inserts, Finish, MakesAttempt
<1>4. AttemptHasIntent'
    BY <1>1, <1>2, <1>3 DEF AttemptHasIntent, IInv, MakesAttempt
<1> QED BY <1>2, <1>4 DEF IInv

-----------------------------------------------------------------------------
(* The steps that insert no row.                                           *)

\* What is read is governed when it is read.
LEMMA LoadStep ==
    ASSUME IInv, NEW c \in Committer, NEW list, IsList(list), Load(c, list)
    PROVE  IInv'
<1> DEFINE loaded == [NoCommit EXCEPT !.phase = "loaded", !.records = Committable(list)]
<1> USE DEF IInv
<1>1. /\ commit' = [commit EXCEPT ![c] = loaded]
      /\ UNCHANGED <<operations, assumptions, runs, outboxes, review, applied, reviewed>>
    BY DEF Load, tables
<1>2. /\ Committable(list) \in Loadable
      /\ \A i \in DOMAIN Committable(list) :
             /\ Committable(list)[i].op \in Operation
             /\ Committable(list)[i].state = operations[Committable(list)[i].op].state
    BY CommittableType
<1>3. /\ loaded \in [phase : {"idle", "loaded", "failed"}, records : Loadable,
                     failing : Operation \cup {NoOperation}]
      /\ loaded.records = Committable(list)
    BY <1>2, NoCommitType DEF NoCommit
<1> HIDE DEF loaded
<1>4. TypeOK'
    BY <1>1, <1>3 DEF TypeOK
<1>5. LoadedGoverned'
  <2> SUFFICES ASSUME NEW d \in Committer, NEW i \in DOMAIN commit'[d].records
               PROVE  Governed(commit'[d].records[i].op, commit'[d].records[i].state)
      BY <1>1 DEF LoadedGoverned, Governed
  <2>1. CASE d = c
      BY <1>1, <1>2, <1>3, <2>1 DEF TypeOK, OperationsGoverned
  <2>2. CASE d # c
      BY <1>1, <2>2 DEF TypeOK, LoadedGoverned
  <2> QED BY <2>1, <2>2
<1>6. /\ OperationsGoverned' /\ RowsAreKept' /\ OneSourcePerRow' /\ ReviewGoverns'
      /\ CommittedIsApplied' /\ AttemptHasIntent'
    BY <1>1 DEF OperationsGoverned, Governed, RowsAreKept, OneSourcePerRow, ReviewGoverns,
                CommittedIsApplied, AttemptHasIntent
<1> QED BY <1>4, <1>5, <1>6

\* A review, a new operation or the mark of a failed commit changes the states of
\* some operations to ones a review or a proposal gave or that allow no commit.
StatesChange ==
    /\ operations' \in [Operation -> [state : ApprovalState \cup {"absent"},
                                      target : Object \cup {NoObject}]]
    /\ \A o \in Operation :
           \/ operations'[o] = operations[o]
           \/ /\ operations'[o].state = "committed" => GivenState[o] = "committed"
              /\ operations'[o].state = "approved" =>
                     o \in reviewed' \/ GivenState[o] = "approved"
              /\ operations'[o].state = "not_required" => ~NeedsApproval[o]
    /\ reviewed \subseteq reviewed' /\ reviewed' \subseteq Operation
    /\ UNCHANGED <<assumptions, runs, outboxes, applied>>

LEMMA StatesStep ==
    ASSUME IInv, StatesChange,
           review' \in [Reviewer -> SUBSET Operation],
           \/ UNCHANGED commit
           \/ \E c \in Committer : commit' = [commit EXCEPT ![c] = NoCommit]
    PROVE  IInv'
<1> USE DEF IInv, StatesChange
<1>1. TypeOK'
    BY NoCommitType DEF TypeOK
<1>2. OperationsGoverned'
  <2> SUFFICES ASSUME NEW o \in Operation
               PROVE  Governed(o, operations[o].state)'
      BY DEF OperationsGoverned
  <2>1. CASE operations'[o] = operations[o]
      BY <2>1 DEF OperationsGoverned, Governed
  <2>2. CASE operations'[o] # operations[o]
      BY <2>2 DEF Governed
  <2> QED BY <2>1, <2>2
<1>3. LoadedGoverned'
  <2> SUFFICES ASSUME NEW d \in Committer, NEW i \in DOMAIN commit'[d].records
               PROVE  Governed(commit[d].records[i].op, commit[d].records[i].state)'
      BY DEF LoadedGoverned
  <2>1. commit'[d] = commit[d]
      BY DEF TypeOK, NoCommit, NoRecords
  <2> QED BY <2>1 DEF LoadedGoverned, Governed
<1>4. CommittedIsApplied'
    BY DEF CommittedIsApplied
<1>5. RowsAreKept' /\ OneSourcePerRow' /\ ReviewGoverns' /\ AttemptHasIntent'
    BY DEF RowsAreKept, OneSourcePerRow, ReviewGoverns, AttemptHasIntent
<1> QED BY <1>1, <1>2, <1>3, <1>4, <1>5

LEMMA CreateBatchStep ==
    ASSUME IInv, NEW batch \in IdLists, CreateBatch(batch)
    PROVE  IInv'
<1>1. ASSUME NEW o \in Operation
      PROVE  \/ operations'[o] = operations[o]
             \/ operations'[o] = [AbsentOperation EXCEPT !.state = FirstState(o)]
    BY DEF CreateBatch
<1>2. operations' = [o \in Operation |-> operations'[o]]
    BY DEF CreateBatch
<1>3. ASSUME NEW o \in Operation
      PROVE  /\ FirstState(o) \in ApprovalState
             /\ FirstState(o) \in {"approved", "committed"} => GivenState[o] = FirstState(o)
             /\ FirstState(o) = "not_required" => ~NeedsApproval[o]
    BY CommitAssumption DEF FirstState, ApprovalState
<1>4. StatesChange
    BY <1>1, <1>2, <1>3 DEF StatesChange, IInv, TypeOK, AbsentOperation, CreateBatch, tables
<1> QED BY <1>4, StatesStep DEF CreateBatch, IInv, TypeOK

LEMMA MarkStep ==
    ASSUME IInv, NEW o \in Operation, NEW state \in {"approved", "rejected"}, Mark(o, state)
    PROVE  IInv'
<1>1. StatesChange
    BY DEF StatesChange, IInv, TypeOK, ApprovalState, Mark, tables
<1> QED BY <1>1, StatesStep DEF Mark, IInv, TypeOK

LEMMA DecideBatchStep ==
    ASSUME IInv, NEW v \in Reviewer, NEW state \in {"approved", "rejected"},
           DecideBatch(v, state)
    PROVE  IInv'
<1>1. review[v] \subseteq Operation
    BY DEF IInv, TypeOK
<1>2. ASSUME NEW o \in Operation
      PROVE  /\ operations'[o] \in [state : ApprovalState \cup {"absent"},
                                    target : Object \cup {NoObject}]
             /\ \/ operations'[o] = operations[o]
                \/ o \in review[v] /\ operations'[o].state = state
    BY DEF DecideBatch, IInv, TypeOK, ApprovalState
<1>3. operations' = [o \in Operation |-> operations'[o]]
    BY DEF DecideBatch
<1>4. StatesChange
    BY <1>1, <1>2, <1>3 DEF StatesChange, IInv, TypeOK, DecideBatch, tables
<1> QED BY <1>4, StatesStep DEF DecideBatch, IInv, TypeOK

LEMMA FindPendingStep ==
    ASSUME IInv, NEW v \in Reviewer, NEW ids \in IdLists, FindPending(v, Range(ids))
    PROVE  IInv'
<1>1. Range(ids) \subseteq Operation
    BY Lists DEF IsList, Range
<1>2. StatesChange
    BY DEF StatesChange, IInv, TypeOK, FindPending, tables
<1> QED BY <1>1, <1>2, StatesStep DEF FindPending, IInv, TypeOK

LEMMA RollBackStep ==
    ASSUME IInv, NEW c \in Committer, NEW o \in Operation, RollBack(c, o)
    PROVE  IInv'
<1> DEFINE failed == [NoCommit EXCEPT !.phase = "failed", !.failing = o]
<1> USE DEF IInv
<1>1. /\ commit' = [commit EXCEPT ![c] = failed]
      /\ UNCHANGED <<operations, assumptions, runs, outboxes, review, applied, reviewed>>
    BY DEF RollBack, tables
<1>2. /\ failed \in [phase : {"idle", "loaded", "failed"}, records : Loadable,
                     failing : Operation \cup {NoOperation}]
      /\ failed.records = NoRecords
    BY NoCommitType DEF NoCommit
<1> HIDE DEF failed
<1>3. TypeOK'
    BY <1>1, <1>2 DEF TypeOK
<1>4. LoadedGoverned'
    BY <1>1, <1>2 DEF LoadedGoverned, Governed, TypeOK, NoRecords
<1>5. /\ OperationsGoverned' /\ RowsAreKept' /\ OneSourcePerRow' /\ ReviewGoverns'
      /\ CommittedIsApplied' /\ AttemptHasIntent'
    BY <1>1 DEF OperationsGoverned, Governed, RowsAreKept, OneSourcePerRow, ReviewGoverns,
                CommittedIsApplied, AttemptHasIntent
<1> QED BY <1>3, <1>4, <1>5

LEMMA MarkFailedStep ==
    ASSUME IInv, NEW c \in Committer, MarkFailed(c)
    PROVE  IInv'
<1>1. StatesChange
    BY DEF StatesChange, IInv, TypeOK, ApprovalState, MarkFailed, tables
<1> QED BY <1>1, StatesStep DEF MarkFailed, IInv, TypeOK

LEMMA CrashStep ==
    ASSUME IInv, NEW c \in Committer, Crash(c)
    PROVE  IInv'
<1>1. StatesChange
    BY DEF StatesChange, IInv, TypeOK, Crash, tables
<1> QED BY <1>1, StatesStep DEF Crash, IInv, TypeOK

-----------------------------------------------------------------------------
(* The theorems.                                                           *)

\* The inductive invariant.
THEOREM Invariant == Spec => []IInv
<1>1. Init => IInv
  <2> SUFFICES ASSUME Init PROVE IInv
      OBVIOUS
  <2>1. \A o \in Operation : operations[o] = AbsentOperation
      BY DEF Init
  <2>2. \A c \in Committer : commit[c] = NoCommit
      BY DEF Init
  <2>3. TypeOK
      BY NoCommitType DEF Init, TypeOK, AbsentOperation
  <2>4. OperationsGoverned /\ CommittedIsApplied
      BY <2>1 DEF OperationsGoverned, Governed, CommittedIsApplied, AbsentOperation
  <2>5. LoadedGoverned
      BY <2>2 DEF LoadedGoverned, NoCommit, NoRecords
  <2> QED BY <2>3, <2>4, <2>5 DEF Init, IInv, RowsAreKept, OneSourcePerRow, ReviewGoverns,
                                  AttemptHasIntent
<1>2. IInv /\ [Next]_vars => IInv'
  <2> SUFFICES ASSUME IInv, [Next]_vars PROVE IInv'
      OBVIOUS
  <2>1. ASSUME NEW batch \in IdLists, CreateBatch(batch) PROVE IInv'
      BY <2>1, CreateBatchStep
  <2>2. ASSUME NEW o \in Operation, NEW state \in {"approved", "rejected"}, Mark(o, state)
        PROVE  IInv'
      BY <2>2, MarkStep
  <2>3. ASSUME NEW v \in Reviewer, ReviewStep(v) PROVE IInv'
      BY <2>3, FindPendingStep, DecideBatchStep DEF ReviewStep
  <2>4. ASSUME NEW c \in Committer, CommitStep(c) PROVE IInv'
    <3>1. ASSUME NEW ids \in IdLists, LoadByIds(c, ids) PROVE IInv'
        BY <3>1, Lists, LoadStep DEF LoadByIds
    <3>2. ASSUME NEW sessions, LoadBySession(c, sessions) PROVE IInv'
        BY <3>2, Lists, LoadStep DEF LoadBySession
    <3>3. ASSUME Fail(c) \/ FailLocked(c) PROVE IInv'
      <4>1. PICK i \in DOMAIN commit[c].records : RollBack(c, commit[c].records[i].op)
          BY <3>3 DEF Fail, FailLocked
      <4>2. commit[c].records[i].op \in Operation
          BY <4>1, LoadedType DEF IInv
      <4> QED BY <4>1, <4>2, RollBackStep
    <3> QED BY <2>4, <3>1, <3>2, <3>3, ApplyOperationsStep, ApplyBundleStep, MarkFailedStep,
               CrashStep DEF CommitStep
  <2>5. CASE UNCHANGED vars
      BY <2>5 DEF vars, IInv, TypeOK, OperationsGoverned, LoadedGoverned, Governed, RowsAreKept,
                  OneSourcePerRow, ReviewGoverns, CommittedIsApplied, AttemptHasIntent
  <2> QED BY <2>1, <2>2, <2>3, <2>4, <2>5 DEF Next
<1> QED BY <1>1, <1>2, PTL DEF Spec

\* Types.
THEOREM Typing == Spec => []TypeOK
<1>1. IInv => TypeOK
    BY DEF IInv
<1> QED BY <1>1, Invariant, PTL

\* However commits race, no two operations insert the same row.
THEOREM RowsHaveOneSource == Spec => []OneSourcePerRow
<1>1. IInv => OneSourcePerRow
    BY DEF IInv
<1> QED BY <1>1, Invariant, PTL

\* What needs approval is inserted only after a reviewer approved it, unless it was
\* proposed as approved.
THEOREM ReviewAlwaysGoverns == Spec => []ReviewGoverns
<1>1. IInv => ReviewGoverns
    BY DEF IInv
<1> QED BY <1>1, Invariant, PTL

\* An operation a commit made committed has its row, whatever reviews and failed
\* commits write over each other.
THEOREM CommittedIsDurable == Spec => []CommittedIsApplied
<1>1. IInv => CommittedIsApplied
    BY DEF IInv
<1> QED BY <1>1, Invariant, PTL

\* An attempt is admitted with its dispatch intent, or not at all.
THEOREM PairsAreAdmitted == Spec => []AttemptHasIntent
<1>1. IInv => AttemptHasIntent
    BY DEF IInv
<1> QED BY <1>1, Invariant, PTL

\* No review rejects an operation while a commit has it loaded.
NoLateRejection ==
    \A c \in Committer : \A i \in DOMAIN commit[c].records :
        LET o == commit[c].records[i].op IN
        operations'[o].state = "rejected" => operations[o].state = "rejected"

\* What is loaded has not been rejected.
LoadedNotRejected ==
    \A c \in Committer : \A i \in DOMAIN commit[c].records :
        operations[commit[c].records[i].op].state # "rejected"

\* A rejection does what reject_operation says of it unless it comes between the
\* reads of a commit and its writes: no other order of steps applies a rejected
\* operation, however many sessions review and commit.
THEOREM OnlyLateRejectionsAreLost ==
    Spec /\ [][NoLateRejection]_vars => RejectedIsNotApplied
<1>1. Init => LoadedNotRejected
    BY DEF Init, LoadedNotRejected, NoCommit, NoRecords
<1>2. ASSUME IInv, LoadedNotRejected, [Next]_vars, [NoLateRejection]_vars
      PROVE  LoadedNotRejected'
  <2>1. CASE UNCHANGED vars
      BY <1>2, <2>1 DEF vars, LoadedNotRejected
  <2>2. CASE NoLateRejection /\ commit' = commit
      BY <1>2, <2>2 DEF LoadedNotRejected, NoLateRejection
  <2>3. ASSUME NoLateRejection, NEW c \in Committer, NEW next,
               commit' = [commit EXCEPT ![c] = next],
               \A i \in DOMAIN next.records :
                   operations'[next.records[i].op].state # "rejected"
        PROVE  LoadedNotRejected'
    <3>1. \A d \in Committer : commit'[d] = IF d = c THEN next ELSE commit[d]
        BY <1>2, <2>3 DEF IInv, TypeOK
    <3> QED BY <1>2, <2>3, <3>1 DEF LoadedNotRejected, NoLateRejection
  <2>4. ASSUME NoLateRejection, NEW c \in Committer, NEW list, IsList(list), Load(c, list)
        PROVE  LoadedNotRejected'
    <3> DEFINE next == [NoCommit EXCEPT !.phase = "loaded", !.records = Committable(list)]
    <3>1. commit' = [commit EXCEPT ![c] = next] /\ operations' = operations
        BY <2>4 DEF Load
    <3>2. next.records = Committable(list)
        BY DEF NoCommit
    <3>3. \A i \in DOMAIN Committable(list) :
              operations[Committable(list)[i].op].state # "rejected"
        BY DEF Committable, Read, CommittableStates
    <3> HIDE DEF next
    <3> QED BY <2>3, <2>4, <3>1, <3>2, <3>3
  <2>5. ASSUME NoLateRejection, NEW c \in Committer, NEW next,
               commit' = [commit EXCEPT ![c] = next], next.records = NoRecords
        PROVE  LoadedNotRejected'
      BY <2>3, <2>5 DEF NoRecords
  <2>6. NoCommit.records = NoRecords
      BY DEF NoCommit
  <2>7. ASSUME NoLateRejection, NEW c \in Committer, CommitStep(c)
        PROVE  LoadedNotRejected'
    <3>1. CASE \E ids \in IdLists : LoadByIds(c, ids)
        BY <2>4, <2>7, <3>1, Lists DEF LoadByIds
    <3>2. CASE \E sessions \in {SessionId} \cup {{s} : s \in SessionId} :
                   LoadBySession(c, sessions)
        BY <2>4, <2>7, <3>2, Lists DEF LoadBySession
    <3>3. CASE Fail(c) \/ FailLocked(c)
      <4>1. PICK o : commit' = [commit EXCEPT ![c] =
                          [NoCommit EXCEPT !.phase = "failed", !.failing = o]]
          BY <3>3 DEF Fail, FailLocked, RollBack
      <4>2. [NoCommit EXCEPT !.phase = "failed", !.failing = o].records = NoRecords
          BY DEF NoCommit
      <4> QED BY <2>5, <2>7, <4>1, <4>2
    <3>4. CASE ApplyOperations(c) \/ ApplyBundle(c) \/ MarkFailed(c) \/ Crash(c)
      <4>1. commit' = [commit EXCEPT ![c] = NoCommit]
          BY <3>4 DEF ApplyOperations, ApplyBundle, Finish, MarkFailed, Crash
      <4> QED BY <2>5, <2>6, <2>7, <4>1
    <3> QED BY <2>7, <3>1, <3>2, <3>3, <3>4 DEF CommitStep
  <2> QED BY <1>2, <2>1, <2>2, <2>7
          DEF Next, CreateBatch, Mark, ReviewStep, FindPending, DecideBatch
<1>3. ASSUME IInv, LoadedNotRejected, [Next]_vars
      PROVE  [\A p \in applied' \ applied : operations[p[1]].state # "rejected"]_vars
  <2>1. ASSUME NEW c \in Committer, ApplyOperations(c) \/ ApplyBundle(c)
        PROVE  \A p \in applied' \ applied : operations[p[1]].state # "rejected"
    <3>1. PICK id : Finish(c, id)
        BY <2>1 DEF ApplyOperations, ApplyBundle
    <3> QED BY <1>3, <3>1 DEF Finish, LoadedNotRejected
  <2>2. CASE applied' = applied
      BY <2>2
  <2> QED BY <1>3, <2>1, <2>2
          DEF Next, CreateBatch, Mark, ReviewStep, FindPending, DecideBatch, CommitStep, vars,
              LoadByIds, LoadBySession, Load, Fail, FailLocked, RollBack, MarkFailed, Crash
<1> QED BY <1>1, <1>2, <1>3, Invariant, PTL DEF Spec, RejectedIsNotApplied

\* A commit applies every operation it loaded, or none, and none again.
THEOREM AtomicCommits == Spec => CommitIsAtomic
<1> DEFINE
      Done(c) == {commit[c].records[i].op : i \in DOMAIN commit[c].records}
      Atomic(c) == /\ Done(c) # {}
                   /\ \A o \in Done(c) : operations'[o].state = "committed"
                   /\ {p[1] : p \in applied' \ applied} = Done(c)
<1>1. ASSUME IInv, [Next]_vars, Commits
      PROVE  \E c \in Committer : Atomic(c)
  <2>1. \E c \in Committer : ApplyOperations(c) \/ ApplyBundle(c)
    <3>1. CASE tables' # tables
        BY <1>1, <3>1, Zenon
           DEF Next, CreateBatch, Mark, ReviewStep, FindPending, DecideBatch, CommitStep,
               LoadByIds, LoadBySession, Load, Fail, FailLocked, RollBack, MarkFailed, Crash,
               vars, tables
    <3>2. ASSUME NEW o \in Operation, operations[o].state \notin {"absent", "committed"},
                 operations'[o].state = "committed"
          PROVE  \E c \in Committer : ApplyOperations(c) \/ ApplyBundle(c)
      <4>1. operations \in [Operation -> [state : ApprovalState \cup {"absent"},
                                         target : Object \cup {NoObject}]]
          BY <1>1 DEF IInv, TypeOK
      <4>2. operations' # operations
          BY <3>2
      <4>3. ASSUME NEW batch \in IdLists, CreateBatch(batch) PROVE FALSE
          BY <3>2, <4>3 DEF CreateBatch
      <4>4. ASSUME NEW q \in Operation, NEW state \in {"approved", "rejected"}, Mark(q, state)
            PROVE  FALSE
          BY <3>2, <4>1, <4>4 DEF Mark
      <4>5. ASSUME NEW v \in Reviewer, ReviewStep(v) PROVE FALSE
        <5>1. PICK state \in {"approved", "rejected"} : DecideBatch(v, state)
            BY <4>2, <4>5 DEF ReviewStep, FindPending
        <5> QED BY <3>2, <4>1, <5>1 DEF DecideBatch
      <4>6. ASSUME NEW c \in Committer, MarkFailed(c) PROVE FALSE
          BY <3>2, <4>1, <4>6 DEF MarkFailed
      <4> QED BY <1>1, <4>2, <4>3, <4>4, <4>5, <4>6, Zenon
              DEF Next, CommitStep, LoadByIds, LoadBySession, Load, Fail, FailLocked, RollBack,
                  Crash, vars
    <3> QED BY <1>1, <3>1, <3>2 DEF Commits
  <2>2. PICK c \in Committer : \E id : Inserts(c, id)
      BY <1>1, <2>1, ApplyOperationsInserts, ApplyBundleInserts DEF IInv
  <2>3. PICK id : Inserts(c, id)
      BY <2>2
  <2> DEFINE records == commit[c].records
             rows == {<<records[i].op, id[i]>> : i \in DOMAIN records}
  <2>4. /\ operations' = Committed(records, id)
        /\ applied' = applied \cup rows
      BY <2>3 DEF Inserts, Finish
  <2>5. \A i \in DOMAIN records : records[i].op \in Operation
      BY <1>1, LoadedType DEF IInv
  <2>6. \A o \in Done(c) : operations'[o].state = "committed"
      BY <2>4, <2>5 DEF Committed
  <2>7. \A i \in DOMAIN records : <<records[i].op, id[i]>> \notin applied
      BY <1>1, <2>3 DEF Inserts, IInv, RowsAreKept
  <2>8. applied' \ applied = rows
      BY <2>4, <2>7
  <2>9. {p[1] : p \in rows} = Done(c)
    <3>1. \A p \in rows : p[1] \in Done(c)
        OBVIOUS
    <3>2. \A i \in DOMAIN records :
              <<records[i].op, id[i]>> \in rows /\ <<records[i].op, id[i]>>[1] = records[i].op
        OBVIOUS
    <3>3. \A o \in Done(c) : \E p \in rows : p[1] = o
        BY <3>2
    <3> QED BY <3>1, <3>3
  <2>10. Done(c) # {}
    <3>1. CASE DOMAIN records # {}
        BY <3>1
    <3>2. CASE DOMAIN records = {}
      <4>1. UNCHANGED tables
          BY <2>3, <3>2 DEF Inserts, tables
      <4>2. \A o \in Operation : operations'[o] = operations[o]
          BY <2>4, <3>2 DEF Committed
      <4> QED BY <1>1, <4>1, <4>2 DEF Commits
    <3> QED BY <3>1, <3>2
  <2> QED BY <2>6, <2>8, <2>9, <2>10
<1>2. IInv /\ [Next]_vars => (Commits => \E c \in Committer : Atomic(c))
    BY <1>1
<1> QED BY <1>2, Invariant, PTL DEF Spec, CommitIsAtomic

-----------------------------------------------------------------------------
(* The ledger of operations.                                               *)

Batch(c) == {commit[c].records[i].op : i \in DOMAIN commit[c].records}

Tables == [create_assumption |-> assumptions, create_execution_run |-> runs,
           create_execution_outbox |-> outboxes]

\* The record of the tables is a function on the kinds that make objects.
LEMMA TablesAreByKind ==
    /\ Tables = [k \in Ledger!Maker |-> Tables[k]]
    /\ Tables' = [k \in Ledger!Maker |-> Tables'[k]]
<1>1. ASSUME NEW a, NEW b, NEW d, NEW r,
             r = [create_assumption |-> a, create_execution_run |-> b,
                  create_execution_outbox |-> d]
      PROVE  r = [k \in Ledger!Maker |-> r[k]]
    BY <1>1 DEF Ledger!Maker
<1> QED BY <1>1 DEF Tables

LEMMA ApplyOperationsRefines ==
    ASSUME IInv, NEW c \in Committer, ApplyOperations(c)
    PROVE  Ledger!LedgerNext
<1> DEFINE records == commit[c].records
<1>1. PICK id : Inserts(c, id) /\ MakesAssumptions(c, id)
    BY ApplyOperationsInserts DEF IInv
<1> DEFINE f == [o \in Batch(c) |-> id[CHOOSE i \in DOMAIN records : records[i].op = o]]
<1>2. /\ id \in [DOMAIN records -> Object]
      /\ \A i, j \in DOMAIN records : records[i].op = records[j].op => i = j
      /\ \A i \in DOMAIN records : Kind[records[i].op] = "create_assumption"
    BY <1>1 DEF Inserts, MakesAssumptions
<1>3. \A i \in DOMAIN records : records[i].op \in Batch(c) /\ f[records[i].op] = id[i]
    BY <1>2 DEF Batch
<1>4. ASSUME NEW o \in Batch(c)
      PROVE  /\ o \in Operation /\ Kind[o] = "create_assumption"
             /\ \E i \in DOMAIN records : o = records[i].op /\ f[o] = id[i]
  <2>1. PICK i \in DOMAIN records : o = records[i].op
      BY DEF Batch
  <2>2. f[o] = id[i]
      BY <1>3, <2>1
  <2>3. o \in Operation
      BY <2>1, LoadedType DEF IInv
  <2> QED BY <1>2, <2>1, <2>2, <2>3
<1> HIDE DEF f
<1>5. f \in [Batch(c) -> Object]
    BY <1>2, <1>4 DEF f
<1>6. \A o \in Batch(c) : (NeedsReview[o] => o \in reviewed) /\ f[o] \notin assumptions
  <2>1. \A i \in DOMAIN records : NeedsReview[records[i].op] => records[i].op \in reviewed
      BY LoadedType DEF IInv, LoadedGoverned, Governed, CommittableStates, NeedsReview
  <2>2. \A i \in DOMAIN records : ~InTables(records[i].op, id[i], assumptions, runs)
      BY <1>1 DEF Inserts
  <2> QED BY <1>4, <2>1, <2>2 DEF InTables
<1>7. \A o, p \in Batch(c) : f[o] = f[p] => o = p
    BY <1>1, <1>2, <1>4 DEF Inserts
<1>8. applied' = applied \cup {<<o, f[o]>> : o \in Batch(c)} /\ reviewed' = reviewed
  <2>1. applied' = applied \cup {<<records[i].op, id[i]>> : i \in DOMAIN records}
        /\ reviewed' = reviewed
      BY <1>1 DEF Inserts, Finish
  <2>2. {<<records[i].op, id[i]>> : i \in DOMAIN records} = {<<o, f[o]>> : o \in Batch(c)}
      BY <1>3, <1>4
  <2> QED BY <2>1, <2>2
<1>9. assumptions' = assumptions \cup {f[o] : o \in Batch(c)}
  <2>1. Range(id) = {f[o] : o \in Batch(c)}
      BY <1>2, <1>3, <1>4 DEF Range
  <2> QED BY <1>1, <2>1 DEF MakesAssumptions
<1>10. Tables' = [k \in Ledger!Maker |->
                     Tables[k] \cup {f[o] : o \in {p \in Batch(c) : Kind[p] = k}}]
  <2>1. {p \in Batch(c) : Kind[p] = "create_assumption"} = Batch(c)
      BY <1>4
  <2>2. /\ {p \in Batch(c) : Kind[p] = "create_execution_run"} = {}
        /\ {p \in Batch(c) : Kind[p] = "create_execution_outbox"} = {}
      BY <1>4
  <2>3. runs' = runs /\ outboxes' = outboxes
      BY <1>1 DEF MakesAssumptions
  <2>4. \A k \in Ledger!Maker :
            Tables'[k] = Tables[k] \cup {f[o] : o \in {p \in Batch(c) : Kind[p] = k}}
      BY <1>9, <2>1, <2>2, <2>3 DEF Tables, Ledger!Maker
  <2> QED BY <2>4, TablesAreByKind
<1>11. Ledger!Apply(Batch(c), f)
    BY <1>4, <1>6, <1>7, <1>8, <1>10 DEF Ledger!Apply, Ledger!WellFormed, Tables
<1>12. Batch(c) \in SUBSET Operation
    BY <1>4
<1> QED BY <1>5, <1>11, <1>12 DEF Ledger!LedgerNext

LEMMA ApplyBundleRefines ==
    ASSUME IInv, NEW c \in Committer, ApplyBundle(c)
    PROVE  Ledger!LedgerNext
<1> DEFINE records == commit[c].records
<1>1. PICK run, id, b : run \in Object /\ Inserts(c, id) /\ MakesAttempt(c, id, run, b)
    BY ApplyBundleInserts DEF IInv
<1> DEFINE f == [o \in Batch(c) |-> run]
<1>2. /\ b \in DOMAIN IntentOf /\ Batch(c) = {b, IntentOf[b]}
      /\ Kind[b] = "create_execution_outbox" /\ Kind[IntentOf[b]] = "create_execution_run"
      /\ runs' = runs \cup {run} /\ outboxes' = outboxes \cup {run}
      /\ assumptions' = assumptions
    BY <1>1 DEF MakesAttempt, Batch
<1>3. \A i \in DOMAIN records : id[i] = run
    BY <1>1 DEF MakesAttempt
<1>4. b \in Batch(c) /\ IntentOf[b] \in Batch(c)
    BY <1>2
<1>5. Batch(c) \in SUBSET Operation
    BY LoadedType DEF Batch, IInv
<1>6. run \notin runs /\ run \notin outboxes
  <2>1. PICK i \in DOMAIN records : records[i].op = IntentOf[b]
      BY <1>4 DEF Batch
  <2>2. run \notin runs
      BY <1>1, <1>2, <1>3, <2>1 DEF Inserts, InTables, ExecutionKind
  <2> QED BY <2>2 DEF IInv, AttemptHasIntent
<1>7. \A o \in Batch(c) : NeedsReview[o] => o \in reviewed
  <2>1. \A i \in DOMAIN records : records[i].state = "not_required"
      BY DEF ApplyBundle, BundleAdmissible
  <2>2. \A o \in Batch(c) : ~NeedsApproval[o]
      BY <2>1 DEF Batch, IInv, LoadedGoverned, Governed
  <2> QED BY <1>5, <2>2 DEF NeedsReview
<1>8. applied' = applied \cup {<<o, f[o]>> : o \in Batch(c)} /\ reviewed' = reviewed
  <2>1. applied' = applied \cup {<<records[i].op, id[i]>> : i \in DOMAIN records}
        /\ reviewed' = reviewed
      BY <1>1 DEF Inserts, Finish
  <2>2. {<<records[i].op, id[i]>> : i \in DOMAIN records} = {<<o, f[o]>> : o \in Batch(c)}
      BY <1>3 DEF Batch
  <2> QED BY <2>1, <2>2
<1>9. f[b] = run /\ f[IntentOf[b]] = run /\ f \in [Batch(c) -> Object]
    BY <1>1, <1>4
<1>10. Tables' = [k \in Ledger!Maker |->
                     Tables[k] \cup {f[o] : o \in {p \in Batch(c) : Kind[p] = k}}]
  <2>1. {p \in Batch(c) : Kind[p] = "create_assumption"} = {}
      BY <1>2
  <2>2. /\ {p \in Batch(c) : Kind[p] = "create_execution_run"} = {IntentOf[b]}
        /\ {p \in Batch(c) : Kind[p] = "create_execution_outbox"} = {b}
      BY <1>2
  <2>3. /\ {f[o] : o \in {IntentOf[b]}} = {run}
        /\ {f[o] : o \in {b}} = {run}
      BY <1>9
  <2> HIDE DEF f
  <2>4. \A k \in Ledger!Maker :
            Tables'[k] = Tables[k] \cup {f[o] : o \in {p \in Batch(c) : Kind[p] = k}}
      BY <1>2, <2>1, <2>2, <2>3 DEF Tables, Ledger!Maker
  <2> QED BY <2>4, TablesAreByKind
<1> HIDE DEF f
<1>11. \A o \in Batch(c) : f[o] \notin Tables[Kind[o]]
    BY <1>2, <1>6, <1>9 DEF Tables
<1>12. \A o, p \in Batch(c) : Kind[o] = Kind[p] => o = p
    BY <1>2
<1>13. Ledger!WellFormed(Batch(c), f)
    BY <1>2, <1>9 DEF Ledger!WellFormed
<1>14. Ledger!Apply(Batch(c), f)
    BY <1>7, <1>8, <1>10, <1>11, <1>12, <1>13 DEF Ledger!Apply, Tables
<1> QED BY <1>5, <1>9, <1>14 DEF Ledger!LedgerNext

\* A review is an approval, of nothing when it rejects.
LEMMA ReviewRefines ==
    ASSUME NEW S \in SUBSET Operation, reviewed' = reviewed \cup S,
           UNCHANGED <<tables, applied>>
    PROVE  Ledger!LedgerNext
<1>1. Ledger!Approve(S)
    BY DEF Ledger!Approve, tables
<1> QED BY <1>1 DEF Ledger!LedgerNext

\* The commit boundary implements the ledger: however commits, reviews and crashes
\* interleave, objects appear in whole batches of operations no review is missing for.
THEOREM Refinement == Spec => ImplementsLedger
<1>1. Init => Ledger!LedgerInit
  <2>1. Init => Tables = [k \in Ledger!Maker |-> {}]
    <3> SUFFICES ASSUME Init PROVE Tables = [k \in Ledger!Maker |-> {}]
        OBVIOUS
    <3>1. \A k \in Ledger!Maker : Tables[k] = {}
        BY DEF Init, Tables, Ledger!Maker
    <3> QED BY <3>1, TablesAreByKind
  <2> QED BY <2>1 DEF Init, Ledger!LedgerInit, Tables
<1>2. IInv /\ [Next]_vars => [Ledger!LedgerNext]_(Ledger!ledgerVars)
  <2> SUFFICES ASSUME IInv, [Next]_vars
               PROVE  Ledger!LedgerNext \/ UNCHANGED <<reviewed, applied, tables>>
      BY DEF Ledger!ledgerVars, tables
  <2>1. ASSUME NEW batch \in IdLists, CreateBatch(batch)
        PROVE  UNCHANGED <<reviewed, applied, tables>>
      BY <2>1 DEF CreateBatch
  <2>2. ASSUME NEW o \in Operation, NEW state \in {"approved", "rejected"}, Mark(o, state)
        PROVE  Ledger!LedgerNext
    <3>1. {} \in SUBSET Operation /\ {o} \in SUBSET Operation
        OBVIOUS
    <3>2. /\ reviewed' = reviewed \cup {} \/ reviewed' = reviewed \cup {o}
          /\ UNCHANGED <<tables, applied>>
        BY <2>2 DEF Mark
    <3> QED BY <3>1, <3>2, ReviewRefines
  <2>3. ASSUME NEW v \in Reviewer, ReviewStep(v)
        PROVE  Ledger!LedgerNext \/ UNCHANGED <<reviewed, applied, tables>>
    <3>1. ASSUME NEW state, DecideBatch(v, state) PROVE Ledger!LedgerNext
      <4>1. review[v] \in SUBSET Operation /\ {} \in SUBSET Operation
          BY DEF IInv, TypeOK
      <4>2. /\ reviewed' = reviewed \cup {} \/ reviewed' = reviewed \cup review[v]
            /\ UNCHANGED <<tables, applied>>
          BY <3>1 DEF DecideBatch
      <4> QED BY <4>1, <4>2, ReviewRefines
    <3> QED BY <2>3, <3>1 DEF ReviewStep, FindPending
  <2>4. ASSUME NEW c \in Committer, CommitStep(c)
        PROVE  Ledger!LedgerNext \/ UNCHANGED <<reviewed, applied, tables>>
      BY <2>4, ApplyOperationsRefines, ApplyBundleRefines
         DEF CommitStep, LoadByIds, LoadBySession, Load, Fail, FailLocked, RollBack, MarkFailed,
             Crash
  <2> QED BY <2>1, <2>2, <2>3, <2>4 DEF Next, vars, tables
<1> QED BY <1>1, <1>2, Invariant, PTL DEF Spec, ImplementsLedger, Ledger!LedgerSpec

\* What any implementation of the ledger has: every object has one source, which a
\* reviewer approved if it had to be, and an attempt has an intent.
LedgerInv ==
    /\ \A p \in applied : Kind[p[1]] \in Ledger!Maker /\ p[2] \in Tables[Kind[p[1]]]
    /\ OneSourcePerRow
    /\ ReviewGoverns
    /\ AttemptHasIntent

\* The ledger is no weaker than the invariants it stands for.
THEOREM LedgerSuffices ==
    ImplementsLedger => [](OneSourcePerRow /\ ReviewGoverns /\ AttemptHasIntent)
<1>1. Ledger!LedgerInit => LedgerInv
  <2> SUFFICES ASSUME Ledger!LedgerInit PROVE LedgerInv
      OBVIOUS
  <2>1. Tables = [k \in Ledger!Maker |-> {}]
      BY DEF Ledger!LedgerInit, Tables
  <2>2. runs = Tables["create_execution_run"] /\ outboxes = Tables["create_execution_outbox"]
      BY DEF Tables
  <2>3. runs = {} /\ outboxes = {}
      BY <2>1, <2>2 DEF Ledger!Maker
  <2> QED BY <2>3 DEF Ledger!LedgerInit, LedgerInv, OneSourcePerRow, ReviewGoverns,
                      AttemptHasIntent
<1>2. LedgerInv /\ [Ledger!LedgerNext]_(Ledger!ledgerVars) => LedgerInv'
  <2> SUFFICES ASSUME LedgerInv, [Ledger!LedgerNext]_(Ledger!ledgerVars)
               PROVE  LedgerInv'
      OBVIOUS
  <2>1. ASSUME UNCHANGED <<reviewed, applied, Tables>> \/ \E S : Ledger!Approve(S)
        PROVE  LedgerInv'
    <3>1. Tables' = Tables /\ applied' = applied /\ reviewed \subseteq reviewed'
        BY <2>1 DEF Ledger!Approve, Tables
    <3>2. /\ runs = Tables.create_execution_run /\ runs' = Tables'.create_execution_run
          /\ outboxes = Tables.create_execution_outbox
          /\ outboxes' = Tables'.create_execution_outbox
        BY DEF Tables
    <3> QED BY <3>1, <3>2 DEF LedgerInv, OneSourcePerRow, ReviewGoverns, AttemptHasIntent
  <2>2. ASSUME NEW batch \in SUBSET Operation, NEW id \in [batch -> Object],
               Ledger!Apply(batch, id)
        PROVE  LedgerInv'
    <3> DEFINE Made(k) == {id[o] : o \in {p \in batch : Kind[p] = k}}
               made == {<<o, id[o]>> : o \in batch}
    <3>1. /\ applied' = applied \cup made /\ reviewed' = reviewed
          /\ Tables' = [k \in Ledger!Maker |-> Tables[k] \cup Made(k)]
        BY <2>2 DEF Ledger!Apply, Tables
    <3>2. \A o \in batch : /\ NeedsReview[o] => o \in reviewed
                          /\ id[o] \notin Tables[Kind[o]]
        BY <2>2 DEF Ledger!Apply, Tables
    <3>3. \A o \in batch : Kind[o] \in Ledger!Maker
        BY <2>2 DEF Ledger!Apply, Ledger!WellFormed, Ledger!Maker
    <3>4. \A k \in Ledger!Maker : Tables'[k] = Tables[k] \cup Made(k)
        BY <3>1
    <3>5. \A o \in batch : id[o] \in Made(Kind[o])
        OBVIOUS
    <3>6. \A p \in applied' : Kind[p[1]] \in Ledger!Maker /\ p[2] \in Tables'[Kind[p[1]]]
      <4>1. ASSUME NEW p \in applied
            PROVE  Kind[p[1]] \in Ledger!Maker /\ p[2] \in Tables'[Kind[p[1]]]
          BY <3>4 DEF LedgerInv
      <4>2. ASSUME NEW o \in batch
            PROVE  Kind[o] \in Ledger!Maker /\ id[o] \in Tables'[Kind[o]]
          BY <3>3, <3>4, <3>5
      <4>3. ASSUME NEW p \in made
            PROVE  Kind[p[1]] \in Ledger!Maker /\ p[2] \in Tables'[Kind[p[1]]]
        <5>1. PICK o \in batch : p = <<o, id[o]>>
            OBVIOUS
        <5>2. p[1] = o /\ p[2] = id[o]
            BY <5>1
        <5> QED BY <4>2, <5>2
      <4> QED BY <3>1, <4>1, <4>3
    <3>7. OneSourcePerRow'
      <4> SUFFICES ASSUME NEW p \in applied', NEW q \in applied',
                          p[2] = q[2], Kind[p[1]] = Kind[q[1]]
                   PROVE  p[1] = q[1]
          BY DEF OneSourcePerRow
      <4>1. \A r \in applied : r[2] \in Tables[Kind[r[1]]]
          BY DEF LedgerInv
      <4>2. \A r \in made : r[2] \notin Tables[Kind[r[1]]]
          BY <3>2
      <4>3. CASE p \in applied /\ q \in applied
          BY <4>3 DEF LedgerInv, OneSourcePerRow
      <4>4. CASE p \in made /\ q \in made
          BY <2>2, <4>4 DEF Ledger!Apply
      <4> QED BY <3>1, <4>1, <4>2, <4>3, <4>4
    <3>8. ReviewGoverns'
        BY <3>1, <3>2 DEF LedgerInv, ReviewGoverns
    <3>9. /\ Made("create_execution_run") = Made("create_execution_outbox")
          /\ \A x \in Made("create_execution_run") : \E b \in DOMAIN IntentOf :
                 <<b, x>> \in made /\ <<IntentOf[b], x>> \in made
      <4>1. CASE \A o \in batch : Kind[o] = "create_assumption"
          BY <4>1
      <4>2. CASE ~\A o \in batch : Kind[o] = "create_assumption"
        <5>1. PICK b \in DOMAIN IntentOf : /\ batch = {b, IntentOf[b]}
                                  /\ Kind[b] = "create_execution_outbox"
                                  /\ Kind[IntentOf[b]] = "create_execution_run"
                                  /\ id[b] = id[IntentOf[b]]
            BY <2>2, <4>2 DEF Ledger!Apply, Ledger!WellFormed
        <5>2. /\ {p \in batch : Kind[p] = "create_execution_run"} = {IntentOf[b]}
              /\ {p \in batch : Kind[p] = "create_execution_outbox"} = {b}
            BY <5>1
        <5>3. {id[o] : o \in {IntentOf[b]}} = {id[b]} /\ {id[o] : o \in {b}} = {id[b]}
            BY <5>1
        <5>4. Made("create_execution_run") = {id[b]} /\ Made("create_execution_outbox") = {id[b]}
            BY <5>2, <5>3
        <5>5. <<b, id[b]>> \in made /\ <<IntentOf[b], id[b]>> \in made
            BY <5>1
        <5> QED BY <5>4, <5>5
      <4> QED BY <4>1, <4>2
    <3>10. /\ runs = Tables["create_execution_run"]
           /\ outboxes = Tables["create_execution_outbox"]
           /\ runs' = Tables'["create_execution_run"]
           /\ outboxes' = Tables'["create_execution_outbox"]
        BY DEF Tables
    <3>11. AttemptHasIntent'
      <4> HIDE DEF Made, made
      <4>1. /\ runs' = runs \cup Made("create_execution_run")
            /\ outboxes' = outboxes \cup Made("create_execution_outbox")
          BY <3>4, <3>10 DEF Ledger!Maker
      <4> QED BY <3>1, <3>9, <4>1 DEF LedgerInv, AttemptHasIntent
    <3> QED BY <3>6, <3>7, <3>8, <3>11 DEF LedgerInv
  <2> QED BY <2>1, <2>2 DEF Ledger!LedgerNext, Ledger!ledgerVars, Tables
<1>3. LedgerInv => OneSourcePerRow /\ ReviewGoverns /\ AttemptHasIntent
    BY DEF LedgerInv
<1> QED BY <1>1, <1>2, <1>3, PTL DEF ImplementsLedger, Ledger!LedgerSpec

=============================================================================
