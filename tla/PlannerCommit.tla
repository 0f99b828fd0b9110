--------------------------- MODULE PlannerCommit ---------------------------
(***************************************************************************)
(* PlannerOperations, from proposal through review to the atomic commit    *)
(* that applies them: the planner_operations table, the writes of          *)
(* PlannerOperationRepository, and commit_planner_operations.              *)
(*                                                                         *)
(* SQLite takes its write lock at a session's first write, so a commit is  *)
(* split where its reads end: it loads the operations, then applies them   *)
(* to the tables as they are by then; the mark it leaves after a failed    *)
(* attempt is a transaction of its own.                                    *)
(***************************************************************************)
EXTENDS Naturals, Sequences, Functions

CONSTANTS
    Operation,      \* operation_id values
    Kind,           \* [Operation -> OperationKind]
    Named,          \* the id its payload, or else its target, names, or NoObject
    NeedsApproval,  \* requires_user_approval
    GivenState,     \* the approval_state an operation is proposed with
    SessionOf,      \* session_id
    ByCreation,     \* the operations in the order of their created_at
    IntentOf,       \* [outbox operations -> the run operation it matches]
    Object,         \* ids of assumptions and of execution runs
    Fresh,          \* those that only uuid4 draws
    Committer,      \* sessions that commit operations
    Reviewer,       \* sessions that review a batch
    SessionId,
    IdLists,        \* the lists of operations that are created, reviewed and committed
    NoObject, NoOperation

\* "unsupported" stands for the kinds that raise whatever their payload.
OperationKind == {"create_assumption", "create_execution_run",
                  "create_execution_outbox", "unsupported"}
ExecutionKind == {"create_execution_run", "create_execution_outbox"}
ApprovalState == {"not_required", "pending", "approved", "rejected", "committed",
                  "failed"}
\* Seeded fault: a commit applies what is still to be reviewed.
PendingToo == {"approved", "not_required", "pending"}
CommittableStates == {"approved", "not_required"}

ASSUME CommitAssumption ==
    /\ Kind \in [Operation -> OperationKind]
    /\ Named \in [Operation -> Object \cup {NoObject}]
    /\ NeedsApproval \in [Operation -> BOOLEAN]
    /\ GivenState \in [Operation -> ApprovalState]
    /\ \A o \in Operation : NeedsApproval[o] => GivenState[o] # "not_required"
    /\ SessionOf \in [Operation -> SessionId]
    /\ Fresh \subseteq Object
    /\ \A o \in Operation : Named[o] \notin Fresh
    /\ \A o \in Operation : Kind[o] \in ExecutionKind => Named[o] # NoObject
    /\ \A o \in DOMAIN IntentOf : IntentOf[o] \in Operation /\ Named[o] = Named[IntentOf[o]]
    /\ ByCreation \in Seq(Operation)
    /\ IdLists \subseteq Seq(Operation)
    /\ NoObject \notin Object /\ NoOperation \notin Operation

VARIABLES
    operations,   \* planner_operations: state and target of each row
    assumptions,  \* ids of the assumptions table
    runs,         \* ids of the execution_runs table
    outboxes,     \* execution_run_ids of the execution_outbox table
    commit,       \* what each committer has loaded
    review,       \* the batch each reviewer found pending
    applied,      \* history: <<operation, id>> for every row a commit inserted
    reviewed      \* history: the operations a reviewer approved

vars == <<operations, assumptions, runs, outboxes, commit, review, applied,
          reviewed>>
tables == <<assumptions, runs, outboxes>>

AbsentOperation == [state |-> "absent", target |-> NoObject]
Record == [op : Operation, state : CommittableStates, target : Object \cup {NoObject}]

\* What a commit works on keeps its place in the list it was read from.
Place == UNION {DOMAIN list : list \in IdLists \cup {ByCreation}}
Loadable == UNION {[places -> Record] : places \in SUBSET Place}
NoRecords == [i \in {} |-> NoOperation]
NoCommit == [phase |-> "idle", records |-> NoRecords, failing |-> NoOperation]

TypeOK ==
    /\ operations \in [Operation -> [state : ApprovalState \cup {"absent"},
                                     target : Object \cup {NoObject}]]
    /\ assumptions \subseteq Object /\ runs \subseteq Object /\ outboxes \subseteq Object
    /\ commit \in [Committer -> [phase : {"idle", "loaded", "failed"}, records : Loadable,
                                  failing : Operation \cup {NoOperation}]]
    /\ review \in [Reviewer -> SUBSET Operation]
    /\ applied \subseteq Operation \X Object
    /\ reviewed \subseteq Operation

Init ==
    /\ operations = [o \in Operation |-> AbsentOperation]
    /\ assumptions = {} /\ runs = {} /\ outboxes = {}
    /\ commit = [c \in Committer |-> NoCommit]
    /\ review = [v \in Reviewer |-> {}]
    /\ applied = {}
    /\ reviewed = {}

-----------------------------------------------------------------------------
\* PlannerOperationRepository.

\* The validator makes a pending operation that needs no approval not_required; any
\* other state is stored as it was given, approved and committed included.
FirstState(o) ==
    IF ~NeedsApproval[o] /\ GivenState[o] = "pending" THEN "not_required" ELSE GivenState[o]

\* create, and create_batch in one transaction: refused when an operation exists
\* already.
CreateBatch(batch) ==
    /\ IsInjective(batch)
    /\ \A o \in Range(batch) : operations[o].state = "absent"
    /\ operations' = [o \in Operation |->
           IF o \in Range(batch)
           THEN [AbsentOperation EXCEPT !.state = FirstState(o)]
           ELSE operations[o]]
    /\ UNCHANGED <<tables, commit, review, applied, reviewed>>

\* approve_operation and reject_operation: the row gets the state, whatever
\* state it was in.
Mark(o, state) ==
    /\ operations[o].state # "absent"
    /\ operations' = [operations EXCEPT ![o].state = state]
    /\ reviewed' = IF state = "approved" THEN reviewed \cup {o} ELSE reviewed
    /\ UNCHANGED <<tables, commit, review, applied>>

\* set_approval_state_batch reads every row and compares its state, ...
FindPending(v, batch) ==
    /\ review[v] = {}
    /\ \A o \in batch : operations[o].state = "pending"
    /\ review' = [review EXCEPT ![v] = batch]
    /\ UNCHANGED <<operations, tables, commit, applied, reviewed>>

\* ... then writes the new state, with no condition on the rows as they are now.
DecideBatch(v, state) ==
    /\ review[v] # {}
    /\ operations' = [o \in Operation |->
           IF o \in review[v] THEN [operations[o] EXCEPT !.state = state]
           ELSE operations[o]]
    /\ reviewed' = IF state = "approved" THEN reviewed \cup review[v] ELSE reviewed
    /\ review' = [review EXCEPT ![v] = {}]
    /\ UNCHANGED <<tables, commit, applied>>

-----------------------------------------------------------------------------
\* commit_planner_operations.

\* The columns of an operation's row as a commit reads them.
Read(o) == [op |-> o, state |-> operations[o].state, target |-> operations[o].target]

\* Seeded fault: a list is not filtered by state.
AnyState(list) == [i \in DOMAIN list |-> Read(list[i])]

\* The committable ones of a list of operations, with the columns as read.
Committable(list) ==
    [i \in {i \in DOMAIN list : operations[list[i]].state \in CommittableStates} |->
        Read(list[i])]

Load(c, list) ==
    /\ commit[c].phase = "idle"
    /\ DOMAIN Committable(list) # {}
    /\ commit' = [commit EXCEPT ![c] = [NoCommit EXCEPT !.phase = "loaded",
                                                        !.records = Committable(list)]]
    /\ UNCHANGED <<operations, tables, review, applied, reviewed>>

\* With operation_ids, the rows in the order given.
LoadByIds(c, ids) == Load(c, ids)

\* Without, the rows of one planner session, or of all, by created_at.
LoadBySession(c, sessions) ==
    Load(c, Restrict(ByCreation, {i \in DOMAIN ByCreation : SessionOf[ByCreation[i]] \in sessions}))

HasExecution(records) == \E i \in DOMAIN records : Kind[records[i].op] \in ExecutionKind

\* The id a create_assumption payload ends up with, unless uuid4 draws one.
KnownId(record) == IF Named[record.op] # NoObject THEN Named[record.op] ELSE record.target

\* Seeded fault: no check that the id is new.
RaisesUnsupported(records, i) == Kind[records[i].op] = "unsupported"

\* The i-th operation raises: its kind cannot be applied, or the id exists,
\* inserted by an earlier commit or by an earlier operation of this one.
Raises(records, i) ==
    \/ Kind[records[i].op] = "unsupported"
    \/ KnownId(records[i]) \in assumptions
    \/ \E j \in DOMAIN records :
           /\ j < i
           /\ \/ records[j].op = records[i].op
              \/ KnownId(records[j]) = KnownId(records[i]) /\ KnownId(records[i]) # NoObject

\* Seeded fault: a run without its outbox is accepted.
RunIsNew(records) ==
    /\ \E i \in DOMAIN records : Kind[records[i].op] = "create_execution_run"
                                /\ Named[records[i].op] \notin runs
    /\ \A i \in DOMAIN records : records[i].state = "not_required"

\* _apply_execution_admission_bundle accepts exactly one run and the outbox that
\* matches it, neither of them reviewed, and a run id that is not in use.
BundleAdmissible(records) ==
    /\ \E i, j \in DOMAIN records :
           /\ DOMAIN records = {i, j}
           /\ Kind[records[i].op] = "create_execution_run"
           /\ Kind[records[j].op] = "create_execution_outbox"
           /\ records[j].op \in DOMAIN IntentOf
           /\ IntentOf[records[j].op] = records[i].op
           /\ Named[records[i].op] \notin runs
    /\ \A i \in DOMAIN records : records[i].state = "not_required"

\* Seeded fault: whatever is committable by now is marked, loaded or not.
CommittedByState(records, id) ==
    [o \in Operation |-> IF operations[o].state \in CommittableStates
                         THEN [operations[o] EXCEPT !.state = "committed"]
                         ELSE operations[o]]

\* Every loaded operation becomes committed, whatever its row says by now.
Committed(records, id) ==
    [o \in Operation |->
        IF \E i \in DOMAIN records : records[i].op = o
        THEN [state |-> "committed",
              target |-> id[CHOOSE i \in DOMAIN records : records[i].op = o]]
        ELSE operations[o]]

Finish(c, id) ==
    LET records == commit[c].records IN
    /\ operations' = Committed(records, id)
    /\ applied' = applied \cup {<<records[i].op, id[i]>> : i \in DOMAIN records}
    /\ commit' = [commit EXCEPT ![c] = NoCommit]
    /\ UNCHANGED <<review, reviewed>>

ApplyOperations(c) ==
    LET records == commit[c].records
        ids == {id \in [DOMAIN records -> Object] :
                   /\ \A i \in DOMAIN records :
                          IF KnownId(records[i]) # NoObject THEN id[i] = KnownId(records[i])
                          ELSE id[i] \in Fresh \ assumptions
                   /\ \A i, j \in DOMAIN records : id[i] = id[j] => i = j}
    IN
    /\ commit[c].phase = "loaded"
    /\ ~HasExecution(records)
    /\ \A i \in DOMAIN records : ~Raises(records, i)
    /\ \E id \in ids : /\ assumptions' = assumptions \cup Range(id)
                       /\ Finish(c, id)
    /\ UNCHANGED <<runs, outboxes>>

ApplyBundle(c) ==
    LET records == commit[c].records IN
    /\ commit[c].phase = "loaded"
    /\ HasExecution(records)
    /\ BundleAdmissible(records)
    /\ \E run \in {Named[records[i].op] : i \in DOMAIN records} :
           /\ runs' = runs \cup {run}
           /\ outboxes' = outboxes \cup {run}
           /\ Finish(c, [i \in DOMAIN records |-> run])
    /\ UNCHANGED assumptions

\* The operation that is current when a commit fails: of a bundle the last one that
\* admits an execution; of other operations the first that raises.
IsLastExecution(records, i) ==
    /\ Kind[records[i].op] \in ExecutionKind
    /\ \A j \in DOMAIN records : j > i => Kind[records[j].op] \notin ExecutionKind

IsFirstToRaise(records, i) ==
    /\ Raises(records, i)
    /\ \A j \in DOMAIN records : j < i => ~Raises(records, j)

RollBack(c, failing) ==
    /\ commit' = [commit EXCEPT ![c] = [NoCommit EXCEPT !.phase = "failed",
                                                        !.failing = failing]]
    /\ UNCHANGED <<operations, tables, review, applied, reviewed>>

\* Seeded fault: what was inserted before the failure is kept.
FailWithoutRollback(c) ==
    LET records == commit[c].records IN
    /\ commit[c].phase = "loaded"
    /\ ~HasExecution(records)
    /\ \E i \in DOMAIN records :
           /\ IsFirstToRaise(records, i)
           /\ assumptions' = assumptions \cup
                  {KnownId(records[j]) : j \in {j \in DOMAIN records : j < i}}
           /\ commit' = [commit EXCEPT ![c] = [NoCommit EXCEPT !.phase = "failed",
                                                   !.failing = records[i].op]]
    /\ UNCHANGED <<operations, runs, outboxes, review, applied, reviewed>>

\* Roll back, whatever was applied before.
Fail(c) ==
    LET records == commit[c].records IN
    /\ commit[c].phase = "loaded"
    /\ \E i \in DOMAIN records :
           /\ IF HasExecution(records)
              THEN IsLastExecution(records, i) /\ ~BundleAdmissible(records)
              ELSE IsFirstToRaise(records, i)
           /\ RollBack(c, records[i].op)

\* A write raises for a reason that is not in these tables: another session keeps the
\* database locked, or the run names a predecessor that is missing or has a successor.
\* It is the flush of any operation that could be applied, or the last commit.
FailLocked(c) ==
    LET records == commit[c].records IN
    /\ commit[c].phase = "loaded"
    /\ \E i \in DOMAIN records :
           /\ IF HasExecution(records)
              THEN IsLastExecution(records, i) /\ BundleAdmissible(records)
              ELSE \A j \in DOMAIN records : j <= i => ~Raises(records, j)
           /\ RollBack(c, records[i].op)

\* _mark_failed_after_rollback: only the current operation, whatever its state.
MarkFailed(c) ==
    /\ commit[c].phase = "failed"
    /\ operations' = [operations EXCEPT ![commit[c].failing].state = "failed"]
    /\ commit' = [commit EXCEPT ![c] = NoCommit]
    /\ UNCHANGED <<tables, review, applied, reviewed>>

\* The process ends: nothing it had not committed is left.
Crash(c) ==
    /\ commit[c].phase # "idle"
    /\ commit' = [commit EXCEPT ![c] = NoCommit]
    /\ UNCHANGED <<operations, tables, review, applied, reviewed>>

CommitStep(c) ==
    \/ \E ids \in IdLists : LoadByIds(c, ids)
    \/ \E sessions \in {SessionId} \cup {{s} : s \in SessionId} : LoadBySession(c, sessions)
    \/ ApplyOperations(c)
    \/ ApplyBundle(c)
    \/ Fail(c)
    \/ FailLocked(c)
    \/ MarkFailed(c)
    \/ Crash(c)

ReviewStep(v) ==
    \/ \E ids \in IdLists : FindPending(v, Range(ids))
    \/ \E state \in {"approved", "rejected"} : DecideBatch(v, state)

Next ==
    \/ \E batch \in IdLists : CreateBatch(batch)
    \/ \E o \in Operation, state \in {"approved", "rejected"} : Mark(o, state)
    \/ \E v \in Reviewer : ReviewStep(v)
    \/ \E c \in Committer : CommitStep(c)

Spec == Init /\ [][Next]_vars

-----------------------------------------------------------------------------
(***************************************************************************)
(* What must hold.                                                         *)
(***************************************************************************)

\* However commits race, a row has one source: no two operations insert the same.
OneSourcePerRow ==
    \A p, q \in applied :
        p[2] = q[2] /\ Kind[p[1]] = Kind[q[1]] => p[1] = q[1]

\* An attempt and its dispatch intent are inserted by the two operations of one
\* pair, together.
AttemptHasIntent ==
    /\ runs = outboxes
    /\ \A x \in runs : \E b \in DOMAIN IntentOf :
           <<b, x>> \in applied /\ <<IntentOf[b], x>> \in applied

\* The operations only a reviewer can make committable.
NeedsReview == [o \in Operation |-> NeedsApproval[o] /\ GivenState[o] # "approved"]

\* A row inserted for an operation that needs approval, and was not proposed as
\* approved, was approved by a reviewer at some time before the insert.
ReviewGoverns ==
    \A p \in applied : NeedsReview[p[1]] => p[1] \in reviewed

\* The state "committed" is durable evidence, unless it was proposed: the operation's
\* row was inserted.
CommittedIsApplied ==
    \A o \in Operation : operations[o].state = "committed" =>
        \/ GivenState[o] = "committed"
        \/ <<o, operations[o].target>> \in applied

\* All or nothing, and not again: a step that changes the tables or makes a stored
\* operation committed inserts a new row for every operation one commit loaded, and
\* marks them all committed.
Commits ==
    \/ tables' # tables
    \/ \E o \in Operation : /\ operations[o].state \notin {"absent", "committed"}
                            /\ operations'[o].state = "committed"

CommitIsAtomic ==
    [][Commits => \E c \in Committer :
          LET done == {commit[c].records[i].op : i \in DOMAIN commit[c].records} IN
          /\ done # {}
          /\ \A o \in done : operations'[o].state = "committed"
          /\ {p[1] : p \in applied' \ applied} = done]_vars

\* What a commit does to the tables is one step of the ledger of operations: a
\* whole batch, none of whose reviews is missing, of objects new where it commits.
Ledger == INSTANCE OperationLedger WITH
    approved <- reviewed,
    source <- applied,
    objects <- [create_assumption |-> assumptions, create_execution_run |-> runs,
                create_execution_outbox |-> outboxes]
ImplementsLedger == Ledger!LedgerSpec

\* Claimed by reject_operation: once an operation is rejected, no commit mutates
\* state from it.
RejectedIsNotApplied ==
    [][\A p \in applied' \ applied : operations[p[1]].state # "rejected"]_vars
=============================================================================
