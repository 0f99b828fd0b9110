# A verification project for CogniEDA

TLA+ modules that model the stateful core of CogniEDA, the TLC configurations that
check them on small instances, and proofs checked by TLAPS. Paths below are relative
to the repository root; the package is `src/cognieda/`. `PROJECT.json` lists the runs,
the source lines behind each definition (`map`), the fault seeded for each property
(`mutants`), the hazards and the theorems.

    cd tla
    tlc -workers 2 -config AttemptLeases.cfg MCExecutionAttempts
    tlapm ExecutionAttempts_proofs.tla
    tlapm PlannerCommit_proofs.tla
    tlapm PlannerLifecycle_proofs.tla
    tlapm PlanGraph_proofs.tla
    tlapm PlanAdmission_proofs.tla
    tlapm DataAdmission_proofs.tla
    tlapm Workspace_proofs.tla

## 1. Inventory

| Component | State it keeps | Operations | What is hard | What makes it correct |
|---|---|---|---|---|
| Execution attempts (`application/services/transition_service.py`, `migrations.py`) | `execution_runs`, `execution_outbox` | admit, claim, renew, mark running, release, cancel, retry; schema upgrade at start | leases that expire, workers that come back, optimistic versions, a read after the commit, a start that abandons everything | fencing, run and outbox agree, retries form chains, an ended attempt stays ended |
| PlannerOperations (`planner_commit.py`, `planner_operation_repository.py`) | `planner_operations`, `assumptions`, runs and outboxes | create, review one, review a batch, commit, mark failed | states read before the write lock is taken, failure in mid-batch, a mark after the rollback | atomic, governed by a review, one source per row |
| Planner turn (`agents/planner/`) | checkpointed `PlannerState` | start or resume a turn, propose, authorize, discard, answer, admit | a candidate and a segment kept across turns, failed admissions, a process that ends | only the Plan on view is admitted, each segment committed once |
| Plan admission (`plan_admission.py`, `plan_repository.py`, `active_plan_repository.py`) | `objectives`, `tasks`, `plans` with its membership tables, `active_plans` | check the bundle, insert what is new, insert the Plan, activate it; load a Plan; resolve the active one | checks and inserts are statements of sessions that race; a failure after any flush; waiting for the write lock | serializable, all or nothing, readable afterwards, it ends |
| Plan structure (`schemas/plan.py`) | the counters of one construction; rows of a Plan | validate, find cycles, eligible Tasks, fingerprint, rows and back | a count decides acyclicity; lists in no fixed order | agrees with the graph's cycles, never stalls, reloads equal |
| Data Explorer (`agents/data_explorer/`) | the dataset file, the result of each work | profile a candidate, profile, analyse | the file changes during the await of the planner | an observation is of the bytes its digest names |
| Data admission (`mvp_data_admission.py`) | `data_profiles`, bindings, `evidence` | admit a profile, admit Evidence | racing and repeated admissions that read before they lock | a profile describes what it is bound to, one Evidence per work, true answers |
| Workspace and commands (`runtime/workspace.py`, `runtime/commands/`, `infrastructure/agent_tooling/`) | `project.toml`, `skills.toml`, `agents.toml`, `.env`; in each process the configuration, model, skills and Agent | start, provider, model, skill and worker commands, reload | files are truncated and written again with other processes in between; a process that dies there | profiles are not half lost, a process uses what its configuration says |
| Runtime (`runtime/`) | conversation history, event subscriptions, projector buffers | submit a message, commands, reload | a handler that raises between two buffers | history holds complete turns in order |
| Session frames (`session_frame_repository.py`) | `session_frames` | append, read the current one | which frame is the latest | scopes do not mix |
| Hypothesis Analyst (`agents/hypothesis_analyst/`) | graph state of one invocation | formulate, plan, dispatch, evaluate, admit | a cycle in the graph | it ends, in a result or a failure |
| Delegation (`delegation/`) | capability to executor, cached instances | register, resolve, reload, dispatch | registration in steps | one executor per capability |
| Execution approvals (`execution_approval_repository.py`) | `execution_approvals` | create, set status | compare, then write | one decision per approval |
| Other research-object repositories, CLI, adapters | single rows | create, read, update | little | |

How they interact. `Application.submit_message` builds a `PlannerContext` from the
current session frame and the active Plan, runs one turn of the Planner graph, commits
the completed segment through the event bus, and shows the outcome. The graph's
`admit_candidate` node calls `PlanAdmissionService.admit` on the application's database
session. Work to execute enters the database as a pair of PlannerOperations (a run and
its outbox) that `commit_planner_operations` admits through
`ExecutionAttemptTransitionService.stage_admit_attempt`; dispatch workers then claim it. No
dispatch worker exists in the package yet: the transition service and the commit boundary are
libraries, and the models let any number of sessions call them in any legal order. Data work
reaches the Data Explorer through the dispatcher; its result, or a profile candidate, is
handed to the admission services, which check it against the Task, the profile and the
binding in the database. The Tasks that Plans and Evidence refer to are also written by the
repositories directly. Several processes may share the SQLite file, the dataset and the
workspace files; checkpoints and conversations are in memory.

SQLite and SQLAlchemy, as the models use them: a session reads without holding a
transaction open in the database, takes the write lock at its first write, and writes
of one session become visible together at its commit. A method is therefore one step
when its first database access is a guarded `UPDATE`, and is split where reads precede
the first write, or follow the commit, otherwise. The reads of several rows that precede
a write are one step.

## 2. The modules

| Module | Models |
|---|---|
| `AttemptLedger` | the abstract promise of the attempt protocol: opened once, held under ever newer tokens, ended for good, continued at most once |
| `ExecutionAttempts` | the transition service, the provenance repository, the schema upgrade |
| `ExecutionAttempts_proofs` | theorems about it |
| `OperationLedger` | the abstract promise of the commit boundary: objects appear in whole batches of operations a review approved, or that need none, each under a name no other source has |
| `PlannerCommit` | the PlannerOperation repository and the commit boundary |
| `PlannerCommit_proofs` | theorems about it |
| `PlannerLifecycle` | a Planner turn, its checkpoint, admission of the candidate, the history |
| `PlannerLifecycle_proofs` | theorems about it |
| `PlanGraph` | the validators of a Plan, its Task graph, its rows |
| `PlanGraph_proofs` | theorems about it |
| `PlanStore` | the abstract promise of Plan admission: a Plan appears in one step, valid where it commits |
| `PlanAdmission` | Plan admission statement by statement, with the other writers of its tables |
| `PlanAdmission_proofs` | theorems about it |
| `EvidenceStore` | the abstract promise of data admission: profiles bound once to what they describe, works that become Evidence once, nothing stored changes |
| `DataExplorer` | one unit of data work over a file others write |
| `DataAdmission` | extends it with the admission of profiles and Evidence |
| `DataAdmission_proofs` | theorems about it |
| `Workspace` | the workspace files, and the processes that edit them and live by them |
| `Workspace_proofs` | theorems about it |
| `MC...` | values of the constants for TLC, one for each module with runs |

Definitions marked "Seeded fault" are never used by a specification: each is a plausible
bug of the definition below it, which some property must expose.

### ExecutionAttempts

`run` is `execution_runs` with the columns of the protocol; an id that is not in the
table has status `absent`. `outbox` is the status of the paired row. `claim[w]` is what a
worker session knows: after `ClaimDispatch` commits it is `committed`, and only
`ReadBackClaim` (`session.get` after the commit, line 128) tells it an epoch, which may
by then be that of another session. `seen[a]` is the row an application session read and
whose version it passes to `release_expired_dispatch` or `cancel_attempt`, or the attempt
it is about to retry. `owner` and `answered` are history variables. Each guarded `UPDATE`
is one action with the guard of its `WHERE`; a call that finds no row returns `False` and
changes nothing (`DropClaim`, `ForgetView`). A comparison with a NULL lease is not true,
so `Expired` and `Unexpired` are both false without one, and at equality.
`expires > clock` in a claim or renewal: callers pass a date to come. `UpgradeOnStart` is
the `UPDATE` every `init_db` runs, in any process, while other sessions work.

A run that a commit admits or the repository records comes with the `previous_attempt_id` of
its payload, which nothing compares with anything (`planner_commit.py`, line 216;
`execution_run_repository.py`, line 35): it may name a live run, the run itself or one that is
not there. `MayFollow` is what the table refuses: a predecessor that has a successor (the unique
constraint) and, where `ForeignKey`, one that does not exist. A new database has the foreign
key; one that was upgraded (`migrations.py`, line 20) has a plain column. `Root` is the
identities brought from outside, the others are drawn by `authorize_retry`. The other protocol
columns of a recorded run (worker, lease, epoch, version) are at their defaults, as they are
wherever the package builds an `ExecutionRun`.

### PlannerCommit

`operations` holds the approval state and target of each row. `GivenState` is the state an
operation is proposed with and `FirstState` the one it is stored with: the validator refuses
only an operation that needs approval and says `not_required`, and moves one that needs none
from `pending` there. So an operation proposed as `approved` is applied although no reviewer
has seen it; `NeedsReview` is the operations of which that cannot happen. A commit is `Load` (the
rows, filtered by the state as read), then `ApplyOperations` or `ApplyBundle` in one
transaction, or `Fail`/`FailLocked` which roll back, followed by `MarkFailed` in a
transaction of its own; `Crash` ends it in between. The rows a commit works on are a
function on their places in the list they were read from (`Committable`), so that filtering
needs no new list. A failed commit marks the operation that is current when it fails: of
several that would raise the first, of an execution pair the second. A locked database may show
at any flush or at the last commit, so `FailLocked` marks any operation the commit had come to.
`Raises` is what an application raises for: the id exists, was
inserted earlier in the same commit, or a kind that cannot be applied. The update and flag
operations are of the latter kind: the update models accept no field of their payloads
and the records have no such columns, so they always raise; `unsupported` stands for
them. A batch review is `FindPending`, then
`DecideBatch`. Foreign keys and uuid4 are abstracted: fresh ids come from `Fresh`.

`OperationLedger` keeps of all this the reviewers' approvals, the objects by kind and the operation
each came from; a batch of operations makes its objects in one step. `applied` and `reviewed`, the
histories of `PlannerCommit`, are two of its variables, the tables the third.

### PlannerLifecycle

`graph[s]` is the checkpoint of process `s`: whether it is interrupted in `await_human`,
the candidate, the kind and Plan of the outcome, and the completed segment (numbered by
`spoken`; `NoSegment` is None). `Submit` is everything up to the model's answer, one
action per branch of `plan_or_answer` follows, then `AdmitCandidate` or
`RefuseCandidate` when the branch goes there, and `Emit` for what `submit_message` does
with the result. `shown` and `heard` remember the Plan proposed last, now and when the
turn's message was sent. Admission is one step: the identity checks and the write. It
may also be refused for anything else (Tasks, Assumptions, a locked database). Blank
messages, commands and tool calls are left out. A model that answers yields at least one
message. `save_current` has no caller in the package and stands for one between turns.

### PlanGraph

`candidate` is what the constructor of `Plan` is called with, by a model's answer first and
by `get_by_id` later. `Reject` stands for every validator before the graph check (duplicates,
empty or reflexive groups, foreign Tasks, endpoints that are no members). `CountEdges`,
`Visit` and `Conclude` are `_validate_dependency_graph`: `inDegree`, `ready` and `visited` are
its locals, and `done` is a history of the Tasks popped. `ready` is a set popped in any
order, since the list is filled from a dict and from sets. `Add` is what `PlanRepository.add`
writes, `Load` hands the rows back, in any order of `Listings`, grouped as the code groups
them, and `CompareFingerprint` is the last check of `get_by_id`. Sorted tuples without
duplicates are sets, and the digest is the content it digests.

### PlanStore and PlanAdmission

`db` is the committed tables, `lock` the session that holds SQLite's write lock, `image` the
tables as that session has written them. `session[s]` is where an admission stands and what its
checks found missing, which it inserts later. pysqlite opens no transaction for a `SELECT`, so
reads before the first `INSERT` can be overtaken; a step ends at each flush: `ValidateBundle`
(the checks), `StageBundle` (Objective and Tasks; no lock if nothing is new), `ValidatePlan`,
`InsertPlan`, `InsertMembers`, `InsertDependencies`, `Activate`, `Commit`. A unique key that is
taken rolls back. `Fail` is any other failure or the end of the process, `LockTimeout` the
driver's "database is locked". `CreateObjective`, `CreateAssumption`, `CreateTask` and
`UpdateTask` are the repositories' writes by other sessions. A new Task is inserted in whatever
status its candidate, or the caller of the repository, gives it: nothing in `admit`,
`PlanValidator` or `Plan` looks at it (`StageBundle`, `CreateTask`). `PlanStore` has the same
writers and one action `Admit`; a header and its rows map to the candidate whose fingerprint
they give.

### DataExplorer and DataAdmission

`file[p]` is the content at a path, changed at any time by `ChangeFile`. `work[w]` is one call
of `run`: `Refuse`, `StartAnalysis` (all before the await, the file read once),
`ExecutePlan` or `PlanningFails` after it, and `RunProfiling`, which awaits nothing. The
digest is the content itself; `Profile` maps a content to its profile, and may map two to
one. `Candidate` is every profile candidate `profile_candidate` could have returned for some
content, under any identity. `CheckCandidate`, `StageProfile` (the flush that takes the lock;
a session in phase `staged` is the sole writer) and `CommitProfile` are `admit_candidate`;
`CheckEvidence`, `AddEvidence` (the repository reads the Task again: the identity map refers
weakly to the one read before) and `CommitEvidence` are `admit`, `Replay` its answer for what
is stored. `EvidenceId` is the digest the code derives from the work.

`AddRaw` and `CommitRaw` are `EvidenceRepository.create`, which asks only for a completed Task
and a stored DataProfile. `RawEvidence` is what its callers make: on a profile that is not
bound, of bytes nobody observed, in the name of a work, under the identity a work derives. So
the table as a whole promises nothing about contents, and the properties are about what the
service answered for (`Admitted`): `EvidenceOfBoundBytes`, one Evidence for each work, and
answers that stay true. A raw row that says it is of a work makes the service refuse that work;
one under the derived identity is either the very row, which is recognised, or a conflict.

`EvidenceStore` has one action for each way the tables grow: `Store` (a raw profile), `Bind` (an
admitted candidate), `Write` (raw Evidence) and `Admit`. `admitted` maps to what the service
answered for each work (`Became`); that it is one Evidence at most, stored under an identity of
its own, is part of what the refinement shows.

### Workspace

`files` and `env` are shared. `proc[c]` is the memory of a process: the configuration and keys
it read, the Planner's model and Agent, the tooling's assignments and skills, the edits the
running command has left and the file it holds edited. An edit is `Load` (`_load_toml` and
the check that raises), `Truncate` (`open("w")`), `Dump` (`toml.dump`), and for
`project.toml` `Reread`; then `Refresh` (`_reload_runtime`, `Planner.reload`) or, for skills,
`LoadAgents`, `LoadSkills`, `Refresh`. `Start` to `CreatePlanner` is `bootstrap_application`.
Exceptions no caller handles end the REPL (`Ends`). `Turn` makes a missing Agent. A file that
was truncated reads as an empty table.

Each process writes through its own handle, at its own offset. When two have a file open and
the second writes a shorter text, the end of the first text stays behind it. `Overwritten` is what
the file may read as then: the second text alone (the two are equal, or the rest is of blank
lines), `Torn` (it does not parse, or has a key the loader does not know), or the second text
with what the rest adds to it (`Rests`): the base URL of a table that had the default one, or
whole tables of skills or workers it lacks. Which of these it is depends on the lengths of names,
so all are possible. A process that reads a torn file ends.

## 3. Runs

| Run | Instance | Properties |
|---|---|---|
| `attempt_leases` | 1 attempt, with any predecessor, and its retry, 3 workers (two share a worker_id), 1 application session, clock to 2, version to 3, no foreign key | `TypeOK`, `IntentMatchesAttempt`, `EpochFences`, `EndsOnlyAsSeen`, `ImplementsLedger` |
| `attempt_retries` | 2 runs from outside, with any predecessors, and a retry, 1 worker, 2 application sessions, clock at 0, version to 3, with the foreign key | `LinearRetry`, `RetryAnswersAgree` |
| `commit_operations` | 3 operations (two for one assumption, one of them proposed as approved; one that names no id), 2 committers, 1 reviewer | `TypeOK`, `OneSourcePerRow`, `ReviewGoverns`, `CommittedIsApplied`, `CommitIsAtomic` |
| `commit_admissions` | an admission pair, an assumption and an operation that cannot be applied, in 3 lists that mix them, 2 committers | `ImplementsLedger` |
| `planner_turns` | 2 processes, 3 Plans (two collide), 3 model results each | `TypeOK`, `CandidateIsOnView`, `CandidateIsAwaited`, `ActivePlansAreStored`, `SegmentsCommittedOnce`, `AdmitsWhatWasShown` |
| `plan_construction` | every digraph over 4 Tasks (4,096) and 10 malformed candidates; rows in two orders | `TypeOK`, `PlanIsAcyclic`, `OnlyCyclesAreRejected`, `VisitsFollowEdges`, `SomeTaskIsEligible`, `StoredPlanReloads`, `ConstructionEnds` |
| `plan_admissions` | 2 sessions, 4 candidates that collide on an identity, an Objective and a Task, 2 Objectives, 2 Tasks, 1 Assumption, 2 contents, new Tasks in any of 2 statuses | `TypeOK`, `StoredPlansLoad`, `NoPartialPlan`, `ImplementsStore`, `AdmissionEnds` |
| `data_admissions` | 2 sessions, 1 work, 1 stored profile identity, 2 paths, 4 contents (two with one profile, a wide one, one no loader reads), 9 requests, 1 raw Evidence of other content in the name and under the identity of the work | `TypeOK`, `EvidenceOfBoundBytes`, `OneEvidencePerWork`, `AnswersHold`, `ImplementsStore` |
| `workspace_edits` | 2 processes, 2 profiles and an unknown name, 1 skill, 1 worker, 2 models, 2 base URLs, 3 commands | `TypeOK`, `ProfilesSurvive`, `ModelFollowsConfig`, `AgentIsCurrent` |
| `lease_claim`, `outbox_claim`, `commit_rejected` | | one documented claim each, violated (section 4) |

A refinement is checked in place of the invariants it implies, where a theorem says that it does:
`AttemptHasIntent` follows from `ImplementsLedger` (`LedgerSuffices`) and
`BindingsDescribeProfiles` from `ImplementsStore` (`StoreSuffices`); see section 5.

Why the bounds are enough. A stale worker needs a claim, an expiry and a second claim, and a
shared worker_id needs a third session: three workers, two ticks. Version 3 lets a first claim
be renewed once, and stops nothing but renewals. A retry that a second retry, an admission or a
record races is the one hard case of `attempt_retries`, and needs two sessions and two runs from
outside: one that ends and one that names it, itself or the retry as predecessor. It has no
clock, so leases never expire and nothing is renewed there; those are the business of
`attempt_leases`. Renewals are capped by `MaxVersion`, and the epoch cannot grow without the
version, so all else is finite. A commit race needs two committers; a third operation makes a
batch with a failing middle. In `commit_admissions` lists put the operation that always raises
behind an assumption, and an assumption in front of a pair, and commits by session load all
four. Two turns establish and use a candidate, the third is needed for a refused admission in
between; two processes give every admission race, as no step involves more.

In `plan_construction` four Tasks give every shape of graph on which a count could err: two
paths to one Task, a cycle with a tail before or behind it, two disjoint cycles. An
admission race needs two sessions; the four candidates give each way to collide (same Plan,
same Task with other content, same Objective, nothing in common but the lock). Two contents
with one profile tell apart a digest from a profile; one work is enough for
`OneEvidencePerWork`, as its identity has the work in it, and two sessions race over it. The raw
Evidence meets each of the service's looks: before the check it is prior Evidence of the work,
between check and commit it has the identity, and if the work observed other bytes both are
stored. Three commands let one process run a command of two edits while another edits before and
after it. What these bounds leave open is proved, except where section 5 says not.

Symmetry is used for identities no constant or property tells apart, and in no run with a
liveness property. Deadlock is not checked for the attempts (when all have ended, or the
clock is at its bound, nothing need happen), for `plan_construction` (a rejected construction
is over) and for `workspace_edits` (a blank `project.toml` keeps every process from starting).
It is checked in all other passing runs.

Fairness. Two specifications state it, for liveness properties. `PlanGraph`: weak fairness
of `Construction`, because one thread runs the validators to their end; `ConstructionEnds` is
what then has to be shown, that the loop terminates. `PlanAdmission`: weak fairness of each
session's `AdmissionStep`, because a process that admits runs on until it returns or raises,
and a wait for the lock ends with the driver's timeout (`LockTimeout`); nothing obliges a
process to begin an admission. `AdmissionEnds` is then that no session waits for ever. No
liveness is claimed elsewhere: the package schedules no dispatch worker, no release of
expired leases and no Human, so nothing in it justifies fairness.

## 4. What the runs found

- `RunsOnlyUnderLease`: `mark_running` does not compare the lease's expiry, while
  `docs/architecture/persistence-and-admission.md` (lines 133 and 138) fences a worker
  whose lease expired. No other holder is overridden: `EpochFences` holds.
- `PendingIntentIsDispatchable`: each start abandons all unfinished runs and leaves
  `pending` outbox rows behind, while the same page (lines 115-116 and 131) promises a
  recoverable dispatch intent.
- `RejectedIsNotApplied`: a commit applies an operation that was rejected after it was
  loaded and overwrites the rejection, while the docstring of `reject_operation` says
  "Reject an operation so commit cannot mutate FCO state from it."

Behaviours the models have, about which the repository promises nothing:

- A process that ends between `open("w")` and `toml.dump` (`workspace.py`, line 225) leaves
  `project.toml` blank. It exists, so the default is not written again, and no later start
  validates.
- Two processes that have one file open for writing at once (line 225) may leave a text that
  does not parse, and with it no later start. `ProfilesSurvive` is the strongest that holds:
  whole, blank or not a configuration at all. The base URL of a profile may come out as that of
  the other writer.
- An operation proposed as `approved` is committed without a review, and one proposed as
  `committed` has no row; `NeedsReview` and `CommittedIsApplied` leave them out.
- A first run may name any predecessor, a live one included, which then cannot be retried: its
  one successor is taken. `LinearRetry` speaks of the retries that `authorize_retry` inserts.
- Raw Evidence in the name of a work stops the service from admitting that work.
- Two processes that edit `agents.toml` or `skills.toml` lose each other's edits.
- `/provider.use` of a profile without a key replies "Using provider" while the Planner keeps
  the model it had; `ModelFollowsConfig` speaks of profiles that have a key.
- A worker with a skill that `skills.toml` lacks (`/skill.use` of an unknown name, `/skill.rm`
  of an assigned one) makes the next turn raise a `KeyError` that ends the REPL, and each later
  start that has a key.
- Evidence may commit after its Task has been reopened: the last read of the status precedes
  the lock.

## 5. What is proved

`ExecutionAttempts_proofs` proves for all values of the constants that satisfy
`AttemptsAssumption` (any number of runs, workers, sessions, any bounds):

- `Typing`, `IntentSafety`, `Fencing`, `RetryChains`, `RetryIdempotence`: the safety
  invariants of the two passing runs;
- `OptimisticEnds`: the action property;
- `Refinement`: the protocol implements `AttemptLedger`.

All follow from `Inductive`, `Spec => []IInv`. The invariants are not inductive alone.
`EpochFences` needs `LeaseNamesOwner` (the worker column is that of the last claimer
while leased) and `ClaimsAreGrants` (a session's own grant is at most the run's epoch,
and equal to it only for the owner; the epoch it read is at least its grant).
`LinearRetry` needs `RetriesFollowEnds` (the predecessor of a retry, or the attempt being
retried, has ended, and no action leaves an ended status) and the guard of every insert,
the unique constraint. `RetryAnswersAgree` needs `AnswersAreSuccessors` and then
`LinearRetry`. `EndsOnlyAsSeen` needs `ViewsAreVersions`: a version that is unchanged
means a row that is unchanged since it was read; the schema upgrade changes a row without
its version, but only out of the live statuses, after which no update applies.
`AbsentIsBlank` says what an unused id looks like, for the refinement of `Open`.

Two theorems are about `AttemptLedger` alone and hold of whatever implements it: `LedgerIsFinal`
(what ended stays ended, what an attempt retries is fixed, tokens only grow) and `LedgerChains`
(`RetryChainsBegin`: retries have no loops, so each chain goes back to a run brought from
outside). `RetriesAreFounded` is the second carried over by `Refinement`. A retry follows what
has ended by then, so it closes no loop of retries (`LinearRetry` alone would allow a ring); the
runs from outside may, since they name what they like. `OnlyStartsStrandIntents` bounds the
disagreement of `outbox_claim`: with `[][~UpgradeOnStart]_vars` as a hypothesis, a pending
intent is always dispatchable, so the `UPDATE` at a start is its only cause.

`PlannerCommit_proofs` proves, for any operations, lists of them, committers and reviewers that
satisfy `CommitAssumption`, every property of `commit_operations` and `commit_admissions`:
`Typing`, `RowsHaveOneSource`, `ReviewAlwaysGoverns`, `CommittedIsDurable`, `PairsAreAdmitted`,
`AtomicCommits` and `Refinement`, the last two from the others. `Invariant` adds to them

- `OperationsGoverned` and `LoadedGoverned`: a row that says `approved`, now or when a commit
  read it, was approved by a reviewer at some time or proposed so, and one that says
  `not_required` needs no approval. A
  decision that is overwritten later does not take its approval back, which is why `ReviewGoverns`
  holds and `RejectedIsNotApplied` does not;
- `RowsAreKept`: what was ever inserted is in its table, so the checks of a later commit see it.

Of the two ways to insert rows each is shown to be one `Inserts` step (a family of ids that are
new in the table of their kind and different from each other), and the invariant is shown for
`Inserts` once (`InsertStep`). Reviews, marks and creation change states only (`StatesStep`).
`LedgerSuffices` shows that the ledger says enough: `OneSourcePerRow`, `ReviewGoverns` and
`AttemptHasIntent` follow from it alone. `OnlyLateRejectionsAreLost` bounds the disagreement of
`commit_rejected`: if no operation is rejected while a commit has it loaded, no rejected one is
applied.

`PlannerLifecycle_proofs` proves, for all values of the constants that satisfy
`LifecycleAssumption` (any number of processes, Plans, Objectives and turns), every
property of the run `planner_turns`: `Typing`, `ViewSafety`, `WaitSafety`, `ActivePlans`,
`HistoryIsExact` and, for the action property, `AdmissionOfShown`. `ActivePlansAreStored`
is inductive by itself; the others speak of the process at rest or of one action only and
need what holds in the middle of a turn, which `IInv` states for each process:

- `CandidateFollowsView`: while the turn is planned or its candidate admitted, the
  candidate is the Plan on view and was so when the message was sent; before the outcome
  is shown, it is the Plan the outcome presents or, if it presents none, the one on view.
- `EndsAwaited`: the same as `CandidateIsAwaited`, from `emitting` on.
- `HistoryFollowsSpeech`: until it is committed, the last segment is the one number the
  history lacks, and it is in the checkpoint; a failed turn has none.

A step of one process keeps the turns of the others (`OthersKeepTurn`), and the seven ways
`plan_or_answer` can end are instances of one lemma (`ConcludeStep`).

`PlanGraph_proofs` proves, for any finite set of Tasks, any candidates and any orders of rows
(`GraphAssumption`), every invariant of `plan_construction`, from `Invariant`. Its parts:
`Counted` (in the loop, a member's in-degree is the number of its prerequisites not yet
visited, and the members of in-degree zero are those ready or done), `Ordered` (a done Task
has its prerequisites done) and `RowsAgree` (the rows are those of the stored Plan, of which a
candidate built from them has the members, the edges and the fingerprint).
When nothing is ready, each Task that is not done waits for another one that is not: the
Tasks left over hold a cycle, and a cycle has no first Task to be visited. So the count
is right both ways (`PlanIsAcyclic`, `OnlyCyclesAreRejected`), and in an acyclic Plan a set
that is left over has an eligible member (`SomeTaskIsEligible`). `VisitedOnce` shows that each
round visits a Task of the Plan that was not visited before, on graphs with a cycle too, and
`LoopDescends` that the number of Tasks left, a natural number, gets smaller in each round. With
the fairness of `Construction` this is why `ConstructionEnds` holds; that last step is left to TLC.

`PlanAdmission_proofs` proves, for any identities, candidates and number of sessions
(`AdmissionAssumption`, `HeaderAssumption`), every invariant of `plan_admissions` and, as
`Refinement`, that the statements of admissions implement `PlanStore`. The inductive
invariant says what the tables mean and what a session in mid-admission may rely on:

- `PlansOK`, `SelectionsOK`: an identity has no rows at all, or exactly those of one
  candidate, whose Objective, Assumptions and Tasks are stored as it has them (`Grounded`);
  selections are of stored Plans.
- `ImageOK`: while a session holds the lock the committed tables stand still, and its image
  is those tables with what its phase has written.
- `SessionOK`: what was validated is grounded in the tables the session sees, and stays so,
  as other transactions only let these tables grow (`Grows`, `GroundedKept`).

The invariants say nothing of the middle of an admission, so they are not inductive. A
commit then meets a state in which all it checked is still true, which is the guard of
`Admit` (`CommitAdmits`), and the fingerprint determines the Plan (`FingerprintDetermines`),
which makes the refinement mapping, a choice of a candidate, the one that was committed.
`StoreSuffices` shows that `PlanStore` alone keeps every Plan grounded in its Objective,
Assumptions and Tasks, and every selection that of a stored Plan. Two theorems are about
waiting: `LockNeverLeaks` (the lock is held only by a session between its first insert and its
commit) and `AdmissionVariant` (an admission in progress is moved by its own steps only, each of
which takes it nearer to its end). They are the safety half of `AdmissionEnds`.

`DataAdmission_proofs` proves every invariant of `data_admissions`, and
`BindingsDescribeProfiles`, for any files, works, profiles, sessions and raw Evidence
(`DataAssumption`, `AdmissionAssumption`). The argument: the result of a work that ended, and a
row that is stored, never change, so what a session validated stays valid until it commits
(`AdmissibleKept`, `SessionKept`); a session that staged a profile is the only writer, so the
binding it commits meets the profile it staged; and the identity of admitted Evidence is a
function of the work, so the primary key makes racing admissions meet, and a raw row under that
identity, if it is not the same row, makes them raise. `Refinement` shows that the tables and
the answers implement `EvidenceStore`, from the same invariant: the commit of a profile finds
the identity as free as the check left it, that of Evidence the binding its content was
computed from (`Became` of every other work is kept), and that of raw Evidence a stored profile.
`StoreSuffices` shows what the store gives to whoever implements it: bindings that describe their
profiles, rows with identities of their own, and admitted Evidence that is stored and of the
bytes that are bound now.

`Workspace_proofs` proves every invariant of `workspace_edits`, for any number of processes and
commands (`WorkspaceAssumption`). An edit of a whole `project.toml` gives a whole one, and of a
blank one is refused, so memory and draft are always whole or blank (`Sound`), and the file may
besides be torn: a text keeps its profiles and its selection, whatever the end of a longer one
adds to it (`RestsTyped`). Until its
Planner is made a process keeps the model of the configuration it read, and every edit ends
in a refresh, which drops the Agent and resolves the model again, or in the end of the
process (`Steady`). `OnlyOverlapsTear` says where a torn file comes from: under the hypothesis that
no two processes have one file open for writing at once (`[]NoOverlap`), every file parses,
because what a process truncated is still empty when it writes.

Assumptions on constants say what the code cannot get wrong because it is typed that way: markers
for "no row", "nobody" or "does not parse" (`Absent`, `NoSession`, `NoObject`, `NoOperation`,
`Torn`) are no identity, content or candidate; an operation that admits an execution names its
run (`execution_admission.py` builds them so), and one that needs approval is not proposed as
`not_required` (the validator); a candidate's dependencies are between its own Tasks
(the validator of `Plan`). TLC evaluates each of them on the runs.

Only model-checked: the two liveness properties, `ConstructionEnds` and `AdmissionEnds`, since the
prover cannot treat fairness (what is proved of them are the variants above), and the three
violations of section 4, which are counterexamples and need no proof. Every other property of
every passing run is a theorem for all values of the constants.

## 6. Not modelled

- The Hypothesis Analyst: it is not registered by the runtime, its first node calls
  `task.can_generate_hypothesis()` (`nodes.py`, line 48), which no Task has, and the Discovery
  it would admit names columns the records lack. A model would be one of intentions.
- Execution approvals, reload of the executor registry, `mark_committed` and `mark_failed` of
  the operation repository: they have no caller.
- Event bus and projectors one by one: a handler that raises is caught by nobody, so the
  process ends with the buffers it left uneven.
- Hypotheses, Discoveries and user decisions: single-row operations nothing else reads.
- MCP servers and `mcp.toml`, DVC, the graph miner (a stub), statistics (numeric library code;
  an operation is a function of the contents it is given), the terminal, the Planner's
  instructions (`/reload`).
- Inside `Workspace`: keys set by the shell, profiles that share a key variable, a dump of
  which only a part reaches the file, unsupported provider types, empty model names.

## 7. Plan

1. `AttemptAdmission`: the commit of a pair composed with the life of its attempt, when the
   package has a dispatch worker. `ApplyBundle` is the only step the two modules share.
2. The abstract level once more: that `PlanStore` implements the one-step admission of
   `PlannerLifecycle`, so that the theorems about turns rest on the statements of an admission.
3. Delegation, approvals and the Hypothesis Analyst, once the runtime calls them.
