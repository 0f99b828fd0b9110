------------------------- MODULE ExecutionAttempts -------------------------
(***************************************************************************)
(* The durable execution attempts of CogniEDA: the rows of execution_runs  *)
(* and execution_outbox, the guarded updates of                            *)
(* ExecutionAttemptTransitionService, and the sessions that call them.     *)
(*                                                                         *)
(* Each method of the service ends in one SQLite transaction. A method     *)
(* that reads before that transaction, or after it, is split at the commit *)
(* so that other sessions' transactions come in between.                   *)
(***************************************************************************)
EXTENDS Integers, FiniteSets

CONSTANTS
    Run,            \* execution_run_id values
    Root,           \* those a commit or the repository brings; a retry draws a fresh one
    Worker,         \* dispatch worker sessions, one claim in progress each
    WorkerId,       \* values of the worker_id column
    WorkerIdOf,     \* the worker_id a session passes; sessions may share one
    Application,    \* sessions that release, cancel and retry attempts
    LegacyStatus,   \* statuses the provenance repository is given
    ForeignKey,     \* previous_attempt_id is one: not where an upgrade added it
    MaxTime,        \* bound on the clock
    MaxVersion,     \* bound on the renewals of one attempt
    NoRun, NoWorker, NoTime   \* the NULL of each column

Leased == {"dispatch_claimed", "running"}
Live == {"admitted"} \cup Leased
Retryable == {"dispatch_failed", "execution_failed", "expired", "abandoned",
              "cancelled"}
\* "finished" stands for the other words a provenance record may have as status.
Status == {"absent", "pending_approval", "finished"} \cup Live \cup Retryable
Intent == {"none", "pending", "dispatching", "cancelled"}
OpenIntent == {"pending", "dispatching"}
Time == 0 .. MaxTime
Expiry == 1 .. MaxTime + 1

\* The repository refuses the live statuses (execution_run_repository.create).
ASSUME AttemptsAssumption ==
    /\ NoRun \notin Run /\ Root \subseteq Run
    /\ NoWorker \notin WorkerId \cup Worker
    /\ WorkerIdOf \in [Worker -> WorkerId]
    /\ LegacyStatus \subseteq {"pending_approval", "finished"} \cup Retryable
    /\ ForeignKey \in BOOLEAN
    /\ MaxTime \in Nat /\ MaxVersion \in Nat
    /\ NoTime \in Int \ Nat

VARIABLES
    run,        \* execution_runs; an unused id has status "absent"
    outbox,     \* the status of the run's execution_outbox row
    clock,      \* the wall clock the guards compare leases with
    claim,      \* what each worker session knows of its last claim
    seen,       \* what each application session read before its update
    owner,      \* history: the session whose claim of the run committed last
    answered    \* history: what authorize_retry returned, as <<attempt, successor>>

vars == <<run, outbox, clock, claim, seen, owner, answered>>

Row == [status : Status, worker : WorkerId \cup {NoWorker}, epoch : Nat,
        expires : Expiry \cup {NoTime}, version : Nat, prev : Run \cup {NoRun}]

RowOf(status, worker, epoch, expires, version, prev) ==
    [status |-> status, worker |-> worker, epoch |-> epoch, expires |-> expires,
     version |-> version, prev |-> prev]

NewRow(status, prev) == RowOf(status, NoWorker, 0, NoTime, 1, prev)
AbsentRow == RowOf("absent", NoWorker, 0, NoTime, 0, NoRun)

\* What the updates write. Each but the schema upgrade makes a new version.
MovedRow(row, status) ==
    RowOf(status, row.worker, row.epoch, row.expires, row.version + 1, row.prev)
RenewedRow(row, expires) ==
    RowOf(row.status, row.worker, row.epoch, expires, row.version + 1, row.prev)
ClaimedRow(row, id, expires) ==
    RowOf("dispatch_claimed", id, row.epoch + 1, expires, row.version + 1, row.prev)
ReleasedRow(row) ==
    RowOf("admitted", NoWorker, row.epoch, NoTime, row.version + 1, row.prev)
AbandonedRow(row) ==
    RowOf("abandoned", row.worker, row.epoch, row.expires, row.version, row.prev)

\* phase "committed": the claim is durable and its row not read back yet.
\* granted is the epoch the session's own UPDATE wrote; epoch the one it read.
NoClaim == [phase |-> "idle", run |-> NoRun, epoch |-> 0, granted |-> 0]
Claims == {NoClaim} \cup
          [phase : {"committed", "holding"}, run : Run, epoch : Nat, granted : Nat]

NoView == [phase |-> "idle", run |-> NoRun, row |-> AbsentRow]
Views == {NoView} \cup [phase : {"observed", "authorizing"}, run : Run, row : Row]

TypeOK ==
    /\ run \in [Run -> Row]
    /\ outbox \in [Run -> Intent]
    /\ clock \in Time
    /\ claim \in [Worker -> Claims]
    /\ seen \in [Application -> Views]
    /\ owner \in [Run -> Worker \cup {NoWorker}]
    /\ answered \subseteq Run \X Run

Init ==
    /\ run = [r \in Run |-> AbsentRow]
    /\ outbox = [r \in Run |-> "none"]
    /\ clock = 0
    /\ claim = [w \in Worker |-> NoClaim]
    /\ seen = [a \in Application |-> NoView]
    /\ owner = [r \in Run |-> NoWorker]
    /\ answered = {}

-----------------------------------------------------------------------------
\* Guards. In SQL a comparison with a NULL lease is not true.

Expired(r) == run[r].expires # NoTime /\ run[r].expires < clock
Unexpired(r) == run[r].expires # NoTime /\ run[r].expires > clock

Claimable(r) ==
    \/ run[r].status = "admitted"
    \/ run[r].status \in Leased /\ Expired(r)

\* The WHERE clause that fences a worker: its id and the epoch it was told.
PassesFence(w) ==
    /\ claim[w].phase = "holding"
    /\ run[claim[w].run].worker = WorkerIdOf[w]
    /\ run[claim[w].run].epoch = claim[w].epoch

\* Seeded fault: an attempt whose successor ended looks never retried.
LiveSuccessors(r) == {s \in Run : run[s].prev = r /\ run[s].status \in Live}

Successors(r) == {s \in Run : run[s].prev = r}

\* What the database asks of a predecessor: that no run has it yet, and under
\* the foreign key that it is a row, which may be the one inserted.
MayFollow(r, prev) ==
    prev # NoRun => /\ Successors(prev) = {}
                    /\ ForeignKey => prev = r \/ run[prev].status # "absent"

-----------------------------------------------------------------------------
\* Rows are created.

\* stage_admit_attempt: the run and its outbox row in one transaction.
StageAdmit(r, prev) ==
    /\ run[r].status = "absent"
    /\ run' = [run EXCEPT ![r] = NewRow("admitted", prev)]
    /\ outbox' = [outbox EXCEPT ![r] = "pending"]

\* The execution-admission bundle of a PlannerOperation commit. The predecessor
\* is the one the operation's payload names, compared with nothing: it may be
\* live, ended, missing or the run itself.
AdmitAttempt(r, prev) ==
    /\ MayFollow(r, prev)
    /\ StageAdmit(r, prev)
    /\ UNCHANGED <<clock, claim, seen, owner, answered>>

\* Provenance recorded by the repository: a run with no outbox row, stored with
\* the predecessor it is given, its lease columns and version at their defaults.
RecordLegacyRun(r, status, prev) ==
    /\ run[r].status = "absent"
    /\ MayFollow(r, prev)
    /\ run' = [run EXCEPT ![r] = NewRow(status, prev)]
    /\ UNCHANGED <<outbox, clock, claim, seen, owner, answered>>

-----------------------------------------------------------------------------
\* Worker sessions.

\* claim_dispatch up to its commit. A claim whose run is not claimable, or
\* whose outbox row is not open, is rolled back and changes nothing.
ClaimDispatch(w, r, expires) ==
    /\ claim[w].phase = "idle"
    /\ Claimable(r)
    /\ outbox[r] \in OpenIntent
    /\ expires > clock
    /\ run' = [run EXCEPT ![r] = ClaimedRow(@, WorkerIdOf[w], expires)]
    /\ outbox' = [outbox EXCEPT ![r] = "dispatching"]
    /\ claim' = [claim EXCEPT ![w] = [phase |-> "committed", run |-> r, epoch |-> 0,
                                      granted |-> run[r].epoch + 1]]
    /\ owner' = [owner EXCEPT ![r] = w]
    /\ UNCHANGED <<clock, seen, answered>>

\* The SELECT that follows the commit returns the row as it is by then.
ReadBackClaim(w) ==
    /\ claim[w].phase = "committed"
    /\ claim' = [claim EXCEPT ![w] = [phase |-> "holding", run |-> claim[w].run,
                                      epoch |-> run[claim[w].run].epoch,
                                      granted |-> claim[w].granted]]
    /\ UNCHANGED <<run, outbox, clock, seen, owner, answered>>

\* Seeded fault: a renewal is not a new version of the attempt.
RenewKeepingVersion(w, expires) ==
    LET r == claim[w].run IN
    /\ PassesFence(w)
    /\ Unexpired(r)
    /\ run[r].status \in Leased
    /\ expires > clock
    /\ run' = [run EXCEPT ![r] = [@ EXCEPT !.expires = expires]]
    /\ UNCHANGED <<outbox, clock, claim, seen, owner, answered>>

RenewDispatchLease(w, expires) ==
    LET r == claim[w].run IN
    /\ PassesFence(w)
    /\ Unexpired(r)
    /\ run[r].status \in Leased
    /\ run[r].version < MaxVersion
    /\ expires > clock
    /\ run' = [run EXCEPT ![r] = RenewedRow(@, expires)]
    /\ UNCHANGED <<outbox, clock, claim, seen, owner, answered>>

\* Seeded fault: the name of the enum member is stored instead of its value.
MarkRunningByName(w) ==
    LET r == claim[w].run IN
    /\ PassesFence(w)
    /\ run[r].status = "dispatch_claimed"
    /\ run' = [run EXCEPT ![r] = MovedRow(@, "RUNNING")]
    /\ UNCHANGED <<outbox, clock, claim, seen, owner, answered>>

\* Seeded fault: the status is not compared.
MarkRunningAnyStatus(w) ==
    LET r == claim[w].run IN
    /\ PassesFence(w)
    /\ run' = [run EXCEPT ![r] = MovedRow(@, "running")]
    /\ UNCHANGED <<outbox, clock, claim, seen, owner, answered>>

\* mark_running compares worker, epoch and status, and not the lease's expiry.
MarkRunning(w) ==
    LET r == claim[w].run IN
    /\ PassesFence(w)
    /\ run[r].status = "dispatch_claimed"
    /\ run' = [run EXCEPT ![r] = MovedRow(@, "running")]
    /\ UNCHANGED <<outbox, clock, claim, seen, owner, answered>>

\* The session dies, finishes, or is told that an update did not apply.
DropClaim(w) ==
    /\ claim[w].phase # "idle"
    /\ claim' = [claim EXCEPT ![w] = NoClaim]
    /\ UNCHANGED <<run, outbox, clock, seen, owner, answered>>

-----------------------------------------------------------------------------
\* Application sessions: read a run, then update it by the version read.

\* What is read of a run that is not live leads to no update.
Observe(a, r) ==
    /\ seen[a].phase = "idle"
    /\ run[r].status \in Live
    /\ seen' = [seen EXCEPT ![a] = [phase |-> "observed", run |-> r, row |-> run[r]]]
    /\ UNCHANGED <<run, outbox, clock, claim, owner, answered>>

\* The version an update carries is the one the session read.
AsObserved(a) ==
    /\ seen[a].phase = "observed"
    /\ run[seen[a].run].version = seen[a].row.version

\* Seeded fault: the attempt is released and its intent is not.
ReleaseWithoutIntent(a) ==
    LET r == seen[a].run IN
    /\ AsObserved(a)
    /\ run[r].status \in Leased
    /\ Expired(r)
    /\ run' = [run EXCEPT ![r] = ReleasedRow(@)]
    /\ seen' = [seen EXCEPT ![a] = NoView]
    /\ UNCHANGED <<outbox, clock, claim, owner, answered>>

\* Seeded fault: the epoch is cleared with the other lease columns.
ReleaseResettingEpoch(a) ==
    LET r == seen[a].run IN
    /\ AsObserved(a)
    /\ run[r].status \in Leased
    /\ Expired(r)
    /\ run' = [run EXCEPT ![r] = RowOf("admitted", NoWorker, 0, NoTime, @.version + 1, @.prev)]
    /\ outbox' = [outbox EXCEPT ![r] = "pending"]
    /\ seen' = [seen EXCEPT ![a] = NoView]
    /\ UNCHANGED <<clock, claim, owner, answered>>

ReleaseExpiredDispatch(a) ==
    LET r == seen[a].run IN
    /\ AsObserved(a)
    /\ run[r].status \in Leased
    /\ Expired(r)
    /\ run' = [run EXCEPT ![r] = ReleasedRow(@)]
    /\ outbox' = [outbox EXCEPT ![r] = IF @ = "dispatching" THEN "pending" ELSE @]
    /\ seen' = [seen EXCEPT ![a] = NoView]
    /\ UNCHANGED <<clock, claim, owner, answered>>

CancelAttempt(a) ==
    LET r == seen[a].run IN
    /\ AsObserved(a)
    /\ run[r].status \in Live
    /\ run' = [run EXCEPT ![r] = MovedRow(@, "cancelled")]
    /\ outbox' = [outbox EXCEPT ![r] = IF @ \in OpenIntent THEN "cancelled" ELSE @]
    /\ seen' = [seen EXCEPT ![a] = NoView]
    /\ UNCHANGED <<clock, claim, owner, answered>>

\* The update returned False, or the session ended before making it.
ForgetView(a) ==
    /\ seen[a].phase # "idle"
    /\ seen' = [seen EXCEPT ![a] = NoView]
    /\ UNCHANGED <<run, outbox, clock, claim, owner, answered>>

\* authorize_retry, its reads. The attempt has ended for good; whether it has a
\* successor can still change before the insert below. It returns None, and
\* changes nothing, without an outbox or with a Hypothesis of another Task.
AuthorizeRetry(a, r) ==
    /\ seen[a].phase = "idle"
    /\ run[r].status \in Retryable
    /\ \/ \E s \in Successors(r) : /\ answered' = answered \cup {<<r, s>>}
                                  /\ UNCHANGED seen
       \/ /\ Successors(r) = {}
          /\ outbox[r] # "none"
          /\ seen' = [seen EXCEPT ![a] = [phase |-> "authorizing", run |-> r,
                                                row |-> AbsentRow]]
          /\ UNCHANGED answered
    /\ UNCHANGED <<run, outbox, clock, claim, owner>>

\* Seeded fault: no unique constraint on previous_attempt_id.
InsertUnchecked(a, s) ==
    LET r == seen[a].run IN
    /\ seen[a].phase = "authorizing"
    /\ StageAdmit(s, r)
    /\ answered' = answered \cup {<<r, s>>}
    /\ seen' = [seen EXCEPT ![a] = NoView]
    /\ UNCHANGED <<clock, claim, owner>>

\* The insert succeeds while no run names the attempt as its predecessor.
InsertSuccessor(a, s) ==
    LET r == seen[a].run IN
    /\ seen[a].phase = "authorizing"
    /\ Successors(r) = {}
    /\ StageAdmit(s, r)
    /\ answered' = answered \cup {<<r, s>>}
    /\ seen' = [seen EXCEPT ![a] = NoView]
    /\ UNCHANGED <<clock, claim, owner>>

\* uq_execution_runs_previous_attempt_id refuses the insert: roll back and
\* return the successor another session inserted.
ReturnOtherSuccessor(a) ==
    LET r == seen[a].run IN
    /\ seen[a].phase = "authorizing"
    /\ \E s \in Successors(r) : answered' = answered \cup {<<r, s>>}
    /\ seen' = [seen EXCEPT ![a] = NoView]
    /\ UNCHANGED <<run, outbox, clock, claim, owner>>

-----------------------------------------------------------------------------
\* A process starts: init_db runs the schema upgrade, which abandons every
\* unfinished run of the database, whoever works on it, and touches neither
\* the version nor the lease nor the outbox.
Unfinished == {r \in Run : run[r].status \in {"pending_approval"} \cup Live}

UpgradeOnStart ==
    /\ Unfinished # {}
    /\ run' = [r \in Run |-> IF r \in Unfinished
                             THEN AbandonedRow(run[r])
                             ELSE run[r]]
    /\ UNCHANGED <<outbox, clock, claim, seen, owner, answered>>

Tick ==
    /\ clock < MaxTime
    /\ clock' = clock + 1
    /\ UNCHANGED <<run, outbox, claim, seen, owner, answered>>

WorkerStep(w) ==
    \/ \E r \in Run, expires \in Expiry : ClaimDispatch(w, r, expires)
    \/ \E expires \in Expiry : RenewDispatchLease(w, expires)
    \/ ReadBackClaim(w)
    \/ MarkRunning(w)
    \/ DropClaim(w)

ApplicationStep(a) ==
    \/ \E r \in Run : Observe(a, r) \/ AuthorizeRetry(a, r)
    \/ \E s \in Run \ Root : InsertSuccessor(a, s)
    \/ ReleaseExpiredDispatch(a)
    \/ CancelAttempt(a)
    \/ ForgetView(a)
    \/ ReturnOtherSuccessor(a)

Next ==
    \/ \E r \in Root, prev \in Run \cup {NoRun} : AdmitAttempt(r, prev)
    \/ \E r \in Root, status \in LegacyStatus, prev \in Run \cup {NoRun} :
          RecordLegacyRun(r, status, prev)
    \/ \E w \in Worker : WorkerStep(w)
    \/ \E a \in Application : ApplicationStep(a)
    \/ UpgradeOnStart
    \/ Tick

Spec == Init /\ [][Next]_vars

-----------------------------------------------------------------------------
(***************************************************************************)
(* What must hold.                                                         *)
(***************************************************************************)

\* The dispatch intent of a live attempt is in the state its claim, release
\* and cancellation expect, so the second update of claim_dispatch never finds
\* no open row: a claimable attempt can always be claimed. The lease columns
\* are those of the session whose claim committed last.
IntentMatchesAttempt ==
    \A r \in Run :
        /\ run[r].status = "absent" => outbox[r] = "none"
        /\ run[r].status = "admitted" =>
               /\ outbox[r] = "pending"
               /\ run[r].worker = NoWorker /\ run[r].expires = NoTime
        /\ run[r].status \in Leased =>
               /\ outbox[r] = "dispatching"
               /\ run[r].expires # NoTime
               /\ owner[r] # NoWorker /\ run[r].worker = WorkerIdOf[owner[r]]
        /\ run[r].status = "cancelled" => outbox[r] \in {"none", "cancelled"}

\* Fencing: a session can renew the lease or start the run only while no later
\* claim of the run committed, even after a release in between cleared the
\* lease, provided no other session passes its worker_id or it read back the
\* epoch that its own claim wrote.
SoleUser(w) == \A v \in Worker : WorkerIdOf[v] = WorkerIdOf[w] => v = w

EpochFences ==
    \A w \in Worker :
        /\ PassesFence(w)
        /\ SoleUser(w) \/ claim[w].epoch = claim[w].granted
        => owner[claim[w].run] = w

\* A run has at most one successor, whichever of a retry, an admission and the
\* repository brings it, and the successors that retries insert are those of runs
\* that have ended for good: authorize_retry never puts a second live attempt
\* beside the one it retries.
LinearRetry ==
    /\ \A s, t \in Run : run[s].prev # NoRun /\ run[t].prev = run[s].prev => t = s
    /\ \A s \in Run \ Root :
          run[s].status # "absent" => /\ run[s].prev # NoRun
                                      /\ run[run[s].prev].status \in Retryable

\* authorize_retry is idempotent: every session that asks to retry an attempt,
\* before, during or after another one, is given the same successor.
RetryAnswersAgree ==
    \A x, y \in answered : x[1] = y[1] => x[2] = y[2]

\* Optimistic concurrency: an attempt is cancelled, or its lease taken back,
\* only by a session that saw the row exactly as it still is, so no claim,
\* renewal or start that came after the session's read is overridden.
EndsOnlyAsSeen ==
    [][\A r \in Run :
          \/ run'[r].status = "cancelled" /\ run[r].status \in Live
          \/ run'[r].status = "admitted" /\ run[r].status \in Leased
          => \E a \in Application :
                seen[a].phase = "observed" /\ seen[a].run = r /\ seen[a].row = run[r]]_vars

PhaseOf(status) ==
    CASE status = "absent" -> "absent"
      [] status = "pending_approval" -> "parked"
      [] status = "admitted" -> "open"
      [] status \in Leased -> "held"
      [] status \in Retryable \cup {"finished"} -> "ended"

Ledger == INSTANCE AttemptLedger WITH
              Given <- Root,
              phase <- [r \in Run |-> PhaseOf(run[r].status)],
              token <- [r \in Run |-> run[r].epoch],
              follows <- [r \in Run |-> run[r].prev]

\* The protocol implements the ledger of attempts: ended attempts stay ended,
\* every claim carries a newer epoch, releases keep it, no two runs follow the
\* same one, and a retry opens a run that follows an ended one.
ImplementsLedger == Ledger!LedgerSpec

\* Claimed by the documentation: a worker whose lease has expired cannot move
\* the attempt on (mark_running).
RunsOnlyUnderLease ==
    [][\A r \in Run :
          run[r].status = "dispatch_claimed" /\ run'[r].status = "running" => ~Expired(r)]_vars

\* Claimed by the documentation: a dispatch intent still pending belongs to an
\* attempt that can be dispatched.
PendingIntentIsDispatchable ==
    \A r \in Run : outbox[r] = "pending" => run[r].status = "admitted"
=============================================================================
