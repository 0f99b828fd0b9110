--------------------- MODULE ExecutionAttempts_proofs ---------------------
(***************************************************************************)
(* Theorems about ExecutionAttempts, for every number of runs, sessions,   *)
(* clock values and versions.                                              *)
(***************************************************************************)
EXTENDS ExecutionAttempts, TLAPS

USE AttemptsAssumption
USE DEF Status, Live, Leased, Retryable, Intent, OpenIntent

\* A row as it is first inserted.
LEMMA NewFields ==
    ASSUME NEW status \in Status, NEW prev \in Run \cup {NoRun}
    PROVE  /\ NewRow(status, prev) \in Row
           /\ NewRow(status, prev).status = status
           /\ NewRow(status, prev).version = 1
           /\ NewRow(status, prev).worker = NoWorker
           /\ NewRow(status, prev).epoch = 0
           /\ NewRow(status, prev).expires = NoTime
           /\ NewRow(status, prev).prev = prev
  BY DEF Row, NewRow, RowOf

\* The place of a run no transaction has inserted yet, and an empty view.
LEMMA NullRecords == AbsentRow \in Row /\ NoView \in Views /\ NoClaim \in Claims
  BY DEF AbsentRow, RowOf, Row, NoView, Views, NoClaim, Claims

\* A move writes the status and the version, and nothing else.
LEMMA MovedFields ==
    ASSUME NEW row \in Row, NEW status \in Status
    PROVE  /\ MovedRow(row, status) \in Row
           /\ MovedRow(row, status).status = status
           /\ MovedRow(row, status).version = row.version + 1
           /\ MovedRow(row, status).worker = row.worker
           /\ MovedRow(row, status).epoch = row.epoch
           /\ MovedRow(row, status).expires = row.expires
           /\ MovedRow(row, status).prev = row.prev
  BY DEF Row, RowOf, MovedRow

\* A renewal writes the expiry and the version.
LEMMA RenewedFields ==
    ASSUME NEW row \in Row, NEW expires \in Expiry
    PROVE  /\ RenewedRow(row, expires) \in Row
           /\ RenewedRow(row, expires).expires = expires
           /\ RenewedRow(row, expires).version = row.version + 1
           /\ RenewedRow(row, expires).status = row.status
           /\ RenewedRow(row, expires).worker = row.worker
           /\ RenewedRow(row, expires).epoch = row.epoch
           /\ RenewedRow(row, expires).prev = row.prev
  BY DEF Row, RowOf, RenewedRow

\* A claim keeps the predecessor and writes every other column.
LEMMA ClaimedFields ==
    ASSUME NEW row \in Row, NEW id \in WorkerId, NEW expires \in Expiry
    PROVE  /\ ClaimedRow(row, id, expires) \in Row
           /\ ClaimedRow(row, id, expires).status = "dispatch_claimed"
           /\ ClaimedRow(row, id, expires).version = row.version + 1
           /\ ClaimedRow(row, id, expires).worker = id
           /\ ClaimedRow(row, id, expires).epoch = row.epoch + 1
           /\ ClaimedRow(row, id, expires).expires = expires
           /\ ClaimedRow(row, id, expires).prev = row.prev
  BY DEF Row, RowOf, ClaimedRow

\* A release clears the lease and keeps its epoch.
LEMMA ReleasedFields ==
    ASSUME NEW row \in Row
    PROVE  /\ ReleasedRow(row) \in Row
           /\ ReleasedRow(row).status = "admitted"
           /\ ReleasedRow(row).version = row.version + 1
           /\ ReleasedRow(row).worker = NoWorker
           /\ ReleasedRow(row).expires = NoTime
           /\ ReleasedRow(row).epoch = row.epoch
           /\ ReleasedRow(row).prev = row.prev
  BY DEF Row, RowOf, ReleasedRow

\* The schema upgrade writes the status alone.
LEMMA AbandonedFields ==
    ASSUME NEW row \in Row
    PROVE  /\ AbandonedRow(row) \in Row
           /\ AbandonedRow(row).status = "abandoned"
           /\ AbandonedRow(row).version = row.version
           /\ AbandonedRow(row).worker = row.worker
           /\ AbandonedRow(row).epoch = row.epoch
           /\ AbandonedRow(row).expires = row.expires
           /\ AbandonedRow(row).prev = row.prev
  BY DEF Row, RowOf, AbandonedRow

-----------------------------------------------------------------------------
\* Every step keeps the types, by the fields of the row each update writes.
LEMMA TypeStep == TypeOK /\ [Next]_vars => TypeOK'
<1> SUFFICES ASSUME TypeOK, [Next]_vars PROVE TypeOK'
  OBVIOUS
<1> USE DEF TypeOK
<1>1. ASSUME NEW r \in Root, NEW prev \in Run \cup {NoRun}, AdmitAttempt(r, prev) PROVE TypeOK'
  BY <1>1, NewFields DEF AdmitAttempt, StageAdmit
<1>2. ASSUME NEW r \in Root, NEW status \in LegacyStatus,
             NEW prev \in Run \cup {NoRun}, RecordLegacyRun(r, status, prev)
      PROVE  TypeOK'
  BY <1>2, NewFields DEF RecordLegacyRun
<1>3. ASSUME NEW w \in Worker, NEW r \in Run, NEW expires \in Expiry,
             ClaimDispatch(w, r, expires)
      PROVE  TypeOK'
  <2>1. ClaimedRow(run[r], WorkerIdOf[w], expires) \in Row
    BY ClaimedFields
  <2>2. run[r].epoch + 1 \in Nat
    BY DEF Row
  <2> QED
    BY <1>3, <2>1, <2>2 DEF ClaimDispatch, Claims
<1>4. ASSUME NEW w \in Worker, ReadBackClaim(w) PROVE TypeOK'
  <2>1. claim[w].run \in Run /\ claim[w].granted \in Nat
    BY <1>4 DEF ReadBackClaim, Claims, NoClaim
  <2>2. run[claim[w].run].epoch \in Nat
    BY <2>1 DEF Row
  <2> QED
    BY <1>4, <2>1, <2>2 DEF ReadBackClaim, Claims
<1>5. ASSUME NEW w \in Worker, NEW expires \in Expiry, RenewDispatchLease(w, expires)
      PROVE  TypeOK'
  <2>1. claim[w].run \in Run
    BY <1>5 DEF RenewDispatchLease, PassesFence, Claims, NoClaim
  <2> QED
    BY <1>5, <2>1, RenewedFields DEF RenewDispatchLease
<1>6. ASSUME NEW w \in Worker, MarkRunning(w) PROVE TypeOK'
  <2>1. claim[w].run \in Run
    BY <1>6 DEF MarkRunning, PassesFence, Claims, NoClaim
  <2> QED
    BY <1>6, <2>1, MovedFields DEF MarkRunning
<1>7. ASSUME NEW w \in Worker, DropClaim(w) PROVE TypeOK'
  BY <1>7, NullRecords DEF DropClaim
<1>8. ASSUME NEW a \in Application, NEW r \in Run, Observe(a, r) PROVE TypeOK'
  BY <1>8 DEF Observe, Views
<1>9. ASSUME NEW a \in Application, ReleaseExpiredDispatch(a) PROVE TypeOK'
  <2>1. seen[a].run \in Run
    BY <1>9 DEF ReleaseExpiredDispatch, AsObserved, Views, NoView
  <2> QED
    BY <1>9, <2>1, ReleasedFields, NullRecords DEF ReleaseExpiredDispatch
<1>10. ASSUME NEW a \in Application, CancelAttempt(a) PROVE TypeOK'
  <2>1. seen[a].run \in Run
    BY <1>10 DEF CancelAttempt, AsObserved, Views, NoView
  <2> QED
    BY <1>10, <2>1, MovedFields, NullRecords DEF CancelAttempt
<1>11. ASSUME NEW a \in Application, ForgetView(a) PROVE TypeOK'
  BY <1>11, NullRecords DEF ForgetView
<1>12. ASSUME NEW a \in Application, NEW r \in Run, AuthorizeRetry(a, r) PROVE TypeOK'
  BY <1>12, NullRecords DEF AuthorizeRetry, Successors, Views
<1>13. ASSUME NEW a \in Application, NEW s \in Run, InsertSuccessor(a, s) PROVE TypeOK'
  <2>1. seen[a].run \in Run
    BY <1>13 DEF InsertSuccessor, Views, NoView
  <2> QED
    BY <1>13, <2>1, NewFields, NullRecords DEF InsertSuccessor, StageAdmit
<1>14. ASSUME NEW a \in Application, ReturnOtherSuccessor(a) PROVE TypeOK'
  <2>1. seen[a].run \in Run
    BY <1>14 DEF ReturnOtherSuccessor, Views, NoView
  <2> QED
    BY <1>14, <2>1, NullRecords DEF ReturnOtherSuccessor, Successors
<1>15. CASE UpgradeOnStart
  BY <1>15, AbandonedFields DEF UpgradeOnStart
<1>16. CASE Tick
  BY <1>16 DEF Tick, Time
<1>17. CASE UNCHANGED vars
  BY <1>17 DEF vars
<1> QED
  BY <1>1, <1>2, <1>3, <1>4, <1>5, <1>6, <1>7, <1>8, <1>9, <1>10, <1>11, <1>12,
     <1>13, <1>14, <1>15, <1>16, <1>17
     DEF Next, WorkerStep, ApplicationStep

\* The type invariant of the rows and of what the sessions remember holds in
\* every reachable state, whatever the constants.
THEOREM Typing == Spec => []TypeOK
<1>1. Init => TypeOK
  BY NullRecords DEF Init, TypeOK, Time
<1> QED
  BY <1>1, TypeStep, PTL DEF Spec

-----------------------------------------------------------------------------
(***************************************************************************)
(* The inductive invariant: what the safety properties need besides        *)
(* themselves and the types.                                               *)
(***************************************************************************)

\* No column of a run is written before its insert.
AbsentIsBlank == \A r \in Run : run[r].status = "absent" => run[r] = AbsentRow

\* The lease columns name the session whose claim committed last.
LeaseNamesOwner ==
    \A r \in Run : run[r].worker # NoWorker =>
        owner[r] # NoWorker /\ run[r].worker = WorkerIdOf[owner[r]]

\* No claim is ahead of the row, and one that is not behind it is the last one.
ClaimsAreGrants ==
    \A w \in Worker : claim[w].phase # "idle" =>
        /\ run[claim[w].run].status # "absent"
        /\ claim[w].granted <= run[claim[w].run].epoch
        /\ claim[w].granted = run[claim[w].run].epoch => owner[claim[w].run] = w

\* No read is ahead of the row, and the row of the version read is the row read,
\* unless a starting process abandoned it since.
ViewsAreVersions ==
    \A a \in Application : seen[a].phase = "observed" =>
        /\ run[seen[a].run].status # "absent"
        /\ seen[a].row.version <= run[seen[a].run].version
        /\ seen[a].row.version = run[seen[a].run].version =>
               seen[a].row = run[seen[a].run] \/ run[seen[a].run].status = "abandoned"

\* An attempt being retried has ended.
RetriesFollowEnds ==
    \A a \in Application :
        seen[a].phase = "authorizing" => run[seen[a].run].status \in Retryable

\* Every answer names the run whose row names the retried attempt.
AnswersAreSuccessors == \A x \in answered : run[x[2]].prev = x[1]

IInv ==
    /\ TypeOK
    /\ IntentMatchesAttempt
    /\ AbsentIsBlank
    /\ LeaseNamesOwner
    /\ ClaimsAreGrants
    /\ ViewsAreVersions
    /\ RetriesFollowEnds
    /\ LinearRetry
    /\ AnswersAreSuccessors

\* A claim in progress names a run, and so does what a session has read.
LEMMA ClaimNamesRun ==
    ASSUME TypeOK, NEW w \in Worker, claim[w].phase # "idle"
    PROVE  /\ claim[w].run \in Run
           /\ claim[w].epoch \in Nat /\ claim[w].granted \in Nat
  BY DEF TypeOK, Claims, NoClaim

\* An application session that is not idle has read a run.
LEMMA ViewNamesRun ==
    ASSUME TypeOK, NEW a \in Application, seen[a].phase # "idle"
    PROVE  seen[a].run \in Run /\ seen[a].row \in Row
  BY DEF TypeOK, Views, NoView

\* An attempt and its dispatch intent move together.
LEMMA IntentStep ==
    ASSUME TypeOK, IntentMatchesAttempt, [Next]_vars
    PROVE  IntentMatchesAttempt'
<1>1. ASSUME NEW r \in Root, NEW prev \in Run \cup {NoRun}, AdmitAttempt(r, prev)
      PROVE  IntentMatchesAttempt'
  BY <1>1, NewFields DEF TypeOK, IntentMatchesAttempt, AdmitAttempt, StageAdmit
<1>2. ASSUME NEW r \in Root, NEW status \in LegacyStatus,
             NEW prev \in Run \cup {NoRun}, RecordLegacyRun(r, status, prev)
      PROVE  IntentMatchesAttempt'
  <2>1. status \in Status /\ status \notin Live /\ status # "absent"
    OBVIOUS
  <2>2. /\ run'[r].status = status
        /\ \A q \in Run : q # r => run'[q] = run[q]
    BY <1>2, <2>1, NewFields DEF TypeOK, RecordLegacyRun
  <2>3. outbox[r] = "none" /\ UNCHANGED <<outbox, owner>>
    BY <1>2 DEF IntentMatchesAttempt, RecordLegacyRun
  <2> QED
    BY <2>1, <2>2, <2>3 DEF IntentMatchesAttempt
<1>3. ASSUME NEW w \in Worker, NEW r \in Run, NEW expires \in Expiry,
             ClaimDispatch(w, r, expires)
      PROVE  IntentMatchesAttempt'
  BY <1>3, ClaimedFields DEF TypeOK, IntentMatchesAttempt, ClaimDispatch, Expiry
<1>4. ASSUME NEW w \in Worker, NEW expires \in Expiry,
             RenewDispatchLease(w, expires)
      PROVE  IntentMatchesAttempt'
  BY <1>4, ClaimNamesRun, RenewedFields
     DEF TypeOK, IntentMatchesAttempt, RenewDispatchLease, PassesFence, Expiry
<1>5. ASSUME NEW w \in Worker, MarkRunning(w)
      PROVE  IntentMatchesAttempt'
  BY <1>5, ClaimNamesRun, MovedFields
     DEF TypeOK, IntentMatchesAttempt, MarkRunning, PassesFence
<1>6. ASSUME NEW a \in Application, ReleaseExpiredDispatch(a)
      PROVE  IntentMatchesAttempt'
  BY <1>6, ViewNamesRun, ReleasedFields
     DEF TypeOK, IntentMatchesAttempt, ReleaseExpiredDispatch, AsObserved
<1>7. ASSUME NEW a \in Application, CancelAttempt(a)
      PROVE  IntentMatchesAttempt'
  BY <1>7, ViewNamesRun, MovedFields
     DEF TypeOK, IntentMatchesAttempt, CancelAttempt, AsObserved
<1>8. ASSUME NEW a \in Application, NEW s \in Run, InsertSuccessor(a, s)
      PROVE  IntentMatchesAttempt'
  BY <1>8, ViewNamesRun, NewFields
     DEF TypeOK, IntentMatchesAttempt, InsertSuccessor, StageAdmit
<1>9. CASE UpgradeOnStart
  BY <1>9, AbandonedFields DEF TypeOK, IntentMatchesAttempt, UpgradeOnStart, Unfinished
<1>10. CASE UNCHANGED <<run, outbox, owner>>
  BY <1>10 DEF TypeOK, IntentMatchesAttempt
<1> QED
  BY <1>1, <1>2, <1>3, <1>4, <1>5, <1>6, <1>7, <1>8, <1>9, <1>10
     DEF Next, WorkerStep, ApplicationStep, vars,
         ReadBackClaim, DropClaim, Observe, ForgetView, AuthorizeRetry,
         ReturnOtherSuccessor, Tick

\* What a step may do to a run that exists: it keeps its predecessor, stays as it
\* is once it may be retried, and otherwise moves to a later version or is
\* abandoned; a new owner comes with a new epoch.
Progress(r) ==
    /\ run'[r].status # "absent"
    /\ run'[r].prev = run[r].prev
    /\ run[r].status \in Retryable => run'[r] = run[r]
    /\ \/ run'[r] = run[r]
       \/ run'[r].version = run[r].version + 1
       \/ run'[r].version = run[r].version /\ run'[r].status = "abandoned"
    /\ \/ run'[r].epoch = run[r].epoch /\ owner'[r] = owner[r]
       \/ run'[r].epoch = run[r].epoch + 1

\* What a step does to a run that exists: nothing, or one of the five updates.
LEMMA RowStep ==
    ASSUME TypeOK, [Next]_vars, NEW r \in Run, run[r].status # "absent"
    PROVE  Progress(r)
<1> run[r] \in Row /\ run[r].version \in Nat /\ run[r].epoch \in Nat
  BY DEF TypeOK, Row
<1> USE DEF Progress
<1>1. ASSUME NEW q \in Root, NEW prev \in Run \cup {NoRun}, AdmitAttempt(q, prev)
      PROVE  Progress(r)
  BY <1>1, NewFields DEF TypeOK, AdmitAttempt, StageAdmit
<1>2. ASSUME NEW q \in Root, NEW status \in LegacyStatus,
             NEW prev \in Run \cup {NoRun}, RecordLegacyRun(q, status, prev)
      PROVE  Progress(r)
  BY <1>2, NewFields DEF TypeOK, RecordLegacyRun
<1>3. ASSUME NEW w \in Worker, NEW q \in Run, NEW expires \in Expiry,
             ClaimDispatch(w, q, expires)
      PROVE  Progress(r)
  BY <1>3, ClaimedFields DEF TypeOK, ClaimDispatch, Claimable
<1>4. ASSUME NEW w \in Worker, NEW expires \in Expiry, RenewDispatchLease(w, expires)
      PROVE  Progress(r)
  BY <1>4, ClaimNamesRun, RenewedFields DEF TypeOK, RenewDispatchLease, PassesFence
<1>5. ASSUME NEW w \in Worker, MarkRunning(w)
      PROVE  Progress(r)
  BY <1>5, ClaimNamesRun, MovedFields DEF TypeOK, MarkRunning, PassesFence
<1>6. ASSUME NEW a \in Application, ReleaseExpiredDispatch(a)
      PROVE  Progress(r)
  BY <1>6, ViewNamesRun, ReleasedFields DEF TypeOK, ReleaseExpiredDispatch, AsObserved
<1>7. ASSUME NEW a \in Application, CancelAttempt(a)
      PROVE  Progress(r)
  BY <1>7, ViewNamesRun, MovedFields DEF TypeOK, CancelAttempt, AsObserved
<1>8. ASSUME NEW a \in Application, NEW s \in Run, InsertSuccessor(a, s)
      PROVE  Progress(r)
  BY <1>8, ViewNamesRun, NewFields DEF TypeOK, InsertSuccessor, StageAdmit
<1>9. CASE UpgradeOnStart
  BY <1>9, AbandonedFields DEF TypeOK, UpgradeOnStart, Unfinished
<1>10. CASE UNCHANGED <<run, owner>>
  BY <1>10
<1> QED
  BY <1>1, <1>2, <1>3, <1>4, <1>5, <1>6, <1>7, <1>8, <1>9, <1>10
     DEF Next, WorkerStep, ApplicationStep, vars,
         ReadBackClaim, DropClaim, Observe, ForgetView, AuthorizeRetry,
         ReturnOtherSuccessor, Tick

\* A commit or the repository inserts the run with the predecessor it is given.
Brought(r, status, prev) ==
    /\ MayFollow(r, prev)
    /\ run' = [run EXCEPT ![r] = NewRow(status, prev)]

\* What a step may do to a run that does not exist yet.
LEMMA CreationStep ==
    ASSUME TypeOK, [Next]_vars, NEW r \in Run, run[r].status = "absent"
    PROVE  \/ run'[r] = run[r]
           \/ \E status \in Status \ {"absent"}, prev \in Run \cup {NoRun} :
                 r \in Root /\ Brought(r, status, prev)
           \/ r \notin Root /\ \E a \in Application : InsertSuccessor(a, r)
<1> DEFINE Creation ==
      \/ run'[r] = run[r]
      \/ \E status \in Status \ {"absent"}, prev \in Run \cup {NoRun} :
            r \in Root /\ Brought(r, status, prev)
      \/ r \notin Root /\ \E a \in Application : InsertSuccessor(a, r)
<1>1. ASSUME NEW q \in Root, NEW prev \in Run \cup {NoRun}, AdmitAttempt(q, prev)
      PROVE  Creation
  BY <1>1 DEF TypeOK, AdmitAttempt, StageAdmit, Brought
<1>2. ASSUME NEW q \in Root, NEW status \in LegacyStatus,
             NEW prev \in Run \cup {NoRun}, RecordLegacyRun(q, status, prev)
      PROVE  Creation
  BY <1>2 DEF TypeOK, RecordLegacyRun, Brought
<1>3. ASSUME NEW w \in Worker, NEW q \in Run, NEW expires \in Expiry,
             ClaimDispatch(w, q, expires)
      PROVE  Creation
  BY <1>3 DEF TypeOK, ClaimDispatch, Claimable
<1>4. ASSUME NEW w \in Worker, NEW expires \in Expiry, RenewDispatchLease(w, expires)
      PROVE  Creation
  BY <1>4, ClaimNamesRun DEF TypeOK, RenewDispatchLease, PassesFence
<1>5. ASSUME NEW w \in Worker, MarkRunning(w)
      PROVE  Creation
  BY <1>5, ClaimNamesRun DEF TypeOK, MarkRunning, PassesFence
<1>6. ASSUME NEW a \in Application, ReleaseExpiredDispatch(a)
      PROVE  Creation
  BY <1>6, ViewNamesRun DEF TypeOK, ReleaseExpiredDispatch, AsObserved
<1>7. ASSUME NEW a \in Application, CancelAttempt(a)
      PROVE  Creation
  BY <1>7, ViewNamesRun DEF TypeOK, CancelAttempt, AsObserved
<1>8. ASSUME NEW a \in Application, NEW s \in Run \ Root, InsertSuccessor(a, s)
      PROVE  Creation
  BY <1>8, ViewNamesRun DEF TypeOK, InsertSuccessor, StageAdmit
<1>9. CASE UpgradeOnStart
  BY <1>9 DEF TypeOK, UpgradeOnStart, Unfinished
<1>10. CASE UNCHANGED run
  BY <1>10
<1> QED
  BY <1>1, <1>2, <1>3, <1>4, <1>5, <1>6, <1>7, <1>8, <1>9, <1>10
     DEF Next, WorkerStep, ApplicationStep, vars,
         ReadBackClaim, DropClaim, Observe, ForgetView, AuthorizeRetry,
         ReturnOtherSuccessor, Tick

-----------------------------------------------------------------------------
\* A run that no transaction has inserted keeps the blank row.
LEMMA BlankStep ==
    ASSUME TypeOK, AbsentIsBlank, [Next]_vars
    PROVE  AbsentIsBlank'
<1> SUFFICES ASSUME NEW r \in Run, run'[r].status = "absent"
             PROVE  run'[r] = AbsentRow
  BY DEF AbsentIsBlank
<1>1. run[r].status = "absent"
  BY RowStep DEF Progress
<1>2. run[r] = AbsentRow
  BY <1>1 DEF AbsentIsBlank
<1>3. ASSUME NEW a \in Application, InsertSuccessor(a, r)
      PROVE  run'[r].status = "admitted"
  BY <1>3, ViewNamesRun, NewFields DEF TypeOK, InsertSuccessor, StageAdmit
<1>4. ASSUME NEW status \in Status \ {"absent"}, NEW prev \in Run \cup {NoRun},
             Brought(r, status, prev)
      PROVE  run'[r].status = status
  BY <1>4, NewFields DEF TypeOK, Brought
<1> QED
  BY <1>1, <1>2, <1>3, <1>4, CreationStep

\* The lease columns of a leased attempt are those of the last claim's session.
LEMMA OwnerStep ==
    ASSUME TypeOK, AbsentIsBlank, LeaseNamesOwner, [Next]_vars
    PROVE  LeaseNamesOwner'
<1> USE DEF LeaseNamesOwner
<1>1. ASSUME NEW r \in Root, NEW prev \in Run \cup {NoRun}, AdmitAttempt(r, prev)
      PROVE  LeaseNamesOwner'
  BY <1>1, NewFields DEF TypeOK, AdmitAttempt, StageAdmit
<1>2. ASSUME NEW r \in Root, NEW status \in LegacyStatus,
             NEW prev \in Run \cup {NoRun}, RecordLegacyRun(r, status, prev)
      PROVE  LeaseNamesOwner'
  <2>1. status \in Status
    OBVIOUS
  <2>2. run'[r].worker = NoWorker
    BY <1>2, <2>1, NewFields DEF TypeOK, RecordLegacyRun
  <2> QED
    BY <1>2, <2>2 DEF TypeOK, RecordLegacyRun
<1>3. ASSUME NEW w \in Worker, NEW r \in Run, NEW expires \in Expiry,
             ClaimDispatch(w, r, expires)
      PROVE  LeaseNamesOwner'
  BY <1>3, ClaimedFields DEF TypeOK, ClaimDispatch
<1>4. ASSUME NEW w \in Worker, NEW expires \in Expiry, RenewDispatchLease(w, expires)
      PROVE  LeaseNamesOwner'
  BY <1>4, ClaimNamesRun, RenewedFields DEF TypeOK, RenewDispatchLease, PassesFence
<1>5. ASSUME NEW w \in Worker, MarkRunning(w)
      PROVE  LeaseNamesOwner'
  BY <1>5, ClaimNamesRun, MovedFields DEF TypeOK, MarkRunning, PassesFence
<1>6. ASSUME NEW a \in Application, ReleaseExpiredDispatch(a)
      PROVE  LeaseNamesOwner'
  BY <1>6, ViewNamesRun, ReleasedFields DEF TypeOK, ReleaseExpiredDispatch, AsObserved
<1>7. ASSUME NEW a \in Application, CancelAttempt(a)
      PROVE  LeaseNamesOwner'
  BY <1>7, ViewNamesRun, MovedFields DEF TypeOK, CancelAttempt, AsObserved
<1>8. ASSUME NEW a \in Application, NEW s \in Run, InsertSuccessor(a, s)
      PROVE  LeaseNamesOwner'
  BY <1>8, ViewNamesRun, NewFields DEF TypeOK, InsertSuccessor, StageAdmit
<1>9. CASE UpgradeOnStart
  BY <1>9, AbandonedFields DEF TypeOK, UpgradeOnStart
<1>10. CASE UNCHANGED <<run, owner>>
  BY <1>10
<1> QED
  BY <1>1, <1>2, <1>3, <1>4, <1>5, <1>6, <1>7, <1>8, <1>9, <1>10
     DEF Next, WorkerStep, ApplicationStep, vars,
         ReadBackClaim, DropClaim, Observe, ForgetView, AuthorizeRetry,
         ReturnOtherSuccessor, Tick

\* Another session's claim only makes a claim older.
LEMMA ClaimStep ==
    ASSUME TypeOK, ClaimsAreGrants, [Next]_vars
    PROVE  ClaimsAreGrants'
<1> SUFFICES ASSUME NEW w \in Worker, claim'[w].phase # "idle"
             PROVE  /\ run'[claim'[w].run].status # "absent"
                    /\ claim'[w].granted <= run'[claim'[w].run].epoch
                    /\ claim'[w].granted = run'[claim'[w].run].epoch =>
                          owner'[claim'[w].run] = w
  BY DEF ClaimsAreGrants
<1>1. CASE claim'[w] = claim[w]
  <2>1. claim[w].run \in Run /\ claim[w].granted \in Nat
    BY <1>1, ClaimNamesRun
  <2>2. Progress(claim[w].run)
    BY <1>1, <2>1, RowStep DEF ClaimsAreGrants
  <2>3. run[claim[w].run].epoch \in Nat
    BY <2>1 DEF TypeOK, Row
  <2> QED
    BY <1>1, <2>1, <2>2, <2>3 DEF ClaimsAreGrants, Progress
<1>2. CASE /\ claim[w].phase # "idle"
           /\ claim'[w].run = claim[w].run /\ claim'[w].granted = claim[w].granted
           /\ UNCHANGED <<run, owner>>
  BY <1>2 DEF ClaimsAreGrants
<1>3. ASSUME NEW r \in Run, NEW expires \in Expiry, ClaimDispatch(w, r, expires)
      PROVE  /\ claim'[w].run = r /\ owner'[r] = w
             /\ claim'[w].granted = run'[r].epoch
             /\ run'[r].epoch \in Nat /\ run'[r].status # "absent"
  <2>1. run[r].epoch \in Nat
    BY DEF TypeOK, Row
  <2> QED
    BY <1>3, <2>1, ClaimedFields DEF TypeOK, ClaimDispatch
<1>4. CASE ReadBackClaim(w)
  <2>1. /\ claim[w].phase = "committed" /\ UNCHANGED <<run, owner>>
        /\ claim' = [claim EXCEPT ![w] = [phase |-> "holding", run |-> claim[w].run,
                                          epoch |-> run[claim[w].run].epoch,
                                          granted |-> claim[w].granted]]
    BY <1>4 DEF ReadBackClaim
  <2>2. claim'[w].run = claim[w].run /\ claim'[w].granted = claim[w].granted
    BY <2>1 DEF TypeOK
  <2> QED
    BY <1>2, <2>1, <2>2
<1>5. ASSUME claim'[w] # claim[w]
      PROVE  \/ \E r \in Run, expires \in Expiry : ClaimDispatch(w, r, expires)
             \/ ReadBackClaim(w)
  <2>1. ASSUME NEW a \in Application, ApplicationStep(a)
        PROVE  UNCHANGED claim
    BY <2>1 DEF ApplicationStep, Observe, AuthorizeRetry, InsertSuccessor,
                ReleaseExpiredDispatch, CancelAttempt, ForgetView, ReturnOtherSuccessor
  <2>2. \E v \in Worker : WorkerStep(v)
    BY <1>5, <2>1 DEF Next, vars, AdmitAttempt, RecordLegacyRun, UpgradeOnStart, Tick
  <2>3. PICK v \in Worker : WorkerStep(v)
    BY <2>2
  <2>4. ~DropClaim(v)
    BY <1>5 DEF TypeOK, DropClaim, NoClaim
  <2>5. v = w
    BY <1>5, <2>3, <2>4 DEF TypeOK, WorkerStep, ClaimDispatch, ReadBackClaim,
                            RenewDispatchLease, MarkRunning
  <2> QED
    BY <1>5, <2>3, <2>4, <2>5 DEF WorkerStep, RenewDispatchLease, MarkRunning
<1>6. CASE \E r \in Run, expires \in Expiry : ClaimDispatch(w, r, expires)
  <2>1. PICK r \in Run, expires \in Expiry : ClaimDispatch(w, r, expires)
    BY <1>6
  <2> QED
    BY <2>1, <1>3
<1> QED
  BY <1>1, <1>4, <1>5, <1>6

\* A session's view changes only when it reads a live run, starts to retry an
\* ended one, or forgets.
LEMMA ViewChange ==
    ASSUME TypeOK, [Next]_vars, NEW a \in Application, seen'[a].phase # "idle"
    PROVE  \/ seen'[a] = seen[a]
           \/ \E r \in Run : /\ Observe(a, r)
                             /\ seen'[a] = [phase |-> "observed", run |-> r, row |-> run[r]]
           \/ \E r \in Run : /\ run[r].status \in Retryable /\ UNCHANGED run
                             /\ seen'[a] = [phase |-> "authorizing", run |-> r,
                                            row |-> AbsentRow]
<1> SUFFICES ASSUME seen'[a] # seen[a]
             PROVE  \/ \E r \in Run : /\ Observe(a, r)
                                      /\ seen'[a] = [phase |-> "observed", run |-> r,
                                                     row |-> run[r]]
                    \/ \E r \in Run : /\ run[r].status \in Retryable /\ UNCHANGED run
                                      /\ seen'[a] = [phase |-> "authorizing", run |-> r,
                                                     row |-> AbsentRow]
  OBVIOUS
<1>1. ASSUME NEW w \in Worker, WorkerStep(w)
      PROVE  UNCHANGED seen
  BY <1>1 DEF WorkerStep, ClaimDispatch, ReadBackClaim, RenewDispatchLease, MarkRunning,
              DropClaim
<1>2. PICK b \in Application : ApplicationStep(b)
  BY <1>1 DEF Next, vars, AdmitAttempt, RecordLegacyRun, UpgradeOnStart, Tick
<1>3. CASE seen' = [seen EXCEPT ![b] = NoView]
  BY <1>3 DEF TypeOK, NoView
<1>4. CASE \E r \in Run : Observe(b, r)
  BY <1>4 DEF TypeOK, Observe
<1>5. CASE \E r \in Run : AuthorizeRetry(b, r)
  BY <1>5 DEF TypeOK, AuthorizeRetry
<1> QED
  BY <1>2, <1>3, <1>4, <1>5
     DEF ApplicationStep, InsertSuccessor, ReleaseExpiredDispatch, CancelAttempt,
         ForgetView, ReturnOtherSuccessor

\* A row with the version a session read is the row it read: versions only grow.
LEMMA ViewStep ==
    ASSUME TypeOK, ViewsAreVersions, [Next]_vars
    PROVE  ViewsAreVersions'
<1> SUFFICES ASSUME NEW a \in Application, seen'[a].phase = "observed"
             PROVE  LET r == seen'[a].run
                    IN  /\ run'[r].status # "absent"
                        /\ seen'[a].row.version <= run'[r].version
                        /\ seen'[a].row.version = run'[r].version =>
                              seen'[a].row = run'[r] \/ run'[r].status = "abandoned"
  BY DEF ViewsAreVersions
<1>1. CASE seen'[a] = seen[a]
  <2> DEFINE r == seen[a].run
  <2>1. r \in Run /\ seen[a].row \in Row
    BY <1>1, ViewNamesRun
  <2>2. Progress(r)
    BY <1>1, <2>1, RowStep DEF ViewsAreVersions
  <2>3. run[r].version \in Nat /\ seen[a].row.version \in Nat
    BY <2>1 DEF TypeOK, Row
  <2>4. /\ seen[a].row.version <= run[r].version
        /\ seen[a].row.version = run[r].version =>
              seen[a].row = run[r] \/ run[r].status = "abandoned"
    BY <1>1 DEF ViewsAreVersions
  <2> QED
    BY <1>1, <2>1, <2>2, <2>3, <2>4 DEF Progress
<1>2. ASSUME NEW r \in Run, Observe(a, r),
             seen'[a] = [phase |-> "observed", run |-> r, row |-> run[r]]
      PROVE  /\ seen'[a].run = r /\ seen'[a].row = run'[r]
             /\ run'[r].status # "absent" /\ run'[r].version \in Nat
  BY <1>2 DEF TypeOK, Row, Observe
<1>3. CASE \E r \in Run : /\ Observe(a, r)
                          /\ seen'[a] = [phase |-> "observed", run |-> r, row |-> run[r]]
  <2>1. PICK r \in Run : /\ Observe(a, r)
                         /\ seen'[a] = [phase |-> "observed", run |-> r, row |-> run[r]]
    BY <1>3
  <2>2. /\ seen'[a].run = r /\ seen'[a].row = run'[r]
        /\ run'[r].status # "absent" /\ run'[r].version \in Nat
    BY <2>1, <1>2
  <2> QED
    BY <2>2
<1>4. \A r : [phase |-> "authorizing", run |-> r, row |-> AbsentRow] # seen'[a]
  OBVIOUS
<1> QED
  BY <1>1, <1>3, <1>4, ViewChange

\* The attempt a session is about to retry stays ended until the insert.
LEMMA RetryEndStep ==
    ASSUME TypeOK, RetriesFollowEnds, [Next]_vars
    PROVE  RetriesFollowEnds'
<1> SUFFICES ASSUME NEW a \in Application, seen'[a].phase = "authorizing"
             PROVE  run'[seen'[a].run].status \in Retryable
  BY DEF RetriesFollowEnds
<1>1. CASE seen'[a] = seen[a]
  <2>1. seen[a].run \in Run /\ run[seen[a].run].status \in Retryable
    BY <1>1, ViewNamesRun DEF RetriesFollowEnds
  <2>2. Progress(seen[a].run)
    BY <2>1, RowStep
  <2> QED
    BY <1>1, <2>1, <2>2 DEF Progress
<1>2. CASE \E r \in Run : /\ run[r].status \in Retryable /\ UNCHANGED run
                          /\ seen'[a] = [phase |-> "authorizing", run |-> r,
                                         row |-> AbsentRow]
  BY <1>2
<1>3. \A r \in Run : [phase |-> "observed", run |-> r, row |-> run[r]] # seen'[a]
  OBVIOUS
<1> QED
  BY <1>1, <1>2, <1>3, ViewChange

\* The predecessors of two runs are compared before and after an insert.
LEMMA ChainStep ==
    ASSUME TypeOK, AbsentIsBlank, RetriesFollowEnds, LinearRetry, [Next]_vars
    PROVE  LinearRetry'
<1>1. ASSUME NEW a \in Application, NEW s \in Run, InsertSuccessor(a, s)
      PROVE  /\ run'[s].prev = seen[a].run /\ seen[a].run \in Run
             /\ run[seen[a].run].status \in Retryable
             /\ \A t \in Run : run[t].prev # seen[a].run
             /\ \A t \in Run : t # s => run'[t] = run[t]
  BY <1>1, ViewNamesRun, NewFields
     DEF TypeOK, InsertSuccessor, StageAdmit, Successors, RetriesFollowEnds
<1>2. ASSUME NEW r \in Run, NEW status \in Status \ {"absent"},
             NEW prev \in Run \cup {NoRun}, Brought(r, status, prev)
      PROVE  /\ run'[r].prev = prev
             /\ prev # NoRun => \A t \in Run : run[t].prev # prev
             /\ \A t \in Run : t # r => run'[t] = run[t]
  BY <1>2, NewFields DEF TypeOK, Brought, MayFollow, Successors
<1>3. ASSUME NEW r \in Run, run'[r].prev # NoRun, run'[r].prev # run[r].prev
      PROVE  /\ \A t \in Run : run[t].prev # run'[r].prev
             /\ \A t \in Run : t # r => run'[t] = run[t]
  <2>1. run[r].status = "absent"
    BY <1>3, RowStep DEF Progress
  <2> QED
    BY <1>1, <1>2, <1>3, <2>1, CreationStep
<1>4. ASSUME NEW q \in Run, run[q].status \in Retryable
      PROVE  run'[q].status \in Retryable
  BY <1>4, RowStep DEF Progress
<1>5. ASSUME NEW s \in Run, NEW t \in Run, run'[s].prev # NoRun,
             run'[t].prev = run'[s].prev, t # s
      PROVE  FALSE
  <2>1. CASE run'[s].prev = run[s].prev /\ run'[t].prev = run[t].prev
    BY <1>5, <2>1 DEF LinearRetry
  <2>2. CASE run'[s].prev # run[s].prev
    BY <1>3, <1>5, <2>2
  <2>3. CASE run'[t].prev # run[t].prev
    BY <1>3, <1>5, <2>3
  <2> QED
    BY <2>1, <2>2, <2>3
<1>6. ASSUME NEW s \in Run \ Root, run'[s].status # "absent"
      PROVE  run'[s].prev # NoRun /\ run'[run'[s].prev].status \in Retryable
  <2>1. CASE run[s].status = "absent"
    <3>1. PICK a \in Application : InsertSuccessor(a, s)
      BY <1>6, <2>1, CreationStep
    <3> QED
      BY <1>1, <1>4, <3>1
  <2>2. CASE run[s].status # "absent"
    <3>1. run[s].prev \in Run /\ run[run[s].prev].status \in Retryable
      BY <2>2 DEF LinearRetry, TypeOK, Row
    <3>2. run'[s].prev = run[s].prev
      BY <2>2, RowStep DEF Progress
    <3> QED
      BY <1>4, <3>1, <3>2
  <2> QED
    BY <2>1, <2>2
<1> QED
  BY <1>5, <1>6 DEF LinearRetry

\* What authorize_retry returned stays the successor of the attempt.
LEMMA AnswerStep ==
    ASSUME TypeOK, AbsentIsBlank, AnswersAreSuccessors, [Next]_vars
    PROVE  AnswersAreSuccessors'
<1>1. ASSUME NEW x \in answered
      PROVE  run'[x[2]].prev = x[1]
  <2>1. x[1] \in Run /\ x[2] \in Run /\ run[x[2]].prev = x[1]
    BY DEF TypeOK, AnswersAreSuccessors
  <2>2. run[x[2]].status # "absent"
    BY <2>1 DEF AbsentIsBlank, AbsentRow, RowOf
  <2> QED
    BY <2>1, <2>2, RowStep DEF Progress
<1>2. ASSUME NEW r \in Run, NEW s \in Run, run'[s].prev = r,
             answered' = answered \cup {<<r, s>>}
      PROVE  AnswersAreSuccessors'
  BY <1>1, <1>2 DEF AnswersAreSuccessors
<1>3. CASE UNCHANGED answered
  BY <1>1, <1>3 DEF AnswersAreSuccessors
<1>4. ASSUME NEW a \in Application, NEW s \in Run, InsertSuccessor(a, s)
      PROVE  AnswersAreSuccessors'
  <2>1. seen[a].run \in Run /\ run'[s].prev = seen[a].run
    BY <1>4, ViewNamesRun, NewFields DEF TypeOK, InsertSuccessor, StageAdmit
  <2> QED
    BY <1>2, <1>4, <2>1 DEF InsertSuccessor
<1>5. ASSUME NEW a \in Application, ReturnOtherSuccessor(a)
      PROVE  AnswersAreSuccessors'
  <2>1. seen[a].run \in Run /\ UNCHANGED run
    BY <1>5, ViewNamesRun DEF ReturnOtherSuccessor
  <2> QED
    BY <1>2, <1>5, <2>1 DEF ReturnOtherSuccessor, Successors
<1>6. ASSUME NEW a \in Application, NEW r \in Run, AuthorizeRetry(a, r)
      PROVE  AnswersAreSuccessors'
  BY <1>2, <1>3, <1>6 DEF AuthorizeRetry, Successors
<1> QED
  BY <1>3, <1>4, <1>5, <1>6
     DEF Next, vars, WorkerStep, ApplicationStep, AdmitAttempt, RecordLegacyRun,
         ClaimDispatch, ReadBackClaim, RenewDispatchLease, MarkRunning, DropClaim,
         Observe, ReleaseExpiredDispatch, CancelAttempt, ForgetView, UpgradeOnStart, Tick

-----------------------------------------------------------------------------
\* The strengthened invariant holds in every reachable state.
THEOREM Inductive == Spec => []IInv
<1>1. Init => IInv
  BY NullRecords
     DEF Init, IInv, TypeOK, Time, IntentMatchesAttempt, AbsentIsBlank, LeaseNamesOwner,
         ClaimsAreGrants, ViewsAreVersions, RetriesFollowEnds, LinearRetry,
         AnswersAreSuccessors, AbsentRow, RowOf, NoClaim, NoView
<1>2. IInv /\ [Next]_vars => IInv'
  BY TypeStep, IntentStep, BlankStep, OwnerStep, ClaimStep, ViewStep, RetryEndStep,
     ChainStep, AnswerStep DEF IInv
<1> QED
  BY <1>1, <1>2, PTL DEF Spec

\* An attempt and its dispatch intent agree: a claim of a claimable attempt never
\* fails on its outbox row, and the lease names the session that claimed last.
THEOREM IntentSafety == Spec => []IntentMatchesAttempt
<1>1. IInv => IntentMatchesAttempt
  BY DEF IInv
<1> QED
  BY <1>1, Inductive, PTL

\* The WHERE clauses of renew_dispatch_lease and mark_running fence every session
\* whose claim was followed by another one, if worker_ids are not shared or the
\* session uses the epoch its own claim wrote.
THEOREM Fencing == Spec => []EpochFences
<1>1. IInv => EpochFences
  <2> SUFFICES ASSUME IInv, NEW w \in Worker, PassesFence(w),
                      SoleUser(w) \/ claim[w].epoch = claim[w].granted
               PROVE  owner[claim[w].run] = w
    BY DEF EpochFences
  <2>1. claim[w].run \in Run
    BY ClaimNamesRun DEF IInv, PassesFence
  <2>2. CASE claim[w].epoch = claim[w].granted
    BY <2>2 DEF IInv, ClaimsAreGrants, PassesFence
  <2>3. CASE SoleUser(w)
    <3>1. /\ run[claim[w].run].worker = WorkerIdOf[w]
          /\ WorkerIdOf[w] # NoWorker
      BY DEF PassesFence
    <3>2. /\ owner[claim[w].run] \in Worker
          /\ WorkerIdOf[owner[claim[w].run]] = WorkerIdOf[w]
      BY <2>1, <3>1 DEF IInv, TypeOK, LeaseNamesOwner
    <3> QED
      BY <2>3, <3>2 DEF SoleUser
  <2> QED
    BY <2>2, <2>3
<1> QED
  BY <1>1, Inductive, PTL

\* No two runs follow the same one, whatever predecessors runs are stored with and
\* whichever sessions race to retry, and a retry follows a run that has ended.
THEOREM RetryChains == Spec => []LinearRetry
<1>1. IInv => LinearRetry
  BY DEF IInv
<1> QED
  BY <1>1, Inductive, PTL

\* Of all the steps, only the schema upgrade at a start of the application leaves
\* a pending intent behind an attempt that cannot be dispatched: between two starts
\* every pending intent is one a worker can claim, as the architecture pages promise
\* (docs/architecture/persistence-and-admission.md, "recoverable dispatch intent").
THEOREM OnlyStartsStrandIntents ==
    Spec /\ [][~UpgradeOnStart]_vars => []PendingIntentIsDispatchable
<1>1. Init => PendingIntentIsDispatchable
  BY DEF Init, PendingIntentIsDispatchable
<1>2. ASSUME IInv, PendingIntentIsDispatchable, [Next]_vars, [~UpgradeOnStart]_vars
      PROVE  PendingIntentIsDispatchable'
  <2>1. TypeOK /\ IntentMatchesAttempt
    BY <1>2 DEF IInv
  <2> USE <1>2, <2>1 DEF PendingIntentIsDispatchable
  <2>2. ASSUME NEW r \in Root, NEW prev \in Run \cup {NoRun}, AdmitAttempt(r, prev)
        PROVE  PendingIntentIsDispatchable'
    BY <2>2, NewFields DEF TypeOK, AdmitAttempt, StageAdmit
  <2>3. ASSUME NEW r \in Root, NEW status \in LegacyStatus,
               NEW prev \in Run \cup {NoRun}, RecordLegacyRun(r, status, prev)
        PROVE  PendingIntentIsDispatchable'
    BY <2>3 DEF TypeOK, RecordLegacyRun, IntentMatchesAttempt
  <2>4. ASSUME NEW w \in Worker, NEW r \in Run, NEW expires \in Expiry,
               ClaimDispatch(w, r, expires)
        PROVE  PendingIntentIsDispatchable'
    BY <2>4 DEF TypeOK, ClaimDispatch
  <2>5. ASSUME NEW w \in Worker, NEW expires \in Expiry, RenewDispatchLease(w, expires)
        PROVE  PendingIntentIsDispatchable'
    BY <2>5, ClaimNamesRun, RenewedFields DEF TypeOK, RenewDispatchLease, PassesFence
  <2>6. ASSUME NEW w \in Worker, MarkRunning(w)
        PROVE  PendingIntentIsDispatchable'
    BY <2>6, ClaimNamesRun, MovedFields
       DEF TypeOK, MarkRunning, PassesFence, IntentMatchesAttempt
  <2>7. ASSUME NEW a \in Application, ReleaseExpiredDispatch(a)
        PROVE  PendingIntentIsDispatchable'
    BY <2>7, ViewNamesRun, ReleasedFields DEF TypeOK, ReleaseExpiredDispatch, AsObserved
  <2>8. ASSUME NEW a \in Application, CancelAttempt(a)
        PROVE  PendingIntentIsDispatchable'
    BY <2>8, ViewNamesRun, MovedFields DEF TypeOK, CancelAttempt, AsObserved
  <2>9. ASSUME NEW a \in Application, NEW s \in Run, InsertSuccessor(a, s)
        PROVE  PendingIntentIsDispatchable'
    BY <2>9, ViewNamesRun, NewFields DEF TypeOK, InsertSuccessor, StageAdmit
  <2>10. CASE UNCHANGED <<run, outbox>>
    BY <2>10
  <2>11. CASE UpgradeOnStart
    BY <2>10, <2>11 DEF vars
  <2> QED
    BY <2>2, <2>3, <2>4, <2>5, <2>6, <2>7, <2>8, <2>9, <2>10, <2>11
       DEF Next, WorkerStep, ApplicationStep, vars,
           ReadBackClaim, DropClaim, Observe, ForgetView, AuthorizeRetry,
           ReturnOtherSuccessor, Tick
<1> QED
  BY <1>1, <1>2, Inductive, PTL DEF Spec

\* authorize_retry gives every caller the same successor.
THEOREM RetryIdempotence == Spec => []RetryAnswersAgree
<1>1. IInv => RetryAnswersAgree
  BY DEF IInv, TypeOK, AnswersAreSuccessors, LinearRetry, RetryAnswersAgree
<1> QED
  BY <1>1, Inductive, PTL

\* No session cancels an attempt, or takes its lease back, after a claim, renewal
\* or start that it has not seen.
THEOREM OptimisticEnds == Spec => EndsOnlyAsSeen
<1> DEFINE Ends(r) == \/ run'[r].status = "cancelled" /\ run[r].status \in Live
                      \/ run'[r].status = "admitted" /\ run[r].status \in Leased
           Seen(r) == \E a \in Application :
                          seen[a].phase = "observed" /\ seen[a].run = r /\ seen[a].row = run[r]
<1>1. IInv /\ [Next]_vars => \A r \in Run : Ends(r) => Seen(r)
  <2> SUFFICES ASSUME IInv, [Next]_vars, NEW r \in Run, Ends(r)
               PROVE  Seen(r)
    OBVIOUS
  <2> USE DEF IInv
  <2>1. ASSUME NEW a \in Application, AsObserved(a), seen[a].run = r
        PROVE  Seen(r)
    BY <2>1 DEF ViewsAreVersions, AsObserved
  <2>2. ASSUME NEW q \in Root, NEW prev \in Run \cup {NoRun}, AdmitAttempt(q, prev)
        PROVE  FALSE
    BY <2>2 DEF TypeOK, AdmitAttempt, StageAdmit
  <2>3. ASSUME NEW q \in Root, NEW status \in LegacyStatus,
               NEW prev \in Run \cup {NoRun}, RecordLegacyRun(q, status, prev)
        PROVE  FALSE
    BY <2>3 DEF TypeOK, RecordLegacyRun
  <2>4. ASSUME NEW w \in Worker, NEW q \in Run, NEW expires \in Expiry,
               ClaimDispatch(w, q, expires)
        PROVE  FALSE
    BY <2>4, ClaimedFields DEF TypeOK, ClaimDispatch
  <2>5. ASSUME NEW w \in Worker, NEW expires \in Expiry, RenewDispatchLease(w, expires)
        PROVE  FALSE
    BY <2>5, ClaimNamesRun, RenewedFields DEF TypeOK, RenewDispatchLease, PassesFence
  <2>6. ASSUME NEW w \in Worker, MarkRunning(w)
        PROVE  FALSE
    BY <2>6, ClaimNamesRun, MovedFields DEF TypeOK, MarkRunning, PassesFence
  <2>7. ASSUME NEW a \in Application, ReleaseExpiredDispatch(a)
        PROVE  Seen(r)
    BY <2>1, <2>7, ViewNamesRun DEF TypeOK, ReleaseExpiredDispatch, AsObserved
  <2>8. ASSUME NEW a \in Application, CancelAttempt(a)
        PROVE  Seen(r)
    BY <2>1, <2>8, ViewNamesRun DEF TypeOK, CancelAttempt, AsObserved
  <2>9. ASSUME NEW a \in Application, NEW s \in Run, InsertSuccessor(a, s)
        PROVE  FALSE
    BY <2>9, ViewNamesRun DEF TypeOK, InsertSuccessor, StageAdmit
  <2>10. CASE UpgradeOnStart
    BY <2>10, AbandonedFields DEF TypeOK, UpgradeOnStart
  <2>11. CASE UNCHANGED run
    BY <2>11
  <2> QED
    BY <2>2, <2>3, <2>4, <2>5, <2>6, <2>7, <2>8, <2>9, <2>10, <2>11
       DEF Next, WorkerStep, ApplicationStep, vars,
           ReadBackClaim, DropClaim, Observe, ForgetView, AuthorizeRetry,
           ReturnOtherSuccessor, Tick
<1> QED
  BY <1>1, Inductive, PTL DEF Spec, EndsOnlyAsSeen

-----------------------------------------------------------------------------
(***************************************************************************)
(* The protocol implements the ledger of attempts.                         *)
(***************************************************************************)

\* What the ledger sees of the rows.
Phases == [r \in Run |-> PhaseOf(run[r].status)]
Tokens == [r \in Run |-> run[r].epoch]
Follows == [r \in Run |-> run[r].prev]

\* The ledger's functions before and after one row is updated.
LedgerMoves(r, phase, token, follows) ==
    /\ Phases' = [Phases EXCEPT ![r] = phase]
    /\ Tokens' = [Tokens EXCEPT ![r] = token]
    /\ Follows' = [Follows EXCEPT ![r] = follows]

\* Under the refinement mapping, the parts of a row the ledger sees.
LEMMA RowPhase ==
    ASSUME TypeOK, NEW r \in Run
    PROVE  /\ run[r].status = "absent" <=> PhaseOf(run[r].status) = "absent"
           /\ run[r].status = "pending_approval" <=> PhaseOf(run[r].status) = "parked"
           /\ run[r].status = "admitted" <=> PhaseOf(run[r].status) = "open"
           /\ run[r].status \in Leased <=> PhaseOf(run[r].status) = "held"
           /\ run[r].status \in Retryable \cup {"finished"} <=>
                 PhaseOf(run[r].status) = "ended"
<1>1. run[r].status \in Status
  BY DEF TypeOK, Row
<1> QED
  BY <1>1 DEF PhaseOf

\* An empty database is an empty ledger.
LEMMA LedgerInitially == Init => Ledger!LedgerInit
  BY DEF Init, Ledger!LedgerInit, AbsentRow, RowOf, PhaseOf

\* An update of one row moves one run of the ledger.
LEMMA RowMapping ==
    ASSUME TypeOK, NEW r \in Run, NEW row, run' = [run EXCEPT ![r] = row]
    PROVE  LedgerMoves(r, PhaseOf(row.status), row.epoch, row.prev)
<1>1. run' \in [Run -> {run[q] : q \in Run} \cup {row}] /\ run'[r] = row
  BY DEF TypeOK
<1>2. \A q \in Run : q # r => run'[q] = run[q]
  BY DEF TypeOK
<1>3. [q \in Run |-> PhaseOf(run'[q].status)] =
        [[q \in Run |-> PhaseOf(run[q].status)] EXCEPT ![r] = PhaseOf(row.status)]
  BY <1>1, <1>2
<1>4. [q \in Run |-> run'[q].epoch] = [[q \in Run |-> run[q].epoch] EXCEPT ![r] = row.epoch]
  BY <1>1, <1>2
<1>5. [q \in Run |-> run'[q].prev] = [[q \in Run |-> run[q].prev] EXCEPT ![r] = row.prev]
  BY <1>1, <1>2
<1> QED
  BY <1>3, <1>4, <1>5 DEF LedgerMoves, Phases, Tokens, Follows

\* An insert from outside opens a run in the ledger, after what it names.
LEMMA OpensRun ==
    ASSUME TypeOK, NEW r \in Run, NEW row \in Row, run' = [run EXCEPT ![r] = row],
           run[r] = AbsentRow, row.epoch = 0, MayFollow(r, row.prev),
           PhaseOf(row.status) \in {"parked", "open", "ended"}
    PROVE  Ledger!Open(r, row.prev)
<1>1. LedgerMoves(r, PhaseOf(row.status), row.epoch, row.prev)
  BY RowMapping
<1> USE DEF LedgerMoves, Phases, Tokens, Follows
<1>2. Phases[r] = "absent" /\ Tokens[r] = 0
  BY DEF AbsentRow, RowOf, PhaseOf
<1>3. UNCHANGED Tokens
  BY <1>1, <1>2
<1>4. row.prev = NoRun \/ Ledger!Unfollowed(row.prev)
  BY DEF MayFollow, Successors, Ledger!Unfollowed
<1> QED
  BY <1>1, <1>2, <1>3, <1>4 DEF Ledger!Open, Ledger!Enter

\* A claim is a grant.
LEMMA GrantsRun ==
    ASSUME TypeOK, NEW r \in Run, NEW row \in Row, run' = [run EXCEPT ![r] = row],
           run[r].status \in {"admitted"} \cup Leased, row.status \in Leased,
           row.epoch = run[r].epoch + 1, row.prev = run[r].prev
    PROVE  Ledger!Grant(r)
<1>1. LedgerMoves(r, PhaseOf(row.status), row.epoch, row.prev)
  BY RowMapping
<1> USE DEF LedgerMoves, Phases, Tokens, Follows
<1>2. Phases[r] \in {"open", "held"} /\ PhaseOf(row.status) = "held"
  BY DEF PhaseOf
<1> QED
  BY <1>1, <1>2 DEF Ledger!Grant

\* A release returns the run.
LEMMA ReturnsRun ==
    ASSUME TypeOK, NEW r \in Run, NEW row \in Row, run' = [run EXCEPT ![r] = row],
           run[r].status \in Leased, row.status = "admitted",
           row.epoch = run[r].epoch, row.prev = run[r].prev
    PROVE  Ledger!Return(r)
<1>1. LedgerMoves(r, PhaseOf(row.status), row.epoch, row.prev)
  BY RowMapping
<1> USE DEF LedgerMoves, Phases, Tokens, Follows
<1>2. Phases[r] = "held" /\ PhaseOf(row.status) = "open"
  BY DEF PhaseOf
<1>3. UNCHANGED <<Tokens, Follows>>
  BY <1>1
<1> QED
  BY <1>1, <1>2, <1>3 DEF Ledger!Return

\* A cancellation ends the run.
LEMMA EndsRun ==
    ASSUME TypeOK, NEW r \in Run, NEW row \in Row, run' = [run EXCEPT ![r] = row],
           run[r].status \in Live, row.status = "cancelled",
           row.epoch = run[r].epoch, row.prev = run[r].prev
    PROVE  Ledger!End({r})
<1>1. LedgerMoves(r, PhaseOf(row.status), row.epoch, row.prev)
  BY RowMapping
<1> USE DEF LedgerMoves, Phases, Tokens, Follows
<1>2. Phases[r] \in {"open", "held"} /\ PhaseOf(row.status) = "ended"
  BY DEF PhaseOf
<1> QED
  BY <1>1, <1>2 DEF Ledger!End

\* A renewal or a start is invisible in the ledger.
LEMMA KeepsRun ==
    ASSUME TypeOK, NEW r \in Run, NEW row \in Row, run' = [run EXCEPT ![r] = row],
           run[r].status \in Leased, row.status \in Leased,
           row.epoch = run[r].epoch, row.prev = run[r].prev
    PROVE  UNCHANGED Ledger!ledgerVars
<1>1. LedgerMoves(r, PhaseOf(row.status), row.epoch, row.prev)
  BY RowMapping
<1> USE DEF LedgerMoves, Phases, Tokens, Follows
<1>2. Phases[r] = "held" /\ PhaseOf(row.status) = "held"
  BY DEF PhaseOf
<1> QED
  BY <1>1, <1>2 DEF Ledger!ledgerVars

\* Every step of the protocol is a step of the ledger or leaves it unchanged.
LEMMA LedgerStep ==
    ASSUME IInv, [Next]_vars
    PROVE  [Ledger!LedgerNext]_(Ledger!ledgerVars)
<1> DEFINE Goal == [Ledger!LedgerNext]_(Ledger!ledgerVars)
<1> TypeOK
  BY DEF IInv
<1>0. ASSUME NEW r \in Run,
             \/ Ledger!Grant(r) \/ Ledger!Return(r) \/ Ledger!End({r})
             \/ r \in Root /\ \E p \in Run \cup {NoRun} : Ledger!Open(r, p)
      PROVE  Goal
  BY <1>0 DEF Ledger!LedgerNext
<1>1. ASSUME NEW r \in Root, NEW prev \in Run \cup {NoRun}, AdmitAttempt(r, prev)
      PROVE  Goal
  <2> DEFINE row == NewRow("admitted", prev)
  <2>1. run[r] = AbsentRow /\ run' = [run EXCEPT ![r] = row] /\ MayFollow(r, prev)
    BY <1>1 DEF IInv, AbsentIsBlank, AdmitAttempt, StageAdmit
  <2>2. /\ row \in Row
        /\ PhaseOf(row.status) = "open" /\ row.epoch = 0 /\ row.prev = prev
    BY <2>1, NewFields DEF PhaseOf
  <2> HIDE DEF row
  <2>3. Ledger!Open(r, prev)
    BY <2>1, <2>2, OpensRun
  <2> QED
    BY <1>0, <2>1, <2>3
<1>2. ASSUME NEW r \in Root, NEW status \in LegacyStatus,
             NEW prev \in Run \cup {NoRun}, RecordLegacyRun(r, status, prev)
      PROVE  Goal
  <2> DEFINE row == NewRow(status, prev)
  <2>1. /\ status \in Status /\ run[r] = AbsentRow /\ run' = [run EXCEPT ![r] = row]
        /\ MayFollow(r, prev)
    BY <1>2 DEF IInv, AbsentIsBlank, RecordLegacyRun
  <2>2. /\ row \in Row
        /\ PhaseOf(row.status) \in {"parked", "ended"} /\ row.epoch = 0 /\ row.prev = prev
    BY <2>1, NewFields DEF PhaseOf
  <2> HIDE DEF row
  <2>3. Ledger!Open(r, prev)
    BY <2>1, <2>2, OpensRun
  <2> QED
    BY <1>0, <2>1, <2>3
<1>3. ASSUME NEW w \in Worker, NEW r \in Run, NEW expires \in Expiry,
             ClaimDispatch(w, r, expires)
      PROVE  Goal
  <2> DEFINE row == ClaimedRow(run[r], WorkerIdOf[w], expires)
  <2>1. run[r].status \in {"admitted"} \cup Leased /\ run' = [run EXCEPT ![r] = row]
    BY <1>3 DEF ClaimDispatch, Claimable
  <2>2. /\ row \in Row
        /\ row.status \in Leased /\ row.epoch = run[r].epoch + 1 /\ row.prev = run[r].prev
    BY <2>1, ClaimedFields DEF TypeOK
  <2> HIDE DEF row
  <2>3. Ledger!Grant(r)
    BY <2>1, <2>2, GrantsRun
  <2> QED
    BY <1>0, <2>1, <2>3
<1>4. ASSUME NEW w \in Worker, NEW expires \in Expiry, RenewDispatchLease(w, expires)
      PROVE  Goal
  <2> DEFINE row == RenewedRow(run[claim[w].run], expires)
  <2>1. /\ claim[w].run \in Run
        /\ run[claim[w].run].status \in Leased
        /\ run' = [run EXCEPT ![claim[w].run] = row]
    BY <1>4, ClaimNamesRun DEF RenewDispatchLease, PassesFence
  <2>2. /\ row \in Row
        /\ row.status \in Leased
        /\ row.epoch = run[claim[w].run].epoch
        /\ row.prev = run[claim[w].run].prev
    BY <2>1, RenewedFields DEF TypeOK
  <2> HIDE DEF row
  <2>3. UNCHANGED Ledger!ledgerVars
    BY <2>1, <2>2, KeepsRun
  <2> QED
    BY <2>1, <2>3
<1>5. ASSUME NEW w \in Worker, MarkRunning(w)
      PROVE  Goal
  <2> DEFINE row == MovedRow(run[claim[w].run], "running")
  <2>1. /\ claim[w].run \in Run
        /\ run[claim[w].run].status \in Leased
        /\ run' = [run EXCEPT ![claim[w].run] = row]
    BY <1>5, ClaimNamesRun DEF MarkRunning, PassesFence
  <2>2. /\ row \in Row
        /\ row.status \in Leased
        /\ row.epoch = run[claim[w].run].epoch
        /\ row.prev = run[claim[w].run].prev
    BY <2>1, MovedFields DEF TypeOK
  <2> HIDE DEF row
  <2>3. UNCHANGED Ledger!ledgerVars
    BY <2>1, <2>2, KeepsRun
  <2> QED
    BY <2>1, <2>3
<1>6. ASSUME NEW a \in Application, ReleaseExpiredDispatch(a)
      PROVE  Goal
  <2> DEFINE row == ReleasedRow(run[seen[a].run])
  <2>1. /\ seen[a].run \in Run
        /\ run[seen[a].run].status \in Leased
        /\ run' = [run EXCEPT ![seen[a].run] = row]
    BY <1>6, ViewNamesRun DEF ReleaseExpiredDispatch, AsObserved
  <2>2. /\ row \in Row
        /\ row.status = "admitted"
        /\ row.epoch = run[seen[a].run].epoch
        /\ row.prev = run[seen[a].run].prev
    BY <2>1, ReleasedFields DEF TypeOK
  <2> HIDE DEF row
  <2>3. Ledger!Return(seen[a].run)
    BY <2>1, <2>2, ReturnsRun
  <2> QED
    BY <1>0, <2>1, <2>3
<1>7. ASSUME NEW a \in Application, CancelAttempt(a)
      PROVE  Goal
  <2> DEFINE row == MovedRow(run[seen[a].run], "cancelled")
  <2>1. /\ seen[a].run \in Run
        /\ run[seen[a].run].status \in Live
        /\ run' = [run EXCEPT ![seen[a].run] = row]
    BY <1>7, ViewNamesRun DEF CancelAttempt, AsObserved
  <2>2. /\ row \in Row
        /\ row.status = "cancelled"
        /\ row.epoch = run[seen[a].run].epoch
        /\ row.prev = run[seen[a].run].prev
    BY <2>1, MovedFields DEF TypeOK
  <2> HIDE DEF row
  <2>3. Ledger!End({seen[a].run})
    BY <2>1, <2>2, EndsRun
  <2> QED
    BY <1>0, <2>1, <2>3
<1>8. ASSUME NEW a \in Application, NEW s \in Run \ Root, InsertSuccessor(a, s)
      PROVE  Goal
  <2> DEFINE r == seen[a].run
  <2>1. /\ r \in Run /\ run[r].status \in Retryable
        /\ \A t \in Run : run[t].prev # r
        /\ run[s] = AbsentRow /\ run' = [run EXCEPT ![s] = NewRow("admitted", r)]
    BY <1>8, ViewNamesRun
       DEF IInv, AbsentIsBlank, RetriesFollowEnds, InsertSuccessor, StageAdmit, Successors
  <2>2. NewRow("admitted", r).status = "admitted" /\ NewRow("admitted", r).epoch = 0
        /\ NewRow("admitted", r).prev = r
    BY <2>1, NewFields
  <2>3. LedgerMoves(s, "open", 0, r)
    BY <2>1, <2>2, RowMapping DEF PhaseOf
  <2>4. Phases[r] = "ended" /\ Phases[s] = "absent" /\ Tokens[s] = 0
    BY <2>1 DEF AbsentRow, RowOf, PhaseOf, Phases, Tokens
  <2>5. UNCHANGED Tokens
    BY <2>3, <2>4 DEF LedgerMoves, Tokens
  <2>6. Ledger!Continue(r, s)
    BY <2>1, <2>3, <2>4, <2>5
       DEF LedgerMoves, Phases, Tokens, Follows, Ledger!Continue, Ledger!Enter,
           Ledger!Unfollowed
  <2> QED
    BY <2>1, <2>6 DEF Ledger!LedgerNext
<1>9. CASE UpgradeOnStart
  <2>1. \A r \in Unfinished : run'[r] = AbandonedRow(run[r])
    BY <1>9 DEF TypeOK, UpgradeOnStart, Unfinished
  <2>2. \A r \in Run \ Unfinished : run'[r] = run[r]
    BY <1>9 DEF TypeOK, UpgradeOnStart
  <2>3. Unfinished \subseteq Run /\ Unfinished # {}
    BY <1>9 DEF UpgradeOnStart, Unfinished
  <2>4. \A r \in Unfinished : /\ PhaseOf(run'[r].status) = "ended"
                              /\ PhaseOf(run[r].status) \in {"parked", "open", "held"}
    BY <2>1, <2>3, AbandonedFields DEF TypeOK, Unfinished, PhaseOf
  <2>5. \A r \in Run : run'[r].epoch = run[r].epoch /\ run'[r].prev = run[r].prev
    BY <2>1, <2>2, AbandonedFields DEF TypeOK
  <2>6. Ledger!End(Unfinished)
    BY <2>2, <2>3, <2>4, <2>5 DEF Ledger!End
  <2> QED
    BY <2>3, <2>6 DEF Ledger!LedgerNext
<1>10. CASE UNCHANGED run
  BY <1>10 DEF Ledger!ledgerVars
<1> QED
  BY <1>1, <1>2, <1>3, <1>4, <1>5, <1>6, <1>7, <1>8, <1>9, <1>10
     DEF Next, WorkerStep, ApplicationStep, vars,
         ReadBackClaim, DropClaim, Observe, ForgetView, AuthorizeRetry,
         ReturnOtherSuccessor, Tick

\* Every behaviour of the attempt protocol is one of the ledger: ended attempts
\* stay ended, tokens only grow, no two runs follow the same one, and a retry
\* continues an ended attempt.
THEOREM Refinement == Spec => ImplementsLedger
<1>1. Init => Ledger!LedgerInit
  BY LedgerInitially
<1>2. IInv /\ [Next]_vars => [Ledger!LedgerNext]_(Ledger!ledgerVars)
  BY LedgerStep
<1> QED
  BY <1>1, <1>2, Inductive, PTL DEF Spec, ImplementsLedger, Ledger!LedgerSpec
-----------------------------------------------------------------------------
(***************************************************************************)
(* What every implementation of the ledger has, proved of the ledger alone.*)
(***************************************************************************)

\* A run that was never opened follows nothing, and no run the protocol opened
\* follows it, so that opening it as a successor closes no loop of such runs.
LedgerInv ==
    /\ Follows \in [Run -> Run \cup {NoRun}]
    /\ \A r \in Run : Phases[r] = "absent" => Follows[r] = NoRun
    /\ \A r \in Run \ Root : Follows[r] # NoRun => Phases[Follows[r]] # "absent"
    /\ \A C \in SUBSET (Run \ Root) : C # {} => \E r \in C : Follows[r] \notin C

\* What the steps of the ledger that continue no run leave as it is.
LedgerKept ==
    /\ Follows' \in [Run -> Run \cup {NoRun}]
    /\ \A r \in Run \ Root : Follows'[r] = Follows[r]
    /\ \A r \in Run : Phases[r] # "absent" => Phases'[r] # "absent"
    /\ \A r \in Run : Phases'[r] = "absent" => Follows'[r] = Follows[r]

\* The steps of the ledger, but those that continue a run, write no predecessor or
\* that of a run brought from outside.
LEMMA LedgerOther ==
    ASSUME LedgerInv, Ledger!LedgerNext
    PROVE  LedgerKept \/ \E r \in Run, s \in Run \ Root : Ledger!Continue(r, s)
<1>1. ASSUME NEW r \in Root, NEW p \in Run \cup {NoRun}, Ledger!Open(r, p)
      PROVE  LedgerKept
  <2>1. Follows' = [Follows EXCEPT ![r] = p] /\ r \in Run
    BY <1>1, AttemptsAssumption DEF Ledger!Open, Follows
  <2>2. /\ Phases[r] = "absent"
        /\ \E ph \in {"parked", "open", "ended"} : Phases' = [Phases EXCEPT ![r] = ph]
    BY <1>1 DEF Ledger!Open, Ledger!Enter, Phases
  <2>3. \A q \in Run : Follows'[q] = IF q = r THEN p ELSE Follows[q]
    BY <2>1 DEF LedgerInv
  <2>4. Follows' \in [Run -> Run \cup {NoRun}]
    BY <2>1 DEF LedgerInv
  <2>5. \A q \in Run : IF q = r THEN Phases'[q] # "absent" ELSE Phases'[q] = Phases[q]
    BY <2>1, <2>2 DEF Phases
  <2> QED
    BY <2>3, <2>4, <2>5 DEF LedgerKept
<1>2. ASSUME NEW r \in Run, Ledger!Grant(r) \/ Ledger!Return(r)
      PROVE  LedgerKept
  <2>1. Follows' = Follows
    BY <1>2 DEF Ledger!Grant, Ledger!Return, Follows
  <2>2. \E ph \in {"open", "held"} : Phases' = [Phases EXCEPT ![r] = ph]
    BY <1>2 DEF Ledger!Grant, Ledger!Return, Phases
  <2>3. \A q \in Run : Phases[q] # "absent" => Phases'[q] # "absent"
    BY <2>2 DEF Phases
  <2> QED
    BY <2>1, <2>3 DEF LedgerInv, LedgerKept
<1>3. ASSUME NEW S \in SUBSET Run, Ledger!End(S)
      PROVE  LedgerKept
  <2>1. Follows' = Follows /\ Phases' = [q \in Run |-> IF q \in S THEN "ended" ELSE Phases[q]]
    BY <1>3 DEF Ledger!End, Follows, Phases
  <2> QED
    BY <2>1 DEF LedgerInv, LedgerKept
<1> QED
  BY <1>1, <1>2, <1>3 DEF Ledger!LedgerNext

\* A run that is continued is not the one that continues it, and a set of runs
\* each of which follows another one of the set had such a set before.
LEMMA LedgerContinues ==
    ASSUME LedgerInv, NEW r \in Run, NEW s \in Run \ Root, Ledger!Continue(r, s)
    PROVE  LedgerInv'
<1>1. /\ Phases[r] = "ended" /\ Phases[s] = "absent"
      /\ Phases' = [Phases EXCEPT ![s] = "open"]
      /\ Follows' = [Follows EXCEPT ![s] = r]
  BY DEF Ledger!Continue, Ledger!Enter, Phases, Follows
<1>2. r # s /\ NoRun \notin Run
  BY <1>1, AttemptsAssumption
<1>3. \A q \in Run : Phases'[q] = IF q = s THEN "open" ELSE Phases[q]
  BY <1>1 DEF Phases
<1>4. \A q \in Run : Follows'[q] = IF q = s THEN r ELSE Follows[q]
  BY <1>1 DEF LedgerInv
<1>5. Follows' \in [Run -> Run \cup {NoRun}]
  BY <1>1 DEF LedgerInv
<1>6. \A q \in Run \ Root : Follows[q] # s
  BY <1>1, <1>2 DEF LedgerInv
<1>7. ASSUME NEW C \in SUBSET (Run \ Root), C # {}, \A q \in C : Follows'[q] \in C
      PROVE  FALSE
  <2> DEFINE D == C \ {s}
  <2>1. \A q \in D : Follows[q] \in D
    BY <1>4, <1>6, <1>7
  <2>2. D # {}
    BY <1>2, <1>4, <1>7
  <2> QED
    BY <2>1, <2>2 DEF LedgerInv
<1>8. \A C \in SUBSET (Run \ Root) : C # {} => \E q \in C : Follows'[q] \notin C
  BY <1>7
<1>9. \A q \in Run : Phases'[q] = "absent" => Follows'[q] = NoRun
  BY <1>3, <1>4 DEF LedgerInv
<1>10. \A q \in Run \ Root : Follows'[q] # NoRun => Phases'[Follows'[q]] # "absent"
  <2> SUFFICES ASSUME NEW q \in Run \ Root, Follows'[q] # NoRun
               PROVE  Phases'[Follows'[q]] # "absent"
    OBVIOUS
  <2>1. CASE q = s
    BY <1>1, <1>3, <1>4, <2>1
  <2>2. CASE q # s
    <3>1. Follows[q] \in Run /\ Phases[Follows[q]] # "absent"
      BY <1>4, <2>2 DEF LedgerInv
    <3> QED
      BY <1>3, <1>4, <2>2, <3>1
  <2> QED
    BY <2>1, <2>2
<1> QED
  BY <1>5, <1>8, <1>9, <1>10 DEF LedgerInv

\* authorize_retry closes no loop: following previous_attempt_id back from a run it
\* inserted leads out of the runs it inserted, whatever races and restarts. A loop,
\* if there is one, passes through a predecessor that an admission or the
\* repository was given.
RetryChainsBegin ==
    \A C \in SUBSET (Run \ Root) : C # {} => \E r \in C : run[r].prev \notin C

\* Chains of retries begin: the ledger alone rules out loops of them.
THEOREM LedgerChains == ImplementsLedger => []RetryChainsBegin
<1>1. Ledger!LedgerInit => LedgerInv
  <2> SUFFICES ASSUME Ledger!LedgerInit
               PROVE  LedgerInv
    OBVIOUS
  <2>1. Phases = [r \in Run |-> "absent"] /\ Follows = [r \in Run |-> NoRun]
    BY DEF Ledger!LedgerInit, Phases, Follows
  <2> QED
    BY <2>1, AttemptsAssumption DEF LedgerInv
<1>2. LedgerInv /\ [Ledger!LedgerNext]_(Ledger!ledgerVars) => LedgerInv'
  <2> SUFFICES ASSUME LedgerInv, [Ledger!LedgerNext]_(Ledger!ledgerVars)
               PROVE  LedgerInv'
    OBVIOUS
  <2>1. CASE LedgerKept
    <3> USE <2>1 DEF LedgerKept
    <3>1. \A r \in Run : Phases'[r] = "absent" => Follows'[r] = NoRun
      BY DEF LedgerInv
    <3>2. \A r \in Run \ Root : Follows'[r] # NoRun => Phases'[Follows'[r]] # "absent"
      <4> SUFFICES ASSUME NEW r \in Run \ Root, Follows'[r] # NoRun
                   PROVE  Phases'[Follows'[r]] # "absent"
        OBVIOUS
      <4>1. Follows'[r] = Follows[r] /\ Follows[r] \in Run
        BY DEF LedgerInv
      <4> QED
        BY <4>1 DEF LedgerInv
    <3>3. \A C \in SUBSET (Run \ Root) : C # {} => \E q \in C : Follows'[q] \notin C
      BY DEF LedgerInv
    <3> QED
      BY <3>1, <3>2, <3>3 DEF LedgerInv
  <2>2. CASE UNCHANGED Ledger!ledgerVars
    <3>1. Phases' = Phases /\ Follows' = Follows
      BY <2>2 DEF Ledger!ledgerVars, Phases, Follows
    <3> QED
      BY <3>1 DEF LedgerInv
  <2> QED
    BY <2>1, <2>2, LedgerOther, LedgerContinues
<1>3. LedgerInv => RetryChainsBegin
  BY DEF LedgerInv, RetryChainsBegin, Follows
<1> QED
  BY <1>1, <1>2, <1>3, PTL DEF ImplementsLedger, Ledger!LedgerSpec

\* No history of admissions, retries, cancellations and restarts makes a retry its
\* own predecessor, not even through other retries.
THEOREM RetriesAreFounded == Spec => []RetryChainsBegin
  BY Refinement, LedgerChains, PTL
\* What a step of the ledger keeps of each run: what it retries, that it ended
\* and under which token; and no token is given out twice.
LedgerKeeps ==
    \A r \in Run :
        /\ Phases[r] # "absent" => Phases'[r] # "absent" /\ Follows'[r] = Follows[r]
        /\ Phases[r] = "ended" => Phases'[r] = "ended" /\ Tokens'[r] = Tokens[r]
        /\ Tokens'[r] \in {Tokens[r], Tokens[r] + 1}

\* An attempt that ended is never held, released or ended otherwise again, what
\* it retries is fixed when it is opened, and its fencing token only grows.
THEOREM LedgerIsFinal == ImplementsLedger => [][LedgerKeeps]_(Ledger!ledgerVars)
<1>1. Ledger!LedgerNext => LedgerKeeps
  <2>1. ASSUME NEW r \in Run, Ledger!Grant(r) \/ Ledger!Return(r)
        PROVE  LedgerKeeps
    <3>1. CASE Ledger!Grant(r)
      <4>1. Tokens' = [Tokens EXCEPT ![r] = @ + 1] /\ Follows' = Follows
        BY <3>1 DEF Ledger!Grant, Tokens, Follows
      <4>2. Phases[r] \in {"open", "held"} /\ Phases' = [Phases EXCEPT ![r] = "held"]
        BY <3>1 DEF Ledger!Grant, Phases
      <4> QED
        BY <4>1, <4>2 DEF LedgerKeeps, Phases, Tokens
    <3>2. CASE Ledger!Return(r)
      <4>1. Tokens' = Tokens /\ Follows' = Follows
        BY <3>2 DEF Ledger!Return, Tokens, Follows
      <4>2. Phases[r] = "held" /\ Phases' = [Phases EXCEPT ![r] = "open"]
        BY <3>2 DEF Ledger!Return, Phases
      <4> QED
        BY <4>1, <4>2 DEF LedgerKeeps, Phases
    <3> QED
      BY <2>1, <3>1, <3>2
  <2>2. ASSUME NEW r \in Root, NEW p \in Run \cup {NoRun}, Ledger!Open(r, p)
        PROVE  LedgerKeeps
    <3>1. Tokens' = Tokens /\ Follows' = [Follows EXCEPT ![r] = p]
      BY <2>2 DEF Ledger!Open, Tokens, Follows
    <3>2. Phases[r] = "absent" /\ \E ph : ph # "absent" /\ Phases' = [Phases EXCEPT ![r] = ph]
      BY <2>2 DEF Ledger!Open, Ledger!Enter, Phases
    <3> QED
      BY <3>1, <3>2 DEF LedgerKeeps, Phases, Follows
  <2>3. ASSUME NEW S \in SUBSET Run, Ledger!End(S)
        PROVE  LedgerKeeps
    <3>1. Tokens' = Tokens /\ Follows' = Follows
      BY <2>3 DEF Ledger!End, Tokens, Follows
    <3>2. Phases' = [q \in Run |-> IF q \in S THEN "ended" ELSE Phases[q]]
      BY <2>3 DEF Ledger!End, Phases
    <3> QED
      BY <3>1, <3>2 DEF LedgerKeeps
  <2>4. ASSUME NEW r \in Run, NEW s \in Run \ Root, Ledger!Continue(r, s)
        PROVE  LedgerKeeps
    <3>1. /\ Phases[s] = "absent" /\ Phases' = [Phases EXCEPT ![s] = "open"]
          /\ Follows' = [Follows EXCEPT ![s] = r] /\ Tokens' = Tokens
      BY <2>4 DEF Ledger!Continue, Ledger!Enter, Phases, Follows, Tokens
    <3> QED
      BY <3>1 DEF LedgerKeeps, Phases, Follows
  <2> QED
    BY <2>1, <2>2, <2>3, <2>4 DEF Ledger!LedgerNext
<1> QED
  BY <1>1, PTL DEF ImplementsLedger, Ledger!LedgerSpec
=============================================================================
