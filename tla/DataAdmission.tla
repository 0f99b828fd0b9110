---------------------------- MODULE DataAdmission ----------------------------
(***************************************************************************)
(* The admission services for data work: MvpDataProfileAdmissionService    *)
(* makes a profile candidate a DataProfile bound to its dataset, and       *)
(* MvpEvidenceAdmissionService makes the result of a work Evidence.        *)
(* Sessions of several processes share the tables, may hand in the same    *)
(* candidate or result, and read before they lock (see PlanAdmission).     *)
(*                                                                         *)
(* A candidate is what profile_candidate returned for some content the     *)
(* file once had, under an identity a caller may have replaced.  Evidence  *)
(* may also be stored by EvidenceRepository.create, which takes whatever   *)
(* it is given for a completed Task and a stored DataProfile.              *)
(***************************************************************************)
EXTENDS DataExplorer, FiniteSets

CONSTANTS
    ProfileId,   \* DataProfile identities
    Task,
    Status,      \* TaskStatus
    RawEvidence, \* Evidence that callers of the repository make themselves
    Session      \* database sessions that admit

ASSUME AdmissionAssumption ==
    /\ DataTask \subseteq Task /\ "completed" \in Status
    /\ Absent \notin ProfileId \cup Status \cup {Profile[b] : b \in Dataset}
    /\ \A r \in Request :
           /\ r.capability \in {"analysis", "profiling", "transformation"}
           /\ r.path \in Path \cup {Absent}
           /\ r.profile \in ProfileId \cup {Absent}
    /\ \A e \in RawEvidence : e.task \in Task /\ e.profile \in ProfileId

VARIABLES
    db,       \* the committed tables
    session,  \* where each admission stands
    answers   \* admissions of Evidence that returned, and what they said

tables == <<db, session, answers>>
vars == <<file, work, db, session, answers>>

Idle == [phase |-> "idle"]

Init ==
    /\ ExplorerInit
    /\ db = [tasks |-> [t \in Task |-> Absent],
             profiles |-> [k \in ProfileId |-> Absent],
             bindings |-> [k \in ProfileId |-> Absent],
             evidence |-> {}]
    /\ session = [s \in Session |-> Idle]
    /\ answers = {}

\* The session whose flush holds the write lock is the only one to write.
MayWrite(s) == \A q \in Session \ {s} : session[q].phase # "staged"
Enter(s, record) == session' = [session EXCEPT ![s] = record]

-----------------------------------------------------------------------------
(* Profiles.                                                               *)

\* What DataExplorer.profile_candidate returns for content b at path p.
Candidate ==
    {[id |-> k, content |-> Profile[b], binding |-> [path |-> p, digest |-> b]] :
         k \in ProfileId, p \in Path, b \in Dataset \ Unreadable}

\* Seeded fault: only the binding is compared.
BindingAgrees(c) == db.bindings[c.id] \in {c.binding, Absent}
\* Neither row of the identity says anything else than the candidate.
Agrees(c) ==
    /\ db.profiles[c.id] \in {c.content, Absent}
    /\ db.bindings[c.id] \in {c.binding, Absent}

\* The reads of admit_candidate.  It returns or raises here when both rows
\* exist or one of them disagrees, and writes nothing.
CheckCandidate(s, c) ==
    /\ session[s] = Idle /\ Agrees(c)
    /\ db.profiles[c.id] = Absent \/ db.bindings[c.id] = Absent
    /\ Enter(s, [phase |-> "profile", candidate |-> c,
                 newProfile |-> db.profiles[c.id] = Absent])
    /\ UNCHANGED <<file, work, db, answers>>

\* The flush of a new profile.  Its identity is a primary key: if a row has
\* appeared the session rolls back and reads again only to answer.
StageProfile(s) ==
    LET c == session[s].candidate IN
    /\ session[s].phase = "profile" /\ MayWrite(s)
    /\ session[s].newProfile
    /\ Enter(s, IF db.profiles[c.id] # Absent THEN Idle
                ELSE [phase |-> "staged", candidate |-> c])
    /\ UNCHANGED <<file, work, db, answers>>

\* The commit, with the flush of the binding before it.
CommitProfile(s) ==
    LET c == session[s].candidate IN
    /\ \/ session[s].phase = "staged"
       \/ session[s].phase = "profile" /\ ~session[s].newProfile /\ MayWrite(s)
    /\ Enter(s, Idle)
    /\ db' = IF db.bindings[c.id] # Absent THEN db
             ELSE [db EXCEPT !.profiles[c.id] = IF @ = Absent THEN c.content ELSE @,
                             !.bindings[c.id] = c.binding]
    /\ UNCHANGED <<file, work, answers>>

-----------------------------------------------------------------------------
(* Evidence.                                                               *)

\* The rows that authorize the result of w.
TaskCompleted(w) == db.tasks[work[w].request.task] = "completed"

ProfileMatches(w) ==
    LET r == work[w].request
        k == r.profile IN
    /\ k # Absent /\ db.profiles[k] # Absent /\ db.bindings[k] # Absent
    /\ r.projection # Absent => r.projection = [id |-> k, content |-> db.profiles[k]]
    /\ db.bindings[k] = [path |-> r.path, digest |-> work[w].digest]
    /\ work[w].operation = "dataset_profile" =>
           work[w].observation = <<"dataset_profile", db.profiles[k]>>

\* Seeded fault: each admission draws an identity.
DrawnId(w) == <<Cardinality(db.evidence)>>
\* The identity is a digest of what the Evidence says.
EvidenceId(w) ==
    <<work[w].request.task, w, work[w].request.profile, work[w].digest, work[w].observation>>

EvidenceOf(w) ==
    [evidence_id |-> EvidenceId(w), task |-> work[w].request.task, work |-> w,
     profile |-> work[w].request.profile, path |-> work[w].path, content |-> work[w].observation]

\* Stored Evidence that says it is of w.
Prior(w) == {e \in db.evidence : e.work = w /\ e.task = work[w].request.task}

Answer(s, w, created) ==
    answers' = answers \cup {[session |-> s, evidence |-> EvidenceOf(w), created |-> created]}

\* What _validate lets pass.
Valid(w) == work[w].status = "succeeded" /\ ProfileMatches(w) /\ TaskCompleted(w)

\* No row has this identity.
Fresh(id) == \A e \in db.evidence : e.evidence_id # id

\* An admission of what is stored already says so.  It raises where it meets
\* other Evidence of the work first, or other Evidence of the identity.
Replay(s, w) ==
    /\ session[s] = Idle /\ Valid(w) /\ EvidenceOf(w) \in Prior(w)
    /\ Answer(s, w, FALSE)
    /\ UNCHANGED <<file, work, db, session>>

CheckEvidence(s, w) ==
    /\ session[s] = Idle /\ Valid(w) /\ Prior(w) = {} /\ Fresh(EvidenceId(w))
    /\ Enter(s, [phase |-> "evidence", work |-> w])
    /\ UNCHANGED <<file, work, db, answers>>

\* What EvidenceRepository.add reads before it stages the row.
MayAdd(e) == db.tasks[e.task] = "completed" /\ db.profiles[e.profile] # Absent

AddEvidence(s) ==
    /\ session[s].phase = "evidence"
    /\ Enter(s, IF MayAdd(EvidenceOf(session[s].work))
                THEN [phase |-> "added", work |-> session[s].work] ELSE Idle)
    /\ UNCHANGED <<file, work, db, answers>>

Insert(e) == db' = [db EXCEPT !.evidence = @ \cup {e}]

\* Seeded fault: the loser of a race is told that it created the row.
ToldCreated(w) == TRUE
Created(w) == Fresh(EvidenceId(w))

\* The insert with its commit, or the IntegrityError, the rollback and the
\* second look at what the winner stored: anything else there is a conflict.
CommitEvidence(s) ==
    LET w == session[s].work IN
    /\ session[s].phase = "added" /\ MayWrite(s)
    /\ Enter(s, Idle)
    /\ \/ Fresh(EvidenceId(w)) /\ Insert(EvidenceOf(w)) /\ Answer(s, w, Created(w))
       \/ EvidenceOf(w) \in db.evidence /\ Answer(s, w, Created(w)) /\ UNCHANGED db
       \/ /\ ~Fresh(EvidenceId(w)) /\ EvidenceOf(w) \notin db.evidence
          /\ UNCHANGED <<db, answers>>
    /\ UNCHANGED <<file, work>>

\* EvidenceRepository.create: the reads of add, then the commit.
AddRaw(s, e) ==
    /\ session[s] = Idle /\ MayAdd(e)
    /\ Enter(s, [phase |-> "raw", evidence |-> e])
    /\ UNCHANGED <<file, work, db, answers>>

CommitRaw(s) ==
    LET e == session[s].evidence IN
    /\ session[s].phase = "raw" /\ MayWrite(s)
    /\ Enter(s, Idle)
    /\ IF Fresh(e.evidence_id) THEN Insert(e) ELSE UNCHANGED db
    /\ UNCHANGED <<file, work, answers>>

\* Any statement fails, waits too long for the lock, or the process ends.
Fail(s) ==
    /\ session[s] # Idle /\ Enter(s, Idle)
    /\ UNCHANGED <<file, work, db, answers>>

-----------------------------------------------------------------------------
(* Other writers.                                                          *)

Autocommit(d) ==
    /\ \A s \in Session : session[s].phase # "staged"
    /\ db' = d /\ UNCHANGED <<file, work, session, answers>>

CreateTask(t, st) == db.tasks[t] = Absent /\ Autocommit([db EXCEPT !.tasks[t] = st])
UpdateTask(t, st) == db.tasks[t] # Absent /\ Autocommit([db EXCEPT !.tasks[t] = st])

\* DataProfileRepository.create stores a profile and no binding.
CreateProfile(k, x) ==
    db.profiles[k] = Absent /\ Autocommit([db EXCEPT !.profiles[k] = x])

-----------------------------------------------------------------------------
Next ==
    \/ ExplorerNext /\ UNCHANGED tables
    \/ \E s \in Session :
           \/ \E c \in Candidate : CheckCandidate(s, c)
           \/ StageProfile(s) \/ CommitProfile(s)
           \/ \E w \in Work : Replay(s, w) \/ CheckEvidence(s, w)
           \/ AddEvidence(s) \/ CommitEvidence(s)
           \/ \E e \in RawEvidence : AddRaw(s, e)
           \/ CommitRaw(s) \/ Fail(s)
    \/ \E t \in Task, st \in Status : CreateTask(t, st) \/ UpdateTask(t, st)
    \/ \E k \in ProfileId, b \in Dataset : CreateProfile(k, Profile[b])

Spec == Init /\ [][Next]_vars

-----------------------------------------------------------------------------
(* Properties.                                                             *)

TypeOK ==
    /\ file \in [Path -> Dataset \cup {Absent}]
    /\ \A w \in Work :
           /\ work[w].status \in {"not_run", "planning", "succeeded", "failed", "blocked"}
           /\ work[w].status \in {"planning", "succeeded"} => work[w].request \in Request
           /\ work[w].status = "succeeded" => work[w].digest \in Dataset \ Unreadable
    /\ db.tasks \in [Task -> Status \cup {Absent}]
    /\ db.profiles \in [ProfileId -> {Profile[b] : b \in Dataset} \cup {Absent}]
    /\ db.bindings \in [ProfileId -> [path : Path, digest : Dataset] \cup {Absent}]
    /\ \A e \in db.evidence : e.task \in Task /\ e.profile \in ProfileId
    /\ \A s \in Session :
           \/ session[s] = Idle
           \/ session[s].phase \in {"profile", "staged"} /\ session[s].candidate \in Candidate
           \/ session[s].phase \in {"evidence", "added"} /\ session[s].work \in Work
           \/ session[s].phase = "raw" /\ session[s].evidence \in RawEvidence
    /\ \A a \in answers :
           /\ a.session \in Session /\ a.created \in BOOLEAN
           /\ a.evidence.work \in Work

\* A binding stays with the profile of the very bytes it names, whichever
\* candidates, raw profiles and sessions meet under one identity
\* (admit_candidate; "identity already exists with different content").
BindingsDescribeProfiles ==
    \A k \in ProfileId : db.bindings[k] # Absent =>
        db.profiles[k] = Profile[db.bindings[k].digest]

\* Evidence that an admission answered for.
Admitted == {a.evidence : a \in answers}

\* Whatever happened to the file while the work awaited its plan, and whatever
\* Evidence callers store themselves, what the service admits is what its
\* operation observes in the bytes its DataProfile is bound to.
EvidenceOfBoundBytes ==
    \A e \in Admitted :
        /\ db.bindings[e.profile] # Absent
        /\ e.path = db.bindings[e.profile].path
        /\ e.content = Observed(e.content[1], db.bindings[e.profile].digest)

\* Sessions that race to admit one result admit one Evidence ("admits exactly
\* one successful Data Explorer observation"), and no identity is shared by
\* two rows, admitted or not.
OneEvidencePerWork ==
    /\ \A e, f \in Admitted : e.work = f.work => e = f
    /\ \A e, f \in db.evidence : e.evidence_id = f.evidence_id => e = f

\* An admission that returned Evidence returned what is stored, also where
\* other Evidence has the identity, and no two were told that they created it.
AnswersHold ==
    /\ Admitted \subseteq db.evidence
    /\ \A a, b \in answers : a.evidence = b.evidence /\ a.created /\ b.created => a = b

\* The Evidence a work was admitted with, if it was.
Became(w) ==
    IF \A e \in Admitted : e.work # w THEN Absent
    ELSE CHOOSE e \in Admitted : e.work = w

\* Whatever sessions check, lose and repeat, the tables change only by storing a
\* profile, binding it to bytes it describes, storing the Evidence of a caller,
\* or admitting what an operation observes in the bytes bound at that moment;
\* nothing stored ever changes.
Store == INSTANCE EvidenceStore WITH
    profile <- db.profiles,
    binding <- db.bindings,
    evidence <- db.evidence,
    admitted <- [w \in Work |-> Became(w)]
ImplementsStore == Store!StoreSpec

=============================================================================
