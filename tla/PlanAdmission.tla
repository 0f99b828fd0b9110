--------------------------- MODULE PlanAdmission ---------------------------
(***************************************************************************)
(* PlanAdmissionService.admit as sessions of several processes run it over *)
(* one SQLite file, with the repositories that write the tables it reads.  *)
(*                                                                         *)
(* pysqlite opens no transaction for a SELECT, so what a session read can  *)
(* be overtaken until its first INSERT takes the write lock; from then on  *)
(* it works on an image nobody sees, which its commit makes the database   *)
(* and its rollback, a crash or a refusal drops.  The reads of one step    *)
(* are not split: rows are never deleted and only a Task's status changes, *)
(* so a split could only add admissions that fail, which Fail has.         *)
(***************************************************************************)
EXTENDS FiniteSets, Sequences

CONSTANTS
    Objective, Assumption, Task, PlanId,   \* identities
    Content,     \* what an Objective, an Assumption or a Task may say
    Status,      \* TaskStatus
    Candidate,   \* Plans handed to admit
    Session,     \* database sessions that admit
    Absent,      \* of an identity with no row
    NoSession

\* A value for each of some identities.
Partial(Id, Value) == UNION {[D -> Value] : D \in SUBSET Id}
Plan ==
    [plan : PlanId, objective : Objective, text : Content,
     assumptions : Partial(Assumption, Content), tasks : Partial(Task, Objective \X Content),
     dependencies : SUBSET (Task \X Task)]
TaskRow == [definition : Objective \X Content, status : Status]

ASSUME AdmissionAssumption ==
    /\ NoSession \notin Session /\ Status # {}
    /\ Absent \notin Content \cup (Objective \X Content) \cup PlanId \cup TaskRow \cup Candidate
    /\ Candidate \subseteq Plan
    /\ \A c \in Candidate :
           /\ \A t \in DOMAIN c.tasks : c.tasks[t][1] = c.objective
           /\ c.dependencies \subseteq (DOMAIN c.tasks) \X (DOMAIN c.tasks)

VARIABLES
    db,        \* the committed tables
    lock,      \* the session that holds SQLite's write lock
    image,     \* the tables as that session has written them
    session    \* where each admission stands and what it read

vars == <<db, lock, image, session>>

Idle == [phase |-> "idle", candidate |-> Absent, newObjective |-> FALSE, newTasks |-> {}]

EmptyDb ==
    [objectives |-> [o \in Objective |-> Absent],
     assumptions |-> [a \in Assumption |-> Absent],
     tasks |-> [t \in Task |-> Absent],
     plans |-> [p \in PlanId |-> Absent],
     plan_assumptions |-> {}, plan_tasks |-> {}, plan_dependencies |-> {},
     active_plans |-> [o \in Objective |-> Absent]]

Init ==
    /\ db = EmptyDb /\ image = EmptyDb
    /\ lock = NoSession
    /\ session = [s \in Session |-> Idle]

\* A session sees its own writes; before the first one, what is committed.
View(s) == IF lock = s THEN image ELSE db
MayWrite(s) == lock \in {NoSession, s}
To(s, p) == session' = [session EXCEPT ![s].phase = p]

\* Seeded fault: what was flushed before a failure is committed.
RollbackLate(s) ==
    /\ session' = [session EXCEPT ![s] = Idle]
    /\ lock' = IF lock = s THEN NoSession ELSE lock
    /\ db' = IF lock = s THEN image ELSE db
    /\ UNCHANGED image

\* rollback: the lock is free, the image gone.
Rollback(s) ==
    /\ session' = [session EXCEPT ![s] = Idle]
    /\ lock' = IF lock = s THEN NoSession ELSE lock
    /\ image' = IF lock = s THEN db ELSE image
    /\ UNCHANGED db

Write(s, p, d) ==
    /\ MayWrite(s) /\ lock' = s /\ image' = d
    /\ To(s, p)
    /\ UNCHANGED db

-----------------------------------------------------------------------------
(* Content.                                                                *)

\* Seeded fault: the payload that is compared and digested has the status.
PayloadWithStatus(row) ==
    IF row.status = "pending" THEN row.definition ELSE Append(row.definition, row.status)
\* Task.semantic_payload: a Task without its execution status.
semantic_payload(row) == row.definition

Fingerprint(objective, text, assumptions, tasks, dependencies) ==
    [objective |-> <<objective, text>>, assumptions |-> assumptions, tasks |-> tasks,
     dependencies |-> dependencies]
PlanFingerprint(c) ==
    Fingerprint(c.objective, c.text, {<<a, c.assumptions[a]>> : a \in DOMAIN c.assumptions},
                {<<t, c.tasks[t]>> : t \in DOMAIN c.tasks}, c.dependencies)

\* A row of the table of Plans.
Header(c) ==
    [objective |-> c.objective, snapshot |-> c.text, fingerprint |-> PlanFingerprint(c)]
ASSUME HeaderAssumption == \A c \in Candidate : Header(c) # Absent

\* The content get_by_id gives the Plan it rebuilds from the rows of d.
StoredFingerprint(d, p) ==
    Fingerprint(d.plans[p].objective, d.plans[p].snapshot,
                {<<r[2], r[3]>> : r \in {q \in d.plan_assumptions : q[1] = p}},
                {<<r[2], semantic_payload(d.tasks[r[2]])>> : r \in {q \in d.plan_tasks : q[1] = p}},
                {<<r[2], r[3]>> : r \in {q \in d.plan_dependencies : q[1] = p}})

\* get_by_id returns a Plan: every check it makes before that holds.
Loads(d, p) ==
    /\ d.objectives[d.plans[p].objective] # Absent
    /\ \A r \in d.plan_assumptions : r[1] = p => d.assumptions[r[2]] # Absent
    /\ \A r \in d.plan_tasks : r[1] = p =>
           /\ d.tasks[r[2]] # Absent
           /\ d.tasks[r[2]].definition[1] = d.plans[p].objective
    /\ \A r \in d.plan_dependencies : r[1] = p =>
           <<p, r[2]>> \in d.plan_tasks /\ <<p, r[3]>> \in d.plan_tasks
    /\ StoredFingerprint(d, p) = d.plans[p].fingerprint

-----------------------------------------------------------------------------
(* Admission.                                                              *)

\* What _validate_authoritative_bundle lets pass.
BundleAgrees(d, c) ==
    /\ d.plans[c.plan] = Absent
    /\ \A a \in DOMAIN c.assumptions : d.assumptions[a] = c.assumptions[a]
    /\ d.objectives[c.objective] \in {c.text, Absent}
    /\ \A t \in DOMAIN c.tasks :
           d.tasks[t] # Absent => semantic_payload(d.tasks[t]) = c.tasks[t]

\* The checks of admit: what passes them is to be inserted if it has no row.
ValidateBundle(s, c) ==
    /\ session[s].phase = "idle"
    /\ BundleAgrees(db, c)
    /\ session' = [session EXCEPT ![s] =
           [phase |-> "checked", candidate |-> c,
            newObjective |-> db.objectives[c.objective] = Absent,
            newTasks |-> {t \in DOMAIN c.tasks : db.tasks[t] = Absent}]]
    /\ UNCHANGED <<db, lock, image>>

\* Seeded fault: rows are written over those that appeared since the check.
NeverTaken(s) == FALSE
\* A primary key the session means to insert exists by now.
BundleTaken(s) ==
    LET c == session[s].candidate IN
    \/ session[s].newObjective /\ db.objectives[c.objective] # Absent
    \/ \E t \in session[s].newTasks : db.tasks[t] # Absent

\* The first flush.  With nothing new it sends no INSERT and takes no lock.  A new Task
\* is inserted with the status it came with, which nothing before that looks at.
StageBundle(s) ==
    LET c == session[s].candidate
        new == session[s] IN
    /\ new.phase = "checked"
    /\ IF ~new.newObjective /\ new.newTasks = {}
       THEN To(s, "staged") /\ UNCHANGED <<db, lock, image>>
       ELSE IF BundleTaken(s) THEN MayWrite(s) /\ Rollback(s)
       ELSE \E status \in [Task -> Status] :
                Write(s, "staged",
                    [db EXCEPT !.objectives = [@ EXCEPT ![c.objective] = c.text],
                               !.tasks = [t \in Task |->
                                   IF t \in new.newTasks
                                   THEN [definition |-> c.tasks[t], status |-> status[t]]
                                   ELSE @[t]]])

\* PlanValidator.validate and the reads of PlanRepository.add, which find the
\* bundle as it was staged; only the Plan's identity may be taken by now.
ValidatePlan(s) ==
    LET c == session[s].candidate
        d == View(s) IN
    /\ session[s].phase = "staged"
    /\ IF /\ d.objectives[c.objective] = c.text
          /\ \A t \in DOMAIN c.tasks : d.tasks[t] # Absent
          /\ BundleAgrees(d, c)
       THEN To(s, "validated") /\ UNCHANGED <<db, lock, image>>
       ELSE Rollback(s)

\* The flush of the header.  plan_id is a primary key.
InsertPlan(s) ==
    LET c == session[s].candidate IN
    /\ session[s].phase = "validated"
    /\ IF View(s).plans[c.plan] # Absent THEN MayWrite(s) /\ Rollback(s)
       ELSE Write(s, "inserted",
                [View(s) EXCEPT !.plans[c.plan] = Header(c)])

\* The rows that name the header: memberships, then dependencies.
InsertMembers(s) ==
    LET c == session[s].candidate IN
    /\ session[s].phase = "inserted"
    /\ Write(s, "linked",
           [View(s) EXCEPT
               !.plan_assumptions = @ \cup {<<c.plan, a, c.assumptions[a]>> :
                                                a \in DOMAIN c.assumptions},
               !.plan_tasks = @ \cup {<<c.plan, t>> : t \in DOMAIN c.tasks}])

InsertDependencies(s) ==
    LET c == session[s].candidate IN
    /\ session[s].phase = "linked"
    /\ Write(s, "complete",
           [View(s) EXCEPT
               !.plan_dependencies = @ \cup {<<c.plan, e[1], e[2]>> : e \in c.dependencies}])

\* Seeded fault: the selection is given the wrong identity.
SelectedObjective(d, c) == c.objective
Selected(d, c) == c.plan

\* ActivePlanRepository.activate, an update if the Objective has a selection.
Activate(s) ==
    LET c == session[s].candidate IN
    /\ session[s].phase = "complete"
    /\ Write(s, "activated",
           [View(s) EXCEPT !.active_plans[c.objective] = Selected(View(s), c)])

Commit(s) ==
    /\ session[s].phase = "activated" /\ lock = s
    /\ db' = image
    /\ lock' = NoSession /\ session' = [session EXCEPT ![s] = Idle]
    /\ UNCHANGED image

\* A statement fails, or the process ends: at any step before the commit.
Fail(s) == session[s].phase # "idle" /\ Rollback(s)

\* Seeded fault: a session waits for the lock as long as it takes.
WaitForever(s) == FALSE /\ UNCHANGED vars
\* "database is locked" after the driver's timeout.
LockTimeout(s) == session[s].phase # "idle" /\ ~MayWrite(s) /\ Rollback(s)

-----------------------------------------------------------------------------
(* Other writers, each a transaction of one statement.                     *)

Autocommit(d) ==
    /\ lock = NoSession
    /\ db' = d /\ image' = d
    /\ UNCHANGED <<lock, session>>

CreateObjective(o, x) ==
    /\ db.objectives[o] = Absent
    /\ Autocommit([db EXCEPT !.objectives[o] = x])

CreateAssumption(a, x) ==
    /\ db.assumptions[a] = Absent
    /\ Autocommit([db EXCEPT !.assumptions[a] = x])

\* objective_id is a foreign key, enforced on every connection.
CreateTask(t, o, x, st) ==
    /\ db.tasks[t] = Absent /\ db.objectives[o] # Absent
    /\ Autocommit([db EXCEPT !.tasks[t] = [definition |-> <<o, x>>, status |-> st]])

UpdateTask(t, st) ==
    /\ db.tasks[t] # Absent
    /\ Autocommit([db EXCEPT !.tasks[t].status = st])

-----------------------------------------------------------------------------
AdmissionStep(s) ==
    \/ StageBundle(s) \/ ValidatePlan(s) \/ InsertPlan(s) \/ InsertMembers(s)
    \/ InsertDependencies(s) \/ Activate(s) \/ Commit(s) \/ LockTimeout(s)

Next ==
    \/ \E s \in Session :
           \/ \E c \in Candidate : ValidateBundle(s, c)
           \/ AdmissionStep(s)
           \/ Fail(s)
    \/ \E o \in Objective, x \in Content : CreateObjective(o, x)
    \/ \E a \in Assumption, x \in Content : CreateAssumption(a, x)
    \/ \E t \in Task, o \in Objective, x \in Content, st \in Status : CreateTask(t, o, x, st)
    \/ \E t \in Task, st \in Status : UpdateTask(t, st)

Spec == Init /\ [][Next]_vars
\* A process that admits runs on until it returns; nobody has to start one.
FairSpec == Spec /\ \A s \in Session : WF_vars(AdmissionStep(s))

-----------------------------------------------------------------------------
(* Properties.                                                             *)

Tables ==
    [objectives : [Objective -> Content \cup {Absent}],
     assumptions : [Assumption -> Content \cup {Absent}],
     tasks : [Task -> TaskRow \cup {Absent}],
     plans : [PlanId -> {Header(c) : c \in Candidate} \cup {Absent}],
     plan_assumptions : SUBSET (PlanId \X Assumption \X Content),
     plan_tasks : SUBSET (PlanId \X Task),
     plan_dependencies : SUBSET (PlanId \X Task \X Task),
     active_plans : [Objective -> PlanId \cup {Absent}]]
Phase ==
    {"idle", "checked", "staged", "validated", "inserted", "linked", "complete", "activated"}

TypeOK ==
    /\ db \in Tables /\ image \in Tables
    /\ lock \in Session \cup {NoSession}
    /\ session \in [Session -> [phase : Phase, candidate : Candidate \cup {Absent},
                                 newObjective : BOOLEAN, newTasks : SUBSET Task]]

\* Whatever sessions, Task updates and failures interleave, a stored Plan can
\* be read back: get_by_id finds its rows and its content digests to the
\* fingerprint it was stored with (plan_repository.py, get_by_id).
StoredPlansLoad == \A p \in PlanId : db.plans[p] # Absent => Loads(db, p)

\* No part of a Plan is visible without the rest: rows that name a Plan are
\* those of a header, an active Plan is a stored one of its Objective, and no
\* Objective has Plans of which none is active.
NoPartialPlan ==
    /\ \A r \in db.plan_tasks \cup db.plan_assumptions \cup db.plan_dependencies :
           db.plans[r[1]] # Absent
    /\ \A o \in Objective : db.active_plans[o] # Absent =>
           /\ db.plans[db.active_plans[o]] # Absent
           /\ db.plans[db.active_plans[o]].objective = o
    /\ \A p \in PlanId : db.plans[p] # Absent =>
           db.active_plans[db.plans[p].objective] # Absent

\* The Plan a header and its rows stand for.
PlanOf(d, p) ==
    IF d.plans[p] = Absent THEN Absent
    ELSE CHOOSE c \in Candidate :
             c.plan = p /\ PlanFingerprint(c) = StoredFingerprint(d, p)

\* Admissions are serializable: each commits as one step of the store, valid
\* in the state it commits to and not only in the one it checked.
Store == INSTANCE PlanStore WITH
    objective <- db.objectives,
    assumption <- db.assumptions,
    task <- db.tasks,
    plan <- [p \in PlanId |-> PlanOf(db, p)],
    active <- db.active_plans
ImplementsStore == Store!StoreSpec

\* An admission that began returns or raises, whoever holds the lock.
AdmissionEnds == \A s \in Session : session[s].phase # "idle" ~> session[s].phase = "idle"

=============================================================================
