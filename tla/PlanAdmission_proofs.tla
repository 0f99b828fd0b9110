------------------------ MODULE PlanAdmission_proofs ------------------------
(***************************************************************************)
(* Proofs about PlanAdmission, for any sessions, Plans and other writers.  *)
(*                                                                         *)
(* The argument: while a session holds the lock, the committed tables do   *)
(* not change, and its image is those tables with the rows its phase has   *)
(* written so far.  What the Plan refers to is checked again under the     *)
(* lock, or needs no insert; rows are never taken back and definitions     *)
(* never change, so it stays true until the commit.  The header is the     *)
(* first row of a Plan and its key is unique, so the rows that name it are *)
(* those of one admission.                                                 *)
(***************************************************************************)
EXTENDS PlanAdmission, Naturals, TLAPS

Of(rows, p) == {r \in rows : r[1] = p}
AssumptionRows(c) == {<<c.plan, a, c.assumptions[a]>> : a \in DOMAIN c.assumptions}
TaskRows(c) == {<<c.plan, t>> : t \in DOMAIN c.tasks}
DependencyRows(c) == {<<c.plan, e[1], e[2]>> : e \in c.dependencies}

\* No row names p.
NoRows(d, p) ==
    /\ d.plans[p] = Absent
    /\ Of(d.plan_assumptions, p) = {} /\ Of(d.plan_tasks, p) = {}
    /\ Of(d.plan_dependencies, p) = {}

\* The rows that name c's Plan are those of c.
Holds(d, c) ==
    /\ d.plans[c.plan] = Header(c)
    /\ Of(d.plan_assumptions, c.plan) = AssumptionRows(c)
    /\ Of(d.plan_tasks, c.plan) = TaskRows(c)
    /\ Of(d.plan_dependencies, c.plan) = DependencyRows(c)

\* What c refers to is there, as c has it.
Grounded(d, c) ==
    /\ d.objectives[c.objective] = c.text
    /\ \A a \in DOMAIN c.assumptions : d.assumptions[a] = c.assumptions[a]
    /\ \A t \in DOMAIN c.tasks :
           d.tasks[t] # Absent /\ d.tasks[t].definition = c.tasks[t]

StoredAs(d, p, c) == c.plan = p /\ Holds(d, c) /\ Grounded(d, c)
PlansOK(d) == \A p \in PlanId : NoRows(d, p) \/ \E c \in Candidate : StoredAs(d, p, c)

SelectionsOK(d) ==
    /\ \A o \in Objective : d.active_plans[o] # Absent =>
           /\ d.plans[d.active_plans[o]] # Absent
           /\ d.plans[d.active_plans[o]].objective = o
    /\ \A p \in PlanId : d.plans[p] # Absent => d.active_plans[d.plans[p].objective] # Absent

Late == {"inserted", "linked", "complete", "activated"}

\* What a session may rely on.
SessionOK(s) ==
    LET c == session[s].candidate
        phase == session[s].phase IN
    /\ phase # "idle" => c \in Candidate
    /\ phase \in {"idle", "checked"} => lock # s
    /\ phase = "checked" =>
           /\ session[s].newTasks \subseteq DOMAIN c.tasks
           /\ \A t \in DOMAIN c.tasks \ session[s].newTasks : db.tasks[t] # Absent
           /\ ~session[s].newObjective => db.objectives[c.objective] = c.text
    /\ phase \in Late => lock = s
    /\ phase = "validated" \/ phase \in Late => Grounded(View(s), c)

\* The rows of Tasks with those that are new in c, each with the status it came with.
WithNewTasks(rows, c, status) ==
    [t \in Task |-> IF t \in DOMAIN c.tasks /\ rows[t] = Absent
                    THEN [definition |-> c.tasks[t], status |-> status[t]]
                    ELSE rows[t]]
TasksStaged(rows, staged, c) ==
    \E status \in [Task -> Status] : staged = WithNewTasks(rows, c, status)

\* The image of the session with the lock: the tables and what it wrote.
ImageOK(s) ==
    LET c == session[s].candidate
        phase == session[s].phase IN
    /\ db.objectives[c.objective] \in {c.text, Absent}
    /\ image.objectives = [db.objectives EXCEPT ![c.objective] = c.text]
    /\ image.assumptions = db.assumptions
    /\ TasksStaged(db.tasks, image.tasks, c)
    /\ phase \in Late => db.plans[c.plan] = Absent
    /\ image.plans = IF phase \in Late THEN [db.plans EXCEPT ![c.plan] = Header(c)] ELSE db.plans
    /\ image.plan_assumptions =
           db.plan_assumptions \cup (IF phase \in Late \ {"inserted"} THEN AssumptionRows(c) ELSE {})
    /\ image.plan_tasks =
           db.plan_tasks \cup (IF phase \in Late \ {"inserted"} THEN TaskRows(c) ELSE {})
    /\ image.plan_dependencies =
           db.plan_dependencies \cup
               (IF phase \in {"complete", "activated"} THEN DependencyRows(c) ELSE {})
    /\ image.active_plans = IF phase = "activated"
                            THEN [db.active_plans EXCEPT ![c.objective] = c.plan]
                            ELSE db.active_plans

IInv ==
    /\ TypeOK
    /\ PlansOK(db) /\ SelectionsOK(db)
    /\ lock = NoSession => image = db
    /\ \A s \in Session : SessionOK(s) /\ (lock = s => ImageOK(s))

\* Rows stay, and so does what a Plan says of them.
Grows(d, e) ==
    /\ \A o \in Objective : d.objectives[o] # Absent => e.objectives[o] = d.objectives[o]
    /\ \A a \in Assumption : d.assumptions[a] # Absent => e.assumptions[a] = d.assumptions[a]
    /\ \A t \in Task : d.tasks[t] # Absent =>
           e.tasks[t] # Absent /\ e.tasks[t].definition = d.tasks[t].definition

-----------------------------------------------------------------------------
(* Candidates and rows.                                                    *)

LEMMA CandidateTyped ==
    ASSUME NEW c \in Candidate
    PROVE  /\ c.plan \in PlanId /\ c.objective \in Objective
           /\ c.text \in Content /\ c.text # Absent
           /\ DOMAIN c.assumptions \subseteq Assumption
           /\ c.assumptions \in [DOMAIN c.assumptions -> Content]
           /\ DOMAIN c.tasks \subseteq Task
           /\ c.tasks \in [DOMAIN c.tasks -> Objective \X Content]
           /\ \A t \in DOMAIN c.tasks : c.tasks[t][1] = c.objective
           /\ c.dependencies \subseteq (DOMAIN c.tasks) \X (DOMAIN c.tasks)
           /\ Header(c) # Absent
<1>1. c \in Plan
  BY AdmissionAssumption
<1>2. c.assumptions \in Partial(Assumption, Content) /\ c.tasks \in Partial(Task, Objective \X Content)
  BY <1>1 DEF Plan
<1>3. PICK A \in SUBSET Assumption : c.assumptions \in [A -> Content]
  BY <1>2 DEF Partial
<1>4. PICK T \in SUBSET Task : c.tasks \in [T -> Objective \X Content]
  BY <1>2 DEF Partial
<1>5. DOMAIN c.assumptions = A /\ DOMAIN c.tasks = T
  BY <1>3, <1>4
<1>6. c.plan \in PlanId /\ c.objective \in Objective /\ c.text \in Content
  BY <1>1 DEF Plan
<1>7. QED
  BY <1>3, <1>4, <1>5, <1>6, AdmissionAssumption, HeaderAssumption

LEMMA RowsTyped ==
    ASSUME NEW c \in Candidate
    PROVE  /\ AssumptionRows(c) \subseteq PlanId \X Assumption \X Content
           /\ TaskRows(c) \subseteq PlanId \X Task
           /\ DependencyRows(c) \subseteq PlanId \X Task \X Task
           /\ \A r \in AssumptionRows(c) \cup TaskRows(c) \cup DependencyRows(c) : r[1] = c.plan
<1>1. \A a \in DOMAIN c.assumptions : c.assumptions[a] \in Content
  BY CandidateTyped
<1>2. \A e \in c.dependencies : e[1] \in Task /\ e[2] \in Task
  BY CandidateTyped
<1>3. AssumptionRows(c) \subseteq PlanId \X Assumption \X Content
  BY <1>1, CandidateTyped DEF AssumptionRows
<1>4. TaskRows(c) \subseteq PlanId \X Task
  BY CandidateTyped DEF TaskRows
<1>5. DependencyRows(c) \subseteq PlanId \X Task \X Task
  BY <1>2, CandidateTyped DEF DependencyRows
<1>6. QED
  BY <1>3, <1>4, <1>5 DEF AssumptionRows, TaskRows, DependencyRows

LEMMA GroundedKept ==
    ASSUME NEW c \in Candidate, NEW d, NEW e, Grounded(d, c), Grows(d, e)
    PROVE  Grounded(e, c)
<1>1. \A a \in DOMAIN c.assumptions : c.assumptions[a] # Absent
  BY CandidateTyped, AdmissionAssumption
<1>2. QED
  BY <1>1, CandidateTyped DEF Grounded, Grows

\* What a Plan is grounded in are three tables.
LEMMA SameGround ==
    ASSUME NEW c, NEW d, NEW e, Grounded(d, c),
           e.objectives = d.objectives, e.assumptions = d.assumptions, e.tasks = d.tasks
    PROVE  Grounded(e, c)
BY DEF Grounded

-----------------------------------------------------------------------------
(* What get_by_id makes of the rows.                                       *)

LEMMA StoredContent ==
    ASSUME NEW d, NEW c \in Candidate, Holds(d, c), Grounded(d, c)
    PROVE  StoredFingerprint(d, c.plan) = PlanFingerprint(c)
<1> DEFINE assumptions == {<<r[2], r[3]>> : r \in Of(d.plan_assumptions, c.plan)}
           tasks == {<<r[2], semantic_payload(d.tasks[r[2]])>> : r \in Of(d.plan_tasks, c.plan)}
           dependencies == {<<r[2], r[3]>> : r \in Of(d.plan_dependencies, c.plan)}
<1>1. assumptions = {<<a, c.assumptions[a]>> : a \in DOMAIN c.assumptions}
  <2>1. Of(d.plan_assumptions, c.plan) = AssumptionRows(c)
    BY DEF Holds
  <2>2. \A r \in AssumptionRows(c) :
            \E a \in DOMAIN c.assumptions : <<r[2], r[3]>> = <<a, c.assumptions[a]>>
    BY DEF AssumptionRows
  <2>3. \A a \in DOMAIN c.assumptions :
            \E r \in AssumptionRows(c) : <<r[2], r[3]>> = <<a, c.assumptions[a]>>
    <3> SUFFICES ASSUME NEW a \in DOMAIN c.assumptions
                 PROVE  \E r \in AssumptionRows(c) : <<r[2], r[3]>> = <<a, c.assumptions[a]>>
      OBVIOUS
    <3>1. <<c.plan, a, c.assumptions[a]>> \in AssumptionRows(c)
      BY DEF AssumptionRows
    <3>2. QED
      BY <3>1
  <2>4. QED
    BY <2>1, <2>2, <2>3
<1>2. tasks = {<<t, c.tasks[t]>> : t \in DOMAIN c.tasks}
  <2>1. Of(d.plan_tasks, c.plan) = TaskRows(c)
    BY DEF Holds
  <2>2. \A t \in DOMAIN c.tasks : semantic_payload(d.tasks[t]) = c.tasks[t]
    BY DEF Grounded, semantic_payload
  <2>3. \A r \in TaskRows(c) : \E t \in DOMAIN c.tasks :
            <<r[2], semantic_payload(d.tasks[r[2]])>> = <<t, c.tasks[t]>>
    BY <2>2 DEF TaskRows
  <2>4. \A t \in DOMAIN c.tasks : \E r \in TaskRows(c) :
            <<r[2], semantic_payload(d.tasks[r[2]])>> = <<t, c.tasks[t]>>
    <3> SUFFICES ASSUME NEW t \in DOMAIN c.tasks
                 PROVE  \E r \in TaskRows(c) :
                            <<r[2], semantic_payload(d.tasks[r[2]])>> = <<t, c.tasks[t]>>
      OBVIOUS
    <3>1. <<c.plan, t>> \in TaskRows(c)
      BY DEF TaskRows
    <3>2. QED
      BY <2>2, <3>1
  <2>5. QED
    BY <2>1, <2>3, <2>4
<1>3. dependencies = c.dependencies
  <2>1. Of(d.plan_dependencies, c.plan) = DependencyRows(c)
    BY DEF Holds
  <2>2. \A e \in c.dependencies : e = <<e[1], e[2]>>
    BY CandidateTyped
  <2>3. \A r \in DependencyRows(c) : \E e \in c.dependencies : <<r[2], r[3]>> = e
    BY <2>2 DEF DependencyRows
  <2>4. \A e \in c.dependencies : \E r \in DependencyRows(c) : <<r[2], r[3]>> = e
    <3> SUFFICES ASSUME NEW e \in c.dependencies
                 PROVE  \E r \in DependencyRows(c) : <<r[2], r[3]>> = e
      OBVIOUS
    <3>1. <<c.plan, e[1], e[2]>> \in DependencyRows(c)
      BY DEF DependencyRows
    <3>2. QED
      BY <2>2, <3>1
  <2>5. QED
    BY <2>1, <2>3, <2>4
<1>4. d.plans[c.plan].objective = c.objective /\ d.plans[c.plan].snapshot = c.text
  BY DEF Holds, Header
<1>5. StoredFingerprint(d, c.plan) =
          Fingerprint(d.plans[c.plan].objective, d.plans[c.plan].snapshot,
                      assumptions, tasks, dependencies)
  BY DEF StoredFingerprint, Of
<1>6. QED
  BY <1>1, <1>2, <1>3, <1>4, <1>5 DEF PlanFingerprint

\* A stored Plan can be read back.
LEMMA StoredLoads ==
    ASSUME NEW d, NEW p \in PlanId, NEW c \in Candidate, StoredAs(d, p, c)
    PROVE  Loads(d, p)
<1>1. Holds(d, c) /\ Grounded(d, c) /\ c.plan = p
  BY DEF StoredAs
<1>2. d.plans[p].objective = c.objective /\ d.plans[p].fingerprint = PlanFingerprint(c)
  BY <1>1 DEF Holds, Header
<1>3. d.objectives[d.plans[p].objective] # Absent
  BY <1>1, <1>2, CandidateTyped DEF Grounded
<1>4. \A r \in d.plan_assumptions : r[1] = p => d.assumptions[r[2]] # Absent
  <2> SUFFICES ASSUME NEW r \in d.plan_assumptions, r[1] = p PROVE d.assumptions[r[2]] # Absent
    OBVIOUS
  <2>1. r \in AssumptionRows(c)
    BY <1>1 DEF Holds, Of
  <2>2. PICK a \in DOMAIN c.assumptions : r = <<c.plan, a, c.assumptions[a]>>
    BY <2>1 DEF AssumptionRows
  <2>3. d.assumptions[a] = c.assumptions[a] /\ c.assumptions[a] \in Content
    BY <1>1, CandidateTyped DEF Grounded
  <2>4. QED
    BY <2>2, <2>3, AdmissionAssumption
<1>5. \A r \in d.plan_tasks : r[1] = p =>
          /\ d.tasks[r[2]] # Absent
          /\ d.tasks[r[2]].definition[1] = d.plans[p].objective
  <2> SUFFICES ASSUME NEW r \in d.plan_tasks, r[1] = p
               PROVE  /\ d.tasks[r[2]] # Absent
                      /\ d.tasks[r[2]].definition[1] = d.plans[p].objective
    OBVIOUS
  <2>1. r \in TaskRows(c)
    BY <1>1 DEF Holds, Of
  <2>2. PICK t \in DOMAIN c.tasks : r = <<c.plan, t>>
    BY <2>1 DEF TaskRows
  <2>3. d.tasks[t] # Absent /\ d.tasks[t].definition = c.tasks[t]
    BY <1>1 DEF Grounded
  <2>4. QED
    BY <1>2, <2>2, <2>3, CandidateTyped
<1>6. \A r \in d.plan_dependencies : r[1] = p =>
          <<p, r[2]>> \in d.plan_tasks /\ <<p, r[3]>> \in d.plan_tasks
  <2> SUFFICES ASSUME NEW r \in d.plan_dependencies, r[1] = p
               PROVE  <<p, r[2]>> \in d.plan_tasks /\ <<p, r[3]>> \in d.plan_tasks
    OBVIOUS
  <2>1. r \in DependencyRows(c)
    BY <1>1 DEF Holds, Of
  <2>2. PICK e \in c.dependencies : r = <<c.plan, e[1], e[2]>>
    BY <2>1 DEF DependencyRows
  <2>3. e[1] \in DOMAIN c.tasks /\ e[2] \in DOMAIN c.tasks
    BY CandidateTyped
  <2>4. <<c.plan, e[1]>> \in TaskRows(c) /\ <<c.plan, e[2]>> \in TaskRows(c)
    BY <2>3 DEF TaskRows
  <2>5. QED
    BY <1>1, <2>2, <2>4 DEF Holds, Of
<1>7. QED
  BY <1>1, <1>2, <1>3, <1>4, <1>5, <1>6, StoredContent DEF Loads

Pairs(f) == {<<x, f[x]>> : x \in DOMAIN f}

LEMMA PairsDetermine ==
    ASSUME NEW X, NEW Y, NEW f \in [X -> Y], NEW V, NEW W, NEW g \in [V -> W],
           Pairs(f) = Pairs(g)
    PROVE  f = g
<1>1. ASSUME NEW x \in X PROVE x \in V /\ f[x] = g[x]
  <2>1. <<x, f[x]>> \in Pairs(g)
    BY DEF Pairs
  <2>2. QED
    BY <2>1 DEF Pairs
<1>2. ASSUME NEW x \in V PROVE x \in X
  <2>1. <<x, g[x]>> \in Pairs(f)
    BY DEF Pairs
  <2>2. QED
    BY <2>1 DEF Pairs
<1>3. X = V
  BY <1>1, <1>2
<1>4. QED
  BY <1>1, <1>3

\* The fingerprint of a Plan leaves out nothing but its identity.
LEMMA FingerprintDetermines ==
    ASSUME NEW c \in Candidate, NEW e \in Candidate,
           c.plan = e.plan, PlanFingerprint(c) = PlanFingerprint(e)
    PROVE  c = e
<1>1. /\ c.objective = e.objective /\ c.text = e.text
      /\ Pairs(c.assumptions) = Pairs(e.assumptions)
      /\ Pairs(c.tasks) = Pairs(e.tasks)
      /\ c.dependencies = e.dependencies
  <2>1. /\ PlanFingerprint(c).objective = <<c.objective, c.text>>
        /\ PlanFingerprint(e).objective = <<e.objective, e.text>>
        /\ PlanFingerprint(c).dependencies = c.dependencies
        /\ PlanFingerprint(e).dependencies = e.dependencies
        /\ PlanFingerprint(c).assumptions = Pairs(c.assumptions)
        /\ PlanFingerprint(e).assumptions = Pairs(e.assumptions)
        /\ PlanFingerprint(c).tasks = Pairs(c.tasks)
        /\ PlanFingerprint(e).tasks = Pairs(e.tasks)
    BY DEF PlanFingerprint, Fingerprint, Pairs
  <2>2. QED
    BY <2>1
<1>2. /\ c.assumptions \in [DOMAIN c.assumptions -> Content]
      /\ e.assumptions \in [DOMAIN e.assumptions -> Content]
      /\ c.tasks \in [DOMAIN c.tasks -> Objective \X Content]
      /\ e.tasks \in [DOMAIN e.tasks -> Objective \X Content]
  BY CandidateTyped
<1>3. c.assumptions = e.assumptions
  <2>1. Pairs(c.assumptions) = Pairs(e.assumptions)
    BY <1>1
  <2>2. QED
    BY ONLY <1>2, <2>1, PairsDetermine, Zenon
<1>4. c.tasks = e.tasks
  <2>1. Pairs(c.tasks) = Pairs(e.tasks)
    BY <1>1
  <2>2. QED
    BY ONLY <1>2, <2>1, PairsDetermine, Zenon
<1>5. c \in Plan /\ e \in Plan
  BY AdmissionAssumption
<1>6. QED
  BY <1>1, <1>3, <1>4, <1>5 DEF Plan

LEMMA StoredPlanOf ==
    ASSUME NEW d, NEW p \in PlanId, NEW c \in Candidate, StoredAs(d, p, c)
    PROVE  PlanOf(d, p) = c
<1>1. c.plan = p /\ d.plans[p] # Absent /\ PlanFingerprint(c) = StoredFingerprint(d, p)
  BY StoredContent, CandidateTyped DEF StoredAs, Holds
<1>2. \A e \in Candidate : e.plan = p /\ PlanFingerprint(e) = StoredFingerprint(d, p) => e = c
  BY <1>1, FingerprintDetermines
<1>3. QED
  BY <1>1, <1>2 DEF PlanOf

-----------------------------------------------------------------------------
(* Steps of one session that commit nothing.                               *)

LEMMA SessionKept ==
    ASSUME NEW s \in Session, SessionOK(s), session'[s] = session[s],
           lock' = s <=> lock = s,
           lock = s => image' = image /\ db' = db,
           Grows(db, db')
    PROVE  SessionOK(s)'
<1> DEFINE c == session[s].candidate
           phase == session[s].phase
<1>1. phase \in {"idle", "checked"} => lock' # s
  BY DEF SessionOK
<1>2. ASSUME phase = "checked"
      PROVE  /\ session[s].newTasks \subseteq DOMAIN c.tasks
             /\ \A t \in DOMAIN c.tasks \ session[s].newTasks : db'.tasks[t] # Absent
             /\ ~session[s].newObjective => db'.objectives[c.objective] = c.text
  <2>1. c \in Candidate
    BY <1>2 DEF SessionOK
  <2>2. QED
    BY <1>2, <2>1, CandidateTyped DEF SessionOK, Grows
<1>3. ASSUME phase = "validated" \/ phase \in Late
      PROVE  Grounded(View(s)', c)
  <2>1. c \in Candidate /\ Grounded(View(s), c)
    BY <1>3 DEF SessionOK, Late
  <2>2. CASE lock = s
    <3>1. View(s)' = View(s)
      BY <2>2 DEF View
    <3>2. QED
      BY <2>1, <3>1
  <2>3. CASE lock # s
    <3>1. View(s) = db /\ View(s)' = db'
      BY <2>3 DEF View
    <3>2. QED
      BY <2>1, <3>1, GroundedKept
  <2>4. QED
    BY <2>2, <2>3
<1>4. phase # "idle" => c \in Candidate
  BY DEF SessionOK
<1>5. phase \in Late => lock' = s
  BY DEF SessionOK
<1>6. session[s]' = session[s]
  OBVIOUS
<1>7. QED
  BY <1>1, <1>2, <1>3, <1>4, <1>5, <1>6 DEF SessionOK

LEMMA GrowsReflexive == \A d : Grows(d, d)
BY DEF Grows

\* The step is the session's own: nothing others rely on changes.
LEMMA OwnStep ==
    ASSUME IInv, NEW s \in Session, MayWrite(s), db' = db,
           \A q \in Session \ {s} : session'[q] = session[q],
           TypeOK', lock' \in {s, NoSession},
           lock' = NoSession => image' = db,
           SessionOK(s)', lock' = s => ImageOK(s)'
    PROVE  IInv'
<1>1. \A q \in Session \ {s} : SessionOK(q)' /\ lock' # q
  <2> SUFFICES ASSUME NEW q \in Session \ {s} PROVE SessionOK(q)' /\ lock' # q
    OBVIOUS
  <2>1. lock # q /\ lock' # q
    BY AdmissionAssumption DEF MayWrite
  <2>2. Grows(db, db')
    BY GrowsReflexive
  <2>3. QED
    BY <2>1, <2>2, SessionKept DEF IInv
<1>2. PlansOK(db)' /\ SelectionsOK(db)'
  BY DEF IInv
<1>3. QED
  BY <1>1, <1>2 DEF IInv

\* So does one that changes the phase only.
LEMMA PhaseStep ==
    ASSUME IInv, NEW s \in Session, db' = db, lock' = lock, image' = image,
           \A q \in Session \ {s} : session'[q] = session[q],
           TypeOK', SessionOK(s)', lock = s => ImageOK(s)'
    PROVE  IInv'
<1>1. \A q \in Session \ {s} : SessionOK(q)'
  <2> SUFFICES ASSUME NEW q \in Session \ {s} PROVE SessionOK(q)'
    OBVIOUS
  <2>1. Grows(db, db')
    BY GrowsReflexive
  <2>2. QED
    BY <2>1, SessionKept DEF IInv
<1>2. \A q \in Session \ {s} : lock' = q => ImageOK(q)'
  <2> SUFFICES ASSUME NEW q \in Session \ {s}, lock' = q PROVE ImageOK(q)'
    OBVIOUS
  <2>1. ImageOK(q) /\ session'[q] = session[q]
    BY DEF IInv
  <2>2. QED
    BY <2>1 DEF ImageOK
<1>3. PlansOK(db)' /\ SelectionsOK(db)'
  BY DEF IInv
<1>4. QED
  BY <1>1, <1>2, <1>3 DEF IInv

LEMMA SessionTyped ==
    ASSUME TypeOK, NEW s \in Session, NEW phase \in Phase,
           session' = [session EXCEPT ![s].phase = phase]
    PROVE  /\ session' \in [Session -> [phase : Phase, candidate : Candidate \cup {Absent},
                                        newObjective : BOOLEAN, newTasks : SUBSET Task]]
           /\ session'[s] = [session[s] EXCEPT !.phase = phase]
           /\ session'[s].phase = phase
           /\ session'[s].candidate = session[s].candidate
           /\ \A q \in Session \ {s} : session'[q] = session[q]
BY DEF TypeOK

LEMMA RollbackInv == ASSUME IInv, NEW s \in Session, Rollback(s) PROVE IInv'
<1>1. /\ session'[s] = Idle
      /\ \A q \in Session \ {s} : session'[q] = session[q]
      /\ session' \in [Session -> [phase : Phase, candidate : Candidate \cup {Absent},
                                   newObjective : BOOLEAN, newTasks : SUBSET Task]]
  <2>1. Idle \in [phase : Phase, candidate : Candidate \cup {Absent},
                  newObjective : BOOLEAN, newTasks : SUBSET Task]
    BY DEF Idle, Phase
  <2>2. QED
    BY <2>1 DEF Rollback, IInv, TypeOK
<1>2. TypeOK'
  BY <1>1 DEF Rollback, IInv, TypeOK
<1>3. lock' # s
  BY AdmissionAssumption DEF Rollback
<1>4. SessionOK(s)'
  BY <1>1, <1>3 DEF SessionOK, Idle, Late
<1>5. CASE lock = s
  <2>1. lock' = NoSession /\ image' = db /\ db' = db
    BY <1>5 DEF Rollback
  <2>2. MayWrite(s)
    BY <1>5 DEF MayWrite
  <2>3. QED
    BY <1>1, <1>2, <1>3, <1>4, <2>1, <2>2, OwnStep
<1>6. CASE lock # s
  BY <1>1, <1>2, <1>4, <1>6, PhaseStep DEF Rollback
<1>7. QED
  BY <1>5, <1>6

LEMMA ValidateBundleInv ==
    ASSUME IInv, NEW s \in Session, NEW c \in Candidate, ValidateBundle(s, c) PROVE IInv'
<1> DEFINE new == [phase |-> "checked", candidate |-> c,
                   newObjective |-> db.objectives[c.objective] = Absent,
                   newTasks |-> {t \in DOMAIN c.tasks : db.tasks[t] = Absent}]
<1>1. new \in [phase : Phase, candidate : Candidate \cup {Absent},
               newObjective : BOOLEAN, newTasks : SUBSET Task]
  BY CandidateTyped DEF Phase
<1>2. /\ session'[s] = new
      /\ \A q \in Session \ {s} : session'[q] = session[q]
      /\ db' = db /\ lock' = lock /\ image' = image
  BY DEF ValidateBundle, IInv, TypeOK
<1>3. TypeOK'
  BY <1>1, <1>2 DEF ValidateBundle, IInv, TypeOK
<1>4. lock # s
  BY DEF ValidateBundle, IInv, SessionOK
<1>5. SessionOK(s)'
  <2>1. db.objectives[c.objective] # Absent => db.objectives[c.objective] = c.text
    BY DEF ValidateBundle, BundleAgrees
  <2>2. /\ session'[s].phase = "checked" /\ session'[s].candidate = c
        /\ session'[s].newTasks = {t \in DOMAIN c.tasks : db.tasks[t] = Absent}
    BY <1>2
  <2>3. session'[s].newObjective = (db.objectives[c.objective] = Absent)
    <3>1. \A x, y, z, w : [phase |-> x, candidate |-> y, newObjective |-> z,
                          newTasks |-> w].newObjective = z
      BY SMT
    <3>2. session'[s] = new
      BY <1>2
    <3>3. new.newObjective = (db.objectives[c.objective] = Absent)
      BY <3>1, Zenon
    <3>4. QED
      BY <3>2, <3>3, Zenon
  <2>4. ~session'[s].newObjective => db.objectives[c.objective] # Absent
    BY <2>3, Zenon
  <2> HIDE DEF new
  <2>5. QED
    BY <1>2, <1>4, <2>1, <2>2, <2>4 DEF SessionOK, Late
<1>6. QED
  BY <1>2, <1>3, <1>4, <1>5, PhaseStep

LEMMA WriteStep ==
    ASSUME IInv, NEW s \in Session, NEW phase \in Phase, NEW d \in Tables,
           Write(s, phase, d), SessionOK(s)', ImageOK(s)'
    PROVE  IInv'
<1>1. TypeOK
  BY DEF IInv
<1>2. session' = [session EXCEPT ![s].phase = phase] /\ lock' = s /\ image' = d /\ db' = db
  BY DEF Write, To
<1>3. TypeOK'
  BY <1>1, <1>2, SessionTyped DEF TypeOK
<1>4. \A q \in Session \ {s} : session'[q] = session[q]
  BY <1>1, <1>2, SessionTyped
<1>5. MayWrite(s) /\ lock' # NoSession
  BY <1>2, AdmissionAssumption DEF Write
<1>6. QED
  BY <1>2, <1>3, <1>4, <1>5, OwnStep

LEMMA StageBundleInv == ASSUME IInv, NEW s \in Session, StageBundle(s) PROVE IInv'
<1> DEFINE c == session[s].candidate
           new == session[s]
           rows(status) == [t \in Task |-> IF t \in new.newTasks
                               THEN [definition |-> c.tasks[t], status |-> status[t]]
                               ELSE db.tasks[t]]
           filled(status) == [db EXCEPT !.objectives = [@ EXCEPT ![c.objective] = c.text],
                                     !.tasks = rows(status)]
<1>1. TypeOK /\ SessionOK(s) /\ new.phase = "checked" /\ c \in Candidate /\ lock # s
  BY DEF StageBundle, IInv, SessionOK
<1>2. /\ new.newTasks \subseteq DOMAIN c.tasks
      /\ \A t \in DOMAIN c.tasks \ new.newTasks : db.tasks[t] # Absent
      /\ ~new.newObjective => db.objectives[c.objective] = c.text
  BY <1>1 DEF SessionOK
<1>3. CASE ~new.newObjective /\ new.newTasks = {}
  <2>1. To(s, "staged") /\ db' = db /\ lock' = lock /\ image' = image
    BY <1>3 DEF StageBundle
  <2>2. session' = [session EXCEPT ![s].phase = "staged"] /\ "staged" \in Phase
    BY <2>1 DEF To, Phase
  <2>3. TypeOK' /\ \A q \in Session \ {s} : session'[q] = session[q]
    BY <1>1, <2>1, <2>2, SessionTyped DEF TypeOK
  <2>4. session'[s].phase = "staged" /\ session'[s].candidate = c
    BY <1>1, <2>2, SessionTyped
  <2>5. SessionOK(s)'
    BY <1>1, <2>1, <2>4 DEF SessionOK, Late
  <2>6. QED
    BY <1>1, <2>1, <2>3, <2>5, PhaseStep
<1>4. CASE ~(~new.newObjective /\ new.newTasks = {}) /\ BundleTaken(s)
  BY <1>4, RollbackInv DEF StageBundle
<1>5. CASE ~(~new.newObjective /\ new.newTasks = {}) /\ ~BundleTaken(s)
  <2>1. PICK status \in [Task -> Status] : Write(s, "staged", filled(status))
    BY <1>5 DEF StageBundle
  <2> DEFINE d == filled(status)
  <2>2. \A t \in Task : t \in new.newTasks <=> t \in DOMAIN c.tasks /\ db.tasks[t] = Absent
    BY <1>2, <1>5 DEF BundleTaken
  <2>3. db.objectives[c.objective] \in {c.text, Absent}
    BY <1>2, <1>5 DEF BundleTaken
  <2>4. rows(status) \in [Task -> TaskRow \cup {Absent}]
    <3>1. \A t \in new.newTasks :
              [definition |-> c.tasks[t], status |-> status[t]] \in TaskRow
      BY <1>1, <1>2, CandidateTyped, AdmissionAssumption DEF TaskRow
    <3>2. db.tasks \in [Task -> TaskRow \cup {Absent}]
      BY <1>1 DEF TypeOK, Tables
    <3>3. QED
      BY <3>1, <3>2
  <2>5. [db.objectives EXCEPT ![c.objective] = c.text] \in [Objective -> Content \cup {Absent}]
    BY <1>1, CandidateTyped DEF TypeOK, Tables
  <2>6. db \in Tables
    BY <1>1 DEF TypeOK
  <2> HIDE DEF rows
  <2>7. /\ d \in Tables
        /\ d.objectives = [db.objectives EXCEPT ![c.objective] = c.text]
        /\ d.tasks = rows(status)
        /\ d.assumptions = db.assumptions /\ d.plans = db.plans
        /\ d.plan_assumptions = db.plan_assumptions /\ d.plan_tasks = db.plan_tasks
        /\ d.plan_dependencies = db.plan_dependencies /\ d.active_plans = db.active_plans
    BY <2>4, <2>5, <2>6 DEF Tables
  <2>8. rows(status) = WithNewTasks(db.tasks, c, status)
    BY <2>2 DEF rows, WithNewTasks
  <2>9. Write(s, "staged", d)
    BY <2>1
  <2> HIDE DEF d, filled
  <2>10. /\ session'[s].phase = "staged" /\ session'[s].candidate = c
        /\ db' = db /\ image' = d /\ lock' = s /\ "staged" \in Phase
    <3>1. "staged" \in Phase
      BY DEF Phase
    <3>2. QED
      BY <1>1, <2>9, <3>1, SessionTyped DEF Write, To
  <2>11. SessionOK(s)'
    BY <1>1, <2>10 DEF SessionOK, Late
  <2>12. ImageOK(s)'
    <3>1. TasksStaged(db.tasks, d.tasks, c)
      BY <2>7, <2>8 DEF TasksStaged
    <3>2. QED
      BY <2>3, <2>7, <2>10, <3>1 DEF ImageOK, Late
  <2>13. QED
    BY <2>7, <2>9, <2>10, <2>11, <2>12, WriteStep
<1>6. QED
  BY <1>3, <1>4, <1>5

LEMMA ValidatePlanInv == ASSUME IInv, NEW s \in Session, ValidatePlan(s) PROVE IInv'
<1> DEFINE c == session[s].candidate
           d == View(s)
           agrees == /\ d.objectives[c.objective] = c.text
                     /\ \A t \in DOMAIN c.tasks : d.tasks[t] # Absent
                     /\ BundleAgrees(d, c)
<1>1. TypeOK /\ SessionOK(s) /\ session[s].phase = "staged" /\ c \in Candidate
  BY DEF ValidatePlan, IInv, SessionOK
<1>2. CASE ~agrees
  BY <1>2, RollbackInv DEF ValidatePlan
<1>3. CASE agrees
  <2>1. Grounded(d, c)
    BY <1>3 DEF Grounded, BundleAgrees, semantic_payload
  <2>2. To(s, "validated") /\ db' = db /\ lock' = lock /\ image' = image
    BY <1>3 DEF ValidatePlan
  <2>3. session' = [session EXCEPT ![s].phase = "validated"] /\ "validated" \in Phase
    BY <2>2 DEF To, Phase
  <2>4. TypeOK' /\ \A q \in Session \ {s} : session'[q] = session[q]
    BY <1>1, <2>2, <2>3, SessionTyped DEF TypeOK
  <2>5. session'[s].phase = "validated" /\ session'[s].candidate = c
    BY <1>1, <2>3, SessionTyped
  <2>6. View(s)' = View(s)
    BY <2>2 DEF View
  <2>7. SessionOK(s)'
    BY <1>1, <2>1, <2>5, <2>6 DEF SessionOK, Late
  <2>8. lock = s => ImageOK(s)'
    <3>1. lock = s => ImageOK(s)
      BY DEF IInv
    <3>2. QED
      BY <1>1, <2>2, <2>5, <3>1 DEF ImageOK, Late
  <2>9. QED
    BY <2>2, <2>4, <2>7, <2>8, PhaseStep
<1>4. QED
  BY <1>2, <1>3

\* A bundle that is there needs no rows.
LEMMA GroundedRows ==
    ASSUME NEW c \in Candidate, db \in Tables, Grounded(db, c)
    PROVE  /\ [db.objectives EXCEPT ![c.objective] = c.text] = db.objectives
           /\ TasksStaged(db.tasks, db.tasks, c)
<1>1. db.objectives \in [Objective -> Content \cup {Absent}]
      /\ db.tasks \in [Task -> TaskRow \cup {Absent}]
  BY DEF Tables
<1>2. db.objectives[c.objective] = c.text /\ \A t \in DOMAIN c.tasks : db.tasks[t] # Absent
  BY DEF Grounded
<1>3. PICK status : status \in [Task -> Status]
  <2>1. PICK st : st \in Status
    BY AdmissionAssumption
  <2>2. [t \in Task |-> st] \in [Task -> Status]
    BY <2>1
  <2>3. QED
    BY <2>2
<1>4. WithNewTasks(db.tasks, c, status) = db.tasks
  BY <1>1, <1>2 DEF WithNewTasks
<1>5. QED
  BY <1>1, <1>2, <1>3, <1>4 DEF TasksStaged

LEMMA InsertPlanInv == ASSUME IInv, NEW s \in Session, InsertPlan(s) PROVE IInv'
<1> DEFINE c == session[s].candidate
           v == View(s)
           d == [v EXCEPT !.plans[c.plan] = Header(c)]
<1>1. TypeOK /\ SessionOK(s) /\ session[s].phase = "validated" /\ c \in Candidate
  BY DEF InsertPlan, IInv, SessionOK
<1>2. Grounded(v, c) /\ v \in Tables
  BY <1>1 DEF SessionOK, View, TypeOK
<1>3. CASE v.plans[c.plan] # Absent
  BY <1>3, RollbackInv DEF InsertPlan
<1>4. CASE v.plans[c.plan] = Absent
  <2>1. Write(s, "inserted", d)
    BY <1>4 DEF InsertPlan
  <2>2. Header(c) \in {Header(e) : e \in Candidate} /\ c.plan \in PlanId
    BY <1>1, CandidateTyped
  <2>3. /\ d \in Tables
        /\ d.plans = [v.plans EXCEPT ![c.plan] = Header(c)]
        /\ d.objectives = v.objectives /\ d.assumptions = v.assumptions /\ d.tasks = v.tasks
        /\ d.plan_assumptions = v.plan_assumptions /\ d.plan_tasks = v.plan_tasks
        /\ d.plan_dependencies = v.plan_dependencies /\ d.active_plans = v.active_plans
    <3> HIDE DEF v
    <3>1. v \in Tables
      BY <1>2
    <3>2. v.plans \in [PlanId -> {Header(e) : e \in Candidate} \cup {Absent}]
      BY <3>1 DEF Tables
    <3> DEFINE plans == [v.plans EXCEPT ![c.plan] = Header(c)]
    <3>3. plans \in [PlanId -> {Header(e) : e \in Candidate} \cup {Absent}]
      BY <2>2, <3>2
    <3>4. d = [v EXCEPT !.plans = plans]
      OBVIOUS
    <3> HIDE DEF plans, d
    <3>5. QED
      BY <3>1, <3>3, <3>4 DEF Tables, plans
  <2>4. /\ db.objectives[c.objective] \in {c.text, Absent}
        /\ v.objectives = [db.objectives EXCEPT ![c.objective] = c.text]
        /\ v.assumptions = db.assumptions
        /\ TasksStaged(db.tasks, v.tasks, c)
        /\ v.plans = db.plans /\ v.plan_assumptions = db.plan_assumptions
        /\ v.plan_tasks = db.plan_tasks /\ v.plan_dependencies = db.plan_dependencies
        /\ v.active_plans = db.active_plans
    <3>1. CASE lock = s
      <4>1. v = image /\ ImageOK(s)
        BY <3>1 DEF View, IInv
      <4>2. QED
        BY <1>1, <4>1 DEF ImageOK, Late
    <3>2. CASE lock # s
      <4>1. v = db
        BY <3>2 DEF View
      <4>2. db.objectives[c.objective] = c.text
        BY <1>2, <4>1 DEF Grounded
      <4>3. QED
        BY <1>1, <1>2, <4>1, <4>2, GroundedRows
    <3>3. QED
      BY <3>1, <3>2
  <2> HIDE DEF d
  <2>5. /\ session'[s].phase = "inserted" /\ session'[s].candidate = c
        /\ db' = db /\ image' = d /\ lock' = s /\ "inserted" \in Phase
    <3>1. "inserted" \in Phase
      BY DEF Phase
    <3>2. QED
      BY <1>1, <2>1, <3>1, SessionTyped DEF Write, To
  <2>6. SessionOK(s)'
    <3>1. Grounded(d, c)
      BY <1>2, <2>3, SameGround
    <3>2. View(s)' = d
      BY <2>5 DEF View
    <3>3. QED
      BY <1>1, <2>5, <3>1, <3>2 DEF SessionOK, Late
  <2>7. ImageOK(s)'
    BY <1>4, <2>3, <2>4, <2>5 DEF ImageOK, Late
  <2>8. QED
    BY <2>1, <2>3, <2>5, <2>6, <2>7, WriteStep
<1>5. QED
  BY <1>3, <1>4

\* A later insert adds rows of the Plan to the image and leaves the rest.
LEMMA LateStep ==
    ASSUME IInv, NEW s \in Session, session[s].phase \in Late,
           NEW phase \in Late, NEW d \in Tables, Write(s, phase, d),
           d.objectives = image.objectives, d.assumptions = image.assumptions,
           d.tasks = image.tasks, d.plans = image.plans, ImageOK(s)'
    PROVE  IInv'
<1> DEFINE c == session[s].candidate
<1>1. TypeOK /\ SessionOK(s) /\ lock = s /\ c \in Candidate /\ phase \in Phase
  BY DEF IInv, SessionOK, Late, Phase
<1>2. Grounded(image, c)
  BY <1>1 DEF SessionOK, View
<1>3. session'[s].phase = phase /\ session'[s].candidate = c /\ lock' = s /\ image' = d
  BY <1>1, SessionTyped DEF Write, To
<1>4. Grounded(d, c)
  BY <1>2, SameGround
<1>5. View(s)' = d
  BY <1>3 DEF View
<1>6. SessionOK(s)'
  BY <1>1, <1>3, <1>4, <1>5 DEF SessionOK, Late
<1>7. QED
  BY <1>1, <1>6, WriteStep

LEMMA InsertMembersInv == ASSUME IInv, NEW s \in Session, InsertMembers(s) PROVE IInv'
<1> DEFINE c == session[s].candidate
           d == [image EXCEPT !.plan_assumptions = @ \cup AssumptionRows(c),
                              !.plan_tasks = @ \cup TaskRows(c)]
<1>1. /\ TypeOK /\ session[s].phase = "inserted" /\ c \in Candidate
      /\ lock = s /\ ImageOK(s) /\ image \in Tables
  BY DEF InsertMembers, IInv, SessionOK, Late, TypeOK
<1>2. Write(s, "linked", d)
  BY <1>1 DEF InsertMembers, View, AssumptionRows, TaskRows
<1>3. /\ d \in Tables
      /\ d.plan_assumptions = image.plan_assumptions \cup AssumptionRows(c)
      /\ d.plan_tasks = image.plan_tasks \cup TaskRows(c)
      /\ d.objectives = image.objectives /\ d.assumptions = image.assumptions
      /\ d.tasks = image.tasks /\ d.plans = image.plans
      /\ d.plan_dependencies = image.plan_dependencies
      /\ d.active_plans = image.active_plans
  BY <1>1, RowsTyped DEF Tables
<1> HIDE DEF d
<1>4. /\ session'[s].phase = "linked" /\ session'[s].candidate = c
      /\ db' = db /\ image' = d /\ "linked" \in Phase
  <2>1. "linked" \in Phase
    BY DEF Phase
  <2>2. QED
    BY <1>1, <1>2, <2>1, SessionTyped DEF Write, To
<1>5. ImageOK(s)'
  BY <1>1, <1>3, <1>4 DEF ImageOK, Late
<1>6. QED
  BY <1>1, <1>2, <1>3, <1>5, LateStep DEF Late

LEMMA InsertDependenciesInv ==
    ASSUME IInv, NEW s \in Session, InsertDependencies(s) PROVE IInv'
<1> DEFINE c == session[s].candidate
           d == [image EXCEPT !.plan_dependencies = @ \cup DependencyRows(c)]
<1>1. /\ TypeOK /\ session[s].phase = "linked" /\ c \in Candidate
      /\ lock = s /\ ImageOK(s) /\ image \in Tables
  BY DEF InsertDependencies, IInv, SessionOK, Late, TypeOK
<1>2. Write(s, "complete", d)
  BY <1>1 DEF InsertDependencies, View, DependencyRows
<1>3. /\ d \in Tables
      /\ d.plan_dependencies = image.plan_dependencies \cup DependencyRows(c)
      /\ d.objectives = image.objectives /\ d.assumptions = image.assumptions
      /\ d.tasks = image.tasks /\ d.plans = image.plans
      /\ d.plan_assumptions = image.plan_assumptions /\ d.plan_tasks = image.plan_tasks
      /\ d.active_plans = image.active_plans
  BY <1>1, RowsTyped DEF Tables
<1> HIDE DEF d
<1>4. /\ session'[s].phase = "complete" /\ session'[s].candidate = c
      /\ db' = db /\ image' = d /\ "complete" \in Phase
  <2>1. "complete" \in Phase
    BY DEF Phase
  <2>2. QED
    BY <1>1, <1>2, <2>1, SessionTyped DEF Write, To
<1>5. ImageOK(s)'
  BY <1>1, <1>3, <1>4 DEF ImageOK, Late
<1>6. QED
  BY <1>1, <1>2, <1>3, <1>5, LateStep DEF Late

LEMMA ActivateInv == ASSUME IInv, NEW s \in Session, Activate(s) PROVE IInv'
<1> DEFINE c == session[s].candidate
           active == [image.active_plans EXCEPT ![c.objective] = c.plan]
           d == [image EXCEPT !.active_plans = active]
<1>1. /\ TypeOK /\ session[s].phase = "complete" /\ c \in Candidate
      /\ lock = s /\ ImageOK(s) /\ image \in Tables
  BY DEF Activate, IInv, SessionOK, Late, TypeOK
<1>2. Write(s, "activated", d)
  BY <1>1 DEF Activate, View, Selected
<1>3. active \in [Objective -> PlanId \cup {Absent}]
  BY <1>1, CandidateTyped DEF Tables
<1> HIDE DEF active
<1>4. /\ d \in Tables
      /\ d.active_plans = active
      /\ d.objectives = image.objectives /\ d.assumptions = image.assumptions
      /\ d.tasks = image.tasks /\ d.plans = image.plans
      /\ d.plan_assumptions = image.plan_assumptions /\ d.plan_tasks = image.plan_tasks
      /\ d.plan_dependencies = image.plan_dependencies
  BY <1>1, <1>3 DEF Tables
<1> HIDE DEF d
<1>5. /\ session'[s].phase = "activated" /\ session'[s].candidate = c
      /\ db' = db /\ image' = d /\ "activated" \in Phase
  <2>1. "activated" \in Phase
    BY DEF Phase
  <2>2. QED
    BY <1>1, <1>2, <2>1, SessionTyped DEF Write, To
<1>6. ImageOK(s)'
  BY <1>1, <1>4, <1>5 DEF ImageOK, Late, active
<1>7. QED
  BY <1>1, <1>2, <1>4, <1>6, LateStep DEF Late

-----------------------------------------------------------------------------
(* Steps that change the committed tables.                                 *)

\* A Plan whose rows stay, in tables that grow, stays the Plan it was.
LEMMA PlanKept ==
    ASSUME NEW d, NEW e, NEW p \in PlanId, Grows(d, e),
           e.plans[p] = d.plans[p],
           Of(e.plan_assumptions, p) = Of(d.plan_assumptions, p),
           Of(e.plan_tasks, p) = Of(d.plan_tasks, p),
           Of(e.plan_dependencies, p) = Of(d.plan_dependencies, p)
    PROVE  /\ NoRows(d, p) => NoRows(e, p)
           /\ \A c \in Candidate : StoredAs(d, p, c) => StoredAs(e, p, c)
<1>1. NoRows(d, p) => NoRows(e, p)
  BY DEF NoRows
<1>2. ASSUME NEW c \in Candidate, StoredAs(d, p, c) PROVE StoredAs(e, p, c)
  <2>1. c.plan = p /\ Holds(d, c) /\ Grounded(d, c)
    BY <1>2 DEF StoredAs
  <2>2. Holds(e, c)
    BY <2>1 DEF Holds
  <2>3. Grounded(e, c)
    BY <2>1, GroundedKept
  <2>4. QED
    BY <2>1, <2>2, <2>3 DEF StoredAs
<1>3. QED
  BY <1>1, <1>2

\* What a commit makes of the tables.
LEMMA CommitFacts ==
    ASSUME IInv, NEW s \in Session, NEW c, c = session[s].candidate, Commit(s)
    PROVE  /\ c \in Candidate /\ lock = s /\ db' = image /\ db' \in Tables
           /\ Grounded(db', c)
           /\ db.objectives[c.objective] \in {c.text, Absent}
           /\ db'.objectives = [db.objectives EXCEPT ![c.objective] = c.text]
           /\ db'.assumptions = db.assumptions
           /\ TasksStaged(db.tasks, db'.tasks, c)
           /\ db.plans[c.plan] = Absent
           /\ db'.plans = [db.plans EXCEPT ![c.plan] = Header(c)]
           /\ db'.plan_assumptions = db.plan_assumptions \cup AssumptionRows(c)
           /\ db'.plan_tasks = db.plan_tasks \cup TaskRows(c)
           /\ db'.plan_dependencies = db.plan_dependencies \cup DependencyRows(c)
           /\ db'.active_plans = [db.active_plans EXCEPT ![c.objective] = c.plan]
<1>1. /\ session[s].phase = "activated" /\ lock = s /\ db' = image
      /\ ImageOK(s) /\ SessionOK(s) /\ image \in Tables
  BY DEF Commit, IInv, TypeOK
<1>2. c \in Candidate /\ Grounded(image, c)
  BY <1>1 DEF SessionOK, Late, View
<1>3. QED
  BY <1>1, <1>2 DEF ImageOK, Late

LEMMA CommitGrows ==
    ASSUME IInv, NEW s \in Session, NEW c, c = session[s].candidate, Commit(s)
    PROVE  Grows(db, db')
<1>1. db \in Tables /\ c \in Candidate
  BY CommitFacts DEF IInv, TypeOK
<1>2. db.objectives \in [Objective -> Content \cup {Absent}]
  BY <1>1 DEF Tables
<1>3. \A o \in Objective : db.objectives[o] # Absent => db'.objectives[o] = db.objectives[o]
  BY <1>1, <1>2, CommitFacts
<1>4. db'.assumptions = db.assumptions
  BY CommitFacts
<1>5. \A t \in Task : db.tasks[t] # Absent => db'.tasks[t] = db.tasks[t]
  <2>1. TasksStaged(db.tasks, db'.tasks, c)
    BY CommitFacts
  <2>2. QED
    BY <2>1 DEF TasksStaged, WithNewTasks
<1>6. QED
  BY <1>3, <1>4, <1>5 DEF Grows

\* The Plan committed is stored whole, and the others as they were.
LEMMA CommitPlans ==
    ASSUME IInv, NEW s \in Session, NEW c, c = session[s].candidate, Commit(s)
    PROVE  /\ StoredAs(db', c.plan, c)
           /\ \A p \in PlanId \ {c.plan} :
                  /\ db'.plans[p] = db.plans[p]
                  /\ NoRows(db, p) => NoRows(db', p)
                  /\ \A e \in Candidate : StoredAs(db, p, e) => StoredAs(db', p, e)
<1>1. c \in Candidate /\ c.plan \in PlanId /\ db \in Tables
  BY CommitFacts, CandidateTyped DEF IInv, TypeOK
<1>2. db.plans \in [PlanId -> {Header(e) : e \in Candidate} \cup {Absent}]
  BY <1>1 DEF Tables
<1>3. db'.plans = [db.plans EXCEPT ![c.plan] = Header(c)]
  BY CommitFacts
<1>4. \A r \in AssumptionRows(c) \cup TaskRows(c) \cup DependencyRows(c) : r[1] = c.plan
  BY <1>1, RowsTyped
<1>5. /\ db'.plan_assumptions = db.plan_assumptions \cup AssumptionRows(c)
      /\ db'.plan_tasks = db.plan_tasks \cup TaskRows(c)
      /\ db'.plan_dependencies = db.plan_dependencies \cup DependencyRows(c)
  BY CommitFacts
<1>6. StoredAs(db', c.plan, c)
  <2>1. NoRows(db, c.plan)
    <3>1. db.plans[c.plan] = Absent
      BY CommitFacts
    <3>2. \A e \in Candidate : ~StoredAs(db, c.plan, e)
      BY <3>1, CandidateTyped DEF StoredAs, Holds
    <3>3. QED
      BY <1>1, <3>2 DEF IInv, PlansOK
  <2>2. Holds(db', c)
    <3>1. Of(db'.plan_assumptions, c.plan) = AssumptionRows(c)
      BY <1>4, <1>5, <2>1 DEF Of, NoRows
    <3>2. Of(db'.plan_tasks, c.plan) = TaskRows(c)
      BY <1>4, <1>5, <2>1 DEF Of, NoRows
    <3>3. Of(db'.plan_dependencies, c.plan) = DependencyRows(c)
      BY <1>4, <1>5, <2>1 DEF Of, NoRows
    <3>4. QED
      BY <1>1, <1>2, <1>3, <3>1, <3>2, <3>3 DEF Holds
  <2>3. QED
    BY <2>2, CommitFacts DEF StoredAs
<1>7. ASSUME NEW p \in PlanId \ {c.plan}
      PROVE  /\ db'.plans[p] = db.plans[p]
             /\ NoRows(db, p) => NoRows(db', p)
             /\ \A e \in Candidate : StoredAs(db, p, e) => StoredAs(db', p, e)
  <2>1. db'.plans[p] = db.plans[p]
    BY <1>2, <1>3
  <2>2. /\ Of(db'.plan_assumptions, p) = Of(db.plan_assumptions, p)
        /\ Of(db'.plan_tasks, p) = Of(db.plan_tasks, p)
        /\ Of(db'.plan_dependencies, p) = Of(db.plan_dependencies, p)
    BY <1>4, <1>5 DEF Of
  <2>3. QED
    BY <2>1, <2>2, CommitGrows, PlanKept
<1>8. QED
  BY <1>6, <1>7

LEMMA CommitInv == ASSUME IInv, NEW s \in Session, Commit(s) PROVE IInv'
<1> DEFINE c == session[s].candidate
<1>1. /\ c \in Candidate /\ lock = s /\ db' = image /\ db' \in Tables
      /\ db'.active_plans = [db.active_plans EXCEPT ![c.objective] = c.plan]
      /\ db'.plans = [db.plans EXCEPT ![c.plan] = Header(c)]
      /\ db.plans[c.plan] = Absent
  BY CommitFacts
<1>2. lock' = NoSession /\ image' = image /\ session' = [session EXCEPT ![s] = Idle]
  BY DEF Commit
<1>3. /\ session'[s] = Idle
      /\ \A q \in Session \ {s} : session'[q] = session[q]
      /\ session' \in [Session -> [phase : Phase, candidate : Candidate \cup {Absent},
                                   newObjective : BOOLEAN, newTasks : SUBSET Task]]
  <2>1. Idle \in [phase : Phase, candidate : Candidate \cup {Absent},
                  newObjective : BOOLEAN, newTasks : SUBSET Task]
    BY DEF Idle, Phase
  <2>2. QED
    BY <1>2, <2>1 DEF IInv, TypeOK
<1>4. TypeOK'
  BY <1>1, <1>2, <1>3 DEF TypeOK
<1>5. PlansOK(db)'
  <2>1. ASSUME NEW p \in PlanId
        PROVE  NoRows(db', p) \/ \E e \in Candidate : StoredAs(db', p, e)
    <3>1. CASE p = c.plan
      <4>1. StoredAs(db', c.plan, c)
        BY CommitPlans
      <4>2. QED
        BY <1>1, <3>1, <4>1
    <3>2. CASE p # c.plan
      <4>1. /\ NoRows(db, p) => NoRows(db', p)
            /\ \A e \in Candidate : StoredAs(db, p, e) => StoredAs(db', p, e)
        BY <3>2, CommitPlans
      <4>2. NoRows(db, p) \/ \E e \in Candidate : StoredAs(db, p, e)
        BY DEF IInv, PlansOK
      <4>3. QED
        BY <4>1, <4>2
    <3>3. QED
      BY <3>1, <3>2
  <2>2. QED
    BY <2>1 DEF PlansOK
<1>6. SelectionsOK(db)'
  <2>1. /\ db.active_plans \in [Objective -> PlanId \cup {Absent}]
        /\ db.plans \in [PlanId -> {Header(e) : e \in Candidate} \cup {Absent}]
    BY DEF IInv, TypeOK, Tables
  <2>2. c.plan \in PlanId /\ c.objective \in Objective /\ c.plan # Absent /\ Header(c) # Absent
    BY <1>1, CandidateTyped, AdmissionAssumption
  <2>3. db'.plans[c.plan] = Header(c) /\ Header(c).objective = c.objective
    BY <1>1, <2>1, <2>2 DEF Header
  <2>4. SelectionsOK(db)
    BY DEF IInv
  <2>5. ASSUME NEW o \in Objective, db'.active_plans[o] # Absent
        PROVE  /\ db'.plans[db'.active_plans[o]] # Absent
               /\ db'.plans[db'.active_plans[o]].objective = o
    BY <1>1, <2>1, <2>2, <2>3, <2>4, <2>5 DEF SelectionsOK
  <2>6. ASSUME NEW p \in PlanId, db'.plans[p] # Absent
        PROVE  db'.active_plans[db'.plans[p].objective] # Absent
    <3>1. \A q \in PlanId : db.plans[q] # Absent => db.plans[q].objective \in Objective
      BY <2>1, CandidateTyped DEF Header
    <3>2. QED
      BY <1>1, <2>1, <2>2, <2>3, <2>4, <2>6, <3>1 DEF SelectionsOK
  <2>7. QED
    BY <2>5, <2>6 DEF SelectionsOK
<1>7. \A q \in Session : SessionOK(q)' /\ lock' # q
  <2>1. SessionOK(s)' /\ lock' # s
    BY <1>2, <1>3, AdmissionAssumption DEF SessionOK, Idle, Late
  <2>2. ASSUME NEW q \in Session \ {s} PROVE SessionOK(q)' /\ lock' # q
    <3>1. lock # q /\ lock' # q
      BY <1>1, <1>2, AdmissionAssumption
    <3>2. Grows(db, db')
      BY CommitGrows
    <3>3. QED
      BY <1>3, <3>1, <3>2, SessionKept DEF IInv
  <2>3. QED
    BY <2>1, <2>2
<1>8. QED
  BY <1>1, <1>2, <1>4, <1>5, <1>6, <1>7 DEF IInv

\* A write of another transaction to tables a Plan refers to.
LEMMA AutocommitInv ==
    ASSUME IInv, NEW d \in Tables, Autocommit(d), Grows(db, d),
           d.plans = db.plans, d.plan_assumptions = db.plan_assumptions,
           d.plan_tasks = db.plan_tasks, d.plan_dependencies = db.plan_dependencies,
           d.active_plans = db.active_plans
    PROVE  /\ IInv'
           /\ \A p \in PlanId : PlanOf(db, p)' = PlanOf(db, p)
<1>1. lock = NoSession /\ db' = d /\ image' = d /\ lock' = lock /\ session' = session
  BY DEF Autocommit
<1>2. \A p \in PlanId :
          /\ NoRows(db, p) => NoRows(d, p)
          /\ \A c \in Candidate : StoredAs(db, p, c) => StoredAs(d, p, c)
  BY PlanKept
<1>3. PlansOK(db)'
  BY <1>1, <1>2 DEF IInv, PlansOK
<1>4. SelectionsOK(db)'
  BY <1>1 DEF IInv, SelectionsOK
<1>5. \A s \in Session : SessionOK(s)' /\ lock' # s
  BY <1>1, SessionKept, AdmissionAssumption DEF IInv
<1>6. TypeOK'
  BY <1>1 DEF IInv, TypeOK
<1>7. ASSUME NEW p \in PlanId PROVE PlanOf(db, p)' = PlanOf(db, p)
  <2>1. CASE NoRows(db, p)
    BY <1>1, <2>1 DEF NoRows, PlanOf
  <2>2. CASE \E c \in Candidate : StoredAs(db, p, c)
    <3>1. PICK c \in Candidate : StoredAs(db, p, c)
      BY <2>2
    <3>2. PlanOf(db, p) = c /\ PlanOf(d, p) = c
      BY <1>2, <3>1, StoredPlanOf
    <3>3. QED
      BY <1>1, <3>2
  <2>3. QED
    BY <2>1, <2>2 DEF IInv, PlansOK
<1>8. QED
  BY <1>1, <1>3, <1>4, <1>5, <1>6, <1>7 DEF IInv

\* Each other writer is a write of that kind, and the same write of the store.
LEMMA CreateObjectiveStep ==
    ASSUME IInv, NEW o \in Objective, NEW x \in Content, CreateObjective(o, x)
    PROVE  IInv' /\ Store!CreateObjective(o, x)
<1> DEFINE table == [db.objectives EXCEPT ![o] = x]
           d == [db EXCEPT !.objectives = table]
<1>1. db \in Tables /\ db.objectives[o] = Absent /\ Autocommit(d)
  BY DEF CreateObjective, IInv, TypeOK
<1>2. db.objectives \in [Objective -> Content \cup {Absent}]
  BY <1>1 DEF Tables
<1>3. table \in [Objective -> Content \cup {Absent}]
  BY <1>2
<1>4. \A i \in Objective : db.objectives[i] # Absent => table[i] = db.objectives[i]
  BY <1>1, <1>2
<1> HIDE DEF table
<1>5. /\ d \in Tables /\ d.objectives = table
      /\ d.assumptions = db.assumptions /\ d.tasks = db.tasks /\ d.plans = db.plans
      /\ d.plan_assumptions = db.plan_assumptions /\ d.plan_tasks = db.plan_tasks
      /\ d.plan_dependencies = db.plan_dependencies /\ d.active_plans = db.active_plans
  BY <1>1, <1>3 DEF Tables
<1> HIDE DEF d
<1>6. Grows(db, d) /\ db' = d
  BY <1>1, <1>4, <1>5 DEF Grows, Autocommit
<1>7. IInv' /\ \A p \in PlanId : PlanOf(db, p)' = PlanOf(db, p)
  BY <1>1, <1>5, <1>6, AutocommitInv
<1>8. Store!CreateObjective(o, x)
  BY <1>1, <1>5, <1>6, <1>7 DEF Store!CreateObjective, table
<1>9. QED
  BY <1>7, <1>8

LEMMA CreateAssumptionStep ==
    ASSUME IInv, NEW a \in Assumption, NEW x \in Content, CreateAssumption(a, x)
    PROVE  IInv' /\ Store!CreateAssumption(a, x)
<1> DEFINE table == [db.assumptions EXCEPT ![a] = x]
           d == [db EXCEPT !.assumptions = table]
<1>1. db \in Tables /\ db.assumptions[a] = Absent /\ Autocommit(d)
  BY DEF CreateAssumption, IInv, TypeOK
<1>2. db.assumptions \in [Assumption -> Content \cup {Absent}]
  BY <1>1 DEF Tables
<1>3. table \in [Assumption -> Content \cup {Absent}]
  BY <1>2
<1>4. \A i \in Assumption : db.assumptions[i] # Absent => table[i] = db.assumptions[i]
  BY <1>1, <1>2
<1> HIDE DEF table
<1>5. /\ d \in Tables /\ d.assumptions = table
      /\ d.objectives = db.objectives /\ d.tasks = db.tasks /\ d.plans = db.plans
      /\ d.plan_assumptions = db.plan_assumptions /\ d.plan_tasks = db.plan_tasks
      /\ d.plan_dependencies = db.plan_dependencies /\ d.active_plans = db.active_plans
  BY <1>1, <1>3 DEF Tables
<1> HIDE DEF d
<1>6. Grows(db, d) /\ db' = d
  BY <1>1, <1>4, <1>5 DEF Grows, Autocommit
<1>7. IInv' /\ \A p \in PlanId : PlanOf(db, p)' = PlanOf(db, p)
  BY <1>1, <1>5, <1>6, AutocommitInv
<1>8. Store!CreateAssumption(a, x)
  BY <1>1, <1>5, <1>6, <1>7 DEF Store!CreateAssumption, table
<1>9. QED
  BY <1>7, <1>8

\* A new Task, or a Task with a new status.
LEMMA TaskWritten ==
    ASSUME IInv, NEW t \in Task, NEW row \in TaskRow, NEW d,
           d = [db EXCEPT !.tasks = [db.tasks EXCEPT ![t] = row]], Autocommit(d),
           db.tasks[t] # Absent => row.definition = db.tasks[t].definition
    PROVE  /\ IInv' /\ db' = d
           /\ \A p \in PlanId : PlanOf(db, p)' = PlanOf(db, p)
<1> DEFINE table == [db.tasks EXCEPT ![t] = row]
<1>1. db \in Tables /\ db' = d
  BY DEF Autocommit, IInv, TypeOK
<1>2. db.tasks \in [Task -> TaskRow \cup {Absent}]
  BY <1>1 DEF Tables
<1>3. table \in [Task -> TaskRow \cup {Absent}]
  BY <1>2
<1>4. \A i \in Task : db.tasks[i] # Absent =>
          table[i] # Absent /\ table[i].definition = db.tasks[i].definition
  BY <1>2, AdmissionAssumption
<1>5. d = [db EXCEPT !.tasks = table]
  OBVIOUS
<1> HIDE DEF table
<1>6. /\ d \in Tables /\ d.tasks = table
      /\ d.objectives = db.objectives /\ d.assumptions = db.assumptions /\ d.plans = db.plans
      /\ d.plan_assumptions = db.plan_assumptions /\ d.plan_tasks = db.plan_tasks
      /\ d.plan_dependencies = db.plan_dependencies /\ d.active_plans = db.active_plans
  BY <1>1, <1>3, <1>5 DEF Tables
<1>7. Grows(db, d)
  BY <1>4, <1>6 DEF Grows
<1>8. QED
  BY <1>1, <1>6, <1>7, AutocommitInv

LEMMA CreateTaskStep ==
    ASSUME IInv, NEW t \in Task, NEW o \in Objective, NEW x \in Content, NEW st \in Status,
           CreateTask(t, o, x, st)
    PROVE  IInv' /\ Store!CreateTask(t, o, x, st)
<1> DEFINE row == [definition |-> <<o, x>>, status |-> st]
           d == [db EXCEPT !.tasks[t] = row]
<1>1. db.tasks[t] = Absent /\ db.objectives[o] # Absent /\ Autocommit(d)
  BY DEF CreateTask
<1>2. /\ row \in TaskRow /\ d = [db EXCEPT !.tasks = [db.tasks EXCEPT ![t] = row]]
      /\ db.tasks[t] # Absent => row.definition = db.tasks[t].definition
  BY <1>1, AdmissionAssumption DEF TaskRow
<1> HIDE DEF d, row
<1>3. /\ IInv' /\ db' = d
      /\ \A p \in PlanId : PlanOf(db, p)' = PlanOf(db, p)
  BY <1>1, <1>2, TaskWritten, Zenon
<1>4. /\ d.tasks = [db.tasks EXCEPT ![t] = row]
      /\ d.objectives = db.objectives /\ d.assumptions = db.assumptions
      /\ d.active_plans = db.active_plans
  BY <1>2 DEF IInv, TypeOK, Tables
<1>5. QED
  BY <1>1, <1>3, <1>4 DEF Store!CreateTask, row

LEMMA UpdateTaskStep ==
    ASSUME IInv, NEW t \in Task, NEW st \in Status, UpdateTask(t, st)
    PROVE  IInv' /\ Store!UpdateTask(t, st)
<1> DEFINE row == [db.tasks[t] EXCEPT !.status = st]
           d == [db EXCEPT !.tasks[t] = row]
<1>1. db.tasks[t] # Absent /\ Autocommit([db EXCEPT !.tasks[t].status = st])
  BY DEF UpdateTask
<1>2. /\ [db EXCEPT !.tasks[t].status = st] = d
      /\ d = [db EXCEPT !.tasks = [db.tasks EXCEPT ![t] = row]]
  OBVIOUS
<1>3. db.tasks[t] \in TaskRow
  BY <1>1 DEF IInv, TypeOK, Tables
<1>4. row \in TaskRow /\ row.definition = db.tasks[t].definition
  BY <1>3 DEF TaskRow
<1>5. Autocommit(d)
  BY <1>1, <1>2
<1> HIDE DEF d, row
<1>6. /\ IInv' /\ db' = d
      /\ \A p \in PlanId : PlanOf(db, p)' = PlanOf(db, p)
  BY <1>2, <1>4, <1>5, TaskWritten, Zenon
<1>7. /\ d.tasks = [db.tasks EXCEPT ![t] = row]
      /\ d.objectives = db.objectives /\ d.assumptions = db.assumptions
      /\ d.active_plans = db.active_plans
  BY <1>2 DEF IInv, TypeOK, Tables
<1>8. QED
  BY <1>1, <1>6, <1>7 DEF Store!UpdateTask, row

-----------------------------------------------------------------------------
(* A commit is an admission of the store.                                  *)

LEMMA CommitAdmits ==
    ASSUME IInv, NEW s \in Session, Commit(s)
    PROVE  \E status \in [Task -> Status] : Store!Admit(session[s].candidate, status)
<1> DEFINE c == session[s].candidate
<1>1. PICK k : k = session[s].candidate
  OBVIOUS
<1>2. /\ k \in Candidate /\ Grounded(db', k) /\ db \in Tables
      /\ db.objectives[k.objective] \in {k.text, Absent}
      /\ db'.objectives = [db.objectives EXCEPT ![k.objective] = k.text]
      /\ db'.assumptions = db.assumptions
      /\ db.plans[k.plan] = Absent
      /\ db'.active_plans = [db.active_plans EXCEPT ![k.objective] = k.plan]
  BY <1>1, CommitFacts DEF IInv, TypeOK
<1>3. PICK status \in [Task -> Status] : db'.tasks = WithNewTasks(db.tasks, k, status)
  <2>1. TasksStaged(db.tasks, db'.tasks, k)
    BY <1>1, CommitFacts
  <2>2. QED
    BY <2>1 DEF TasksStaged
<1>4. Store!Admissible(k)
  <2>1. PlanOf(db, k.plan) = Absent
    BY <1>2 DEF PlanOf
  <2>2. \A a \in DOMAIN k.assumptions : db.assumptions[a] = k.assumptions[a]
    BY <1>2 DEF Grounded
  <2>3. \A t \in DOMAIN k.tasks : db.tasks[t] # Absent => db.tasks[t].definition = k.tasks[t]
    <3> SUFFICES ASSUME NEW t \in DOMAIN k.tasks, db.tasks[t] # Absent
                 PROVE  db.tasks[t].definition = k.tasks[t]
      OBVIOUS
    <3>1. t \in Task
      BY <1>2, CandidateTyped
    <3>2. db'.tasks[t] = db.tasks[t]
      BY <1>3, <3>1 DEF WithNewTasks
    <3>3. QED
      BY <1>2, <3>2 DEF Grounded
  <2>4. \A t \in DOMAIN k.tasks :
            Store!Definitions(db.tasks)[t] \in {k.tasks[t], Absent}
    BY <1>2, <2>3, CandidateTyped DEF Store!Definitions
  <2>5. k.plan \in PlanId
    BY <1>2, CandidateTyped
  <2>6. QED
    BY <1>2, <2>1, <2>2, <2>4, <2>5 DEF Store!Admissible, Store!Agrees
<1>5. [p \in PlanId |-> PlanOf(db', p)]
          = [[p \in PlanId |-> PlanOf(db, p)] EXCEPT ![k.plan] = k]
  <2>1. k.plan \in PlanId /\ StoredAs(db', k.plan, k)
    BY <1>1, <1>2, CommitPlans, CandidateTyped
  <2>2. PlanOf(db', k.plan) = k
    BY <1>2, <2>1, StoredPlanOf
  <2>3. ASSUME NEW p \in PlanId, p # k.plan PROVE PlanOf(db', p) = PlanOf(db, p)
    <3>1. /\ db'.plans[p] = db.plans[p]
          /\ \A e \in Candidate : StoredAs(db, p, e) => StoredAs(db', p, e)
      BY <1>1, <2>3, CommitPlans
    <3>2. CASE NoRows(db, p)
      BY <3>1, <3>2 DEF NoRows, PlanOf
    <3>3. CASE \E e \in Candidate : StoredAs(db, p, e)
      <4>1. PICK e \in Candidate : StoredAs(db, p, e)
        BY <3>3
      <4>2. PlanOf(db, p) = e /\ PlanOf(db', p) = e
        BY <3>1, <4>1, StoredPlanOf
      <4>3. QED
        BY <4>2
    <3>4. QED
      BY <3>2, <3>3 DEF IInv, PlansOK
  <2>4. QED
    BY <2>1, <2>2, <2>3
<1>6. Store!Admit(k, status)
  BY <1>2, <1>3, <1>4, <1>5 DEF Store!Admit, WithNewTasks
<1>7. QED
  BY <1>1, <1>6

\* The steps that commit nothing.
Local ==
    \E s \in Session :
        \/ \E c \in Candidate : ValidateBundle(s, c)
        \/ StageBundle(s) \/ ValidatePlan(s) \/ InsertPlan(s) \/ InsertMembers(s)
        \/ InsertDependencies(s) \/ Activate(s) \/ LockTimeout(s) \/ Fail(s)

LEMMA LocalInv == IInv /\ Local => IInv' /\ UNCHANGED db
<1> SUFFICES ASSUME IInv, NEW s \in Session,
                    \/ \E c \in Candidate : ValidateBundle(s, c)
                    \/ StageBundle(s) \/ ValidatePlan(s) \/ InsertPlan(s) \/ InsertMembers(s)
                    \/ InsertDependencies(s) \/ Activate(s) \/ LockTimeout(s) \/ Fail(s)
             PROVE  IInv' /\ UNCHANGED db
  BY DEF Local
<1>1. CASE \E c \in Candidate : ValidateBundle(s, c)
  BY <1>1, ValidateBundleInv DEF ValidateBundle
<1>2. CASE StageBundle(s)
  BY <1>2, StageBundleInv DEF StageBundle, Rollback, Write
<1>3. CASE ValidatePlan(s)
  BY <1>3, ValidatePlanInv DEF ValidatePlan, Rollback
<1>4. CASE InsertPlan(s)
  BY <1>4, InsertPlanInv DEF InsertPlan, Rollback, Write
<1>5. CASE InsertMembers(s)
  BY <1>5, InsertMembersInv DEF InsertMembers, Write
<1>6. CASE InsertDependencies(s)
  BY <1>6, InsertDependenciesInv DEF InsertDependencies, Write
<1>7. CASE Activate(s)
  BY <1>7, ActivateInv DEF Activate, Write
<1>8. CASE LockTimeout(s) \/ Fail(s)
  BY <1>8, RollbackInv DEF LockTimeout, Fail, Rollback
<1>9. QED
  BY <1>1, <1>2, <1>3, <1>4, <1>5, <1>6, <1>7, <1>8

\* Every step keeps the invariant, and is a step of the store or none.
LEMMA EveryStep == IInv /\ [Next]_vars => IInv' /\ [Store!StoreNext]_(Store!storeVars)
<1> SUFFICES ASSUME IInv, [Next]_vars PROVE IInv' /\ [Store!StoreNext]_(Store!storeVars)
  OBVIOUS
<1>1. ASSUME UNCHANGED db PROVE UNCHANGED Store!storeVars
  BY <1>1 DEF Store!storeVars
<1>2. CASE Local
  BY <1>1, <1>2, LocalInv
<1>3. CASE \E s \in Session : Commit(s)
  <2>1. PICK s \in Session : Commit(s)
    BY <1>3
  <2>2. /\ \E status \in [Task -> Status] : Store!Admit(session[s].candidate, status)
        /\ session[s].candidate \in Candidate
    BY <2>1, CommitAdmits, CommitFacts
  <2>3. QED
    BY <2>1, <2>2, CommitInv DEF Store!StoreNext
<1>4. CASE \E o \in Objective, x \in Content : CreateObjective(o, x)
  BY <1>4, CreateObjectiveStep DEF Store!StoreNext
<1>5. CASE \E a \in Assumption, x \in Content : CreateAssumption(a, x)
  BY <1>5, CreateAssumptionStep DEF Store!StoreNext
<1>6. CASE \E t \in Task, o \in Objective, x \in Content, st \in Status :
               CreateTask(t, o, x, st)
  BY <1>6, CreateTaskStep DEF Store!StoreNext
<1>7. CASE \E t \in Task, st \in Status : UpdateTask(t, st)
  BY <1>7, UpdateTaskStep DEF Store!StoreNext
<1>8. CASE UNCHANGED vars
  <2>1. UNCHANGED <<db, lock, image, session>>
    BY <1>8 DEF vars
  <2>2. IInv'
    <3>1. TypeOK' /\ PlansOK(db)' /\ SelectionsOK(db)' /\ (lock = NoSession => image = db)'
      BY <2>1 DEF IInv, TypeOK
    <3>2. \A s \in Session : SessionOK(s)'
      BY <2>1, SessionKept, GrowsReflexive DEF IInv
    <3>3. \A s \in Session : (lock = s => ImageOK(s))'
      BY <2>1 DEF IInv, ImageOK
    <3>4. QED
      BY <3>1, <3>2, <3>3 DEF IInv
  <2>3. QED
    BY <1>1, <2>1, <2>2
<1>9. Next <=> \/ Local \/ (\E s \in Session : Commit(s))
               \/ (\E o \in Objective, x \in Content : CreateObjective(o, x))
               \/ (\E a \in Assumption, x \in Content : CreateAssumption(a, x))
               \/ (\E t \in Task, o \in Objective, x \in Content, st \in Status :
                      CreateTask(t, o, x, st))
               \/ (\E t \in Task, st \in Status : UpdateTask(t, st))
  BY Zenon DEF Next, AdmissionStep, Local
<1>10. QED
  BY <1>2, <1>3, <1>4, <1>5, <1>6, <1>7, <1>8, <1>9

LEMMA InitHolds == Init => IInv /\ Store!StoreInit
<1> SUFFICES ASSUME Init PROVE IInv /\ Store!StoreInit
  OBVIOUS
<1>1. EmptyDb \in Tables
  BY DEF EmptyDb, Tables
<1>2. Idle \in [phase : Phase, candidate : Candidate \cup {Absent},
                newObjective : BOOLEAN, newTasks : SUBSET Task]
  BY DEF Idle, Phase
<1>3. TypeOK
  BY <1>1, <1>2 DEF Init, TypeOK
<1>4. \A p \in PlanId : NoRows(db, p)
  BY DEF Init, EmptyDb, NoRows, Of
<1>5. SelectionsOK(db)
  BY DEF Init, EmptyDb, SelectionsOK
<1>6. \A s \in Session : session[s] = Idle /\ lock # s
  BY AdmissionAssumption DEF Init
<1>7. \A s \in Session : SessionOK(s)
  BY <1>6 DEF SessionOK, Idle, Late
<1>8. IInv
  BY <1>3, <1>4, <1>5, <1>6, <1>7 DEF IInv, PlansOK, Init
<1>9. Store!StoreInit
  <2>1. \A p \in PlanId : PlanOf(db, p) = Absent
    BY <1>4 DEF NoRows, PlanOf
  <2>2. QED
    BY <2>1 DEF Init, EmptyDb, Store!StoreInit
<1>10. QED
  BY <1>8, <1>9

-----------------------------------------------------------------------------
(* The theorems.                                                           *)

\* The inductive invariant holds of every admission, however sessions,
\* other writers and failures interleave (plan_admission.py, admit).
THEOREM Invariant == Spec => []IInv
<1>1. Init => IInv
  BY InitHolds
<1>2. IInv /\ [Next]_vars => IInv'
  BY EveryStep
<1>3. QED
  BY <1>1, <1>2, PTL DEF Spec

\* Every reachable state of the tables, the lock and the sessions is typed.
THEOREM Typing == Spec => []TypeOK
<1>1. IInv => TypeOK
  BY DEF IInv
<1>2. QED
  BY <1>1, Invariant, PTL

\* Every stored Plan can be read back (plan_repository.py, get_by_id).
THEOREM PlansLoad == Spec => []StoredPlansLoad
<1>1. IInv => StoredPlansLoad
  BY StoredLoads DEF IInv, PlansOK, NoRows, StoredPlansLoad
<1>2. QED
  BY <1>1, Invariant, PTL

\* No part of a Plan is visible without the rest: the transaction of admit is
\* the only writer of the rows that name a Plan.
THEOREM AllOrNothing == Spec => []NoPartialPlan
<1>1. ASSUME IInv PROVE NoPartialPlan
  <2>1. ASSUME NEW r \in db.plan_tasks \cup db.plan_assumptions \cup db.plan_dependencies
        PROVE  db.plans[r[1]] # Absent
    <3>1. r[1] \in PlanId
      BY <1>1 DEF IInv, TypeOK, Tables
    <3>2. ~NoRows(db, r[1])
      BY <2>1 DEF NoRows, Of
    <3>3. PICK c \in Candidate : StoredAs(db, r[1], c)
      BY <1>1, <3>1, <3>2 DEF IInv, PlansOK
    <3>4. QED
      BY <3>3, CandidateTyped DEF StoredAs, Holds
  <2>2. SelectionsOK(db)
    BY <1>1 DEF IInv
  <2>3. QED
    BY <2>1, <2>2 DEF NoPartialPlan, SelectionsOK
<1>2. QED
  BY <1>1, Invariant, PTL

\* Admissions are serializable: each commits as one step of PlanStore, in a
\* state in which everything it checked is still so (plan_admission.py, admit).
THEOREM Refinement == Spec => ImplementsStore
<1>1. Init => Store!StoreInit
  BY InitHolds
<1>2. IInv /\ [Next]_vars => [Store!StoreNext]_(Store!storeVars)
  BY EveryStep
<1>3. QED
  BY <1>1, <1>2, Invariant, PTL DEF Spec, ImplementsStore, Store!StoreSpec

\* The write lock is never left behind: whoever holds it is an admission between
\* its first insert and its commit, which nothing makes wait.
LockIsUsed ==
    lock # NoSession => session[lock].phase \notin {"idle", "checked"}

\* No step leaves the lock with a session that is not admitting, so no session
\* waits for a lock that nobody gives back.
THEOREM LockNeverLeaks == Spec => []LockIsUsed
<1>1. IInv => LockIsUsed
  BY AdmissionAssumption DEF IInv, TypeOK, SessionOK, LockIsUsed
<1>2. QED
  BY <1>1, Invariant, PTL

\* The statements an admission still has before it, at most.
Remaining ==
    [idle |-> 0, activated |-> 1, complete |-> 2, linked |-> 3, inserted |-> 4,
     validated |-> 5, staged |-> 6, checked |-> 7]

\* An admission is moved by its own steps only, and each of them takes it nearer
\* to its end: the loop of two sessions that undo each other's work does not exist.
AdmissionDescends ==
    \A s \in Session : session[s].phase # "idle" =>
        \/ session'[s] = session[s]
        \/ Remaining[session'[s].phase] < Remaining[session[s].phase]

LEMMA OwnStepDescends ==
    ASSUME TypeOK, NEW s \in Session, AdmissionStep(s) \/ Fail(s)
    PROVE  /\ \A q \in Session \ {s} : session'[q] = session[q]
           /\ Remaining[session'[s].phase] < Remaining[session[s].phase]
<1>1. session[s].phase \in Phase
  BY DEF TypeOK
<1>2. ASSUME NEW ph \in Phase, To(s, ph)
      PROVE  session'[s].phase = ph /\ \A q \in Session \ {s} : session'[q] = session[q]
  BY <1>2, SessionTyped DEF To
<1>3. ASSUME Rollback(s)
      PROVE  session'[s].phase = "idle" /\ \A q \in Session \ {s} : session'[q] = session[q]
  BY <1>3 DEF Rollback, Idle, TypeOK
<1>4. CASE Rollback(s) /\ session[s].phase # "idle"
  BY <1>1, <1>3, <1>4 DEF Remaining, Phase
<1>5. CASE /\ session[s].phase = "checked" /\ To(s, "staged")
  BY <1>2, <1>5 DEF Remaining, Phase
<1>6. CASE /\ session[s].phase = "staged" /\ To(s, "validated")
  BY <1>2, <1>6 DEF Remaining, Phase
<1>7. CASE /\ session[s].phase = "validated" /\ To(s, "inserted")
  BY <1>2, <1>7 DEF Remaining, Phase
<1>8. CASE /\ session[s].phase = "inserted" /\ To(s, "linked")
  BY <1>2, <1>8 DEF Remaining, Phase
<1>9. CASE /\ session[s].phase = "linked" /\ To(s, "complete")
  BY <1>2, <1>9 DEF Remaining, Phase
<1>10. CASE /\ session[s].phase = "complete" /\ To(s, "activated")
  BY <1>2, <1>10 DEF Remaining, Phase
<1>11. CASE Commit(s)
  BY <1>11 DEF Commit, Idle, TypeOK, Remaining
<1>12. QED
  BY <1>4, <1>5, <1>6, <1>7, <1>8, <1>9, <1>10, <1>11
     DEF AdmissionStep, StageBundle, ValidatePlan, InsertPlan, InsertMembers,
         InsertDependencies, Activate, LockTimeout, Fail, Write

\* The variant of an admission: whatever the other sessions and writers do, it has
\* no more steps before it than when it began.
THEOREM AdmissionVariant == Spec => [][AdmissionDescends]_vars
<1>1. ASSUME TypeOK, Next PROVE AdmissionDescends
  <2>1. ASSUME NEW s \in Session, AdmissionStep(s) \/ Fail(s) PROVE AdmissionDescends
    BY <2>1, <1>1, OwnStepDescends DEF AdmissionDescends
  <2>2. ASSUME NEW s \in Session, NEW c \in Candidate, ValidateBundle(s, c)
        PROVE  AdmissionDescends
    BY <2>2, <1>1 DEF ValidateBundle, TypeOK, AdmissionDescends
  <2>3. ASSUME UNCHANGED session PROVE AdmissionDescends
    BY <2>3 DEF AdmissionDescends
  <2>4. QED
    BY <1>1, <2>1, <2>2, <2>3
       DEF Next, CreateObjective, CreateAssumption, CreateTask, UpdateTask, Autocommit
<1>2. QED
  BY <1>1, Typing, PTL DEF Spec

-----------------------------------------------------------------------------
(* What every implementation of the store has.                             *)

Plans == [p \in PlanId |-> PlanOf(db, p)]

\* The Plan p was admitted from is there, with everything it refers to.
AdmittedAs(d, p, c) ==
    /\ c \in Candidate /\ c.plan = p
    /\ d.objectives[c.objective] = c.text
    /\ \A a \in DOMAIN c.assumptions : d.assumptions[a] = c.assumptions[a]
    /\ \A t \in DOMAIN c.tasks : d.tasks[t] # Absent /\ d.tasks[t].definition = c.tasks[t]

\* A stored Plan and what other rows say of its Objective, Tasks and Assumptions
\* never come to disagree, and the active Plan of an Objective is one of its own.
PlansHold == \A p \in PlanId : Plans[p] # Absent => AdmittedAs(db, p, Plans[p])
SelectionsHold ==
    \A o \in Objective : db.active_plans[o] # Absent =>
        /\ db.active_plans[o] \in PlanId
        /\ Plans[db.active_plans[o]] # Absent
        /\ Plans[db.active_plans[o]].objective = o

StoreInv ==
    /\ db.objectives = [o \in Objective |-> db.objectives[o]]
    /\ db.assumptions = [a \in Assumption |-> db.assumptions[a]]
    /\ db.tasks \in [Task -> TaskRow \cup {Absent}]
    /\ db.active_plans = [o \in Objective |-> db.active_plans[o]]
    /\ PlansHold /\ SelectionsHold

\* What is stored stays; so do the Plans that refer to it.
LEMMA StoreGrows ==
    ASSUME StoreInv, Grows(db, db'), NEW p \in PlanId, Plans[p] # Absent, Plans'[p] = Plans[p]
    PROVE  AdmittedAs(db', p, Plans'[p])
<1>1. PICK c : c = Plans[p] /\ AdmittedAs(db, p, c)
  BY DEF StoreInv, PlansHold
<1>2. /\ c \in Candidate
      /\ c.objective \in Objective /\ c.text # Absent
      /\ DOMAIN c.assumptions \subseteq Assumption /\ DOMAIN c.tasks \subseteq Task
      /\ \A a \in DOMAIN c.assumptions : c.assumptions[a] # Absent
  <2>1. c \in Candidate
    BY <1>1 DEF AdmittedAs
  <2>2. c.assumptions \in [DOMAIN c.assumptions -> Content]
    BY <2>1, CandidateTyped
  <2>3. QED
    BY <2>1, <2>2, CandidateTyped, AdmissionAssumption
<1>3. AdmittedAs(db', p, c)
  BY <1>1, <1>2 DEF AdmittedAs, Grows
<1>4. QED
  BY <1>1, <1>3

\* A step that stores no Plan and selects none.
LEMMA StoreKeeps ==
    ASSUME StoreInv, Grows(db, db'), Plans' = Plans, db'.active_plans = db.active_plans
    PROVE  PlansHold' /\ SelectionsHold'
<1>1. PlansHold'
  BY StoreGrows DEF PlansHold
<1>2. SelectionsHold'
  BY DEF StoreInv, SelectionsHold
<1>3. QED
  BY <1>1, <1>2

LEMMA StoreAdmits ==
    ASSUME StoreInv, NEW c \in Candidate, NEW status \in [Task -> Status],
           Store!Admit(c, status)
    PROVE  StoreInv'
<1>1. /\ db.objectives[c.objective] \in {c.text, Absent}
      /\ \A a \in DOMAIN c.assumptions : db.assumptions[a] = c.assumptions[a]
      /\ Plans[c.plan] = Absent
      /\ db'.objectives = [db.objectives EXCEPT ![c.objective] = c.text]
      /\ db'.tasks = WithNewTasks(db.tasks, c, status)
      /\ Plans' = [Plans EXCEPT ![c.plan] = c]
      /\ db'.active_plans = [db.active_plans EXCEPT ![c.objective] = c.plan]
      /\ db'.assumptions = db.assumptions
  BY DEF Store!Admit, Store!Admissible, WithNewTasks, Plans
<1>2. \A t \in DOMAIN c.tasks : db.tasks[t] # Absent => db.tasks[t].definition = c.tasks[t]
  <2>1. ASSUME NEW t \in DOMAIN c.tasks, db.tasks[t] # Absent
        PROVE  db.tasks[t].definition = c.tasks[t]
    <3>1. Store!Definitions(db.tasks)[t] \in {c.tasks[t], Absent} /\ t \in Task
      BY CandidateTyped DEF Store!Admit, Store!Admissible, Store!Agrees
    <3>2. db.tasks[t].definition \in {c.tasks[t], Absent}
      BY <2>1, <3>1 DEF Store!Definitions
    <3>3. db.tasks[t].definition \in Objective \X Content
      BY <2>1, <3>1 DEF StoreInv, TaskRow
    <3>4. QED
      BY <3>2, <3>3, AdmissionAssumption
  <2>2. QED
    BY <2>1
<1>3. /\ c.plan \in PlanId /\ c.objective \in Objective
      /\ DOMAIN c.assumptions \subseteq Assumption /\ DOMAIN c.tasks \subseteq Task
      /\ c # Absent
  BY CandidateTyped, AdmissionAssumption
<1>4. /\ Plans'[c.plan] = c
      /\ \A p \in PlanId : p # c.plan => Plans'[p] = Plans[p]
  BY <1>1, <1>3 DEF Plans
<1>5. ASSUME NEW t \in Task
      PROVE  /\ db'.tasks[t] \in TaskRow \cup {Absent}
             /\ db.tasks[t] # Absent => db'.tasks[t] = db.tasks[t]
             /\ t \in DOMAIN c.tasks =>
                    db'.tasks[t] # Absent /\ db'.tasks[t].definition = c.tasks[t]
  <2>1. CASE t \in DOMAIN c.tasks /\ db.tasks[t] = Absent
    <3>1. c.tasks[t] \in Objective \X Content
      BY <2>1, CandidateTyped
    <3>2. db'.tasks[t] = [definition |-> c.tasks[t], status |-> status[t]]
      BY <1>1, <2>1 DEF WithNewTasks
    <3>3. db'.tasks[t] \in TaskRow
      BY <3>1, <3>2, AdmissionAssumption DEF TaskRow
    <3>4. QED
      BY <2>1, <3>2, <3>3, AdmissionAssumption
  <2>2. CASE ~(t \in DOMAIN c.tasks /\ db.tasks[t] = Absent)
    <3>1. db'.tasks[t] = db.tasks[t]
      BY <1>1, <2>2 DEF WithNewTasks
    <3>2. QED
      BY <1>2, <2>2, <3>1 DEF StoreInv
  <2>3. QED
    BY <2>1, <2>2
<1>6. /\ db'.objectives = [o \in Objective |-> db'.objectives[o]]
      /\ db'.assumptions = [a \in Assumption |-> db'.assumptions[a]]
      /\ db'.tasks \in [Task -> TaskRow \cup {Absent}]
      /\ db'.active_plans = [o \in Objective |-> db'.active_plans[o]]
      /\ \A o \in Objective :
             /\ db'.objectives[o] = IF o = c.objective THEN c.text ELSE db.objectives[o]
             /\ db'.active_plans[o] = IF o = c.objective THEN c.plan ELSE db.active_plans[o]
  <2>1. db'.tasks = [t \in Task |-> db'.tasks[t]]
    BY <1>1 DEF WithNewTasks
  <2>2. db'.tasks \in [Task -> TaskRow \cup {Absent}]
    BY <1>5, <2>1
  <2>3. QED
    BY <1>1, <1>3, <2>2 DEF StoreInv
<1>7. Grows(db, db')
  BY <1>1, <1>5, <1>6 DEF Grows
<1>8. PlansHold'
  <2>1. ASSUME NEW p \in PlanId, Plans'[p] # Absent
        PROVE  AdmittedAs(db', p, Plans'[p])
    <3>1. CASE p = c.plan
      <4>1. AdmittedAs(db', p, c)
        BY <1>1, <1>3, <1>5, <1>6, <3>1 DEF AdmittedAs
      <4>2. QED
        BY <1>4, <3>1, <4>1
    <3>2. CASE p # c.plan
      BY <1>4, <1>7, <2>1, <3>2, StoreGrows
    <3>3. QED
      BY <3>1, <3>2
  <2>2. QED
    BY <2>1 DEF PlansHold
<1>9. SelectionsHold'
  <2>1. ASSUME NEW o \in Objective, db'.active_plans[o] # Absent
        PROVE  /\ db'.active_plans[o] \in PlanId
               /\ Plans'[db'.active_plans[o]] # Absent
               /\ Plans'[db'.active_plans[o]].objective = o
    <3>1. CASE o = c.objective
      BY <1>3, <1>4, <1>6, <3>1
    <3>2. CASE o # c.objective
      <4>1. /\ db'.active_plans[o] = db.active_plans[o] /\ db.active_plans[o] \in PlanId
            /\ Plans[db.active_plans[o]] # Absent
            /\ Plans[db.active_plans[o]].objective = o
        BY <1>6, <2>1, <3>2 DEF StoreInv, SelectionsHold
      <4>2. db.active_plans[o] # c.plan
        BY <1>1, <4>1
      <4>3. QED
        BY <1>4, <4>1, <4>2
    <3>3. QED
      BY <3>1, <3>2
  <2>2. QED
    BY <2>1 DEF SelectionsHold
<1>10. QED
  BY <1>6, <1>8, <1>9 DEF StoreInv

\* The store promises what its readers need, and so does whatever implements it:
\* the Plan a Task belongs to is there for good, unchanged and with all its parts.
THEOREM StoreSuffices == ImplementsStore => [](PlansHold /\ SelectionsHold)
<1>1. Store!StoreInit => StoreInv
  <2> SUFFICES ASSUME Store!StoreInit PROVE StoreInv
    OBVIOUS
  <2>1. Plans = [p \in PlanId |-> Absent]
    BY DEF Store!StoreInit, Plans
  <2>2. QED
    BY <2>1 DEF Store!StoreInit, StoreInv, PlansHold, SelectionsHold
<1>2. StoreInv /\ [Store!StoreNext]_(Store!storeVars) => StoreInv'
  <2> SUFFICES ASSUME StoreInv, [Store!StoreNext]_(Store!storeVars) PROVE StoreInv'
    OBVIOUS
  <2>1. ASSUME NEW o \in Objective, NEW x \in Content, Store!CreateObjective(o, x)
        PROVE  StoreInv'
    <3>1. /\ db.objectives[o] = Absent /\ db'.objectives = [db.objectives EXCEPT ![o] = x]
          /\ db'.assumptions = db.assumptions /\ db'.tasks = db.tasks
          /\ db'.active_plans = db.active_plans /\ Plans' = Plans
      BY <2>1 DEF Store!CreateObjective, Plans
    <3>2. Grows(db, db')
      BY <3>1 DEF Grows, StoreInv
    <3>3. QED
      BY <3>1, <3>2, StoreKeeps DEF StoreInv
  <2>2. ASSUME NEW a \in Assumption, NEW x \in Content, Store!CreateAssumption(a, x)
        PROVE  StoreInv'
    <3>1. /\ db.assumptions[a] = Absent /\ db'.assumptions = [db.assumptions EXCEPT ![a] = x]
          /\ db'.objectives = db.objectives /\ db'.tasks = db.tasks
          /\ db'.active_plans = db.active_plans /\ Plans' = Plans
      BY <2>2 DEF Store!CreateAssumption, Plans
    <3>2. Grows(db, db')
      BY <3>1 DEF Grows, StoreInv
    <3>3. QED
      BY <3>1, <3>2, StoreKeeps DEF StoreInv
  <2>3. ASSUME NEW t \in Task, NEW row \in TaskRow, db'.tasks = [db.tasks EXCEPT ![t] = row],
               db.tasks[t] # Absent => row.definition = db.tasks[t].definition,
               db'.objectives = db.objectives, db'.assumptions = db.assumptions,
               db'.active_plans = db.active_plans, Plans' = Plans
        PROVE  StoreInv'
    <3>1. db'.tasks \in [Task -> TaskRow \cup {Absent}]
      BY <2>3 DEF StoreInv
    <3>2. \A i \in Task : db'.tasks[i] = IF i = t THEN row ELSE db.tasks[i]
      BY <2>3 DEF StoreInv
    <3>3. Grows(db, db')
      BY <2>3, <3>2, AdmissionAssumption DEF Grows
    <3>4. QED
      BY <2>3, <3>1, <3>3, StoreKeeps DEF StoreInv
  <2>4. ASSUME NEW t \in Task, NEW o \in Objective, NEW x \in Content, NEW st \in Status,
               Store!CreateTask(t, o, x, st)
        PROVE  StoreInv'
    <3> DEFINE row == [definition |-> <<o, x>>, status |-> st]
    <3>1. row \in TaskRow
      BY AdmissionAssumption DEF TaskRow
    <3>2. /\ db.tasks[t] = Absent /\ db'.tasks = [db.tasks EXCEPT ![t] = row]
          /\ db'.objectives = db.objectives /\ db'.assumptions = db.assumptions
          /\ db'.active_plans = db.active_plans /\ Plans' = Plans
      BY <2>4 DEF Store!CreateTask, Plans
    <3>3. QED
      BY <2>3, <3>1, <3>2
  <2>5. ASSUME NEW t \in Task, NEW st \in Status, Store!UpdateTask(t, st)
        PROVE  StoreInv'
    <3> DEFINE row == [db.tasks[t] EXCEPT !.status = st]
    <3>1. /\ db.tasks[t] # Absent /\ db'.tasks = [db.tasks EXCEPT ![t] = row]
          /\ db'.objectives = db.objectives /\ db'.assumptions = db.assumptions
          /\ db'.active_plans = db.active_plans /\ Plans' = Plans
      BY <2>5 DEF Store!UpdateTask, Plans
    <3>2. db.tasks[t] \in TaskRow
      BY <3>1 DEF StoreInv
    <3>3. row \in TaskRow /\ row.definition = db.tasks[t].definition
      BY <3>2 DEF TaskRow
    <3>4. QED
      BY <2>3, <3>1, <3>3
  <2>6. CASE UNCHANGED Store!storeVars
    <3>1. /\ db'.objectives = db.objectives /\ db'.assumptions = db.assumptions
          /\ db'.tasks = db.tasks /\ db'.active_plans = db.active_plans /\ Plans' = Plans
      BY <2>6 DEF Store!storeVars, Plans
    <3>2. Grows(db, db')
      BY <3>1 DEF Grows
    <3>3. QED
      BY <3>1, <3>2, StoreKeeps DEF StoreInv
  <2>7. QED
    BY <2>1, <2>2, <2>4, <2>5, <2>6, StoreAdmits DEF Store!StoreNext
<1>3. StoreInv => PlansHold /\ SelectionsHold
  BY DEF StoreInv
<1>4. QED
  BY <1>1, <1>2, <1>3, PTL DEF ImplementsStore, Store!StoreSpec
=============================================================================
