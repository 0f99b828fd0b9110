----------------------------- MODULE PlanStore -----------------------------
(***************************************************************************)
(* What Plan admission promises: Plans, with the Objective, Tasks and      *)
(* Assumptions they are made of, appear in the store in one step, exactly  *)
(* as they were authorized, and the Plan admitted last is the active one   *)
(* of its Objective.                                                       *)
(***************************************************************************)
CONSTANTS
    Objective, Assumption, Task, PlanId,   \* identities
    Content,     \* what an Objective, an Assumption or a Task may say
    Status,      \* execution status of a Task
    Candidate,   \* authorized Plans
    Absent       \* of an identity with no row

VARIABLES
    objective,   \* content of each stored Objective
    assumption,  \* content of each stored Assumption
    task,        \* definition and status of each stored Task
    plan,        \* exact content of each stored Plan
    active       \* the active Plan of each Objective

storeVars == <<objective, assumption, task, plan, active>>

\* The identities of f agree with the store where it has them.
Agrees(f, table) == \A i \in DOMAIN f : table[i] \in {f[i], Absent}

Definitions(table) == [t \in Task |-> IF table[t] = Absent THEN Absent ELSE table[t].definition]

StoreInit ==
    /\ objective = [o \in Objective |-> Absent]
    /\ assumption = [a \in Assumption |-> Absent]
    /\ task = [t \in Task |-> Absent]
    /\ plan = [p \in PlanId |-> Absent]
    /\ active = [o \in Objective |-> Absent]

Admissible(c) ==
    /\ plan[c.plan] = Absent
    /\ objective[c.objective] \in {c.text, Absent}
    /\ \A a \in DOMAIN c.assumptions : assumption[a] = c.assumptions[a]
    /\ Agrees(c.tasks, Definitions(task))

\* The Tasks that are new are stored with the status they came with.
Admit(c, status) ==
    /\ Admissible(c)
    /\ objective' = [objective EXCEPT ![c.objective] = c.text]
    /\ task' = [t \in Task |-> IF t \in DOMAIN c.tasks /\ task[t] = Absent
                               THEN [definition |-> c.tasks[t], status |-> status[t]]
                               ELSE task[t]]
    /\ plan' = [plan EXCEPT ![c.plan] = c]
    /\ active' = [active EXCEPT ![c.objective] = c.plan]
    /\ UNCHANGED assumption

CreateObjective(o, x) ==
    /\ objective[o] = Absent
    /\ objective' = [objective EXCEPT ![o] = x]
    /\ UNCHANGED <<assumption, task, plan, active>>

CreateAssumption(a, x) ==
    /\ assumption[a] = Absent
    /\ assumption' = [assumption EXCEPT ![a] = x]
    /\ UNCHANGED <<objective, task, plan, active>>

CreateTask(t, o, x, s) ==
    /\ task[t] = Absent /\ objective[o] # Absent
    /\ task' = [task EXCEPT ![t] = [definition |-> <<o, x>>, status |-> s]]
    /\ UNCHANGED <<objective, assumption, plan, active>>

UpdateTask(t, s) ==
    /\ task[t] # Absent
    /\ task' = [task EXCEPT ![t].status = s]
    /\ UNCHANGED <<objective, assumption, plan, active>>

StoreNext ==
    \/ \E c \in Candidate, status \in [Task -> Status] : Admit(c, status)
    \/ \E o \in Objective, x \in Content : CreateObjective(o, x)
    \/ \E a \in Assumption, x \in Content : CreateAssumption(a, x)
    \/ \E t \in Task, o \in Objective, x \in Content, s \in Status : CreateTask(t, o, x, s)
    \/ \E t \in Task, s \in Status : UpdateTask(t, s)

StoreSpec == StoreInit /\ [][StoreNext]_storeVars

=============================================================================
