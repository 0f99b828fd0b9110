---------------------------- MODULE DataExplorer ----------------------------
(***************************************************************************)
(* DataExplorer.run: one unit of data work over a dataset file that other  *)
(* programs may write at any time.  The work reads the file once, awaits   *)
(* an analysis plan from a model, and computes its observation from what   *)
(* it read before the await.                                               *)
(*                                                                         *)
(* The digest of a dataset is its bytes: SHA-256 tells contents apart.  An *)
(* observation is the operation and what it was computed from, and a       *)
(* profile is given by Profile, which may be the same for different bytes. *)
(***************************************************************************)
CONSTANTS
    Path,          \* absolute, resolved dataset paths
    Dataset,       \* contents a dataset file may have
    Unreadable,    \* contents no loader parses
    Wide,          \* contents with more than 50 columns
    Profile,       \* profile_dataset
    Operation,     \* validated analysis plans
    Inapplicable,  \* pairs of a content and a plan whose tool refuses it
    DataTask,      \* Tasks of kind DATA
    Request,       \* what the dispatcher is asked for
    Work,          \* work identities, drawn by each run
    Absent

ASSUME DataAssumption ==
    /\ Unreadable \cup Wide \subseteq Dataset
    /\ Inapplicable \subseteq Dataset \X Operation
    /\ DOMAIN Profile = Dataset
    /\ "dataset_profile" \notin Operation
    /\ Absent \notin Dataset

VARIABLES
    file,  \* the content at each path
    work   \* each unit of work and, once it ended, its result

explorerVars == <<file, work>>

NotRun == [status |-> "not_run"]
Failed == [status |-> "failed"]
Blocked == [status |-> "blocked"]

ExplorerInit ==
    /\ file \in [Path -> Dataset \cup {Absent}]
    /\ work = [w \in Work |-> NotRun]

\* What an operation observes in a dataset.
Observed(op, b) == <<op, IF op = "dataset_profile" THEN Profile[b] ELSE b>>

Succeeded(r, op, digest, observation) ==
    [status |-> "succeeded", request |-> r, operation |-> op, path |-> r.path,
     digest |-> digest, observation |-> observation]

\* Seeded fault: contents that do not parse are taken for empty tables.
Exists(r) == r.path \in Path /\ file[r.path] # Absent
\* load_dataset: the digest is of the bytes the dataframe is parsed from.
Loads(r) == r.path \in Path /\ file[r.path] \notin Unreadable \cup {Absent}

\* DATA_ANALYSIS goes on to its planner with a projection of its profile.
Plannable(r) == r.profile # Absent /\ r.projection # Absent /\ r.projection.id = r.profile

-----------------------------------------------------------------------------
End(w, result) == work' = [work EXCEPT ![w] = result] /\ UNCHANGED file

\* The dispatcher resolves the capability and starts the work, which ends at
\* once if the Task, the capability, the dataset or the profile will not do.
Refuse(w, r) ==
    /\ work[w] = NotRun
    /\ \/ /\ r.task \notin DataTask
          /\ End(w, Failed)
       \/ /\ r.task \in DataTask /\ r.capability = "transformation"
          /\ End(w, Blocked)
       \/ /\ r.task \in DataTask /\ r.capability # "transformation"
          /\ \/ ~Loads(r)
             \/ r.capability = "analysis" /\ ~Plannable(r)
             \/ /\ r.capability = "profiling" /\ r.profile # Absent
                /\ Loads(r) /\ file[r.path] \in Wide
          /\ End(w, Failed)

Accepted(w, r) == work[w] = NotRun /\ r.task \in DataTask /\ Loads(r)

\* Analysis up to the await of the planner.
StartAnalysis(w, r) ==
    /\ Accepted(w, r) /\ r.capability = "analysis" /\ Plannable(r)
    /\ End(w, [status |-> "planning", request |-> r, dataset |-> file[r.path]])

\* Profiling awaits nothing.  With no profile to observe it ends in a
\* candidate, which carries no observation.
RunProfiling(w, r) ==
    /\ Accepted(w, r) /\ r.capability = "profiling"
    /\ r.profile = Absent \/ file[r.path] \notin Wide
    /\ End(w, Succeeded(r, "dataset_profile", file[r.path],
                        IF r.profile = Absent THEN Absent
                        ELSE Observed("dataset_profile", file[r.path])))

\* Seeded fault: the file is read again after the await.
ReadAgain(w) ==
    IF file[work[w].request.path] = Absent THEN work[w].dataset ELSE file[work[w].request.path]
\* What execute_analysis is given.
Dataframe(w) == work[w].dataset

\* The planner answers with a valid plan, which is executed.
ExecutePlan(w, op) ==
    /\ work[w].status = "planning"
    /\ End(w, IF <<Dataframe(w), op>> \in Inapplicable THEN Failed
              ELSE Succeeded(work[w].request, op, work[w].dataset, Observed(op, Dataframe(w))))

\* No planner, a refused request, an invalid plan, or an error of the model.
PlanningFails(w) == work[w].status = "planning" /\ End(w, Failed)

\* Another program writes or removes the dataset.
ChangeFile(p) ==
    /\ \E b \in (Dataset \cup {Absent}) \ {file[p]} : file' = [file EXCEPT ![p] = b]
    /\ UNCHANGED work

ExplorerNext ==
    \/ \E w \in Work :
           \/ \E r \in Request : Refuse(w, r) \/ StartAnalysis(w, r) \/ RunProfiling(w, r)
           \/ \E op \in Operation : ExecutePlan(w, op)
           \/ PlanningFails(w)
    \/ \E p \in Path : ChangeFile(p)

=============================================================================
