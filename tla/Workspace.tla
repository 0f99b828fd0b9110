------------------------------ MODULE Workspace ------------------------------
(***************************************************************************)
(* The configuration of a workspace and the processes that edit it:        *)
(* runtime/workspace.py, the commands of runtime/commands/commands.py, the *)
(* reload of runtime/application.py, agents/planner/agent.py and           *)
(* infrastructure/agent_tooling/manager.py.  Three TOML files and .env are *)
(* shared; each process keeps copies of what it read and a Planner Agent   *)
(* made from those copies.  An edit reads a file, truncates it and writes  *)
(* it back, and other processes may run, or this one die, between any two  *)
(* of these steps.  Each writes through its own handle, at its own offset: *)
(* a text written over a longer one leaves the end of that one behind it.  *)
(* A name a command is given (profile, worker, skill) is any name a user   *)
(* may type.  A profile has an API key variable of its own.                *)
(***************************************************************************)
EXTENDS Sequences, Integers

CONSTANTS
    CLIs,        \* processes running the command line on the workspace
    Providers,   \* profile names a user may type
    Configured,  \* the profiles of the default project.toml
    Google,      \* the profile the default project.toml selects
    Models, Urls, InitialModel, DefaultUrl, Keys,
    Workers, Planner, Skills,
    None,
    Torn,        \* a file that does not parse
    MaxCommands  \* bound: editing commands submitted by all processes

ModelConfig == [provider : Configured, model : Models, base_url : Urls, api_key : Keys]

ASSUME WorkspaceAssumption ==
    /\ Configured \subseteq Providers
    /\ Google \in Configured
    /\ InitialModel \in Models
    /\ DefaultUrl \in Urls
    /\ Planner \in Workers
    /\ None \notin Providers \cup Keys \cup ModelConfig
    /\ MaxCommands \in Nat

VARIABLES
    files,     \* what project.toml, skills.toml and agents.toml read as
    env,       \* .env: the stored key of each profile, None when it has none
    proc,      \* the memory of each process
    commands   \* editing commands submitted so far

vars == <<files, env, proc, commands>>

-----------------------------------------------------------------------------
(* What the files hold. *)

Profile == [model : Models, base_url : Urls]

\* A file that was truncated, or never written, reads as an empty table.
NoTable == [x \in {} |-> x]

Blank == [project |-> [default_provider |-> None, profiles |-> NoTable],
          skills |-> {},
          agents |-> NoTable]

DefaultProject ==
    [default_provider |-> Google,
     profiles |-> [p \in Configured |-> [model |-> InitialModel, base_url |-> DefaultUrl]]]

Tables == UNION {[D -> Profile] : D \in SUBSET Configured}
Projects == [default_provider : Providers \cup {None}, profiles : Tables]
Assignments == UNION {[D -> SUBSET Skills] : D \in SUBSET Workers}

Complete == [default_provider : Configured, profiles : [Configured -> Profile]]

\* validate: the selected profile is one of the profiles.
Known(config) == config.default_provider \in DOMAIN config.profiles

\* resolve_model, once validated: None stands for the missing credential.
Resolved(config, environ) ==
    LET p == config.default_provider
    IN  IF environ[p] = None THEN None
        ELSE [provider |-> p, model |-> config.profiles[p].model,
              base_url |-> config.profiles[p].base_url, api_key |-> environ[p]]

\* The skills agents.toml gives a worker; the defaults give none.
Assigned(agents, worker) == IF worker \in DOMAIN agents THEN agents[worker] ELSE {}

-----------------------------------------------------------------------------
(* The edits of runtime/workspace.py: the file, the check that raises, the *)
(* new content.                                                            *)

ProviderEdits == {"use_provider", "set_provider_model", "set_provider_base_url"}

File(e) ==
    CASE e.op \in ProviderEdits -> "project"
      [] e.op \in {"add_skill", "remove_skill"} -> "skills"
      [] OTHER -> "agents"

\* Seeded fault: use_provider does not look the profile up.
AllowedUse(e, content) ==
    /\ e.op \in ProviderEdits \ {"use_provider"} => e.profile \in DOMAIN content.profiles
    /\ e.op = "add_skill" => e.skill \notin content

Allowed(e, content) ==
    /\ e.op \in ProviderEdits => e.profile \in DOMAIN content.profiles
    /\ e.op = "add_skill" => e.skill \notin content

\* remove_worker_skill returns before it saves when the worker has no table.
Saves(e, content) == e.op = "remove_worker_skill" => e.worker \in DOMAIN content

Edited(e, content) ==
    CASE e.op = "use_provider" -> [content EXCEPT !.default_provider = e.profile]
      [] e.op = "set_provider_model" ->
            [content EXCEPT !.profiles = [@ EXCEPT ![e.profile].model = e.model]]
      [] e.op = "set_provider_base_url" ->
            [content EXCEPT !.profiles = [@ EXCEPT ![e.profile].base_url = e.base_url]]
      [] e.op = "add_skill" -> content \cup {e.skill}
      [] e.op = "remove_skill" -> content \ {e.skill}
      [] e.op = "add_worker_skill" ->
            [w \in DOMAIN content \cup {e.worker} |->
                IF w = e.worker THEN Assigned(content, w) \cup {e.skill} ELSE content[w]]
      [] e.op = "remove_worker_skill" ->
            [content EXCEPT ![e.worker] = @ \ {e.skill}]

\* What the end of a longer text adds to one written over its beginning: the
\* base URL of the last table, or tables of skills or workers, that own lacks.
\* The end of a file that did not parse may be of any text.
Rests(file, own, over) ==
    CASE file = "project" ->
            UNION {{[own EXCEPT !.profiles = [@ EXCEPT ![p].base_url = u]] :
                        u \in IF over = Torn THEN Urls ELSE {over.profiles[p].base_url}} :
                   p \in {q \in DOMAIN own.profiles : own.profiles[q].base_url = DefaultUrl}}
      [] file = "skills" ->
            {own \cup rest : rest \in SUBSET (IF over = Torn THEN Skills ELSE over)}
      [] file = "agents" ->
            {[w \in DOMAIN own \cup DOMAIN rest |-> IF w \in DOMAIN own THEN own[w] ELSE rest[w]] :
                rest \in IF over = Torn THEN Assignments
                         ELSE {[w \in D |-> over[w]] : D \in SUBSET DOMAIN over}}

\* What a file reads as once own is written at its start: an empty file and an
\* equal or shorter text leave own alone.
Overwritten(file, own, over) ==
    IF over \in {Blank[file], own} THEN {own} ELSE {own, Torn} \cup Rests(file, own, over)

-----------------------------------------------------------------------------
(* The memory of a process: the ProjectConfig it loaded, its environment,  *)
(* the model configuration and Agent of the Planner, the tooling of the    *)
(* agent factory, the edits the running command has left, and the file it  *)
(* edited in memory (the others blank) and is about to write.              *)

Off == [phase |-> "off", booted |-> FALSE, config |-> Blank.project,
        environ |-> [p \in Providers |-> None], model |-> None, agent |-> None,
        agents |-> NoTable, skills |-> {}, edits |-> << >>, draft |-> Blank]

Init ==
    /\ files = [Blank EXCEPT !.project = DefaultProject]
    /\ env = [p \in Providers |-> None]
    /\ proc = [c \in CLIs |-> Off]
    /\ commands = 0

\* An exception no caller handles ends the REPL, and the process with it.
Ends(c) == proc' = [proc EXCEPT ![c] = Off]

\* bootstrap_application: keys, project.toml and the model it selects.  A file
\* that does not parse or validate raises, and nothing has started.
Start(c) ==
    /\ proc[c].phase = "off"
    /\ files.project # Torn /\ Known(files.project)
    /\ proc' = [proc EXCEPT ![c] =
            [Off EXCEPT !.phase = "agents", !.config = files.project, !.environ = env,
                        !.model = Resolved(files.project, env)]]
    /\ UNCHANGED <<files, env, commands>>

\* AgentTooling.load reads agents.toml, then skills.toml.  No caller handles
\* the error of a file that does not parse, here and below.
LoadAgents(c) ==
    /\ proc[c].phase = "agents"
    /\ IF files.agents = Torn THEN Ends(c)
       ELSE proc' = [proc EXCEPT ![c].agents = files.agents, ![c].phase = "skills"]
    /\ UNCHANGED <<files, env, commands>>

LoadSkills(c) ==
    /\ proc[c].phase = "skills"
    /\ IF files.skills = Torn THEN Ends(c)
       ELSE proc' = [proc EXCEPT ![c].skills = files.skills,
                        ![c].phase = IF proc[c].booted THEN "refresh" ELSE "planner"]
    /\ UNCHANGED <<files, env, commands>>

\* create_agent: skills_for raises KeyError for a skill skills.toml lacks.
HasSkills(c) == Assigned(proc[c].agents, Planner) \subseteq proc[c].skills

NewAgent(c) == [model |-> proc[c].model, skills |-> Assigned(proc[c].agents, Planner)]

\* Seeded fault: the Agent is made without looking for a model.
CreateAnyway(c) ==
    /\ proc[c].phase = "planner"
    /\ IF HasSkills(c)
       THEN proc' = [proc EXCEPT ![c].phase = "idle", ![c].booted = TRUE,
                                 ![c].agent = NewAgent(c)]
       ELSE Ends(c)
    /\ UNCHANGED <<files, env, commands>>

\* Planner.__init__ makes the Agent at once when it has a model.
CreatePlanner(c) ==
    /\ proc[c].phase = "planner"
    /\ IF proc[c].model = None
       THEN proc' = [proc EXCEPT ![c].phase = "idle", ![c].booted = TRUE]
       ELSE IF HasSkills(c)
       THEN proc' = [proc EXCEPT ![c].phase = "idle", ![c].booted = TRUE,
                                 ![c].agent = NewAgent(c)]
       ELSE Ends(c)
    /\ UNCHANGED <<files, env, commands>>

\* A turn makes the Agent when there is none (_ensure_agent).  Without a model
\* the turn answers with an error; a KeyError of create_agent is not handled.
Turn(c) ==
    /\ proc[c].phase = "idle"
    /\ proc[c].model # None
    /\ proc[c].agent = None
    /\ IF HasSkills(c)
       THEN proc' = [proc EXCEPT ![c].agent = NewAgent(c)]
       ELSE Ends(c)
    /\ UNCHANGED <<files, env, commands>>

-----------------------------------------------------------------------------
(* The commands.  Usage errors and unknown commands reply and change       *)
(* nothing; /reload changes the instructions only.                         *)

Submit(c) ==
    /\ proc[c].phase = "idle"
    /\ commands < MaxCommands
    /\ commands' = commands + 1

Begin(c, edits) ==
    /\ Submit(c)
    /\ proc' = [proc EXCEPT ![c].phase = "load", ![c].edits = edits]
    /\ UNCHANGED <<files, env>>

UseEdit(p) == [op |-> "use_provider", profile |-> p]
ModelEdit(p, m) == [op |-> "set_provider_model", profile |-> p, model |-> m]
UrlEdit(p, u) == [op |-> "set_provider_base_url", profile |-> p, base_url |-> u]

ProviderUse(c) == \E p \in Providers : Begin(c, <<UseEdit(p)>>)

ProviderModel(c) == \E p \in Providers, m \in Models : Begin(c, <<ModelEdit(p, m)>>)

\* set_provider_api_key writes .env and the environment; then the base URL is
\* saved and the profile selected.  An empty answer keeps a configured key.
ProviderConfig(c) ==
    \E p \in DOMAIN proc[c].config.profiles, k \in Keys \cup {None}, u \in Urls :
        LET key == IF k = None THEN proc[c].environ[p] ELSE k
        IN  /\ Submit(c)
            /\ key # None
            /\ env' = IF k = None THEN env ELSE [env EXCEPT ![p] = k]
            /\ proc' = [proc EXCEPT ![c].phase = "load",
                                    ![c].environ = [@ EXCEPT ![p] = key],
                                    ![c].edits = <<UrlEdit(p, u), UseEdit(p)>>]
            /\ UNCHANGED files

SkillEdits(c) ==
    \E s \in Skills :
        \/ Begin(c, <<[op |-> "add_skill", skill |-> s]>>)
        \/ Begin(c, <<[op |-> "remove_skill", skill |-> s]>>)

WorkerEdits(c) ==
    \E w \in Workers, s \in Skills :
        \/ Begin(c, <<[op |-> "add_worker_skill", worker |-> w, skill |-> s]>>)
        \/ Begin(c, <<[op |-> "remove_worker_skill", worker |-> w, skill |-> s]>>)

-----------------------------------------------------------------------------
(* One edit: _load_toml and the check; open("w"); toml.dump; and, for      *)
(* project.toml, ProjectConfig.load.                                       *)

Load(c) ==
    LET e == Head(proc[c].edits)
        content == files[File(e)]
    IN  /\ proc[c].phase = "load"
        /\ IF content = Torn THEN Ends(c)
           ELSE \/ /\ ~Allowed(e, content)
                   /\ Ends(c)
                \/ /\ Allowed(e, content)
                   /\ Saves(e, content)
                   /\ proc' = [proc EXCEPT ![c].phase = "truncate",
                                   ![c].draft = [Blank EXCEPT ![File(e)] = Edited(e, content)]]
                \/ /\ Allowed(e, content)
                   /\ ~Saves(e, content)
                   /\ proc' = [proc EXCEPT ![c].phase = "agents", ![c].edits = << >>]
        /\ UNCHANGED <<files, env, commands>>

Truncate(c) ==
    LET file == File(Head(proc[c].edits))
    IN  /\ proc[c].phase = "truncate"
        /\ files' = [files EXCEPT ![file] = Blank[file]]
        /\ proc' = [proc EXCEPT ![c].phase = "dump"]
        /\ UNCHANGED <<env, commands>>

\* The text goes to the start of the file, over what others have written since
\* it was truncated.  A skill command goes on to reload the tooling.
Dump(c) ==
    LET file == File(Head(proc[c].edits))
    IN  /\ proc[c].phase = "dump"
        /\ \E text \in Overwritten(file, proc[c].draft[file], files[file]) :
               files' = [files EXCEPT ![file] = text]
        /\ proc' = [proc EXCEPT ![c].draft = Blank, ![c].edits = Tail(@),
                        ![c].phase = IF file = "project" THEN "reread" ELSE "agents"]
        /\ UNCHANGED <<env, commands>>

Reread(c) ==
    /\ proc[c].phase = "reread"
    /\ IF files.project = Torn THEN Ends(c)
       ELSE proc' = [proc EXCEPT ![c].config = files.project,
                        ![c].phase = IF proc[c].edits = << >> THEN "refresh" ELSE "load"]
    /\ UNCHANGED <<files, env, commands>>

\* Seeded fault: the Agent is remade only when there is a new model.
RefreshModel(c) ==
    LET found == Resolved(proc[c].config, proc[c].environ)
    IN  /\ proc[c].phase = "refresh"
        /\ \/ /\ ~Known(proc[c].config)
              /\ Ends(c)
           \/ /\ Known(proc[c].config)
              /\ proc' = [proc EXCEPT ![c].phase = "idle",
                              ![c].agent = IF found \in {None, proc[c].model} THEN @ ELSE None,
                              ![c].model = IF found = None THEN @ ELSE found]
        /\ UNCHANGED <<files, env, commands>>

\* Seeded fault: a selected profile that is not there goes unnoticed.
RefreshBlindly(c) ==
    LET found == Resolved(proc[c].config, proc[c].environ)
    IN  /\ proc[c].phase = "refresh"
        /\ proc' = [proc EXCEPT ![c].phase = "idle", ![c].agent = None,
                        ![c].model = IF Known(proc[c].config) THEN found ELSE @]
        /\ UNCHANGED <<files, env, commands>>

\* Application._reload_runtime and Planner.reload.  A missing key leaves the
\* Planner the model it had.
Refresh(c) ==
    LET found == Resolved(proc[c].config, proc[c].environ)
    IN  /\ proc[c].phase = "refresh"
        /\ \/ /\ ~Known(proc[c].config)
              /\ Ends(c)
           \/ /\ Known(proc[c].config)
              /\ proc' = [proc EXCEPT ![c].phase = "idle", ![c].agent = None,
                              ![c].model = IF found = None THEN @ ELSE found]
        /\ UNCHANGED <<files, env, commands>>

\* The user leaves, or the process is killed, at any point.
Exit(c) ==
    /\ proc[c].phase # "off"
    /\ Ends(c)
    /\ UNCHANGED <<files, env, commands>>

-----------------------------------------------------------------------------

Step(c) ==
    \/ Start(c) \/ LoadAgents(c) \/ LoadSkills(c) \/ CreatePlanner(c) \/ Turn(c)
    \/ ProviderUse(c) \/ ProviderModel(c) \/ ProviderConfig(c)
    \/ SkillEdits(c) \/ WorkerEdits(c)
    \/ Load(c) \/ Truncate(c) \/ Dump(c) \/ Reread(c) \/ Refresh(c) \/ Exit(c)

Next == \E c \in CLIs : Step(c)

Spec == Init /\ [][Next]_vars

-----------------------------------------------------------------------------

Contents == [project : Projects, skills : SUBSET Skills, agents : Assignments]
Files == [project : {Torn} \cup Projects, skills : {Torn} \cup SUBSET Skills,
          agents : {Torn} \cup Assignments]

\* A text that does not parse is none of those that do.
ASSUME TornAssumption ==
    /\ \A config \in Projects : config # Torn
    /\ \A skills \in SUBSET Skills : skills # Torn
    /\ \A agents \in Assignments : agents # Torn

Environments == [Providers -> Keys \cup {None}]
Edits ==
    [op : {"use_provider"}, profile : Providers]
    \cup [op : {"set_provider_model"}, profile : Providers, model : Models]
    \cup [op : {"set_provider_base_url"}, profile : Providers, base_url : Urls]
    \cup [op : {"add_skill", "remove_skill"}, skill : Skills]
    \cup [op : {"add_worker_skill", "remove_worker_skill"}, worker : Workers, skill : Skills]
Agents == [model : ModelConfig, skills : SUBSET Skills]
Phases == {"off", "agents", "skills", "planner", "idle", "load", "truncate", "dump",
           "reread", "refresh"}
Process ==
    [phase : Phases, booted : BOOLEAN, config : Projects, environ : Environments,
     model : ModelConfig \cup {None}, agent : Agents \cup {None},
     agents : Assignments, skills : SUBSET Skills, edits : Seq(Edits), draft : Contents]

\* The files, the keys and the memory of the processes have their types.
TypeOK ==
    /\ files \in Files
    /\ env \in Environments
    /\ proc \in [CLIs -> Process]
    /\ commands \in 0..MaxCommands

(* Whatever the processes do between reading and writing project.toml, and *)
(* wherever they die, the file is a whole configuration whose selected     *)
(* profile exists, or blank, as an interrupted write leaves it, or does    *)
(* not parse, as two writes at once may leave it: a process that read a    *)
(* blank file never writes back what is left of it, and no configuration   *)
(* that does parse lacks a profile.                                        *)
ProfilesSurvive == files.project \in Complete \cup {Blank.project, Torn}

(* A process waiting for its next message holds a whole configuration, and *)
(* when the profile it selects has a key, the Planner's model is the one   *)
(* that configuration and key give (_reload_runtime after every edit).     *)
ModelFollowsConfig ==
    \A c \in CLIs : proc[c].phase = "idle" =>
        LET config == proc[c].config
        IN  /\ config \in Complete
            /\ proc[c].environ[config.default_provider] # None =>
                   proc[c].model = Resolved(config, proc[c].environ)

(* The Agent that answers a turn was made from the Planner's present model *)
(* and from the skills the agent factory now holds for it: no edit leaves  *)
(* an Agent of before it in use (recreate_agent, reload_tooling).          *)
AgentIsCurrent ==
    \A c \in CLIs : proc[c].phase = "idle" /\ proc[c].agent # None =>
        /\ proc[c].agent = NewAgent(c)
        /\ HasSkills(c)
=============================================================================
