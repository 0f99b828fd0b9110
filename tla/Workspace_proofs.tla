-------------------------- MODULE Workspace_proofs --------------------------
(***************************************************************************)
(* Proofs about Workspace, for any processes, profiles, skills and number  *)
(* of commands.                                                            *)
(*                                                                         *)
(* The argument: an edit of project.toml applied to a whole configuration  *)
(* gives a whole configuration, and on a blank one it is refused; so what  *)
(* is in the file, in a process or about to be written is whole or blank,  *)
(* and a text written over another keeps its profiles and its selection.   *)
(* Only a process that writes while another has the file open can leave a  *)
(* file that does not parse.                                               *)
(* Until its Planner is made a process keeps the model of the              *)
(* configuration it read, and every edit ends in a refresh that drops the  *)
(* Agent and resolves the model again, or in the end of the process.       *)
(***************************************************************************)
EXTENDS Workspace, TLAPS

Sound == Complete \cup {Blank.project}

\* The process holds a whole configuration and the model it selects.
Follows(r) ==
    /\ r.config \in Complete
    /\ r.environ[r.config.default_provider] # None =>
           r.model = Resolved(r.config, r.environ)

AgentFits(r) ==
    r.agent # None =>
        /\ r.agent = [model |-> r.model, skills |-> Assigned(r.agents, Planner)]
        /\ Assigned(r.agents, Planner) \subseteq r.skills

Steady(r) ==
    /\ r.config \in Sound
    /\ r.draft.project \in Sound
    /\ r.phase \in {"load", "truncate", "dump"} => r.edits # << >>
    /\ r.phase \notin {"off", "agents", "skills", "planner"} => r.booted
    /\ r.phase = "planner" => ~r.booted
    /\ r.phase \in {"agents", "skills", "planner"} /\ ~r.booted =>
           Follows(r) /\ r.agent = None
    /\ r.phase = "idle" => Follows(r) /\ AgentFits(r)

IInv ==
    /\ TypeOK
    /\ files.project \in Sound \cup {Torn}
    /\ \A c \in CLIs : Steady(proc[c])

-----------------------------------------------------------------------------

LEMMA BlankTyped ==
    /\ Blank \in Contents
    /\ Blank.project \in Projects
    /\ ~Known(Blank.project)
    /\ DOMAIN Blank.project.profiles = {}
<1>1. NoTable \in Tables
  <2>1. NoTable \in [{} -> Profile]
    BY DEF NoTable
  <2>2. QED
    BY <2>1 DEF Tables
<1>2. NoTable \in Assignments
  <2>1. NoTable \in [{} -> SUBSET Skills]
    BY DEF NoTable
  <2>2. QED
    BY <2>1 DEF Assignments
<1>3. DOMAIN NoTable = {}
  BY DEF NoTable
<1>4. QED
  BY <1>1, <1>2, <1>3 DEF Blank, Contents, Projects, Known

LEMMA SoundTyped ==
    /\ Sound \subseteq Projects
    /\ \A p \in Complete :
        p.default_provider \in Configured /\ DOMAIN p.profiles = Configured /\ Known(p)
    /\ \A p \in Sound : Known(p) => p \in Complete
    /\ DefaultProject \in Complete
<1>1. Complete \subseteq Projects
  <2>1. SUFFICES ASSUME NEW p \in Complete PROVE p \in Projects
    OBVIOUS
  <2>2. p.profiles \in Tables
    BY DEF Complete, Tables
  <2>3. QED
    BY <2>1, <2>2, WorkspaceAssumption DEF Complete, Projects
<1>2. \A p \in Complete :
        p.default_provider \in Configured /\ DOMAIN p.profiles = Configured /\ Known(p)
  BY DEF Complete, Known
<1>3. DefaultProject \in Complete
  BY WorkspaceAssumption DEF DefaultProject, Complete, Profile
<1>4. QED
  BY <1>1, <1>2, <1>3, BlankTyped DEF Sound

LEMMA ResolvedTyped ==
    ASSUME NEW config \in Complete, NEW environ \in Environments
    PROVE  /\ Resolved(config, environ) \in ModelConfig \cup {None}
           /\ environ[config.default_provider] # None => Resolved(config, environ) # None
<1> DEFINE p == config.default_provider
<1>1. p \in Configured /\ p \in Providers /\ config.profiles[p] \in Profile
  BY WorkspaceAssumption DEF Complete
<1>2. CASE environ[p] = None
  BY <1>2 DEF Resolved
<1>3. CASE environ[p] # None
  <2>1. environ[p] \in Keys
    BY <1>1, <1>3 DEF Environments
  <2>2. Resolved(config, environ) \in ModelConfig
    BY <1>1, <1>3, <2>1 DEF Resolved, ModelConfig, Profile
  <2>3. QED
    BY <2>2, WorkspaceAssumption
<1>4. QED
  BY <1>2, <1>3

LEMMA AssignedTyped ==
    ASSUME NEW a \in Assignments, NEW w \in Workers
    PROVE  Assigned(a, w) \subseteq Skills
BY DEF Assigned, Assignments

\* An edit that is allowed keeps the type of the file; one of project.toml
\* finds a whole configuration and leaves one.
LEMMA EditTyped ==
    ASSUME NEW e \in Edits, NEW f \in Files, f.project \in Sound \cup {Torn},
           f[File(e)] # Torn, Allowed(e, f[File(e)]), Saves(e, f[File(e)])
    PROVE  LET d == [Blank EXCEPT ![File(e)] = Edited(e, f[File(e)])]
           IN  d \in Contents /\ d.project \in Sound
<1> DEFINE new == Edited(e, f[File(e)])
<1>1. CASE e.op \in ProviderEdits
  <2>1. File(e) = "project"
    BY <1>1 DEF File, ProviderEdits
  <2>2. f.project \in Complete /\ e.profile \in Configured
    BY <1>1, <2>1, BlankTyped, SoundTyped DEF Allowed, Sound, Files
  <2>3. new \in Complete
    <3>1. CASE e.op = "use_provider"
      BY <2>1, <2>2, <3>1 DEF Edited, Complete
    <3>2. CASE e.op = "set_provider_model"
      <4>1. e.model \in Models
        BY <3>2 DEF Edits
      <4>2. QED
        BY <2>1, <2>2, <3>2, <4>1 DEF Edited, Complete, Profile
    <3>3. CASE e.op = "set_provider_base_url"
      <4>1. e.base_url \in Urls
        BY <3>3 DEF Edits
      <4>2. QED
        BY <2>1, <2>2, <3>3, <4>1 DEF Edited, Complete, Profile
    <3>4. QED
      BY <1>1, <3>1, <3>2, <3>3 DEF ProviderEdits
  <2>4. QED
    BY <2>1, <2>3, BlankTyped, SoundTyped DEF Contents, Sound
<1>2. CASE e.op \in {"add_skill", "remove_skill"}
  <2>1. File(e) = "skills" /\ e.skill \in Skills
    BY <1>2 DEF File, ProviderEdits, Edits
  <2>2. new \subseteq Skills
    BY <1>2, <2>1 DEF Edited, Files
  <2>3. QED
    BY <2>1, <2>2, BlankTyped DEF Contents, Sound
<1>3. CASE e.op \in {"add_worker_skill", "remove_worker_skill"}
  <2>1. File(e) = "agents" /\ e.worker \in Workers /\ e.skill \in Skills
    BY <1>3 DEF File, ProviderEdits, Edits
  <2>2. PICK D \in SUBSET Workers : f.agents \in [D -> SUBSET Skills]
    BY <2>1 DEF Files, Assignments
  <2>3. new \in Assignments
    <3>1. CASE e.op = "add_worker_skill"
      <4>1. new \in [D \cup {e.worker} -> SUBSET Skills]
        BY <2>1, <2>2, <3>1 DEF Edited, Assigned
      <4>2. QED
        BY <2>1, <4>1 DEF Assignments
    <3>2. CASE e.op = "remove_worker_skill"
      <4>1. new \in [D -> SUBSET Skills]
        BY <2>1, <2>2, <3>2 DEF Edited, Saves
      <4>2. QED
        BY <4>1 DEF Assignments
    <3>3. QED
      BY <1>3, <3>1, <3>2
  <2>4. QED
    BY <2>1, <2>3, BlankTyped DEF Contents, Sound
<1>4. QED
  BY <1>1, <1>2, <1>3 DEF Edits, ProviderEdits

\* Only the process that steps changes; it is enough to look at its new memory.
LEMMA LocalStep ==
    ASSUME IInv, NEW c \in CLIs, NEW r \in Process, Steady(r),
           proc' = [proc EXCEPT ![c] = r],
           files' \in Files, files'.project \in Sound \cup {Torn},
           env' \in Environments, commands' \in 0..MaxCommands
    PROVE  IInv'
BY DEF IInv, TypeOK

\* The same for a step that touches only memory.
LEMMA MemoryStep ==
    ASSUME IInv, NEW c \in CLIs, NEW r \in Process, Steady(r),
           proc' = [proc EXCEPT ![c] = r], UNCHANGED <<files, env, commands>>
    PROVE  IInv'
BY LocalStep DEF IInv, TypeOK

LEMMA OffSteady == Off \in Process /\ Steady(Off)
<1>1. Off \in Process
  BY BlankTyped, SoundTyped
     DEF Off, Process, Phases, Environments, Blank, Contents
<1>2. Steady(Off)
  BY DEF Off, Steady, Sound
<1>3. QED
  BY <1>1, <1>2

-----------------------------------------------------------------------------

LEMMA InitIInv == Init => IInv
BY OffSteady, BlankTyped, SoundTyped, WorkspaceAssumption
   DEF Init, IInv, TypeOK, Sound, Contents, Files, Environments

LEMMA EndsIInv ==
    ASSUME IInv, NEW c \in CLIs, Ends(c), UNCHANGED <<files, env, commands>>
    PROVE  IInv'
BY OffSteady, LocalStep DEF Ends, IInv, TypeOK

LEMMA StartIInv == ASSUME IInv, NEW c \in CLIs, Start(c) PROVE IInv'
<1> DEFINE r == [Off EXCEPT !.phase = "agents", !.config = files.project, !.environ = env,
                            !.model = Resolved(files.project, env)]
<1>1. files.project \in Complete /\ files.project \in Projects /\ env \in Environments
  BY SoundTyped DEF Start, IInv, TypeOK
<1>2. Resolved(files.project, env) \in ModelConfig \cup {None}
  BY <1>1, ResolvedTyped
<1>3. r \in Process /\ Steady(r)
  BY <1>1, <1>2, OffSteady DEF Off, Process, Phases, Steady, Follows, Sound
<1>4. proc' = [proc EXCEPT ![c] = r] /\ UNCHANGED <<files, env, commands>>
  BY DEF Start
<1>5. QED
  BY <1>3, <1>4, MemoryStep

LEMMA LoadAgentsIInv == ASSUME IInv, NEW c \in CLIs, LoadAgents(c) PROVE IInv'
<1> DEFINE r == [proc[c] EXCEPT !.agents = files.agents, !.phase = "skills"]
<1>1. CASE files.agents = Torn
  BY <1>1, EndsIInv DEF LoadAgents
<1>2. CASE files.agents # Torn
  <2>1. proc[c] \in Process /\ Steady(proc[c]) /\ files.agents \in Assignments
    BY <1>2 DEF IInv, TypeOK, Files
  <2>2. r \in Process /\ Steady(r)
    BY <2>1 DEF LoadAgents, Process, Phases, Steady, Follows
  <2>3. proc' = [proc EXCEPT ![c] = r] /\ UNCHANGED <<files, env, commands>>
    BY <1>2 DEF LoadAgents
  <2> HIDE DEF r
  <2>4. QED
    BY <2>2, <2>3, MemoryStep
<1>3. QED
  BY <1>1, <1>2

LEMMA LoadSkillsIInv == ASSUME IInv, NEW c \in CLIs, LoadSkills(c) PROVE IInv'
<1> DEFINE r == [proc[c] EXCEPT !.skills = files.skills,
                    !.phase = IF proc[c].booted THEN "refresh" ELSE "planner"]
<1>1. CASE files.skills = Torn
  BY <1>1, EndsIInv DEF LoadSkills
<1>2. CASE files.skills # Torn
  <2>1. proc[c] \in Process /\ Steady(proc[c]) /\ files.skills \subseteq Skills
    BY <1>2 DEF IInv, TypeOK, Files
  <2>2. r \in Process /\ Steady(r)
    BY <2>1 DEF LoadSkills, Process, Phases, Steady, Follows
  <2>3. proc' = [proc EXCEPT ![c] = r] /\ UNCHANGED <<files, env, commands>>
    BY <1>2 DEF LoadSkills
  <2> HIDE DEF r
  <2>4. QED
    BY <2>2, <2>3, MemoryStep
<1>3. QED
  BY <1>1, <1>2

\* A new Agent fits the model and skills it was made from.
LEMMA NewAgentTyped ==
    ASSUME NEW c \in CLIs, proc[c] \in Process, proc[c].model # None
    PROVE  NewAgent(c) \in Agents
BY AssignedTyped, WorkspaceAssumption DEF NewAgent, Agents, Process

LEMMA CreatePlannerIInv == ASSUME IInv, NEW c \in CLIs, CreatePlanner(c) PROVE IInv'
<1>1. proc[c] \in Process /\ Steady(proc[c])
  BY DEF IInv, TypeOK
<1>2. CASE proc[c].model = None
  <2> DEFINE r == [proc[c] EXCEPT !.phase = "idle", !.booted = TRUE]
  <2>1. r \in Process /\ Steady(r)
    BY <1>1 DEF CreatePlanner, Process, Phases, Steady, Follows, AgentFits
  <2>2. proc' = [proc EXCEPT ![c] = r] /\ UNCHANGED <<files, env, commands>>
    BY <1>2 DEF CreatePlanner
  <2> HIDE DEF r
  <2>3. QED
    BY <2>1, <2>2, MemoryStep
<1>3. CASE proc[c].model # None /\ HasSkills(c)
  <2> DEFINE r == [proc[c] EXCEPT !.phase = "idle", !.booted = TRUE, !.agent = NewAgent(c)]
  <2>1. r \in Process /\ Steady(r)
    BY <1>1, <1>3, NewAgentTyped
       DEF CreatePlanner, HasSkills, NewAgent, Process, Phases, Steady, Follows, AgentFits
  <2>2. proc' = [proc EXCEPT ![c] = r] /\ UNCHANGED <<files, env, commands>>
    BY <1>3 DEF CreatePlanner
  <2> HIDE DEF r
  <2>3. QED
    BY <2>1, <2>2, MemoryStep
<1>4. CASE proc[c].model # None /\ ~HasSkills(c)
  BY <1>4, EndsIInv DEF CreatePlanner
<1>5. QED
  BY <1>2, <1>3, <1>4

LEMMA TurnIInv == ASSUME IInv, NEW c \in CLIs, Turn(c) PROVE IInv'
<1>1. proc[c] \in Process /\ Steady(proc[c])
  BY DEF IInv, TypeOK
<1>2. CASE HasSkills(c)
  <2> DEFINE r == [proc[c] EXCEPT !.agent = NewAgent(c)]
  <2>1. r \in Process /\ Steady(r)
    BY <1>1, <1>2, NewAgentTyped
       DEF Turn, HasSkills, NewAgent, Process, Phases, Steady, Follows, AgentFits
  <2>2. proc' = [proc EXCEPT ![c] = r] /\ UNCHANGED <<files, env, commands>>
    BY <1>2 DEF Turn
  <2> HIDE DEF r
  <2>3. QED
    BY <2>1, <2>2, MemoryStep
<1>3. CASE ~HasSkills(c)
  BY <1>3, EndsIInv DEF Turn
<1>4. QED
  BY <1>2, <1>3

\* A command that starts has an edit to make.
LEMMA BeginIInv ==
    ASSUME IInv, NEW c \in CLIs, NEW edits \in Seq(Edits), edits # << >>,
           Begin(c, edits)
    PROVE  IInv'
<1> DEFINE r == [proc[c] EXCEPT !.phase = "load", !.edits = edits]
<1>1. proc[c] \in Process /\ Steady(proc[c])
  BY DEF IInv, TypeOK
<1>2. r \in Process /\ Steady(r)
  BY <1>1 DEF Begin, Submit, Process, Phases, Steady
<1>3. commands' \in 0..MaxCommands
  BY WorkspaceAssumption DEF Begin, Submit, IInv, TypeOK
<1>4. QED
  BY <1>2, <1>3, LocalStep DEF Begin, IInv, TypeOK

LEMMA ProviderConfigIInv == ASSUME IInv, NEW c \in CLIs, ProviderConfig(c) PROVE IInv'
<1>1. proc[c] \in Process /\ Steady(proc[c])
  BY DEF IInv, TypeOK
<1> DEFINE key(p, k) == IF k = None THEN proc[c].environ[p] ELSE k
<1>2. PICK p \in DOMAIN proc[c].config.profiles, k \in Keys \cup {None}, u \in Urls :
        /\ Submit(c)
        /\ key(p, k) # None
        /\ env' = IF k = None THEN env ELSE [env EXCEPT ![p] = k]
        /\ proc' = [proc EXCEPT ![c].phase = "load",
                                ![c].environ = [@ EXCEPT ![p] = key(p, k)],
                                ![c].edits = <<UrlEdit(p, u), UseEdit(p)>>]
        /\ UNCHANGED files
  BY DEF ProviderConfig
<1>3. p \in Providers
  BY <1>1, BlankTyped, SoundTyped, WorkspaceAssumption DEF Steady, Sound
<1>4. key(p, k) \in Keys \cup {None}
  BY <1>1, <1>3 DEF Process, Environments
<1> DEFINE es == <<UrlEdit(p, u), UseEdit(p)>>
           r == [proc[c] EXCEPT !.phase = "load", !.environ = [@ EXCEPT ![p] = key(p, k)],
                                !.edits = es]
<1>5. es \in Seq(Edits) /\ es # << >>
  BY <1>3 DEF UrlEdit, UseEdit, Edits
<1>6. [proc[c].environ EXCEPT ![p] = key(p, k)] \in Environments
  BY <1>1, <1>4 DEF Process, Environments
<1> HIDE DEF key, es
<1>7. r \in Process /\ Steady(r)
  BY <1>1, <1>2, <1>5, <1>6 DEF Submit, Process, Phases, Steady
<1>8. commands' \in 0..MaxCommands /\ env' \in Environments
  <2>1. commands' \in 0..MaxCommands
    BY <1>2, WorkspaceAssumption DEF Submit, IInv, TypeOK
  <2>2. env \in Environments
    BY DEF IInv, TypeOK
  <2>3. env' \in Environments
    BY <1>2, <1>3, <2>2 DEF Environments
  <2>4. QED
    BY <2>1, <2>3
<1>9. proc' = [proc EXCEPT ![c] = r]
  BY <1>2 DEF es
<1>10. QED
  BY <1>2, <1>7, <1>8, <1>9, LocalStep DEF IInv, TypeOK

LEMMA EditsIInv ==
    ASSUME IInv, NEW c \in CLIs,
           ProviderUse(c) \/ ProviderModel(c) \/ SkillEdits(c) \/ WorkerEdits(c)
    PROVE  IInv'
<1>1. PICK e \in Edits : Begin(c, <<e>>)
  BY DEF ProviderUse, ProviderModel, SkillEdits, WorkerEdits, UseEdit, ModelEdit, Edits
<1>2. <<e>> \in Seq(Edits) /\ <<e>> # << >>
  OBVIOUS
<1>3. QED
  BY <1>1, <1>2, BeginIInv

-----------------------------------------------------------------------------

LEMMA LoadIInv == ASSUME IInv, NEW c \in CLIs, Load(c) PROVE IInv'
<1> DEFINE e == Head(proc[c].edits)
           content == files[File(e)]
           d == [Blank EXCEPT ![File(e)] = Edited(e, content)]
<1>1. proc[c] \in Process /\ Steady(proc[c]) /\ files \in Files
      /\ files.project \in Sound \cup {Torn}
  BY DEF IInv, TypeOK
<1>2. e \in Edits
  BY <1>1 DEF Load, Steady, Process
<1>3. CASE (content = Torn \/ ~Allowed(e, content)) /\ Ends(c)
  BY <1>3, EndsIInv DEF Load
<1>4. CASE content # Torn /\ Allowed(e, content) /\ Saves(e, content)
           /\ proc' = [proc EXCEPT ![c].phase = "truncate", ![c].draft = d]
  <2> DEFINE r == [proc[c] EXCEPT !.phase = "truncate", !.draft = d]
  <2>1. d \in Contents /\ d.project \in Sound
    BY <1>1, <1>2, <1>4, EditTyped
  <2> HIDE DEF d
  <2>2. r \in Process /\ Steady(r)
    BY <1>1, <2>1 DEF Load, Process, Phases, Steady
  <2>3. proc' = [proc EXCEPT ![c] = r] /\ UNCHANGED <<files, env, commands>>
    BY <1>4 DEF Load
  <2> HIDE DEF r
  <2>4. QED
    BY <2>2, <2>3, MemoryStep
<1>5. CASE proc' = [proc EXCEPT ![c].phase = "agents", ![c].edits = << >>]
  <2> DEFINE r == [proc[c] EXCEPT !.phase = "agents", !.edits = << >>]
  <2>1. proc[c].phase = "load" /\ << >> \in Seq(Edits)
    BY DEF Load
  <2>2. r \in Process /\ Steady(r)
    BY <1>1, <2>1 DEF Process, Phases, Steady
  <2>3. proc' = [proc EXCEPT ![c] = r] /\ UNCHANGED <<files, env, commands>>
    BY <1>5 DEF Load
  <2> HIDE DEF r
  <2>4. QED
    BY <2>2, <2>3, MemoryStep
<1>6. QED
  BY <1>3, <1>4, <1>5 DEF Load

LEMMA FileNames == \A e \in Edits : File(e) \in {"project", "skills", "agents"}
BY DEF File

LEMMA TruncateIInv == ASSUME IInv, NEW c \in CLIs, Truncate(c) PROVE IInv'
<1> DEFINE file == File(Head(proc[c].edits))
           r == [proc[c] EXCEPT !.phase = "dump"]
<1>1. proc[c] \in Process /\ Steady(proc[c])
  BY DEF IInv, TypeOK
<1>2. file \in {"project", "skills", "agents"}
  BY <1>1, FileNames DEF Truncate, Steady, Process
<1>3. files' \in Files /\ files'.project \in Sound \cup {Torn}
  BY <1>2, BlankTyped DEF Truncate, IInv, TypeOK, Contents, Files, Sound
<1>4. r \in Process /\ Steady(r)
  BY <1>1 DEF Truncate, Process, Phases, Steady
<1>5. QED
  BY <1>3, <1>4, LocalStep DEF Truncate, IInv, TypeOK

\* A text keeps its type, and a configuration its profiles and its selection,
\* whatever the end of a longer one adds to it.
LEMMA RestsTyped ==
    ASSUME NEW own \in Contents, own.project \in Sound, NEW f \in Files,
           f.project \in Sound \cup {Torn},
           NEW file \in {"project", "skills", "agents"}, f[file] # Blank[file],
           NEW text \in Rests(file, own[file], f[file])
    PROVE  IF file = "project" THEN text \in Sound
           ELSE \/ file = "skills" /\ text \in SUBSET Skills
                \/ file = "agents" /\ text \in Assignments
<1>1. CASE file = "project"
  <2> DEFINE new(p, u) == [own.project EXCEPT !.profiles = [@ EXCEPT ![p].base_url = u]]
             urls(p) == IF f.project = Torn THEN Urls ELSE {f.project.profiles[p].base_url}
  <2>0. PICK p \in DOMAIN own.project.profiles : \E v \in urls(p) : text = new(p, v)
    BY <1>1 DEF Rests
  <2>1. PICK u \in urls(p) : text = new(p, u)
    BY <2>0
  <2>2. own.project \in Complete /\ p \in Configured
    BY <2>0, BlankTyped, SoundTyped DEF Sound
  <2>3. u \in Urls
    <3>1. CASE f.project # Torn
      <4>1. f.project \in Complete
        BY <1>1, <3>1 DEF Sound
      <4>2. QED
        BY <2>1, <2>2, <3>1, <4>1 DEF Complete, Profile
    <3>2. QED
      BY <2>1, <3>1
  <2>4. text \in Complete
    BY <2>1, <2>2, <2>3 DEF Complete, Profile
  <2>5. QED
    BY <1>1, <2>4 DEF Sound
<1>2. CASE file = "skills"
  BY <1>2 DEF Rests, Contents, Files
<1>3. CASE file = "agents"
  <2>1. PICK rest \in IF f.agents = Torn THEN Assignments
                      ELSE {[w \in D |-> f.agents[w]] : D \in SUBSET DOMAIN f.agents} :
          text = [w \in DOMAIN own.agents \cup DOMAIN rest |->
                     IF w \in DOMAIN own.agents THEN own.agents[w] ELSE rest[w]]
    BY <1>3 DEF Rests
  <2>2. PICK D1 \in SUBSET Workers : own.agents \in [D1 -> SUBSET Skills]
    BY DEF Contents, Assignments
  <2>3. PICK D2 \in SUBSET Workers : rest \in [D2 -> SUBSET Skills]
    <3>1. CASE f.agents = Torn
      BY <2>1, <3>1 DEF Assignments
    <3>2. CASE f.agents # Torn
      <4>1. PICK D \in SUBSET DOMAIN f.agents : rest = [w \in D |-> f.agents[w]]
        BY <2>1, <3>2
      <4>2. PICK D3 \in SUBSET Workers : f.agents \in [D3 -> SUBSET Skills]
        BY <3>2 DEF Files, Assignments
      <4>3. rest \in [D -> SUBSET Skills] /\ D \subseteq Workers
        BY <4>1, <4>2
      <4>4. QED
        BY <4>3
    <3>3. QED
      BY <3>1, <3>2
  <2>4. text \in [D1 \cup D2 -> SUBSET Skills]
    BY <2>1, <2>2, <2>3
  <2>5. D1 \cup D2 \in SUBSET Workers
    OBVIOUS
  <2>6. text \in Assignments
    BY <2>4, <2>5 DEF Assignments
  <2>7. QED
    BY <1>3, <2>6
<1>4. QED
  BY <1>1, <1>2, <1>3

LEMMA DumpIInv == ASSUME IInv, NEW c \in CLIs, Dump(c) PROVE IInv'
<1> DEFINE file == File(Head(proc[c].edits))
           r == [proc[c] EXCEPT !.draft = Blank, !.edits = Tail(@),
                    !.phase = IF file = "project" THEN "reread" ELSE "agents"]
<1>1. proc[c] \in Process /\ Steady(proc[c])
  BY DEF IInv, TypeOK
<1>2. file \in {"project", "skills", "agents"}
  BY <1>1, FileNames DEF Dump, Steady, Process
<1>3. files' \in Files /\ files'.project \in Sound \cup {Torn}
  <2> DEFINE own == proc[c].draft
  <2>1. PICK text \in Overwritten(file, own[file], files[file]) :
            files' = [files EXCEPT ![file] = text]
    BY DEF Dump
  <2>2. own \in Contents /\ own.project \in Sound
    BY <1>1 DEF Process, Steady
  <2>3. files \in Files /\ files.project \in Sound \cup {Torn}
    BY DEF IInv, TypeOK
  <2> HIDE DEF file, own
  <2> DEFINE Kept == \/ text \in {own[file], Torn}
                     \/ file = "project" /\ text \in Sound
                     \/ file = "skills" /\ text \in SUBSET Skills
                     \/ file = "agents" /\ text \in Assignments
  <2>4. Kept
    <3>1. CASE files[file] \in {Blank[file], own[file]}
      BY <2>1, <3>1 DEF Overwritten
    <3>2. CASE text \in {own[file], Torn}
      BY <3>2
    <3>3. CASE files[file] # Blank[file] /\ text \in Rests(file, own[file], files[file])
      BY <1>2, <2>2, <2>3, <3>3, RestsTyped
    <3>4. QED
      BY <2>1, <3>1, <3>2, <3>3 DEF Overwritten
  <2>5. files' \in Files /\ files'.project \in Sound \cup {Torn}
    <3>1. CASE file = "project"
      BY <2>1, <2>2, <2>3, <2>4, <3>1, SoundTyped DEF Files
    <3>2. CASE file = "skills"
      BY <2>1, <2>2, <2>3, <2>4, <3>2 DEF Contents, Files
    <3>3. CASE file = "agents"
      BY <2>1, <2>2, <2>3, <2>4, <3>3 DEF Contents, Files
    <3>4. QED
      BY <1>2, <3>1, <3>2, <3>3
  <2>6. QED
    BY <2>5 DEF file
<1>4. Tail(proc[c].edits) \in Seq(Edits)
  BY <1>1 DEF Dump, Steady, Process
<1> HIDE DEF file
<1>5. r \in Process /\ Steady(r)
  BY <1>1, <1>4, BlankTyped DEF Dump, Process, Phases, Steady, Sound
<1>6. proc' = [proc EXCEPT ![c] = r]
  BY DEF Dump, file
<1>7. QED
  BY <1>3, <1>5, <1>6, LocalStep DEF Dump, IInv, TypeOK

LEMMA RereadIInv == ASSUME IInv, NEW c \in CLIs, Reread(c) PROVE IInv'
<1> DEFINE r == [proc[c] EXCEPT !.config = files.project,
                    !.phase = IF proc[c].edits = << >> THEN "refresh" ELSE "load"]
<1>1. CASE files.project = Torn
  BY <1>1, EndsIInv DEF Reread
<1>2. CASE files.project # Torn
  <2>1. proc[c] \in Process /\ Steady(proc[c]) /\ files.project \in Projects
        /\ files.project \in Sound
    BY <1>2, SoundTyped DEF IInv, TypeOK
  <2>2. r \in Process /\ Steady(r)
    BY <2>1 DEF Reread, Process, Phases, Steady
  <2>3. proc' = [proc EXCEPT ![c] = r] /\ UNCHANGED <<files, env, commands>>
    BY <1>2 DEF Reread
  <2> HIDE DEF r
  <2>4. QED
    BY <2>2, <2>3, MemoryStep
<1>3. QED
  BY <1>1, <1>2

LEMMA RefreshIInv == ASSUME IInv, NEW c \in CLIs, Refresh(c) PROVE IInv'
<1> DEFINE found == Resolved(proc[c].config, proc[c].environ)
           r == [proc[c] EXCEPT !.phase = "idle", !.agent = None,
                    !.model = IF found = None THEN @ ELSE found]
<1>1. proc[c] \in Process /\ Steady(proc[c])
  BY DEF IInv, TypeOK
<1>2. CASE ~Known(proc[c].config) /\ Ends(c)
  BY <1>2, EndsIInv DEF Refresh
<1>3. CASE Known(proc[c].config) /\ proc' = [proc EXCEPT ![c] = r]
  <2>1. proc[c].config \in Complete /\ proc[c].environ \in Environments
    BY <1>1, <1>3, SoundTyped DEF Steady, Process
  <2>2. /\ found \in ModelConfig \cup {None}
        /\ proc[c].environ[proc[c].config.default_provider] # None => found # None
    BY <2>1, ResolvedTyped
  <2>3. r \in Process
    BY <1>1, <2>2 DEF Process, Phases
  <2>4. Steady(r)
    BY <1>1, <2>1, <2>2 DEF Refresh, Process, Steady, Follows, AgentFits
  <2>5. proc' = [proc EXCEPT ![c] = r] /\ UNCHANGED <<files, env, commands>>
    BY <1>3 DEF Refresh
  <2> HIDE DEF r
  <2>6. QED
    BY <2>3, <2>4, <2>5, MemoryStep
<1>4. QED
  BY <1>2, <1>3 DEF Refresh

LEMMA NextIInv == ASSUME IInv, [Next]_vars PROVE IInv'
<1>1. CASE UNCHANGED vars
  BY <1>1 DEF vars, IInv, TypeOK
<1>2. ASSUME NEW c \in CLIs, Step(c) PROVE IInv'
  BY <1>2, StartIInv, LoadAgentsIInv, LoadSkillsIInv, CreatePlannerIInv, TurnIInv,
     ProviderConfigIInv, EditsIInv, LoadIInv, TruncateIInv, DumpIInv, RereadIInv,
     RefreshIInv, EndsIInv DEF Step, Exit
<1>3. QED
  BY <1>1, <1>2 DEF Next

\* The strengthened invariant holds in every reachable state.
THEOREM Invariant == Spec => []IInv
<1>1. Init => IInv
  BY InitIInv
<1>2. IInv /\ [Next]_vars => IInv'
  BY NextIInv
<1>3. QED
  BY <1>1, <1>2, PTL DEF Spec

\* Files, keys and memory have their types (TypeOK).
THEOREM Typing == Spec => []TypeOK
<1>1. IInv => TypeOK
  BY DEF IInv
<1>2. QED
  BY <1>1, Invariant, PTL

\* An interleaved or interrupted edit leaves project.toml whole, blank or with
\* a text that does not parse: never a configuration without its profiles.
THEOREM ProfilesAlwaysSurvive == Spec => []ProfilesSurvive
<1>1. IInv => ProfilesSurvive
  BY DEF IInv, Sound, ProfilesSurvive
<1>2. QED
  BY <1>1, Invariant, PTL

\* A process that waits uses the model its configuration and keys give.
THEOREM ModelAlwaysFollows == Spec => []ModelFollowsConfig
<1>1. IInv => ModelFollowsConfig
  BY DEF IInv, Steady, Follows, ModelFollowsConfig
<1>2. QED
  BY <1>1, Invariant, PTL

\* No Agent from before an edit answers a turn.
THEOREM AgentAlwaysCurrent == Spec => []AgentIsCurrent
<1>1. IInv => AgentIsCurrent
  BY DEF IInv, Steady, AgentFits, AgentIsCurrent, NewAgent, HasSkills
<1>2. QED
  BY <1>1, Invariant, PTL

-----------------------------------------------------------------------------
(* Where a file that does not parse comes from.                            *)

\* The process has opened the file for writing, and not written it yet.
Writes(c, file) == proc[c].phase = "dump" /\ File(Head(proc[c].edits)) = file

NoOverlap ==
    \A c, d \in CLIs, file \in {"project", "skills", "agents"} :
        Writes(c, file) /\ Writes(d, file) => c = d

FilesParse == \A file \in {"project", "skills", "agents"} : files[file] # Torn

\* What a process has truncated is still empty when it writes.
WInv ==
    /\ FilesParse
    /\ \A c \in CLIs, file \in {"project", "skills", "agents"} :
           Writes(c, file) => files[file] = Blank[file]

\* A step that changes no file and lets no process begin to write.
LEMMA NotWriting ==
    ASSUME IInv, WInv, files' = files,
           \A c \in CLIs, file \in {"project", "skills", "agents"} :
               Writes(c, file)' => Writes(c, file)
    PROVE  WInv'
BY DEF WInv, FilesParse

LEMMA OffWritesNot ==
    ASSUME IInv, NEW c \in CLIs, NEW r, proc' = [proc EXCEPT ![c] = r], r.phase # "dump"
    PROVE  \A d \in CLIs, file \in {"project", "skills", "agents"} :
               Writes(d, file)' => Writes(d, file)
BY DEF IInv, TypeOK, Writes

\* Every step but those of Truncate and Dump is such a step.
LEMMA QuietSteps ==
    ASSUME IInv, NEW c \in CLIs, Step(c), ~Truncate(c), ~Dump(c)
    PROVE  files' = files /\ \E r : r.phase # "dump" /\ proc' = [proc EXCEPT ![c] = r]
<1> DEFINE Goal == files' = files /\ \E r : r.phase # "dump" /\ proc' = [proc EXCEPT ![c] = r]
<1>0. proc[c] \in Process
  BY DEF IInv, TypeOK
<1>1. ASSUME Ends(c), files' = files PROVE Goal
  BY <1>1 DEF Ends, Off
<1>2. CASE Start(c)
  BY <1>2 DEF Start, Off
<1>3. CASE LoadAgents(c)
  BY <1>0, <1>1, <1>3 DEF LoadAgents, Process
<1>4. CASE LoadSkills(c)
  BY <1>0, <1>1, <1>4 DEF LoadSkills, Process
<1>5. CASE CreatePlanner(c)
  BY <1>0, <1>1, <1>5 DEF CreatePlanner, Process
<1>6. CASE Turn(c)
  BY <1>0, <1>1, <1>6 DEF Turn, Process
<1>7. ASSUME NEW edits, Begin(c, edits) PROVE Goal
  <2> DEFINE r == [proc[c] EXCEPT !.phase = "load", !.edits = edits]
  <2>1. r.phase = "load"
    BY <1>0 DEF Process
  <2>2. proc' = [proc EXCEPT ![c] = r] /\ files' = files
    BY <1>7 DEF Begin
  <2>3. QED
    BY <2>1, <2>2
<1>8. CASE ProviderUse(c) \/ ProviderModel(c) \/ SkillEdits(c) \/ WorkerEdits(c)
  BY <1>7, <1>8 DEF ProviderUse, ProviderModel, SkillEdits, WorkerEdits
<1>9. CASE ProviderConfig(c)
  <2>1. PICK environ, edits :
          /\ proc' = [proc EXCEPT ![c].phase = "load", ![c].environ = environ,
                                  ![c].edits = edits]
          /\ files' = files
    BY <1>9 DEF ProviderConfig
  <2> DEFINE r == [proc[c] EXCEPT !.phase = "load", !.environ = environ, !.edits = edits]
  <2>2. r.phase = "load"
    BY <1>0 DEF Process
  <2>3. proc' = [proc EXCEPT ![c] = r]
    BY <2>1
  <2>4. QED
    BY <2>1, <2>2, <2>3
<1>10. CASE Load(c)
  BY <1>0, <1>1, <1>10 DEF Load, Process
<1>11. CASE Reread(c)
  BY <1>0, <1>1, <1>11 DEF Reread, Process
<1>12. CASE Refresh(c)
  BY <1>0, <1>1, <1>12 DEF Refresh, Process
<1>13. CASE Exit(c)
  BY <1>1, <1>13 DEF Exit
<1>14. QED
  BY <1>2, <1>3, <1>4, <1>5, <1>6, <1>8, <1>9, <1>10, <1>11, <1>12, <1>13 DEF Step

\* Opening a file empties it.
LEMMA TruncateWInv ==
    ASSUME IInv, WInv, NEW c \in CLIs, Truncate(c)
    PROVE  WInv'
<1> DEFINE file == File(Head(proc[c].edits))
<1>1. proc[c] \in Process /\ Steady(proc[c]) /\ files \in Files
  BY DEF IInv, TypeOK
<1>2. files' = [files EXCEPT ![file] = Blank[file]]
  BY DEF Truncate
<1>3. proc' = [proc EXCEPT ![c].phase = "dump"]
  BY DEF Truncate
<1>4. file \in {"project", "skills", "agents"}
  BY <1>1, FileNames DEF Truncate, Steady, Process
<1>5. Blank[file] # Torn
  BY <1>4, BlankTyped, TornAssumption DEF Contents
<1>6. \A g \in {"project", "skills", "agents"} :
        files'[g] = IF g = file THEN Blank[file] ELSE files[g]
  BY <1>1, <1>2, <1>4 DEF Files
<1>7. \A d \in CLIs, g \in {"project", "skills", "agents"} :
        Writes(d, g)' => (d = c /\ g = file) \/ Writes(d, g)
  BY <1>1, <1>3 DEF Writes, Process, IInv, TypeOK
<1> HIDE DEF file
<1>8. QED
  BY <1>5, <1>6, <1>7 DEF WInv, FilesParse

\* Only the process that opened the file last can write it, and it is empty.
LEMMA DumpWInv ==
    ASSUME IInv, NoOverlap, WInv, NEW c \in CLIs, Dump(c)
    PROVE  WInv'
<1> DEFINE file == File(Head(proc[c].edits))
           own == proc[c].draft
<1>1. proc[c] \in Process /\ Steady(proc[c]) /\ files \in Files
  BY DEF IInv, TypeOK
<1>2. file \in {"project", "skills", "agents"} /\ Writes(c, file)
  BY <1>1, FileNames DEF Dump, Steady, Process, Writes
<1>3. own[file] # Torn
  BY <1>1, <1>2, TornAssumption DEF Process, Contents
<1>4. files[file] = Blank[file]
  BY <1>2 DEF WInv
<1>5. files' = [files EXCEPT ![file] = own[file]]
  BY <1>4 DEF Dump, Overwritten
<1>6. \A g \in {"project", "skills", "agents"} :
        files'[g] = IF g = file THEN own[file] ELSE files[g]
  BY <1>1, <1>2, <1>5 DEF Files
<1>7. \A d \in CLIs, g \in {"project", "skills", "agents"} :
        Writes(d, g)' => d # c /\ Writes(d, g)
  BY <1>1 DEF Dump, Writes, Process, IInv, TypeOK
<1>8. \A d \in CLIs : d # c => ~Writes(d, file)
  BY <1>2 DEF NoOverlap
<1> HIDE DEF file, own
<1>9. QED
  BY <1>3, <1>6, <1>7, <1>8 DEF WInv, FilesParse

LEMMA NextWInv ==
    ASSUME IInv, NoOverlap, WInv, [Next]_vars
    PROVE  WInv'
<1>1. CASE UNCHANGED vars
  BY <1>1, NotWriting DEF vars, Writes
<1>2. ASSUME NEW c \in CLIs, Step(c), ~Truncate(c), ~Dump(c) PROVE WInv'
  <2>1. files' = files
    BY <1>2, QuietSteps
  <2>2. PICK r : r.phase # "dump" /\ proc' = [proc EXCEPT ![c] = r]
    BY <1>2, QuietSteps
  <2>3. \A d \in CLIs, file \in {"project", "skills", "agents"} :
          Writes(d, file)' => Writes(d, file)
    BY <2>2, OffWritesNot
  <2>4. QED
    BY <2>1, <2>3, NotWriting
<1>3. QED
  BY <1>1, <1>2, TruncateWInv, DumpWInv DEF Next

(* A file that does not parse is the work of two processes that had it     *)
(* open for writing at once (_save_toml of each between open and dump):    *)
(* where that never happens every file parses, whoever dies in between.    *)
THEOREM OnlyOverlapsTear == Spec /\ []NoOverlap => []FilesParse
<1>1. Init => WInv
  <2> SUFFICES ASSUME Init PROVE WInv
    OBVIOUS
  <2>1. \A c \in CLIs, file \in {"project", "skills", "agents"} : ~Writes(c, file)
    BY DEF Init, Writes, Off
  <2>2. DefaultProject # Torn /\ Blank.skills # Torn /\ Blank.agents # Torn
    BY BlankTyped, SoundTyped, TornAssumption DEF Contents, Sound
  <2>3. /\ files.project = DefaultProject
        /\ files.skills = Blank.skills
        /\ files.agents = Blank.agents
    BY DEF Init, Blank
  <2>4. FilesParse
    BY <2>2, <2>3 DEF FilesParse
  <2>5. QED
    BY <2>1, <2>4 DEF WInv
<1>2. IInv /\ NoOverlap /\ WInv /\ [Next]_vars => WInv'
  BY NextWInv
<1>3. WInv => FilesParse
  BY DEF WInv
<1>4. QED
  BY <1>1, <1>2, <1>3, Invariant, PTL DEF Spec
=============================================================================
