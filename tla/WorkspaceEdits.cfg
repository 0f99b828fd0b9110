\* Two processes editing one workspace: two profiles and one unknown name, one
\* skill, three editing commands between them.
SPECIFICATION Spec
CONSTANTS
    None = None
    Torn = Torn
    CLIs = {c1, c2}
    Providers = {google, openai, typo}
    Configured = {google, openai}
    Google = google
    Models = {m1, m2}
    InitialModel = m1
    Urls = {u1, u2}
    DefaultUrl = u1
    Keys = {k1}
    Workers = {planner}
    Planner = planner
    Skills = {s1}
    MaxCommands = 3
SYMMETRY Processes
INVARIANT TypeOK
INVARIANT ProfilesSurvive
INVARIANT ModelFollowsConfig
INVARIANT AgentIsCurrent
\* Every profile is lost when a writer of project.toml dies: no process starts.
CHECK_DEADLOCK FALSE
