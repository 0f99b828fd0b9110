CONSTANTS
    o1 = o1
    o2 = o2
    a1 = a1
    t1 = t1
    t2 = t2
    p1 = p1
    p2 = p2
    p3 = p3
    x = x
    y = y
    Absent = Absent
    NoSession = NoSession
    Session = {s1, s2}
    Objective <- MCObjective
    Assumption <- MCAssumption
    Task <- MCTask
    PlanId <- MCPlanId
    Content <- MCContent
    Status <- MCStatus
    Candidate <- MCCandidate
SPECIFICATION FairSpec
INVARIANTS
    TypeOK
    StoredPlansLoad
    NoPartialPlan
PROPERTIES
    ImplementsStore
    AdmissionEnds
