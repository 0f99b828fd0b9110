SPECIFICATION Spec
CONSTANTS
    s1 = s1
    s2 = s2
    first = first
    second = second
    rival = rival
    i1 = i1
    i2 = i2
    o1 = o1
    edited = edited
    j1 = j1
    NoPlan = NoPlan
    NoObjective = NoObjective
    Planner = {s1, s2}
    Plan = {first, second, rival}
    PlanId = {i1, i2}
    Objective = {o1, edited}
    ObjectiveId = {j1}
    MaxSegments = 3
    IdOf <- MCIdOf
    ObjectiveOf <- MCObjectiveOf
    ObjectiveIdOf <- MCObjectiveIdOf
SYMMETRY MCSymmetry
INVARIANTS
    TypeOK
    CandidateIsOnView
    CandidateIsAwaited
    ActivePlansAreStored
    SegmentsCommittedOnce
PROPERTIES
    AdmitsWhatWasShown
