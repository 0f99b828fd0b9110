CONSTANTS
    t1 = t1
    t2 = t2
    t3 = t3
    t4 = t4
    foreign = foreign
    Task <- MCTask
    OwnTask <- MCOwnTask
    Submitted <- MCSubmitted
    Listings <- MCListings
SPECIFICATION FairSpec
INVARIANTS
    TypeOK
    PlanIsAcyclic
    OnlyCyclesAreRejected
    VisitsFollowEdges
    SomeTaskIsEligible
    StoredPlanReloads
PROPERTIES
    ConstructionEnds
CHECK_DEADLOCK FALSE
