SPECIFICATION Spec
CONSTANTS
    r1 = r1
    r2 = r2
    r3 = r3
    w1 = w1
    w2 = w2
    w3 = w3
    a1 = a1
    a2 = a2
    x = x
    y = y
    NoRun = NoRun
    NoWorker = NoWorker
    Run = {r1}
    Root = {r1}
    Worker = {w1, w2}
    WorkerId = {x, y}
    Application = {a1}
    WorkerIdOf <- MCWorkerIdOf
    NoTime <- MCNoTime
    LegacyStatus <- MCLegacyStatus
    ForeignKey = TRUE
    MaxTime = 2
    MaxVersion = 4
INVARIANTS
    PendingIntentIsDispatchable
CHECK_DEADLOCK FALSE
