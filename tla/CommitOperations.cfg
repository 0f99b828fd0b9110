SPECIFICATION Spec
CONSTANTS
    named = named
    twin = twin
    unnamed = unnamed
    other = other
    runOp = runOp
    boxOp = boxOp
    x = x
    f1 = f1
    f2 = f2
    att = att
    s1 = s1
    s2 = s2
    c1 = c1
    c2 = c2
    v1 = v1
    NoObject = NoObject
    NoOperation = NoOperation
    Operation = {named, twin, unnamed}
    Object = {x, f1, f2}
    Fresh = {f1, f2}
    Committer = {c1, c2}
    Reviewer = {v1}
    SessionId = {s1, s2}
    Kind <- MCKind
    Named <- MCNamed
    NeedsApproval <- MCNeedsApproval
    GivenState <- MCGivenState
    SessionOf <- MCSessionOf
    ByCreation <- MCByCreation
    IntentOf <- MCIntentOf
    IdLists <- MCIdLists
SYMMETRY MCSymmetry
INVARIANTS
    TypeOK
    OneSourcePerRow
    ReviewGoverns
    CommittedIsApplied
PROPERTIES
    CommitIsAtomic
