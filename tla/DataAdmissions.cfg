CONSTANTS
    b1 = b1
    b2 = b2
    b3 = b3
    bad = bad
    k1 = k1
    k2 = k2
    t1 = t1
    t2 = t2
    f1 = f1
    f2 = f2
    s1 = s1
    s2 = s2
    count = count
    w1 = w1
    Absent = Absent
    Path = {f1, f2}
    Dataset <- MCDataset
    Unreadable = {bad}
    Wide = {b3}
    Profile <- MCProfile
    Operation = {count}
    Inapplicable <- MCInapplicable
    DataTask = {t1}
    Request <- MCRequest
    Work = {w1}
    ProfileId = {k1}
    Task = {t1}
    Status = {"pending", "completed"}
    RawEvidence <- MCRawEvidence
    Session = {s1, s2}
SYMMETRY MCSymmetry
SPECIFICATION Spec
INVARIANTS
    TypeOK
    EvidenceOfBoundBytes
    OneEvidencePerWork
    AnswersHold
PROPERTIES
    ImplementsStore
