\* Two update_draft calls on one draft, racing (liveness: no symmetry).
CONSTANTS
    Root = root
    Ids = {root, x, y}
    None = None
    Absent = Absent
    RootBuilder = b0
    Builders = {b0, b1, b2, b3}
    Calls = {c1, c2}
    MaxOps <- RacingBatches
    c1 = c1
    c2 = c2
    MaxDepth = 4
    Serial = FALSE
SPECIFICATION FairSpec
INVARIANTS TypeOK RootStays TreeUnlessRaced
PROPERTIES UpdatesAdvance UpdatesEnd
