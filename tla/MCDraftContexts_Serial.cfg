\* One update_draft call at a time: an atomic tree.
CONSTANTS
    Root = root
    Ids = {root, x, y, z}
    None = None
    Absent = Absent
    RootBuilder = b0
    Builders = {b0, b1, b2, b3, b4}
    Calls = {c1}
    MaxOps <- LongBatch
    c1 = c1
    c2 = c2
    MaxDepth = 5
    Serial = TRUE
SPECIFICATION Spec
SYMMETRY OneOf
INVARIANTS LiveUnderOpen FailedLeavesOpen
PROPERTIES TreeSpec
