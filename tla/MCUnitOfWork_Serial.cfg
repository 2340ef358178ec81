\* A client that makes one call at a time: the atomic store.
CONSTANTS
    Sessions = {s1}
    Drafts = {d1, d2}
    Calls = {c1, c2, c3}
    Absent = Absent
    Batch <- Batches
    c1 = c1
    c2 = c2
    c3 = c3
    Serial = TRUE
SPECIFICATION Spec
INVARIANTS Durable ListIsComplete
PROPERTIES AtomicSpec
