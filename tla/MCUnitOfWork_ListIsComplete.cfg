\* Concurrent calls: the counterexample to ListIsComplete.
CONSTANTS
    Sessions = {s1}
    Drafts = {d1}
    Calls = {c1, c2, c3}
    Absent = Absent
    Batch <- Batches
    c1 = c1
    c2 = c2
    c3 = c3
    Serial = FALSE
SPECIFICATION Spec
INVARIANT ListIsComplete
