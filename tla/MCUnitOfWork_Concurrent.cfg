\* Three calls in three worker threads (liveness: no symmetry).
CONSTANTS
    Sessions = {s1}
    Drafts = {d1}
    Calls = {c1, c2, c3}
    Absent = Absent
    Batch <- Batches
    c1 = c1
    c2 = c2
    c3 = c3
    Serial = FALSE
SPECIFICATION FairSpec
INVARIANTS TypeOK ExplainedLoss ListingExplained
PROPERTIES AtomicUnlessShared StepsAdvance CallsEnd
