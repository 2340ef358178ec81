\* Overlapping calls: the counterexample to ListedAreOpen.
CONSTANTS
    Sessions = {s1, s2}
    Calls = {c1, c2, c3, c4}
    None = None
SPECIFICATION Spec
SYMMETRY Symmetry
INVARIANT ListedAreOpen
