\* Four overlapping calls on two sessions.
CONSTANTS
    Sessions = {s1, s2}
    Calls = {c1, c2, c3, c4}
    None = None
SPECIFICATION Spec
SYMMETRY Symmetry
INVARIANTS TypeOK ClosedMeansClosed ClientsReleased Agreement CloseStays
