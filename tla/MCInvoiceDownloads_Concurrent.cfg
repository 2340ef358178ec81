\* Two links, two requests, two changes, one restart; files deleted and calls rolled
\* back at any time.
CONSTANTS
    Links = {l1, l2}
    Requests = {r1, r2}
    MaxChanges = 2
    MaxRestarts = 1
    None = None
SPECIFICATION Spec
SYMMETRY Symmetry
INVARIANTS TypeOK ServedComplete FreshUnlessUndone LinkServed ErrorOnlyInTheGap
CHECK_DEADLOCK FALSE
