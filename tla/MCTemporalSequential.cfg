SPECIFICATION Spec
CONSTANTS
    p1 = p1
    p2 = p2
    q1 = q1
    q2 = q2
    q3 = q3
    NoPid = NoPid
    Callers = {p1, p2}
    Pids = {q1, q2, q3}
    Recycled = {q1}
    Overlap = FALSE
    MaxRuns = 2
    MaxFaults = 1
SYMMETRY Symmetry
INVARIANTS
    TypeOK
    NoOrphan
PROPERTY OnlyDeadForgotten
CHECK_DEADLOCK FALSE
