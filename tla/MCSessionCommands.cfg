SPECIFICATION Spec
CONSTANTS
    p1 = p1
    p2 = p2
    p3 = p3
    a0 = a0
    a0debug = a0debug
    custom = custom
    Callers = {p1, p2, p3}
    Names = {a0, a0debug, custom}
    Numbered <- MCNumbered
    Managed = {a0, a0debug}
    Longer <- MCLonger
    Operations = {"new", "attach", "kill", "killall", "restart", "reap"}
    Existing <- OneSession
    MaxSessions = 2
    MaxRuns = 1
SYMMETRY Symmetry
INVARIANTS
    TypeOK
    KillAllComplete
PROPERTIES
    BulkSparesCustom
    HintTruthful
    KillSuppressesHint
CHECK_DEADLOCK FALSE
