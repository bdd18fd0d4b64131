SPECIFICATION Spec
CONSTANTS
    p1 = p1
    p2 = p2
    k1 = k1
    k2 = k2
    k3 = k3
    Callers = {p1, p2}
    Plugins = {"advance", "oca"}
    Order <- MCOrder
    Advance = "advance"
    Commits = {k1, k2, k3}
    Before <- MCBefore
    Published <- MCPublished
    Change = k3
    Cloned <- MCCloned
    Odd = {}
    Edited = {"advance"}
    Compiled = {"advance"}
    Prebuilt = {"oca"}
    Operations = {"apply", "update", "force", "pin", "maintain"}
    Alone = {"maintain"}
    MaxRuns = 2
SYMMETRY Symmetry
INVARIANTS
    TypeOK
    PinsSurvive
    NoSilentUpdate
    RebuildsRetried
    MergesStay
CHECK_DEADLOCK FALSE
