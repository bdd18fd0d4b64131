CONSTANTS
    Sessions = {s1, s2}
    MaxBumps = 2
    MaxResets = 2
    ResetCrashes = FALSE
SPECIFICATION WatchdogSpec
CHECK_DEADLOCK FALSE
INVARIANTS WatchdogTypeOK BumpsBounded
PROPERTIES HangHandled
