SPECIFICATION Spec
CONSTANTS
    Request = {r1}
    Scheduler = sched
    Session = {s1, s2}
    NoSession = nosession
    Ops = {"backup", "schedule", "restore"}
    MaxJobs = 3
    KeepLast = 1
    MaxCrashes = 0
    MaxDrops = 0
    MaxLosses = 0
    MaxUnmarked = 0
    MaxFaults = 0
    MaxTroubles = 0
INVARIANT RestoreAlone
CHECK_DEADLOCK FALSE
