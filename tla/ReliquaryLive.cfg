SPECIFICATION FairSpec
CONSTANTS
    Request = {r1}
    Scheduler = sched
    Session = {s1, s2}
    NoSession = nosession
    Ops = {"backup", "schedule", "restore"}
    MaxJobs = 2
    KeepLast = 1
    MaxCrashes = 1
    MaxDrops = 1
    MaxLosses = 0
    MaxUnmarked = 1
    MaxFaults = 1
    MaxTroubles = 2
PROPERTIES TasksEnd JobsEnd
CHECK_DEADLOCK FALSE
