SPECIFICATION Spec
CONSTANTS
    Request = {r1}
    Scheduler = sched
    Session = {s1, s2}
    NoSession = nosession
    Ops = {"backup", "schedule", "verify", "delete", "restore"}
    MaxJobs = 2
    KeepLast = 0
    MaxCrashes = 1
    MaxDrops = 1
    MaxLosses = 1
    MaxUnmarked = 1
    MaxFaults = 1
    MaxTroubles = 2
INVARIANTS TypeOK OneBuilder NamedWasWhole MaintenanceMeansRestore RetentionSafe
PROPERTY TerminalStays
VIEW View
CHECK_DEADLOCK FALSE
