SPECIFICATION Spec
CONSTANTS
    Host = {h1, h2}
    Sock = {s1, s2}
    Call = {c1}
    safe = safe
    risky = risky
    Op <- RiskyOp
    GuardedOp <- MCGuardedOp
    MinProto <- MCMinProto
    Version = {0, 2}
    QueueCap = 1
    MaxAdmin = 1
    Stalling = {}
    NoHost = NoHost
    NoSock = NoSock
    NoOp = NoOp
SYMMETRY Perms
INVARIANTS TypeOK NoDeadEntry WaitersAccounted RoutedRight OnePlace EpochIdentifies 
PROPERTIES ImplementsRemoteCall DropsOwnHostOnly
CHECK_DEADLOCK FALSE
