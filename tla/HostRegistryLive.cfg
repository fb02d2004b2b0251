SPECIFICATION FairSpec
CONSTANTS
    Host = {h1}
    Sock = {s1}
    Call = {c1, c2}
    safe = safe
    risky = risky
    Op <- SafeOp
    GuardedOp <- MCGuardedOp
    MinProto <- MCMinProto
    Version = {2}
    QueueCap = 1
    MaxAdmin = 1
    Stalling = {s1}
    NoHost = NoHost
    NoSock = NoSock
    NoOp = NoOp
PROPERTIES ImplementsRemoteCall DispatchReturns DeadConnectionLeaves
CHECK_DEADLOCK FALSE
