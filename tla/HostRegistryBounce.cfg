SPECIFICATION Spec
CONSTANTS
    Host = {h1}
    Sock = {s1, s2}
    Call = {c1}
    safe = safe
    risky = risky
    Op <- SafeOp
    GuardedOp <- MCGuardedOp
    MinProto <- MCMinProto
    Version = {2}
    QueueCap = 1
    MaxAdmin = 0
    Stalling = {}
    NoHost = NoHost
    NoSock = NoSock
    NoOp = NoOp
INVARIANT LiveIsRegistered
CHECK_DEADLOCK FALSE
