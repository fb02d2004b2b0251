SPECIFICATION Spec
CONSTANTS
    Conn = {k1, k2}
    Req = {r1, r2, r3, w1, w2}
    Read = {r1, r2, r3}
    MaxReads = 2
    OutCap = 1
    NoConn = NoConn
SYMMETRY Perms
INVARIANTS TypeOK WritesRunAlone ReadsBounded WaitsInOnePlace
PROPERTY LateOnlyAfterError
