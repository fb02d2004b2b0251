SPECIFICATION IOSpec
CONSTANTS
    Conn = {k1, k2}
    Req = {r1, w1}
    Read = {r1}
    MaxReads = 1
    OutCap = 1
    NoConn = NoConn
PROPERTIES PingAnswered WriteNotStarved LeftoversEnd
