SPECIFICATION StreamingFairSpec
CONSTANTS
    Conn = {c1, c2}
    Mac = {m1, m2}
    NoConn = NoConn
    NoMac = NoMac
    AcceptMayFail = FALSE
    MaxCmds = 3
    MaxLosses = 2
    EarlyLoss = FALSE
    EarlyHelo = TRUE
    CalmHost = TRUE
INVARIANT OneStream
PROPERTIES LostStreamClosed  Streamed StaysTuned
CHECK_DEADLOCK FALSE
