SPECIFICATION Spec
CONSTANTS
    Conn = {c1, c2}
    Mac = {m1, m2}
    NoConn = NoConn
    NoMac = NoMac
    DISCONNECT_COUNT = 3
    MaxHelo = 1
    HalfOpen = TRUE
    Responsive = {m1}
    Slack = 1
SYMMETRY ConnSymmetry
INVARIANTS
    TypeOK
    NoGhost
    ReadOutstanding
    Watched
    CounterSane
    CountsTimeouts
    ResponsiveKept
    ExitLeavesNoClient
