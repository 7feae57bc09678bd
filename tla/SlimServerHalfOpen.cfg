SPECIFICATION Spec
CONSTANTS
    Conn = {c1, c2}
    Mac = {m1}
    NoConn = NoConn
    NoMac = NoMac
    DISCONNECT_COUNT = 3
    MaxHelo = 1
    HalfOpen = TRUE
    Responsive = {}
    Slack = 1
INVARIANT
    ActiveListed
