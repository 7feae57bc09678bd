SPECIFICATION Spec
CONSTANTS
    Conn = {c1, c2}
    Mac = {m1, m2}
    NoConn = NoConn
    NoMac = NoMac
    DISCONNECT_COUNT = 2
    MaxHelo = 1
    HalfOpen = FALSE
    Responsive = {}
    Slack = 0
PROPERTY
    RegistrySpec
