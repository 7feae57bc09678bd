SPECIFICATION Spec
CONSTANTS
    Conn = {c1, c2}
    Mac = {m1}
    NoConn = NoConn
    NoMac = NoMac
    AcceptMayFail = FALSE
INVARIANT NoStrayAudio
CHECK_DEADLOCK FALSE
