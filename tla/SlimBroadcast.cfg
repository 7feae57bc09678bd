SPECIFICATION BroadcastFairSpec
CONSTANTS
    Conn = {c1}
    Mac = {m1}
    NoConn = NoConn
    NoMac = NoMac
    DISCONNECT_COUNT = 2
    MaxHelo = 1
    HalfOpen = TRUE
    Responsive = {}
    Slack = 1
    Calls <- MCCalls
    Room = 1
INVARIANT SetupFirst
PROPERTIES SlimServerSpec HostReturns SilentDropped GoneDropped StopEnds
