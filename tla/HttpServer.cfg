SPECIFICATION Spec
CONSTANTS
    Conn = {c1, c2}
    Mac = {m1}
    NoConn = NoConn
    NoMac = NoMac
    AcceptMayFail = TRUE
SYMMETRY ConnSymmetry
INVARIANTS TypeOK AudioAfterHeader SendsOnOpen OpenManaged NoDeaf
CHECK_DEADLOCK FALSE
