SPECIFICATION ProtocolSpec
CONSTANTS
    ByteBase = 26
    Messages <- MCMessages
    MaxMessages = 1
    ReadSize = 24
    Helo <- MCHelo
    Volumes = {128}
    Rates = {44100}
    UrlLengths = {0, 40}
    Ports = {9000}
    MaxPending = 1
INVARIANT RevisionListed
CHECK_DEADLOCK FALSE
