SPECIFICATION ProtocolSpec
CONSTANTS
    ByteBase = 26
    Messages <- MCMessages
    MaxMessages = 3
    ReadSize = 24
    Helo <- MCHelo
    Volumes = {0, 1, 63, 64, 65, 100, 127, 128, 129, 255}
    Rates = {44100, 192000}
    UrlLengths = {0, 40, 300}
    Ports = {80, 9000}
    MaxPending = 2
INVARIANTS AllHandled Contiguous  Framed GainRight
CHECK_DEADLOCK FALSE
