SPECIFICATION RequestSpec
CONSTANTS
    Char = {"CR", "LF", "SP", "TAB", "H", "T", "P", "/", ".", ":", "1", "high"}
    MaxExtra = 4
    Uris <- MCUris
    ClientLists <- MCClientLists
INVARIANTS AcceptsExactly NothingLost ReplyRead PlayerFound NoParent
CHECK_DEADLOCK FALSE
