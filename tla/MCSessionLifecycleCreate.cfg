SPECIFICATION ClientSpec
CONSTANTS
    InitialPath = p0
    LocalPaths = {p1}
    RemotePaths = {p2}
    PeerClosesPaths = TRUE
    PingFails = TRUE
PROPERTIES CloseReturns
CHECK_DEADLOCK FALSE
