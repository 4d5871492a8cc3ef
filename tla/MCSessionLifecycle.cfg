SPECIFICATION MCSpec
CONSTANTS
    InitialPath = p0
    LocalPaths = {p1}
    RemotePaths = {p2}
    PeerClosesPaths = TRUE
    PingFails = TRUE
INVARIANTS NoStuckSend
  
CHECK_DEADLOCK FALSE
