SPECIFICATION Spec
CONSTANTS
    MaxClientHellos = 3
    MaxUndecryptablePackets = 1
    AeadChangedSize = 2
    HandshakeChanSize = 3
    MaxFaults = 1
    SupportedVersions <- const_SupportedVersions
    Configurations <- const_Configurations
INVARIANTS EndsAgree
PROPERTY ConnectionIsMade
CHECK_DEADLOCK FALSE
