CONSTANTS
    MAIN_EVT_Q_LEN = 2
    FailAt <- Transfers
    MaxPackets = 4
    MaxFails = 1
SPECIFICATION FairSpec
PROPERTIES KeepsListening
CHECK_DEADLOCK FALSE
