CONSTANTS
    MAIN_EVT_Q_LEN = 2
    FailAt <- NotInTransmit
    MaxPackets = 4
    MaxFails = 2
SPECIFICATION FairSpec
INVARIANTS TypeOK EveryPacketOnce ReportsInOrder
PROPERTIES CalibratesInIdle KeepsListening
CHECK_DEADLOCK FALSE
