CONSTANTS
    main = main
    UartRx = UartRx
    Effects = Effects
    rLvl1 = rLvl1
    idle = idle
    Thread <- MCThread
    Main = main
    Idle = idle
    Priority <- MCPriority
    Level = {1, 2, 3}
    Ref = {PThd, ThdRef}
    NULL = NULL
    MSG_OK = MSG_OK
    MSG_TIMEOUT = MSG_TIMEOUT
SYMMETRY Symmetry
SPECIFICATION Spec
INVARIANTS TypeOK PriorityOrder WaitsConsistent
PROPERTIES QueuesSpec TurnKept
