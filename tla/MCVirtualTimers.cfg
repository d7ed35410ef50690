CONSTANTS
    t1 = t1
    t2 = t2
    t3 = t3
    Timer <- MCTimer
    Uses <- MCUses
    Modulus = 16
    TIMEDELTA = 2
    MaxLatency = 1
    Off = Off
SPECIFICATION Spec
INVARIANTS TypeOK DeadlinesKept
PROPERTIES ServiceSpec
CONSTRAINT UntilMissed
