CONSTANTS
    Byte <- MCByte
    BufSz = 3
    Callers <- LockedOnly
    MaxBytes = 7
SPECIFICATION MCFairSpec
INVARIANTS TypeOK RingConsistent NothingLeftToSend
PROPERTIES EveryByteLeaves FifoSpec
