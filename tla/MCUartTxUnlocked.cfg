CONSTANTS
    Byte <- MCByte
    BufSz = 3
    Callers <- BothPrinters
    MaxBytes = 4
SPECIFICATION MCSpec
INVARIANTS NothingLeftToSend
