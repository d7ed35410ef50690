CONSTANTS
    LED_CNT = 3
    Top = 3
    Scale = 4
    ClrLo = 2
    ClrHi = 0
    Smooth = 5
    MaxRequests = 3
    FadeArgs <- MCFadeArgs
SPECIFICATION MCFairSpec
INVARIANTS TypeOK StaysInStrip RequestShown
PROPERTIES NoFlicker Settles
CHECK_DEADLOCK FALSE
