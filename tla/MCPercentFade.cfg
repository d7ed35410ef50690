CONSTANTS
    LED_CNT = 359
    Top = 255
    Scale = 1024
    ClrLo = 63
    ClrHi = 0
    Percents <- MCPercents
SPECIFICATION PercentSpec
INVARIANTS ThresholdsInStrip LitFromTheBeginning
PROPERTIES BrighterWithPercent
