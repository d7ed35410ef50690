CONSTANTS
    Lines <- MCLines
    Params <- MCParams
    RxSz = 5
    CmdSz = 4
    QLen = 2
    Paced = FALSE
    MaxUnread = 4
    MaxLines = 3
    MaxRadio = 2
SPECIFICATION FairSpec
INVARIANTS CommandKept
