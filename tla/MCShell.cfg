CONSTANTS
    Lines <- MCLines
    Params <- MCParams
    RxSz = 5
    CmdSz = 4
    QLen = 2
    Paced = TRUE
    MaxUnread = 4
    MaxLines = 2
    MaxRadio = 2
SPECIFICATION FairSpec
INVARIANTS TypeOK UnprocessedCounted BusyWhileProcessing CommandKept
PROPERTIES OneCommandAtATime EveryLineTaken
CHECK_DEADLOCK FALSE
