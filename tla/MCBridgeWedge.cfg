SPECIFICATION FairSpec
CONSTANTS
    AskShapes <- WholeAsks
    MaxPages = 1
    ReplyPages = {1, 2}
    PairTimeout = 1
    MaxAsks = 1
    MaxDrops = 1
    MaxWlanDrops = 1
    DropInConnect = TRUE
PROPERTY Reconnects
\* run() returns on KeyboardInterrupt, so the system may stop.
CHECK_DEADLOCK FALSE
