SPECIFICATION ChatSpec
CONSTANTS
    AskShapes <- DeckAsks
    MaxPages = 2
    ReplyPages = {3}
    PairTimeout = 1
    MaxAsks = 2
    MaxDrops = 0
    MaxWlanDrops = 0
    DropInConnect = FALSE
    Patient = FALSE
    AskAfterLoss = FALSE
INVARIANT PartialNeverShown
\* The user may stop asking.
CHECK_DEADLOCK FALSE
