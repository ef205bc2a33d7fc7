SPECIFICATION ChatFairSpec
CONSTANTS
    AskShapes <- DeckAsks
    MaxPages = 2
    ReplyPages = {3}
    PairTimeout = 1
    MaxAsks = 2
    MaxDrops = 1
    MaxWlanDrops = 0
    DropInConnect = FALSE
    Patient = TRUE
    AskAfterLoss = FALSE
INVARIANT TypeOK
INVARIANT ChatTypeOK
INVARIANT ShownAnswersAsk
PROPERTY CountAnnouncesWholeReply
PROPERTY HalfPairFlushed
PROPERTY ClosedPeerReplaced
PROPERTY AskAnswered
\* The user may stop asking.
CHECK_DEADLOCK FALSE
