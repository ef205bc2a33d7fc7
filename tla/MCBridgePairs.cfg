SPECIFICATION Spec
CONSTANTS
    AskShapes <- AnyTraffic
    MaxPages = 1
    ReplyPages = {1, 2}
    PairTimeout = 2
    MaxAsks = 2
    MaxDrops = 1
    MaxWlanDrops = 1
    DropInConnect = FALSE
INVARIANT PairCoherent
INVARIANT ServesOnSocket
INVARIANT HalvesOnceInOrder
INVARIANT SameAskUnlessLossy
INVARIANT HalvesGivenTime
INVARIANT RepliesOfThisConnection
\* run() returns on KeyboardInterrupt, so the system may stop.
CHECK_DEADLOCK FALSE
