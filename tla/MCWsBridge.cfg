SPECIFICATION FairSpec
CONSTANTS
    QueueSize = 1
    MaxRows = 2
    Limit = 1
    MaxEvents = 3
    MaxClicks = 2
    MaxMsgs = 2
    MaxLogged = 1
INVARIANT TypeOK
INVARIANT RowsInOrder
PROPERTY ImplementsChannels
PROPERTY HandlerEnds
PROPERTY EventsShown
\* A connection that ended is not used again.
CHECK_DEADLOCK FALSE
