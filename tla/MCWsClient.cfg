SPECIFICATION FairSpec
CONSTANTS
    Transports = {"wss", "tcp"}
    HdrLen = 2
    ExtLen = 2
    Small = 3
    Cap = 2
    MaxHead = 2
    BodyLens = {0, 1, 2}
    Items = {"frame", "huge", "ping", "pong", "close", "fragment", "eof"}
    MaxItems = 3
    MaxSends = 1
    Writes = {"whole", "short", "again", "error"}
INVARIANT TypeOK
INVARIANT OneMessagePerFrame
PROPERTY ImplementsChannel
\* A dropped connection is not used again: the bridge makes a new one.
CHECK_DEADLOCK FALSE
