SPECIFICATION FairSpec
CONSTANTS
    Ends = {pico, calc}
    NBits = 2
    MaxBytes = 2
INVARIANT TypeOK
INVARIANT NoLeakedPull
INVARIANT AckedBitsTaken
INVARIANT ByteAligned
PROPERTY CallsReturn
\* A dead sender leaves the receiver waiting, and two senders run out of calls.
CHECK_DEADLOCK FALSE
