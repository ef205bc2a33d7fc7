SPECIFICATION Spec
CONSTANTS
    Grids <- BothGrids
    MaxPages = 2
    MaxSize = 7
    InMax = 7
    MaxTyped = 4
INVARIANT TypeOK
INVARIANT TextKept
INVARIANT LinesAsWritten
INVARIANT TokensRead
