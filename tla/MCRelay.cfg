SPECIFICATION FairSpec
CONSTANTS
    Modes = {"llm", "echo", "default"}
    Inflight = 1
    MaxConns = 2
    MaxFrames = 2
    MaxLines = 1
INVARIANT TypeOK
INVARIANT AnswersThisClient
INVARIANT PermitsConserved
PROPERTY ActiveServed
PROPERTY CallsAnswered
\* The clients may all be gone: the relay then waits.
CHECK_DEADLOCK FALSE
