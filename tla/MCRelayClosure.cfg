SPECIFICATION Spec
CONSTANTS
    Modes = {"llm"}
    Inflight = 2
    MaxConns = 1
    MaxFrames = 2
    MaxLines = 0
INVARIANT AnswersOwnFrame
\* The clients may all be gone: the relay then waits.
CHECK_DEADLOCK FALSE
