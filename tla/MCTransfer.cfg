SPECIFICATION FairSpec
CONSTANTS
    PicoProcs = {"send_var", "req_var", "delete_var", "recv_var"}
    CalcProcs = {"put", "ask", "ready"}
    OnReq = TRUE
    OnReqHit = {TRUE, FALSE}
    Native = TRUE
    CalcEot = TRUE
    MaxTransfers = 3
    MaxFaults = 1
INVARIANT TypeOK
INVARIANT ResultsHonest
INVARIANT OnVarOnceWhole
PROPERTY TakenOpenerDelivered
PROPERTY AcceptedTransfersComplete
