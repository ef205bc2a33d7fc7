SPECIFICATION FairSpec
CONSTANTS
    PicoProcs = {"send_var"}
    CalcProcs = {"put"}
    OnReq = FALSE
    OnReqHit = {TRUE, FALSE}
    Native = TRUE
    CalcEot = FALSE
    MaxTransfers = 2
    MaxFaults = 0
PROPERTY TakenOpenerDelivered
