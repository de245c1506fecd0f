CONSTANTS
    Requests = {r1, r2, r3}
    Limit = 1
    LogInterval = 2
    LastSecond = 4
    MaxRefused = 3
SPECIFICATION FairAdmission
CHECK_DEADLOCK FALSE
INVARIANTS AdmissionInv
PROPERTIES OverloadTold PermitsReturn
