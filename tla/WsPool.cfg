CONSTANTS
    Requests = {r1, r2}
    Answers = {"error", "late"}
    MayCancel = {r2}
    MayClose = {r1}
    None = None
SPECIFICATION FairSpec
CHECK_DEADLOCK FALSE
INVARIANTS PoolSound
PROPERTIES EvictsOwnEntry CallsAndIdleEnd
