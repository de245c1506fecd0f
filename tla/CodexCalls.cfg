CONSTANTS
    Requests = {r1, r2}
    Loops = {l1, l2}
    Nobody = Nobody
    MaxGen = 2
    MaxRetries = 1
    MaxFaults = 1
SPECIFICATION FairSpec
CHECK_DEADLOCK FALSE
INVARIANTS NewestKept BilledOnce
PROPERTIES CallsEnd
