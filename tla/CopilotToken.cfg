CONSTANTS
    Requests = {r1, r2}
    Loop = Loop
    Nobody = Nobody
    Tokens = {t1, t2, t3, t4, t5}
    NoToken = NoToken
    RefreshIns = {0, 1, 9}
    DefaultIn = 2
    MaxIn = 3
    Early = 1
    MinDelay = 1
    Retry = 1
    Jitter = 2
    MaxRetry = 2
SPECIFICATION FairSpec
INVARIANTS RenewalSound
PROPERTIES NoHotLoop HealsAndEnds
