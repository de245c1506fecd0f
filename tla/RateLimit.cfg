CONSTANTS
    Callers = {c1, c2, c3}
    NoCaller = NoCaller
    Interval = 2
    MaxWaiters = 1
    MaxWait = 3
    LastArrival = 1
    EndOfTime = 5
SPECIFICATION FairSpec
CHECK_DEADLOCK FALSE
INVARIANTS IInv RejectionJustified
PROPERTIES EveryCallReturns ImplementsPacing
