SPECIFICATION Spec
CONSTANTS
    NumProcs = 3
    MaxArrival = 6
    MaxTime = 50
    Bursts = {2, 14}
    Quantum = 2
    BoostPeriod = 15
    None = None
INVARIANT
    HigherPriorityRuns
CHECK_DEADLOCK FALSE
