SPECIFICATION CPUSpec
CONSTANTS
    NumProcs = 3
    MaxArrival = 3
    MaxTime = 45
    Bursts = {1, 2, 4, 14}
    ShortBursts = {1, 4}
    LongBursts = {2, 14}
    Quantum = 2
    BoostPeriod = 15
    None = None
    GOMAXPROCS = 2
    NumGs = 5
    WorkUnits = {2}
    QueueLimit = 2
    PollPeriod = 3
INVARIANTS
    CPUTypesOK
    NobodyLostOrDoubled
    RoundRobinResponse
PROPERTIES
    
    ShortestRuns
    NoIdlingNextToWork
    EverybodyFinishes
CHECK_DEADLOCK FALSE
