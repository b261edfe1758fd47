SPECIFICATION Spec
CONSTANTS
    Messages = {m1, m2}
    NumSets = 3
    NumDataBanks = 2
    NumTagBanks = 1
    DataReadLatency = 2
    TagReadLatency = 1
    DataWriteLatency = 3
    TagWriteLatency = 2
    SerialLatency = 2
    ParallelPenalty = 1
    ParallelMode = TRUE
    DataRefreshEnabled = TRUE
    DataRefreshPeriod = 1
    DataRefreshTotal = 4
    TagRefreshEnabled = TRUE
    TagRefreshPeriod = 1
    TagRefreshTotal = 3
    RecycleLatency = 2
    AccessLatency = 1
    ResourceStalls = TRUE
    CycleMod = 65536
    LastArrival = 7
CHECK_DEADLOCK FALSE
INVARIANTS
    NoReservationError
    HoldBounded
PROPERTIES
    OneAccessAtATime
    EveryMessageHandled
