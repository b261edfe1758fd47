CONSTANTS
    Line = {l1, l2}
    MaxRequests = 3
    MaxRecycles = 1
    MaxDelay = 1
    OrderedDelay = 2
    RecycleLatency = 2
    TransitionsPerCycle = 2
    MaxSizes = {0, 1}
SPECIFICATION Spec
INVARIANTS
    StalledIsRegistered
    RegisteredHoldsStalled
    BufferFits
    WakeupIsScheduled
    OrderedNeverPanics
PROPERTY EveryMessageHandled
