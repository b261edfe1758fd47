CONSTANTS
    Wire <- MCWire
    Configs <- AllConfigs
    Outcomes <- Outcome5
SPECIFICATION Spec
CHECK_DEADLOCK FALSE
INVARIANTS
    SnapshotIsFaithful
    BestOfSpace
    GlobalWireIsBest
    BestWithinLimits
    ReportIsOptimal
    TagFollowsData
