CONSTANTS
    Wire <- MCWire
    Configs <- Explore
    Outcomes <- Outcome5
SPECIFICATION Spec
CHECK_DEADLOCK FALSE
INVARIANT EmptyMeansNone
