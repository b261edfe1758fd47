CONSTANTS
    Wire <- MCWire
    Configs <- StackedMemory
    Outcomes <- Outcome5
SPECIFICATION Spec
CHECK_DEADLOCK FALSE
INVARIANT OwnLayerCount
