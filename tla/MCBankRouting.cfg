CONSTANTS
  Inputs <- MCInputs
  MaxLevel = 3
  maxNumRowPerSet = 3
  MaxStack = 1
  Mats <- MCMats
  Muxes <- MCMuxes
  TOTAL_ADDRESS_BIT = 12
SPECIFICATION Spec
INVARIANTS
  LevelsInBounds
  TreeIsComplete
  AddressSelectsWires
  BandwidthConserved
  RoutingModesAgree
  CapacityIsExact
