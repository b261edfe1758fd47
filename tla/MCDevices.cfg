CONSTANTS
  c1 = c1
  c2 = c2
  c3 = c3
  k1 = k1
  k2 = k2
  v1 = v1
  v2 = v2
  Core = {c1, c2}
  Cluster = {k1, k2}
  ClusterOf <- OneEach
  Word = {"w"}
  Value = {v1, v2}
  FirstWord = "w"
  InitLine <- AllV1
  NoData = NoData
  CoreOps = {"Load", "Ifetch", "Store"}
  PrefetchOps = {"PF_Load", "PF_Ifetch", "PF_Store"}
  DmaOps = {"DMA_READ", "DMA_WRITE"}
  MaxInv = 2
  MaxRequests = 4
SPECIFICATION BudgetSpec
SYMMETRY SymmetryOneEach
CHECK_DEADLOCK FALSE
INVARIANTS
  L2IsCurrent
  MemoryIsCurrent
  OneMemoryRequest
PROPERTIES
  DmaReadsAreCurrent
  MemoryRequestsServed
  ImplementsCoherentMemory
