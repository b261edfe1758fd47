CONSTANTS
  c1 = c1
  c2 = c2
  c3 = c3
  k1 = k1
  k2 = k2
  v1 = v1
  v2 = v2
  Core = {c1, c2}
  Cluster = {k1}
  ClusterOf <- OneCluster
  Word = {"w"}
  Value = {v1}
  FirstWord = "w"
  InitLine <- AllV1
  NoData = NoData
  CoreOps = {"Load", "Store"}
  PrefetchOps = {"PF_Ifetch"}
  DmaOps = {"DMA_READ"}
  MaxInv = 1
  MaxRequests = 6
SPECIFICATION BudgetSpec
CHECK_DEADLOCK FALSE
INVARIANTS
  NotTwoGaps
