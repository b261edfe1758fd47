CONSTANTS
  c1 = c1
  c2 = c2
  c3 = c3
  k1 = k1
  k2 = k2
  v1 = v1
  v2 = v2
  Core = {c1, c2, c3}
  Cluster = {k1, k2}
  ClusterOf <- PairAndOne
  Word = {"w"}
  Value = {v1}
  FirstWord = "w"
  InitLine <- AllV1
  NoData = NoData
  CoreOps = {"Load", "Store"}
  PrefetchOps = {}
  DmaOps = {}
  MaxInv = 2
  MaxRequests = 4
SPECIFICATION FairBudgetSpec
CHECK_DEADLOCK FALSE
INVARIANTS
  TypeOK
  SingleWriter
  NoInvalidTransition
PROPERTIES
  AllSettles
