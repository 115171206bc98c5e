SPECIFICATION Spec
CONSTANTS
  v1 = v1
  v2 = v2
  v3 = v3
  v4 = v4
  Values = {v1, v2, v3, v4}
  HashOf <- MCHashOf
  Capacity = 3
  NumBuckets = 4
  MaxInserts = 6
  MaxProbes = 8
INVARIANTS IndexConsistent
PROPERTIES ProbesBounded ImplementsBoundedFifo
CHECK_DEADLOCK FALSE
