SPECIFICATION Spec
CONSTANTS
  n1 = n1
  n2 = n2
  n3 = n3
  x = x
  k1 = k1
  k2 = k2
  NodeIds = {n1, n2, n3, x}
  Known = {n1, n2, n3}
  KeyOf <- MCKeyOf
  Keys = {k1, k2}
  Undecodable = Undecodable
  Invalid = Invalid
  Threshold = 2
  MaxEntries = 3
INVARIANTS VerdictIsQuorum StopsAtThreshold
