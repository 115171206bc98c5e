SPECIFICATION Spec
CONSTANTS
  k1 = k1
  k2 = k2
  k3 = k3
  a = a
  b = b
  alice = alice
  bob = bob
  carol = carol
  m1 = m1
  m2 = m2
  m3 = m3
  None = None
  NoPolicy = NoPolicy
  ViewPolicy = ViewPolicy
  RootShard <- AllStates
  Trees <- AllTrees
  InternerCapacity = 4
  MemoCapacity = 8
  TrustBases <- Authorities
  Seals <- AllSeals
  Certificates <- AllCerts
  MembershipCalls <- AllMemberships
  AbsenceCalls <- AllAbsences
  TokenCalls <- AllTokenCalls
  ConsolidateCalls <- AllConsolidateCalls
  MaxRootNodes = 4
  Capacities = {1, 7}
  MaxCalls = 2
INVARIANTS WarmIsCold OneCheckPerSeal TokenVerdictExact SingleHistory ConsolidationKeepsToken
CHECK_DEADLOCK FALSE
