SPECIFICATION FairSpec
CONSTANTS
  m1 = m1
  m2 = m2
  None = None
  KeyBits = 2
  MaxAmount = 3
  Sources <- MCSources
  RequestLists <- MCRequestLists
  Burns <- MCBurns
  Payments <- MCPayments
  Networks = {"n1"}
  Types = {"t1", "t2"}
  Masks = {m1, m2}
  MaxAssets = 2
  MaxDepth = 2
  MaxBytes = 6
  MaxTransfers = 2
  BurnBytes <- MCBurnBytes
  MaxCrashes = 1
INVARIANTS NoOverIssue BuiltSplitVerifies
PROPERTIES SplitCompletes
CHECK_DEADLOCK FALSE
