SPECIFICATION FairSpec
CONSTANTS
  Attempts = 3
  Interval = 2
  Grace = 1
  MaxRequest = 2
  RetryAfters = {0, 3, 9}
INVARIANT LoopIsBounded
PROPERTIES ImplementsProofRead Termination
