SPECIFICATION Spec
CONSTANTS
  Attempts = 3
  Interval = 2
  Grace = 1
  MaxRequest = 4
  RetryAfters = {0}
INVARIANTS ProbesWithinBudget
