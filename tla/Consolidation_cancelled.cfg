CONSTANTS
  NGroups = 3
  Rounds = {1}
  MaxParallel = 2
  LongPoll = FALSE
  Failures = {"Timeout"}
  Flaws = {}
  Deadline = 1
SPECIFICATION Spec
INVARIANTS CancelledMeansCaller
