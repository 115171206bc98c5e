CONSTANTS
  NGroups = 4
  Rounds = {1}
  MaxParallel = 2
  LongPoll = FALSE
  Failures = {"Unavailable"}
  Flaws = {}
  Deadline = 1
SPECIFICATION FairSpec
INVARIANTS JobsExactlyOnce OneRequestEach
PROPERTIES Termination
