SPECIFICATION FairSpec
CONSTANTS
  Total = 6
  Interval = 2
  MinPause = 1
  SleepSlice = 1
  Grace = 1
  Preferred = 3
  Margin = 2
  MaxRequest = 4
  MaxWaitMs = 100
  LongPoll = TRUE
  KeepPlain = FALSE
  RetryAfters = {0, 3}
  Horizon = 9
INVARIANTS TypeOK CallsEndByDeadline NoMoreThanClassicPoller NoWaitAfterRefusal CancellationWins
PROPERTIES RequestsPaced ImplementsProofRead Termination
