SPECIFICATION FairSpec
CONSTANTS
  c1 = c1
  c2 = c2
  c3 = c3
  d1 = d1
  d2 = d2
  NoData = NoData
  Clients = {c1, c2, c3}
  Data = {d1, d2}
  Own <- MCOwn
  Kind <- MCKind
  MaxResubmits = 1
  Grace = 0
  MaxAnswers = 1
  MaxCrashes = 1
INVARIANTS NoDoubleSpend LostRaceIsReal
PROPERTIES EveryCallReturns
