CONSTANTS
  NGroups = 3
  Rounds = {1, 2}
  MaxParallel = 2
  LongPoll = TRUE
  Failures = {"Timeout", "Decode", "malformed_params"}
  Flaws = {"InvalidResponse", "Binding", "RootSubstitution", "Leaf"}
  Deadline = 1
SPECIFICATION Spec
INVARIANTS SuccessIsSound MasterFirst OriginatingFailure
PROPERTIES NoLateSuccess
