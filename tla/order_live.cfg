SPECIFICATION LiveSpec
CONSTANTS
  Requests = {r1, r2}
  Skus = {1, 2}
  Limit = 1
  MayCancel = TRUE
  None = None
  ServedCalls = {q1, q2, q3}
  DrainFits = FALSE
CHECK_DEADLOCK FALSE
INVARIANTS AtMostLimit NoLeak ShutdownExplained
PROPERTIES RecordsResolve WaitersServed SettledIsHandled Healed Exits SagaCopes
