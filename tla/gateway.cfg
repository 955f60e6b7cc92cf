SPECIFICATION GatewaySpec
CONSTANTS
  Sids = {s1, s2}
  Tokens = {t1, t2, t3}
  Calls = {c1, c2}
  Faults = {"redis_error", "lost_answer", "rpc_error", "clock_skew", "expiry"}
  None = None
  LimitKeys = {"k"}
  Goroutines = {g1, g2}
  Cost = 2
  Burst = 2
  EntryTTL = 5
  CleanupInterval = 2
  MaxClock = 7
  MaxLag = 1
  TargetOnline = TRUE
  SagaFaults <- MCSagaFaults
  SagaCrashIn = {"forward", "waitForward", "rollback", "waitRollback"}
  SagaRuns = 2
  ShopSkus = {"s1", "s2"}
  FirstSkus = {"s1"}
  ShopWriters = {"w1", "w2"}
  ShopFresh <- MCFresh
  ShopOffSale <- MCOffSale
  ShopReaders = {"r1"}
  ShopReadKeys = {"list", "s2"}
  ShopFaults = {"redis_error"}
  TurnSkus = {"s1", "s2", "s3"}
  FirstTurnSkus = {"s1"}
  TurnWriters = {"u1", "u2", "u3"}
  TurnFresh <- MCTurnFresh
  TurnOffSale <- MCTurnOffSale
SYMMETRY TokenSymmetry
CHECK_DEADLOCK FALSE
INVARIANTS LogoutLasts OutcomeExplained StaleExplained UpdateRepairs
PROPERTIES ActsAsBook LimitKept
