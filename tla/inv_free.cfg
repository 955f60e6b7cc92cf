SPECIFICATION Spec
CONSTANTS
  s1 = s1
  s2 = s2
  o1 = o1
  o2 = o2
  Skus <- MCSkus
  Orders <- MCOrders
  Workers = {w1, w2}
  Baskets <- MCBaskets
  MaxTotal = 2
  SameOrderOverlap = TRUE
  AdjustOverlap = TRUE
SYMMETRY WorkerSymmetry
INVARIANTS TypeOK StockNonNegative AllOrNothing
PROPERTIES OnlyStaleAdjustDrifts NeverReservedAgain
