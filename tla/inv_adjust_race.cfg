SPECIFICATION Spec
CONSTANTS
  s1 = s1
  s2 = s2
  o1 = o1
  o2 = o2
  Skus <- MCSkus
  Orders <- MCOrders
  Workers = {w1, w2}
  Baskets <- MCBaskets
  MaxTotal = 3
  SameOrderOverlap = FALSE
  AdjustOverlap = TRUE
SYMMETRY WorkerSymmetry
INVARIANT Balanced
