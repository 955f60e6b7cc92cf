SPECIFICATION Spec
CONSTANTS
  s1 = s1
  o1 = o1
  o2 = o2
  o3 = o3
  create1 = create1
  create2 = create2
  cancel = cancel
  pay = pay
  payAgain = payAgain
  payOther = payOther
  close = close
  Skus <- MCSkus
  Orders = {o1, o3}
  Requests = {cancel, pay}
  Req <- MCReq
  Basket <- MCBasket
  Stock <- MCStock
  Existing = {o1, o3}
  Faults = {}
  SameOrderOverlap = TRUE
CHECK_DEADLOCK FALSE
PROPERTIES PaidNotCancelled
