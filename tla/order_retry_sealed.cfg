SPECIFICATION Spec
CONSTANTS
  s1 = s1
  o1 = o1
  o2 = o2
  o3 = o3
  create1 = create1
  create2 = create2
  cancel = cancel
  pay = pay
  payAgain = payAgain
  payOther = payOther
  close = close
  Skus <- MCSkus
  Orders = {o1}
  Requests = {pay, payAgain}
  Req <- MCReq
  Basket <- MCBasket
  Stock <- MCStock
  Existing = {o1}
  Faults = {"inventory_error"}
  SameOrderOverlap = FALSE
CHECK_DEADLOCK FALSE
INVARIANT RetriesAreTried
