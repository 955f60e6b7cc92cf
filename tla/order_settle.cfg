SPECIFICATION Spec
CONSTANTS
  s1 = s1
  o1 = o1
  o2 = o2
  o3 = o3
  create1 = create1
  create2 = create2
  cancel = cancel
  pay = pay
  payAgain = payAgain
  payOther = payOther
  close = close
  Skus <- MCSkus
  Orders = {o1}
  Requests = {cancel, pay, payAgain, close}
  Req <- MCReq
  Basket <- MCBasket
  Stock <- MCStock
  Existing = {o1}
  Faults = {"rpc_timeout", "inventory_error", "db_error", "lost_ack", "crash"}
  SameOrderOverlap = FALSE
CHECK_DEADLOCK FALSE
INVARIANTS Settled AnswersHold
PROPERTY BookSpec
