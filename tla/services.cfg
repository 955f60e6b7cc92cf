SPECIFICATION ServicesSpec
CONSTANTS
  o1 = o1
  p0 = p0
  p1 = p1
  create1 = create1
  confirm0 = confirm0
  confirm0Again = confirm0Again
  confirm0Anew = confirm0Anew
  confirm0Other = confirm0Other
  close0 = close0
  Orders = {o1}
  Payments = {p0, p1}
  OrderOf <- MCOrderOf
  Req <- MCReq
  Requests = {confirm0, confirm0Other, close0}
  Existing = {p0}
  Faults = {"rpc_timeout", "db_error", "lost_ack", "crash"}
  PaymentOverlap = FALSE
  BillsOverlap = FALSE
  Events = {1, 2, 3}
  Dispatchers = {"d1", "d2"}
  BatchSize = 2
  MaxRetries = 2
  WriterAttempts = 2
  MaxTopic = 3
  MqFaults = {"mq_error", "db_error", "lost_ack", "crash"}
  CrowdSkus = {"s"}
  QueueSkus = {"s", "t"}
  CartRequests = {"a1", "a2", "a3"}
  Quantities = {1, 2}
  Top = 15
  Users = {"u1", "u2"}
  Threads = {"r1", "r2"}
  None = None
CHECK_DEADLOCK FALSE
INVARIANTS InStep AnswersHold OneEvent OverlapExplained OutboxKept NeverMore RolesKept
PROPERTIES FinalStatus ActsAsCart
