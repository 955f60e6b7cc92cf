SPECIFICATION FlowSpec
CONSTANTS
  d1 = d1
  c1 = c1
  c2 = c2
  Events = {1, 2}
  Dispatchers = {d1}
  BatchSize = 2
  MaxRetries = 2
  WriterAttempts = 2
  Consumers = {c1, c2}
  Faults = {"mq_error", "db_error", "lost_ack", "crash"}
  MaxTopic = 2
  MaxMoves = 1
SYMMETRY ProcessSymmetry
CHECK_DEADLOCK FALSE
INVARIANTS HandledAtMostOnce EventsExplained
