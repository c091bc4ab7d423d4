SPECIFICATION Spec
CONSTANTS
  Threshold = 2
  Workers = {w1}
  IngestSize = 1
  BusSize = 1
  MaxOpen = 4
  QueueSize = 1
  Operators = {ann, bob}
  MaxSuffix = 1
  Budgets <- Work
PROPERTIES HandoffDurable
CHECK_DEADLOCK FALSE
