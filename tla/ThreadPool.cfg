SPECIFICATION Spec
CONSTANTS
  NWorkers = 2
  NProducers = 2
  QueueSize = 2
  Scripts <- MCScripts
  Clocks <- MCClocks
  NewZone <- Europe
  RollSize = 2
  CheckEveryN = 2
  FlushInterval = 3
INVARIANTS QueueIsFifo LogKeepsItsLimits LinesTellTheTime ConversionsAreExact
PROPERTY NobodyWaitsForEver
CHECK_DEADLOCK FALSE
