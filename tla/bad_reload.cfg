SPECIFICATION Spec
CONSTANTS
  n1 = n1
  n2 = n2
  n3 = n3
  e1 = e1
  e2 = e2
  e3 = e3
  bus1 = bus1
  bus2 = bus2
  bus3 = bus3
  push1 = push1
  push2 = push2
  tick1 = tick1
  tick2 = tick2
  tick3 = tick3
  None = None
  Nodes <- Pair
  Events = {e2,e3}
  Home <- ScopeHome
  Peers <- PairPeers
  Untrusted <- NoPeers
  ReadOnly <- NoPeers
  Wanted <- OneWay
  Adapters = {bus2}
  Pushers = {push1}
  Tickers = {tick1}
  On <- Placed
  BatchSize = 2
  KeepMin = 5
  DedupCap = 9
  NotifyCapacity = 1
  MaxNumber = 9
  MaxFaults = 0
  MaxCrashes = 1
  MaxSnapshots = 1
  MaxCompactions = 0
INVARIANTS SnapshotIsLoaded
CHECK_DEADLOCK FALSE
