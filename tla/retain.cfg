SPECIFICATION Spec
CONSTANTS
  n1 = n1
  n2 = n2
  n3 = n3
  e1 = e1
  e2 = e2
  e3 = e3
  bus1 = bus1
  bus2 = bus2
  bus3 = bus3
  push1 = push1
  push2 = push2
  tick1 = tick1
  tick2 = tick2
  tick3 = tick3
  None = None
  Nodes <- Trio
  Events = {e1,e2}
  Home <- EchoHome
  Peers <- EchoPeers
  Untrusted <- EchoUntrusted
  ReadOnly <- NoPeers
  Wanted <- EchoWanted
  Adapters = {bus1,bus2}
  Pushers = {}
  Tickers = {tick1,tick2,tick3}
  On <- Placed
  BatchSize = 2
  KeepMin = 2
  DedupCap = 9
  NotifyCapacity = 1
  MaxNumber = 9
  MaxFaults = 1
  MaxCrashes = 1
  MaxSnapshots = 0
  MaxCompactions = 1
INVARIANTS SpreadInvariant PositionBehindLog LogInvariant LoggedBeforeApplied NumberNamesOneEvent
PROPERTIES ImplementsReplication
CHECK_DEADLOCK FALSE
