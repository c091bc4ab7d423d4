SPECIFICATION FairSpec
CONSTANTS
  Peers = {p1, p2}
  Configured = {p1}
  SuspectAfter = 1
  PartitionAfter = 3
  Policies <- TwoPolicies
  MaxDelay = 1
  MaxRestarts = 1
INVARIANTS PartitionTypeOK AutonomyLimit NoFalseAlarm
PROPERTIES SplitFollowsNetwork
