SPECIFICATION FairSpec
CONSTANTS
  worker = worker
  recheck = recheck
  retry = retry
  Conditions = {retry}
  Reason <- Reasons
  Evaluators = {worker, recheck}
  Worker = worker
  Levels = {"well", "fair", "failed"}
  Cooldown = 2
  MinDuration = 1
  MaxLag = 1
  Mixes <- ThreeMixes
INVARIANTS AlertsTypeOK NothingLeftOver
PROPERTIES CooldownSuppresses AlertsSettle
CHECK_DEADLOCK FALSE
