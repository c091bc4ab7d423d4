SPECIFICATION EvalSpec
CONSTANTS
    worker = worker
    spawned = spawned
    t1 = t1
    segment = segment
    Evaluators = {worker, spawned}
    Worker = worker
    Candidates <- Both
    Meshes <- AllMeshes
    Targets = {t1}
    NoTarget = segment
    Gated <- JustBackoff
    Doubtful <- JustBackoff
    MaxActions <- Hourly
    RestartCap = 0
    Window = 2
    CooldownPerTarget = 1
    MinCooldown = 2
    Lifetime = 1
    ActiveLimit = 9
    HistoryLimit = 9
    BudgetSlack = 9
    QueueSize = 1
    MaxRows <- Rows
    MaxNow <- Seconds
INVARIANTS EvalTypeOK OneInFlightEach BudgetOverrun CooldownKept
CHECK_DEADLOCK FALSE
