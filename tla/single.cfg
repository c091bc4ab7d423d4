SPECIFICATION FairSpec
CONSTANTS
    a1 = a1
    a2 = a2
    op1 = op1
    op2 = op2
    fz = fz
    mw = mw
    Actions = {a1, a2}
    NoAction = NoAction
    Operators = {op1, op2}
    System = System
    Kind <- RestartAndBackoff
    Gated = {a1}
    Submitter <- FirstByOperator
    Holds = {fz, mw}
    Freezes = {fz}
    Timed = {fz}
    Covers <- Scoped
    Server = Server
    Executor = Executor
    Evaluators = {e1}
    HttpOps = {h1}
    Clis = {}
    MaxQueue = 1
    RecoverLimit = 5
    MaxCrashes = 1
    MaxFaults = 0
INVARIANTS TypeOK ApprovalGate HeldActionNeverStarts NoSilentOrphan
PROPERTIES ImplementsLifecycle QueuedIsSettled
CHECK_DEADLOCK FALSE
