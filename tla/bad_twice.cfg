SPECIFICATION Spec
CONSTANTS
    a1 = a1
    a2 = a2
    op1 = op1
    op2 = op2
    fz = fz
    mw = mw
    Actions = {a1}
    NoAction = NoAction
    Operators = {op1, op2}
    System = System
    Kind <- OnlyRestart
    Gated = {a1}
    Submitter <- FirstByOperator
    Holds = {}
    Freezes = {}
    Timed = {}
    Covers <- Global
    Server = Server
    Executor = Executor
    Evaluators = {}
    HttpOps = {h1, h2}
    Clis = {}
    MaxQueue = 2
    RecoverLimit = 5
    MaxCrashes = 0
    MaxFaults = 0
INVARIANTS
    ApprovedTwiceRunsOnce
CHECK_DEADLOCK FALSE
