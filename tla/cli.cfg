SPECIFICATION Spec
CONSTANTS
    a1 = a1
    a2 = a2
    op1 = op1
    op2 = op2
    fz = fz
    mw = mw
    Actions = {a1, a2}
    NoAction = NoAction
    Operators = {op1, op2}
    System = System
    Kind <- RestartAndBackoff
    Gated = {a1}
    Submitter <- FirstByOperator
    Holds = {mw}
    Freezes = {}
    Timed = {mw}
    Covers <- Global
    Server = Server
    Executor = Executor
    Evaluators = {e1}
    HttpOps = {}
    Clis = {c1}
    MaxQueue = 1
    RecoverLimit = 1
    MaxCrashes = 2
    MaxFaults = 1
INVARIANTS NoSilentOrphan AtMostOnce ApproverOnRecord
PROPERTIES DecisionOnce
CHECK_DEADLOCK FALSE
