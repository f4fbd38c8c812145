CONSTANTS
    Publishers = {u1, u2}
    Editors = {e1}
    Parts = {p1, p2}
    Values = {x0, x1}
    First = x0
    ValidContexts <- OneChange
    NoContext = NoContext
    MaxVersion = 3
    Tables = {b, t1, t2, t3}
    Base = b
    MaxJoins = 3
    Tabs = {u1, u2}
    Messages = {m1, m2}
    Keys = {p1, p2}
    NoSave = NoSave
    MaxStragglers = 1
    Processes = {u1, u2}
    Files = {1, 2, 3}
    ProviderAdmins = {u1, u2}
    ProviderCalls = {p1, p2}
    LLMs = {l1, l2}
    APIKeys = {s1}
    MaxChanges = 2
    Managers = {u1, u2}
    VariantIDs = {1, 2}
    Shapes <- SomeShapes
    Targets = {"draft", "running", "paused"}
    Whole = 2
    MaxRequests = 4
SPECIFICATION Spec
SYMMETRY Symmetry
CHECK_DEADLOCK FALSE
INVARIANTS PublishSound JoinsCorrect SavesExactlyOnce LedgerAgrees ProviderCurrent ExperimentRoutable
PROPERTY HistoryKept
