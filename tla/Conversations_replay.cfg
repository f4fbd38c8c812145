CONSTANTS
    Tabs = {b1, b2}
    Messages = {m1}
    Keys = {k1, k2}
    NoSave = NoSave
    MaxStragglers = 1
SPECIFICATION ConvSpec
CHECK_DEADLOCK FALSE
INVARIANT RetryReturnsStored
