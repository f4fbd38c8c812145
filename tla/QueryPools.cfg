CONSTANTS
    Callers = {c1, c2}
    Datasources = {d1}
    Sources = {d1}
    DSNs = {s1, s2}
    Settings = {s1, s2}
    Handles = {h1, h2}
    Editors = {e1}
    Blocklists = {b0, b1}
    NoBlocklist = b0
    NoEdit = NoEdit
    NoRow = NoRow
    None = None
    MaxGen = 1
SPECIFICATION Spec
CHECK_DEADLOCK FALSE
INVARIANTS PoolsSound LeftPoolsExplained
PROPERTIES GetReturns ImplementsRegistry
