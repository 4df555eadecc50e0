SPECIFICATION Spec
CONSTANTS
    Line = {l1, l2}
    Person = {p, q}
    NoKline = {}
    NoDline = {q}
    From <- MCFrom
    Period <- MCPeriod
    Holds = {1, 4}
    Delay = 1
SYMMETRY Lines
INVARIANTS ListsMatchTable NobodyStays ExpiresInTime
