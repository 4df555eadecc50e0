SPECIFICATION Spec
CONSTANTS
    Line = {l1}
    Person = {p}
    NoKline = {}
    NoDline = {p}
    From <- MCFrom
    Period <- MCPeriod
    Holds = {1, 4}
    Delay = 1
INVARIANT KlinedLeave
