SPECIFICATION Spec
CONSTANTS
    Client = {c1, c2, c3}
    Block = {"i", "x", "o", "c", "h"}
    KindOf <- MCKindOf
    Exempt = {"x"}
    ClassName = {"k"}
    Config <- MCConfig
    MaxReads = 3
SYMMETRY Clients
INVARIANTS TypeOK UsersCounted NothingDangles NothingLeaks
