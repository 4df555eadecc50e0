SPECIFICATION Spec
CONSTANTS
    MAX_FLOOD = 2
    MAX_FLOOD_BURST = 4
    OperFactor = 2
    ClientFlood = 4
    RecvMax = 6
INVARIANTS
    RateIsLimited
PROPERTIES
    LinesAreParsed
    ServerLinesAreParsed
