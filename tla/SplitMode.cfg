SPECIFICATION SplitFairSpec
CONSTANTS
    Func = {"check_splitmode", "finish_splitmode", "exit_aborted_clients"}
    NoFunc = NoFunc
    MaxEvents = 5
    Period = {2}
    Delay = 1
    Commands = {"OFF", "ON", "AUTO", "NUM", "DELAY", "REHASH", "CLOCK"}
    MaxCommands = 3
    MaxStep = 1
INVARIANTS
    SplitTypeOK
    SplitIsNoticed
    SomethingWillCheck
PROPERTIES
    EndsRejoined
    SplitEndsUnforced
