SPECIFICATION Spec
CONSTANTS
    s1 = s1  s2 = s2  s3 = s3  ua = ua  ub = ub  uc = uc
    User = {ua, ub, uc}
    Nick = {"m", "n"}
    NoNick = NoNick
    Nobody = Nobody
    Server = {s1, s2, s3}
    Edge <- Chain
    home <- Homes
    userhost <- Hosts
    clock <- Some
    Commands = {"change", "case", "flood", "quit", "kill"}
    MaxCommands = 4
    MaxCloses = 1
    MaxActs = 4
INVARIANTS
    NicksAreUnique HistoryIsLive DuelsAreSettled LoneClientsAgree
CHECK_DEADLOCK FALSE
