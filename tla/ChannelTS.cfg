SPECIFICATION Spec
CONSTANTS
    a = a  b = b  c = c  ua = ua  ub = ub  uc = uc
    User = {ua, ub, uc}
    Mode = {"nt"}
    Server = {a, b, c}
    Edge <- Chain
    home <- Homes
    Stamp = {1, 2}
    CreationModes = {"nt"}
    Commands = {"PART", "KICK", "o", "h"}
    MaxCommands = 4
    MaxActs = 4
    MaxCloses = 1
INVARIANTS
    TypeOK
    OpsBelongToTheTs
    MembersAgree
    DescriptionsAgree
PROPERTY TsNeverRises
CHECK_DEADLOCK FALSE
