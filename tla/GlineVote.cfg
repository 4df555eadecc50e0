SPECIFICATION Spec
CONSTANTS
    Oper = {1, 2, 3, 4}
    Server = {1, 2, 3}
    Home <- MCHome
    Expire = 3
INVARIANTS
    MajorityIsGlined
