SPECIFICATION Spec
CONSTANTS
    a = a
    b = b
    r = r
    c1 = c1
    c2 = c2
    Person <- MCPerson
    Local <- MCLocal
    Oper <- MCOper
    Channel <- MCChannel
    Invex <- MCInvex
    MaxChans = 1
    MaxAccept = 1
INVARIANTS
    EndsAgree
    NothingOfTheGone
    InvitesAreUsedUp
    AcceptsAreForTheNick
