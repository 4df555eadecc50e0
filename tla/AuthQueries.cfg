CONSTANTS
    Client = {c1, c2, c3}
    Request = {r1, r2}
    Fd = {f1, f2}
    NULL = NULL
    Lines = {"nothing", "register", "quit"}
SPECIFICATION AuthSpec
INVARIANTS
    CallbacksAreOwned
    NobodyIsForgotten
PROPERTY WaitersLeave
