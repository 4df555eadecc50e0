CONSTANTS
    Client = {c1, c2}
    Request = {r1, r2}
    Fd = {}
    NULL = NULL
    Lines = {"nothing", "close", "ban"}
SPECIFICATION AuthSpec
INVARIANT WalkIsSafe
