SPECIFICATION Spec
SYMMETRY Symmetry
CONSTANTS
    None = None
    name = name
    first = first
    second = second
    Request = {r1, r2, r3}
    Token = {k1}
    Login = {name}
    Password = {first}
    Patch <- AccessPatches
    MaxVersion = 3
INVARIANTS
    InactiveHasNoSession
CHECK_DEADLOCK FALSE
