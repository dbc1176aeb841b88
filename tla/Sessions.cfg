SPECIFICATION Spec
SYMMETRY Symmetry
CONSTANTS
    None = None
    name = name
    first = first
    second = second
    Request = {r1, r2}
    Token = {k1, k2, k3}
    Login = {name}
    Password = {first, second}
    Patch <- AllPatches
    MaxVersion = 2
INVARIANTS
    TypeOK
    SessionsKnowCredentials
    TokensCurrent
    OneTokenPerLogin
    GuardKnowsCredentials
PROPERTIES
    ChangeEndsSessions
CHECK_DEADLOCK FALSE
