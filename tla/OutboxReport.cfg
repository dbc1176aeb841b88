CONSTANTS
    Event = {head, tail}
    Part = {head, tail}
    Guarded = {}
    Group = group
    Recipient = {group}
    RecipientOf <- ToGroup
    Worker = {w1, w2}
    MaxAttempts = 1
    MaxDesired = 2
    MaxVersion = 1
    Timely = FALSE
    None = None
SYMMETRY Symmetry
SPECIFICATION Spec
INVARIANTS
    SentMeansAllParts
    WasShown
CHECK_DEADLOCK FALSE
