CONSTANTS
    Event = {part}
    Part = {part}
    Guarded = {}
    Group = group
    Recipient = {group}
    RecipientOf <- ToGroup
    Worker = {w1}
    MaxAttempts = 2
    MaxDesired = 2
    MaxVersion = 1
    Timely = TRUE
    None = None
SPECIFICATION Spec
INVARIANT FailedTextWasTried
CHECK_DEADLOCK FALSE
