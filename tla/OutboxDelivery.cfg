CONSTANTS
    Event = {reminder}
    Part = {}
    Guarded = {reminder}
    Group = group
    Recipient = {group}
    RecipientOf <- ToGroup
    Worker = {w1, w2}
    MaxAttempts = 2
    MaxDesired = 2
    MaxVersion = 2
    Timely = TRUE
    None = None
SPECIFICATION FairSpec
INVARIANTS
    ShowsLatest
    OldBindingsClosed
PROPERTIES
    RowsSettle
    ImplementsNotices
CHECK_DEADLOCK FALSE
