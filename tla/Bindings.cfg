SPECIFICATION Spec
SYMMETRY Symmetry
CONSTANTS
    None = None
    first = first
    second = second
    firstGroup = firstGroup
    firstChat = firstChat
    secondGroup = secondGroup
    secondChat = secondChat
    private = private
    group = group
    super = super
    User = {first, second}
    Owner = {firstGroup, firstChat, secondGroup, secondChat}
    UserOf <- MCUserOf
    Group = {firstGroup, secondGroup}
    Chat = {private, group, super}
    GroupChat = {group, super}
    BoundTo <- MCBoundTo
    MaxVersion <- MCMaxVersion
    Link = {k1}
    Update = {x1, x2}
    Content <- MCContent
    Backlog = {x2}
    Worker = {w1, w2}
    MaxAttempts = 2
INVARIANTS
    TypeOK
    NoAccessNoChat
    ProcessedMeansDone
    NoUpdateStuck
PROPERTIES
    FreshLinkOnly
CHECK_DEADLOCK FALSE
