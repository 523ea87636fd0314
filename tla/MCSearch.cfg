SPECIFICATION FairSpec
CONSTANTS
    NumPages = 2
    NumChanges = 2
    Users = {u1}
    Texts = {a, b}
    Nothing = Nothing
    MaxNumber = 2
    WriterMailbox = 1
    NumSearchers = 1
    MaxChanges = 2
    MaxPages = 2
    MaxFaults = 1
INVARIANTS
    TypeOK
    IndexFollowsRows
CHECK_DEADLOCK FALSE
PROPERTIES
    ListAsPromised
    EverybodyIsAnswered
