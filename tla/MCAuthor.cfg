SPECIFICATION Spec
CONSTANTS
    NumPages = 1
    NumChanges = 2
    Users = {u1, u2}
    Texts = {a}
    Nothing = Nothing
    MaxNumber = 2
    WriterMailbox = 1
    NumSearchers = 1
    MaxChanges = 2
    MaxPages = 1
    MaxFaults = 0
INVARIANTS
    AuthorsKeepTheirSuggestions
CHECK_DEADLOCK FALSE
