SPECIFICATION FairSpec
CONSTANTS
    Searchers = {box, word}
    Choosers = {word}
    Values = {y}
    Linked = {x}
    Chosen = Chosen
    Empty = Empty
    Nobody = Nobody
    PingEvery = 2
    CheckEvery = 3
    SilenceLimit = 6
    MaxActs = 2
    MaxSockets = 2
INVARIANTS
    TypeOK
    SilentSessionsEnd
    ReachableSessionsStay
PROPERTIES
    LastValueIsAnswered
CHECK_DEADLOCK FALSE
