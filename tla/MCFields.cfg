SPECIFICATION Spec
CONSTANTS
    Threads = {t1, t2}
    Texts = {"a", "b"}
    PartsOfSpeech = {"noun", "conjunction"}
    NounClasses = {"izi"}
    Moods = {"indicative"}
    None = None
    Null = Null
    Remove = Remove
    Empty = Empty
    Words = {1, 2}
    Suggestions = {1, 2}
    MaxRequests = 3
    MaxForms = 1
    MaxTouched = 1
    InitialWords <- MCInitialWords
    NewWords <- MCNewWords
SYMMETRY Symmetry
INVARIANTS
    TypeOK
    NoFieldUnfilled
    ReadsBackAsTyped
    AgreedColumnsStand
CHECK_DEADLOCK FALSE
