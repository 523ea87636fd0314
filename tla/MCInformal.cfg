SPECIFICATION Spec
CONSTANTS
    Threads = {t1}
    Texts = {"a", "b"}
    PartsOfSpeech = {"noun", "conjunction"}
    NounClasses = {"izi"}
    Moods = {"indicative"}
    None = None
    Null = Null
    Remove = Remove
    Empty = Empty
    Words = {1, 2}
    Suggestions = {1, 2}
    MaxRequests = 1
    MaxForms = 1
    MaxTouched = 1
    InitialWords <- MCInitialWords
    NewWords <- MCNewWords
INVARIANTS
    NullMeansNotChanged
CHECK_DEADLOCK FALSE
