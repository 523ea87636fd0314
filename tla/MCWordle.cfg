SPECIFICATION Spec
CONSTANTS
    WordLength = 3
    Guesses = 3
    Letters = {"a", "b", "i"}
    Others = {"-"}
    NonAscii = {"e'"}
    None = None
    Records <- MCRecords
INVARIANTS
    TypeOK
    WordInDictionary
    MarksCountLetters
    KeyboardShowsBest
    OutcomeFollows
    SharedAsPlayed
CHECK_DEADLOCK FALSE
