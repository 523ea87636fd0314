SPECIFICATION Spec
CONSTANTS
    u = u
    d1 = d1
    Users = {u}
    Datasets = {d1}
    Threads = {t1, t2}
    InitialDbs <- FormsDbs
    Routes = {"edit_word_page", "edit_suggestion_page",
              "submit_suggestion"}
    Edits = {"word", "new_word"}
    MaxRequests = 3
    MaxForms = 2
SYMMETRY Symmetry
INVARIANTS
    IndexMatchesDb
PROPERTIES
    UntouchedPartsStay
    DecisionsAsPromised
CHECK_DEADLOCK FALSE
