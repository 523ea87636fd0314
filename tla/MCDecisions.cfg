SPECIFICATION Spec
CONSTANTS
    u = u
    d1 = d1
    Users = {u}
    Datasets = {d1}
    Threads = {t1, t2}
    InitialDbs <- DecidedDbs
    Routes = {"accept_suggested_word", "reject_suggested_word", "edit_suggestion_page",
              "submit_suggestion", "accept_suggested_example",
              "reject_suggested_example", "accept_linked_word",
              "reject_linked_word", "accept_dataset_attribution_suggestion",
              "reject_dataset_attribution_suggestion", "accept_deletion",
              "reject_deletion", "accept_example_deletion",
              "reject_example_deletion", "accept_linked_word_deletion",
              "reject_linked_word_deletion", "suggest_word_deletion"}
    Edits = {"word"}
    MaxRequests = 3
    MaxForms = 1
SYMMETRY Symmetry
INVARIANTS
    References
    OneWordPerSuggestion
    IndexMatchesDb
    NothingDeletedReturns
    DeletesTheWordShown
    AcceptLosesNoPart
PROPERTIES
    DecisionsAsPromised
CHECK_DEADLOCK FALSE
