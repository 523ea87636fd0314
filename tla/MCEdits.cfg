SPECIFICATION Spec
CONSTANTS
    u = u
    d1 = d1
    Users = {u}
    Datasets = {d1}
    Threads = {t1, t2}
    InitialDbs <- EditsDbs
    Routes = {"edit_word_page", "accept_suggested_word", "reject_suggested_word", "edit_suggestion_page",
              "submit_suggestion", "accept_suggested_example",
              "reject_suggested_example", "accept_linked_word",
              "reject_linked_word", "accept_dataset_attribution_suggestion",
              "reject_dataset_attribution_suggestion", "accept_deletion",
              "reject_deletion", "accept_example_deletion",
              "reject_example_deletion", "accept_linked_word_deletion",
              "reject_linked_word_deletion", "suggest_word_deletion"}
    Edits = {"drop_link", "retarget_link", "retype_link", "add_link",
             "drop_example", "change_example", "add_example", "datasets"}
    MaxRequests = 2
    MaxForms = 1
SYMMETRY Symmetry
INVARIANTS
    TypeOK
    ExampleEditsStay
CHECK_DEADLOCK FALSE
