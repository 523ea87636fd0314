----------------------------- MODULE Moderation -----------------------------
(***************************************************************************)
(* The dictionary server as users and moderators drive it: submissions and *)
(* decisions on several threads at once over one database and one search   *)
(* index, with the process killed and started again at any point.          *)
(***************************************************************************)
EXTENDS Submission, PartReview

ASSUME DbsAssumption == \A d \in InitialDbs : Consistent(d)
ASSUME EditsAssumption == \A d \in InitialDbs : EditsFiled(d)
ASSUME PartsAssumption == \A d \in InitialDbs : PartsFiled(d)
ASSUME BoundsAssumption == MaxRequests \in Nat /\ MaxForms \in Nat
ASSUME InputsAssumption == Routes \subseteq AllRoutes /\ Edits \subseteq AllEdits

Init ==
    /\ db \in InitialDbs
    /\ index = Documents(db)
    /\ todo = [t \in Threads |-> <<>>]
    /\ forms = {}
    /\ arrivals = 0
    /\ claims = [t \in Threads |-> {}]
    /\ origin = {}
    /\ broken = {}
    /\ overlapped = {}
    /\ gone = {}
    /\ pages = Listed(db)

\* The process dies.  What SQLite and Tantivy committed is there when it comes
\* back, and so are the forms in the users' browsers.
Crash ==
    /\ \E t \in Threads : ~Idle(t)
    /\ todo' = [t \in Threads |-> <<>>]
    /\ claims' = [t \in Threads |-> {}]
    /\ broken' = broken \cup UNION {claims[t] : t \in Threads}
    /\ UNCHANGED <<db, index, forms, arrivals, origin>>
    /\ Observe

\* The requests of users and moderators.
Request(t) ==
    \/ submit_suggestion(t) \/ suggest_word_deletion(t)
    \/ accept_suggested_word(t) \/ reject_suggested_word(t)
    \/ accept_suggested_example(t) \/ reject_suggested_example(t)
    \/ accept_linked_word(t) \/ reject_linked_word(t)
    \/ accept_dataset_attribution_suggestion(t)
    \/ reject_dataset_attribution_suggestion(t)
    \/ accept_deletion(t) \/ reject_deletion(t)
    \/ accept_example_deletion(t) \/ reject_example_deletion(t)
    \/ accept_linked_word_deletion(t) \/ reject_linked_word_deletion(t)

\* What a thread does for the request it has.
Serve(t) ==
    \/ read_original(t) \/ insert_suggestion(t)
    \/ process_linked_words(t) \/ write_link(t)
    \/ process_examples(t) \/ write_example(t)
    \/ process_datasets(t) \/ write_dataset(t)
    \/ insert_word_deletion(t)
    \/ fetch_alone(t) \/ fetch_examples(t) \/ fetch_linked_words(t) \/ fetch_datasets(t)
    \/ accept_just_word(t) \/ accept_example(t) \/ accept_dataset(t)
    \/ accept_link_of_word(t) \/ delete_word_suggestion(t)
    \/ fetch_example(t) \/ fetch_link(t) \/ accept_link(t) \/ fetch_dataset(t)
    \/ fetch_word_deletion(t) \/ delete_word(t)
    \/ fetch_example_deletion(t) \/ delete_example(t)
    \/ fetch_link_deletion(t) \/ delete_link(t)
    \/ ExecAddUserAttribution(t) \/ ExecDeleteRow(t) \/ ExecIndex(t)

Next ==
    \/ \E t \in Threads : Request(t) \/ Serve(t) \/ abandon_deletion(t)
    \/ edit_word_page \/ edit_suggestion_page
    \/ Crash

Spec == Init /\ [][Next]_vars

-----------------------------------------------------------------------------
(* Type correctness *)

Ends == [first: WordOrSuggestionId, second: WordOrSuggestionId]
PopulatedLink == [id: Id, existing_id: OptionalId, user: Users, ends: Ends]

FetchedStatement ==
    [op: {"fetch_examples", "fetch_linked_words", "fetch_datasets", "accept_just_word"},
     row: WordSuggestionRow, examples: SUBSET ExampleSuggestionRow,
     links: SUBSET PopulatedLink, datasets: SUBSET DatasetSuggestionRow]

ByIdStatement ==
    [op: {"fetch_alone", "delete_word_suggestion", "fetch_example", "fetch_link",
          "fetch_dataset", "fetch_link_deletion", "delete_link", "suggest_word_deletion"},
     id: Id]

AcceptStatement ==
    [op: {"add_user_attribution"}, user: Users, word_id: Id]
    \cup [op: {"accept_examples"}, rows: SUBSET ExampleSuggestionRow, word_id: Id]
    \cup [op: {"accept_datasets"}, rows: SUBSET DatasetSuggestionRow, word_id: Id]
    \cup [op: {"accept_links"}, rows: SUBSET PopulatedLink, word_id: Id, suggestion: Id]
    \cup [op: {"accept_link"}, link: PopulatedLink]

SharedStatement ==
    [op: {"delete_row"}, table: LeafTables, id: Id]
    \cup [op: {"index_put", "index_delete"}, doc: WordOrSuggestionId]

DeletionStatement ==
    [op: {"fetch_word_deletion"}, shown: WordDeletionRow]
    \cup [op: {"fetch_example_deletion"}, shown: ExampleDeletionRow]
    \cup [op: {"delete_word", "delete_example"}, id: Id, shown: Id]

UpsertOf(T) == [do: {"upsert"}, row: T]
ById == [do: {"delete", "suggest_deletion"}, id: Id]

\* A row to be written may still lack its key.
NewLinkRow == [id: OptionalId, existing_linked_word_id: OptionalId,
               first_existing_word_id: OptionalId, second_existing_word_id: OptionalId,
               suggested_word_id: OptionalId, second_suggested_word_id: OptionalId,
               user: Users]
NewExampleRow == [id: OptionalId, existing_word_id: OptionalId,
                  suggested_word_id: OptionalId, existing_example_id: OptionalId,
                  user: Users]
DatasetWrite == [do: {"insert"}, dataset: Datasets, is_delete: BOOLEAN]
                \cup [do: {"delete"}, id: Datasets]

SubmitStatement ==
    [op: {"read_original"}, word: WordSubmission]
    \cup [op: {"insert_suggestion"}, word: WordSubmission, found: BOOLEAN, changed: BOOLEAN]
    \cup [op: {"process_linked_words", "process_examples", "process_datasets"},
          word: WordSubmission, new: OptionalId]
    \cup [op: {"write_link"}, rows: SUBSET (UpsertOf(NewLinkRow) \cup ById)]
    \cup [op: {"write_example"}, rows: SUBSET (UpsertOf(NewExampleRow) \cup ById)]
    \cup [op: {"write_dataset"}, rows: SUBSET DatasetWrite, new: OptionalId,
          existing_id: OptionalId, user: Users]

Statement == FetchedStatement \cup ByIdStatement \cup AcceptStatement
             \cup SharedStatement \cup DeletionStatement \cup SubmitStatement

\* Every variable keeps its type; in particular no statement any thread has
\* left to issue names a row that could not exist.
TypeOK ==
    /\ db \in Database
    /\ index \subseteq WordOrSuggestionId
    /\ todo \in [Threads -> Seq(Statement)]
    /\ forms \subseteq Form
    /\ arrivals \in 0 .. MaxRequests
    /\ claims \in [Threads -> SUBSET Claim]
    /\ origin \subseteq (Id \X Id)
    /\ broken \subseteq Claim
    /\ overlapped \subseteq Claim
    /\ gone \subseteq Claim
    /\ pages \in [word: SUBSET WordDeletionRow, example: SUBSET ExampleDeletionRow]

-----------------------------------------------------------------------------
(* Safety *)

\* No interleaving of the handlers, no crash and no panic leaves a foreign key
\* dangling, although no handler opens a transaction.
References == ForeignKeysHold(db)

\* Rows a request was cut short on, or that two requests were about at once.
\* No handler locks what it reads, so the properties below that depend on a
\* whole handler are about the other rows.
Excused == broken \cup overlapped

InProgress == UNION {claims[t] : t \in Threads}

\* Accepting a suggestion of a new word puts it in the dictionary once, even
\* when it is accepted, rejected and edited again and again from pages of any age,
\* as long as the requests about it run one after the other and none is cut short:
\* two acceptances at once do make two words (accept_whole_word_suggestion).
OneWordPerSuggestion ==
    \A p, q \in origin :
        p[2] = q[2] /\ Suggested(p[2]) \notin Excused => p = q

\* The search index holds the words of the dictionary and the suggestions of
\* new words, and nothing else: what no request is busy with and none was cut
\* short on has a document exactly when it has a row (TantivyClient's callers).
IndexMatchesDb ==
    \A doc \in index \cup Documents(db) :
        doc \notin Excused \cup InProgress => (doc \in index <=> doc \in Documents(db))

\* When accepting a word gets to the DELETE of its suggestion, no part of the
\* suggestion is left for the cascade to take with it: each has been accepted
\* with the word or is waiting for the other word of its link.
Accepting(t) == Len(todo[t]) = 2 /\ At(t, "delete_word_suggestion")
AcceptLosesNoPart ==
    \A t \in Threads :
        Accepting(t) /\ Suggested(Current(t).id) \notin Excused =>
            /\ ExampleSuggestionsOf(db, Current(t).id) = {}
            /\ DatasetSuggestionsOf(db, Current(t).id) = {}
            /\ LinkSuggestionsOf(db, Current(t).id) = {}

\* A word, an example or a link that was deleted stays deleted, whatever was
\* suggested about it or on a moderator's page before (the INSERTs with
\* ON CONFLICT of the accept functions name the id they edit).
NothingDeletedReturns == Entries(db) \cap gone \subseteq Excused

\* Accepting a suggested deletion deletes the word the moderation page showed
\* beside it (ids of word_deletion_suggestions are never given out again).
DeletesTheWordShown ==
    \A t \in Threads : At(t, "delete_word") => Current(t).id = Current(t).shown

\* A decision stands: a suggestion that was accepted or rejected never waits
\* again and becomes no word later on, whatever old pages are sent afterwards, but
\* for one that an old form inserts again, which is excused from then on
\* (submit_suggestion, accept_whole_word_suggestion and SuggestedWord::delete).
Waiting == {s \in Ids(db.word_suggestions) :
               Suggested(s) \notin Excused /\ \A p \in origin : p[2] # s}
Accepted == {p \in origin : Suggested(p[2]) \notin Excused}
Untracked == {s \in 1 .. db.seq["word_suggestions"] : Suggested(s) \in Excused}
Decision ==
    INSTANCE Decisions WITH
        last <- db.seq["word_suggestions"], open <- Waiting,
        became <- Accepted, lost <- Untracked
DecisionsAsPromised == Decision!Spec

\* An edit of an example is filed under the word the example belongs to: the
\* moderator who accepts it sees it beside that word (process_examples against
\* the column lists of the two upserts).
ExampleEditsStay ==
    \A r \in db.example_suggestions, x \in db.examples :
        r.existing_example_id = x.id => r.existing_word_id = x.word_id

\* What is suggested about the parts of words, whichever side of a link comes
\* first, but for datasets.
Sides(r) == {Existing(r.first_existing_word_id), Existing(r.second_existing_word_id),
             Suggested(r.suggested_word_id), Suggested(r.second_suggested_word_id)}
            \ {Existing(Null), Suggested(Null)}
Parts(d) ==
    [examples |-> d.example_suggestions,
     links |-> {<<r.id, r.existing_linked_word_id, Sides(r)>> : r \in d.linked_word_suggestions},
     deletions |-> <<d.word_deletion_suggestions, d.example_deletion_suggestions,
                     d.linked_word_deletion_suggestions>>]

\* A form sent back with its parts as they were shown, by one user or by two at
\* once, suggests nothing about them and withdraws nothing (WordFormTemplate
\* against process_linked_words, process_examples and process_datasets).  The form
\* of a suggested edit does not show the datasets of the existing word, so sending
\* it back suggests to remove them; nothing else is suggested of datasets.
PartsUntouched ==
    /\ Parts(db') = Parts(db)
    /\ db.dataset_attribution_suggestions \subseteq db'.dataset_attribution_suggestions
    /\ \A r \in db'.dataset_attribution_suggestions \ db.dataset_attribution_suggestions :
          /\ r.is_delete
          /\ \E s \in db'.word_suggestions : s.existing_word_id = r.existing_word_id
UntouchedPartsStay == [][PartsUntouched]_vars
=============================================================================
