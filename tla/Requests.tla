------------------------------ MODULE Requests ------------------------------
(***************************************************************************)
(* The machinery every suggestion handler runs on.  A handler is Rust code *)
(* on a blocking thread (spawn_blocking_child, main.rs): it issues SQL     *)
(* statements, each committed on its own because no handler opens a        *)
(* transaction, and messages to the search index.  Handlers of different   *)
(* requests interleave between any two statements.                         *)
(*                                                                         *)
(* todo[t] is what thread t still has to issue, head first.  A statement   *)
(* that loops over rows keeps them in a set and puts itself back until the *)
(* set is empty.  An unwrap on an Err or a None kills the thread: what it  *)
(* already wrote stays, the rest never happens.                            *)
(***************************************************************************)
EXTENDS Schema, Sequences

CONSTANTS Threads,      \* requests that can be in progress at once
          Routes,       \* the requests that are made in a behaviour
          MaxRequests,  \* bound: how many of them
          InitialDbs    \* the databases a behaviour can start from

VARIABLES
    db,          \* the SQLite database
    index,       \* documents in the Tantivy index
    todo,        \* what each thread still has to issue
    forms,       \* edit forms some browser has been shown
    arrivals,    \* requests so far
    \* history: read by no action, only by the properties
    claims,      \* the rows the request on each thread is about
    origin,      \* for each word that was a suggestion, which one
    broken,      \* rows some request left half done, or brought back
    overlapped,  \* rows two requests were about at the same time
    gone,        \* words, examples and links that were deleted
    pages        \* deletion suggestions some moderation page has shown

vars == <<db, index, todo, forms, arrivals,
          claims, origin, broken, overlapped, gone, pages>>

-----------------------------------------------------------------------------
(* WordOrSuggestionId *)

Existing(id) == <<"existing", id>>
Suggested(id) == <<"suggested", id>>
WordOrSuggestionId == {"existing", "suggested"} \X Id

IntoExisting(ref) == IF ref[1] = "existing" THEN ref[2] ELSE Null
IntoSuggested(ref) == IF ref[1] = "suggested" THEN ref[2] ELSE Null

Claim == {"existing", "suggested", "example", "link"} \X Id

\* The document of a row, where the row has one: accepted words and
\* suggestions of new words are indexed, suggested edits are not.
Documents(d) ==
    {Existing(w) : w \in d.words} \cup
    {Suggested(r.id) : r \in {q \in d.word_suggestions : q.existing_word_id = Null}}

\* Words, examples and links, by the names they keep for ever.
Entries(d) == {Existing(w) : w \in d.words}
              \cup {<<"example", e>> : e \in Ids(d.examples)}
              \cup {<<"link", l>> : l \in Ids(d.linked_words)}

\* The deletion suggestions the moderation page lists.
Listed(d) == [word |-> d.word_deletion_suggestions,
              example |-> d.example_deletion_suggestions]

TwoThreads == {p \in Threads \X Threads : p[1] # p[2]}

\* The history every step adds to.
Observe ==
    /\ overlapped' = overlapped \cup UNION {claims'[p[1]] \cap claims'[p[2]] : p \in TwoThreads}
    /\ gone' = gone \cup (Entries(db) \ Entries(db'))
    /\ pages' = [word |-> pages.word \cup Listed(db').word,
                 example |-> pages.example \cup Listed(db').example]

-----------------------------------------------------------------------------
(* Threads *)

Idle(t) == todo[t] = <<>>
At(t, op) == todo[t] # <<>> /\ Head(todo[t]).op = op
Current(t) == Head(todo[t])

AllRoutes ==
    {"accept_suggested_word", "reject_suggested_word",
     "accept_suggested_example", "reject_suggested_example",
     "accept_linked_word", "reject_linked_word",
     "accept_dataset_attribution_suggestion", "reject_dataset_attribution_suggestion",
     "accept_deletion", "reject_deletion",
     "accept_example_deletion", "reject_example_deletion",
     "accept_linked_word_deletion", "reject_linked_word_deletion",
     "edit_word_page", "edit_suggestion_page", "submit_suggestion",
     "suggest_word_deletion"}

\* A request arrives for which the listed statements are to be issued.
Arrive(t, route, statements, about) ==
    /\ route \in Routes
    /\ Idle(t)
    /\ arrivals < MaxRequests
    /\ arrivals' = arrivals + 1
    /\ todo' = [todo EXCEPT ![t] = statements]
    /\ claims' = [claims EXCEPT ![t] = about]
    /\ UNCHANGED <<db, index, forms, origin, broken>>
    /\ Observe

\* The current statement is done and the given ones come before the rest; the
\* request turns out to be about these rows too.
Continue(t, statements, about) ==
    LET rest == statements \o Tail(todo[t])
    IN  /\ todo' = [todo EXCEPT ![t] = rest]
        /\ claims' = [claims EXCEPT ![t] = IF rest = <<>> THEN {} ELSE @ \cup about]

Stop(t) ==
    /\ todo' = [todo EXCEPT ![t] = <<>>]
    /\ claims' = [claims EXCEPT ![t] = {}]
    /\ UNCHANGED <<db, index, forms, arrivals, origin>>
    /\ Observe

\* An unwrap before the handler has written anything.
Refuse(t) == UNCHANGED broken /\ Stop(t)

\* An unwrap in the middle of a handler.
Panic(t) == broken' = broken \cup claims[t] /\ Stop(t)

\* A read: the handler goes on with what it read, or panics.
Read(t, found, statements, about) ==
    IF found
    THEN /\ Continue(t, statements, about)
         /\ UNCHANGED <<db, index, forms, arrivals, origin, broken>>
         /\ Observe
    ELSE Refuse(t)

\* A write that fails, and so panics, unless the foreign keys allow it.  What a
\* DELETE takes with it, the request turns out to have been about as well.
Write(t, allowed, after, statements) ==
    IF allowed
    THEN /\ db' = after
         /\ Continue(t, statements, Entries(db) \ Entries(after))
         /\ UNCHANGED <<index, forms, arrivals, origin, broken>>
         /\ Observe
    ELSE Panic(t)

\* A statement that keeps itself in the queue until its set is empty.
Loop(statement, set) ==
    IF set = {} THEN <<>> ELSE <<[statement EXCEPT !.rows = set]>>

-----------------------------------------------------------------------------
(* Statements handlers share *)

AddUserAttribution(user, word) ==
    [op |-> "add_user_attribution", user |-> user, word_id |-> word]

ExecAddUserAttribution(t) ==
    /\ At(t, "add_user_attribution")
    /\ LET s == Current(t)
       IN  Write(t, s.word_id \in db.words,
                 [db EXCEPT !.user_attributions = @ \cup {<<s.word_id, s.user>>}],
                 <<>>)

\* DELETE FROM one of the tables nothing refers to.
DeleteRow(table, id) == [op |-> "delete_row", table |-> table, id |-> id]

DeleteExampleSuggestion(id) == DeleteRow("example_suggestions", id)
DeleteLinkedWordSuggestion(id) == DeleteRow("linked_word_suggestions", id)
DeleteDatasetSuggestion(id) == DeleteRow("dataset_attribution_suggestions", id)
RejectWordDeletion(id) == DeleteRow("word_deletion_suggestions", id)
DeleteExampleDeletion(id) == DeleteRow("example_deletion_suggestions", id)
DeleteLinkedWordDeletion(id) == DeleteRow("linked_word_deletion_suggestions", id)

LeafTables == {"example_suggestions", "linked_word_suggestions",
               "dataset_attribution_suggestions", "word_deletion_suggestions",
               "example_deletion_suggestions", "linked_word_deletion_suggestions"}

ExecDeleteRow(t) ==
    /\ At(t, "delete_row")
    /\ LET s == Current(t)
       IN  Write(t, TRUE, [db EXCEPT ![s.table] = Drop(@, s.id)], <<>>)

\* TantivyClient::add_new_word and edit_word leave one document for the row,
\* delete_word leaves none; the writer actor has committed when they return.
IndexPut(doc) == [op |-> "index_put", doc |-> doc]
IndexDelete(doc) == [op |-> "index_delete", doc |-> doc]

ExecIndex(t) ==
    /\ \/ /\ At(t, "index_put")
          /\ index' = index \cup {Current(t).doc}
       \/ /\ At(t, "index_delete")
          /\ index' = index \ {Current(t).doc}
    /\ Continue(t, <<>>, {})
    /\ UNCHANGED <<db, forms, arrivals, origin, broken>>
    /\ Observe

-----------------------------------------------------------------------------
(* Which two words a linked_word_suggestions row is between: the first two *)
(* of the ids it names, then those of the existing link it edits when the  *)
(* query joined that link.                                                 *)

NamedWords(d, r, joined) ==
    LET edits == joined /\ r.existing_linked_word_id # Null
        l == RowOf(d.linked_words, r.existing_linked_word_id)
    IN  <<Existing(r.first_existing_word_id), Existing(r.second_existing_word_id),
          Suggested(r.suggested_word_id), Suggested(r.second_suggested_word_id),
          Existing(IF edits THEN l.first_word_id ELSE Null),
          Existing(IF edits THEN l.second_word_id ELSE Null)>>

Named(ids) == {i \in DOMAIN ids : ids[i][2] # Null}
Least(S) == CHOOSE i \in S : \A j \in S : i <= j

\* iter.next().unwrap() twice: anything less than two ids is a panic.
NamesTwoWords(d, r, joined) ==
    \E i, j \in Named(NamedWords(d, r, joined)) : i < j

FirstAndSecond(d, r, joined) ==
    LET ids == NamedWords(d, r, joined)
        i == Least(Named(ids))
        j == Least(Named(ids) \ {i})
    IN  [first |-> ids[i], second |-> ids[j]]

Populated(d, r, joined) ==
    [id |-> r.id, existing_id |-> r.existing_linked_word_id, user |-> r.user,
     ends |-> FirstAndSecond(d, r, joined)]

\* fetch_all_for_suggestion of linked words: the rows naming suggestion s at
\* either side, read without the existing link they edit.
LinkSuggestionsOf(d, s) ==
    {r \in d.linked_word_suggestions :
        r.suggested_word_id = s \/ r.second_suggested_word_id = s}
LinksPopulate(d, s) == \A r \in LinkSuggestionsOf(d, s) : NamesTwoWords(d, r, FALSE)

ExampleSuggestionsOf(d, s) == {r \in d.example_suggestions : r.suggested_word_id = s}
DatasetSuggestionsOf(d, s) ==
    {r \in d.dataset_attribution_suggestions : r.suggested_word_id = s}
=============================================================================
