----------------------------- MODULE PartReview -----------------------------
(***************************************************************************)
(* Decisions about one example, link or dataset attribution of an existing *)
(* word, and about suggested deletions (server/src/moderation.rs with      *)
(* database/deletion.rs).                                                  *)
(***************************************************************************)
EXTENDS Review

-----------------------------------------------------------------------------
(* Examples *)

accept_suggested_example(t) ==
    \E s \in EverGiven("example_suggestions") :
        Arrive(t, "accept_suggested_example",
               <<[op |-> "fetch_example", id |-> s]>>, {})

\* fetch(..).unwrap(), and accept panics for the example of a suggestion.
fetch_example(t) ==
    /\ At(t, "fetch_example")
    /\ LET s == Current(t).id
           row == RowOf(db.example_suggestions, s)
       IN  IF s \in Ids(db.example_suggestions)
           THEN Read(t, row.existing_word_id # Null,
                     <<[op |-> "accept_examples", rows |-> {row},
                        word_id |-> row.existing_word_id]>>,
                     {Existing(row.existing_word_id)} \cup EditedExample(row))
           ELSE Refuse(t)

reject_suggested_example(t) ==
    \E s \in EverGiven("example_suggestions") :
        Arrive(t, "reject_suggested_example", <<DeleteExampleSuggestion(s)>>, {})

-----------------------------------------------------------------------------
(* Links *)

accept_linked_word(t) ==
    \E s \in EverGiven("linked_word_suggestions") :
        Arrive(t, "accept_linked_word", <<[op |-> "fetch_link", id |-> s]>>, {})

\* fetch joins the link being edited; accept panics when a side is still a
\* suggestion.
fetch_link(t) ==
    /\ At(t, "fetch_link")
    /\ LET s == Current(t).id
           row == RowOf(db.linked_word_suggestions, s)
           link == Populated(db, row, TRUE)
       IN  IF /\ s \in Ids(db.linked_word_suggestions)
              /\ NamesTwoWords(db, row, TRUE)
              /\ BothExist(link.ends)
           THEN Read(t, TRUE, <<[op |-> "accept_link", link |-> link]>>,
                     {link.ends.first, link.ends.second} \cup EditedLink(row))
           ELSE Refuse(t)

accept_link(t) ==
    /\ At(t, "accept_link")
    /\ LET l == Current(t).link IN PutLink(t, l, l.ends, <<>>)

reject_linked_word(t) ==
    \E s \in EverGiven("linked_word_suggestions") :
        Arrive(t, "reject_linked_word", <<DeleteLinkedWordSuggestion(s)>>, {})

-----------------------------------------------------------------------------
(* Dataset attributions *)

accept_dataset_attribution_suggestion(t) ==
    \E s \in EverGiven("dataset_attribution_suggestions") :
        Arrive(t, "accept_dataset_attribution_suggestion",
               <<[op |-> "fetch_dataset", id |-> s]>>, {})

\* fetch_by_id(..).unwrap() and then into_existing().unwrap().
fetch_dataset(t) ==
    /\ At(t, "fetch_dataset")
    /\ LET s == Current(t).id
           row == RowOf(db.dataset_attribution_suggestions, s)
       IN  IF s \in Ids(db.dataset_attribution_suggestions)
           THEN Read(t, row.existing_word_id # Null,
                     <<[op |-> "accept_datasets", rows |-> {row},
                        word_id |-> row.existing_word_id]>>,
                     {Existing(row.existing_word_id)})
           ELSE Refuse(t)

reject_dataset_attribution_suggestion(t) ==
    \E s \in EverGiven("dataset_attribution_suggestions") :
        Arrive(t, "reject_dataset_attribution_suggestion",
               <<DeleteDatasetSuggestion(s)>>, {})

-----------------------------------------------------------------------------
(* Suggested deletions.  A decision is taken on a row some page showed; the *)
(* request carries the id alone, so the statements keep what was shown only *)
(* for the properties to compare.                                           *)

accept_deletion(t) ==
    \E shown \in pages.word :
        Arrive(t, "accept_deletion",
               <<[op |-> "fetch_word_deletion", shown |-> shown]>>, {})

\* Faulty: the document of a deleted word stays.
fetch_word_deletion_only(t) ==
    /\ At(t, "fetch_word_deletion")
    /\ LET shown == Current(t).shown
           word == RowOf(db.word_deletion_suggestions, shown.id).word_id
       IN  IF shown.id \in Ids(db.word_deletion_suggestions)
           THEN Read(t, TRUE,
                     <<[op |-> "delete_word", id |-> word, shown |-> shown.word_id]>>,
                     {Existing(word)})
           ELSE Refuse(t)

fetch_word_deletion(t) ==
    /\ At(t, "fetch_word_deletion")
    /\ LET shown == Current(t).shown
           word == RowOf(db.word_deletion_suggestions, shown.id).word_id
       IN  IF shown.id \in Ids(db.word_deletion_suggestions)
           THEN Read(t, TRUE,
                     <<[op |-> "delete_word", id |-> word, shown |-> shown.word_id],
                       IndexDelete(Existing(word))>>,
                     {Existing(word)})
           ELSE Refuse(t)

delete_word(t) ==
    /\ At(t, "delete_word")
    /\ Write(t, TRUE, WithoutWord(db, Current(t).id), <<>>)

\* The message to the index is sent by the request's own future, not by the
\* blocking thread: when the client hangs up in between, it is never sent.
abandon_deletion(t) ==
    /\ At(t, "index_delete")
    /\ Current(t).doc[1] = "existing"
    /\ Panic(t)

reject_deletion(t) ==
    \E s \in EverGiven("word_deletion_suggestions") :
        Arrive(t, "reject_deletion", <<RejectWordDeletion(s)>>, {})

accept_example_deletion(t) ==
    \E shown \in pages.example :
        Arrive(t, "accept_example_deletion",
               <<[op |-> "fetch_example_deletion", shown |-> shown]>>, {})

fetch_example_deletion(t) ==
    /\ At(t, "fetch_example_deletion")
    /\ LET shown == Current(t).shown
           example == RowOf(db.example_deletion_suggestions, shown.id).example_id
       IN  IF shown.id \in Ids(db.example_deletion_suggestions)
           THEN Read(t, TRUE,
                     <<[op |-> "delete_example", id |-> example,
                        shown |-> shown.example_id],
                       DeleteExampleDeletion(shown.id)>>,
                     {<<"example", example>>})
           ELSE Refuse(t)

delete_example(t) ==
    /\ At(t, "delete_example")
    /\ Write(t, TRUE, WithoutExample(db, Current(t).id), <<>>)

reject_example_deletion(t) ==
    \E shown \in pages.example :
        Arrive(t, "reject_example_deletion",
               <<DeleteExampleDeletion(shown.id)>>, {})

accept_linked_word_deletion(t) ==
    \E s \in EverGiven("linked_word_deletion_suggestions") :
        Arrive(t, "accept_linked_word_deletion",
               <<[op |-> "fetch_link_deletion", id |-> s]>>, {})

fetch_link_deletion(t) ==
    /\ At(t, "fetch_link_deletion")
    /\ LET s == Current(t).id
           link == RowOf(db.linked_word_deletion_suggestions, s).linked_word_id
       IN  IF s \in Ids(db.linked_word_deletion_suggestions)
           THEN Read(t, TRUE,
                     <<[op |-> "delete_link", id |-> link], DeleteLinkedWordDeletion(s)>>,
                     {<<"link", link>>})
           ELSE Refuse(t)

delete_link(t) ==
    /\ At(t, "delete_link")
    /\ Write(t, TRUE, WithoutLinkedWord(db, Current(t).id), <<>>)

reject_linked_word_deletion(t) ==
    \E s \in EverGiven("linked_word_deletion_suggestions") :
        Arrive(t, "reject_linked_word_deletion",
               <<DeleteLinkedWordDeletion(s)>>, {})
=============================================================================
