------------------------------- MODULE Review -------------------------------
(***************************************************************************)
(* A moderator's decisions (server/src/moderation.rs): accepting or        *)
(* rejecting a suggested word with everything attached to it, a suggested  *)
(* example, link or dataset attribution of an existing word, and the       *)
(* suggested deletion of a word, an example or a link.  The ids come from  *)
(* a page that may be as old as the moderator likes.                       *)
(***************************************************************************)
EXTENDS Requests

\* Ids a page may hold: whatever the table has ever given out.
EverGiven(table) == 1 .. db.seq[table]

-----------------------------------------------------------------------------
(* Accepting a whole word suggestion: fetch_full, in four queries, and then *)
(* accept_whole_word_suggestion.                                            *)

Fetched(op, row, examples, links, datasets) ==
    [op |-> op, row |-> row, examples |-> examples, links |-> links,
     datasets |-> datasets]

\* The example or the link that a suggestion is an edit of.
EditedExample(r) ==
    IF r.existing_example_id = Null THEN {} ELSE {<<"example", r.existing_example_id>>}
EditedLink(r) ==
    IF r.existing_linked_word_id = Null THEN {} ELSE {<<"link", r.existing_linked_word_id>>}

accept_suggested_word(t) ==
    \E s \in EverGiven("word_suggestions") :
        Arrive(t, "accept_suggested_word",
               <<[op |-> "fetch_alone", id |-> s]>>, {Suggested(s)})

fetch_alone(t) ==
    /\ At(t, "fetch_alone")
    /\ LET s == Current(t).id
           row == RowOf(db.word_suggestions, s)
           edited == IF row.existing_word_id = Null THEN {}
                     ELSE {Existing(row.existing_word_id)}
       IN  IF s \in Ids(db.word_suggestions)
           THEN Read(t, TRUE, <<Fetched("fetch_examples", row, {}, {}, {})>>, edited)
           ELSE Refuse(t)

fetch_examples(t) ==
    /\ At(t, "fetch_examples")
    /\ LET c == Current(t)
           examples == ExampleSuggestionsOf(db, c.row.id)
       IN  Read(t, TRUE,
                <<Fetched("fetch_linked_words", c.row, examples, {}, {})>>,
                UNION {EditedExample(r) : r \in examples})

fetch_linked_words(t) ==
    /\ At(t, "fetch_linked_words")
    /\ LET c == Current(t)
           rows == LinkSuggestionsOf(db, c.row.id)
           links == {Populated(db, r, FALSE) : r \in rows}
       IN  IF LinksPopulate(db, c.row.id)
           THEN Read(t, TRUE, <<Fetched("fetch_datasets", c.row, c.examples, links, {})>>,
                     UNION ({{l.ends.first, l.ends.second} : l \in links}
                            \cup {EditedLink(r) : r \in rows}))
           ELSE Refuse(t)

fetch_datasets(t) ==
    /\ At(t, "fetch_datasets")
    /\ LET c == Current(t)
       IN  Read(t, TRUE,
                <<Fetched("accept_just_word", c.row, c.examples, c.links,
                          DatasetSuggestionsOf(db, c.row.id))>>, {})

\* Faulty: the document goes and the row stays.
DeleteDocumentOnly(s) == <<IndexDelete(Suggested(s))>>

\* What accept_whole_word_suggestion goes on to do once the word has its id.
\* SuggestedWord::delete is the index message and then the DELETE.
DeleteWordSuggestion(s) ==
    <<IndexDelete(Suggested(s)), [op |-> "delete_word_suggestion", id |-> s]>>

RestOfAcceptance(c, word) ==
    <<AddUserAttribution(c.row.user, word)>>
    \o Loop([op |-> "accept_examples", rows |-> {}, word_id |-> word], c.examples)
    \o Loop([op |-> "accept_datasets", rows |-> {}, word_id |-> word], c.datasets)
    \o Loop([op |-> "accept_links", rows |-> {}, word_id |-> word,
             suggestion |-> c.row.id], c.links)
    \o DeleteWordSuggestion(c.row.id)
    \o <<IndexPut(Existing(word))>>

\* INSERT INTO words ... ON CONFLICT(word_id) DO UPDATE: an edit of a word
\* that has been deleted since it was fetched inserts that word again.
accept_just_word(t) ==
    /\ At(t, "accept_just_word")
    /\ LET c == Current(t)
           word == KeyOrNext(db, "words", c.row.existing_word_id)
       IN  /\ db' = [db EXCEPT !.words = @ \cup {word},
                               !.seq = Bump(@, "words", word)]
           /\ Continue(t, RestOfAcceptance(c, word), {Existing(word)})
           /\ origin' = IF c.row.existing_word_id = Null
                        THEN origin \cup {<<word, c.row.id>>} ELSE origin
    /\ UNCHANGED <<index, forms, arrivals, broken>>
    /\ Observe

-----------------------------------------------------------------------------
(* SuggestedExample::accept *)

\* ON CONFLICT(example_id) rewrites the texts only.
PutExample(d, id, word) ==
    IF id \in Ids(d.examples) THEN d
    ELSE LET key == KeyOrNext(d, "examples", id)
         IN  [d EXCEPT !.examples = @ \cup {[id |-> key, word_id |-> word]},
                       !.seq = Bump(@, "examples", key)]

accept_example(t) ==
    /\ At(t, "accept_examples")
    /\ LET c == Current(t)
       IN  \E r \in c.rows :
             Write(t,
                   r.existing_example_id \in Ids(db.examples) \/ c.word_id \in db.words,
                   PutExample(db, r.existing_example_id, c.word_id),
                   <<AddUserAttribution(r.user, c.word_id), DeleteExampleSuggestion(r.id)>>
                   \o Loop(c, c.rows \ {r}))

\* DatasetAttributionSuggestion::accept; a DELETE needs nothing to exist.
accept_dataset(t) ==
    /\ At(t, "accept_datasets")
    /\ LET c == Current(t)
       IN  \E r \in c.rows :
             LET pair == <<c.word_id, r.dataset>>
             IN  Write(t,
                       r.is_delete \/ c.word_id \in db.words,
                       [db EXCEPT !.dataset_attributions =
                           IF r.is_delete THEN @ \ {pair} ELSE @ \cup {pair}],
                       <<AddUserAttribution(r.user, c.word_id),
                         DeleteDatasetSuggestion(r.id)>>
                       \o Loop(c, c.rows \ {r}))

-----------------------------------------------------------------------------
(* SuggestedLinkedWord::accept and update_first_and_second *)

\* ON CONFLICT(link_id) rewrites the link type only: a link that is edited
\* keeps the two words it had.
PutLinkedWord(d, id, first, second) ==
    IF id \in Ids(d.linked_words) THEN d
    ELSE LET key == KeyOrNext(d, "linked_words", id)
         IN  [d EXCEPT !.linked_words = @ \cup {[id |-> key, first_word_id |-> first,
                                                second_word_id |-> second]},
                       !.seq = Bump(@, "linked_words", key)]

PutLink(t, l, ends, rest) ==
    LET first == ends.first[2]
        second == ends.second[2]
    IN  Write(t,
              \/ l.existing_id \in Ids(db.linked_words)
              \/ first \in db.words /\ second \in db.words,
              PutLinkedWord(db, l.existing_id, first, second),
              <<AddUserAttribution(l.user, first), AddUserAttribution(l.user, second),
                DeleteLinkedWordSuggestion(l.id)>> \o rest)

\* Faulty: the suggestion stays beside the word it became.
update_existing_only(t, l, ends, rest) ==
    LET Updated(r) == [r EXCEPT !.first_existing_word_id = IntoExisting(ends.first),
                                !.second_existing_word_id = IntoExisting(ends.second)]
    IN  Write(t, TRUE,
              [db EXCEPT !.linked_word_suggestions =
                  {IF r.id = l.id THEN Updated(r) ELSE r : r \in @}], rest)

update_first_and_second(t, l, ends, rest) ==
    LET Updated(r) == [r EXCEPT
            !.first_existing_word_id = IntoExisting(ends.first),
            !.second_existing_word_id = IntoExisting(ends.second),
            !.suggested_word_id = IntoSuggested(ends.first),
            !.second_suggested_word_id = IntoSuggested(ends.second)]
        after == {IF r.id = l.id THEN Updated(r) ELSE r : r \in db.linked_word_suggestions}
    IN  Write(t, \A r \in after : r.id = l.id => LinkedWordSuggestionOk(db, r),
              [db EXCEPT !.linked_word_suggestions = after], rest)

\* The side that was the suggestion becomes the accepted word.
EndsAccepted(ends, suggestion, word) ==
    IF ends.first = Suggested(suggestion)
    THEN [ends EXCEPT !.first = Existing(word)]
    ELSE [ends EXCEPT !.second = Existing(word)]

BothExist(ends) == ends.first[1] = "existing" /\ ends.second[1] = "existing"

\* One turn of the loop over the links of the accepted word.
accept_link_of_word(t) ==
    /\ At(t, "accept_links")
    /\ LET c == Current(t)
       IN  \E l \in c.rows :
             LET ends == EndsAccepted(l.ends, c.suggestion, c.word_id)
                 rest == Loop(c, c.rows \ {l})
             IN  IF BothExist(ends) THEN PutLink(t, l, ends, rest)
                 ELSE update_first_and_second(t, l, ends, rest)

-----------------------------------------------------------------------------
(* The DELETE of a word suggestion; rejecting one is just that *)

delete_word_suggestion(t) ==
    /\ At(t, "delete_word_suggestion")
    /\ Write(t, TRUE, WithoutWordSuggestion(db, Current(t).id), <<>>)

reject_suggested_word(t) ==
    \E s \in EverGiven("word_suggestions") :
        Arrive(t, "reject_suggested_word", DeleteWordSuggestion(s), {Suggested(s)})
=============================================================================
