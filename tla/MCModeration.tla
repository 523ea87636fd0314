---------------------------- MODULE MCModeration ----------------------------
(* Small databases, and the sets of requests made of them, for TLC.         *)
EXTENDS Moderation, TLC

CONSTANTS u, d1

Symmetry == Permutations(Threads)

Seq0 == [table \in AutoIncrement |-> 0]

EmptyDb ==
    [words |-> {}, word_suggestions |-> {}, examples |-> {}, example_suggestions |-> {},
     linked_words |-> {}, linked_word_suggestions |-> {}, dataset_attributions |-> {},
     dataset_attribution_suggestions |-> {}, user_attributions |-> {},
     word_deletion_suggestions |-> {}, example_deletion_suggestions |-> {},
     linked_word_deletion_suggestions |-> {}, seq |-> Seq0]

Suggestion(id, existing) == [id |-> id, existing_word_id |-> existing, user |-> u]
LinkRow(id, existing, first, second) ==
    [id |-> id, existing_linked_word_id |-> existing,
     first_existing_word_id |-> IntoExisting(first),
     second_existing_word_id |-> IntoExisting(second),
     suggested_word_id |-> IntoSuggested(first),
     second_suggested_word_id |-> IntoSuggested(second), user |-> u]
ExampleRowOf(id, existing, suggested, example) ==
    [id |-> id, existing_word_id |-> existing, suggested_word_id |-> suggested,
     existing_example_id |-> example, user |-> u]

\* One word; a suggestion of a new one with an example, a dataset and a link to
\* the word; an edit of the word.
WordsDb ==
    [EmptyDb EXCEPT
       !.words = {1},
       !.word_suggestions = {Suggestion(1, Null), Suggestion(2, 1)},
       !.example_suggestions = {ExampleRowOf(1, Null, 1, Null)},
       !.dataset_attribution_suggestions =
           {[id |-> 1, dataset |-> d1, existing_word_id |-> Null, suggested_word_id |-> 1,
             is_delete |-> FALSE, user |-> u]},
       !.linked_word_suggestions = {LinkRow(1, Null, Suggested(1), Existing(1))},
       !.seq = [Seq0 EXCEPT !["words"] = 1, !["word_suggestions"] = 2,
                            !["example_suggestions"] = 1,
                            !["dataset_attribution_suggestions"] = 1,
                            !["linked_word_suggestions"] = 1]]

\* Two words with a link between them; suggestions of two new words that are
\* linked to one another and, at either side, to the existing words; an edit of
\* the link that changes its type.
LinksDb ==
    [EmptyDb EXCEPT
       !.words = {1, 2},
       !.linked_words = {[id |-> 1, first_word_id |-> 1, second_word_id |-> 2]},
       !.word_suggestions = {Suggestion(1, Null), Suggestion(2, Null)},
       !.linked_word_suggestions =
           {LinkRow(1, Null, Suggested(1), Suggested(2)),
            LinkRow(2, Null, Suggested(2), Existing(1)),
            LinkRow(3, 1, Nothing, Nothing)},
       !.seq = [Seq0 EXCEPT !["words"] = 2, !["linked_words"] = 1,
                            !["word_suggestions"] = 2,
                            !["linked_word_suggestions"] = 3]]

\* A word with an example, a dataset and a link to another word; edits of each
\* of them and of the word; suggestions to delete each.
PartsDb ==
    [EmptyDb EXCEPT
       !.words = {1, 2},
       !.examples = {[id |-> 1, word_id |-> 1]},
       !.linked_words = {[id |-> 1, first_word_id |-> 1, second_word_id |-> 2]},
       !.dataset_attributions = {<<1, d1>>},
       !.word_suggestions = {Suggestion(1, 1)},
       !.example_suggestions = {ExampleRowOf(1, 1, Null, 1)},
       !.linked_word_suggestions = {LinkRow(1, 1, Nothing, Nothing)},
       !.dataset_attribution_suggestions =
           {[id |-> 1, dataset |-> d1, existing_word_id |-> 1, suggested_word_id |-> Null,
             is_delete |-> TRUE, user |-> u]},
       !.word_deletion_suggestions = {[id |-> 1, word_id |-> 1]},
       !.example_deletion_suggestions = {[id |-> 1, example_id |-> 1]},
       !.linked_word_deletion_suggestions = {[id |-> 1, linked_word_id |-> 1]},
       !.seq = [Seq0 EXCEPT !["words"] = 2, !["examples"] = 1, !["linked_words"] = 1,
                            !["word_suggestions"] = 1, !["example_suggestions"] = 1,
                            !["linked_word_suggestions"] = 1,
                            !["dataset_attribution_suggestions"] = 1,
                            !["word_deletion_suggestions"] = 1,
                            !["linked_word_deletion_suggestions"] = 1]]

\* Two words with a link between them and an edit of its type; a suggestion of a
\* new word that either end of the link can be moved to.
LinkDb ==
    [EmptyDb EXCEPT
       !.words = {1, 2},
       !.linked_words = {[id |-> 1, first_word_id |-> 1, second_word_id |-> 2]},
       !.word_suggestions = {Suggestion(1, Null)},
       !.linked_word_suggestions = {LinkRow(1, 1, Nothing, Nothing)},
       !.seq = [Seq0 EXCEPT !["words"] = 2, !["linked_words"] = 1,
                            !["word_suggestions"] = 1, !["linked_word_suggestions"] = 1]]
EditsDbs == {PartsDb, LinkDb}

\* Two suggestions of new words that are linked to each other.
PairDb ==
    [EmptyDb EXCEPT
       !.word_suggestions = {Suggestion(1, Null), Suggestion(2, Null)},
       !.linked_word_suggestions = {LinkRow(1, Null, Suggested(1), Suggested(2))},
       !.seq = [Seq0 EXCEPT !["word_suggestions"] = 2, !["linked_word_suggestions"] = 1]]

\* The suggestion of a new word of WordsDb alone: with an example and a link to
\* the word, and with an example and a dataset.
NewWordDb ==
    [WordsDb EXCEPT !.word_suggestions = {Suggestion(1, Null)},
                    !.seq["word_suggestions"] = 1,
                    !.dataset_attribution_suggestions = {},
                    !.seq["dataset_attribution_suggestions"] = 0]
NewAttributedWordDb ==
    [WordsDb EXCEPT !.word_suggestions = {Suggestion(1, Null)},
                    !.seq["word_suggestions"] = 1,
                    !.linked_word_suggestions = {},
                    !.seq["linked_word_suggestions"] = 0]
DecidedDbs == {PartsDb, NewWordDb, NewAttributedWordDb, PairDb}

\* WordsDb after a third suggestion was rejected.
RejectedDb == [WordsDb EXCEPT !.seq["word_suggestions"] = 3]
FormsDbs == {RejectedDb, LinksDb, PartsDb}
=============================================================================
