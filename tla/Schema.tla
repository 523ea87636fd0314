------------------------------- MODULE Schema -------------------------------
(***************************************************************************)
(* The tables of server/src/sql that a suggestion passes through on its    *)
(* way into the dictionary, and the effect of the statements that need     *)
(* more than a set union: primary keys, ON CONFLICT clauses and the        *)
(* ON DELETE CASCADE of every foreign key (rusqlite's bundled SQLite is    *)
(* built with foreign keys on).                                            *)
(*                                                                         *)
(* A table is a set of rows and a row is a record.  Columns that hold text *)
(* are left out: this module is about which rows exist and what they refer *)
(* to.  SQL's NULL is 0, which is never a row id.                          *)
(***************************************************************************)
EXTENDS Rowid, FiniteSets

CONSTANTS Users,     \* rows of the users table, which no handler removes
          Datasets   \* rows of the datasets table

Null == 0
Id == Nat \ {Null}
OptionalId == Nat

WordSuggestionRow == [id: Id, existing_word_id: OptionalId, user: Users]

ExampleRow == [id: Id, word_id: Id]

ExampleSuggestionRow ==
    [id: Id, existing_word_id: OptionalId, suggested_word_id: OptionalId,
     existing_example_id: OptionalId, user: Users]

LinkedWordRow == [id: Id, first_word_id: Id, second_word_id: Id]

LinkedWordSuggestionRow ==
    [id: Id, existing_linked_word_id: OptionalId,
     first_existing_word_id: OptionalId, second_existing_word_id: OptionalId,
     suggested_word_id: OptionalId, second_suggested_word_id: OptionalId,
     user: Users]

DatasetSuggestionRow ==
    [id: Id, dataset: Datasets, existing_word_id: OptionalId,
     suggested_word_id: OptionalId, is_delete: BOOLEAN, user: Users]

WordDeletionRow == [id: Id, word_id: Id]
ExampleDeletionRow == [id: Id, example_id: Id]
LinkedWordDeletionRow == [id: Id, linked_word_id: Id]

\* The tables whose key is AUTOINCREMENT: the largest id ever given out is
\* remembered in sqlite_sequence.  example_deletion_suggestions is not one.
AutoIncrement ==
    {"words", "word_suggestions", "examples", "example_suggestions",
     "linked_words", "linked_word_suggestions",
     "dataset_attribution_suggestions", "word_deletion_suggestions",
     "linked_word_deletion_suggestions"}

\* A table whose largest key is looked for holds finitely many rows.
FiniteTable(Row) == {T \in SUBSET Row : IsFiniteSet(T)}

Database ==
    [words: SUBSET Id,
     word_suggestions: SUBSET WordSuggestionRow,
     examples: SUBSET ExampleRow,
     example_suggestions: SUBSET ExampleSuggestionRow,
     linked_words: SUBSET LinkedWordRow,
     linked_word_suggestions: SUBSET LinkedWordSuggestionRow,
     dataset_attributions: SUBSET (Id \X Datasets),
     dataset_attribution_suggestions: SUBSET DatasetSuggestionRow,
     user_attributions: SUBSET (Id \X Users),
     word_deletion_suggestions: SUBSET WordDeletionRow,
     example_deletion_suggestions: FiniteTable(ExampleDeletionRow),
     linked_word_deletion_suggestions: SUBSET LinkedWordDeletionRow,
     seq: [AutoIncrement -> Nat]]

-----------------------------------------------------------------------------
(* Keys *)

Ids(T) == {r.id : r \in T}

\* The row of T with this id, for an id in Ids(T).
RowOf(T, id) == CHOOSE r \in T : r.id = id

\* Faulty: the key is not AUTOINCREMENT.
KeyOrNextRowid(d, table, id) ==
    IF id = Null THEN NextKey(IF table = "words" THEN d.words ELSE Ids(d[table])) ELSE id

\* The key an INSERT gets: the one it names or, when that is NULL, the next
\* of the sequence.
KeyOrNext(d, table, id) == IF id = Null THEN d.seq[table] + 1 ELSE id

\* AUTOINCREMENT remembers the largest key it has seen.
Bump(seq, table, id) ==
    [seq EXCEPT ![table] = IF id > @ THEN id ELSE @]

\* The key an INSERT gets in a table without one.
NextRowid(T) == NextKey(Ids(T))

\* INSERT ... ON CONFLICT(id) DO UPDATE of every column, and DELETE by id.
Put(T, row) == {r \in T : r.id # row.id} \cup {row}
Drop(T, id) == {r \in T : r.id # id}

-----------------------------------------------------------------------------
(* Foreign keys *)

Refers(id, ids) == id = Null \/ id \in ids

WordSuggestionOk(d, r) == Refers(r.existing_word_id, d.words)

ExampleSuggestionOk(d, r) ==
    /\ Refers(r.existing_word_id, d.words)
    /\ Refers(r.suggested_word_id, Ids(d.word_suggestions))
    /\ Refers(r.existing_example_id, Ids(d.examples))

LinkedWordOk(d, r) == r.first_word_id \in d.words /\ r.second_word_id \in d.words

LinkedWordSuggestionOk(d, r) ==
    /\ Refers(r.existing_linked_word_id, Ids(d.linked_words))
    /\ Refers(r.first_existing_word_id, d.words)
    /\ Refers(r.second_existing_word_id, d.words)
    /\ Refers(r.suggested_word_id, Ids(d.word_suggestions))
    /\ Refers(r.second_suggested_word_id, Ids(d.word_suggestions))

DatasetSuggestionOk(d, r) ==
    /\ Refers(r.existing_word_id, d.words)
    /\ Refers(r.suggested_word_id, Ids(d.word_suggestions))

\* Faulty: example_suggestions.existing_example_id has no REFERENCES clause.
CascadeKeepingExampleEdits(d) ==
    [d EXCEPT
       !.linked_word_suggestions = {r \in @ : LinkedWordSuggestionOk(d, r)},
       !.dataset_attributions = {r \in @ : r[1] \in d.words},
       !.dataset_attribution_suggestions = {r \in @ : DatasetSuggestionOk(d, r)},
       !.user_attributions = {r \in @ : r[1] \in d.words},
       !.word_deletion_suggestions = {r \in @ : r.word_id \in d.words},
       !.example_deletion_suggestions = {r \in @ : r.example_id \in Ids(d.examples)},
       !.linked_word_deletion_suggestions =
           {r \in @ : r.linked_word_id \in Ids(d.linked_words)}]

\* ON DELETE CASCADE after rows of words, word_suggestions, examples or
\* linked_words went away: first the rows those tables lose to one another,
\* then every row left pointing at nothing.
CascadeParents(d) ==
    [d EXCEPT
       !.word_suggestions = {r \in @ : WordSuggestionOk(d, r)},
       !.examples = {r \in @ : r.word_id \in d.words},
       !.linked_words = {r \in @ : LinkedWordOk(d, r)}]

CascadeLeaves(d) ==
    [d EXCEPT
       !.example_suggestions = {r \in @ : ExampleSuggestionOk(d, r)},
       !.linked_word_suggestions = {r \in @ : LinkedWordSuggestionOk(d, r)},
       !.dataset_attributions = {r \in @ : r[1] \in d.words},
       !.dataset_attribution_suggestions = {r \in @ : DatasetSuggestionOk(d, r)},
       !.user_attributions = {r \in @ : r[1] \in d.words},
       !.word_deletion_suggestions = {r \in @ : r.word_id \in d.words},
       !.example_deletion_suggestions = {r \in @ : r.example_id \in Ids(d.examples)},
       !.linked_word_deletion_suggestions =
           {r \in @ : r.linked_word_id \in Ids(d.linked_words)}]

Cascade(d) == CascadeLeaves(CascadeParents(d))

\* Faulty: foreign keys are not enforced.
UncascadedWordSuggestion(d, s) == [d EXCEPT !.word_suggestions = Drop(@, s)]

\* DELETE FROM words, word_suggestions, examples, linked_words by id.
WithoutWord(d, w) == Cascade([d EXCEPT !.words = @ \ {w}])
WithoutWordSuggestion(d, s) == Cascade([d EXCEPT !.word_suggestions = Drop(@, s)])
WithoutExample(d, e) == Cascade([d EXCEPT !.examples = Drop(@, e)])
WithoutLinkedWord(d, l) == Cascade([d EXCEPT !.linked_words = Drop(@, l)])

-----------------------------------------------------------------------------
(* What the statements of the handlers keep true of the tables *)

\* Every foreign key column names a row that exists.
ForeignKeysHold(d) ==
    /\ \A r \in d.word_suggestions : WordSuggestionOk(d, r)
    /\ \A r \in d.examples : r.word_id \in d.words
    /\ \A r \in d.example_suggestions : ExampleSuggestionOk(d, r)
    /\ \A r \in d.linked_words : LinkedWordOk(d, r)
    /\ \A r \in d.linked_word_suggestions : LinkedWordSuggestionOk(d, r)
    /\ \A r \in d.dataset_attributions : r[1] \in d.words
    /\ \A r \in d.dataset_attribution_suggestions : DatasetSuggestionOk(d, r)
    /\ \A r \in d.user_attributions : r[1] \in d.words
    /\ \A r \in d.word_deletion_suggestions : r.word_id \in d.words
    /\ \A r \in d.example_deletion_suggestions : r.example_id \in Ids(d.examples)
    /\ \A r \in d.linked_word_deletion_suggestions :
          r.linked_word_id \in Ids(d.linked_words)

\* No id was given out that the sequence has not passed.
SequencePassed(d, table, ids) == \A i \in ids : i <= d.seq[table]

KeysAllocated(d) ==
    /\ SequencePassed(d, "words", d.words)
    /\ SequencePassed(d, "word_suggestions", Ids(d.word_suggestions))
    /\ SequencePassed(d, "examples", Ids(d.examples))
    /\ SequencePassed(d, "example_suggestions", Ids(d.example_suggestions))
    /\ SequencePassed(d, "linked_words", Ids(d.linked_words))
    /\ SequencePassed(d, "linked_word_suggestions", Ids(d.linked_word_suggestions))
    /\ SequencePassed(d, "dataset_attribution_suggestions",
                      Ids(d.dataset_attribution_suggestions))
    /\ SequencePassed(d, "word_deletion_suggestions", Ids(d.word_deletion_suggestions))
    /\ SequencePassed(d, "linked_word_deletion_suggestions",
                      Ids(d.linked_word_deletion_suggestions))

\* An id is of one row.
Keyed(T) == \A p, q \in T : p.id = q.id => p = q

KeysUnique(d) ==
    /\ Keyed(d.word_suggestions) /\ Keyed(d.examples) /\ Keyed(d.example_suggestions)
    /\ Keyed(d.linked_words) /\ Keyed(d.linked_word_suggestions)
    /\ Keyed(d.dataset_attribution_suggestions) /\ Keyed(d.word_deletion_suggestions)
    /\ Keyed(d.example_deletion_suggestions) /\ Keyed(d.linked_word_deletion_suggestions)

\* No link is suggested of a suggestion with itself: its own form does not offer it.
LinksApart(d) ==
    \A r \in d.linked_word_suggestions :
        r.suggested_word_id = Null \/ r.suggested_word_id # r.second_suggested_word_id

\* A row names two words when two of its columns do.
WordColumns == {"first_existing_word_id", "second_existing_word_id",
                "suggested_word_id", "second_suggested_word_id"}
NamesTwo(r) == \E c, k \in WordColumns : c # k /\ r[c] # Null /\ r[k] # Null

\* Edits are where the forms of words put them: that of an example under the
\* example's word and under no suggestion, that of a link with the one word that
\* the link is moved to, if any.
EditsFiled(d) ==
    /\ \A r \in d.example_suggestions :
          r.existing_example_id # Null =>
              /\ r.suggested_word_id = Null
              /\ \A x \in d.examples :
                    x.id = r.existing_example_id => x.word_id = r.existing_word_id
    /\ \A r \in d.linked_word_suggestions :
          r.existing_linked_word_id # Null => ~NamesTwo(r)

\* Parts are where forms put them: those of a suggestion name no word beside it,
\* and it is a suggestion of a new word; a link names two words at most.
PartsFiled(d) ==
    LET New(s) == \A r \in d.word_suggestions : r.id = s => r.existing_word_id = Null
    IN  /\ \A r \in d.example_suggestions :
              New(r.suggested_word_id) /\ (r.suggested_word_id # Null => r.existing_word_id = Null)
        /\ \A r \in d.dataset_attribution_suggestions : New(r.suggested_word_id)
        /\ \A r \in d.linked_word_suggestions :
              /\ New(r.suggested_word_id) /\ New(r.second_suggested_word_id)
              /\ \A c, k, m \in WordColumns :
                    r[c] # Null /\ r[k] # Null /\ r[m] # Null => c = k \/ k = m \/ c = m

\* A database the program can have: well typed, no dangling reference.
Consistent(d) ==
    /\ d \in Database /\ ForeignKeysHold(d) /\ KeysAllocated(d) /\ KeysUnique(d)
    /\ LinksApart(d)
=============================================================================
