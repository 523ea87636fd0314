----------------------------- MODULE Submission -----------------------------
(***************************************************************************)
(* The submission of a word form (server/src/database/submit.rs): a new    *)
(* word, an edit of an existing word, or an edit of either kind of         *)
(* suggestion.  A form is filled from the database when its page is        *)
(* rendered and may be sent at any later time, more than once; what it was *)
(* not showing, or has lost since, is compared with the tables of that     *)
(* later time.                                                             *)
(***************************************************************************)
EXTENDS Requests, FiniteSets

CONSTANTS Edits,     \* what users change in a form before they send it
          MaxForms   \* bound: forms shown in a behaviour

AllEdits == {"new_word", "word", "drop_link", "retarget_link", "retype_link", "add_link",
             "drop_example", "change_example", "add_example", "datasets"}

LinkEntry == [suggestion_id: OptionalId, existing_id: OptionalId,
              other: WordOrSuggestionId, retyped: BOOLEAN]
ExampleEntry == [suggestion_id: OptionalId, existing_id: OptionalId, changed: BOOLEAN]

Form == [suggestion_id: OptionalId, existing_id: OptionalId,
         links: SUBSET LinkEntry, examples: SUBSET ExampleEntry,
         datasets: SUBSET Datasets]

WordSubmission ==
    [suggestion_id: OptionalId, existing_id: OptionalId,
     links: SUBSET LinkEntry, examples: SUBSET ExampleEntry,
     datasets: SUBSET Datasets, user: Users]

-----------------------------------------------------------------------------
(* The form: WordFormTemplate::fetch_from_db *)

OtherWord(l, w) == IF l.first_word_id # w THEN l.first_word_id ELSE l.second_word_id
LinksOf(d, w) == {l \in d.linked_words : l.first_word_id = w \/ l.second_word_id = w}

ExistingLinkEntries(d, w) ==
    {[suggestion_id |-> Null, existing_id |-> l.id,
      other |-> Existing(OtherWord(l, w)), retyped |-> FALSE] : l \in LinksOf(d, w)}

ExistingExampleEntries(d, w) ==
    {[suggestion_id |-> Null, existing_id |-> e.id, changed |-> FALSE] :
        e \in {x \in d.examples : x.word_id = w}}

\* SuggestedLinkedWord::other: the side that is not the suggestion itself.
SuggestedLinkEntries(d, s, this) ==
    LET Other(ends) == IF ends.second = this THEN ends.first ELSE ends.second
    IN  {[suggestion_id |-> r.id, existing_id |-> r.existing_linked_word_id,
          other |-> Other(FirstAndSecond(d, r, FALSE)), retyped |-> FALSE] :
            r \in LinkSuggestionsOf(d, s)}

\* Faulty: the form does not carry the suggestion's id.
AnonymousExampleEntries(d, s) ==
    {[suggestion_id |-> Null, existing_id |-> r.existing_example_id, changed |-> FALSE] :
        r \in ExampleSuggestionsOf(d, s)}

SuggestedExampleEntries(d, s) ==
    {[suggestion_id |-> r.id, existing_id |-> r.existing_example_id, changed |-> FALSE] :
        r \in ExampleSuggestionsOf(d, s)}

NewWordForm ==
    [suggestion_id |-> Null, existing_id |-> Null, links |-> {}, examples |-> {},
     datasets |-> {}]

FormOfWord(d, w) ==
    [suggestion_id |-> Null, existing_id |-> w,
     links |-> ExistingLinkEntries(d, w), examples |-> ExistingExampleEntries(d, w),
     datasets |-> {r[2] : r \in {q \in d.dataset_attributions : q[1] = w}}]

\* For a suggested edit, the parts of the existing word are added to those of
\* the suggestion, except for its datasets.
FormOfSuggestion(d, row) ==
    LET w == row.existing_word_id
        this == IF w = Null THEN Suggested(row.id) ELSE Existing(w)
    IN  [suggestion_id |-> row.id, existing_id |-> w,
         links |-> SuggestedLinkEntries(d, row.id, this) \cup
                   (IF w = Null THEN {} ELSE ExistingLinkEntries(d, w)),
         examples |-> SuggestedExampleEntries(d, row.id) \cup
                      (IF w = Null THEN {} ELSE ExistingExampleEntries(d, w)),
         datasets |-> {r.dataset : r \in DatasetSuggestionsOf(d, row.id)}]

Show(route, form) ==
    /\ route \in Routes
    /\ form \notin forms
    /\ Cardinality(forms) < MaxForms
    /\ forms' = forms \cup {form}
    /\ UNCHANGED <<db, index, todo, arrivals, claims, origin, broken>>
    /\ Observe

\* The edit page of a word, empty but for the id when there is no such word.
edit_word_page ==
    \E w \in 1 .. db.seq["words"] :
        Show("edit_word_page", FormOfWord(db, w))

\* The edit page of a suggestion: a missing one, or a link of it that does not
\* name two words, is a panic instead of a page.
edit_suggestion_page ==
    \E row \in db.word_suggestions :
        /\ LinksPopulate(db, row.id)
        /\ Show("edit_suggestion_page", FormOfSuggestion(db, row))

-----------------------------------------------------------------------------
(* What the user sends *)

\* The live search offers the documents of the index but those that have the
\* number of the page's own word, whichever kind they are.
Offered(form) ==
    LET this == IF form.suggestion_id # Null THEN form.suggestion_id
                ELSE form.existing_id
    IN  {doc \in index : doc[2] # this}

LinkEdits(form) ==
    LET kept == IF "drop_link" \in Edits THEN SUBSET form.links ELSE {form.links}
        Retargeted(L) == {(L \ {e}) \cup {[e EXCEPT !.other = doc]} :
                             e \in L, doc \in Offered(form)}
        Retyped(L) == {(L \ {e}) \cup {[e EXCEPT !.retyped = TRUE]} : e \in L}
        Added(L) == {L \cup {[suggestion_id |-> Null, existing_id |-> Null,
                              other |-> doc, retyped |-> FALSE]} : doc \in Offered(form)}
    IN  UNION {{L} \cup (IF "retarget_link" \in Edits THEN Retargeted(L) ELSE {})
                   \cup (IF "retype_link" \in Edits THEN Retyped(L) ELSE {})
                   \cup (IF "add_link" \in Edits THEN Added(L) ELSE {}) : L \in kept}

ExampleEdits(form) ==
    LET kept == IF "drop_example" \in Edits THEN SUBSET form.examples ELSE {form.examples}
        Changed(E) == {(E \ {e}) \cup {[e EXCEPT !.changed = TRUE]} : e \in E}
        Added(E) == {E \cup {[suggestion_id |-> Null, existing_id |-> Null,
                              changed |-> TRUE]}}
    IN  UNION {{E} \cup (IF "change_example" \in Edits THEN Changed(E) ELSE {})
                   \cup (IF "add_example" \in Edits THEN Added(E) ELSE {}) : E \in kept}

Submissions(form) ==
    [suggestion_id: {form.suggestion_id}, existing_id: {form.existing_id},
     links: LinkEdits(form), examples: ExampleEdits(form),
     datasets: IF "datasets" \in Edits THEN SUBSET Datasets ELSE {form.datasets},
     user: Users]

\* The rows a submission is about: the word and the suggestion it edits and
\* the words it links to.
AboutSubmission(w) ==
    {ref \in {Suggested(w.suggestion_id), Existing(w.existing_id)} : ref[2] # Null}
    \cup {e.other : e \in w.links}

submit_suggestion(t) ==
    \E form \in forms \cup (IF "new_word" \in Edits THEN {NewWordForm} ELSE {}) :
        \E w \in Submissions(form) :
            Arrive(t, "submit_suggestion",
                   <<[op |-> "read_original", word |-> w]>>, AboutSubmission(w))

-----------------------------------------------------------------------------
(* submit_suggestion: the suggestion row, then its document, then the parts *)

\* any_changes: the fields sent are compared with the suggestion being edited
\* or, when that is gone, with the word as it is now.  Fields are not modelled
\* and the form may be stale, so either outcome is possible; against a word
\* that is not there either, everything is a change.
read_original(t) ==
    /\ At(t, "read_original")
    /\ LET w == Current(t).word
           found == w.suggestion_id \in Ids(db.word_suggestions)
           blank == ~found /\ w.existing_id \notin db.words
       IN  \E changed \in BOOLEAN :
             /\ blank => changed
             /\ changed => blank \/ "word" \in Edits
             /\ Read(t, found => LinksPopulate(db, w.suggestion_id),
                     <<[op |-> "insert_suggestion", word |-> w, found |-> found,
                        changed |-> changed]>>, {})

\* The parts are processed one after the other, each reading what is there by
\* then; new is the suggestion when it is for a new word.
ProcessParts(w, new) ==
    <<[op |-> "process_linked_words", word |-> w, new |-> new],
      [op |-> "process_examples", word |-> w, new |-> new],
      [op |-> "process_datasets", word |-> w, new |-> new]>>

\* Faulty: suggested edits are indexed as well.
IndexEverySuggestion(c, s) ==
    LET new == IF c.word.existing_id = Null THEN s ELSE Null
    IN  <<IndexPut(Suggested(s))>> \o ProcessParts(c.word, new)

\* Only suggestions of new words are indexed.
AfterInsert(c, s) ==
    LET new == IF c.word.existing_id = Null THEN s ELSE Null
    IN  (IF new # Null /\ (~c.found \/ c.changed)
         THEN <<IndexPut(Suggested(new))>> ELSE <<>>)
        \o ProcessParts(c.word, new)

\* The upsert leaves the suggesting user of a row that is there alone.  A row
\* that was accepted or rejected in the meantime is inserted again.
insert_suggestion(t) ==
    /\ At(t, "insert_suggestion")
    /\ LET c == Current(t)
           s == KeyOrNext(db, "word_suggestions", c.word.suggestion_id)
           old == {r \in db.word_suggestions : r.id = s}
           user == IF old = {} THEN c.word.user ELSE RowOf(old, s).user
           row == [id |-> s, existing_word_id |-> c.word.existing_id, user |-> user]
       IN  IF ~c.changed
           THEN Read(t, TRUE, AfterInsert(c, c.word.suggestion_id), {})
           ELSE IF ~WordSuggestionOk(db, row) THEN Refuse(t)
           ELSE /\ db' = [db EXCEPT !.word_suggestions = Put(@, row),
                                    !.seq = Bump(@, "word_suggestions", s)]
                /\ Continue(t, AfterInsert(c, s), {Suggested(s)})
                /\ broken' = IF c.word.suggestion_id # Null /\ old = {}
                             THEN broken \cup {Suggested(s)} ELSE broken
                /\ UNCHANGED <<index, forms, arrivals, origin>>
                /\ Observe

-----------------------------------------------------------------------------
(* process_linked_words *)

\* One statement of the loops: an upsert of a suggestion row, the DELETE of one,
\* or the suggestion that an existing row be deleted.
Upsert(row) == [do |-> "upsert", row |-> row]
Delete(id) == [do |-> "delete", id |-> id]
SuggestDeletion(id) == [do |-> "suggest_deletion", id |-> id]

LinkSuggestion(e, user, first, second) ==
    Upsert([id |-> e.suggestion_id, existing_linked_word_id |-> e.existing_id,
            first_existing_word_id |-> IntoExisting(first),
            second_existing_word_id |-> IntoExisting(second),
            suggested_word_id |-> IntoSuggested(first),
            second_suggested_word_id |-> IntoSuggested(second), user |-> user])

Nothing == <<"existing", Null>>

\* Links of a suggested word: those still in the form are written again, the
\* rest are deleted.
LinksOfSuggestion(w) ==
    LET prev == LinkSuggestionsOf(db, w.suggestion_id)
        kept == {e \in w.links : e.suggestion_id \in Ids(prev)}
    IN  [kept |-> kept,
         writes |-> {LinkSuggestion(e, w.user, Suggested(w.suggestion_id), e.other) :
                        e \in kept}
                    \cup {Delete(r.id) : r \in {q \in prev :
                             \A e \in w.links : e.suggestion_id # q.id}}]

\* Links of an existing word: a change is suggested for those that differ,
\* naming the new other word alone, and deletion for those not in the form.
LinksOfWord(w) ==
    LET this == w.existing_id
        prev == LinksOf(db, this)
        kept == {e \in w.links : e.existing_id \in Ids(prev)}
        Old(e) == RowOf(prev, e.existing_id)
        differs == {e \in kept : e.retyped \/ e.other # Existing(OtherWord(Old(e), this))}
        Changed(e, old) == IF e.other = Existing(old) THEN Nothing ELSE e.other
        Edit(e) == IF this = Old(e).first_word_id
                   THEN LinkSuggestion(e, w.user, Nothing, Changed(e, Old(e).second_word_id))
                   ELSE LinkSuggestion(e, w.user, Changed(e, Old(e).first_word_id), Nothing)
    IN  [kept |-> kept,
         writes |-> {Edit(e) : e \in differs}
                    \cup {SuggestDeletion(l.id) : l \in {q \in prev :
                             \A e \in w.links : e.existing_id # q.id}}]

process_linked_words(t) ==
    /\ At(t, "process_linked_words")
    /\ LET c == Current(t)
           w == c.word
           editing == w.existing_id = Null /\ w.suggestion_id # Null
           old == IF w.existing_id # Null THEN LinksOfWord(w)
                  ELSE IF w.suggestion_id # Null THEN LinksOfSuggestion(w)
                  ELSE [kept |-> {}, writes |-> {}]
           this == IF w.existing_id # Null THEN Existing(w.existing_id)
                   ELSE Suggested(c.new)
           added == {LinkSuggestion(e, w.user, this, e.other) : e \in w.links \ old.kept}
       IN  IF editing /\ ~LinksPopulate(db, w.suggestion_id) THEN Panic(t)
           ELSE Read(t, TRUE,
                     Loop([op |-> "write_link", rows |-> {}], old.writes)
                     \o Loop([op |-> "write_link", rows |-> {}], added), {})

\* Faulty: a new row gets the NULL of the form for a key.
LinkRowAsSent(d, new) == new

\* ON CONFLICT(suggestion_id) rewrites the two ends; the link being edited and
\* the suggesting user stay.
LinkRowAfter(d, new) ==
    IF new.id \in Ids(d.linked_word_suggestions)
    THEN LET old == RowOf(d.linked_word_suggestions, new.id)
         IN  [new EXCEPT !.existing_linked_word_id = old.existing_linked_word_id,
                         !.user = old.user]
    ELSE [new EXCEPT !.id = KeyOrNext(d, "linked_word_suggestions", new.id)]

\* INSERT of a deletion suggestion: ignored when there is one for the link.
SuggestLinkDeletion(d, link) ==
    LET T == d.linked_word_deletion_suggestions
        key == d.seq["linked_word_deletion_suggestions"] + 1
    IN  IF \E r \in T : r.linked_word_id = link THEN d
        ELSE [d EXCEPT
                !.linked_word_deletion_suggestions =
                    @ \cup {[id |-> key, linked_word_id |-> link]},
                !.seq = Bump(@, "linked_word_deletion_suggestions", key)]

write_link(t) ==
    /\ At(t, "write_link")
    /\ LET c == Current(t)
       IN  \E s \in c.rows :
             LET rest == Loop(c, c.rows \ {s})
             IN  \/ /\ s.do = "upsert"
                    /\ LET row == LinkRowAfter(db, s.row)
                       IN  Write(t, LinkedWordSuggestionOk(db, row),
                                 [db EXCEPT
                                    !.linked_word_suggestions = Put(@, row),
                                    !.seq = Bump(@, "linked_word_suggestions", row.id)],
                                 rest)
                 \/ /\ s.do = "delete"
                    /\ Write(t, TRUE,
                             [db EXCEPT !.linked_word_suggestions = Drop(@, s.id)], rest)
                 \/ /\ s.do = "suggest_deletion"
                    /\ Write(t, s.id \in Ids(db.linked_words),
                             SuggestLinkDeletion(db, s.id), rest)

-----------------------------------------------------------------------------
(* process_examples *)

\* Faulty: an edit of an example does not name the word.
ExampleEditAlone(e, user, suggested, existing) ==
    Upsert([id |-> e.suggestion_id,
            existing_word_id |-> IF e.existing_id = Null THEN existing ELSE Null,
            suggested_word_id |-> suggested, existing_example_id |-> e.existing_id,
            user |-> user])

ExampleSuggestion(e, user, suggested, existing) ==
    Upsert([id |-> e.suggestion_id, existing_word_id |-> existing,
            suggested_word_id |-> suggested, existing_example_id |-> e.existing_id,
            user |-> user])

ExamplesOfSuggestion(w, new) ==
    LET prev == ExampleSuggestionsOf(db, w.suggestion_id)
        kept == {e \in w.examples : e.suggestion_id \in Ids(prev)}
    IN  [kept |-> kept,
         writes |-> {ExampleSuggestion(e, w.user, new, Null) : e \in kept}
                    \cup {Delete(r.id) : r \in {q \in prev :
                             \A e \in w.examples : e.suggestion_id # q.id}}]

\* An example whose two texts were emptied counts as one not in the form.
ExamplesOfWord(w) ==
    LET prev == {x \in db.examples : x.word_id = w.existing_id}
        kept == {e \in w.examples : e.existing_id \in Ids(prev)}
    IN  [kept |-> kept,
         writes |-> {ExampleSuggestion(e, w.user, Null, w.existing_id) :
                        e \in {q \in kept : q.changed}}
                    \cup {SuggestDeletion(x.id) : x \in {q \in prev :
                             \A e \in w.examples : e.existing_id # q.id}}]

process_examples(t) ==
    /\ At(t, "process_examples")
    /\ LET c == Current(t)
           w == c.word
           old == IF w.existing_id # Null THEN ExamplesOfWord(w)
                  ELSE IF w.suggestion_id # Null THEN ExamplesOfSuggestion(w, c.new)
                  ELSE [kept |-> {}, writes |-> {}]
           added == {ExampleSuggestion(e, w.user, c.new, w.existing_id) :
                        e \in w.examples \ old.kept}
       IN  Read(t, TRUE,
                Loop([op |-> "write_example", rows |-> {}], old.writes)
                \o Loop([op |-> "write_example", rows |-> {}], added), {})

\* ON CONFLICT(suggestion_id) keeps the example being edited and the user.
ExampleRowAfter(d, new) ==
    IF new.id \in Ids(d.example_suggestions)
    THEN LET old == RowOf(d.example_suggestions, new.id)
         IN  [new EXCEPT !.existing_example_id = old.existing_example_id,
                         !.user = old.user]
    ELSE [new EXCEPT !.id = KeyOrNext(d, "example_suggestions", new.id)]

\* The key is not AUTOINCREMENT: it may be one a page has shown before.
SuggestExampleDeletion(d, example) ==
    LET T == d.example_deletion_suggestions
    IN  IF \E r \in T : r.example_id = example THEN d
        ELSE [d EXCEPT !.example_deletion_suggestions =
                           @ \cup {[id |-> NextRowid(T), example_id |-> example]}]

write_example(t) ==
    /\ At(t, "write_example")
    /\ LET c == Current(t)
       IN  \E s \in c.rows :
             LET rest == Loop(c, c.rows \ {s})
             IN  \/ /\ s.do = "upsert"
                    /\ LET row == ExampleRowAfter(db, s.row)
                       IN  Write(t, ExampleSuggestionOk(db, row),
                                 [db EXCEPT
                                    !.example_suggestions = Put(@, row),
                                    !.seq = Bump(@, "example_suggestions", row.id)],
                                 rest)
                 \/ /\ s.do = "delete"
                    /\ Write(t, TRUE,
                             [db EXCEPT !.example_suggestions = Drop(@, s.id)], rest)
                 \/ /\ s.do = "suggest_deletion"
                    /\ Write(t, s.id \in Ids(db.examples),
                             SuggestExampleDeletion(db, s.id), rest)

-----------------------------------------------------------------------------
(* process_datasets *)

\* A new word's suggestion has its list of datasets brought up to date; for an
\* existing word, additions and removals are suggested.
process_datasets(t) ==
    /\ At(t, "process_datasets")
    /\ LET c == Current(t)
           w == c.word
           current == IF c.new # Null
                      THEN {r.dataset : r \in DatasetSuggestionsOf(db, c.new)}
                      ELSE {d \in Datasets : <<w.existing_id, d>> \in db.dataset_attributions}
           Insert(d, is_delete) ==
               [do |-> "insert", dataset |-> d, is_delete |-> is_delete]
           add == {Insert(d, FALSE) : d \in w.datasets \ current}
           remove == {IF c.new # Null THEN Delete(d) ELSE Insert(d, TRUE) :
                         d \in current \ w.datasets}
       IN  Read(t, TRUE,
                Loop([op |-> "write_dataset", rows |-> {}, new |-> c.new,
                      existing_id |-> w.existing_id, user |-> w.user],
                     add \cup remove), {})

write_dataset(t) ==
    /\ At(t, "write_dataset")
    /\ LET c == Current(t)
           key == db.seq["dataset_attribution_suggestions"] + 1
       IN  \E s \in c.rows :
             LET rest == Loop(c, c.rows \ {s})
             IN  \/ /\ s.do = "insert"
                    /\ LET row == [id |-> key, dataset |-> s.dataset,
                                   existing_word_id |-> c.existing_id,
                                   suggested_word_id |-> c.new,
                                   is_delete |-> s.is_delete, user |-> c.user]
                       IN  Write(t, DatasetSuggestionOk(db, row),
                                 [db EXCEPT
                                    !.dataset_attribution_suggestions = @ \cup {row},
                                    !.seq = Bump(@, "dataset_attribution_suggestions", key)],
                                 rest)
                 \/ /\ s.do = "delete"
                    /\ Write(t, TRUE,
                             [db EXCEPT !.dataset_attribution_suggestions =
                                 {r \in @ : ~(r.dataset = s.id /\ r.suggested_word_id = c.new)}],
                             rest)

-----------------------------------------------------------------------------
(* suggest_word_deletion: ignored when the word has a deletion suggestion *)

suggest_word_deletion(t) ==
    \E w \in 1 .. db.seq["words"] :
        Arrive(t, "suggest_word_deletion",
               <<[op |-> "suggest_word_deletion", id |-> w]>>, {})

\* Faulty: the key is not AUTOINCREMENT.
insert_word_deletion_reusing(t) ==
    /\ At(t, "suggest_word_deletion")
    /\ LET w == Current(t).id
           T == db.word_deletion_suggestions
       IN  Write(t, w \in db.words,
                 IF \E r \in T : r.word_id = w THEN db
                 ELSE [db EXCEPT
                         !.word_deletion_suggestions =
                             @ \cup {[id |-> NextRowid(T), word_id |-> w]}],
                 <<>>)

insert_word_deletion(t) ==
    /\ At(t, "suggest_word_deletion")
    /\ LET w == Current(t).id
           T == db.word_deletion_suggestions
           key == db.seq["word_deletion_suggestions"] + 1
       IN  Write(t, w \in db.words,
                 IF \E r \in T : r.word_id = w THEN db
                 ELSE [db EXCEPT
                         !.word_deletion_suggestions = @ \cup {[id |-> key, word_id |-> w]},
                         !.seq = Bump(@, "word_deletion_suggestions", key)],
                 <<>>)
=============================================================================
