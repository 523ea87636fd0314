----------------------------- MODULE WordFields -----------------------------
(***************************************************************************)
(* The columns of a word on their way from a form through a suggestion     *)
(* into the dictionary (server/src/database/submit.rs and suggestion.rs).  *)
(* A suggested edit holds NULL where the user changed nothing; what is     *)
(* NULL is filled in from the word whenever the suggestion is read, and an *)
(* acceptance writes every column of the word with what it read.           *)
(*                                                                         *)
(* One column stands for all that are treated alike: english for the five  *)
(* texts and is_inchoative, noun_class for itself and transitivity.        *)
(***************************************************************************)
EXTENDS Naturals, FiniteSets

CONSTANTS Threads,
          Texts, PartsOfSpeech, NounClasses, Moods,   \* values of the columns
          None,      \* Option::None
          Null,      \* SQL's NULL
          Remove,    \* 255, WithDeleteSentinel::Remove
          Empty,     \* the empty text
          Words, Suggestions,   \* bounds: the ids SQLite may give out
          MaxRequests,          \* bound: requests in a behaviour
          MaxForms,             \* bound: forms shown in a behaviour
          MaxTouched,           \* bound: fields a user changes in a form
          InitialWords,         \* what the first word may be at the start
          NewWords              \* what users may suggest as new words

\* Nothing that stands for a missing value is a value.
ASSUME MissingAssumption ==
    /\ Null \notin Texts /\ Null \notin PartsOfSpeech /\ Null \notin NounClasses
    /\ Null \notin Moods /\ Null \notin BOOLEAN /\ Null \notin {Empty, None, Remove}
    /\ None \notin Texts /\ None \notin PartsOfSpeech /\ None \notin NounClasses
    /\ None \notin Moods /\ None \notin BOOLEAN /\ None \notin {Empty, Remove}
    /\ Remove \notin NounClasses

Fields == {"english", "is_plural", "is_informal", "part_of_speech", "noun_class", "followed_by"}

Columns ==
    [english: Texts \cup {Empty}, is_plural: BOOLEAN, is_informal: BOOLEAN,
     part_of_speech: PartsOfSpeech \cup {None}, noun_class: NounClasses \cup {None},
     followed_by: Moods \cup {None}]

\* The columns of a suggestion.
Stored ==
    [english: Texts \cup {Empty, Null}, is_plural: BOOLEAN \cup {Null},
     is_informal: BOOLEAN \cup {Null}, part_of_speech: PartsOfSpeech \cup {Null},
     noun_class: NounClasses \cup {Null, Remove}, followed_by: Moods \cup {Null}]

WordTable == [Words -> Columns \cup {Null}]
Row == [existing: Words \cup {Null}, columns: Stored]
Form == [suggestion: Suggestions \cup {Null}, existing: Words \cup {Null}, shown: Columns]

\* What was typed in a suggestion, and the word it was compared with.
Meaning == [existing: Words \cup {Null}, typed: Columns, base: Columns]

ASSUME WordsAssumption ==
    /\ Words \subseteq Nat /\ Suggestions \subseteq Nat
    /\ Null \notin Words /\ Null \notin Suggestions
    /\ Null \notin Columns /\ Null \notin Row /\ Null \notin Meaning
    /\ InitialWords \subseteq Columns
    /\ 1 \in Words /\ 1 \in Suggestions

\* WordFormTemplate::default().
Default ==
    [english |-> Empty, is_plural |-> FALSE, is_informal |-> FALSE,
     part_of_speech |-> None, noun_class |-> None, followed_by |-> None]

\* What the form lets a user send: its text and its part of speech are required.
Sendable == {w \in Columns : w.english # Empty /\ w.part_of_speech # None}

\* What a user may send from a form that shows these columns.
Typed(shown) ==
    {w \in Sendable : Cardinality({f \in Fields : w[f] # shown[f]}) <= MaxTouched}

-----------------------------------------------------------------------------
(* From a form to the columns of a suggestion *)

\* A field with no value is bound as NULL like one that was not changed.
Bound(value) == IF value = None THEN Null ELSE value

\* Faulty: a new word is compared with the empty form as well.
Faulty_diff(value, template, override_use_value) ==
    IF value # template THEN Bound(value) ELSE Null

diff(value, template, override_use_value) ==
    IF override_use_value \/ value # template THEN Bound(value) ELSE Null

\* Faulty: a value that was removed is NULL.
Faulty_diff_with_sentinel(value, template) ==
    IF value # None /\ value # template THEN value ELSE Null

diff_with_sentinel(value, template) ==
    IF value # None /\ value # template THEN value
    ELSE IF value = None /\ template # None THEN Remove
    ELSE Null

\* The parameters of INSERT_SUGGESTION.
Params(typed, orig, use_submitted) ==
    [f \in Fields |->
        IF f = "noun_class" THEN diff_with_sentinel(typed[f], orig[f])
        ELSE diff(typed[f], orig[f], use_submitted)]

has_any_changes_in_word(typed, template) ==
    \E f \in Fields \ {"followed_by"} : typed[f] # template[f]

-----------------------------------------------------------------------------
(* From the columns of a suggestion to its fields: from_row_fetch_original *)

\* from_row is given the word's is_plural as the original of is_informal.
Original(f) == IF f = "is_informal" THEN "is_plural" ELSE f

\* Faulty: what the word has comes first.
Faulty_from_row(column, old) == IF old # None THEN old ELSE column

\* from_row, and the match on followed_by, both followed by current().
from_row(column, old) == IF column # Null THEN column ELSE old

\* Faulty: the sentinel is taken for a value.
Faulty_from_row_with_sentinel(column, old) ==
    IF column = Null THEN old ELSE column

from_row_with_sentinel(column, old) ==
    IF column = Remove THEN None ELSE IF column = Null THEN old ELSE column

\* Every field as current() of what a suggestion with these columns is read as,
\* beside the word it edits or, for a new word, beside Default.
current(columns, word) ==
    [f \in Fields |->
        IF f = "noun_class" THEN from_row_with_sentinel(columns[f], word[f])
        ELSE from_row(columns[f], word[Original(f)])]

\* "Field in suggestion unfilled; this is an error!": the columns a suggestion
\* of a new word cannot do without.
Filled(columns) ==
    \A f \in Fields \ {"noun_class", "followed_by"} : columns[f] # Null

-----------------------------------------------------------------------------
VARIABLES
    words,         \* the table words: the columns of a row, Null where there is none
    suggestions,   \* the table word_suggestions
    last_id,       \* sqlite_sequence of word_suggestions
    forms,         \* what forms that users have open show
    todo,          \* what each thread does next, with what it has read
    arrivals,
    \* history, read by no action
    meant,         \* what was typed in each suggestion, and the word it is an edit of
    agreed,        \* what the suggestions accepted so far say of each word
    overlapped,    \* words two acceptances wrote to at the same time
    misread        \* words whose is_informal was read from their is_plural

vars == <<words, suggestions, last_id, forms, todo, arrivals, meant, agreed, overlapped, misread>>

Idle(t) == todo[t].at = "idle"
At(t, call) == todo[t].at = call
Do(t, next) == todo' = [todo EXCEPT ![t] = next]
Done(t) == Do(t, [at |-> "idle"])

Exists(id, table) == id # Null /\ table[id] # Null

\* The word a suggestion or a form is compared with.
OriginalOf(existing) == IF Exists(existing, words) THEN words[existing] ELSE Default

Read(id) == current(suggestions[id].columns, OriginalOf(suggestions[id].existing))

\* One word, and nothing suggested yet or one edit of it.
NothingSuggested ==
    /\ suggestions = [s \in Suggestions |-> Null]
    /\ meant = [s \in Suggestions |-> Null]
    /\ last_id = 0

OneEditSuggested ==
    \E typed \in Typed(words[1]) :
        /\ has_any_changes_in_word(typed, words[1])
        /\ suggestions = [s \in Suggestions |->
              IF s = 1 THEN [existing |-> 1, columns |-> Params(typed, words[1], FALSE)] ELSE Null]
        /\ meant = [s \in Suggestions |->
              IF s = 1 THEN [existing |-> 1, typed |-> typed, base |-> words[1]] ELSE Null]
        /\ last_id = 1

Init ==
    /\ words \in {[w \in Words |-> IF w = 1 THEN c ELSE Null] : c \in InitialWords}
    /\ NothingSuggested \/ OneEditSuggested
    /\ forms = {}
    /\ todo = [t \in Threads |-> [at |-> "idle"]]
    /\ arrivals = 0
    /\ agreed = words
    /\ overlapped = {}
    /\ misread = {}

-----------------------------------------------------------------------------
(* Pages with a form on them: submit_word_page *)

Show(form) ==
    /\ Cardinality(forms) < MaxForms
    /\ forms' = forms \cup {form}
    /\ UNCHANGED <<words, suggestions, last_id, todo, arrivals, meant, agreed, overlapped, misread>>

edit_word_page ==
    \E w \in Words :
        /\ Exists(w, words)
        /\ Show([suggestion |-> Null, existing |-> w, shown |-> words[w]])

\* A form for an edit of a suggestion, of a new word or of a word.
edit_suggestion_page ==
    \E s \in Suggestions :
        /\ Exists(s, suggestions)
        /\ Show([suggestion |-> s, existing |-> suggestions[s].existing, shown |-> Read(s)])

-----------------------------------------------------------------------------
(* submit_suggestion *)

Arrive(t, first) ==
    /\ Idle(t) /\ arrivals < MaxRequests
    /\ arrivals' = arrivals + 1
    /\ Do(t, first)

NewWordForm == [suggestion |-> Null, existing |-> Null, shown |-> Default]

\* A form may be sent more than once and at any time after it was shown.
submit_suggestion(t) ==
    \E form \in forms \cup {NewWordForm}, typed \in Sendable :
        /\ IF form.existing = Null /\ form.suggestion = Null
           THEN typed \in NewWords ELSE typed \in Typed(form.shown)
        /\ Arrive(t, [at |-> "read_original", suggestion |-> form.suggestion,
                      existing |-> form.existing, typed |-> typed])
        /\ UNCHANGED <<words, suggestions, last_id, forms, meant, agreed, overlapped, misread>>

\* orig, and with it the parameters of the INSERT: the form is compared with the
\* word as it is now, not as the form showed it.
read_original(t) ==
    /\ At(t, "read_original")
    /\ LET w == todo[t]
           orig == OriginalOf(w.existing)
       IN  Do(t, [at |-> "read_suggestion", suggestion |-> w.suggestion,
                  existing |-> w.existing, typed |-> w.typed, orig |-> orig,
                  columns |-> Params(w.typed, orig, w.existing = Null)])
    /\ UNCHANGED <<words, suggestions, last_id, forms, arrivals, meant, agreed, overlapped, misread>>

\* orig_suggestion and any_changes.  What is not inserted was meant as it reads:
\* it differs in followed_by at most.
read_suggestion(t) ==
    /\ At(t, "read_suggestion")
    /\ LET w == todo[t]
           found == Exists(w.suggestion, suggestions)
           template == IF found THEN Read(w.suggestion) ELSE w.orig
       IN  IF has_any_changes_in_word(w.typed, template)
           THEN /\ Do(t, [w EXCEPT !.at = "insert_suggestion"])
                /\ UNCHANGED meant
           ELSE /\ Done(t)
                /\ meant' = IF found
                            THEN [meant EXCEPT ![w.suggestion] =
                                    [existing |-> w.existing, typed |-> template,
                                     base |-> OriginalOf(w.existing)]]
                            ELSE meant
    /\ UNCHANGED <<words, suggestions, last_id, forms, arrivals, agreed, overlapped, misread>>

\* INSERT_SUGGESTION, which takes every column of a row that is there already.
insert_suggestion(t) ==
    /\ At(t, "insert_suggestion")
    /\ LET w == todo[t]
           s == IF w.suggestion = Null THEN last_id + 1 ELSE w.suggestion
       IN  /\ s \in Suggestions
           /\ suggestions' = [suggestions EXCEPT ![s] =
                                 [existing |-> w.existing, columns |-> w.columns]]
           /\ meant' = [meant EXCEPT ![s] =
                           [existing |-> w.existing, typed |-> w.typed, base |-> w.orig]]
           /\ last_id' = IF s > last_id THEN s ELSE last_id
    /\ Done(t)
    /\ UNCHANGED <<words, forms, arrivals, agreed, overlapped, misread>>

-----------------------------------------------------------------------------
(* Decisions *)

accept_suggested_word(t) ==
    \E s \in Suggestions :
        /\ s <= last_id
        /\ Arrive(t, [at |-> "fetch_full", id |-> s])
        /\ UNCHANGED <<words, suggestions, last_id, forms, meant, agreed, overlapped, misread>>

\* The row, and the word it is an edit of; unwrap panics when the row is gone.
fetch_full(t) ==
    /\ At(t, "fetch_full")
    /\ LET s == todo[t].id
       IN  IF Exists(s, suggestions)
           THEN Do(t, [at |-> "accept_just_word", id |-> s, row |-> suggestions[s],
                       word |-> OriginalOf(suggestions[s].existing), meant |-> meant[s]])
           ELSE Done(t)
    /\ UNCHANGED <<words, suggestions, last_id, forms, arrivals, meant, agreed, overlapped, misread>>

\* The word a row with word_id NULL becomes.
NextWords == {w \in Words : words[w] = Null /\ \A v \in Words : v < w => words[v] # Null}

\* accept_just_word_suggestion: INSERT ... ON CONFLICT(word_id) DO UPDATE of
\* every column, with what fetch_full read.
accept_just_word(t) ==
    /\ At(t, "accept_just_word")
    /\ LET a == todo[t]
           row == a.row
           read == current(row.columns, a.word)
           new == row.existing = Null
       IN  \E w \in IF new THEN NextWords ELSE {row.existing} :
           /\ words' = [words EXCEPT ![w] = read]
           /\ agreed' = [agreed EXCEPT ![w] =
                [f \in Fields |-> IF new \/ row.columns[f] # Null THEN a.meant.typed[f] ELSE agreed[w][f]]]
           /\ overlapped' = IF ~new /\ words[w] # a.word THEN overlapped \cup {w} ELSE overlapped
           /\ misread' = IF ~new /\ row.columns.is_informal = Null
                             /\ a.word.is_plural # a.word.is_informal
                         THEN misread \cup {w} ELSE misread
    /\ Do(t, [at |-> "delete_suggestion", id |-> todo[t].id])
    /\ UNCHANGED <<suggestions, last_id, forms, arrivals, meant>>

reject_suggested_word(t) ==
    \E s \in Suggestions :
        /\ s <= last_id
        /\ Arrive(t, [at |-> "delete_suggestion", id |-> s])
        /\ UNCHANGED <<words, suggestions, last_id, forms, meant, agreed, overlapped, misread>>

delete_suggestion(t) ==
    /\ At(t, "delete_suggestion")
    /\ suggestions' = [suggestions EXCEPT ![todo[t].id] = Null]
    /\ Done(t)
    /\ UNCHANGED <<words, last_id, forms, arrivals, meant, agreed, overlapped, misread>>

\* The process is killed and started again.
Crash ==
    /\ \E t \in Threads : ~Idle(t)
    /\ todo' = [t \in Threads |-> [at |-> "idle"]]
    /\ UNCHANGED <<words, suggestions, last_id, forms, arrivals, meant, agreed, overlapped, misread>>

Next ==
    \/ edit_word_page \/ edit_suggestion_page
    \/ \E t \in Threads :
          \/ submit_suggestion(t) \/ read_original(t) \/ read_suggestion(t) \/ insert_suggestion(t)
          \/ accept_suggested_word(t) \/ fetch_full(t) \/ accept_just_word(t)
          \/ reject_suggested_word(t) \/ delete_suggestion(t)
    \/ Crash

Spec == Init /\ [][Next]_vars

-----------------------------------------------------------------------------
(* Properties *)

Process ==
    [at: {"idle"}]
    \cup [at: {"read_original"}, suggestion: Suggestions \cup {Null},
          existing: Words \cup {Null}, typed: Columns]
    \cup [at: {"read_suggestion", "insert_suggestion"}, suggestion: Suggestions \cup {Null},
          existing: Words \cup {Null}, typed: Columns, orig: Columns, columns: Stored]
    \cup [at: {"fetch_full", "delete_suggestion"}, id: Suggestions]
    \cup [at: {"accept_just_word"}, id: Suggestions, row: Row, word: Columns, meant: Meaning]

\* Every variable keeps its type: in particular a word never gets NULL or the
\* sentinel in a column, whatever its suggestions went through.
TypeOK ==
    /\ words \in WordTable /\ agreed \in WordTable
    /\ suggestions \in [Suggestions -> Row \cup {Null}]
    /\ meant \in [Suggestions -> Meaning \cup {Null}]
    /\ last_id \in Nat /\ arrivals \in Nat
    /\ forms \subseteq Form
    /\ todo \in [Threads -> Process]
    /\ overlapped \subseteq Words /\ misread \subseteq Words

\* A suggestion of a new word can always be read back: from_row's panic
\* "Field in suggestion unfilled; this is an error!" is out of reach, also when
\* the suggestion was edited or sent again after it was decided on.
NoFieldUnfilled ==
    \A s \in Suggestions :
        Exists(s, suggestions) /\ suggestions[s].existing = Null => Filled(suggestions[s].columns)

\* is_informal is NULL and would be read from an is_plural that is different.
Misread(row, word) ==
    row.existing # Null /\ row.columns.is_informal = Null /\ word.is_plural # word.is_informal

\* While the word is as the form found it when it was sent, a suggestion reads
\* back as what was typed, in the form it was first sent with and in all it was
\* edited with: diff and diff_with_sentinel against from_row.  The code loses two
\* values, which are set apart: a mood that was removed is stored as NULL, and
\* is_informal, where not changed, is read from is_plural.
ReadsBackAsTyped ==
    \A s \in Suggestions :
        Exists(s, suggestions) =>
            LET row == suggestions[s]
                m == meant[s]
            IN  (row.existing # Null => words[row.existing] = m.base) =>
                    \A f \in Fields :
                        \/ Read(s)[f] = m.typed[f]
                        \/ f = "followed_by" /\ m.typed[f] = None
                        \/ f = "is_informal" /\ Misread(row, m.base)

\* Every column of a word is what the last suggestion accepted that was about
\* this column says: acceptances of edits of other columns, in any order and
\* however old the edits, leave it alone.  Words are apart that two acceptances
\* wrote to at once (each writes all columns), and is_informal of words where it
\* was read from is_plural.
AgreedColumnsStand ==
    \A w \in Words \ overlapped :
        words[w] # Null =>
            \A f \in Fields : words[w][f] = agreed[w][f] \/ (f = "is_informal" /\ w \in misread)

\* "null which is noun class not changed": a column that is NULL in a suggestion
\* is one the suggestion does not change.
NullMeansNotChanged ==
    \A w \in Words \ overlapped :
        words[w] # Null => \A f \in Fields : words[w][f] = agreed[w][f]
=============================================================================
