-------------------------- MODULE WordFieldsProofs --------------------------
(***************************************************************************)
(* What a user typed about a word is what a suggestion reads back as and   *)
(* what an acceptance writes, for all values of the columns, all words,    *)
(* all suggestions and any number of threads.                              *)
(***************************************************************************)
EXTENDS WordFields, TLAPS

\* The values of a column of a word, and of a suggestion.
Values ==
    [english |-> Texts \cup {Empty}, is_plural |-> BOOLEAN, is_informal |-> BOOLEAN,
     part_of_speech |-> PartsOfSpeech \cup {None}, noun_class |-> NounClasses \cup {None},
     followed_by |-> Moods \cup {None}]

\* The columns of a row say what m says was typed in its form: read beside the
\* word the form was compared with they give it back, but for a mood that was
\* removed and for is_informal where it is read from another is_plural.
Kept(row, m) ==
    /\ row.existing = m.existing
    /\ row.existing = Null => m.base = Default /\ Filled(row.columns)
    /\ \A f \in Fields :
          \/ current(row.columns, m.base)[f] = m.typed[f]
          \/ f = "followed_by" /\ row.columns[f] = Null /\ m.typed[f] = None
          \/ f = "is_informal" /\ Misread(row, m.base)

LEMMA MissingValues ==
    /\ \A f \in Fields : Null \notin Values[f]
    /\ \A f \in Fields : None \in Values[f] => f \in {"part_of_speech", "noun_class", "followed_by"}
    /\ \A f \in Fields : Remove \in Values[f] => f # "noun_class"
    /\ None # Null /\ Remove # Null /\ None # Remove
  BY MissingAssumption DEF Values, Fields

LEMMA ColumnsByField ==
    ASSUME NEW w \in Columns
    PROVE  /\ w = [f \in Fields |-> w[f]]
           /\ \A f \in Fields : w[f] \in Values[f]
  BY DEF Columns, Values, Fields

LEMMA StoredByField ==
    ASSUME NEW c \in Stored
    PROVE  \A f \in Fields : c[f] = Null \/ (f = "noun_class" /\ c[f] = Remove) \/ c[f] \in Values[f]
  BY DEF Stored, Values, Fields

LEMMA DefaultType == Default \in Columns
  BY DEF Default, Columns

\* A suggestion is read as columns a word can have.
LEMMA CurrentType ==
    ASSUME NEW c \in Stored, NEW w \in Columns
    PROVE  current(c, w) \in Columns
  BY MissingAssumption DEF current, from_row, from_row_with_sentinel, Original, Stored, Columns, Fields

LEMMA ParamsType ==
    ASSUME NEW typed \in Sendable, NEW orig \in Columns, NEW use \in BOOLEAN
    PROVE  Params(typed, orig, use) \in Stored
  BY MissingAssumption
     DEF Params, diff, diff_with_sentinel, Bound, Stored, Columns, Sendable, Fields

LEMMA ParamsFilled ==
    ASSUME NEW typed \in Sendable, NEW orig \in Columns
    PROVE  Filled(Params(typed, orig, TRUE))
  <1> DEFINE c == Params(typed, orig, TRUE)
  <1> SUFFICES ASSUME NEW f \in Fields \ {"noun_class", "followed_by"} PROVE c[f] # Null
    BY DEF Filled
  <1>1. c[f] = Bound(typed[f])
    BY DEF Params, diff, Fields
  <1>2. typed[f] # None
    <2>1. typed \in Columns /\ typed.part_of_speech # None BY DEF Sendable
    <2> QED BY <2>1, ColumnsByField, MissingValues DEF Fields
  <1>3. typed[f] # Null
    <2>1. typed \in Columns BY DEF Sendable
    <2> QED BY <2>1, ColumnsByField, MissingValues
  <1> QED BY <1>1, <1>2, <1>3 DEF Bound

\* diff and diff_with_sentinel against from_row and from_row_with_sentinel.
LEMMA ParamsKept ==
    ASSUME NEW typed \in Sendable, NEW orig \in Columns, NEW existing,
           existing = Null => orig = Default
    PROVE  Kept([existing |-> existing, columns |-> Params(typed, orig, existing = Null)],
                [existing |-> existing, typed |-> typed, base |-> orig])
  <1> DEFINE use == existing = Null
             c == Params(typed, orig, use)
             row == [existing |-> existing, columns |-> c]
  <1>1. typed \in Columns BY DEF Sendable
  <1>2. existing = Null => Filled(c)
    BY ParamsFilled, use = TRUE \/ use = FALSE
  <1>3. ASSUME NEW f \in Fields
        PROVE  \/ current(c, orig)[f] = typed[f]
               \/ f = "followed_by" /\ c[f] = Null /\ typed[f] = None
               \/ f = "is_informal" /\ Misread(row, orig)
    <2>1. typed[f] # Null BY <1>1, ColumnsByField, MissingValues
    <2>2. CASE f = "noun_class"
      <3>1. typed[f] # Remove BY <1>1, <2>2, ColumnsByField, MissingValues
      <3>2. c[f] = diff_with_sentinel(typed[f], orig[f]) BY <2>2 DEF Params, Fields
      <3>3. current(c, orig)[f] = from_row_with_sentinel(c[f], orig[f])
        BY <2>2 DEF current, Fields
      <3> QED BY <2>1, <3>1, <3>2, <3>3, MissingValues DEF diff_with_sentinel, from_row_with_sentinel
    <2>3. CASE f # "noun_class"
      <3>1. c[f] = diff(typed[f], orig[f], use) BY <2>3 DEF Params, Fields
      <3>2. current(c, orig)[f] = from_row(c[f], orig[Original(f)])
        BY <2>3 DEF current, Fields
      <3>3. CASE c[f] # Null
        BY <3>1, <3>2, <3>3, <2>1 DEF diff, Bound, from_row
      <3>4. CASE c[f] = Null /\ typed[f] = None
        <4>1. f \in {"part_of_speech", "followed_by"}
          BY <1>1, <2>3, <3>4, ColumnsByField, MissingValues
        <4> QED BY <4>1, <3>4 DEF Sendable
      <3>5. CASE c[f] = Null /\ typed[f] # None
        <4>1. ~use /\ typed[f] = orig[f] BY <3>1, <3>5, <2>1 DEF diff, Bound
        <4>2. CASE f # "is_informal"
          BY <3>2, <3>5, <4>1, <4>2 DEF from_row, Original
        <4>3. CASE f = "is_informal"
          <5>1. current(c, orig)[f] = orig.is_plural
            BY <3>2, <3>5, <4>3 DEF from_row, Original
          <5>2. orig.is_plural = orig.is_informal \/ Misread(row, orig)
            BY <3>5, <4>1, <4>3 DEF Misread
          <5> QED BY <5>1, <5>2, <4>1, <4>3
        <4> QED BY <4>2, <4>3
      <3> QED BY <3>3, <3>4, <3>5
    <2> QED BY <2>2, <2>3
  <1> QED BY <1>2, <1>3 DEF Kept

\* A column that is not NULL is read as what was typed, whatever the word is.
LEMMA KeptColumn ==
    ASSUME NEW row, NEW m, Kept(row, m), NEW w, NEW f \in Fields, row.columns[f] # Null
    PROVE  current(row.columns, w)[f] = m.typed[f]
  <1>1. current(row.columns, w)[f] = current(row.columns, m.base)[f]
    BY DEF current, from_row, from_row_with_sentinel
  <1>2. ~(f = "is_informal" /\ Misread(row, m.base)) BY DEF Misread
  <1> QED BY <1>1, <1>2 DEF Kept

\* A suggestion of a new word is read as what was typed.
LEMMA KeptNewWord ==
    ASSUME NEW row, NEW m, Kept(row, m), row.existing = Null, NEW f \in Fields
    PROVE  current(row.columns, Default)[f] = m.typed[f]
  <1>1. m.base = Default BY DEF Kept
  <1>2. ~Misread(row, m.base) BY DEF Misread
  <1>3. CASE f = "followed_by" /\ row.columns[f] = Null /\ m.typed[f] = None
    BY <1>3 DEF current, from_row, Original, Default
  <1> QED BY <1>1, <1>2, <1>3 DEF Kept

-----------------------------------------------------------------------------
(* The inductive invariant *)

\* What a form or a submission refers to is there, and stays.
Refers(form) ==
    /\ form.existing # Null => words[form.existing] # Null
    /\ form.suggestion # Null =>
          /\ meant[form.suggestion] # Null
          /\ meant[form.suggestion].existing = form.existing

ThreadKnown(p) ==
    /\ p.at \in {"read_original", "read_suggestion", "insert_suggestion"} =>
          p.typed \in Sendable /\ Refers(p)
    /\ p.at \in {"read_suggestion", "insert_suggestion"} =>
          /\ p.columns = Params(p.typed, p.orig, p.existing = Null)
          /\ p.existing = Null => p.orig = Default
    /\ p.at = "accept_just_word" =>
          /\ Kept(p.row, p.meant)
          /\ p.row.existing = Null => p.word = Default
          /\ p.row.existing # Null => words[p.row.existing] # Null

RowKnown(s) ==
    suggestions[s] # Null =>
        /\ meant[s] # Null
        /\ Kept(suggestions[s], meant[s])
        /\ suggestions[s].existing # Null => words[suggestions[s].existing] # Null

RowsKnown == \A s \in Suggestions : RowKnown(s)
MeaningsKnown == \A s \in Suggestions : meant[s] # Null => s <= last_id
FormsKnown == \A form \in forms : Refers(form)
ThreadsKnown == \A t \in Threads : ThreadKnown(todo[t])
WordsAgreed ==
    /\ \A w \in Words : words[w] = Null <=> agreed[w] = Null
    /\ AgreedColumnsStand

IInv ==
    /\ TypeOK
    /\ RowsKnown
    /\ MeaningsKnown
    /\ FormsKnown
    /\ ThreadsKnown
    /\ WordsAgreed

\* Words and what suggestions are about are never forgotten.
Grows ==
    /\ \A w \in Words : words[w] # Null => words'[w] # Null
    /\ \A s \in Suggestions :
          meant[s] # Null => meant'[s] # Null /\ meant'[s].existing = meant[s].existing

-----------------------------------------------------------------------------
(* Lemmas about types *)

LEMMA SubmissionFields ==
    ASSUME NEW p \in Process,
           p.at \in {"read_original", "read_suggestion", "insert_suggestion"}
    PROVE  p.suggestion \in Suggestions \cup {Null} /\ p.existing \in Words \cup {Null}
           /\ p.typed \in Columns
  BY DEF Process

LEMMA InsertionFields ==
    ASSUME NEW p \in Process, p.at \in {"read_suggestion", "insert_suggestion"}
    PROVE  p.orig \in Columns /\ p.columns \in Stored
  BY DEF Process

LEMMA DecisionFields ==
    ASSUME NEW p \in Process, p.at \in {"fetch_full", "delete_suggestion", "accept_just_word"}
    PROVE  p.id \in Suggestions
  BY DEF Process

LEMMA AcceptanceFields ==
    ASSUME NEW p \in Process, p.at = "accept_just_word"
    PROVE  p.row \in Row /\ p.word \in Columns /\ p.meant \in Meaning
  BY DEF Process

LEMMA OriginalType ==
    ASSUME words \in WordTable, NEW e \in Words \cup {Null}
    PROVE  OriginalOf(e) \in Columns /\ (e = Null => OriginalOf(e) = Default)
  BY DefaultType DEF OriginalOf, Exists, WordTable

LEMMA ReadType ==
    ASSUME TypeOK, NEW s \in Suggestions, suggestions[s] # Null
    PROVE  /\ suggestions[s] \in Row
           /\ Read(s) \in Columns
  <1>1. suggestions[s] \in Row BY DEF TypeOK
  <1>2. suggestions[s].existing \in Words \cup {Null} /\ suggestions[s].columns \in Stored
    BY <1>1 DEF Row
  <1>3. OriginalOf(suggestions[s].existing) \in Columns BY <1>2, OriginalType DEF TypeOK
  <1> QED BY <1>1, <1>2, <1>3, CurrentType DEF Read

-----------------------------------------------------------------------------
(* Lemmas about steps *)

LEMMA ReferringStays ==
    ASSUME Grows, NEW form, form.existing \in Words \cup {Null},
           form.suggestion \in Suggestions \cup {Null}, Refers(form)
    PROVE  Refers(form)'
  BY DEF Grows, Refers

LEMMA FormsStayKnown ==
    ASSUME TypeOK, FormsKnown, Grows, UNCHANGED forms
    PROVE  FormsKnown'
  <1> SUFFICES ASSUME NEW form \in forms PROVE Refers(form)'
    BY DEF FormsKnown
  <1>1. form.existing \in Words \cup {Null} /\ form.suggestion \in Suggestions \cup {Null}
    BY DEF TypeOK, Form
  <1>2. Refers(form) BY DEF FormsKnown
  <1> QED BY <1>1, <1>2, ReferringStays

LEMMA ThreadStaysKnown ==
    ASSUME Grows, NEW p \in Process, ThreadKnown(p)
    PROVE  ThreadKnown(p)'
  <1>1. CASE p.at \in {"read_original", "read_suggestion", "insert_suggestion"}
    <2>1. Refers(p)'
      BY <1>1, SubmissionFields, ReferringStays DEF ThreadKnown
    <2> QED BY <1>1, <2>1 DEF ThreadKnown
  <1>2. CASE p.at = "accept_just_word"
    <2>1. p.row.existing \in Words \cup {Null} BY <1>2, AcceptanceFields DEF Row
    <2> QED BY <1>2, <2>1 DEF ThreadKnown, Grows
  <1>3. CASE p.at \notin {"read_original", "read_suggestion", "insert_suggestion", "accept_just_word"}
    BY <1>3 DEF ThreadKnown
  <1> QED BY <1>1, <1>2, <1>3

\* One thread goes on to p.
LEMMA ThreadsStayKnown ==
    ASSUME TypeOK, ThreadsKnown, Grows, NEW t \in Threads, NEW p \in Process,
           todo' = [todo EXCEPT ![t] = p], ThreadKnown(p)'
    PROVE  todo' \in [Threads -> Process] /\ ThreadsKnown'
  <1>1. todo \in [Threads -> Process] BY DEF TypeOK
  <1>2. ASSUME NEW u \in Threads PROVE ThreadKnown(todo[u])'
    <2>1. CASE u = t BY <1>1, <2>1
    <2>2. CASE u # t
      <3>1. PICK q \in Process : q = todo[u] BY <1>1
      <3>2. ThreadKnown(q) BY <3>1 DEF ThreadsKnown
      <3>3. ThreadKnown(q)' BY <3>2, ThreadStaysKnown
      <3>4. todo'[u] = q BY <1>1, <2>2, <3>1
      <3> QED BY <3>3, <3>4
    <2> QED BY <2>1, <2>2
  <1> QED BY <1>1, <1>2 DEF ThreadsKnown

LEMMA RowsStayKnown ==
    ASSUME TypeOK, RowsKnown, Grows, UNCHANGED <<suggestions, meant>>
    PROVE  RowsKnown'
  <1> SUFFICES ASSUME NEW s \in Suggestions, suggestions[s] # Null
               PROVE  suggestions[s].existing # Null => words'[suggestions[s].existing] # Null
    BY DEF RowsKnown, RowKnown
  <1>1. suggestions[s].existing \in Words \cup {Null} BY ReadType DEF Row
  <1> QED BY <1>1 DEF RowsKnown, RowKnown, Grows

LEMMA UnchangedAgreed ==
    ASSUME WordsAgreed, UNCHANGED <<words, agreed, overlapped, misread>>
    PROVE  WordsAgreed'
  BY DEF WordsAgreed, AgreedColumnsStand

LEMMA UnchangedGrows ==
    ASSUME UNCHANGED <<words, meant>>
    PROVE  Grows
  BY DEF Grows

\* A step of one thread that writes to no table.
LEMMA ThreadMoves ==
    ASSUME IInv, NEW t \in Threads, NEW p \in Process, todo' = [todo EXCEPT ![t] = p],
           ThreadKnown(p)', arrivals' \in Nat,
           UNCHANGED <<words, suggestions, last_id, forms, meant, agreed, overlapped, misread>>
    PROVE  IInv'
  <1>1. Grows BY UnchangedGrows
  <1>2. todo' \in [Threads -> Process] /\ ThreadsKnown' BY <1>1, ThreadsStayKnown DEF IInv
  <1>3. RowsKnown' BY <1>1, RowsStayKnown DEF IInv
  <1>4. FormsKnown' BY <1>1, FormsStayKnown DEF IInv
  <1>5. WordsAgreed' BY UnchangedAgreed DEF IInv
  <1> QED BY <1>2, <1>3, <1>4, <1>5 DEF IInv, TypeOK, MeaningsKnown

LEMMA IdleKnown ==
    /\ [at |-> "idle"] \in Process
    /\ ThreadKnown([at |-> "idle"])'
  BY DEF Process, ThreadKnown

-----------------------------------------------------------------------------
(* Each action keeps the invariant *)

LEMMA InitKnown == Init => IInv
  <1> SUFFICES ASSUME Init PROVE IInv
    OBVIOUS
  <1>1. PICK c \in InitialWords : words = [w \in Words |-> IF w = 1 THEN c ELSE Null]
    BY DEF Init
  <1>2. c \in Columns /\ words \in WordTable /\ words[1] = c /\ c # Null
    BY <1>1, WordsAssumption DEF WordTable
  <1>3. \A t \in Threads : todo[t] = [at |-> "idle"]
    BY DEF Init
  <1>4. todo \in [Threads -> Process]
    BY DEF Init, Process
  <1>5. ThreadsKnown
    BY <1>3 DEF ThreadsKnown, ThreadKnown
  <1>6. WordsAgreed
    BY DEF WordsAgreed, AgreedColumnsStand, Init
  <1>7. ASSUME suggestions \in [Suggestions -> Row \cup {Null}],
               meant \in [Suggestions -> Meaning \cup {Null}], last_id \in Nat
        PROVE  TypeOK
    BY <1>2, <1>4, <1>7 DEF TypeOK, Init
  <1>8. CASE NothingSuggested
    <2>1. TypeOK BY <1>7, <1>8 DEF NothingSuggested
    <2>2. RowsKnown /\ MeaningsKnown /\ FormsKnown
      BY <1>8 DEF NothingSuggested, RowsKnown, RowKnown, MeaningsKnown, FormsKnown, Init
    <2> QED BY <1>5, <1>6, <2>1, <2>2 DEF IInv
  <1>9. CASE OneEditSuggested
    <2>1. PICK typed \in Typed(words[1]) :
            /\ suggestions = [s \in Suggestions |->
                 IF s = 1 THEN [existing |-> 1, columns |-> Params(typed, words[1], FALSE)] ELSE Null]
            /\ meant = [s \in Suggestions |->
                 IF s = 1 THEN [existing |-> 1, typed |-> typed, base |-> words[1]] ELSE Null]
            /\ last_id = 1
      BY <1>9 DEF OneEditSuggested
    <2>2. typed \in Sendable /\ typed \in Columns BY DEF Typed, Sendable
    <2>3. 1 # Null BY WordsAssumption
    <2>4. PICK row : row = [existing |-> 1, columns |-> Params(typed, c, FALSE)]
      OBVIOUS
    <2>5. PICK m : m = [existing |-> 1, typed |-> typed, base |-> c]
      OBVIOUS
    <2>6. row \in Row /\ m \in Meaning
      BY <2>2, <2>4, <2>5, <1>2, ParamsType, WordsAssumption DEF Row, Meaning
    <2>7. Kept(row, m)
      BY <2>2, <2>3, <2>4, <2>5, <1>2, ParamsKept, (1 = Null) = FALSE
    <2>8. suggestions = [s \in Suggestions |-> IF s = 1 THEN row ELSE Null]
          /\ meant = [s \in Suggestions |-> IF s = 1 THEN m ELSE Null]
      BY <1>2, <2>1, <2>4, <2>5
    <2>9. TypeOK BY <2>1, <2>6, <2>8, <1>7
    <2>10. RowsKnown
      <3> SUFFICES ASSUME NEW s \in Suggestions, suggestions[s] # Null PROVE RowKnown(s)
        BY DEF RowsKnown, RowKnown
      <3>1. suggestions[s] = row /\ meant[s] = m BY <2>8
      <3>2. m # Null BY <2>6, WordsAssumption
      <3>3. words[row.existing] # Null BY <1>2, <2>4
      <3> QED BY <3>1, <3>2, <3>3, <2>7 DEF RowKnown
    <2>11. MeaningsKnown BY <2>1, <2>8 DEF MeaningsKnown
    <2>12. FormsKnown BY DEF FormsKnown, Init
    <2> QED BY <1>5, <1>6, <2>9, <2>10, <2>11, <2>12 DEF IInv
  <1> QED BY <1>8, <1>9 DEF Init

\* A form that is shown changes nothing else.
LEMMA ShowKnown ==
    ASSUME IInv, NEW form \in Form, Refers(form), Show(form)
    PROVE  IInv'
  <1>1. Grows BY UnchangedGrows DEF Show
  <1>2. ThreadsKnown'
    <2> SUFFICES ASSUME NEW t \in Threads PROVE ThreadKnown(todo[t])'
      BY DEF ThreadsKnown
    <2>1. PICK p \in Process : p = todo[t] BY DEF IInv, TypeOK
    <2>2. ThreadKnown(p)' BY <1>1, <2>1, ThreadStaysKnown DEF IInv, ThreadsKnown
    <2> QED BY <2>1, <2>2 DEF Show
  <1>3. RowsKnown' BY <1>1, RowsStayKnown DEF IInv, Show
  <1>4. FormsKnown'
    <2> SUFFICES ASSUME NEW f \in forms' PROVE Refers(f)'
      BY DEF FormsKnown
    <2>1. f \in Form /\ Refers(f) BY DEF Show, IInv, FormsKnown, TypeOK
    <2> QED BY <2>1, <1>1, ReferringStays DEF Form
  <1>5. WordsAgreed' BY UnchangedAgreed DEF IInv, Show
  <1> QED BY <1>2, <1>3, <1>4, <1>5 DEF IInv, TypeOK, MeaningsKnown, Show

LEMMA FormsOfWordsKnown == ASSUME IInv, edit_word_page PROVE IInv'
  <1>1. PICK w \in Words :
          words[w] # Null /\ Show([suggestion |-> Null, existing |-> w, shown |-> words[w]])
    BY DEF edit_word_page, Exists
  <1>2. PICK form : form = [suggestion |-> Null, existing |-> w, shown |-> words[w]]
    OBVIOUS
  <1>3. words[w] \in Columns BY <1>1 DEF IInv, TypeOK, WordTable
  <1>4. form \in Form BY <1>2, <1>3 DEF Form
  <1>5. Refers(form) BY <1>1, <1>2 DEF Refers
  <1> QED BY <1>1, <1>2, <1>4, <1>5, ShowKnown

LEMMA FormsOfSuggestionsKnown == ASSUME IInv, edit_suggestion_page PROVE IInv'
  <1>1. PICK s \in Suggestions :
          /\ suggestions[s] # Null
          /\ Show([suggestion |-> s, existing |-> suggestions[s].existing, shown |-> Read(s)])
    BY DEF edit_suggestion_page, Exists
  <1>2. PICK form : form = [suggestion |-> s, existing |-> suggestions[s].existing, shown |-> Read(s)]
    OBVIOUS
  <1>3. suggestions[s] \in Row /\ Read(s) \in Columns BY <1>1, ReadType DEF IInv
  <1>4. form \in Form BY <1>2, <1>3 DEF Form, Row
  <1>5. RowKnown(s) BY DEF IInv, RowsKnown
  <1>6. Refers(form) BY <1>1, <1>2, <1>5 DEF Refers, RowKnown, Kept
  <1> QED BY <1>1, <1>2, <1>4, <1>6, ShowKnown

LEMMA SubmitKnown == ASSUME IInv, NEW t \in Threads, submit_suggestion(t) PROVE IInv'
  <1>1. PICK form \in forms \cup {NewWordForm}, typed \in Sendable :
          /\ Arrive(t, [at |-> "read_original", suggestion |-> form.suggestion,
                        existing |-> form.existing, typed |-> typed])
          /\ UNCHANGED <<words, suggestions, last_id, forms, meant, agreed, overlapped, misread>>
    BY DEF submit_suggestion
  <1>2. PICK p : p = [at |-> "read_original", suggestion |-> form.suggestion,
                      existing |-> form.existing, typed |-> typed]
    OBVIOUS
  <1>3. form.suggestion \in Suggestions \cup {Null} /\ form.existing \in Words \cup {Null}
    BY DEF IInv, TypeOK, Form, NewWordForm
  <1>4. p \in Process BY <1>2, <1>3 DEF Process, Sendable
  <1>5. Refers(form) BY DEF IInv, FormsKnown, NewWordForm, Refers
  <1>6. Refers(p) BY <1>2, <1>5 DEF Refers
  <1>7. Refers(p)' BY <1>1, <1>6 DEF Refers
  <1>8. ThreadKnown(p)' BY <1>2, <1>7 DEF ThreadKnown
  <1>9. todo' = [todo EXCEPT ![t] = p] /\ arrivals' \in Nat
    BY <1>1, <1>2 DEF Arrive, Do, IInv, TypeOK
  <1> QED BY <1>1, <1>4, <1>8, <1>9, ThreadMoves

LEMMA ReadOriginalKnown == ASSUME IInv, NEW t \in Threads, read_original(t) PROVE IInv'
  <1>1. PICK w \in Process : w = todo[t] BY DEF IInv, TypeOK
  <1>2. w.at = "read_original" /\ ThreadKnown(w) BY <1>1 DEF read_original, At, IInv, ThreadsKnown
  <1>3. w.suggestion \in Suggestions \cup {Null} /\ w.existing \in Words \cup {Null}
        /\ w.typed \in Columns /\ w.typed \in Sendable /\ Refers(w)
    BY <1>2, SubmissionFields DEF ThreadKnown
  <1>4. PICK orig \in Columns : orig = OriginalOf(w.existing) /\ (w.existing = Null => orig = Default)
    BY <1>3, OriginalType DEF IInv, TypeOK
  <1>5. PICK p : p = [at |-> "read_suggestion", suggestion |-> w.suggestion,
                      existing |-> w.existing, typed |-> w.typed, orig |-> orig,
                      columns |-> Params(w.typed, orig, w.existing = Null)]
    OBVIOUS
  <1>6. Params(w.typed, orig, w.existing = Null) \in Stored BY <1>3, ParamsType
  <1>7. p \in Process BY <1>3, <1>5, <1>6 DEF Process
  <1>8. todo' = [todo EXCEPT ![t] = p] BY <1>1, <1>4, <1>5 DEF read_original, Do
  <1>9. UNCHANGED <<words, suggestions, last_id, forms, arrivals, meant, agreed, overlapped, misread>>
    BY DEF read_original
  <1>10. Refers(p)' BY <1>3, <1>5, <1>9 DEF Refers
  <1>11. ThreadKnown(p)' BY <1>3, <1>4, <1>5, <1>10 DEF ThreadKnown
  <1> QED BY <1>7, <1>8, <1>9, <1>11, ThreadMoves DEF IInv, TypeOK

\* What is not inserted reads as it was typed already.
LEMMA NothingInsertedKnown ==
    ASSUME IInv, NEW t \in Threads, NEW s \in Suggestions, suggestions[s] # Null,
           meant' = [meant EXCEPT ![s] = [existing |-> suggestions[s].existing, typed |-> Read(s),
                                          base |-> OriginalOf(suggestions[s].existing)]],
           Done(t),
           UNCHANGED <<words, suggestions, last_id, forms, arrivals, agreed, overlapped, misread>>
    PROVE  IInv'
  <1>1. PICK row \in Row : row = suggestions[s] BY ReadType DEF IInv
  <1>2. PICK base \in Columns : base = OriginalOf(row.existing) /\ (row.existing = Null => base = Default)
    BY OriginalType DEF IInv, TypeOK, Row
  <1>3. PICK m : m = [existing |-> row.existing, typed |-> current(row.columns, base), base |-> base]
    OBVIOUS
  <1>4. meant' = [meant EXCEPT ![s] = m] BY <1>1, <1>2, <1>3 DEF Read
  <1>5. m \in Meaning /\ m # Null
    BY <1>3, CurrentType, WordsAssumption DEF Meaning, Row
  <1>6. meant \in [Suggestions -> Meaning \cup {Null}] BY DEF IInv, TypeOK
  <1>7. meant' \in [Suggestions -> Meaning \cup {Null}] BY <1>4, <1>5, <1>6
  <1>8. RowKnown(s) BY DEF IInv, RowsKnown
  <1>9. Kept(row, m)
    BY <1>1, <1>2, <1>3, <1>8 DEF Kept, RowKnown
  <1>10. Grows
    BY <1>1, <1>3, <1>4, <1>5, <1>6, <1>8 DEF Grows, RowKnown, Kept
  <1>11. RowsKnown'
    <2> SUFFICES ASSUME NEW r \in Suggestions PROVE RowKnown(r)'
      BY DEF RowsKnown
    <2>1. CASE r = s
      BY <2>1, <1>1, <1>4, <1>5, <1>6, <1>8, <1>9 DEF RowKnown
    <2>2. CASE r # s
      <3>1. RowKnown(r) BY DEF IInv, RowsKnown
      <3>2. meant'[r] = meant[r] BY <1>4, <1>6, <2>2
      <3> QED BY <3>1, <3>2 DEF RowKnown
    <2> QED BY <2>1, <2>2
  <1>12. MeaningsKnown'
    BY <1>4, <1>6, <1>8 DEF IInv, MeaningsKnown, RowKnown
  <1>13. FormsKnown' BY <1>10, FormsStayKnown DEF IInv
  <1>14. todo' \in [Threads -> Process] /\ ThreadsKnown'
    BY <1>10, IdleKnown, ThreadsStayKnown DEF IInv, Done, Do
  <1>15. WordsAgreed' BY UnchangedAgreed DEF IInv
  <1> QED BY <1>7, <1>11, <1>12, <1>13, <1>14, <1>15 DEF IInv, TypeOK

LEMMA IdleMoves ==
    ASSUME IInv, NEW t \in Threads, Done(t), arrivals' \in Nat,
           UNCHANGED <<words, suggestions, last_id, forms, meant, agreed, overlapped, misread>>
    PROVE  IInv'
  BY IdleKnown, ThreadMoves DEF Done, Do

LEMMA ReadSuggestionKnown == ASSUME IInv, NEW t \in Threads, read_suggestion(t) PROVE IInv'
  <1>1. PICK w \in Process : w = todo[t] BY DEF IInv, TypeOK
  <1>2. w.at = "read_suggestion" /\ ThreadKnown(w)
    BY <1>1 DEF read_suggestion, At, IInv, ThreadsKnown
  <1>3. w.suggestion \in Suggestions \cup {Null} /\ Refers(w)
    BY <1>2, SubmissionFields DEF ThreadKnown
  <1>4. UNCHANGED <<words, suggestions, last_id, forms, arrivals, agreed, overlapped, misread>>
    BY DEF read_suggestion
  <1>5. CASE Do(t, [w EXCEPT !.at = "insert_suggestion"]) /\ UNCHANGED meant
    <2>1. PICK p : p = [w EXCEPT !.at = "insert_suggestion"]
      OBVIOUS
    <2>2. w \in [at: {"read_suggestion", "insert_suggestion"}, suggestion: Suggestions \cup {Null},
                 existing: Words \cup {Null}, typed: Columns, orig: Columns, columns: Stored]
      BY <1>2 DEF Process
    <2>3. p = [at |-> "insert_suggestion", suggestion |-> w.suggestion, existing |-> w.existing,
               typed |-> w.typed, orig |-> w.orig, columns |-> w.columns]
      BY <2>1, <2>2
    <2>4. p \in Process BY <2>2, <2>3 DEF Process
    <2>5. Refers(p)' BY <1>3, <1>4, <1>5, <2>3 DEF Refers
    <2>6. ThreadKnown(p)' BY <1>2, <2>3, <2>5 DEF ThreadKnown
    <2> QED BY <1>4, <1>5, <2>1, <2>4, <2>6, ThreadMoves DEF Do, IInv, TypeOK
  <1>6. CASE Done(t) /\ UNCHANGED meant
    BY <1>4, <1>6, IdleMoves DEF IInv, TypeOK
  <1>7. CASE /\ Done(t)
             /\ Exists(w.suggestion, suggestions)
             /\ meant' = [meant EXCEPT ![w.suggestion] =
                            [existing |-> w.existing, typed |-> Read(w.suggestion),
                             base |-> OriginalOf(w.existing)]]
    <2>1. w.suggestion \in Suggestions /\ suggestions[w.suggestion] # Null
      BY <1>3, <1>7 DEF Exists
    <2>2. w.existing = suggestions[w.suggestion].existing
      BY <1>3, <2>1, WordsAssumption DEF Refers, IInv, RowsKnown, RowKnown, Kept
    <2> QED BY <1>4, <1>7, <2>1, <2>2, NothingInsertedKnown
  <1> QED BY <1>1, <1>5, <1>6, <1>7 DEF read_suggestion

LEMMA InsertKnown == ASSUME IInv, NEW t \in Threads, insert_suggestion(t) PROVE IInv'
  <1>1. PICK w \in Process : w = todo[t] BY DEF IInv, TypeOK
  <1>2. w.at = "insert_suggestion" /\ ThreadKnown(w)
    BY <1>1 DEF insert_suggestion, At, IInv, ThreadsKnown
  <1>3. w.suggestion \in Suggestions \cup {Null} /\ w.existing \in Words \cup {Null}
        /\ w.typed \in Sendable /\ w.typed \in Columns /\ Refers(w)
        /\ w.orig \in Columns /\ w.columns \in Stored
        /\ w.columns = Params(w.typed, w.orig, w.existing = Null)
        /\ (w.existing = Null => w.orig = Default)
    BY <1>2, SubmissionFields, InsertionFields DEF ThreadKnown
  <1>4. PICK s \in Suggestions : s = IF w.suggestion = Null THEN last_id + 1 ELSE w.suggestion
    BY <1>1 DEF insert_suggestion
  <1>5. PICK row : row = [existing |-> w.existing, columns |-> w.columns]
    OBVIOUS
  <1>6. PICK m : m = [existing |-> w.existing, typed |-> w.typed, base |-> w.orig]
    OBVIOUS
  <1>7. /\ suggestions' = [suggestions EXCEPT ![s] = row]
        /\ meant' = [meant EXCEPT ![s] = m]
        /\ last_id' = IF s > last_id THEN s ELSE last_id
        /\ Done(t)
        /\ UNCHANGED <<words, forms, arrivals, agreed, overlapped, misread>>
    BY <1>1, <1>4, <1>5, <1>6 DEF insert_suggestion
  <1>8. row \in Row /\ m \in Meaning /\ m # Null
    BY <1>3, <1>5, <1>6, WordsAssumption DEF Row, Meaning
  <1>9. Kept(row, m)
    BY <1>3, <1>5, <1>6, ParamsKept
  <1>10. /\ meant \in [Suggestions -> Meaning \cup {Null}]
         /\ suggestions \in [Suggestions -> Row \cup {Null}]
         /\ last_id \in Nat
    BY DEF IInv, TypeOK
  <1>11. /\ meant' \in [Suggestions -> Meaning \cup {Null}]
         /\ suggestions' \in [Suggestions -> Row \cup {Null}]
         /\ last_id' \in Nat
    BY <1>7, <1>8, <1>10, WordsAssumption
  <1>12. meant[s] # Null => meant[s].existing = w.existing
    <2>1. CASE w.suggestion = Null
      <3>1. s = last_id + 1 BY <1>4, <2>1
      <3>2. ~(s <= last_id) BY <3>1, <1>10
      <3> QED BY <3>2 DEF IInv, MeaningsKnown
    <2>2. CASE w.suggestion # Null
      BY <1>3, <1>4, <2>2 DEF Refers
    <2> QED BY <2>1, <2>2
  <1>13. Grows
    BY <1>6, <1>7, <1>8, <1>10, <1>12 DEF Grows
  <1>14. w.existing # Null => words[w.existing] # Null
    BY <1>3 DEF Refers
  <1>15. RowsKnown'
    <2> SUFFICES ASSUME NEW r \in Suggestions PROVE RowKnown(r)'
      BY DEF RowsKnown
    <2>1. CASE r = s
      <3>1. suggestions'[r] = row /\ meant'[r] = m BY <1>7, <1>10, <2>1
      <3>2. row.existing = w.existing BY <1>5
      <3> QED BY <3>1, <3>2, <1>7, <1>8, <1>9, <1>14 DEF RowKnown
    <2>2. CASE r # s
      <3>1. RowKnown(r) BY DEF IInv, RowsKnown
      <3>2. meant'[r] = meant[r] /\ suggestions'[r] = suggestions[r] BY <1>7, <1>10, <2>2
      <3> QED BY <1>7, <3>1, <3>2 DEF RowKnown
    <2> QED BY <2>1, <2>2
  <1>16. MeaningsKnown'
    <2> SUFFICES ASSUME NEW r \in Suggestions, meant'[r] # Null PROVE r <= last_id'
      BY DEF MeaningsKnown
    <2>1. r \in Nat /\ s \in Nat BY WordsAssumption
    <2>2. CASE r = s BY <1>7, <1>10, <2>1, <2>2
    <2>3. CASE r # s
      <3>1. r <= last_id BY <1>7, <1>10, <2>3 DEF IInv, MeaningsKnown
      <3> QED BY <1>7, <1>10, <2>1, <3>1
    <2> QED BY <2>2, <2>3
  <1>17. FormsKnown' BY <1>7, <1>13, FormsStayKnown DEF IInv
  <1>18. todo' \in [Threads -> Process] /\ ThreadsKnown'
    BY <1>7, <1>13, IdleKnown, ThreadsStayKnown DEF IInv, Done, Do
  <1>19. WordsAgreed' BY <1>7, UnchangedAgreed DEF IInv
  <1> QED BY <1>7, <1>11, <1>15, <1>16, <1>17, <1>18, <1>19 DEF IInv, TypeOK

LEMMA DecisionKnown ==
    ASSUME IInv, NEW t \in Threads, accept_suggested_word(t) \/ reject_suggested_word(t)
    PROVE  IInv'
  <1>1. PICK s \in Suggestions, first \in {"fetch_full", "delete_suggestion"} :
          /\ Arrive(t, [at |-> first, id |-> s])
          /\ UNCHANGED <<words, suggestions, last_id, forms, meant, agreed, overlapped, misread>>
    BY DEF accept_suggested_word, reject_suggested_word
  <1>2. PICK p : p = [at |-> first, id |-> s]
    OBVIOUS
  <1>3. p \in Process BY <1>2 DEF Process
  <1>4. ThreadKnown(p)' BY <1>2 DEF ThreadKnown
  <1>5. todo' = [todo EXCEPT ![t] = p] /\ arrivals' \in Nat
    BY <1>1, <1>2 DEF Arrive, Do, IInv, TypeOK
  <1> QED BY <1>1, <1>3, <1>4, <1>5, ThreadMoves

LEMMA FetchKnown == ASSUME IInv, NEW t \in Threads, fetch_full(t) PROVE IInv'
  <1>1. PICK q \in Process : q = todo[t] BY DEF IInv, TypeOK
  <1>2. q.id \in Suggestions BY <1>1, DecisionFields DEF fetch_full, At
  <1>3. PICK s \in Suggestions : s = q.id BY <1>2
  <1>4. UNCHANGED <<words, suggestions, last_id, forms, arrivals, meant, agreed, overlapped, misread>>
    BY DEF fetch_full
  <1>5. CASE Done(t)
    BY <1>4, <1>5, IdleMoves DEF IInv, TypeOK
  <1>6. CASE suggestions[s] # Null /\
             Do(t, [at |-> "accept_just_word", id |-> s, row |-> suggestions[s],
                    word |-> OriginalOf(suggestions[s].existing), meant |-> meant[s]])
    <2>1. PICK row \in Row : row = suggestions[s] BY <1>6, ReadType DEF IInv
    <2>2. PICK word \in Columns : word = OriginalOf(row.existing) /\ (row.existing = Null => word = Default)
      BY OriginalType DEF IInv, TypeOK, Row
    <2>3. RowKnown(s) BY DEF IInv, RowsKnown
    <2>4. PICK m \in Meaning : m = meant[s] BY <1>6, <2>3 DEF RowKnown, IInv, TypeOK
    <2>5. PICK p : p = [at |-> "accept_just_word", id |-> s, row |-> row, word |-> word, meant |-> m]
      OBVIOUS
    <2>6. p \in Process BY <2>5 DEF Process
    <2>7. ThreadKnown(p)' BY <1>4, <1>6, <2>1, <2>2, <2>3, <2>4, <2>5 DEF ThreadKnown, RowKnown
    <2>8. todo' = [todo EXCEPT ![t] = p] BY <1>6, <2>1, <2>2, <2>4, <2>5 DEF Do
    <2> QED BY <1>4, <2>6, <2>7, <2>8, ThreadMoves DEF IInv, TypeOK
  <1> QED BY <1>1, <1>3, <1>5, <1>6 DEF fetch_full, Exists

LEMMA DeleteKnown == ASSUME IInv, NEW t \in Threads, delete_suggestion(t) PROVE IInv'
  <1>1. PICK q \in Process : q = todo[t] BY DEF IInv, TypeOK
  <1>2. q.id \in Suggestions BY <1>1, DecisionFields DEF delete_suggestion, At
  <1>3. suggestions' = [suggestions EXCEPT ![q.id] = Null]
        /\ UNCHANGED <<words, last_id, forms, arrivals, meant, agreed, overlapped, misread>>
        /\ Done(t)
    BY <1>1 DEF delete_suggestion
  <1>4. suggestions \in [Suggestions -> Row \cup {Null}] BY DEF IInv, TypeOK
  <1>5. suggestions' \in [Suggestions -> Row \cup {Null}] BY <1>3, <1>4
  <1>6. Grows BY <1>3, UnchangedGrows
  <1>7. RowsKnown'
    <2> SUFFICES ASSUME NEW r \in Suggestions, suggestions'[r] # Null PROVE RowKnown(r)'
      BY DEF RowsKnown, RowKnown
    <2>1. RowKnown(r) BY DEF IInv, RowsKnown
    <2>2. suggestions'[r] = suggestions[r] BY <1>3, <1>4
    <2> QED BY <1>3, <2>1, <2>2 DEF RowKnown
  <1>8. FormsKnown' BY <1>3, <1>6, FormsStayKnown DEF IInv
  <1>9. todo' \in [Threads -> Process] /\ ThreadsKnown'
    BY <1>3, <1>6, IdleKnown, ThreadsStayKnown DEF IInv, Done, Do
  <1>10. WordsAgreed' BY <1>3, UnchangedAgreed DEF IInv
  <1> QED BY <1>3, <1>5, <1>7, <1>8, <1>9, <1>10 DEF IInv, TypeOK, MeaningsKnown

\* What an acceptance writes: every column about which its suggestion says
\* something as it was typed, and every other as the word had it.
LEMMA AcceptanceWrites ==
    ASSUME NEW row, NEW m, Kept(row, m), NEW word, NEW f \in Fields,
           row.existing = Null => word = Default
    PROVE  \/ current(row.columns, word)[f] =
                  IF row.existing = Null \/ row.columns[f] # Null THEN m.typed[f] ELSE word[f]
           \/ f = "is_informal" /\ Misread(row, word)
  <1>1. CASE row.existing = Null
    BY <1>1, KeptNewWord
  <1>2. CASE row.existing # Null /\ row.columns[f] # Null
    BY <1>2, KeptColumn
  <1>3. CASE row.existing # Null /\ row.columns[f] = Null /\ f # "is_informal"
    BY <1>3, MissingValues DEF current, from_row, from_row_with_sentinel, Original
  <1>4. CASE row.existing # Null /\ row.columns[f] = Null /\ f = "is_informal"
    BY <1>4 DEF current, from_row, Original, Misread
  <1> QED BY <1>1, <1>2, <1>3, <1>4

LEMMA AcceptKnown == ASSUME IInv, NEW t \in Threads, accept_just_word(t) PROVE IInv'
  <1>1. PICK a \in Process : a = todo[t] BY DEF IInv, TypeOK
  <1>2. a.at = "accept_just_word" /\ ThreadKnown(a)
    BY <1>1 DEF accept_just_word, At, IInv, ThreadsKnown
  <1>3. PICK row \in Row, word \in Columns, m \in Meaning : a.row = row /\ a.word = word /\ a.meant = m
    BY <1>2, AcceptanceFields
  <1>4. a.id \in Suggestions BY <1>2, DecisionFields
  <1>5. /\ Kept(row, m)
        /\ row.existing = Null => word = Default
        /\ row.existing # Null => words[row.existing] # Null
    BY <1>2, <1>3 DEF ThreadKnown
  <1>6. row.existing \in Words \cup {Null} /\ row.columns \in Stored BY DEF Row
  <1>7. PICK read : read = current(row.columns, word)
    OBVIOUS
  <1>8. PICK w \in IF row.existing = Null THEN NextWords ELSE {row.existing} :
          /\ words' = [words EXCEPT ![w] = read]
          /\ agreed' = [agreed EXCEPT ![w] =
               [f \in Fields |-> IF row.existing = Null \/ row.columns[f] # Null
                                 THEN m.typed[f] ELSE agreed[w][f]]]
          /\ overlapped' = IF row.existing # Null /\ words[w] # word
                           THEN overlapped \cup {w} ELSE overlapped
          /\ misread' = IF row.existing # Null /\ row.columns.is_informal = Null
                            /\ word.is_plural # word.is_informal
                        THEN misread \cup {w} ELSE misread
    BY <1>1, <1>3, <1>7 DEF accept_just_word
  <1>9. /\ Do(t, [at |-> "delete_suggestion", id |-> a.id])
        /\ UNCHANGED <<suggestions, last_id, forms, arrivals, meant>>
    BY <1>1 DEF accept_just_word
  <1>10. w \in Words BY <1>6, <1>8 DEF NextWords
  <1>11. read \in Columns /\ read # Null BY <1>6, <1>7, CurrentType, WordsAssumption
  <1>12. /\ words \in WordTable /\ agreed \in WordTable
         /\ \A v \in Words : words[v] = Null <=> agreed[v] = Null
    BY DEF IInv, TypeOK, WordsAgreed
  <1>13. PICK said : said = [f \in Fields |-> IF row.existing = Null \/ row.columns[f] # Null
                                              THEN m.typed[f] ELSE agreed[w][f]]
    OBVIOUS
  <1>14. said \in Columns /\ said # Null
    <2>1. m.typed \in Columns BY DEF Meaning
    <2>2. row.existing # Null => agreed[w] \in Columns
      BY <1>5, <1>8, <1>10, <1>12 DEF WordTable
    <2>3. \A f \in Fields : said[f] \in Values[f]
      BY <1>13, <2>1, <2>2, ColumnsByField
    <2>4. said \in Columns BY <1>13, <2>3 DEF Columns, Values, Fields
    <2> QED BY <2>4, WordsAssumption
  <1>15. words' = [words EXCEPT ![w] = read] /\ agreed' = [agreed EXCEPT ![w] = said]
    BY <1>8, <1>13
  <1>16. words' \in WordTable /\ agreed' \in WordTable
    BY <1>10, <1>11, <1>12, <1>14, <1>15 DEF WordTable
  <1>17. overlapped' \subseteq Words /\ misread' \subseteq Words
         /\ overlapped \subseteq overlapped' /\ misread \subseteq misread'
    BY <1>8, <1>10 DEF IInv, TypeOK
  <1>18. Grows
    BY <1>9, <1>10, <1>11, <1>12, <1>15 DEF Grows, WordTable
  <1>19. RowsKnown' BY <1>9, <1>18, RowsStayKnown DEF IInv
  <1>20. FormsKnown' BY <1>9, <1>18, FormsStayKnown DEF IInv
  <1>21. todo' \in [Threads -> Process] /\ ThreadsKnown'
    <2>1. PICK p : p = [at |-> "delete_suggestion", id |-> a.id]
      OBVIOUS
    <2>2. p \in Process /\ ThreadKnown(p)' BY <1>4, <2>1 DEF Process, ThreadKnown
    <2> QED BY <1>9, <1>18, <2>1, <2>2, ThreadsStayKnown DEF IInv, Do
  <1>22. ASSUME NEW v \in Words \ overlapped', words'[v] # Null, NEW f \in Fields
         PROVE  words'[v][f] = agreed'[v][f] \/ (f = "is_informal" /\ v \in misread')
    <2>1. v \notin overlapped BY <1>17, <1>22
    <2>2. CASE v # w
      <3>1. words'[v] = words[v] /\ agreed'[v] = agreed[v] BY <1>12, <1>15, <2>2 DEF WordTable
      <3> QED BY <1>17, <1>22, <2>1, <3>1 DEF IInv, WordsAgreed, AgreedColumnsStand
    <2>3. CASE v = w
      <3>1. words'[v] = read /\ agreed'[v] = said BY <1>10, <1>12, <1>15, <2>3 DEF WordTable
      <3>2. row.existing # Null => words[w] = word /\ words[w] # Null
        BY <1>5, <1>8, <1>22, <2>3
      <3>3. CASE f = "is_informal" /\ Misread(row, word)
        BY <1>8, <2>3, <3>3 DEF Misread
      <3>4. CASE read[f] = IF row.existing = Null \/ row.columns[f] # Null THEN m.typed[f] ELSE word[f]
        <4>1. CASE row.existing = Null \/ row.columns[f] # Null
          BY <1>13, <3>1, <3>4, <4>1
        <4>2. CASE row.existing # Null /\ row.columns[f] = Null
          <5>1. read[f] = words[w][f] /\ said[f] = agreed[w][f]
            BY <1>13, <3>2, <3>4, <4>2
          <5>2. words[w][f] = agreed[w][f] \/ (f = "is_informal" /\ w \in misread)
            BY <2>1, <2>3, <3>2, <4>2 DEF IInv, WordsAgreed, AgreedColumnsStand
          <5> QED BY <1>17, <2>3, <3>1, <5>1, <5>2
        <4> QED BY <4>1, <4>2
      <3> QED BY <1>5, <1>7, <3>3, <3>4, AcceptanceWrites
    <2> QED BY <2>2, <2>3
  <1>23. WordsAgreed'
    <2>1. \A v \in Words : words'[v] = Null <=> agreed'[v] = Null
      BY <1>10, <1>11, <1>12, <1>14, <1>15 DEF WordTable
    <2> QED BY <1>22, <2>1 DEF WordsAgreed, AgreedColumnsStand
  <1> QED BY <1>9, <1>16, <1>17, <1>19, <1>20, <1>21, <1>23 DEF IInv, TypeOK, MeaningsKnown

LEMMA CrashKnown == ASSUME IInv, Crash PROVE IInv'
  <1>1. todo' = [t \in Threads |-> [at |-> "idle"]]
        /\ UNCHANGED <<words, suggestions, last_id, forms, arrivals, meant, agreed, overlapped, misread>>
    BY DEF Crash
  <1>2. todo' \in [Threads -> Process] BY <1>1, IdleKnown
  <1>3. ThreadsKnown' BY <1>1 DEF ThreadsKnown, ThreadKnown
  <1>4. Grows BY <1>1, UnchangedGrows
  <1>5. RowsKnown' /\ FormsKnown' /\ WordsAgreed'
    BY <1>1, <1>4, RowsStayKnown, FormsStayKnown, UnchangedAgreed DEF IInv
  <1> QED BY <1>1, <1>2, <1>3, <1>5 DEF IInv, TypeOK, MeaningsKnown

-----------------------------------------------------------------------------
(* The theorems *)

LEMMA StutterKnown == ASSUME IInv, UNCHANGED vars PROVE IInv'
  <1>1. Grows BY UnchangedGrows DEF vars
  <1>2. ThreadsKnown'
    BY DEF IInv, ThreadsKnown, ThreadKnown, Refers, vars
  <1>3. RowsKnown' /\ FormsKnown' /\ WordsAgreed'
    BY <1>1, RowsStayKnown, FormsStayKnown, UnchangedAgreed DEF IInv, vars
  <1> QED BY <1>2, <1>3 DEF IInv, TypeOK, MeaningsKnown, vars

LEMMA StepKnown == IInv /\ [Next]_vars => IInv'
  <1> SUFFICES ASSUME IInv, [Next]_vars PROVE IInv'
    OBVIOUS
  <1>1. CASE edit_word_page BY <1>1, FormsOfWordsKnown
  <1>2. CASE edit_suggestion_page BY <1>2, FormsOfSuggestionsKnown
  <1>3. ASSUME NEW t \in Threads, submit_suggestion(t) PROVE IInv' BY <1>3, SubmitKnown
  <1>4. ASSUME NEW t \in Threads, read_original(t) PROVE IInv' BY <1>4, ReadOriginalKnown
  <1>5. ASSUME NEW t \in Threads, read_suggestion(t) PROVE IInv' BY <1>5, ReadSuggestionKnown
  <1>6. ASSUME NEW t \in Threads, insert_suggestion(t) PROVE IInv' BY <1>6, InsertKnown
  <1>7. ASSUME NEW t \in Threads, accept_suggested_word(t) \/ reject_suggested_word(t) PROVE IInv'
    BY <1>7, DecisionKnown
  <1>8. ASSUME NEW t \in Threads, fetch_full(t) PROVE IInv' BY <1>8, FetchKnown
  <1>9. ASSUME NEW t \in Threads, accept_just_word(t) PROVE IInv' BY <1>9, AcceptKnown
  <1>10. ASSUME NEW t \in Threads, delete_suggestion(t) PROVE IInv' BY <1>10, DeleteKnown
  <1>11. CASE Crash BY <1>11, CrashKnown
  <1>12. CASE UNCHANGED vars BY <1>12, StutterKnown
  <1> QED BY <1>1, <1>2, <1>3, <1>4, <1>5, <1>6, <1>7, <1>8, <1>9, <1>10, <1>11, <1>12 DEF Next

LEMMA AlwaysKnown == Spec => []IInv
  BY InitKnown, StepKnown, PTL DEF Spec

\* Every variable keeps its type: whatever is submitted, edited, sent again and
\* accepted, no column of a word gets NULL or the sentinel 255.
THEOREM TypeCorrect == Spec => []TypeOK
  <1>1. IInv => TypeOK BY DEF IInv
  <1> QED BY <1>1, AlwaysKnown, PTL

\* from_row's "Field in suggestion unfilled" is out of reach.
THEOREM NoFieldIsUnfilled == Spec => []NoFieldUnfilled
  <1>1. IInv => NoFieldUnfilled
    BY DEF IInv, RowsKnown, RowKnown, Kept, NoFieldUnfilled, Exists
  <1> QED BY <1>1, AlwaysKnown, PTL

\* A suggestion is read as what was typed in its form while its word is as it was,
\* but for a removed mood and an is_informal taken from is_plural, which are lost.
THEOREM ReadsBack == Spec => []ReadsBackAsTyped
  <1>1. IInv => ReadsBackAsTyped
    <2> SUFFICES ASSUME IInv, NEW s \in Suggestions, suggestions[s] # Null,
                        suggestions[s].existing # Null => words[suggestions[s].existing] = meant[s].base,
                        NEW f \in Fields
                 PROVE  \/ Read(s)[f] = meant[s].typed[f]
                        \/ f = "followed_by" /\ meant[s].typed[f] = None
                        \/ f = "is_informal" /\ Misread(suggestions[s], meant[s].base)
      BY DEF ReadsBackAsTyped, Exists
    <2>1. RowKnown(s) BY DEF IInv, RowsKnown
    <2>2. OriginalOf(suggestions[s].existing) = meant[s].base
      <3>1. CASE suggestions[s].existing = Null
        BY <2>1, <3>1 DEF RowKnown, Kept, OriginalOf, Exists
      <3>2. CASE suggestions[s].existing # Null
        BY <2>1, <3>2 DEF RowKnown, OriginalOf, Exists
      <3> QED BY <3>1, <3>2
    <2> QED BY <2>1, <2>2 DEF RowKnown, Kept, Read
  <1> QED BY <1>1, AlwaysKnown, PTL

\* Acceptances of one word that come one after the other keep every column another
\* one agreed on, but for an is_informal that was taken from is_plural.
THEOREM AgreedColumnsAlwaysStand == Spec => []AgreedColumnsStand
  <1>1. IInv => AgreedColumnsStand BY DEF IInv, WordsAgreed
  <1> QED BY <1>1, AlwaysKnown, PTL
=============================================================================
