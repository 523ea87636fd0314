--------------------------- MODULE ProgramProofs ----------------------------
(* What a request has left to issue: it brings the search index in line with *)
(* the tables, and accepts each part of the suggestion it accepts; and what  *)
(* becomes of suggestions, step by step, is what Decisions says.             *)
EXTENDS ModerationProofs

-----------------------------------------------------------------------------
(* The search index: what a thread has left to issue brings the documents of *)
(* the rows it is about in line with the tables.                             *)

Puts(S, doc) == \E s \in S : s.op = "index_put" /\ s.doc = doc
Takes(S, doc) == \E s \in S : s.op = "index_delete" /\ s.doc = doc
Removes(S, doc) ==
    \E s \in S : \/ s.op = "delete_word" /\ doc = Existing(s.id)
                 \/ s.op = "delete_word_suggestion" /\ doc = Suggested(s.id)
Silent(S, doc) == ~Puts(S, doc) /\ ~Takes(S, doc) /\ ~Removes(S, doc)

\* When the statements of S are done, doc is in the index exactly when it has
\* a row.
Settles(S, doc) ==
    Puts(S, doc) \/ (doc \in index /\ ~Takes(S, doc))
        <=> doc \in Documents(db) /\ ~Removes(S, doc)
Matches(doc) == doc \in index <=> doc \in Documents(db)

DocumentOps == {"index_put", "index_delete", "delete_word", "delete_word_suggestion"}
SentOps == {"read_original", "insert_suggestion"}

\* A thread is about what its statements put or remove, puts nothing that it is
\* to take out again, and has sent a form or is deciding, not both.
Foresees(t, s) ==
    /\ s.op \in {"index_put", "index_delete"} => s.doc \in claims[t]
    /\ s.op = "index_put" => ~Takes(Statements(todo[t]), s.doc)
    /\ s.op = "delete_word" => Existing(s.id) \in claims[t]
    /\ s.op = "delete_word_suggestion" => Suggested(s.id) \in claims[t]
    /\ s.op \in SentOps => Len(todo[t]) = 1
    /\ s.op = "insert_suggestion" /\ ~s.changed /\ s.word.existing_id = Null => s.found

\* The word that a suggestion is an edit of, if any, as the tables, the forms
\* and the requests have it.
SentBy(t) == {s.word : s \in {x \in Statements(todo[t]) : x.op \in SentOps}}
Sheets == forms \cup UNION {SentBy(t) : t \in Threads}
Filed == {<<r.id, r.existing_word_id>> : r \in db.word_suggestions}
         \cup {<<w.suggestion_id, w.existing_id>> : w \in {x \in Sheets : x.suggestion_id # Null}}

\* They agree on it, for good.
FiledOnce ==
    /\ \A p, q \in Filed : p[1] = q[1] => p[2] = q[2]
    /\ \A p \in Filed : p[1] <= db.seq["word_suggestions"]

OverlapsKnown == \A t1, t2 \in Threads : t1 # t2 => claims[t1] \cap claims[t2] \subseteq overlapped

Indexed ==
    /\ OverlapsKnown
    /\ FiledOnce
    /\ \A t \in Threads : \A s \in Statements(todo[t]) : Foresees(t, s)
    /\ \A t \in Threads : \A doc \in claims[t] \cap WordOrSuggestionId :
          doc \in Excused \/ Settles(Statements(todo[t]), doc)
    /\ \A doc \in WordOrSuggestionId : doc \in Excused \cup InProgress \/ Matches(doc)

\* A step leaves the index and the tables in line for the document.
Unmoved(doc) == /\ doc \in index' <=> doc \in index
                /\ doc \in Documents(db') <=> doc \in Documents(db)

\* No suggestion is said to be of another word than it was.
FilingLawful ==
    /\ db.seq["word_suggestions"] <= db'.seq["word_suggestions"]
    /\ \/ Filed' \subseteq Filed
       \/ \E p \in Nat \X Nat :
             /\ Filed' \subseteq Filed \cup {p}
             /\ p[1] > db.seq["word_suggestions"] /\ p[1] <= db'.seq["word_suggestions"]

\* The request a step is about answers for every document that the step moves.
Answers(t) ==
    /\ \A doc \in WordOrSuggestionId : doc \in claims[t] \cup claims'[t] \/ Unmoved(doc)
    /\ \A doc \in claims'[t] \cap WordOrSuggestionId :
          doc \in Excused' \/ Settles(Statements(todo[t]), doc)'
    /\ \A doc \in claims[t] \cap WordOrSuggestionId :
          doc \in Excused' \cup claims'[t] \/ Matches(doc)'
    /\ \A s \in Statements(todo'[t]) : Foresees(t, s)'

\* Statements that documents, forms or decisions hang on.
NoticedOps == DocumentOps \cup SentOps \cup FetchedOps

\* The suggestion of a new word that a request goes on to accept is one that it
\* was accepting already, or one that is there.
Supported(t, s) ==
    s.op \in FetchedOps /\ s.row.existing_word_id = Null =>
        \/ \E x \in Statements(todo[t]) : x.op \in FetchedOps /\ x.row = s.row
        \/ Suggested(s.row.id) \in Documents(db')

\* A step that brings no suggestion and no word, and moves documents or rows but
\* not both.
Uneventful(t) ==
    /\ Acts(t)
    /\ index' = index \/ db' = db
    /\ origin' = origin
    /\ db'.word_suggestions \subseteq db.word_suggestions
    /\ db'.seq["word_suggestions"] = db.seq["word_suggestions"]
    /\ \A s \in Statements(todo'[t]) : Supported(t, s)
KeepsInLine(t) == Indexed' /\ Uneventful(t)

\* A step that brings one, and goes on to accept nothing.
Brings(t) ==
    /\ Acts(t)
    /\ Documents(db) \subseteq Documents(db')
    /\ \A s \in Statements(todo'[t]) : s.op \notin FetchedOps

-----------------------------------------------------------------------------
\* Statements that are not about a document settle it when it is in line.
LEMMA SilentSettles ==
    ASSUME NEW S, NEW doc, Silent(S, doc)
    PROVE  Settles(S, doc) <=> Matches(doc)
BY DEF Silent, Settles, Matches

\* No statements are about none.
LEMMA NothingIsSilent ==
    ASSUME NEW doc
    PROVE  Silent({}, doc)
BY DEF Silent, Puts, Takes, Removes

\* Pairs are filed by number.
LEMMA FiledType ==
    ASSUME TypeOK
    PROVE  Filed \subseteq Nat \X Nat
<1>1. \A r \in db.word_suggestions : r.id \in Nat /\ r.existing_word_id \in Nat
  BY DEF TypeOK, Database, WordSuggestionRow, Id, OptionalId
<1>2. \A w \in forms : w.suggestion_id \in Nat /\ w.existing_id \in Nat
  BY DEF TypeOK, Form, OptionalId
<1>3. ASSUME NEW t \in Threads, NEW w \in SentBy(t)
      PROVE  w.suggestion_id \in Nat /\ w.existing_id \in Nat
  <2>1. PICK s \in Statements(todo[t]) : s.op \in SentOps /\ w = s.word
    BY <1>3 DEF SentBy
  <2>2. s \in Statement
    BY StatementsOf DEF TypeOK
  <2>3. w \in WordSubmission
    BY <2>1, <2>2 DEF SentOps, Statement, FetchedStatement, ByIdStatement, AcceptStatement,
                      SharedStatement, DeletionStatement, SubmitStatement
  <2>4. QED
    BY <2>3 DEF WordSubmission, OptionalId
<1>4. \A w \in Sheets : w.suggestion_id \in Nat /\ w.existing_id \in Nat
  BY <1>2, <1>3 DEF Sheets
<1>5. QED
  BY <1>1, <1>4 DEF Filed

\* A form that says of a suggestion what is filed files nothing.
LEMMA FilesKnown ==
    ASSUME db'.word_suggestions \subseteq db.word_suggestions,
           db.seq["word_suggestions"] <= db'.seq["word_suggestions"],
           \A w \in Sheets' : \/ w \in Sheets \/ w.suggestion_id = Null
                              \/ <<w.suggestion_id, w.existing_id>> \in Filed
    PROVE  FilingLawful
<1>1. ASSUME NEW p \in Filed'
      PROVE  p \in Filed
  <2>1. CASE \E r \in db'.word_suggestions : p = <<r.id, r.existing_word_id>>
    BY <2>1 DEF Filed
  <2>2. ASSUME NEW w \in Sheets', w.suggestion_id # Null,
               p = <<w.suggestion_id, w.existing_id>>
        PROVE  p \in Filed
    BY <2>2 DEF Filed
  <2>3. QED
    BY <1>1, <2>1, <2>2 DEF Filed
<1>2. QED
  BY <1>1 DEF FilingLawful

\* A step that brings no suggestion and no word of a form files nothing.
LEMMA FilesNothing ==
    ASSUME NEW t \in Threads, \A u \in Threads \ {t} : todo'[u] = todo[u], forms' = forms,
           db'.word_suggestions \subseteq db.word_suggestions,
           db.seq["word_suggestions"] <= db'.seq["word_suggestions"],
           SentBy(t)' \subseteq SentBy(t)
    PROVE  FilingLawful
<1>1. \A u \in Threads \ {t} : SentBy(u)' = SentBy(u)
  BY DEF SentBy
<1>2. Sheets' \subseteq Sheets
  BY <1>1 DEF Sheets
<1>3. QED
  BY <1>2, FilesKnown

\* What is filed once stays so.
LEMMA FiledStaysOnce ==
    ASSUME TypeOK, TypeOK', FiledOnce, FilingLawful
    PROVE  FiledOnce'
<1>1. /\ db.seq["word_suggestions"] \in Nat /\ db'.seq["word_suggestions"] \in Nat
      /\ db.seq["word_suggestions"] <= db'.seq["word_suggestions"]
  BY DEF TypeOK, Database, AutoIncrement, FilingLawful
<1>2. \A p \in Filed : /\ p[1] \in Nat
                       /\ p[1] <= db.seq["word_suggestions"]
                       /\ p[1] <= db'.seq["word_suggestions"]
  BY <1>1, FiledType DEF FiledOnce
<1>3. CASE Filed' \subseteq Filed
  BY <1>2, <1>3 DEF FiledOnce
<1>4. ASSUME NEW p \in Nat \X Nat, Filed' \subseteq Filed \cup {p},
             p[1] > db.seq["word_suggestions"], p[1] <= db'.seq["word_suggestions"]
      PROVE  FiledOnce'
  <2>1. \A q \in Filed : q[1] # p[1]
    BY <1>1, <1>2, <1>4
  <2>2. QED
    BY <1>2, <1>4, <2>1 DEF FiledOnce
<1>5. QED
  BY <1>3, <1>4 DEF FilingLawful

\* No step about one request disturbs what the others are going to settle.
LEMMA StepIndexed ==
    ASSUME TypeOK, Indexed, TypeOK', NEW t \in Threads, Acts(t), FilingLawful, Answers(t)
    PROVE  Indexed'
<1>1. OverlapsKnown'
  <2>1. ASSUME NEW t1 \in Threads, NEW t2 \in Threads, t1 # t2
        PROVE  claims'[t1] \cap claims'[t2] \subseteq overlapped'
    <3>1. <<t1, t2>> \in TwoThreads
      BY <2>1 DEF TwoThreads
    <3>2. \A p \in TwoThreads : claims'[p[1]] \cap claims'[p[2]] \subseteq overlapped'
      BY DEF Acts, Observe
    <3>3. QED
      BY <3>1, <3>2
  <2>2. QED
    BY <2>1 DEF OverlapsKnown
<1>2. Excused \subseteq Excused'
  BY OverlapsExcused
<1>3. \A u \in Threads \ {t} : todo'[u] = todo[u] /\ claims'[u] = claims[u]
  BY DEF Acts
<1>4. ASSUME NEW u \in Threads \ {t}, NEW doc \in WordOrSuggestionId, doc \in claims[u]
      PROVE  doc \in Excused' \/ Unmoved(doc)
  <2>1. doc \in claims[t] => doc \in Excused'
    BY <1>2, <1>4 DEF Indexed, OverlapsKnown, Excused
  <2>2. doc \in claims'[t] => doc \in Excused'
    BY <1>4, OverlapsExcused
  <2>3. QED
    BY <2>1, <2>2 DEF Answers
<1>5. ASSUME NEW u \in Threads, NEW doc \in claims'[u] \cap WordOrSuggestionId
      PROVE  doc \in Excused' \/ Settles(Statements(todo[u]), doc)'
  <2>1. CASE u = t
    BY <2>1 DEF Answers
  <2>2. CASE u # t
    <3>1. doc \in Excused' \/ Unmoved(doc)
      BY <1>3, <1>4, <2>2
    <3>2. doc \in Excused \/ Settles(Statements(todo[u]), doc)
      BY <1>3, <2>2 DEF Indexed
    <3>3. Statements(todo'[u]) = Statements(todo[u])
      BY <1>3, <2>2
    <3>4. QED
      BY <1>2, <3>1, <3>2, <3>3 DEF Settles, Unmoved
  <2>3. QED
    BY <2>1, <2>2
<1>6. ASSUME NEW doc \in WordOrSuggestionId
      PROVE  doc \in Excused' \cup InProgress' \/ Matches(doc)'
  <2>1. CASE doc \in claims[t] \cup claims'[t]
    BY <2>1 DEF Answers, InProgress
  <2>2. CASE doc \notin claims[t] \cup claims'[t]
    <3>1. Unmoved(doc)
      BY <2>2 DEF Answers
    <3>2. doc \in Excused \cup InProgress \/ Matches(doc)
      BY DEF Indexed
    <3>3. doc \in InProgress => doc \in InProgress'
      BY <1>3, <2>2 DEF InProgress
    <3>4. QED
      BY <1>2, <3>1, <3>2, <3>3 DEF Matches, Unmoved
  <2>3. QED
    BY <2>1, <2>2
<1>7. ASSUME NEW u \in Threads, NEW s \in Statements(todo'[u])
      PROVE  Foresees(u, s)'
  <2>1. CASE u = t
    BY <2>1 DEF Answers
  <2>2. CASE u # t
    BY <1>3, <2>2 DEF Indexed, Foresees
  <2>3. QED
    BY <2>1, <2>2
<1>8. FiledOnce'
  BY FiledStaysOnce DEF Indexed
<1>9. QED
  BY <1>1, <1>5, <1>6, <1>7, <1>8 DEF Indexed

-----------------------------------------------------------------------------
\* What a request is about when one statement of it is done.
LEMMA AboutStill ==
    ASSUME TypeOK, NEW t \in Threads, todo[t] # <<>>, NEW statements, NEW about,
           Continue(t, statements, about)
    PROVE  /\ todo'[t] = statements \o Tail(todo[t])
           /\ claims'[t] = IF todo'[t] = <<>> THEN {} ELSE claims[t] \cup about
BY DEF Continue, TypeOK

\* Of what one statement or more remain, the statement before them did its part.
LEMMA StatementSettles ==
    ASSUME NEW x, NEW S, NEW doc,
           Settles({x} \cup S, doc), Puts({x}, doc) => ~Takes(S, doc),
           doc \in index' <=> Puts({x}, doc) \/ (doc \in index /\ ~Takes({x}, doc)),
           doc \in Documents(db') <=> doc \in Documents(db) /\ ~Removes({x}, doc)
    PROVE  Puts(S, doc) \/ (doc \in index' /\ ~Takes(S, doc))
               <=> doc \in Documents(db') /\ ~Removes(S, doc)
<1>1. Puts({x} \cup S, doc) <=> Puts({x}, doc) \/ Puts(S, doc)
  BY DEF Puts
<1>2. Takes({x} \cup S, doc) <=> Takes({x}, doc) \/ Takes(S, doc)
  BY DEF Takes
<1>3. Removes({x} \cup S, doc) <=> Removes({x}, doc) \/ Removes(S, doc)
  BY DEF Removes
<1>4. QED
  BY <1>1, <1>2, <1>3 DEF Settles

\* Statements that are about no document add nothing.
LEMMA AddedSettles ==
    ASSUME NEW A, NEW S, NEW doc, \A x \in A : x.op \notin DocumentOps
    PROVE  /\ Puts(A \cup S, doc) <=> Puts(S, doc)
           /\ Takes(A \cup S, doc) <=> Takes(S, doc)
           /\ Removes(A \cup S, doc) <=> Removes(S, doc)
BY DEF Puts, Takes, Removes, DocumentOps

\* A statement is about documents of rows its request is about.
LEMMA StatementsAbout ==
    ASSUME Indexed, NEW t \in Threads, NEW doc, doc \notin claims[t]
    PROVE  Silent(Statements(todo[t]), doc)
BY DEF Indexed, Foresees, Silent, Puts, Takes, Removes

\* A thread whose statement does to the index and the tables what it says, and
\* that goes on to nothing of the kind, settles what it was going to.
LEMMA Proceeds ==
    ASSUME TypeOK, ThreadsKnown, Indexed, TypeOK', NEW t \in Threads, NEW op, At(t, op),
           NEW X, NEW statements \in Seq(X), NEW about, Continue(t, statements, about),
           broken \subseteq broken', Observe, forms' = forms,
           \A x \in X : x.op \notin DocumentOps \cup SentOps,
           db'.word_suggestions \subseteq db.word_suggestions,
           db.seq["word_suggestions"] <= db'.seq["word_suggestions"],
           \A doc \in WordOrSuggestionId :
               /\ doc \in index' <=> \/ Puts({Current(t)}, doc)
                                     \/ doc \in index /\ ~Takes({Current(t)}, doc)
               /\ doc \in Documents(db') <=> doc \in Documents(db) /\ ~Removes({Current(t)}, doc)
    PROVE  Indexed'
<1> DEFINE rest == Statements(Tail(todo[t]))
<1>1. /\ todo[t] # <<>> /\ todo[t] \in Seq(Statement) /\ Current(t).op = op
      /\ Statements(todo[t]) = {Current(t)} \cup rest
  BY ProgramAt DEF At
<1>2. /\ \A u \in Threads \ {t} : todo'[u] = todo[u] /\ claims'[u] = claims[u]
      /\ Statements(todo'[t]) = Statements(statements) \cup rest
      /\ Statements(statements) \subseteq X
      /\ claims'[t] = IF todo'[t] = <<>> THEN {} ELSE claims[t] \cup about
  <2>1. /\ \A u \in Threads \ {t} : todo'[u] = todo[u] /\ claims'[u] = claims[u]
        /\ Statements(todo'[t]) = Statements(statements) \cup Statements(Tail(todo[t]))
        /\ Statements(statements) \subseteq X
    BY <1>1, Continued
  <2>2. claims'[t] = IF todo'[t] = <<>> THEN {} ELSE claims[t] \cup about
    BY <1>1, AboutStill
  <2>3. QED
    BY <2>1, <2>2
<1>3. Acts(t)
  BY <1>2 DEF Acts
<1>4. todo'[t] = <<>> => Statements(todo'[t]) = {}
  BY DEF Statements
<1> HIDE DEF rest
<1>5. ASSUME NEW doc \in WordOrSuggestionId, doc \notin claims[t]
      PROVE  Unmoved(doc) /\ Silent({Current(t)}, doc) /\ Silent(rest, doc)
  <2>1. Silent(Statements(todo[t]), doc)
    BY <1>5, StatementsAbout
  <2>2. Silent({Current(t)}, doc) /\ Silent(rest, doc)
    BY <1>1, <2>1 DEF Silent, Puts, Takes, Removes
  <2>3. QED
    BY <2>2 DEF Silent, Unmoved
<1>6. ASSUME NEW doc \in WordOrSuggestionId, doc \in claims[t]
      PROVE  doc \in Excused' \/ Settles(Statements(todo[t]), doc)'
  <2>1. doc \in Excused \/ Settles({Current(t)} \cup rest, doc)
    BY <1>1, <1>6 DEF Indexed
  <2>2. Puts({Current(t)}, doc) => ~Takes(rest, doc)
    <3>1. Foresees(t, Current(t))
      BY <1>1 DEF Indexed
    <3>2. QED
      BY <1>1, <3>1 DEF Foresees, Puts, Takes
  <2>3. Excused \subseteq Excused'
    BY <1>3, OverlapsExcused
  <2>4. Settles({Current(t)} \cup rest, doc) =>
            (Puts(rest, doc) \/ (doc \in index' /\ ~Takes(rest, doc))
                 <=> doc \in Documents(db') /\ ~Removes(rest, doc))
    BY <2>2, StatementSettles
  <2>5. /\ Puts(Statements(todo'[t]), doc) <=> Puts(rest, doc)
        /\ Takes(Statements(todo'[t]), doc) <=> Takes(rest, doc)
        /\ Removes(Statements(todo'[t]), doc) <=> Removes(rest, doc)
    <3>1. \A x \in Statements(statements) : x.op \notin DocumentOps
      BY <1>2
    <3>2. QED
      BY <1>2, <3>1, AddedSettles
  <2>6. QED
    BY <2>1, <2>3, <2>4, <2>5 DEF Settles
<1>7. ASSUME NEW doc \in WordOrSuggestionId, doc \in claims'[t], doc \notin claims[t]
      PROVE  doc \in Excused' \/ Settles(Statements(todo[t]), doc)'
  <2>1. CASE doc \in InProgress
    <3>1. PICK u \in Threads : doc \in claims[u]
      BY <2>1 DEF InProgress
    <3>2. QED
      BY <1>3, <1>7, <3>1, OverlapsExcused
  <2>2. CASE doc \in Excused
    BY <1>3, <2>2, OverlapsExcused
  <2>3. CASE doc \notin Excused \cup InProgress
    <3>1. Matches(doc) /\ Unmoved(doc) /\ Silent(rest, doc)
      BY <1>5, <1>7, <2>3 DEF Indexed
    <3>2. Silent(Statements(todo'[t]), doc)
      <4>1. \A x \in Statements(statements) : x.op \notin DocumentOps
        BY <1>2
      <4>2. QED
        BY <1>2, <3>1, <4>1, AddedSettles DEF Silent
    <3>3. QED
      BY <3>1, <3>2 DEF Matches, Unmoved, Settles, Silent
  <2>4. QED
    BY <2>1, <2>2, <2>3
<1>8. ASSUME NEW doc \in WordOrSuggestionId, doc \in claims[t], doc \notin claims'[t]
      PROVE  doc \in Excused' \/ Matches(doc)'
  <2>1. Statements(todo'[t]) = {}
    BY <1>2, <1>4, <1>8
  <2>2. QED
    BY <1>6, <1>8, <2>1, NothingIsSilent DEF Settles, Matches, Silent
<1>9. ASSUME NEW s \in Statements(todo'[t])
      PROVE  Foresees(t, s)'
  <2>1. CASE s \in Statements(statements)
    BY <1>2, <2>1 DEF Foresees, DocumentOps, SentOps
  <2>2. CASE s \in rest
    <3>1. Foresees(t, s)
      BY <1>1, <2>2 DEF Indexed
    <3>2. claims[t] \subseteq claims'[t]
      BY <1>2, <1>4, <1>9
    <3>3. \A doc : Takes(Statements(todo'[t]), doc) => Takes(Statements(todo[t]), doc)
      BY <1>1, <1>2 DEF Takes, DocumentOps
    <3>4. s.op \notin SentOps
      <4>1. CASE Len(todo[t]) = 1
        <5>1. Len(Tail(todo[t])) = 0
          BY <1>1, <4>1
        <5>2. rest = {}
          BY <5>1 DEF rest, Statements
        <5>3. QED
          BY <2>2, <5>2
      <4>2. CASE Len(todo[t]) # 1
        BY <3>1, <4>2 DEF Foresees
      <4>3. QED
        BY <4>1, <4>2
    <3>5. QED
      BY <3>1, <3>2, <3>3, <3>4 DEF Foresees, SentOps
  <2>3. QED
    BY <1>2, <1>9, <2>1, <2>2
<1>10. Answers(t)
  BY <1>2, <1>5, <1>6, <1>7, <1>8, <1>9 DEF Answers
<1>11. SentBy(t)' \subseteq SentBy(t)
  BY <1>1, <1>2 DEF SentBy
<1>12. FilingLawful
  BY <1>2, <1>11, FilesNothing
<1>13. QED
  BY <1>3, <1>10, <1>12, StepIndexed

\* A thread that has not begun, or has read but not written, is about to move no
\* document.
LEMMA SilentNow ==
    ASSUME TypeOK, ThreadsKnown, Indexed, NEW t \in Threads,
           \/ Idle(t)
           \/ \E op \in FirstOps \cup SentOps : At(t, op)
    PROVE  /\ Tail(todo[t]) = <<>> \/ Idle(t)
           /\ \A s \in Statements(todo[t]) : s = Current(t)
           /\ \A doc : Silent(Statements(todo[t]), doc)
<1>1. CASE Idle(t)
  <2>1. Statements(todo[t]) = {}
    BY <1>1 DEF Idle, Statements
  <2>2. QED
    BY <1>1, <2>1, NothingIsSilent
<1>2. ASSUME NEW op \in FirstOps \cup SentOps, At(t, op)
      PROVE  /\ Tail(todo[t]) = <<>>
             /\ \A s \in Statements(todo[t]) : s = Current(t)
             /\ \A doc : Silent(Statements(todo[t]), doc)
  <2>1. /\ todo[t] \in Seq(Statement) /\ todo[t] # <<>> /\ Current(t).op = op
        /\ Tail(todo[t]) \in Seq(Statement)
        /\ Statements(todo[t]) = {Current(t)} \cup Statements(Tail(todo[t]))
    BY <1>2, ProgramAt
  <2>2. Tail(todo[t]) = <<>>
    <3>1. CASE op \in FirstOps
      BY <1>2, <3>1, ShapeAt
    <3>2. CASE op \in SentOps
      <4>1. Foresees(t, Current(t))
        BY <2>1 DEF Indexed
      <4>2. Len(todo[t]) = 1
        BY <2>1, <3>2, <4>1 DEF Foresees
      <4>3. Len(Tail(todo[t])) = 0
        BY <2>1, <4>2
      <4>4. QED
        BY <2>1, <4>3, EmptySeq
    <3>3. QED
      BY <3>1, <3>2
  <2>3. Statements(todo[t]) = {Current(t)}
    BY <2>1, <2>2 DEF Statements
  <2>4. op \notin DocumentOps
    BY DEF FirstOps, FetchedOps, SentOps, DocumentOps
  <2>5. \A doc : Silent(Statements(todo[t]), doc)
    BY <2>1, <2>3, <2>4 DEF Silent, Puts, Takes, Removes, DocumentOps
  <2>6. QED
    BY <2>2, <2>3, <2>5
<1>3. QED
  BY <1>1, <1>2

\* Such a thread goes on with statements that settle what they are about.
LEMMA Starts ==
    ASSUME TypeOK, Indexed, TypeOK', NEW t \in Threads, Acts(t), FilingLawful,
           \A doc : Silent(Statements(todo[t]), doc),
           \A s \in Statements(todo'[t]) : Foresees(t, s)',
           \A doc \in WordOrSuggestionId :
               \/ /\ doc \in claims'[t]
                  /\ doc \in Excused' \/ Settles(Statements(todo[t]), doc)'
               \/ Unmoved(doc) /\ Silent(Statements(todo'[t]), doc)
    PROVE  Indexed'
<1>1. ASSUME NEW doc \in WordOrSuggestionId, doc \in claims[t] \cup claims'[t], Unmoved(doc)
      PROVE  doc \in Excused' \/ Matches(doc)'
  <2>1. CASE doc \in claims[t]
    <3>1. doc \in Excused \/ Matches(doc)
      BY <2>1, SilentSettles DEF Indexed
    <3>2. QED
      BY <1>1, <3>1, OverlapsExcused DEF Matches, Unmoved
  <2>2. CASE \E u \in Threads \ {t} : doc \in claims[u] /\ doc \in claims'[t]
    BY <2>2, OverlapsExcused
  <2>3. CASE doc \notin InProgress
    <3>1. doc \in Excused \/ Matches(doc)
      BY <2>3 DEF Indexed
    <3>2. QED
      BY <1>1, <3>1, OverlapsExcused DEF Matches, Unmoved
  <2>4. QED
    BY <1>1, <2>1, <2>2, <2>3 DEF InProgress
<1>2. ASSUME NEW doc \in WordOrSuggestionId, doc \in claims'[t]
      PROVE  doc \in Excused' \/ Settles(Statements(todo[t]), doc)'
  <2>1. CASE Unmoved(doc) /\ Silent(Statements(todo'[t]), doc)
    BY <1>1, <1>2, <2>1 DEF Silent, Settles, Matches
  <2>2. QED
    BY <1>2, <2>1
<1>3. Answers(t)
  BY <1>1, <1>2 DEF Answers
<1>4. QED
  BY <1>3, StepIndexed

\* A thread goes on uneventfully that goes on to accept nothing new.
LEMMA GoesOnUneventful ==
    ASSUME TypeOK, ThreadsKnown, NEW t \in Threads, NEW op, At(t, op),
           NEW X, NEW statements \in Seq(X), \A x \in X : Supported(t, x),
           NEW about, Continue(t, statements, about), broken \subseteq broken', Observe,
           origin' = origin, index' = index \/ db' = db,
           db'.word_suggestions \subseteq db.word_suggestions,
           db'.seq["word_suggestions"] = db.seq["word_suggestions"]
    PROVE  Uneventful(t)
<1>1. /\ todo[t] # <<>>
      /\ Statements(todo[t]) = {Current(t)} \cup Statements(Tail(todo[t]))
  BY ProgramAt
<1>2. /\ \A u \in Threads \ {t} : todo'[u] = todo[u] /\ claims'[u] = claims[u]
      /\ Statements(todo'[t]) \subseteq X \cup Statements(Tail(todo[t]))
  BY <1>1, Continued
<1>3. \A x \in Statements(todo[t]) : Supported(t, x)
  BY DEF Supported
<1>4. \A s \in Statements(todo'[t]) : Supported(t, s)
  BY <1>1, <1>2, <1>3
<1>5. QED
  BY <1>2, <1>4 DEF Uneventful, Acts

\* Nothing is accepted by other statements.
LEMMA OthersSupported ==
    ASSUME NEW t \in Threads, NEW X, \A x \in X : x.op \notin NoticedOps
    PROVE  /\ \A x \in X : x.op \notin DocumentOps \cup SentOps
           /\ \A x \in X : Supported(t, x)
BY DEF NoticedOps, Supported

\* A panic leaves nothing behind that is not excused.
LEMMA PanicIndexed ==
    ASSUME TypeOK, Indexed, TypeOK', NEW t \in Threads, Panic(t)
    PROVE  KeepsInLine(t)
<1>1. /\ UNCHANGED <<db, index, forms, origin>> /\ Acts(t) /\ todo'[t] = <<>> /\ claims'[t] = {}
      /\ claims[t] \subseteq broken'
  BY DEF Panic, Stop, Acts, TypeOK
<1>2. Statements(todo'[t]) = {}
  BY <1>1 DEF Statements
<1>3. Answers(t)
  BY <1>1, <1>2 DEF Answers, Unmoved, Excused
<1>4. FilingLawful
  <2>1. SentBy(t)' \subseteq SentBy(t)
    BY <1>2 DEF SentBy
  <2>2. db.seq["word_suggestions"] <= db'.seq["word_suggestions"]
    BY <1>1 DEF TypeOK, Database, AutoIncrement
  <2>3. QED
    BY <1>1, <2>1, <2>2, FilesNothing DEF Acts
<1>5. Uneventful(t)
  BY <1>1, <1>2 DEF Uneventful
<1>6. QED
  BY <1>1, <1>3, <1>4, <1>5, StepIndexed DEF KeepsInLine

\* An unwrap of nothing leaves nothing behind.
LEMMA RefuseIndexed ==
    ASSUME TypeOK, ThreadsKnown, Indexed, TypeOK', NEW t \in Threads,
           NEW op \in FirstOps \cup SentOps, At(t, op), Refuse(t)
    PROVE  KeepsInLine(t)
<1>1. /\ UNCHANGED <<db, index, forms, origin>> /\ Acts(t) /\ todo'[t] = <<>>
  BY DEF Refuse, Stop, Acts, TypeOK
<1>2. Statements(todo'[t]) = {}
  BY <1>1 DEF Statements
<1>3. FilingLawful
  <2>1. SentBy(t)' \subseteq SentBy(t)
    BY <1>2 DEF SentBy
  <2>2. db.seq["word_suggestions"] <= db'.seq["word_suggestions"]
    BY <1>1 DEF TypeOK, Database, AutoIncrement
  <2>3. QED
    BY <1>1, <2>1, <2>2, FilesNothing DEF Acts
<1>4. \A doc : Unmoved(doc) /\ Silent(Statements(todo'[t]), doc)
  BY <1>1, <1>2, NothingIsSilent DEF Unmoved
<1>5. \A doc : Silent(Statements(todo[t]), doc)
  BY SilentNow
<1>6. Uneventful(t)
  BY <1>1, <1>2 DEF Uneventful
<1>7. QED
  BY <1>1, <1>2, <1>3, <1>4, <1>5, <1>6, Starts DEF KeepsInLine

-----------------------------------------------------------------------------
(* Requests *)

\* A request that arrives is about the documents that its statements name.
LEMMA ArriveIndexed ==
    ASSUME TypeOK, ThreadsKnown, Indexed, TypeOK', NEW t \in Threads,
           NEW X, NEW statements \in Seq(X), NEW route, NEW about,
           Arrive(t, route, statements, about), FilingLawful,
           \A s \in X : s.op \notin FetchedOps,
           \A s \in X : claims'[t] = about /\ todo'[t] = statements => Foresees(t, s)',
           \A doc \in WordOrSuggestionId :
               \/ doc \in about /\ Takes(Statements(statements), doc)
                                /\ Removes(Statements(statements), doc)
                                /\ ~Puts(Statements(statements), doc)
               \/ Silent(Statements(statements), doc)
    PROVE  KeepsInLine(t)
<1>1. /\ UNCHANGED <<db, index, forms, origin>> /\ Acts(t) /\ Idle(t)
      /\ todo'[t] = statements /\ claims'[t] = about
  BY DEF Arrive, Acts, TypeOK
<1>2. \A doc : Silent(Statements(todo[t]), doc)
  BY <1>1, SilentNow
<1>3. \A s \in Statements(todo'[t]) : Foresees(t, s)'
  BY <1>1, StatementsOf
<1>4. \A doc : Unmoved(doc)
  BY <1>1 DEF Unmoved
<1>5. ASSUME NEW doc \in WordOrSuggestionId, ~Silent(Statements(todo'[t]), doc)
      PROVE  doc \in claims'[t] /\ Settles(Statements(todo[t]), doc)'
  BY <1>1, <1>5 DEF Settles
<1>6. Uneventful(t)
  <2>1. \A s \in Statements(todo'[t]) : Supported(t, s)
    BY <1>1, StatementsOf DEF Supported
  <2>2. QED
    BY <1>1, <2>1 DEF Uneventful
<1>7. QED
  BY <1>1, <1>2, <1>3, <1>4, <1>5, <1>6, Starts DEF KeepsInLine

\* A program of one statement that is about no document.
LEMMA OneIsSilent ==
    ASSUME NEW s, s.op \notin DocumentOps
    PROVE  /\ <<s>> \in Seq({s}) /\ Statements(<<s>>) = {s} /\ Len(<<s>>) = 1
           /\ \A doc : Silent(Statements(<<s>>), doc)
<1>1. Statements(<<s>>) = {s} /\ Len(<<s>>) = 1
  BY DEF Statements
<1>2. QED
  BY <1>1 DEF Silent, Puts, Takes, Removes, DocumentOps

\* A request with one statement that is about no document.
LEMMA ArriveSilent ==
    ASSUME TypeOK, ThreadsKnown, Indexed, TypeOK', NEW t \in Threads, NEW s, NEW route, NEW about,
           s.op \notin NoticedOps, Arrive(t, route, <<s>>, about)
    PROVE  KeepsInLine(t)
<1> DEFINE X == {s}
           p == <<s>>
<1>1. p \in Seq(X) /\ Statements(p) = {s} /\ \A doc : Silent(Statements(p), doc)
  BY OneIsSilent DEF NoticedOps
<1>2. \A x \in X : Foresees(t, x)'
  BY DEF Foresees, NoticedOps, DocumentOps, SentOps
<1>3. Arrive(t, route, p, about)
  OBVIOUS
<1>4. \A x \in X : x.op \notin FetchedOps
  BY DEF NoticedOps
<1> HIDE DEF X, p
<1>5. FilingLawful
  <2>1. /\ UNCHANGED <<db, forms>> /\ todo'[t] = p
        /\ \A u \in Threads \ {t} : todo'[u] = todo[u]
    BY <1>3 DEF Arrive, TypeOK
  <2>2. SentBy(t)' \subseteq SentBy(t)
    BY <1>1, <2>1 DEF SentBy, NoticedOps
  <2>3. db.seq["word_suggestions"] <= db'.seq["word_suggestions"]
    BY <2>1 DEF TypeOK, Database, AutoIncrement
  <2>4. QED
    BY <2>1, <2>2, <2>3, FilesNothing
<1>6. QED
  BY <1>1, <1>2, <1>3, <1>4, <1>5, ArriveIndexed

\* The rejection of a suggested word takes the document out before the row.
LEMMA RejectWordIndexed ==
    ASSUME TypeOK, ThreadsKnown, Indexed, TypeOK', NEW t \in Threads, reject_suggested_word(t)
    PROVE  KeepsInLine(t)
<1>1. PICK s \in EverGiven("word_suggestions") :
          Arrive(t, "reject_suggested_word", DeleteWordSuggestion(s), {Suggested(s)})
  BY DEF reject_suggested_word
<1> DEFINE x == IndexDelete(Suggested(s))
           y == [op |-> "delete_word_suggestion", id |-> s]
<1>2. /\ x.op = "index_delete" /\ x.doc = Suggested(s)
      /\ y.op = "delete_word_suggestion" /\ y.id = s
  BY DEF IndexDelete
<1>3. DeleteWordSuggestion(s) = <<x, y>>
  BY DEF DeleteWordSuggestion
<1> HIDE DEF x, y
<1> DEFINE X == {x, y}
           p == <<x, y>>
           about == {Suggested(s)}
<1>4. p \in Seq(X) /\ Statements(p) = X
  BY DEF Statements
<1>5. claims'[t] = about => \A z \in X : Foresees(t, z)'
  BY <1>2 DEF Foresees, SentOps
<1>6. \A doc : \/ doc \in about /\ Takes(X, doc) /\ Removes(X, doc) /\ ~Puts(X, doc)
               \/ Silent(X, doc)
  BY <1>2 DEF Takes, Removes, Puts, Silent
<1>7. Arrive(t, "reject_suggested_word", p, about)
  BY <1>1, <1>3
<1>8. \A z \in X : z.op \notin SentOps /\ z.op \notin FetchedOps
  BY <1>2 DEF SentOps, FetchedOps
<1> HIDE DEF X, p, about
<1>9. FilingLawful
  <2>1. /\ UNCHANGED <<db, forms>> /\ todo'[t] = p
        /\ \A u \in Threads \ {t} : todo'[u] = todo[u]
    BY <1>7 DEF Arrive, TypeOK
  <2>2. SentBy(t)' \subseteq SentBy(t)
    BY <1>4, <1>8, <2>1 DEF SentBy
  <2>3. db.seq["word_suggestions"] <= db'.seq["word_suggestions"]
    BY <2>1 DEF TypeOK, Database, AutoIncrement
  <2>4. QED
    BY <2>1, <2>2, <2>3, FilesNothing
<1>10. QED
  BY <1>4, <1>5, <1>6, <1>7, <1>8, <1>9, ArriveIndexed

\* A form that is sent says of a suggestion what the form said that was shown.
LEMMA SubmitIndexed ==
    ASSUME TypeOK, ThreadsKnown, Indexed, TypeOK', NEW t \in Threads, submit_suggestion(t)
    PROVE  KeepsInLine(t)
<1>1. PICK form \in forms \cup {NewWordForm} :
          \E w \in Submissions(form) :
              Arrive(t, "submit_suggestion", <<[op |-> "read_original", word |-> w]>>,
                     AboutSubmission(w))
  BY DEF submit_suggestion
<1> PICK w \in Submissions(form) :
          Arrive(t, "submit_suggestion", <<[op |-> "read_original", word |-> w]>>,
                 AboutSubmission(w))
  BY <1>1
<1>2. w.suggestion_id = form.suggestion_id /\ w.existing_id = form.existing_id
  BY DEF Submissions
<1>3. w.suggestion_id = Null \/ <<w.suggestion_id, w.existing_id>> \in Filed
  <2>1. CASE form = NewWordForm
    BY <1>2, <2>1 DEF NewWordForm
  <2>2. CASE form \in forms
    BY <1>2, <2>2 DEF Filed, Sheets
  <2>3. QED
    BY <2>1, <2>2
<1> DEFINE s == [op |-> "read_original", word |-> w]
           X == {s}
           p == <<s>>
           about == AboutSubmission(w)
<1>4. s.op = "read_original" /\ s.word = w
  OBVIOUS
<1> HIDE DEF s
<1>5. /\ p \in Seq(X) /\ Statements(p) = {s} /\ Len(p) = 1
      /\ \A doc : Silent(Statements(p), doc)
  BY <1>4, OneIsSilent DEF DocumentOps
<1>6. todo'[t] = p => \A x \in X : Foresees(t, x)'
  BY <1>4, <1>5 DEF Foresees
<1>7. \A x \in X : x.op \notin FetchedOps
  BY <1>4 DEF FetchedOps
<1>8. Arrive(t, "submit_suggestion", p, about)
  BY DEF s
<1> HIDE DEF X, p, about
<1>9. FilingLawful
  <2>1. /\ UNCHANGED <<db, forms>> /\ todo'[t] = p
        /\ \A u \in Threads \ {t} : todo'[u] = todo[u]
    BY <1>8 DEF Arrive, TypeOK
  <2>2. SentBy(t)' = {w} /\ \A u \in Threads \ {t} : SentBy(u)' = SentBy(u)
    BY <1>4, <1>5, <2>1 DEF SentBy, SentOps
  <2>3. \A x \in Sheets' : x \in Sheets \/ x = w
    BY <2>1, <2>2 DEF Sheets
  <2>4. db.seq["word_suggestions"] <= db'.seq["word_suggestions"]
    BY <2>1 DEF TypeOK, Database, AutoIncrement
  <2>5. QED
    BY <1>3, <2>1, <2>3, <2>4, FilesKnown
<1>10. QED
  BY <1>5, <1>6, <1>8, <1>9, <1>7, ArriveIndexed

\* So every request leaves the index in line.
LEMMA RequestIndexed ==
    ASSUME TypeOK, ThreadsKnown, Indexed, TypeOK', NEW t \in Threads, Request(t)
    PROVE  KeepsInLine(t)
<1> DEFINE Kind(op) == op \notin NoticedOps
<1>1. /\ Kind("fetch_alone") /\ Kind("suggest_word_deletion") /\ Kind("fetch_example")
      /\ Kind("fetch_link") /\ Kind("fetch_dataset") /\ Kind("fetch_word_deletion")
      /\ Kind("fetch_example_deletion") /\ Kind("fetch_link_deletion") /\ Kind("delete_row")
  BY DEF NoticedOps, DocumentOps, SentOps, FetchedOps
<1>2. \/ reject_suggested_word(t) \/ submit_suggestion(t)
      \/ \E s, route, about : Kind(s.op) /\ Arrive(t, route, <<s>>, about)
  <2> HIDE DEF Kind
  <2>1. CASE accept_suggested_word(t)
    BY <1>1, <2>1 DEF accept_suggested_word
  <2>2. CASE suggest_word_deletion(t)
    BY <1>1, <2>2 DEF suggest_word_deletion
  <2>3. CASE accept_suggested_example(t) \/ reject_suggested_example(t)
    BY <1>1, <2>3 DEF accept_suggested_example, reject_suggested_example,
                      DeleteExampleSuggestion, DeleteRow
  <2>4. CASE accept_linked_word(t) \/ reject_linked_word(t)
    BY <1>1, <2>4 DEF accept_linked_word, reject_linked_word,
                      DeleteLinkedWordSuggestion, DeleteRow
  <2>5. CASE accept_dataset_attribution_suggestion(t) \/ reject_dataset_attribution_suggestion(t)
    BY <1>1, <2>5 DEF accept_dataset_attribution_suggestion,
                      reject_dataset_attribution_suggestion, DeleteDatasetSuggestion, DeleteRow
  <2>6. CASE accept_deletion(t) \/ reject_deletion(t)
    BY <1>1, <2>6 DEF accept_deletion, reject_deletion, RejectWordDeletion, DeleteRow
  <2>7. CASE accept_example_deletion(t) \/ reject_example_deletion(t)
    BY <1>1, <2>7 DEF accept_example_deletion, reject_example_deletion,
                      DeleteExampleDeletion, DeleteRow
  <2>8. CASE accept_linked_word_deletion(t) \/ reject_linked_word_deletion(t)
    BY <1>1, <2>8 DEF accept_linked_word_deletion, reject_linked_word_deletion,
                      DeleteLinkedWordDeletion, DeleteRow
  <2>9. QED
    BY <2>1, <2>2, <2>3, <2>4, <2>5, <2>6, <2>7, <2>8 DEF Request
<1>3. QED
  BY <1>2, RejectWordIndexed, SubmitIndexed, ArriveSilent

-----------------------------------------------------------------------------
(* Statements that are about no document *)

\* A read goes on to statements that are about no document, or finds nothing
\* before anything is written.
LEMMA ReadIndexed ==
    ASSUME TypeOK, ThreadsKnown, Indexed, TypeOK', NEW t \in Threads, NEW op, At(t, op),
           op \notin DocumentOps, NEW X, NEW statements \in Seq(X), NEW about, NEW found,
           Read(t, found, statements, about), ~found => op \in FirstOps \cup SentOps,
           \A x \in X : x.op \notin DocumentOps \cup SentOps, \A x \in X : Supported(t, x)
    PROVE  KeepsInLine(t)
<1>1. CASE found
  <2>1. /\ Continue(t, statements, about) /\ UNCHANGED <<db, index, forms, origin, broken>> /\ Observe
    BY <1>1 DEF Read
  <2>2. db.seq["word_suggestions"] <= db'.seq["word_suggestions"]
    BY <2>1 DEF TypeOK, Database, AutoIncrement
  <2>3. \A doc : Silent({Current(t)}, doc)
    BY DEF Silent, Puts, Takes, Removes, DocumentOps, At, Current
  <2>4. \A doc \in WordOrSuggestionId :
            /\ doc \in index' <=> \/ Puts({Current(t)}, doc)
                                  \/ doc \in index /\ ~Takes({Current(t)}, doc)
            /\ doc \in Documents(db') <=> doc \in Documents(db) /\ ~Removes({Current(t)}, doc)
    BY <2>1, <2>3 DEF Silent
  <2>5. /\ broken \subseteq broken' /\ forms' = forms
        /\ db'.word_suggestions \subseteq db.word_suggestions
    BY <2>1
  <2>6. db'.seq["word_suggestions"] = db.seq["word_suggestions"]
    BY <2>1
  <2>7. Uneventful(t)
    BY <2>1, <2>5, <2>6, GoesOnUneventful
  <2>8. QED
    BY <2>1, <2>2, <2>4, <2>5, <2>7, Proceeds DEF KeepsInLine
<1>2. CASE ~found
  BY <1>2, RefuseIndexed DEF Read
<1>3. QED
  BY <1>1, <1>2

\* What is about no document leaves the words and their suggestions alone.
Still(d) ==
    /\ d.words = db.words
    /\ d.word_suggestions = db.word_suggestions
    /\ d.seq["word_suggestions"] = db.seq["word_suggestions"]

\* A write of other tables, or one that fails, moves no document.
LEMMA WriteIndexed ==
    ASSUME TypeOK, ThreadsKnown, Indexed, TypeOK', NEW t \in Threads, NEW op, At(t, op),
           op \notin DocumentOps, NEW X, NEW statements \in Seq(X), NEW allowed, NEW after,
           Write(t, allowed, after, statements), allowed => Still(after),
           \A x \in X : x.op \notin NoticedOps
    PROVE  KeepsInLine(t)
<1>1. CASE allowed
  <2> DEFINE about == Entries(db) \ Entries(after)
  <2>1. /\ db' = after /\ Continue(t, statements, about) /\ UNCHANGED <<index, forms, origin, broken>>
        /\ Observe
    BY <1>1 DEF Write
  <2> HIDE DEF about
  <2>2. Still(db')
    BY <1>1, <2>1
  <2>3. db.seq["word_suggestions"] <= db'.seq["word_suggestions"]
    <3>1. db.seq["word_suggestions"] \in Nat
      BY DEF TypeOK, Database, AutoIncrement
    <3>2. QED
      BY <2>2, <3>1 DEF Still
  <2>4. \A doc : Silent({Current(t)}, doc)
    BY DEF Silent, Puts, Takes, Removes, DocumentOps, At, Current
  <2>5. Documents(db') = Documents(db)
    BY <2>2 DEF Documents, Still
  <2>6. \A doc \in WordOrSuggestionId :
            /\ doc \in index' <=> \/ Puts({Current(t)}, doc)
                                  \/ doc \in index /\ ~Takes({Current(t)}, doc)
            /\ doc \in Documents(db') <=> doc \in Documents(db) /\ ~Removes({Current(t)}, doc)
    BY <2>1, <2>4, <2>5 DEF Silent
  <2>7. /\ broken \subseteq broken' /\ forms' = forms
        /\ db'.word_suggestions \subseteq db.word_suggestions
    BY <2>1, <2>2 DEF Still
  <2>8. Uneventful(t)
    BY <2>1, <2>2, <2>7, OthersSupported, GoesOnUneventful DEF Still
  <2>9. QED
    BY <2>1, <2>3, <2>6, <2>7, <2>8, OthersSupported, Proceeds DEF KeepsInLine
<1>2. CASE ~allowed
  BY <1>2, PanicIndexed DEF Write
<1>3. QED
  BY <1>1, <1>2

\* A read after which one statement is left.
LEMMA ReadOneIndexed ==
    ASSUME TypeOK, ThreadsKnown, Indexed, TypeOK', NEW t \in Threads, NEW op \in FirstOps,
           At(t, op), NEW s, NEW found, NEW about,
           \/ Refuse(t)
           \/ /\ Read(t, found, <<s>>, about)
              /\ s.op \notin DocumentOps \cup SentOps /\ Supported(t, s)
    PROVE  KeepsInLine(t)
<1>1. op \notin DocumentOps
  BY DEF FirstOps, FetchedOps, DocumentOps
<1>2. CASE /\ Read(t, found, <<s>>, about)
           /\ s.op \notin DocumentOps \cup SentOps /\ Supported(t, s)
  <2> DEFINE X == {s}
             p == <<s>>
  <2>1. /\ p \in Seq(X) /\ Read(t, found, p, about)
        /\ \A x \in X : x.op \notin DocumentOps \cup SentOps /\ Supported(t, x)
    BY <1>2
  <2> HIDE DEF X, p
  <2>2. QED
    BY <1>1, <2>1, ReadIndexed
<1>3. QED
  BY <1>2, RefuseIndexed

\* A read after which two are.
LEMMA ReadTwoIndexed ==
    ASSUME TypeOK, ThreadsKnown, Indexed, TypeOK', NEW t \in Threads, NEW op \in FirstOps,
           At(t, op), NEW x, NEW y, NEW about,
           Refuse(t) \/ Read(t, TRUE, <<x, y>>, about),
           x.op \notin NoticedOps, y.op \notin NoticedOps
    PROVE  KeepsInLine(t)
<1>1. op \notin DocumentOps
  BY DEF FirstOps, FetchedOps, DocumentOps
<1>2. CASE Read(t, TRUE, <<x, y>>, about)
  <2> DEFINE X == {x, y}
             p == <<x, y>>
             found == TRUE
  <2>1. p \in Seq(X)
    OBVIOUS
  <2>2. \A s \in X : s.op \notin NoticedOps
    OBVIOUS
  <2>3. Read(t, found, p, about) /\ found
    BY <1>2
  <2> HIDE DEF X, p, found
  <2>4. QED
    BY <1>1, <2>1, <2>2, <2>3, OthersSupported, ReadIndexed
<1>3. QED
  BY <1>2, RefuseIndexed

\* The reads of a decision, but for the deletion of a word.
LEMMA FetchIndexed ==
    ASSUME TypeOK, ThreadsKnown, Indexed, TypeOK', NEW t \in Threads,
           \/ fetch_alone(t) \/ fetch_examples(t) \/ fetch_linked_words(t) \/ fetch_datasets(t)
           \/ fetch_example(t) \/ fetch_link(t) \/ fetch_dataset(t)
           \/ fetch_example_deletion(t) \/ fetch_link_deletion(t)
    PROVE  KeepsInLine(t)
<1> DEFINE Kind(s) == s.op \notin DocumentOps \cup SentOps /\ Supported(t, s)
           Other(s) == s.op \notin NoticedOps
           One(op) == /\ op \in FirstOps /\ At(t, op)
                      /\ \/ Refuse(t)
                         \/ \E s, found, about : Kind(s) /\ Read(t, found, <<s>>, about)
           Two(op) == /\ op \in FirstOps /\ At(t, op)
                      /\ \/ Refuse(t)
                         \/ \E x, y, about : Other(x) /\ Other(y) /\ Read(t, TRUE, <<x, y>>, about)
<1>1. /\ \A rows, word : Other([op |-> "accept_examples", rows |-> rows, word_id |-> word])
      /\ \A rows, word : Other([op |-> "accept_datasets", rows |-> rows, word_id |-> word])
      /\ \A link : Other([op |-> "accept_link", link |-> link])
      /\ \A id, shown : Other([op |-> "delete_example", id |-> id, shown |-> shown])
      /\ \A id : Other([op |-> "delete_link", id |-> id])
      /\ \A table, id : Other(DeleteRow(table, id))
  BY DEF DeleteRow, NoticedOps, DocumentOps, SentOps, FetchedOps
<1>2. \A x : Other(x) => Kind(x)
  BY DEF NoticedOps, Supported
<1>3. ASSUME NEW row, NEW examples, NEW links, NEW datasets, NEW op \in FetchedOps,
             \/ \E x \in Statements(todo[t]) : x.op \in FetchedOps /\ x.row = row
             \/ row.existing_word_id = Null => Suggested(row.id) \in Documents(db')
      PROVE  Kind(Fetched(op, row, examples, links, datasets))
  <2>1. /\ Fetched(op, row, examples, links, datasets).op = op
        /\ Fetched(op, row, examples, links, datasets).row = row
    BY DEF Fetched
  <2>2. op \notin DocumentOps \cup SentOps
    BY DEF FetchedOps, DocumentOps, SentOps
  <2>3. QED
    BY <1>3, <2>1, <2>2 DEF Supported
<1>4. \A op \in FetchedOps :
          At(t, op) => \E x \in Statements(todo[t]) : x.op \in FetchedOps /\ x.row = Current(t).row
  BY ProgramAt
<1>5. /\ "fetch_alone" \in FirstOps /\ FetchedOps \subseteq FirstOps /\ "fetch_example" \in FirstOps
      /\ "fetch_link" \in FirstOps /\ "fetch_dataset" \in FirstOps
      /\ "fetch_example_deletion" \in FirstOps /\ "fetch_link_deletion" \in FirstOps
      /\ FetchedOps = {"fetch_examples", "fetch_linked_words", "fetch_datasets",
                       "accept_just_word"}
  BY DEF FirstOps, FetchedOps
<1> HIDE DEF Kind, Other
<1>6. ASSUME NEW op, One(op)
      PROVE  KeepsInLine(t)
  BY <1>6, ReadOneIndexed DEF Kind
<1>7. ASSUME NEW op, Two(op)
      PROVE  KeepsInLine(t)
  <2>1. op \in FirstOps /\ At(t, op)
    BY <1>7
  <2>2. ASSUME NEW x, NEW y, NEW about, Other(x), Other(y), Read(t, TRUE, <<x, y>>, about)
        PROVE  KeepsInLine(t)
    <3>1. Refuse(t) \/ Read(t, TRUE, <<x, y>>, about)
      BY <2>2
    <3> HIDE DEF One, Two
    <3>2. QED
      BY <2>1, <2>2, <3>1, ReadTwoIndexed DEF Other
  <2>3. QED
    BY <1>7, <2>1, <2>2, RefuseIndexed
<1>8. CASE fetch_alone(t)
  <2>1. PICK s, row : s = Current(t).id /\ row = RowOf(db.word_suggestions, s)
    OBVIOUS
  <2> DEFINE x == Fetched("fetch_examples", row, {}, {}, {})
  <2>2. CASE Refuse(t)
    <3>1. One("fetch_alone")
      BY <1>5, <1>8, <2>2 DEF fetch_alone
    <3>2. QED
      BY <1>6, <3>1
  <2>3. ASSUME s \in Ids(db.word_suggestions), NEW about, Read(t, TRUE, <<x>>, about)
        PROVE  KeepsInLine(t)
    <3>1. row \in db.word_suggestions /\ db' = db
      BY <2>1, <2>3, RowOfType DEF Read
    <3>2. row.existing_word_id = Null => Suggested(row.id) \in Documents(db')
      BY <3>1 DEF Documents
    <3>3. Kind(x)
      BY <1>5, <1>3, <3>2
    <3> HIDE DEF x
    <3>4. One("fetch_alone")
      BY <1>5, <1>8, <2>3, <3>3 DEF fetch_alone
    <3>5. QED
      BY <1>6, <3>4
  <2>4. QED
    BY <1>8, <2>1, <2>2, <2>3 DEF fetch_alone
<1>9. CASE fetch_examples(t)
  <2>1. One("fetch_examples")
    BY <1>3, <1>4, <1>5, <1>9 DEF fetch_examples
  <2>2. QED
    BY <1>6, <2>1
<1>10. CASE fetch_linked_words(t)
  <2>1. One("fetch_linked_words")
    BY <1>3, <1>4, <1>5, <1>10 DEF fetch_linked_words
  <2>2. QED
    BY <1>6, <2>1
<1>11. CASE fetch_datasets(t)
  <2>1. One("fetch_datasets")
    BY <1>3, <1>4, <1>5, <1>11 DEF fetch_datasets
  <2>2. QED
    BY <1>6, <2>1
<1>12. CASE fetch_example(t)
  <2>1. One("fetch_example")
    BY <1>1, <1>2, <1>5, <1>12 DEF fetch_example
  <2>2. QED
    BY <1>6, <2>1
<1>13. CASE fetch_link(t)
  <2>1. One("fetch_link")
    BY <1>1, <1>2, <1>5, <1>13 DEF fetch_link
  <2>2. QED
    BY <1>6, <2>1
<1>14. CASE fetch_dataset(t)
  <2>1. One("fetch_dataset")
    BY <1>1, <1>2, <1>5, <1>14 DEF fetch_dataset
  <2>2. QED
    BY <1>6, <2>1
<1>15. CASE fetch_example_deletion(t)
  <2>1. Two("fetch_example_deletion")
    BY <1>1, <1>5, <1>15 DEF fetch_example_deletion, DeleteExampleDeletion
  <2>2. QED
    BY <1>7, <2>1
<1>16. CASE fetch_link_deletion(t)
  <2>1. Two("fetch_link_deletion")
    BY <1>1, <1>5, <1>16 DEF fetch_link_deletion, DeleteLinkedWordDeletion
  <2>2. QED
    BY <1>7, <2>1
<1>17. QED
  BY <1>8, <1>9, <1>10, <1>11, <1>12, <1>13, <1>14, <1>15, <1>16

\* A write of another table leaves the words and their suggestions alone.
LEMMA TablesStill ==
    ASSUME TypeOK, NEW d, NEW table, table # "word_suggestions", NEW id,
           d.words = db.words, d.word_suggestions = db.word_suggestions,
           d.seq = db.seq \/ d.seq = Bump(db.seq, table, id)
    PROVE  Still(d)
<1>1. db.seq \in [AutoIncrement -> Nat] /\ "word_suggestions" \in AutoIncrement
  BY DEF TypeOK, Database, AutoIncrement
<1>2. Bump(db.seq, table, id)["word_suggestions"] = db.seq["word_suggestions"]
  BY <1>1 DEF Bump
<1>3. QED
  BY <1>2 DEF Still

\* One turn of a loop.
LEMMA LoopIndexed ==
    ASSUME TypeOK, ThreadsKnown, Indexed, TypeOK', NEW t \in Threads, NEW op, At(t, op),
           op \notin NoticedOps, NEW c, NEW S, [c EXCEPT !.rows = S].op = op,
           NEW allowed, NEW after, Write(t, allowed, after, Loop(c, S)), allowed => Still(after)
    PROVE  KeepsInLine(t)
<1> DEFINE z == [c EXCEPT !.rows = S]
           X == {z}
           p == Loop(c, S)
<1>1. p \in Seq(X) /\ \A x \in X : x.op \notin NoticedOps
  BY LoopStatements
<1>2. Write(t, allowed, after, p)
  OBVIOUS
<1> HIDE DEF z, X, p
<1>3. QED
  BY <1>1, <1>2, WriteIndexed DEF NoticedOps

\* The links of a submission are no documents.
LEMMA WriteLinkIndexed ==
    ASSUME TypeOK, ThreadsKnown, Indexed, TypeOK', NEW t \in Threads, write_link(t)
    PROVE  KeepsInLine(t)
<1>1. At(t, "write_link") /\ db \in Database
  BY DEF write_link, TypeOK
<1>2. PICK c : c = Current(t)
  OBVIOUS
<1>3. PICK s \in c.rows :
          \/ LET row == LinkRowAfter(db, s.row)
             IN  Write(t, LinkedWordSuggestionOk(db, row),
                       [db EXCEPT
                          !.linked_word_suggestions = Put(@, row),
                          !.seq = Bump(@, "linked_word_suggestions", row.id)],
                       Loop(c, c.rows \ {s}))
          \/ Write(t, TRUE, [db EXCEPT !.linked_word_suggestions = Drop(@, s.id)],
                   Loop(c, c.rows \ {s}))
          \/ Write(t, s.id \in Ids(db.linked_words), SuggestLinkDeletion(db, s.id),
                   Loop(c, c.rows \ {s}))
  BY <1>2 DEF write_link
<1>4. \A S : [c EXCEPT !.rows = S].op = "write_link"
  <2>1. c \in SubmitStatement /\ c.op = "write_link"
    BY <1>1, <1>2, AtSubmit, ProgramAt
  <2>2. QED
    BY <2>1 DEF SubmitStatement
<1>5. "write_link" \notin NoticedOps
  BY DEF NoticedOps, DocumentOps, SentOps, FetchedOps
<1> DEFINE row == LinkRowAfter(db, s.row)
           put == [db EXCEPT !.linked_word_suggestions = Put(@, row),
                             !.seq = Bump(@, "linked_word_suggestions", row.id)]
           less == [db EXCEPT !.linked_word_suggestions = Drop(@, s.id)]
           more == SuggestLinkDeletion(db, s.id)
           S == c.rows \ {s}
<1> HIDE DEF row
<1>6. Still(put)
  <2>1. /\ put.words = db.words /\ put.word_suggestions = db.word_suggestions
        /\ put.seq = Bump(db.seq, "linked_word_suggestions", row.id)
    BY <1>1 DEF Database
  <2> HIDE DEF put
  <2>2. QED
    BY <2>1, TablesStill
<1>7. Still(less)
  BY <1>1 DEF Still, Database
<1>8. Still(more)
  <2> DEFINE table == "linked_word_deletion_suggestions"
             key == db.seq[table] + 1
  <2>1. /\ more.words = db.words /\ more.word_suggestions = db.word_suggestions
        /\ more.seq = db.seq \/ more.seq = Bump(db.seq, table, key)
        /\ table # "word_suggestions"
    BY <1>1 DEF Database, SuggestLinkDeletion
  <2> HIDE DEF more, table, key
  <2>2. QED
    BY <2>1, TablesStill
<1>9. \E allowed : \E after \in {put, less, more} : Write(t, allowed, after, Loop(c, S))
  BY <1>3 DEF row
<1> HIDE DEF put, less, more, S
<1>10. QED
  BY <1>1, <1>4, <1>5, <1>6, <1>7, <1>8, <1>9, LoopIndexed

\* Nor are its examples.
LEMMA WriteExampleIndexed ==
    ASSUME TypeOK, ThreadsKnown, Indexed, TypeOK', NEW t \in Threads, write_example(t)
    PROVE  KeepsInLine(t)
<1>1. At(t, "write_example") /\ db \in Database
  BY DEF write_example, TypeOK
<1>2. PICK c : c = Current(t)
  OBVIOUS
<1>3. PICK s \in c.rows :
          \/ LET row == ExampleRowAfter(db, s.row)
             IN  Write(t, ExampleSuggestionOk(db, row),
                       [db EXCEPT
                          !.example_suggestions = Put(@, row),
                          !.seq = Bump(@, "example_suggestions", row.id)],
                       Loop(c, c.rows \ {s}))
          \/ Write(t, TRUE, [db EXCEPT !.example_suggestions = Drop(@, s.id)],
                   Loop(c, c.rows \ {s}))
          \/ Write(t, s.id \in Ids(db.examples), SuggestExampleDeletion(db, s.id),
                   Loop(c, c.rows \ {s}))
  BY <1>2 DEF write_example
<1>4. \A S : [c EXCEPT !.rows = S].op = "write_example"
  <2>1. c \in SubmitStatement /\ c.op = "write_example"
    BY <1>1, <1>2, AtSubmit, ProgramAt
  <2>2. QED
    BY <2>1 DEF SubmitStatement
<1>5. "write_example" \notin NoticedOps
  BY DEF NoticedOps, DocumentOps, SentOps, FetchedOps
<1> DEFINE row == ExampleRowAfter(db, s.row)
           put == [db EXCEPT !.example_suggestions = Put(@, row),
                             !.seq = Bump(@, "example_suggestions", row.id)]
           less == [db EXCEPT !.example_suggestions = Drop(@, s.id)]
           more == SuggestExampleDeletion(db, s.id)
           S == c.rows \ {s}
<1> HIDE DEF row
<1>6. Still(put)
  <2>1. /\ put.words = db.words /\ put.word_suggestions = db.word_suggestions
        /\ put.seq = Bump(db.seq, "example_suggestions", row.id)
    BY <1>1 DEF Database
  <2> HIDE DEF put
  <2>2. QED
    BY <2>1, TablesStill
<1>7. Still(less)
  BY <1>1 DEF Still, Database
<1>8. Still(more)
  BY <1>1 DEF Still, Database, SuggestExampleDeletion
<1>9. \E allowed : \E after \in {put, less, more} : Write(t, allowed, after, Loop(c, S))
  BY <1>3 DEF row
<1> HIDE DEF put, less, more, S
<1>10. QED
  BY <1>1, <1>4, <1>5, <1>6, <1>7, <1>8, <1>9, LoopIndexed

\* Nor are its datasets.
LEMMA WriteDatasetIndexed ==
    ASSUME TypeOK, ThreadsKnown, Indexed, TypeOK', NEW t \in Threads, write_dataset(t)
    PROVE  KeepsInLine(t)
<1>1. At(t, "write_dataset") /\ db \in Database
  BY DEF write_dataset, TypeOK
<1>2. PICK c : c = Current(t)
  OBVIOUS
<1>3. PICK key : key = db.seq["dataset_attribution_suggestions"] + 1
  OBVIOUS
<1> DEFINE row(s) == [id |-> key, dataset |-> s.dataset, existing_word_id |-> c.existing_id,
                      suggested_word_id |-> c.new, is_delete |-> s.is_delete, user |-> c.user]
           inserted(s) ==
               [db EXCEPT !.dataset_attribution_suggestions = @ \cup {row(s)},
                          !.seq = Bump(@, "dataset_attribution_suggestions", key)]
           deleted(s) ==
               [db EXCEPT !.dataset_attribution_suggestions =
                   {r \in @ : ~(r.dataset = s.id /\ r.suggested_word_id = c.new)}]
<1>4. PICK s \in c.rows :
          \/ Write(t, DatasetSuggestionOk(db, row(s)), inserted(s), Loop(c, c.rows \ {s}))
          \/ Write(t, TRUE, deleted(s), Loop(c, c.rows \ {s}))
  BY <1>2, <1>3 DEF write_dataset
<1>5. \A S : [c EXCEPT !.rows = S].op = "write_dataset"
  <2>1. c \in SubmitStatement /\ c.op = "write_dataset"
    BY <1>1, <1>2, AtSubmit, ProgramAt
  <2>2. QED
    BY <2>1 DEF SubmitStatement
<1>6. "write_dataset" \notin NoticedOps
  BY DEF NoticedOps, DocumentOps, SentOps, FetchedOps
<1> HIDE DEF row
<1> DEFINE put == inserted(s)
           less == deleted(s)
           S == c.rows \ {s}
<1>7. Still(put)
  <2>1. /\ put.words = db.words /\ put.word_suggestions = db.word_suggestions
        /\ put.seq = Bump(db.seq, "dataset_attribution_suggestions", key)
    BY <1>1 DEF Database
  <2> HIDE DEF put
  <2>2. QED
    BY <2>1, TablesStill
<1>8. Still(less)
  BY <1>1 DEF Still, Database
<1>9. \E allowed : \E after \in {put, less} : Write(t, allowed, after, Loop(c, S))
  BY <1>4
<1> HIDE DEF put, less, S
<1>10. QED
  BY <1>1, <1>5, <1>6, <1>7, <1>8, <1>9, LoopIndexed

\* A part of a submission reads what is there and goes on to write it in loops.
LEMMA LoopsIndexed ==
    ASSUME TypeOK, ThreadsKnown, Indexed, TypeOK', NEW t \in Threads, NEW op, At(t, op),
           op \notin DocumentOps, NEW c, c.op \notin NoticedOps,
           \A S : [c EXCEPT !.rows = S].op = c.op, NEW S, NEW T,
           Read(t, TRUE, Loop(c, S) \o Loop(c, T), {})
    PROVE  KeepsInLine(t)
<1> DEFINE x == [c EXCEPT !.rows = S]
           y == [c EXCEPT !.rows = T]
           X == {x, y}
           p == Loop(c, S) \o Loop(c, T)
           found == TRUE
           about == {}
<1>1. x.op = c.op /\ y.op = c.op
  OBVIOUS
<1>2. Loop(c, S) \in Seq({x}) /\ Loop(c, T) \in Seq({y})
  BY LoopStatements
<1>3. Read(t, found, p, about) /\ found
  OBVIOUS
<1> HIDE DEF x, y, found, about
<1>4. p \in Seq(X)
  <2> DEFINE q == Loop(c, S)
             r == Loop(c, T)
  <2>1. q \in Seq(X) /\ r \in Seq(X)
    BY <1>2
  <2> HIDE DEF q, r, X
  <2>2. q \o r \in Seq(X)
    BY <2>1
  <2>3. QED
    BY <2>2 DEF q, r
<1>5. \A s \in X : s.op \notin NoticedOps
  BY <1>1
<1> HIDE DEF p, X
<1>6. QED
  BY <1>3, <1>4, <1>5, OthersSupported, ReadIndexed

\* What a submission reads of links, examples and datasets.
LEMMA ProcessIndexed ==
    ASSUME TypeOK, ThreadsKnown, Indexed, TypeOK', NEW t \in Threads,
           process_linked_words(t) \/ process_examples(t) \/ process_datasets(t)
    PROVE  KeepsInLine(t)
<1> DEFINE c == [op |-> "write_link", rows |-> {}]
           e == [op |-> "write_example", rows |-> {}]
           d == [op |-> "write_dataset", rows |-> {}, new |-> Current(t).new,
                 existing_id |-> Current(t).word.existing_id, user |-> Current(t).word.user]
<1>1. /\ \A S : [c EXCEPT !.rows = S].op = c.op
      /\ \A S : [e EXCEPT !.rows = S].op = e.op
      /\ \A S : [d EXCEPT !.rows = S].op = d.op
      /\ c.op = "write_link" /\ e.op = "write_example" /\ d.op = "write_dataset"
  OBVIOUS
<1>2. process_linked_words(t) =>
          At(t, "process_linked_words") /\ (Panic(t) \/ \E S, T : Read(t, TRUE, Loop(c, S) \o Loop(c, T), {}))
  BY DEF process_linked_words
<1>3. process_examples(t) =>
          At(t, "process_examples") /\ \E S, T : Read(t, TRUE, Loop(e, S) \o Loop(e, T), {})
  BY DEF process_examples
<1>4. process_datasets(t) => At(t, "process_datasets") /\ \E S : Read(t, TRUE, Loop(d, S), {})
  BY DEF process_datasets
<1>5. ASSUME NEW S
      PROVE  Loop(d, S) \o Loop(d, {}) = Loop(d, S)
  <2> DEFINE x == [d EXCEPT !.rows = S]
             q == Loop(d, S)
  <2>1. Loop(d, {}) = <<>> /\ q \in Seq({x})
    BY LoopStatements DEF Loop
  <2> HIDE DEF q, x, d
  <2>2. q \o <<>> = q
    BY <2>1
  <2>3. QED
    BY <2>1, <2>2 DEF q
<1> HIDE DEF c, e, d
<1>6. process_datasets(t) => \E S, T : Read(t, TRUE, Loop(d, S) \o Loop(d, T), {})
  BY <1>4, <1>5
<1>7. /\ c.op \notin NoticedOps
      /\ e.op \notin NoticedOps
      /\ d.op \notin NoticedOps
  BY <1>1 DEF NoticedOps, DocumentOps, SentOps, FetchedOps
<1>8. /\ "process_linked_words" \notin DocumentOps /\ "process_examples" \notin DocumentOps
      /\ "process_datasets" \notin DocumentOps
  BY DEF DocumentOps
<1>9. CASE process_linked_words(t)
  BY <1>1, <1>2, <1>7, <1>8, <1>9, LoopsIndexed, PanicIndexed
<1>10. CASE process_examples(t)
  BY <1>1, <1>3, <1>7, <1>8, <1>10, LoopsIndexed
<1>11. CASE process_datasets(t)
  BY <1>1, <1>4, <1>6, <1>7, <1>8, <1>11, LoopsIndexed
<1>12. QED
  BY <1>9, <1>10, <1>11

\* A write after which nothing is added to what is left.
LEMMA WriteAloneIndexed ==
    ASSUME TypeOK, ThreadsKnown, Indexed, TypeOK', NEW t \in Threads, NEW op, At(t, op),
           op \notin DocumentOps, NEW allowed, NEW after, Write(t, allowed, after, <<>>),
           allowed => Still(after)
    PROVE  KeepsInLine(t)
<1> DEFINE X == {}
           p == <<>>
<1>1. p \in Seq(X) /\ X = {} /\ Write(t, allowed, after, p)
  OBVIOUS
<1> HIDE DEF X, p
<1>2. QED
  BY <1>1, WriteIndexed

\* An attribution is none.
LEMMA AttributionIndexed ==
    ASSUME TypeOK, ThreadsKnown, Indexed, TypeOK', NEW t \in Threads, ExecAddUserAttribution(t)
    PROVE  KeepsInLine(t)
<1> DEFINE allowed == Current(t).word_id \in db.words
           after == [db EXCEPT !.user_attributions =
                        @ \cup {<<Current(t).word_id, Current(t).user>>}]
<1>1. At(t, "add_user_attribution") /\ Write(t, allowed, after, <<>>)
  BY DEF ExecAddUserAttribution
<1>2. Still(after)
  BY DEF Still, TypeOK, Database
<1>3. "add_user_attribution" \notin DocumentOps
  BY DEF DocumentOps
<1> HIDE DEF allowed, after
<1>4. QED
  BY <1>1, <1>2, <1>3, WriteAloneIndexed

\* Nor is a row of a table nothing refers to.
LEMMA DeleteRowIndexed ==
    ASSUME TypeOK, ThreadsKnown, Indexed, TypeOK', NEW t \in Threads, ExecDeleteRow(t)
    PROVE  KeepsInLine(t)
<1> DEFINE s == Current(t)
           after == [db EXCEPT ![s.table] = Drop(@, s.id)]
           allowed == TRUE
<1>1. At(t, "delete_row") /\ Write(t, allowed, after, <<>>)
  BY DEF ExecDeleteRow
<1>2. s.table \in LeafTables
  <2>1. s \in SharedStatement /\ s.op = "delete_row"
    BY <1>1, AtShared, ProgramAt
  <2>2. QED
    BY <2>1 DEF SharedStatement
<1> HIDE DEF s
<1>3. Still(after)
  BY <1>2 DEF Still, LeafTables, TypeOK, Database
<1>4. "delete_row" \notin DocumentOps
  BY DEF DocumentOps
<1> HIDE DEF allowed, after
<1>5. QED
  BY <1>1, <1>3, <1>4, WriteAloneIndexed

\* Nor is the suggestion that a word be deleted.
LEMMA InsertWordDeletionIndexed ==
    ASSUME TypeOK, ThreadsKnown, Indexed, TypeOK', NEW t \in Threads, insert_word_deletion(t)
    PROVE  KeepsInLine(t)
<1> DEFINE w == Current(t).id
           T == db.word_deletion_suggestions
           table == "word_deletion_suggestions"
           key == db.seq["word_deletion_suggestions"] + 1
           after == IF \E r \in T : r.word_id = w THEN db
                    ELSE [db EXCEPT !.word_deletion_suggestions =
                                        @ \cup {[id |-> key, word_id |-> w]},
                                    !.seq = Bump(@, "word_deletion_suggestions", key)]
           allowed == w \in db.words
<1>1. At(t, "suggest_word_deletion") /\ Write(t, allowed, after, <<>>)
  BY DEF insert_word_deletion
<1>2. /\ after.words = db.words /\ after.word_suggestions = db.word_suggestions
      /\ after.seq = db.seq \/ after.seq = Bump(db.seq, table, key)
      /\ table # "word_suggestions"
  BY DEF TypeOK, Database
<1> HIDE DEF allowed, after, table, key
<1>3. Still(after)
  BY <1>2, TablesStill
<1>4. "suggest_word_deletion" \notin DocumentOps
  BY DEF DocumentOps
<1>5. QED
  BY <1>1, <1>3, <1>4, WriteAloneIndexed

\* The statements an acceptance adds for a part of a word are about no document.
LEMMA SmallIndexed ==
    /\ \A user, word : AddUserAttribution(user, word).op \notin NoticedOps
    /\ \A table, id : DeleteRow(table, id).op \notin NoticedOps
BY DEF AddUserAttribution, DeleteRow, NoticedOps, DocumentOps, SentOps, FetchedOps

\* One turn of a loop of an acceptance.
LEMMA TurnIndexed ==
    ASSUME TypeOK, ThreadsKnown, Indexed, TypeOK', NEW t \in Threads, NEW op, At(t, op),
           op \notin NoticedOps, NEW c, NEW S, [c EXCEPT !.rows = S].op = op,
           NEW x, NEW y, x.op \notin NoticedOps, y.op \notin NoticedOps,
           NEW allowed, NEW after, Write(t, allowed, after, <<x, y>> \o Loop(c, S)),
           allowed => Still(after)
    PROVE  KeepsInLine(t)
<1> DEFINE z == [c EXCEPT !.rows = S]
           X == {x, y, z}
           p == <<x, y>> \o Loop(c, S)
<1>1. \A s \in X : s.op \notin NoticedOps
  OBVIOUS
<1>2. p \in Seq(X)
  <2> DEFINE q == Loop(c, S)
             r == <<x, y>>
  <2>1. q \in Seq({z})
    BY LoopStatements
  <2> HIDE DEF q, z
  <2>2. q \in Seq(X) /\ r \in Seq(X)
    BY <2>1
  <2> HIDE DEF r, X
  <2>3. r \o q \in Seq(X)
    BY <2>2
  <2>4. QED
    BY <2>3 DEF r, q
<1>3. Write(t, allowed, after, p)
  OBVIOUS
<1> HIDE DEF z, X, p
<1>4. QED
  BY <1>1, <1>2, <1>3, WriteIndexed DEF NoticedOps

\* Examples are no documents.
LEMMA AcceptExampleIndexed ==
    ASSUME TypeOK, ThreadsKnown, Indexed, TypeOK', NEW t \in Threads, accept_example(t)
    PROVE  KeepsInLine(t)
<1>1. At(t, "accept_examples")
  BY DEF accept_example
<1>2. PICK c : c = Current(t)
  OBVIOUS
<1>3. PICK r \in c.rows :
          Write(t, r.existing_example_id \in Ids(db.examples) \/ c.word_id \in db.words,
                PutExample(db, r.existing_example_id, c.word_id),
                <<AddUserAttribution(r.user, c.word_id), DeleteExampleSuggestion(r.id)>>
                \o Loop(c, c.rows \ {r}))
  BY <1>2 DEF accept_example
<1> DEFINE allowed == r.existing_example_id \in Ids(db.examples) \/ c.word_id \in db.words
           after == PutExample(db, r.existing_example_id, c.word_id)
           x == AddUserAttribution(r.user, c.word_id)
           y == DeleteExampleSuggestion(r.id)
           S == c.rows \ {r}
           table == "examples"
           key == KeyOrNext(db, "examples", r.existing_example_id)
<1>4. [c EXCEPT !.rows = S].op = "accept_examples"
  <2>1. c \in AcceptStatement /\ c.op = "accept_examples"
    BY <1>1, <1>2, AtAccept, ProgramAt
  <2>2. QED
    BY <2>1 DEF AcceptStatement
<1>5. /\ after.words = db.words /\ after.word_suggestions = db.word_suggestions
      /\ after.seq = db.seq \/ after.seq = Bump(db.seq, table, key)
      /\ table # "word_suggestions"
  BY DEF TypeOK, Database, PutExample
<1>6. Write(t, allowed, after, <<x, y>> \o Loop(c, S))
  BY <1>3
<1>7. x.op \notin NoticedOps /\ y.op \notin NoticedOps
  BY SmallIndexed DEF DeleteExampleSuggestion
<1> HIDE DEF allowed, after, x, y, S, table, key
<1>8. Still(after)
  BY <1>5, TablesStill
<1>9. "accept_examples" \notin NoticedOps
  BY DEF NoticedOps, DocumentOps, SentOps, FetchedOps
<1>10. QED
  BY <1>1, <1>4, <1>6, <1>7, <1>8, <1>9, TurnIndexed

\* Nor are datasets.
LEMMA AcceptDatasetIndexed ==
    ASSUME TypeOK, ThreadsKnown, Indexed, TypeOK', NEW t \in Threads, accept_dataset(t)
    PROVE  KeepsInLine(t)
<1>1. At(t, "accept_datasets")
  BY DEF accept_dataset
<1>2. PICK c : c = Current(t)
  OBVIOUS
<1>3. PICK r \in c.rows :
          LET pair == <<c.word_id, r.dataset>>
          IN  Write(t, r.is_delete \/ c.word_id \in db.words,
                    [db EXCEPT !.dataset_attributions =
                        IF r.is_delete THEN @ \ {pair} ELSE @ \cup {pair}],
                    <<AddUserAttribution(r.user, c.word_id), DeleteDatasetSuggestion(r.id)>>
                    \o Loop(c, c.rows \ {r}))
  BY <1>2 DEF accept_dataset
<1> DEFINE pair == <<c.word_id, r.dataset>>
           allowed == r.is_delete \/ c.word_id \in db.words
           after == [db EXCEPT !.dataset_attributions =
                        IF r.is_delete THEN @ \ {pair} ELSE @ \cup {pair}]
           x == AddUserAttribution(r.user, c.word_id)
           y == DeleteDatasetSuggestion(r.id)
           S == c.rows \ {r}
<1>4. [c EXCEPT !.rows = S].op = "accept_datasets"
  <2>1. c \in AcceptStatement /\ c.op = "accept_datasets"
    BY <1>1, <1>2, AtAccept, ProgramAt
  <2>2. QED
    BY <2>1 DEF AcceptStatement
<1>5. Still(after)
  BY DEF TypeOK, Database, Still
<1>6. Write(t, allowed, after, <<x, y>> \o Loop(c, S))
  BY <1>3
<1>7. x.op \notin NoticedOps /\ y.op \notin NoticedOps
  BY SmallIndexed DEF DeleteDatasetSuggestion
<1> HIDE DEF allowed, after, x, y, S
<1>8. "accept_datasets" \notin NoticedOps
  BY DEF NoticedOps, DocumentOps, SentOps, FetchedOps
<1>9. QED
  BY <1>1, <1>4, <1>5, <1>6, <1>7, <1>8, TurnIndexed

\* Nor are links.
LEMMA PutLinkIndexed ==
    ASSUME TypeOK, ThreadsKnown, Indexed, TypeOK', NEW t \in Threads,
           NEW op \in {"accept_links", "accept_link"}, At(t, op), NEW l, NEW ends,
           NEW Y, NEW rest \in Seq(Y), \A s \in Y : s.op \notin NoticedOps,
           PutLink(t, l, ends, rest)
    PROVE  KeepsInLine(t)
<1> DEFINE first == ends.first[2]
           second == ends.second[2]
           allowed == \/ l.existing_id \in Ids(db.linked_words)
                      \/ first \in db.words /\ second \in db.words
           after == PutLinkedWord(db, l.existing_id, first, second)
           x == AddUserAttribution(l.user, first)
           y == AddUserAttribution(l.user, second)
           z == DeleteLinkedWordSuggestion(l.id)
           X == {x, y, z} \cup Y
           q == <<x, y, z>>
           p == q \o rest
           table == "linked_words"
           key == KeyOrNext(db, "linked_words", l.existing_id)
<1>1. Write(t, allowed, after, p)
  BY DEF PutLink
<1>2. /\ after.words = db.words /\ after.word_suggestions = db.word_suggestions
      /\ after.seq = db.seq \/ after.seq = Bump(db.seq, table, key)
      /\ table # "word_suggestions"
  BY DEF TypeOK, Database, PutLinkedWord
<1>3. /\ x.op \notin NoticedOps /\ y.op \notin NoticedOps
      /\ z.op \notin NoticedOps
  BY SmallIndexed DEF DeleteLinkedWordSuggestion
<1> HIDE DEF allowed, after, x, y, z, table, key
<1>4. Still(after)
  BY <1>2, TablesStill
<1>5. \A s \in X : s.op \notin NoticedOps
  BY <1>3
<1>6. q \in Seq(X) /\ rest \in Seq(X)
  OBVIOUS
<1> HIDE DEF X, q
<1>7. p \in Seq(X)
  BY <1>6
<1>8. op \notin DocumentOps
  BY DEF DocumentOps
<1> HIDE DEF p
<1>9. QED
  BY <1>1, <1>4, <1>5, <1>7, <1>8, WriteIndexed

\* Nor are those that wait for the other word.
LEMMA UpdateIndexed ==
    ASSUME TypeOK, ThreadsKnown, Indexed, TypeOK', NEW t \in Threads,
           At(t, "accept_links"), NEW l, NEW ends,
           NEW Y, NEW rest \in Seq(Y), \A s \in Y : s.op \notin NoticedOps,
           update_first_and_second(t, l, ends, rest)
    PROVE  KeepsInLine(t)
<1> DEFINE Updated(r) == [r EXCEPT
               !.first_existing_word_id = IntoExisting(ends.first),
               !.second_existing_word_id = IntoExisting(ends.second),
               !.suggested_word_id = IntoSuggested(ends.first),
               !.second_suggested_word_id = IntoSuggested(ends.second)]
           rows == {IF r.id = l.id THEN Updated(r) ELSE r : r \in db.linked_word_suggestions}
           allowed == \A r \in rows : r.id = l.id => LinkedWordSuggestionOk(db, r)
           after == [db EXCEPT !.linked_word_suggestions = rows]
<1>1. Write(t, allowed, after, rest)
  BY DEF update_first_and_second
<1> HIDE DEF rows, allowed
<1>2. Still(after)
  BY DEF Still, TypeOK, Database
<1>3. "accept_links" \notin DocumentOps
  BY DEF DocumentOps
<1> HIDE DEF after
<1>4. QED
  BY <1>1, <1>2, <1>3, WriteIndexed

\* One turn of the loop over the links of an accepted word, and the acceptance
\* of one link.
LEMMA AcceptLinkIndexed ==
    ASSUME TypeOK, ThreadsKnown, Indexed, TypeOK', NEW t \in Threads,
           accept_link_of_word(t) \/ accept_link(t)
    PROVE  KeepsInLine(t)
<1>1. CASE accept_link_of_word(t)
  <2>1. At(t, "accept_links")
    BY <1>1 DEF accept_link_of_word
  <2>2. PICK c : c = Current(t)
    OBVIOUS
  <2>3. c \in [op: {"accept_links"}, rows: SUBSET PopulatedLink, word_id: Id, suggestion: Id]
    BY <2>1, <2>2, AtAccept, ProgramAt DEF AcceptStatement
  <2>4. PICK l \in c.rows :
            LET ends == EndsAccepted(l.ends, c.suggestion, c.word_id)
                rest == Loop(c, c.rows \ {l})
            IN  PutLink(t, l, ends, rest) \/ update_first_and_second(t, l, ends, rest)
    BY <1>1, <2>2 DEF accept_link_of_word
  <2> DEFINE ends == EndsAccepted(l.ends, c.suggestion, c.word_id)
             rest == Loop(c, c.rows \ {l})
             z == [c EXCEPT !.rows = c.rows \ {l}]
             Y == {z}
  <2>5. z.op = "accept_links" /\ rest \in Seq(Y)
    BY <2>3, LoopStatements
  <2> HIDE DEF z
  <2>6. \A s \in Y : s.op \notin NoticedOps
    BY <2>5 DEF NoticedOps, DocumentOps, SentOps, FetchedOps
  <2>7. PutLink(t, l, ends, rest) \/ update_first_and_second(t, l, ends, rest)
    BY <2>4
  <2> HIDE DEF ends, rest, Y
  <2>8. QED
    BY <2>1, <2>5, <2>6, <2>7, PutLinkIndexed, UpdateIndexed
<1>2. CASE accept_link(t)
  <2> DEFINE l == Current(t).link
             ends == l.ends
             Y == {}
             rest == <<>>
  <2>1. At(t, "accept_link") /\ PutLink(t, l, ends, rest) /\ rest \in Seq(Y) /\ Y = {}
    BY <1>2 DEF accept_link
  <2> HIDE DEF l, ends, Y, rest
  <2>2. QED
    BY <2>1, PutLinkIndexed
<1>3. QED
  BY <1>1, <1>2

-----------------------------------------------------------------------------
(* Statements that are about a document *)

\* Of the suggestions a cascade takes the edits of words that are not there.
LEMMA CascadeSuggestions ==
    ASSUME NEW d \in Database
    PROVE  /\ Cascade(d).words = d.words /\ Cascade(d).seq = d.seq
           /\ Cascade(d).word_suggestions =
                 {r \in d.word_suggestions : Refers(r.existing_word_id, d.words)}
<1> DEFINE p == CascadeParents(d)
<1>1. /\ p \in Database /\ p.words = d.words /\ p.seq = d.seq
      /\ p.word_suggestions = {r \in d.word_suggestions : Refers(r.existing_word_id, d.words)}
  BY DEF Database, CascadeParents, WordSuggestionOk
<1> HIDE DEF p
<1> DEFINE c == CascadeLeaves(p)
<1>2. c.words = p.words /\ c.seq = p.seq /\ c.word_suggestions = p.word_suggestions
  BY <1>1 DEF Database, CascadeLeaves
<1>3. Cascade(d) = c
  BY DEF Cascade, p
<1> HIDE DEF c
<1>4. QED
  BY <1>1, <1>2, <1>3

\* So the DELETE of an example or of a link leaves the documents alone, and that
\* of a word or of a suggestion takes its own.
LEMMA DeletesDocuments ==
    ASSUME TypeOK, References, NEW id
    PROVE  /\ Still(WithoutExample(db, id)) /\ Still(WithoutLinkedWord(db, id))
           /\ LET after == WithoutWord(db, id)
              IN  /\ after.seq = db.seq /\ after.word_suggestions \subseteq db.word_suggestions
                  /\ Documents(after) = Documents(db) \ {Existing(id)}
           /\ LET after == WithoutWordSuggestion(db, id)
              IN  /\ after.seq = db.seq /\ after.word_suggestions \subseteq db.word_suggestions
                  /\ Documents(after) = Documents(db) \ {Suggested(id)}
<1>1. /\ db \in Database
      /\ \A r \in db.word_suggestions : Refers(r.existing_word_id, db.words)
  BY DEF TypeOK, References, ForeignKeysHold, WordSuggestionOk
<1>2. Still(WithoutExample(db, id))
  <2> DEFINE less == [db EXCEPT !.examples = Drop(@, id)]
             after == Cascade(less)
  <2>1. /\ less \in Database /\ less.words = db.words /\ less.seq = db.seq
        /\ less.word_suggestions = db.word_suggestions
    BY <1>1 DEF Database, Drop
  <2> HIDE DEF less
  <2>2. Still(after)
    BY <1>1, <2>1, CascadeSuggestions DEF Still
  <2>3. QED
    BY <2>2 DEF WithoutExample, less
<1>3. Still(WithoutLinkedWord(db, id))
  <2> DEFINE less == [db EXCEPT !.linked_words = Drop(@, id)]
             after == Cascade(less)
  <2>1. /\ less \in Database /\ less.words = db.words /\ less.seq = db.seq
        /\ less.word_suggestions = db.word_suggestions
    BY <1>1 DEF Database, Drop
  <2> HIDE DEF less
  <2>2. Still(after)
    BY <1>1, <2>1, CascadeSuggestions DEF Still
  <2>3. QED
    BY <2>2 DEF WithoutLinkedWord, less
<1>4. LET after == WithoutWord(db, id)
      IN  /\ after.seq = db.seq /\ after.word_suggestions \subseteq db.word_suggestions
          /\ Documents(after) = Documents(db) \ {Existing(id)}
  <2> DEFINE less == [db EXCEPT !.words = @ \ {id}]
             after == Cascade(less)
  <2>1. /\ less \in Database /\ less.words = db.words \ {id} /\ less.seq = db.seq
        /\ less.word_suggestions = db.word_suggestions
    BY <1>1 DEF Database
  <2>2. WithoutWord(db, id) = after
    BY DEF WithoutWord
  <2> HIDE DEF less
  <2>3. /\ after.words = db.words \ {id} /\ after.seq = db.seq
        /\ after.word_suggestions =
              {r \in db.word_suggestions : Refers(r.existing_word_id, db.words \ {id})}
    BY <1>1, <2>1, CascadeSuggestions
  <2> HIDE DEF after
  <2>4. {q \in after.word_suggestions : q.existing_word_id = Null}
            = {q \in db.word_suggestions : q.existing_word_id = Null}
    BY <2>3 DEF Refers
  <2>5. Documents(after) = Documents(db) \ {Existing(id)}
    <3>1. \A w : Existing(w) = Existing(id) <=> w = id
      BY DEF Existing
    <3>2. \A s : Suggested(s) # Existing(id)
      BY DEF Suggested, Existing
    <3>3. QED
      <4> DEFINE N == {q \in db.word_suggestions : q.existing_word_id = Null}
                 A == {Existing(w) : w \in db.words}
                 B == {Suggested(r.id) : r \in N}
      <4>1. Documents(db) = A \cup B
        BY DEF Documents
      <4>2. Documents(after) = {Existing(w) : w \in db.words \ {id}} \cup B
        BY <2>3, <2>4 DEF Documents
      <4>3. {Existing(w) : w \in db.words \ {id}} = A \ {Existing(id)}
        BY <3>1
      <4>4. Existing(id) \notin B
        BY <3>2
      <4> HIDE DEF A, B
      <4>5. QED
        BY <4>1, <4>2, <4>3, <4>4
  <2>6. QED
    BY <2>2, <2>3, <2>5
<1>5. LET after == WithoutWordSuggestion(db, id)
      IN  /\ after.seq = db.seq /\ after.word_suggestions \subseteq db.word_suggestions
          /\ Documents(after) = Documents(db) \ {Suggested(id)}
  <2> DEFINE less == [db EXCEPT !.word_suggestions = Drop(@, id)]
             after == Cascade(less)
  <2>1. /\ less \in Database /\ less.words = db.words /\ less.seq = db.seq
        /\ less.word_suggestions = {r \in db.word_suggestions : r.id # id}
    BY <1>1 DEF Database, Drop
  <2>2. WithoutWordSuggestion(db, id) = after
    BY DEF WithoutWordSuggestion
  <2> HIDE DEF less
  <2>3. /\ after.words = db.words /\ after.seq = db.seq
        /\ after.word_suggestions = {r \in db.word_suggestions : r.id # id}
    BY <1>1, <2>1, CascadeSuggestions
  <2> HIDE DEF after
  <2>4. Documents(after) = Documents(db) \ {Suggested(id)}
    <3>1. \A s : Suggested(s) = Suggested(id) <=> s = id
      BY DEF Suggested
    <3>2. \A w : Existing(w) # Suggested(id)
      BY DEF Suggested, Existing
    <3>3. QED
      BY <2>3, <3>1, <3>2 DEF Documents
  <2>5. QED
    BY <2>2, <2>3, <2>4
<1>6. QED
  BY <1>2, <1>3, <1>4, <1>5

\* The DELETE of a row does to the documents what its statement says.
LEMMA DeleteIndexed ==
    ASSUME TypeOK, References, ThreadsKnown, Indexed, TypeOK', NEW t \in Threads,
           delete_word(t) \/ delete_word_suggestion(t) \/ delete_example(t) \/ delete_link(t)
    PROVE  KeepsInLine(t)
<1>1. PICK id : id = Current(t).id
  OBVIOUS
<1> DEFINE X == {}
           p == <<>>
           allowed == TRUE
<1>2. p \in Seq(X) /\ X = {}
  OBVIOUS
<1>3. allowed
  OBVIOUS
<1>4. ASSUME NEW op \in {"delete_word", "delete_word_suggestion"}, At(t, op), NEW after,
             Write(t, allowed, after, p),
             after.seq = db.seq, after.word_suggestions \subseteq db.word_suggestions,
             Documents(after) = Documents(db) \ {IF op = "delete_word" THEN Existing(id)
                                                 ELSE Suggested(id)}
      PROVE  KeepsInLine(t)
  <2> DEFINE about == Entries(db) \ Entries(after)
  <2>1. /\ db' = after /\ Continue(t, p, about) /\ UNCHANGED <<index, forms, origin, broken>> /\ Observe
    BY <1>3, <1>4 DEF Write
  <2> HIDE DEF about, X, p, allowed
  <2>2. db.seq["word_suggestions"] <= db'.seq["word_suggestions"]
    <3>1. db.seq["word_suggestions"] \in Nat
      BY DEF TypeOK, Database, AutoIncrement
    <3>2. QED
      BY <1>4, <2>1, <3>1
  <2>3. Current(t).op = op
    BY <1>4 DEF At, Current
  <2>4. \A doc : /\ ~Puts({Current(t)}, doc) /\ ~Takes({Current(t)}, doc)
                 /\ Removes({Current(t)}, doc) <=>
                        doc = IF op = "delete_word" THEN Existing(id) ELSE Suggested(id)
    BY <1>1, <1>4, <2>3 DEF Puts, Takes, Removes
  <2>5. \A doc \in WordOrSuggestionId :
            /\ doc \in index' <=> \/ Puts({Current(t)}, doc)
                                  \/ doc \in index /\ ~Takes({Current(t)}, doc)
            /\ doc \in Documents(db') <=> doc \in Documents(db) /\ ~Removes({Current(t)}, doc)
    BY <1>4, <2>1, <2>4
  <2>6. /\ broken \subseteq broken' /\ forms' = forms
        /\ db'.word_suggestions \subseteq db.word_suggestions
    BY <1>4, <2>1
  <2>7. At(t, op) /\ p \in Seq(X) /\ \A x \in X : x.op \notin NoticedOps
    BY <1>2, <1>4
  <2>8. Uneventful(t)
    <3>1. db'.seq["word_suggestions"] = db.seq["word_suggestions"]
      BY <1>4, <2>1
    <3>2. QED
      BY <2>1, <2>6, <2>7, <3>1, OthersSupported, GoesOnUneventful
  <2>9. QED
    BY <2>1, <2>2, <2>5, <2>6, <2>7, <2>8, OthersSupported, Proceeds DEF KeepsInLine
<1>5. CASE delete_word(t)
  <2> DEFINE after == WithoutWord(db, id)
  <2>1. At(t, "delete_word") /\ Write(t, allowed, after, p)
    BY <1>1, <1>5 DEF delete_word
  <2>2. /\ after.seq = db.seq /\ after.word_suggestions \subseteq db.word_suggestions
        /\ Documents(after) = Documents(db) \ {Existing(id)}
    BY DeletesDocuments
  <2> HIDE DEF after, X, p, allowed
  <2>3. QED
    BY <1>4, <2>1, <2>2
<1>6. CASE delete_word_suggestion(t)
  <2> DEFINE after == WithoutWordSuggestion(db, id)
  <2>1. At(t, "delete_word_suggestion") /\ Write(t, allowed, after, p)
    BY <1>1, <1>6 DEF delete_word_suggestion
  <2>2. /\ after.seq = db.seq /\ after.word_suggestions \subseteq db.word_suggestions
        /\ Documents(after) = Documents(db) \ {Suggested(id)}
    BY DeletesDocuments
  <2> HIDE DEF after, X, p, allowed
  <2>3. QED
    BY <1>4, <2>1, <2>2
<1>7. CASE delete_example(t) \/ delete_link(t)
  <2>1. PICK op \in {"delete_example", "delete_link"} : At(t, op)
    BY <1>7 DEF delete_example, delete_link
  <2>2. PICK after \in {WithoutExample(db, id), WithoutLinkedWord(db, id)} :
            Write(t, allowed, after, <<>>)
    BY <1>1, <1>7 DEF delete_example, delete_link
  <2>3. Still(after)
    BY DeletesDocuments
  <2>4. op \notin DocumentOps
    BY DEF DocumentOps
  <2> HIDE DEF allowed
  <2>5. QED
    BY <2>1, <2>2, <2>3, <2>4, WriteAloneIndexed
<1>8. QED
  BY <1>5, <1>6, <1>7

\* A message to the index does to it what it says.
LEMMA ExecIndexed ==
    ASSUME TypeOK, ThreadsKnown, Indexed, TypeOK', NEW t \in Threads, ExecIndex(t)
    PROVE  KeepsInLine(t)
<1>1. PICK op \in {"index_put", "index_delete"} :
          /\ At(t, op)
          /\ index' = IF op = "index_put" THEN index \cup {Current(t).doc}
                      ELSE index \ {Current(t).doc}
  BY DEF ExecIndex
<1> DEFINE X == {}
           p == <<>>
           about == {}
<1>2. /\ Continue(t, p, about) /\ UNCHANGED <<db, forms, origin, broken>> /\ Observe
      /\ p \in Seq(X) /\ X = {}
  BY DEF ExecIndex
<1>3. db.seq["word_suggestions"] <= db'.seq["word_suggestions"]
  BY <1>2 DEF TypeOK, Database, AutoIncrement
<1>4. Current(t).op = op
  BY <1>1 DEF At, Current
<1>5. \A doc : /\ Puts({Current(t)}, doc) <=> op = "index_put" /\ doc = Current(t).doc
               /\ Takes({Current(t)}, doc) <=> op = "index_delete" /\ doc = Current(t).doc
               /\ ~Removes({Current(t)}, doc)
  BY <1>1, <1>4 DEF Puts, Takes, Removes
<1>6. \A doc \in WordOrSuggestionId :
          /\ doc \in index' <=> \/ Puts({Current(t)}, doc)
                                \/ doc \in index /\ ~Takes({Current(t)}, doc)
          /\ doc \in Documents(db') <=> doc \in Documents(db) /\ ~Removes({Current(t)}, doc)
  BY <1>1, <1>2, <1>5
<1>7. /\ broken \subseteq broken' /\ forms' = forms
      /\ db'.word_suggestions \subseteq db.word_suggestions
  BY <1>2
<1> HIDE DEF X, p, about
<1>8. At(t, op) /\ \A x \in X : x.op \notin NoticedOps
  BY <1>1, <1>2
<1>9. Uneventful(t)
  <2>1. db'.seq["word_suggestions"] = db.seq["word_suggestions"]
    BY <1>2
  <2>2. QED
    BY <1>2, <1>7, <1>8, <2>1, OthersSupported, GoesOnUneventful
<1>10. QED
  BY <1>2, <1>3, <1>6, <1>7, <1>8, <1>9, OthersSupported, Proceeds DEF KeepsInLine

-----------------------------------------------------------------------------
(* Programs that begin *)

\* What a thread goes on with that has one statement is its whole program.
LEMMA BeginsAt ==
    ASSUME TypeOK, ThreadsKnown, Indexed, NEW t \in Threads, NEW op \in FirstOps \cup SentOps,
           At(t, op), NEW X, NEW statements \in Seq(X), NEW x \in Statements(statements),
           NEW about, Continue(t, statements, about), broken \subseteq broken', Observe
    PROVE  /\ Acts(t)
           /\ Statements(todo'[t]) = Statements(statements)
           /\ Len(statements) = 1 => Len(todo'[t]) = 1
           /\ claims'[t] = claims[t] \cup about
           /\ \A doc : Silent(Statements(todo[t]), doc)
<1>1. todo[t] # <<>> /\ Tail(todo[t]) = <<>>
  BY SilentNow DEF At, Idle
<1>2. /\ \A u \in Threads \ {t} : todo'[u] = todo[u] /\ claims'[u] = claims[u]
      /\ todo'[t] # <<>> => claims'[t] = claims[t] \cup about
  BY <1>1, Continued
<1>3. todo'[t] = statements
  BY <1>1, ConcatEmptySeq DEF Continue, TypeOK
<1>4. todo'[t] # <<>>
  BY <1>3 DEF Statements
<1>5. \A doc : Silent(Statements(todo[t]), doc)
  BY SilentNow
<1>6. QED
  BY <1>2, <1>3, <1>4, <1>5 DEF Acts

\* A program that takes a word out and then its document settles it.
LEMMA FetchWordDeletionIndexed ==
    ASSUME TypeOK, ThreadsKnown, Indexed, TypeOK', NEW t \in Threads, fetch_word_deletion(t)
    PROVE  KeepsInLine(t)
<1>1. At(t, "fetch_word_deletion") /\ "fetch_word_deletion" \in FirstOps
  BY DEF fetch_word_deletion, FirstOps
<1>2. PICK shown : shown = Current(t).shown
  OBVIOUS
<1>3. PICK word : word = RowOf(db.word_deletion_suggestions, shown.id).word_id
  OBVIOUS
<1> DEFINE x == [op |-> "delete_word", id |-> word, shown |-> shown.word_id]
           y == IndexDelete(Existing(word))
           about == {Existing(word)}
<1>4. CASE Read(t, TRUE, <<x, y>>, about)
  <2> DEFINE X == {x, y}
             p == <<x, y>>
  <2>1. /\ Continue(t, p, about) /\ UNCHANGED <<db, index, forms, origin, broken>> /\ Observe
    BY <1>4 DEF Read
  <2>2. /\ x.op = "delete_word" /\ x.id = word
        /\ y.op = "index_delete" /\ y.doc = Existing(word)
    BY DEF IndexDelete
  <2> HIDE DEF x, y
  <2>3. p \in Seq(X) /\ Statements(p) = X /\ x \in Statements(p)
    BY DEF Statements
  <2> HIDE DEF about
  <2>4. /\ Acts(t) /\ Statements(todo'[t]) = X /\ claims'[t] = claims[t] \cup about
        /\ \A doc : Silent(Statements(todo[t]), doc)
    <3> HIDE DEF p, X
    <3>1. broken \subseteq broken'
      BY <2>1
    <3>2. QED
      BY <1>1, <2>1, <2>3, <3>1, BeginsAt
  <2>5. Existing(word) \in claims'[t]
    BY <2>4 DEF about
  <2>6. \A s \in Statements(todo'[t]) : Foresees(t, s)'
    BY <2>2, <2>4, <2>5 DEF Foresees, SentOps
  <2>7. \A doc : \/ /\ doc = Existing(word)
                    /\ ~Puts(X, doc) /\ Takes(X, doc) /\ Removes(X, doc)
                 \/ Silent(X, doc)
    BY <2>2 DEF Puts, Takes, Removes, Silent
  <2>8. \A doc \in WordOrSuggestionId :
            \/ /\ doc \in claims'[t]
               /\ doc \in Excused' \/ Settles(Statements(todo[t]), doc)'
            \/ Unmoved(doc) /\ Silent(Statements(todo'[t]), doc)
    BY <2>1, <2>4, <2>5, <2>7 DEF Settles, Unmoved
  <2>9. FilingLawful
    <3>1. SentBy(t)' \subseteq SentBy(t)
      BY <2>2, <2>4 DEF SentBy, SentOps
    <3>2. db.seq["word_suggestions"] <= db'.seq["word_suggestions"]
      BY <2>1 DEF TypeOK, Database, AutoIncrement
    <3>3. QED
      BY <2>1, <2>4, <3>1, <3>2, FilesNothing DEF Acts
  <2>10. Uneventful(t)
    <3>1. \A s \in Statements(todo'[t]) : Supported(t, s)
      BY <2>2, <2>4 DEF Supported, FetchedOps
    <3>2. QED
      BY <2>1, <2>4, <3>1 DEF Uneventful
  <2>11. QED
    BY <2>4, <2>6, <2>8, <2>9, <2>10, Starts DEF KeepsInLine
<1>5. CASE Refuse(t)
  BY <1>1, <1>5, RefuseIndexed
<1>6. QED
  BY <1>2, <1>3, <1>4, <1>5 DEF fetch_word_deletion

\* A submission that has read what it edits has the same word and the same
\* suggestion; where there is nothing to compare with, everything is a change.
LEMMA ReadOriginalIndexed ==
    ASSUME TypeOK, ThreadsKnown, Indexed, TypeOK', NEW t \in Threads, read_original(t)
    PROVE  KeepsInLine(t)
<1>1. At(t, "read_original") /\ "read_original" \in SentOps
  BY DEF read_original, SentOps
<1>2. PICK w : w = Current(t).word
  OBVIOUS
<1>3. PICK found : found = (w.suggestion_id \in Ids(db.word_suggestions))
  OBVIOUS
<1>4. PICK changed \in BOOLEAN :
          /\ ~found /\ w.existing_id \notin db.words => changed
          /\ Read(t, found => LinksPopulate(db, w.suggestion_id),
                  <<[op |-> "insert_suggestion", word |-> w, found |-> found,
                     changed |-> changed]>>, {})
  BY <1>2, <1>3 DEF read_original
<1> DEFINE s == [op |-> "insert_suggestion", word |-> w, found |-> found, changed |-> changed]
           X == {s}
           p == <<s>>
           about == {}
<1>5. CASE /\ Continue(t, p, about)
           /\ UNCHANGED <<db, index, forms, origin, broken>>
           /\ Observe
  <2>1. /\ s.op = "insert_suggestion" /\ s.word = w
        /\ s.op = "insert_suggestion" /\ ~s.changed /\ s.word.existing_id = Null => s.found
    <3>1. Null \notin db.words
      BY DEF TypeOK, Database, Id
    <3>2. QED
      BY <1>4, <3>1
  <2> HIDE DEF s
  <2>2. /\ p \in Seq(X) /\ Statements(p) = {s} /\ Len(p) = 1
        /\ \A doc : Silent(Statements(p), doc)
    BY <2>1, OneIsSilent DEF DocumentOps
  <2> HIDE DEF X, p, about
  <2>3. broken \subseteq broken'
    BY <1>5
  <2>4. s \in Statements(p)
    BY <2>2
  <2>5. /\ Acts(t) /\ Statements(todo'[t]) = {s} /\ Len(todo'[t]) = 1
        /\ \A doc : Silent(Statements(todo[t]), doc)
    BY <1>1, <1>5, <2>2, <2>3, <2>4, BeginsAt
  <2>6. \A x \in Statements(todo'[t]) : Foresees(t, x)'
    BY <2>1, <2>5 DEF Foresees
  <2>7. FilingLawful
    <3>1. Current(t) \in Statements(todo[t]) /\ Current(t).op = "read_original"
      BY <1>1, ProgramAt
    <3>2. w \in SentBy(t)
      BY <1>1, <1>2, <3>1 DEF SentBy
    <3>3. SentBy(t)' \subseteq SentBy(t)
      BY <2>1, <2>5, <3>2 DEF SentBy
    <3>4. db.seq["word_suggestions"] <= db'.seq["word_suggestions"]
      BY <1>5 DEF TypeOK, Database, AutoIncrement
    <3>5. QED
      BY <1>5, <2>5, <3>3, <3>4, FilesNothing DEF Acts
  <2>8. \A doc : Unmoved(doc) /\ Silent(Statements(todo'[t]), doc)
    BY <1>5, <2>2, <2>5 DEF Unmoved
  <2>9. Uneventful(t)
    <3>1. \A x \in Statements(todo'[t]) : Supported(t, x)
      BY <2>1, <2>5 DEF Supported, FetchedOps
    <3>2. QED
      BY <1>5, <2>5, <3>1 DEF Uneventful
  <2>10. QED
    BY <2>5, <2>6, <2>7, <2>8, <2>9, Starts DEF KeepsInLine
<1>6. CASE Refuse(t)
  BY <1>1, <1>6, RefuseIndexed
<1>7. QED
  BY <1>4, <1>5, <1>6 DEF Read

\* An acceptance puts its word, and takes out the document and the row of its
\* suggestion, and is about no other document.
LEMMA AcceptanceMoves ==
    ASSUME NEW c, NEW word
    PROVE  LET S == Statements(RestOfAcceptance(c, word))
           IN  /\ RestOfAcceptance(c, word) \in Seq(S)
               /\ S # {}
               /\ \A x \in S : /\ x.op \notin SentOps \cup FetchedOps \cup {"delete_word"}
                               /\ x.op = "index_put" => x.doc = Existing(word)
                               /\ x.op = "index_delete" => x.doc = Suggested(c.row.id)
                               /\ x.op = "delete_word_suggestion" => x.id = c.row.id
               /\ Puts(S, Existing(word))
               /\ Takes(S, Suggested(c.row.id)) /\ Removes(S, Suggested(c.row.id))
<1> DEFINE a == AddUserAttribution(c.row.user, word)
           e == [op |-> "accept_examples", rows |-> {}, word_id |-> word]
           d == [op |-> "accept_datasets", rows |-> {}, word_id |-> word]
           l == [op |-> "accept_links", rows |-> {}, word_id |-> word, suggestion |-> c.row.id]
           ee == [e EXCEPT !.rows = c.examples]
           dd == [d EXCEPT !.rows = c.datasets]
           ll == [l EXCEPT !.rows = c.links]
           i == IndexDelete(Suggested(c.row.id))
           w == [op |-> "delete_word_suggestion", id |-> c.row.id]
           p == IndexPut(Existing(word))
           X == {a, ee, dd, ll, i, w, p}
<1>1. /\ a.op = "add_user_attribution" /\ ee.op = "accept_examples"
      /\ dd.op = "accept_datasets" /\ ll.op = "accept_links"
      /\ i.op = "index_delete" /\ i.doc = Suggested(c.row.id)
      /\ w.op = "delete_word_suggestion" /\ w.id = c.row.id
      /\ p.op = "index_put" /\ p.doc = Existing(word)
  BY DEF AddUserAttribution, IndexDelete, IndexPut
<1>2. /\ Loop(e, c.examples) \in Seq({ee}) /\ Loop(d, c.datasets) \in Seq({dd})
      /\ Loop(l, c.links) \in Seq({ll})
  BY LoopStatements
<1>3. RestOfAcceptance(c, word) =
          <<a>> \o Loop(e, c.examples) \o Loop(d, c.datasets) \o Loop(l, c.links)
          \o <<i, w>> \o <<p>>
  BY DEF RestOfAcceptance, DeleteWordSuggestion
<1> HIDE DEF a, ee, dd, ll, i, w, p
<1>4. \A x \in X : /\ x.op \notin SentOps \cup FetchedOps \cup {"delete_word"}
                   /\ x.op = "index_put" => x.doc = Existing(word)
                   /\ x.op = "index_delete" => x.doc = Suggested(c.row.id)
                   /\ x.op = "delete_word_suggestion" => x.id = c.row.id
  BY <1>1 DEF SentOps, FetchedOps
<1> DEFINE q1 == <<a>>
           q2 == Loop(e, c.examples)
           q3 == Loop(d, c.datasets)
           q4 == Loop(l, c.links)
           q5 == <<i, w>>
           q6 == <<p>>
<1>5. /\ q1 \in Seq(X) /\ q2 \in Seq(X) /\ q3 \in Seq(X) /\ q4 \in Seq(X)
      /\ q5 \in Seq(X) /\ q6 \in Seq(X)
  BY <1>2
<1>6. Statements(q5) = {i, w} /\ Statements(q6) = {p}
  BY DEF Statements
<1>7. RestOfAcceptance(c, word) = q1 \o q2 \o q3 \o q4 \o q5 \o q6
  BY <1>3
<1> HIDE DEF X, q1, q2, q3, q4, q5, q6
<1> DEFINE r4 == q1 \o q2 \o q3 \o q4
           r5 == r4 \o q5
<1>8. r4 \in Seq(X)
  BY <1>5
<1> HIDE DEF r4
<1>9. r5 \in Seq(X) /\ {i, w} \subseteq Statements(r5)
  BY <1>5, <1>6, <1>8, StatementsOfBoth
<1> HIDE DEF r5
<1> DEFINE r == r5 \o q6
           S == Statements(r)
<1>10. r \in Seq(X) /\ {i, w, p} \subseteq S
  BY <1>5, <1>6, <1>9, StatementsOfBoth
<1>11. RestOfAcceptance(c, word) = r
  BY <1>7 DEF r4, r5
<1> HIDE DEF r
<1>12. S \subseteq X
  BY <1>10, StatementsOf
<1>13. r \in Seq(S)
  <2>1. \A k \in 1 .. Len(r) : r[k] \in S
    BY DEF Statements
  <2> HIDE DEF S
  <2>2. QED
    BY <1>10, <2>1
<1> HIDE DEF S
<1>14. /\ Puts(S, Existing(word))
       /\ Takes(S, Suggested(c.row.id)) /\ Removes(S, Suggested(c.row.id))
  BY <1>1, <1>10 DEF Puts, Takes, Removes
<1>15. S # {} /\ S = Statements(RestOfAcceptance(c, word))
  BY <1>10, <1>11 DEF S
<1>16. QED
  BY <1>4, <1>11, <1>12, <1>13, <1>14, <1>15

\* The INSERT of a word is followed by its document, and by the end of the
\* suggestion and its own.
LEMMA AcceptJustWordIndexed ==
    ASSUME TypeOK, ThreadsKnown, Indexed, TypeOK', NEW t \in Threads, accept_just_word(t)
    PROVE  Indexed' /\ Brings(t)
<1>1. At(t, "accept_just_word") /\ "accept_just_word" \in FirstOps
  BY DEF accept_just_word, FirstOps, FetchedOps
<1>2. PICK c : c = Current(t)
  OBVIOUS
<1>3. PICK word : word = KeyOrNext(db, "words", c.row.existing_word_id)
  OBVIOUS
<1> DEFINE p == RestOfAcceptance(c, word)
           about == {Existing(word)}
           S == Statements(p)
<1>4. /\ db' = [db EXCEPT !.words = @ \cup {word}, !.seq = Bump(@, "words", word)]
      /\ Continue(t, p, about) /\ UNCHANGED <<index, forms, broken>> /\ Observe
  BY <1>2, <1>3 DEF accept_just_word
<1>5. Suggested(c.row.id) \in claims[t]
  <2>1. Sure(t, c) /\ c.op = "accept_just_word"
    BY <1>1, <1>2, ProgramAt
  <2>2. QED
    BY <2>1 DEF Sure, FetchedOps, FetchedKnown
<1>6. /\ p \in Seq(S) /\ S # {}
      /\ \A x \in S : /\ x.op \notin SentOps \cup FetchedOps \cup {"delete_word"}
                      /\ x.op = "index_put" => x.doc = Existing(word)
                      /\ x.op = "index_delete" => x.doc = Suggested(c.row.id)
                      /\ x.op = "delete_word_suggestion" => x.id = c.row.id
      /\ Puts(S, Existing(word))
      /\ Takes(S, Suggested(c.row.id)) /\ Removes(S, Suggested(c.row.id))
  BY AcceptanceMoves
<1>7. Existing(word) # Suggested(c.row.id)
  BY DEF Existing, Suggested
<1>8. \A doc : /\ Puts(S, doc) <=> doc = Existing(word)
               /\ Takes(S, doc) <=> doc = Suggested(c.row.id)
               /\ Removes(S, doc) <=> doc = Suggested(c.row.id)
  <2>1. \A doc : /\ Puts(S, doc) => doc = Existing(word)
                 /\ Takes(S, doc) => doc = Suggested(c.row.id)
                 /\ Removes(S, doc) => doc = Suggested(c.row.id)
    BY <1>6 DEF Puts, Takes, Removes
  <2>2. QED
    BY <1>6, <2>1
<1>9. PICK x : x \in Statements(p)
  BY <1>6
<1> HIDE DEF p, about
<1>10. /\ Acts(t) /\ Statements(todo'[t]) = S /\ claims'[t] = claims[t] \cup about
       /\ \A doc : Silent(Statements(todo[t]), doc)
  <2>1. broken \subseteq broken'
    BY <1>4
  <2> HIDE DEF S
  <2>2. QED
    BY <1>1, <1>4, <1>6, <1>9, <2>1, BeginsAt DEF S
<1> HIDE DEF S
<1>11. {Existing(word), Suggested(c.row.id)} \subseteq claims'[t]
  BY <1>5, <1>10 DEF about
<1>12. \A s \in Statements(todo'[t]) : Foresees(t, s)'
  BY <1>6, <1>7, <1>8, <1>10, <1>11 DEF Foresees, SentOps
<1>13. /\ Documents(db') = Documents(db) \cup {Existing(word)}
       /\ db'.word_suggestions = db.word_suggestions
       /\ db.seq["word_suggestions"] <= db'.seq["word_suggestions"]
  <2>1. /\ db'.words = db.words \cup {word}
        /\ db'.word_suggestions = db.word_suggestions
        /\ db'.seq = Bump(db.seq, "words", word)
    BY <1>4 DEF TypeOK, Database
  <2>2. /\ db'.seq["word_suggestions"] = db.seq["word_suggestions"]
        /\ db.seq["word_suggestions"] \in Nat
    BY <2>1 DEF Bump, TypeOK, Database, AutoIncrement
  <2>3. QED
    BY <2>1, <2>2 DEF Documents
<1>14. \A doc \in WordOrSuggestionId :
           \/ /\ doc \in claims'[t]
              /\ doc \in Excused' \/ Settles(Statements(todo[t]), doc)'
           \/ Unmoved(doc) /\ Silent(Statements(todo'[t]), doc)
  <2>1. ASSUME NEW doc \in WordOrSuggestionId,
               doc \notin {Existing(word), Suggested(c.row.id)}
        PROVE  Unmoved(doc) /\ Silent(Statements(todo'[t]), doc)
    BY <1>4, <1>8, <1>10, <1>13, <2>1 DEF Unmoved, Silent
  <2>2. Settles(Statements(todo[t]), Existing(word))'
    BY <1>7, <1>8, <1>10, <1>13 DEF Settles
  <2>3. Settles(Statements(todo[t]), Suggested(c.row.id))'
    BY <1>7, <1>8, <1>10 DEF Settles
  <2>4. QED
    BY <1>11, <2>1, <2>2, <2>3
<1>15. FilingLawful
  <2>1. SentBy(t)' \subseteq SentBy(t)
    BY <1>6, <1>10 DEF SentBy
  <2>2. QED
    BY <1>4, <1>10, <1>13, <2>1, FilesNothing DEF Acts
<1>16. Brings(t)
  BY <1>6, <1>10, <1>13 DEF Brings
<1>17. QED
  BY <1>10, <1>12, <1>14, <1>15, <1>16, Starts

\* After the row of a suggestion comes its document, if it is to have one, and
\* nothing that takes a document or its row.
LEMMA AfterInsertMoves ==
    ASSUME NEW c, NEW s
    PROVE  LET S == Statements(AfterInsert(c, s))
               indexed == c.word.existing_id = Null /\ s # Null /\ (~c.found \/ c.changed)
           IN  /\ AfterInsert(c, s) \in Seq(S)
               /\ S # {}
               /\ \A x \in S : /\ x.op \notin SentOps \cup FetchedOps
                               /\ x.op \in DocumentOps =>
                                     indexed /\ x.op = "index_put" /\ x.doc = Suggested(s)
               /\ indexed => Puts(S, Suggested(s))
<1> DEFINE new == IF c.word.existing_id = Null THEN s ELSE Null
           indexed == c.word.existing_id = Null /\ s # Null /\ (~c.found \/ c.changed)
           put == IndexPut(Suggested(new))
           links == [op |-> "process_linked_words", word |-> c.word, new |-> new]
           examples == [op |-> "process_examples", word |-> c.word, new |-> new]
           datasets == [op |-> "process_datasets", word |-> c.word, new |-> new]
           first == IF indexed THEN <<put>> ELSE <<>>
           second == <<links, examples, datasets>>
           X == {links, examples, datasets} \cup IF indexed THEN {put} ELSE {}
<1>1. AfterInsert(c, s) = first \o second
  BY DEF AfterInsert, ProcessParts
<1>2. /\ put.op = "index_put"
      /\ indexed => put.doc = Suggested(s)
      /\ links.op = "process_linked_words"
      /\ examples.op = "process_examples" /\ datasets.op = "process_datasets"
  BY DEF IndexPut
<1> HIDE DEF put, links, examples, datasets, indexed
<1>3. \A x \in X : /\ x.op \notin SentOps \cup FetchedOps
                   /\ x.op \in DocumentOps =>
                         indexed /\ x.op = "index_put" /\ x.doc = Suggested(s)
  BY <1>2 DEF SentOps, DocumentOps, FetchedOps
<1>4. /\ first \in Seq(X) /\ second \in Seq(X)
      /\ indexed => put \in Statements(first)
      /\ Statements(second) # {}
  <2>1. indexed => put \in X
    OBVIOUS
  <2>2. links \in X /\ examples \in X /\ datasets \in X
    OBVIOUS
  <2> HIDE DEF X
  <2>3. second \in Seq(X)
    BY <2>2
  <2>4. first \in Seq(X)
    BY <2>1
  <2>5. indexed => put \in Statements(first)
    BY DEF Statements
  <2>6. Statements(second) # {}
    <3>1. 1 \in 1 .. Len(second)
      OBVIOUS
    <3>2. QED
      BY <3>1 DEF Statements
  <2>7. QED
    BY <2>3, <2>4, <2>5, <2>6
<1> HIDE DEF first, second, X
<1> DEFINE r == first \o second
           S == Statements(r)
<1>5. r \in Seq(X) /\ S # {} /\ (indexed => put \in S)
  BY <1>4, StatementsOfBoth
<1>6. S \subseteq X
  BY <1>5, StatementsOf
<1> HIDE DEF r
<1>7. r \in Seq(S)
  <2>1. \A k \in 1 .. Len(r) : r[k] \in S
    BY DEF Statements
  <2> HIDE DEF S
  <2>2. QED
    BY <1>5, <2>1
<1>8. S = Statements(AfterInsert(c, s)) /\ r = AfterInsert(c, s)
  BY <1>1 DEF r
<1> HIDE DEF S
<1>9. indexed => Puts(S, Suggested(s))
  BY <1>2, <1>5 DEF Puts
<1>10. QED
  BY <1>3, <1>5, <1>6, <1>7, <1>8, <1>9 DEF indexed

\* A suggestion has the word it was of, so the INSERT of one moves the document
\* of its own, if any.
LEMMA SuggestionPut ==
    ASSUME TypeOK, Indexed, NEW t \in Threads, NEW w \in SentBy(t), w \in WordSubmission,
           NEW s, s = KeyOrNext(db, "word_suggestions", w.suggestion_id),
           NEW row, row.id = s, row.existing_word_id = w.existing_id,
           db' = [db EXCEPT !.word_suggestions = Put(@, row),
                            !.seq = Bump(@, "word_suggestions", s)]
    PROVE  /\ s \in Id
           /\ Documents(db') = IF w.existing_id = Null THEN Documents(db) \cup {Suggested(s)}
                               ELSE Documents(db)
           /\ db.seq["word_suggestions"] <= db'.seq["word_suggestions"]
           /\ <<s, w.existing_id>> \in Nat \X Nat
           /\ \/ <<s, w.existing_id>> \in Filed
              \/ s > db.seq["word_suggestions"] /\ s <= db'.seq["word_suggestions"]
<1>1. /\ db.seq["word_suggestions"] \in Nat /\ FiledOnce
      /\ w.suggestion_id \in Nat /\ w.existing_id \in Nat
      /\ \A r \in db.word_suggestions : r.id \in Nat
  BY DEF TypeOK, Database, AutoIncrement, Indexed, WordSubmission, OptionalId,
         WordSuggestionRow, Id
<1>2. /\ db'.words = db.words /\ db'.word_suggestions = Put(db.word_suggestions, row)
      /\ db'.seq = Bump(db.seq, "word_suggestions", s)
  BY DEF TypeOK, Database
<1>3. /\ s \in Id
      /\ \/ s = w.suggestion_id /\ w.suggestion_id # Null
         \/ s > db.seq["word_suggestions"]
  BY <1>1 DEF KeyOrNext, Id, OptionalId, Null
<1>4. db'.seq["word_suggestions"] \in Nat /\ s <= db'.seq["word_suggestions"]
      /\ db.seq["word_suggestions"] <= db'.seq["word_suggestions"]
  <2>1. db'.seq["word_suggestions"] = IF s > db.seq["word_suggestions"] THEN s
                                      ELSE db.seq["word_suggestions"]
    BY <1>2 DEF Bump, TypeOK, Database, AutoIncrement
  <2>2. s \in Nat
    BY <1>3 DEF Id
  <2>3. QED
    BY <1>1, <2>1, <2>2
<1>5. w.suggestion_id # Null => <<w.suggestion_id, w.existing_id>> \in Filed
  BY DEF Filed, Sheets
<1>6. \A r \in db.word_suggestions : r.id = s => r.existing_word_id = w.existing_id
  <2>1. ASSUME NEW r \in db.word_suggestions, r.id = s
        PROVE  r.existing_word_id = w.existing_id
    <3>1. <<r.id, r.existing_word_id>> \in Filed
      BY DEF Filed
    <3>2. r.id <= db.seq["word_suggestions"]
      BY <1>1, <3>1 DEF FiledOnce
    <3>3. s = w.suggestion_id /\ w.suggestion_id # Null
      BY <1>1, <1>3, <2>1, <3>2
    <3>4. QED
      BY <1>1, <1>5, <2>1, <3>1, <3>3 DEF FiledOnce
  <2>2. QED
    BY <2>1
<1>7. Documents(db') = IF w.existing_id = Null THEN Documents(db) \cup {Suggested(s)}
                       ELSE Documents(db)
  <2> DEFINE New(d) == {q \in d.word_suggestions : q.existing_word_id = Null}
             B(d) == {Suggested(r.id) : r \in New(d)}
             A == {Existing(x) : x \in db.words}
  <2>1. Documents(db) = A \cup B(db) /\ Documents(db') = A \cup B(db')
    BY <1>2 DEF Documents
  <2>2. \A r : r \in db'.word_suggestions <=>
                  r = row \/ (r \in db.word_suggestions /\ r.id # s)
    BY <1>2 DEF Put
  <2>3. CASE w.existing_id = Null
    <3>1. row \in New(db')
      BY <2>2, <2>3
    <3>2. \A r \in New(db') : r = row \/ r \in New(db)
      BY <2>2
    <3>3. \A r \in New(db) : r.id = s \/ r \in New(db')
      BY <2>2
    <3> HIDE DEF New
    <3>4. B(db') = B(db) \cup {Suggested(s)}
      BY <3>1, <3>2, <3>3
    <3>5. QED
      BY <2>1, <2>3, <3>4
  <2>4. CASE w.existing_id # Null
    <3>1. \A r : r \in New(db') <=> r \in New(db)
      BY <1>6, <2>2, <2>4
    <3> HIDE DEF New
    <3>2. B(db') = B(db)
      BY <3>1
    <3>3. QED
      BY <2>1, <2>4, <3>2
  <2>5. QED
    BY <2>3, <2>4
<1>8. QED
  BY <1>1, <1>3, <1>4, <1>5, <1>7 DEF Id

\* The row of a suggestion of a new word is followed by its document; that of a
\* suggested edit has none, and had none.
LEMMA InsertSuggestionIndexed ==
    ASSUME TypeOK, ThreadsKnown, Indexed, TypeOK', NEW t \in Threads, insert_suggestion(t)
    PROVE  Indexed' /\ (Uneventful(t) \/ Brings(t))
<1>1. At(t, "insert_suggestion") /\ "insert_suggestion" \in SentOps
  BY DEF insert_suggestion, SentOps
<1>2. PICK c : c = Current(t)
  OBVIOUS
<1>3. PICK s : s = KeyOrNext(db, "word_suggestions", c.word.suggestion_id)
  OBVIOUS
<1>4. /\ c \in Statements(todo[t]) /\ c.op = "insert_suggestion" /\ Foresees(t, c)
      /\ c.word \in SentBy(t) /\ c.word \in WordSubmission
  <2>1. c \in Statements(todo[t]) /\ c.op = "insert_suggestion" /\ c \in SubmitStatement
    BY <1>1, <1>2, AtSubmit, ProgramAt
  <2>2. c.word \in WordSubmission
    BY <2>1 DEF SubmitStatement
  <2>3. QED
    BY <1>1, <2>1, <2>2 DEF Indexed, SentBy
<1> DEFINE old == {r \in db.word_suggestions : r.id = s}
           user == IF old = {} THEN c.word.user ELSE RowOf(old, s).user
           row == [id |-> s, existing_word_id |-> c.word.existing_id, user |-> user]
           p == AfterInsert(c, s)
           about == {Suggested(s)}
<1>5. CASE ~c.changed
  <2> DEFINE found == TRUE
             q == AfterInsert(c, c.word.suggestion_id)
             S == Statements(q)
             none == {}
  <2>1. Read(t, found, q, none)
    BY <1>2, <1>5 DEF insert_suggestion
  <2>2. q \in Seq(S) /\ \A x \in S : x.op \notin NoticedOps
    <3>1. c.word.existing_id = Null => c.found
      BY <1>4, <1>5 DEF Foresees
    <3>2. QED
      BY <1>5, <3>1, AfterInsertMoves DEF NoticedOps
  <2>3. found
    OBVIOUS
  <2>4. "insert_suggestion" \notin DocumentOps
    BY DEF DocumentOps
  <2> HIDE DEF found, q, S, none
  <2>5. QED
    BY <1>1, <2>1, <2>2, <2>3, <2>4, OthersSupported, ReadIndexed DEF KeepsInLine
<1>6. CASE Refuse(t)
  BY <1>1, <1>6, RefuseIndexed DEF KeepsInLine
<1>7. CASE /\ c.changed
           /\ db' = [db EXCEPT !.word_suggestions = Put(@, row),
                               !.seq = Bump(@, "word_suggestions", s)]
           /\ Continue(t, p, about)
           /\ broken' = IF c.word.suggestion_id # Null /\ old = {}
                        THEN broken \cup {Suggested(s)} ELSE broken
           /\ UNCHANGED <<index, forms>>
           /\ Observe
  <2> DEFINE S == Statements(p)
             pair == <<s, c.word.existing_id>>
  <2>1. row.id = s /\ row.existing_word_id = c.word.existing_id
    OBVIOUS
  <2> HIDE DEF row
  <2>2. /\ s \in Id
        /\ Documents(db') = IF c.word.existing_id = Null THEN Documents(db) \cup {Suggested(s)}
                            ELSE Documents(db)
        /\ db.seq["word_suggestions"] <= db'.seq["word_suggestions"]
        /\ pair \in Nat \X Nat
        /\ \/ pair \in Filed
           \/ s > db.seq["word_suggestions"] /\ s <= db'.seq["word_suggestions"]
    <3>1. db' = [db EXCEPT !.word_suggestions = Put(@, row),
                           !.seq = Bump(@, "word_suggestions", s)]
      BY <1>7
    <3>2. QED
      BY <1>3, <1>4, <2>1, <3>1, SuggestionPut
  <2>3. db'.word_suggestions = Put(db.word_suggestions, row)
    BY <1>7 DEF TypeOK, Database
  <2>4. /\ p \in Seq(S) /\ S # {}
        /\ \A x \in S : /\ x.op \notin SentOps \cup FetchedOps
                        /\ x.op \in DocumentOps => /\ c.word.existing_id = Null
                                                   /\ x.op = "index_put" /\ x.doc = Suggested(s)
        /\ c.word.existing_id = Null => Puts(S, Suggested(s))
    <3>1. s # Null
      BY <2>2 DEF Id
    <3>2. QED
      BY <1>7, <3>1, AfterInsertMoves
  <2>5. PICK x : x \in Statements(p)
    BY <2>4
  <2>6. broken \subseteq broken' /\ UNCHANGED <<index, forms>>
    BY <1>7
  <2>7. Continue(t, p, about) /\ Observe
    BY <1>7
  <2> HIDE DEF p, about
  <2>8. /\ Acts(t) /\ Statements(todo'[t]) = S /\ claims'[t] = claims[t] \cup about
        /\ \A doc : Silent(Statements(todo[t]), doc)
    <3> HIDE DEF S
    <3>1. QED
      BY <1>1, <2>4, <2>5, <2>6, <2>7, BeginsAt DEF S
  <2> HIDE DEF S
  <2>9. Suggested(s) \in claims'[t]
    BY <2>8 DEF about
  <2>10. \A doc : /\ ~Takes(S, doc) /\ ~Removes(S, doc)
                  /\ Puts(S, doc) <=> c.word.existing_id = Null /\ doc = Suggested(s)
    BY <2>4 DEF Puts, Takes, Removes, DocumentOps
  <2>11. \A z \in Statements(todo'[t]) : Foresees(t, z)'
    BY <2>4, <2>8, <2>9, <2>10 DEF Foresees, SentOps, DocumentOps
  <2>12. \A doc \in WordOrSuggestionId :
             \/ /\ doc \in claims'[t]
                /\ doc \in Excused' \/ Settles(Statements(todo[t]), doc)'
             \/ Unmoved(doc) /\ Silent(Statements(todo'[t]), doc)
    <3>1. CASE c.word.existing_id = Null
      <4>1. ASSUME NEW doc, doc # Suggested(s)
            PROVE  Unmoved(doc) /\ Silent(Statements(todo'[t]), doc)
        BY <2>2, <2>6, <2>8, <2>10, <3>1, <4>1 DEF Unmoved, Silent
      <4>2. Settles(Statements(todo[t]), Suggested(s))'
        BY <2>2, <2>8, <2>10, <3>1 DEF Settles
      <4>3. QED
        BY <2>9, <4>1, <4>2
    <3>2. CASE c.word.existing_id # Null
      BY <2>2, <2>6, <2>8, <2>10, <3>2 DEF Unmoved, Silent
    <3>3. QED
      BY <3>1, <3>2
  <2>13. FilingLawful
    <3>1. Filed' \subseteq Filed \cup {pair}
      <4>1. SentBy(t)' = {}
        BY <2>4, <2>8 DEF SentBy
      <4>2. \A u \in Threads \ {t} : SentBy(u)' = SentBy(u)
        BY <2>8 DEF Acts, SentBy
      <4>3. Sheets' \subseteq Sheets
        BY <2>6, <4>1, <4>2 DEF Sheets
      <4>4. \A r \in db'.word_suggestions : r = row \/ r \in db.word_suggestions
        BY <2>3 DEF Put
      <4>5. QED
        BY <2>1, <4>3, <4>4 DEF Filed
    <3>2. pair[1] = s
      OBVIOUS
    <3> HIDE DEF pair
    <3>3. QED
      BY <2>2, <3>1, <3>2 DEF FilingLawful
  <2>14. Brings(t)
    BY <2>2, <2>4, <2>8 DEF Brings
  <2>15. QED
    BY <2>8, <2>11, <2>12, <2>13, <2>14, Starts
<1>8. QED
  BY <1>2, <1>3, <1>5, <1>6, <1>7 DEF insert_suggestion

-----------------------------------------------------------------------------
(* Every step keeps the index in line *)

\* A page that is shown says of a suggestion what its row says.
LEMMA PagesIndexed ==
    ASSUME TypeOK, Indexed, TypeOK', edit_word_page \/ edit_suggestion_page
    PROVE  Indexed'
<1>1. PICK form : /\ form.suggestion_id = Null \/ <<form.suggestion_id, form.existing_id>> \in Filed
                  /\ forms' = forms \cup {form}
                  /\ UNCHANGED <<db, index, todo, claims, broken>>
                  /\ Observe
  <2>1. CASE edit_word_page
    <3>1. PICK w \in 1 .. db.seq["words"] : Show("edit_word_page", FormOfWord(db, w))
      BY <2>1 DEF edit_word_page
    <3>2. FormOfWord(db, w).suggestion_id = Null
      BY DEF FormOfWord
    <3>3. QED
      BY <3>1, <3>2 DEF Show
  <2>2. CASE edit_suggestion_page
    <3>1. PICK row \in db.word_suggestions :
              Show("edit_suggestion_page", FormOfSuggestion(db, row))
      BY <2>2 DEF edit_suggestion_page
    <3> DEFINE form == FormOfSuggestion(db, row)
    <3>2. form.suggestion_id = row.id /\ form.existing_id = row.existing_word_id
      BY DEF FormOfSuggestion
    <3>3. <<row.id, row.existing_word_id>> \in Filed
      BY DEF Filed
    <3> HIDE DEF form
    <3>4. <<form.suggestion_id, form.existing_id>> \in Filed
      BY <3>2, <3>3
    <3>5. Show("edit_suggestion_page", form)
      BY <3>1 DEF form
    <3>6. QED
      BY <3>4, <3>5 DEF Show
  <2>3. QED
    BY <2>1, <2>2
<1>2. FiledOnce'
  <2>1. \A u \in Threads : SentBy(u)' = SentBy(u)
    BY <1>1 DEF SentBy
  <2>2. \A w \in Sheets' : w \in Sheets \/ w = form
    BY <1>1, <2>1 DEF Sheets
  <2>3. db.seq["word_suggestions"] <= db'.seq["word_suggestions"]
    BY <1>1 DEF TypeOK, Database, AutoIncrement
  <2>4. FilingLawful
    BY <1>1, <2>2, <2>3, FilesKnown
  <2>5. QED
    BY <2>4, FiledStaysOnce DEF Indexed
<1>3. overlapped \subseteq overlapped' /\ Excused \subseteq Excused' /\ InProgress' = InProgress
  BY <1>1 DEF Observe, Excused, InProgress
<1>4. OverlapsKnown'
  BY <1>1, <1>3 DEF Indexed, OverlapsKnown
<1>5. \A t \in Threads : \A s \in Statements(todo'[t]) : Foresees(t, s)'
  BY <1>1 DEF Indexed, Foresees
<1>6. \A t \in Threads : \A doc \in claims'[t] \cap WordOrSuggestionId :
          doc \in Excused' \/ Settles(Statements(todo[t]), doc)'
  BY <1>1, <1>3 DEF Indexed, Settles
<1>7. \A doc \in WordOrSuggestionId : doc \in Excused' \cup InProgress' \/ Matches(doc)'
  BY <1>1, <1>3 DEF Indexed, Matches
<1>8. QED
  BY <1>2, <1>4, <1>5, <1>6, <1>7 DEF Indexed

\* A crash excuses what the requests were going to settle.
LEMMA CrashIndexed ==
    ASSUME TypeOK, Indexed, TypeOK', Crash
    PROVE  Indexed'
<1>1. /\ \A t \in Threads : todo'[t] = <<>> /\ claims'[t] = {}
      /\ broken' = broken \cup InProgress
      /\ UNCHANGED <<db, index, forms>> /\ Observe
  BY DEF Crash, InProgress
<1>2. \A t \in Threads : Statements(todo'[t]) = {}
  BY <1>1 DEF Statements
<1>3. Excused \cup InProgress \subseteq Excused'
  BY <1>1 DEF Observe, Excused
<1>4. FiledOnce'
  <2>1. \A u \in Threads : SentBy(u)' = {}
    BY <1>2 DEF SentBy
  <2>2. Sheets' \subseteq Sheets
    BY <1>1, <2>1 DEF Sheets
  <2>3. db.seq["word_suggestions"] <= db'.seq["word_suggestions"]
    BY <1>1 DEF TypeOK, Database, AutoIncrement
  <2>4. FilingLawful
    BY <1>1, <2>2, <2>3, FilesKnown
  <2>5. QED
    BY <2>4, FiledStaysOnce DEF Indexed
<1>5. OverlapsKnown'
  BY <1>1 DEF OverlapsKnown
<1>6. \A doc \in WordOrSuggestionId : doc \in Excused' \cup InProgress' \/ Matches(doc)'
  BY <1>1, <1>3 DEF Indexed, Matches
<1>7. QED
  BY <1>1, <1>2, <1>4, <1>5, <1>6 DEF Indexed

\* So does a step in which nothing happens.
LEMMA StutterIndexed ==
    ASSUME Indexed, UNCHANGED vars
    PROVE  Indexed'
<1>1. UNCHANGED <<db, index, todo, forms, claims, broken, overlapped>>
  BY DEF vars
<1>2. OverlapsKnown'
  BY <1>1 DEF Indexed, OverlapsKnown
<1>3. FiledOnce'
  <2>1. \A u \in Threads : SentBy(u)' = SentBy(u)
    BY <1>1 DEF SentBy
  <2>2. Sheets' = Sheets
    BY <1>1, <2>1 DEF Sheets
  <2>3. Filed' = Filed
    BY <1>1, <2>2 DEF Filed
  <2>4. QED
    BY <1>1, <2>3 DEF Indexed, FiledOnce
<1>4. \A t \in Threads : \A s \in Statements(todo'[t]) : Foresees(t, s)'
  BY <1>1 DEF Indexed, Foresees
<1>5. Excused' = Excused /\ InProgress' = InProgress
  BY <1>1 DEF Excused, InProgress
<1>6. \A t \in Threads : \A doc \in claims'[t] \cap WordOrSuggestionId :
          doc \in Excused' \/ Settles(Statements(todo[t]), doc)'
  BY <1>1, <1>5 DEF Indexed, Settles
<1>7. \A doc \in WordOrSuggestionId : doc \in Excused' \cup InProgress' \/ Matches(doc)'
  BY <1>1, <1>5 DEF Indexed, Matches
<1>8. QED
  BY <1>2, <1>3, <1>4, <1>6, <1>7 DEF Indexed

\* Every statement of a request does.
LEMMA ServeIndexed ==
    ASSUME IInv, Indexed, TypeOK', NEW t \in Threads, Serve(t)
    PROVE  /\ Indexed'
           /\ \/ Uneventful(t)
              \/ Brings(t) /\ (accept_just_word(t) \/ insert_suggestion(t))
<1>1. TypeOK /\ References /\ ThreadsKnown
  BY DEF IInv, Decided
<1>2. CASE \/ read_original(t) \/ insert_suggestion(t)
           \/ process_linked_words(t) \/ write_link(t)
           \/ process_examples(t) \/ write_example(t)
           \/ process_datasets(t) \/ write_dataset(t)
           \/ insert_word_deletion(t)
           \/ ExecAddUserAttribution(t) \/ ExecDeleteRow(t) \/ ExecIndex(t)
  BY <1>1, <1>2, ReadOriginalIndexed, InsertSuggestionIndexed, ProcessIndexed,
     WriteLinkIndexed, WriteExampleIndexed, WriteDatasetIndexed, InsertWordDeletionIndexed,
     AttributionIndexed, DeleteRowIndexed, ExecIndexed DEF KeepsInLine
<1>3. CASE \/ fetch_alone(t) \/ fetch_examples(t) \/ fetch_linked_words(t) \/ fetch_datasets(t)
           \/ accept_just_word(t) \/ accept_example(t) \/ accept_dataset(t)
           \/ accept_link_of_word(t) \/ delete_word_suggestion(t)
           \/ fetch_example(t) \/ fetch_link(t) \/ accept_link(t) \/ fetch_dataset(t)
           \/ fetch_word_deletion(t) \/ delete_word(t)
           \/ fetch_example_deletion(t) \/ delete_example(t)
           \/ fetch_link_deletion(t) \/ delete_link(t)
  BY <1>1, <1>3, FetchIndexed, AcceptJustWordIndexed, AcceptExampleIndexed,
     AcceptDatasetIndexed, AcceptLinkIndexed, FetchWordDeletionIndexed, DeleteIndexed
     DEF KeepsInLine
<1>4. QED
  BY <1>2, <1>3 DEF Serve

\* And so does every step of the server.
LEMMA NextIndexed ==
    ASSUME IInv, Indexed, TypeOK', [Next]_vars
    PROVE  Indexed'
<1>1. TypeOK /\ ThreadsKnown
  BY DEF IInv, Decided
<1>2. ASSUME NEW t \in Threads, abandon_deletion(t)
      PROVE  Indexed'
  BY <1>1, <1>2, PanicIndexed DEF abandon_deletion, KeepsInLine
<1>3. QED
  BY <1>1, <1>2, RequestIndexed, ServeIndexed, PagesIndexed, CrashIndexed, StutterIndexed
     DEF Next, KeepsInLine

\* The index the server starts with is that of its database.
LEMMA InitialIndexed ==
    ASSUME Init
    PROVE  Indexed
<1>1. /\ Consistent(db) /\ index = Documents(db) /\ forms = {}
      /\ \A t \in Threads : todo[t] = <<>> /\ claims[t] = {}
  BY DbsAssumption DEF Init
<1>2. \A t \in Threads : Statements(todo[t]) = {}
  BY <1>1 DEF Statements
<1>3. FiledOnce
  <2>1. Sheets = {}
    BY <1>1, <1>2 DEF Sheets, SentBy
  <2>2. Filed = {<<r.id, r.existing_word_id>> : r \in db.word_suggestions}
    BY <2>1 DEF Filed
  <2>3. Keyed(db.word_suggestions)
    BY <1>1 DEF Consistent, KeysUnique
  <2>4. \A r \in db.word_suggestions : r.id <= db.seq["word_suggestions"]
    BY <1>1 DEF Consistent, KeysAllocated, SequencePassed, Ids
  <2>5. QED
    BY <2>2, <2>3, <2>4 DEF FiledOnce, Keyed
<1>4. QED
  BY <1>1, <1>2, <1>3 DEF Indexed, OverlapsKnown, Matches

\* What no request is busy with has a document when it has a row, and what one is
\* busy with will have, when the statements left of it are done.
THEOREM IndexInLine == Spec => [](IInv /\ Indexed)
<1>1. Init => IInv /\ Indexed
  BY InitialType, InitialDecided, InitialIndexed DEF IInv
<1>2. IInv /\ Indexed /\ [Next]_vars => IInv' /\ Indexed'
  <2>1. IInv /\ [Next]_vars => TypeOK' /\ References'
    BY StepType, StepReferences DEF IInv
  <2>2. QED
    BY <2>1, NextDecided, NextIndexed DEF IInv
<1>3. QED
  BY <1>1, <1>2, PTL DEF Spec

\* The search index holds the words of the dictionary and the suggestions of new
\* words, and nothing else, but for what a request is busy with or was cut short on.
THEOREM IndexHoldsWords == Spec => []IndexMatchesDb
<1>1. IInv /\ Indexed => IndexMatchesDb
  <2>1. ASSUME IInv
        PROVE  index \cup Documents(db) \subseteq WordOrSuggestionId
    <3>1. /\ index \subseteq WordOrSuggestionId /\ db.words \subseteq Id
          /\ \A r \in db.word_suggestions : r.id \in Id
      BY <2>1 DEF IInv, TypeOK, Database, WordSuggestionRow
    <3>2. QED
      BY <3>1 DEF Documents, Existing, Suggested, WordOrSuggestionId
  <2>2. QED
    BY <2>1 DEF Indexed, Matches, IndexMatchesDb
<1>2. QED
  BY <1>1, IndexInLine, PTL

-----------------------------------------------------------------------------
(* The parts of a suggestion: whoever brings one is about the suggestion, and *)
(* whoever accepts the suggestion has each of them ahead.                     *)

PartTables == {"example_suggestions", "linked_word_suggestions",
               "dataset_attribution_suggestions"}
AcceptOp(table) ==
    CASE table = "example_suggestions" -> "accept_examples"
      [] table = "linked_word_suggestions" -> "accept_links"
      [] OTHER -> "accept_datasets"
PartIds(d, table, s) ==
    Ids(CASE table = "example_suggestions" -> ExampleSuggestionsOf(d, s)
          [] table = "linked_word_suggestions" -> LinkSuggestionsOf(d, s)
          [] OTHER -> DatasetSuggestionsOf(d, s))

\* A statement of S accepts the part or deletes it.
Ahead(S, table, id) ==
    \E x \in S : \/ x.op = AcceptOp(table) /\ id \in Ids(x.rows)
                 \/ x.op = "delete_row" /\ x.table = table /\ x.id = id

\* Thread t goes on to delete suggestion s, once it has made a word of it or not.
WillDrop(t, s) ==
    \E x \in Statements(todo[t]) : x.op = "delete_word_suggestion" /\ x.id = s
WillAccept(t, s) == WillDrop(t, s) /\ \E x \in Statements(todo[t]) : x.op = "index_put"

Covered(t, s) ==
    \/ Suggested(s) \in Excused
    \/ \A table \in PartTables : \A id \in PartIds(db, table, s) :
          Ahead(Statements(todo[t]), table, id)

\* The DELETE of a suggestion is last, but for the document of its word.
DropsLast(p) ==
    \A i \in 1 .. Len(p) :
        p[i].op = "delete_word_suggestion" =>
            i = Len(p) \/ (i + 1 = Len(p) /\ p[i + 1].op = "index_put")

\* The links a thread accepts are those of the suggestion it deletes.
DropsItsOwn(t) ==
    \A x, y \in Statements(todo[t]) :
        x.op = "accept_links" /\ y.op = "delete_word_suggestion" => y.id = x.suggestion

\* What a fetch has read is all there is.
HasAll(s, table, rows) ==
    Suggested(s) \in Excused \/ PartIds(db, table, s) \subseteq Ids(rows)
Complete(s) ==
    /\ s.op \in {"fetch_linked_words", "fetch_datasets", "accept_just_word"} =>
          HasAll(s.row.id, "example_suggestions", s.examples)
    /\ s.op \in {"fetch_datasets", "accept_just_word"} =>
          HasAll(s.row.id, "linked_word_suggestions", s.links)
    /\ s.op = "accept_just_word" =>
          HasAll(s.row.id, "dataset_attribution_suggestions", s.datasets)

\* A link is between two words or suggestions, and a thread is about those it
\* fetched a link of.
EndsApart(ends) == ends.first[1] = "suggested" => ends.first # ends.second
EndsKnown(t, links) ==
    \A l \in links : {l.ends.first, l.ends.second} \subseteq claims[t] /\ EndsApart(l.ends)
LinkApart(r) == r.suggested_word_id = Null \/ r.suggested_word_id # r.second_suggested_word_id
NamedBy(r) == {Suggested(s) : s \in {r.suggested_word_id, r.second_suggested_word_id} \ {Null}}

\* A form of a new word does not say that the word is linked to itself.
SuggestionSeq == db.seq["word_suggestions"]
LinksOthers(w) ==
    w.existing_id = Null =>
        \A e \in w.links :
           /\ e.other # Suggested(w.suggestion_id)
           /\ w.suggestion_id = Null /\ e.other[1] = "suggested" => e.other[2] <= SuggestionSeq

\* A thread brings parts of suggestions it is about, and none of links of one
\* with itself.
ProcessOps == {"process_linked_words", "process_examples", "process_datasets"}
Upserts(s) == {x.row : x \in {y \in s.rows : y.do = "upsert"}}
Answerable(t, s) ==
    /\ s.op \in SentOps \cup ProcessOps => AboutSubmission(s.word) \subseteq claims[t]
    /\ s.op \in ProcessOps =>
          /\ s.new # Null => Suggested(s.new) \in claims[t]
          /\ s.word.existing_id = Null =>
                /\ s.word.suggestion_id \in {Null, s.new}
                /\ \A e \in s.word.links : e.other # Suggested(s.new)
    /\ s.op = "write_link" =>
          \A r \in Upserts(s) : LinkApart(r) /\ NamedBy(r) \subseteq claims[t]
    /\ s.op = "write_example" =>
          \A r \in Upserts(s) : r.suggested_word_id # Null =>
                                    Suggested(r.suggested_word_id) \in claims[t]
    /\ s.op = "write_dataset" => (s.new # Null => Suggested(s.new) \in claims[t])
    /\ s.op = "index_put" /\ s.doc[1] = "suggested" => s.doc[2] <= SuggestionSeq
    /\ s.op \in {"fetch_datasets", "accept_just_word"} => EndsKnown(t, s.links)
    /\ s.op = "accept_links" => EndsKnown(t, s.rows)

Orderly(t) ==
    /\ DropsLast(todo[t])
    /\ DropsItsOwn(t)
    /\ \A s \in Statements(todo[t]) : Answerable(t, s) /\ Complete(s)
    /\ \A s \in Id : WillAccept(t, s) => Covered(t, s)

Held ==
    /\ LinksApart(db)
    /\ \A doc \in index : doc[1] = "suggested" => doc[2] <= SuggestionSeq
    /\ \A w \in Sheets : LinksOthers(w)
    /\ \A t \in Threads : Orderly(t)

\* What a step of thread t keeps of it: in particular a part that comes is of a
\* suggestion the request is about.
NoNewParts(d, s) == \A table \in PartTables : PartIds(d, table, s) \subseteq PartIds(db, table, s)
Keeps(t) ==
    /\ SuggestionSeq <= SuggestionSeq'
    /\ \A r \in db'.linked_word_suggestions : r \in db.linked_word_suggestions \/ LinkApart(r)
    /\ \A doc \in index' \ index : doc[1] = "suggested" => doc[2] <= SuggestionSeq'
    /\ \A w \in Sheets' : w \in Sheets \/ LinksOthers(w)'
    /\ \A s \in Id : Suggested(s) \in claims[t] \cup claims'[t] \/ NoNewParts(db', s)

\* What the statement a thread was at was to do with a part, it did or others will.
PartsStayAhead(t, d, S) ==
    \A s \in Id : WillAccept(t, s) =>
        /\ NoNewParts(d, s)
        /\ \A table \in PartTables : \A id \in PartIds(d, table, s) :
              Ahead({Current(t)}, table, id) => Ahead(S, table, id)

-----------------------------------------------------------------------------
\* Numbers of suggestions.
LEMMA SuggestionSeqType ==
    ASSUME TypeOK
    PROVE  SuggestionSeq \in Nat
BY DEF SuggestionSeq, TypeOK, Database, AutoIncrement

\* The links of a form are to words and suggestions.
LEMMA SheetsType ==
    ASSUME TypeOK, NEW w \in Sheets, NEW e \in w.links
    PROVE  e \in LinkEntry
<1>1. CASE w \in forms
  BY <1>1 DEF TypeOK, Form
<1>2. CASE w \notin forms
  <2>1. PICK t \in Threads : \E s \in Statements(todo[t]) : s.op \in SentOps /\ w = s.word
    BY <1>2 DEF Sheets, SentBy
  <2> PICK s \in Statements(todo[t]) : s.op \in SentOps /\ w = s.word
    BY <2>1
  <2>2. s \in Statement
    BY StatementsOf DEF TypeOK
  <2>3. w \in WordSubmission
    BY <2>2 DEF SentOps, Statement, FetchedStatement, ByIdStatement, AcceptStatement,
                      SharedStatement, DeletionStatement, SubmitStatement
  <2>4. QED
    BY <2>3 DEF WordSubmission
<1>3. QED
  BY <1>1, <1>2

\* What a thread answers for stays so while it is about no less.
LEMMA AnswerableStays ==
    ASSUME TypeOK, TypeOK', NEW t \in Threads, NEW s \in Statement, Answerable(t, s),
           claims[t] \subseteq claims'[t], SuggestionSeq <= SuggestionSeq'
    PROVE  Answerable(t, s)'
<1>1. s.op = "index_put" /\ s.doc[1] = "suggested" => s.doc[2] <= SuggestionSeq'
  <2>1. s.op = "index_put" => s.doc[2] \in Nat
    BY DEF Statement, FetchedStatement, ByIdStatement, AcceptStatement, SharedStatement,
           DeletionStatement, SubmitStatement, WordOrSuggestionId, Id
  <2>2. SuggestionSeq \in Nat /\ SuggestionSeq' \in Nat
    BY DEF SuggestionSeq, TypeOK, Database, AutoIncrement
  <2>3. QED
    BY <2>1, <2>2 DEF Answerable
<1>2. \A links : EndsKnown(t, links) => EndsKnown(t, links)'
  BY DEF EndsKnown
<1>3. QED
  BY <1>1, <1>2 DEF Answerable

\* So does what a form says, while no number is taken back.
LEMMA LinksStayOthers ==
    ASSUME TypeOK, TypeOK', SuggestionSeq <= SuggestionSeq', NEW w \in Sheets, LinksOthers(w)
    PROVE  LinksOthers(w)'
<1>1. SuggestionSeq \in Nat /\ SuggestionSeq' \in Nat
  BY DEF SuggestionSeq, TypeOK, Database, AutoIncrement
<1>2. \A e \in w.links : e.other[2] \in Nat
  BY SheetsType DEF LinkEntry, WordOrSuggestionId, Id
<1>3. QED
  BY <1>1, <1>2 DEF LinksOthers

\* No step about one request disturbs what the others have ahead.
LEMMA StepHeld ==
    ASSUME TypeOK, ThreadsKnown, Indexed, Held, TypeOK', NEW t \in Threads,
           Acts(t), Keeps(t), Orderly(t)'
    PROVE  Held'
<1>1. Excused \subseteq Excused'
  BY OverlapsExcused
<1>2. ASSUME NEW u \in Threads \ {t}, NEW s \in Id, Suggested(s) \in claims[u]
      PROVE  Suggested(s) \in Excused' \/ NoNewParts(db', s)
  <2>1. Suggested(s) \in claims[t] => Suggested(s) \in Excused'
    BY <1>1, <1>2 DEF Indexed, OverlapsKnown, Excused
  <2>2. Suggested(s) \in claims'[t] => Suggested(s) \in Excused'
    BY <1>2, OverlapsExcused
  <2>3. QED
    BY <2>1, <2>2 DEF Keeps
<1>3. ASSUME NEW u \in Threads \ {t}
      PROVE  Orderly(u)'
  <2>1. Orderly(u) /\ todo'[u] = todo[u] /\ claims'[u] = claims[u]
    BY DEF Held, Acts
  <2>2. Statements(todo'[u]) = Statements(todo[u])
    BY <2>1
  <2>3. DropsLast(todo[u])' /\ DropsItsOwn(u)'
    BY <2>1, <2>2 DEF Orderly, DropsLast, DropsItsOwn
  <2>4. ASSUME NEW s \in Statements(todo[u])
        PROVE  Answerable(u, s)' /\ Complete(s)'
    <3>1. s \in Statement /\ Sure(u, s)
      BY StatementsOf DEF TypeOK, ThreadsKnown
    <3>2. Answerable(u, s)'
      BY <2>1, <3>1, AnswerableStays DEF Orderly, Keeps
    <3>3. CASE s.op \in FetchedOps
      <4>1. s.row.id \in Id
        BY <3>1, <3>3 DEF FetchedOps, Statement, FetchedStatement, ByIdStatement, AcceptStatement,
                    SharedStatement, DeletionStatement, SubmitStatement, WordSuggestionRow
      <4>2. Suggested(s.row.id) \in Excused' \/ NoNewParts(db', s.row.id)
        BY <1>2, <3>1, <3>3, <4>1 DEF Sure, FetchedKnown
      <4>3. \A table \in PartTables : \A rows :
                HasAll(s.row.id, table, rows) => HasAll(s.row.id, table, rows)'
        BY <1>1, <4>2 DEF HasAll, NoNewParts
      <4>4. QED
        BY <2>1, <3>2, <4>3 DEF Orderly, Complete, PartTables
    <3>4. CASE s.op \notin FetchedOps
      BY <3>2, <3>4 DEF Complete, FetchedOps
    <3>5. QED
      BY <3>3, <3>4
  <2>5. ASSUME NEW s \in Id, WillAccept(u, s)'
        PROVE  Covered(u, s)'
    <3>1. WillAccept(u, s) /\ Covered(u, s)
      BY <2>1, <2>2, <2>5 DEF WillAccept, WillDrop, Orderly
    <3>2. Suggested(s) \in claims[u]
      BY <3>1 DEF WillAccept, WillDrop, Indexed, Foresees
    <3>3. QED
      BY <1>1, <1>2, <2>1, <3>1, <3>2 DEF Covered, NoNewParts
  <2>6. QED
    BY <2>2, <2>3, <2>4, <2>5 DEF Orderly
<1>4. \A u \in Threads : Orderly(u)'
  BY <1>3
<1>5. LinksApart(db')
  BY DEF Held, Keeps, LinksApart, LinkApart
<1>6. \A doc \in index' : doc[1] = "suggested" => doc[2] <= SuggestionSeq'
  <2>1. SuggestionSeq \in Nat /\ SuggestionSeq' \in Nat
    BY DEF SuggestionSeq, TypeOK, Database, AutoIncrement
  <2>2. \A doc \in index : doc[2] \in Nat
    BY DEF TypeOK, WordOrSuggestionId, Id
  <2>3. QED
    BY <2>1, <2>2 DEF Held, Keeps
<1>7. \A w \in Sheets' : LinksOthers(w)'
  BY LinksStayOthers DEF Held, Keeps
<1>8. QED
  BY <1>4, <1>5, <1>6, <1>7 DEF Held

\* The forms there are are those that were, and what the thread has sent.
LEMMA SheetsOf ==
    ASSUME NEW t \in Threads, \A u \in Threads \ {t} : todo'[u] = todo[u], forms' = forms
    PROVE  \A w \in Sheets' : w \in Sheets \/ w \in SentBy(t)'
<1>1. \A u \in Threads \ {t} : SentBy(u)' = SentBy(u)
  BY DEF SentBy
<1>2. QED
  BY <1>1 DEF Sheets

\* A thread that has stopped has nothing ahead.
LEMMA StopHeld ==
    ASSUME TypeOK, ThreadsKnown, Indexed, Held, TypeOK', NEW t \in Threads,
           Stop(t), broken \subseteq broken'
    PROVE  Held'
<1>1. /\ UNCHANGED <<db, index, forms>> /\ Acts(t) /\ todo'[t] = <<>> /\ claims'[t] = {}
  BY DEF Stop, Acts, TypeOK
<1>2. Statements(todo'[t]) = {} /\ SentBy(t)' = {}
  <2>1. Statements(todo'[t]) = {}
    BY <1>1 DEF Statements
  <2>2. QED
    BY <2>1 DEF SentBy
<1>3. Orderly(t)'
  BY <1>1, <1>2 DEF Orderly, DropsLast, DropsItsOwn, WillAccept, WillDrop
<1>4. \A w \in Sheets' : w \in Sheets
  BY <1>1, <1>2, SheetsOf DEF Acts
<1>5. Keeps(t)
  BY <1>1, <1>4 DEF Keeps, NoNewParts, SuggestionSeq, TypeOK, Database, AutoIncrement
<1>6. QED
  BY <1>1, <1>3, <1>5, StepHeld

\* Only the acceptance of a word has the DELETE of its suggestion ahead of its
\* document.
LEMMA NotAccepting ==
    ASSUME TypeOK, ThreadsKnown, NEW t \in Threads, NEW op, At(t, op),
           op \notin AcceptanceOps
    PROVE  \A s : ~WillDrop(t, s)
<1>1. /\ Statements(todo[t]) = {Current(t)} \cup Statements(Tail(todo[t]))
      /\ Current(t).op = op /\ todo[t] \in Seq(Statement)
  BY ProgramAt
<1>2. \A x \in Statements(Tail(todo[t])) : x.op # "delete_word_suggestion"
  <2>1. Statements(<<>>) = {}
    BY DEF Statements
  <2>2. op \in FirstOps \cup DeleteOps \cup (SubmissionOps \ SharedOps)
    <3>1. Current(t) \in Statements(todo[t])
      BY <1>1
    <3>2. Shaped(todo[t]) /\ todo[t][1] = Current(t)
      BY ProgramAt DEF ThreadsKnown, Current
    <3>3. QED
      BY <1>1, <3>1, <3>2 DEF Shaped, Issues, AcceptanceOps, SubmissionOps
  <2>3. QED
    BY <1>1, <2>1, <2>2, ShapeAt DEF Issues, SharedOps, SubmissionOps
<1>3. QED
  BY <1>1, <1>2 DEF WillDrop, AcceptanceOps

\* What comes before the rest of a program leaves the DELETE where it was.
LEMMA StillDropsLast ==
    ASSUME NEW P, NEW p \in Seq(P), p # <<>>, NEW Q, NEW q \in Seq(Q), DropsLast(p),
           \A x \in Q : x.op # "delete_word_suggestion"
    PROVE  DropsLast(q \o Tail(p))
<1> DEFINE r == Tail(p)
           n == Len(q)
           m == Len(p)
<1>1. /\ r \in Seq(P) /\ m \in Nat /\ n \in Nat /\ m >= 1 /\ Len(r) = m - 1
      /\ \A j \in 1 .. Len(r) : r[j] = p[j + 1]
  OBVIOUS
<1> HIDE DEF r
<1>2. /\ Len(q \o r) = n + (m - 1)
      /\ \A i \in 1 .. n : (q \o r)[i] = q[i] /\ q[i] \in Q
      /\ \A i \in 1 .. Len(q \o r) : i > n => (q \o r)[i] = r[i - n]
  <2>1. q \in Seq(P \cup Q) /\ r \in Seq(P \cup Q)
    BY <1>1
  <2>2. Len(q \o r) = Len(q) + Len(r)
    BY <2>1
  <2>3. \A i \in 1 .. Len(q) : (q \o r)[i] = q[i]
    BY <2>1
  <2>4. \A i \in 1 .. Len(q) + Len(r) : i > Len(q) => (q \o r)[i] = r[i - Len(q)]
    BY <2>1
  <2>5. \A i \in 1 .. n : q[i] \in Q
    OBVIOUS
  <2>6. QED
    BY <1>1, <2>2, <2>3, <2>4, <2>5
<1> HIDE DEF n, m
<1>3. ASSUME NEW i \in 1 .. Len(q \o r), (q \o r)[i].op = "delete_word_suggestion"
      PROVE  \/ i = Len(q \o r)
             \/ i + 1 = Len(q \o r) /\ (q \o r)[i + 1].op = "index_put"
  <2>1. i > n
    BY <1>1, <1>2, <1>3
  <2> DEFINE j == i - n
  <2>2. j \in 1 .. Len(r) /\ (q \o r)[i] = r[j] /\ r[j] = p[j + 1] /\ j + 1 \in 1 .. m
    BY <1>1, <1>2, <2>1
  <2>3. j + 1 = m \/ ((j + 1) + 1 = m /\ p[(j + 1) + 1].op = "index_put")
    BY <1>3, <2>2 DEF DropsLast, m
  <2>4. CASE j + 1 = m
    BY <1>1, <1>2, <2>4
  <2>5. CASE (j + 1) + 1 = m /\ p[(j + 1) + 1].op = "index_put"
    <3>1. /\ i + 1 = Len(q \o r) /\ i + 1 \in 1 .. Len(q \o r) /\ i + 1 > n
          /\ (i + 1) - n = j + 1 /\ j + 1 \in 1 .. Len(r)
      BY <1>1, <1>2, <2>1, <2>5
    <3>2. (q \o r)[i + 1] = p[(j + 1) + 1]
      BY <1>1, <1>2, <3>1
    <3>3. QED
      BY <2>5, <3>1, <3>2
  <2>6. QED
    BY <2>3, <2>4, <2>5
<1>4. DropsLast(q \o r)
  BY <1>3 DEF DropsLast
<1>5. QED
  BY <1>4 DEF r

\* A thread goes on with statements that it answers for, and what it had ahead it
\* has ahead.
LEMMA GoesOnHeld ==
    ASSUME TypeOK, ThreadsKnown, Indexed, Held, TypeOK', NEW t \in Threads, NEW op, At(t, op),
           NEW X, NEW statements \in Seq(X), NEW about, Continue(t, statements, about),
           broken \subseteq broken', Observe, Keeps(t),
           \A x \in X : /\ x.op # "delete_word_suggestion"
                        /\ x.op = "index_put" => op \notin AcceptanceOps
                        /\ x.op = "accept_links" =>
                               \/ op \notin AcceptanceOps
                               \/ op = "accept_links" /\ x.suggestion = Current(t).suggestion,
           claims'[t] = claims[t] \cup about => \A x \in X : Answerable(t, x)' /\ Complete(x)',
           PartsStayAhead(t, db', Statements(statements))
    PROVE  Held'
<1> DEFINE rest == Statements(Tail(todo[t]))
           new == Statements(statements)
<1>1. /\ todo[t] # <<>> /\ todo[t] \in Seq(Statement) /\ Current(t).op = op
      /\ Statements(todo[t]) = {Current(t)} \cup rest
      /\ rest \subseteq Statement
  <2>1. /\ todo[t] # <<>> /\ todo[t] \in Seq(Statement) /\ Current(t).op = op
        /\ Statements(todo[t]) = {Current(t)} \cup Statements(Tail(todo[t]))
        /\ Tail(todo[t]) \in Seq(Statement)
    BY ProgramAt
  <2>2. Statements(Tail(todo[t])) \subseteq Statement
    BY <2>1, StatementsOf
  <2>3. QED
    BY <2>1, <2>2
<1>2. /\ \A u \in Threads \ {t} : todo'[u] = todo[u] /\ claims'[u] = claims[u]
      /\ Statements(todo'[t]) = new \cup rest /\ new \subseteq X
      /\ todo'[t] = <<>> => Statements(todo'[t]) = {}
      /\ todo'[t] # <<>> => claims'[t] = claims[t] \cup about
      /\ todo'[t] = statements \o Tail(todo[t])
  <2>1. /\ \A u \in Threads \ {t} : todo'[u] = todo[u] /\ claims'[u] = claims[u]
        /\ Statements(todo'[t]) = Statements(statements) \cup Statements(Tail(todo[t]))
        /\ Statements(statements) \subseteq X
        /\ todo'[t] = <<>> => Statements(todo'[t]) = {}
        /\ todo'[t] # <<>> => claims'[t] = claims[t] \cup about
    BY <1>1, Continued
  <2>2. todo'[t] = statements \o Tail(todo[t])
    BY <1>1, AboutStill
  <2>3. QED
    BY <2>1, <2>2
<1>3. Acts(t) /\ Orderly(t)
  BY <1>2 DEF Acts, Held
<1>4. Excused \subseteq Excused'
  BY <1>3, OverlapsExcused
<1>5. DropsLast(todo'[t])
  BY <1>1, <1>2, <1>3, StillDropsLast DEF Orderly
<1> HIDE DEF rest, new
<1>6. ASSUME NEW s \in rest
      PROVE  s.op \notin FetchedOps
  <2>1. op \notin FirstOps
    <3>1. Statements(<<>>) = {}
      BY DEF Statements
    <3>2. QED
      BY <1>6, <3>1, ShapeAt DEF rest
  <2>2. Shaped(todo[t]) /\ todo[t][1] = Current(t) /\ s \in Statements(todo[t])
    BY <1>1, <1>6 DEF ThreadsKnown, Current
  <2>3. Issues(todo[t], AcceptanceOps \cup SubmissionOps) \/ op \in DeleteOps
    BY <1>1, <2>1, <2>2 DEF Shaped, Issues
  <2>4. op \in DeleteOps => s.op \in SharedOps
    BY <1>6, ShapeAt DEF rest, Issues
  <2>5. QED
    BY <2>2, <2>3, <2>4
       DEF Issues, FetchedOps, AcceptanceOps, SubmissionOps, SharedOps
<1>7. ASSUME NEW s \in Statements(todo'[t])
      PROVE  Answerable(t, s)' /\ Complete(s)'
  <2>1. claims'[t] = claims[t] \cup about
    BY <1>2, <1>7
  <2>2. CASE s \in new
    BY <1>2, <2>1, <2>2
  <2>3. CASE s \in rest
    <3>1. s \in Statement /\ Answerable(t, s)
      BY <1>1, <1>3, <2>3 DEF Orderly
    <3>2. Answerable(t, s)'
      BY <2>1, <3>1, AnswerableStays DEF Keeps
    <3>3. QED
      BY <1>6, <2>3, <3>2 DEF Complete, FetchedOps
  <2>4. QED
    BY <1>2, <1>7, <2>2, <2>3
<1>8. ASSUME NEW s, WillDrop(t, s)'
      PROVE  WillDrop(t, s) /\ op \in AcceptanceOps
  <2>1. PICK x \in Statements(todo'[t]) : x.op = "delete_word_suggestion" /\ x.id = s
    BY <1>8 DEF WillDrop
  <2>2. x \in rest
    BY <1>2, <2>1
  <2>3. WillDrop(t, s)
    BY <1>1, <2>1, <2>2 DEF WillDrop
  <2>4. QED
    BY <2>3, NotAccepting
<1>9. DropsItsOwn(t)'
  <2>1. ASSUME NEW x \in Statements(todo'[t]), NEW y \in Statements(todo'[t]),
               x.op = "accept_links", y.op = "delete_word_suggestion"
        PROVE  y.id = x.suggestion
    <3>1. WillDrop(t, y.id)'
      BY <2>1 DEF WillDrop
    <3>2. op \in AcceptanceOps /\ y \in rest
      BY <1>2, <1>8, <2>1, <3>1
    <3>3. \E z \in Statements(todo[t]) : z.op = "accept_links" /\ z.suggestion = x.suggestion
      BY <1>1, <1>2, <2>1, <3>2
    <3>4. QED
      BY <1>1, <1>3, <2>1, <3>2, <3>3 DEF Orderly, DropsItsOwn
  <2>2. QED
    BY <2>1 DEF DropsItsOwn
<1>10. ASSUME NEW s \in Id, WillAccept(t, s)'
       PROVE  Covered(t, s)'
  <2>1. WillDrop(t, s) /\ op \in AcceptanceOps
    BY <1>8, <1>10 DEF WillAccept
  <2>2. PICK y \in Statements(todo'[t]) : y.op = "index_put"
    BY <1>10 DEF WillAccept
  <2>3. y \in rest
    BY <1>2, <2>1, <2>2
  <2>4. WillAccept(t, s)
    BY <1>1, <2>1, <2>2, <2>3 DEF WillAccept
  <2>5. ASSUME NEW table \in PartTables, NEW id \in PartIds(db', table, s),
               Suggested(s) \notin Excused
        PROVE  Ahead(Statements(todo'[t]), table, id)
    <3>1. id \in PartIds(db, table, s)
      BY <2>4, <2>5 DEF PartsStayAhead, NoNewParts
    <3>2. Ahead(Statements(todo[t]), table, id)
      BY <1>3, <2>4, <2>5, <3>1 DEF Orderly, Covered
    <3>3. Ahead({Current(t)}, table, id) \/ Ahead(rest, table, id)
      BY <1>1, <3>2 DEF Ahead
    <3>4. Ahead({Current(t)}, table, id) => Ahead(new, table, id)
      BY <2>4, <2>5 DEF PartsStayAhead, new
    <3>5. QED
      BY <1>2, <3>3, <3>4 DEF Ahead
  <2>6. QED
    BY <1>4, <2>5 DEF Covered
<1>11. Orderly(t)'
  BY <1>5, <1>7, <1>9, <1>10 DEF Orderly
<1>12. QED
  BY <1>3, <1>11, StepHeld

\* A statement that a thread which is at op may go on with, and one that there is
\* nothing to answer for.
Fitting(t, op, x) ==
    /\ x.op # "delete_word_suggestion"
    /\ x.op = "index_put" => op \notin AcceptanceOps
    /\ x.op = "accept_links" =>
          \/ op \notin AcceptanceOps
          \/ op = "accept_links" /\ x.suggestion = Current(t).suggestion
    /\ x.op \in SentOps => x.word \in SentBy(t)
MindedOps ==
    {"delete_word_suggestion", "index_put", "write_link", "write_example", "write_dataset",
     "fetch_linked_words", "fetch_datasets", "accept_just_word", "accept_links"}
    \cup SentOps \cup ProcessOps
Bland(x) == x.op \notin MindedOps

\* What a plain statement is to answer for holds of it at once.
LEMMA BlandFits ==
    ASSUME NEW t, NEW op, NEW x, Bland(x)
    PROVE  Fitting(t, op, x) /\ Answerable(t, x)' /\ Complete(x)'
BY DEF Bland, MindedOps, Fitting, Answerable, Complete

\* A thread goes on: no form comes, and no part but of a suggestion it is about.
LEMMA ServedHeld ==
    ASSUME TypeOK, ThreadsKnown, Indexed, Held, TypeOK', NEW t \in Threads, NEW op, At(t, op),
           NEW X, NEW statements \in Seq(X), NEW about, Continue(t, statements, about),
           broken \subseteq broken', Observe, UNCHANGED <<index, forms>>,
           SuggestionSeq <= SuggestionSeq',
           \A r \in db'.linked_word_suggestions : r \in db.linked_word_suggestions \/ LinkApart(r),
           \A s \in Id : Suggested(s) \in claims[t] \/ NoNewParts(db', s),
           \A x \in X : Fitting(t, op, x),
           claims'[t] = claims[t] \cup about => \A x \in X : Answerable(t, x)' /\ Complete(x)',
           op \in AcceptanceOps => PartsStayAhead(t, db', Statements(statements))
    PROVE  Held'
<1>1. /\ todo[t] # <<>> /\ todo[t] \in Seq(Statement)
      /\ Statements(todo[t]) = {Current(t)} \cup Statements(Tail(todo[t]))
  BY ProgramAt
<1>2. /\ \A u \in Threads \ {t} : todo'[u] = todo[u]
      /\ Statements(todo'[t]) = Statements(statements) \cup Statements(Tail(todo[t]))
      /\ Statements(statements) \subseteq X
  BY <1>1, Continued
<1>3. SentBy(t)' \subseteq SentBy(t)
  BY <1>1, <1>2 DEF SentBy, Fitting
<1>4. \A w \in Sheets' : w \in Sheets
  BY <1>2, <1>3, SheetsOf DEF Sheets
<1>5. Keeps(t)
  BY <1>4 DEF Keeps
<1>6. PartsStayAhead(t, db', Statements(statements))
  <2>1. CASE op \notin AcceptanceOps
    BY <2>1, NotAccepting DEF PartsStayAhead, WillAccept
  <2>2. QED
    BY <2>1
<1>7. QED
  BY <1>5, <1>6, GoesOnHeld DEF Fitting

\* Tables that hold no more parts hold no more of any suggestion.
FewerParts(d) ==
    /\ d.example_suggestions \subseteq db.example_suggestions
    /\ d.linked_word_suggestions \subseteq db.linked_word_suggestions
    /\ d.dataset_attribution_suggestions \subseteq db.dataset_attribution_suggestions

\* So no suggestion has a part it did not have.
LEMMA NoneAdded ==
    ASSUME NEW d, FewerParts(d), NEW s
    PROVE  NoNewParts(d, s)
<1>1. ASSUME NEW table \in PartTables
      PROVE  PartIds(d, table, s) \subseteq PartIds(db, table, s)
  <2>1. CASE table = "example_suggestions"
    BY <2>1 DEF PartIds, FewerParts, Ids, ExampleSuggestionsOf
  <2>2. CASE table = "linked_word_suggestions"
    BY <2>2 DEF PartIds, FewerParts, Ids, LinkSuggestionsOf
  <2>3. CASE table = "dataset_attribution_suggestions"
    BY <2>3 DEF PartIds, FewerParts, Ids, DatasetSuggestionsOf
  <2>4. QED
    BY <2>1, <2>2, <2>3 DEF PartTables
<1>2. QED
  BY <1>1 DEF NoNewParts

\* A statement that accepts no part and deletes no row leaves what is ahead.
PartOps == {"accept_examples", "accept_links", "accept_datasets", "delete_row"}

\* What the other statements are to do with the parts stays ahead.
LEMMA OthersStayAhead ==
    ASSUME NEW t, NEW d, NEW S, Current(t).op \notin PartOps, FewerParts(d)
    PROVE  PartsStayAhead(t, d, S)
<1>1. \A table \in PartTables : \A id : ~Ahead({Current(t)}, table, id)
  BY DEF Ahead, PartOps, AcceptOp, PartTables
<1>2. QED
  BY <1>1, NoneAdded DEF PartsStayAhead

\* A read goes on with what it read, or the request ends there.
LEMMA ReadHeld ==
    ASSUME TypeOK, ThreadsKnown, Indexed, Held, TypeOK', NEW t \in Threads, NEW op, At(t, op),
           op \notin PartOps, NEW X, NEW statements \in Seq(X), NEW about, NEW found,
           Read(t, found, statements, about), \A x \in X : Fitting(t, op, x),
           found /\ claims'[t] = claims[t] \cup about =>
               \A x \in X : Answerable(t, x)' /\ Complete(x)'
    PROVE  Held'
<1>1. CASE found
  <2>1. /\ Continue(t, statements, about) /\ UNCHANGED <<db, index, forms, broken>> /\ Observe
    BY <1>1 DEF Read
  <2>2. SuggestionSeq <= SuggestionSeq'
    BY <2>1 DEF SuggestionSeq, TypeOK, Database, AutoIncrement
  <2>3. FewerParts(db') /\ Current(t).op = op
    BY <2>1, ProgramAt DEF FewerParts
  <2>4. \A s \in Id : NoNewParts(db', s)
    BY <2>3, NoneAdded
  <2>5. PartsStayAhead(t, db', Statements(statements))
    BY <2>3, OthersStayAhead
  <2>6. \A r \in db'.linked_word_suggestions : r \in db.linked_word_suggestions
    BY <2>1
  <2>7. broken \subseteq broken' /\ UNCHANGED <<index, forms>>
    BY <2>1
  <2>8. QED
    BY <1>1, <2>1, <2>2, <2>4, <2>5, <2>6, <2>7, ServedHeld
<1>2. CASE ~found
  BY <1>2, StopHeld DEF Read, Refuse
<1>3. QED
  BY <1>1, <1>2

\* A write brings parts of suggestions the request is about, or fails.
Harmless(t, op, d, S) ==
    /\ SuggestionSeq <= d.seq["word_suggestions"]
    /\ \A r \in d.linked_word_suggestions : r \in db.linked_word_suggestions \/ LinkApart(r)
    /\ \A s \in Id : Suggested(s) \in claims[t] \/ NoNewParts(d, s)
    /\ op \in AcceptanceOps => PartsStayAhead(t, d, S)

\* Such a write keeps the parts in hand, whether it succeeds or fails.
LEMMA WriteHeld ==
    ASSUME TypeOK, ThreadsKnown, Indexed, Held, TypeOK', NEW t \in Threads, NEW op, At(t, op),
           NEW X, NEW statements \in Seq(X), NEW allowed, NEW after,
           Write(t, allowed, after, statements), \A x \in X : Fitting(t, op, x),
           allowed => Harmless(t, op, after, Statements(statements)),
           allowed /\ db' = after /\ claims[t] \subseteq claims'[t] =>
               \A x \in X : Answerable(t, x)' /\ Complete(x)'
    PROVE  Held'
<1>1. CASE allowed
  <2> DEFINE about == Entries(db) \ Entries(after)
  <2>1. /\ db' = after /\ Continue(t, statements, about) /\ UNCHANGED <<index, forms, broken>>
        /\ Observe
    BY <1>1 DEF Write
  <2> HIDE DEF about
  <2>2. Harmless(t, op, db', Statements(statements))
    BY <1>1, <2>1
  <2>3. broken \subseteq broken' /\ UNCHANGED <<index, forms>>
    BY <2>1
  <2>4. claims'[t] = claims[t] \cup about => \A x \in X : Answerable(t, x)' /\ Complete(x)'
    BY <1>1, <2>1
  <2>5. /\ SuggestionSeq <= SuggestionSeq'
        /\ \A r \in db'.linked_word_suggestions : r \in db.linked_word_suggestions \/ LinkApart(r)
        /\ \A s \in Id : Suggested(s) \in claims[t] \/ NoNewParts(db', s)
    BY <2>2 DEF Harmless, SuggestionSeq
  <2>6. op \in AcceptanceOps => PartsStayAhead(t, db', Statements(statements))
    BY <2>2 DEF Harmless
  <2>7. QED
    BY <2>1, <2>3, <2>4, <2>5, <2>6, ServedHeld
<1>2. CASE ~allowed
  BY <1>2, StopHeld DEF Write, Panic
<1>3. QED
  BY <1>1, <1>2

\* A write of other tables, or one that takes parts away.
LEMMA PlainWriteHeld ==
    ASSUME TypeOK, ThreadsKnown, Indexed, Held, TypeOK', NEW t \in Threads, NEW op, At(t, op),
           op \notin PartOps, NEW X, NEW statements \in Seq(X), NEW allowed, NEW after,
           Write(t, allowed, after, statements), \A x \in X : Bland(x),
           allowed => FewerParts(after) /\ SuggestionSeq <= after.seq["word_suggestions"]
    PROVE  Held'
<1>1. allowed => Harmless(t, op, after, Statements(statements))
  <2>1. ASSUME allowed
        PROVE  Harmless(t, op, after, Statements(statements))
    <3>1. FewerParts(after) /\ SuggestionSeq <= after.seq["word_suggestions"]
      BY <2>1
    <3>2. \A s : NoNewParts(after, s)
      BY <3>1, NoneAdded
    <3>3. Current(t).op = op
      BY ProgramAt
    <3>4. PartsStayAhead(t, after, Statements(statements))
      BY <3>1, <3>3, OthersStayAhead
    <3>5. QED
      BY <3>1, <3>2, <3>4 DEF Harmless, FewerParts
  <2>2. QED
    BY <2>1
<1>2. \A x \in X : Fitting(t, op, x) /\ Answerable(t, x)' /\ Complete(x)'
  BY BlandFits
<1>3. QED
  BY <1>1, <1>2, WriteHeld

\* A write after which nothing is added to what is left.
LEMMA WriteAloneHeld ==
    ASSUME TypeOK, ThreadsKnown, Indexed, Held, TypeOK', NEW t \in Threads, NEW op, At(t, op),
           op \notin PartOps, NEW allowed, NEW after, Write(t, allowed, after, <<>>),
           FewerParts(after), after.seq["word_suggestions"] = SuggestionSeq
    PROVE  Held'
<1> DEFINE X == {}
           p == <<>>
<1>1. p \in Seq(X) /\ X = {} /\ Write(t, allowed, after, p)
  OBVIOUS
<1>2. SuggestionSeq <= after.seq["word_suggestions"]
  BY SuggestionSeqType
<1> HIDE DEF X, p
<1>3. QED
  BY <1>1, <1>2, PlainWriteHeld

\* Attributions are no parts.
LEMMA AttributionHeld ==
    ASSUME TypeOK, ThreadsKnown, Indexed, Held, TypeOK', NEW t \in Threads,
           ExecAddUserAttribution(t)
    PROVE  Held'
<1> DEFINE allowed == Current(t).word_id \in db.words
           after == [db EXCEPT !.user_attributions =
                        @ \cup {<<Current(t).word_id, Current(t).user>>}]
<1>1. At(t, "add_user_attribution") /\ Write(t, allowed, after, <<>>)
  BY DEF ExecAddUserAttribution
<1>2. FewerParts(after) /\ after.seq["word_suggestions"] = SuggestionSeq
  BY DEF FewerParts, SuggestionSeq, TypeOK, Database
<1>3. "add_user_attribution" \notin PartOps
  BY DEF PartOps
<1> HIDE DEF allowed, after
<1>4. QED
  BY <1>1, <1>2, <1>3, WriteAloneHeld

\* Nor are suggestions that a word be deleted.
LEMMA InsertWordDeletionHeld ==
    ASSUME TypeOK, ThreadsKnown, Indexed, Held, TypeOK', NEW t \in Threads, insert_word_deletion(t)
    PROVE  Held'
<1> DEFINE w == Current(t).id
           T == db.word_deletion_suggestions
           table == "word_deletion_suggestions"
           key == db.seq["word_deletion_suggestions"] + 1
           after == IF \E r \in T : r.word_id = w THEN db
                    ELSE [db EXCEPT !.word_deletion_suggestions =
                                        @ \cup {[id |-> key, word_id |-> w]},
                                    !.seq = Bump(@, "word_deletion_suggestions", key)]
           allowed == w \in db.words
<1>1. At(t, "suggest_word_deletion") /\ Write(t, allowed, after, <<>>)
  BY DEF insert_word_deletion
<1>2. /\ after.words = db.words /\ after.word_suggestions = db.word_suggestions
      /\ after.seq = db.seq \/ after.seq = Bump(db.seq, table, key)
      /\ table # "word_suggestions"
  BY DEF TypeOK, Database
<1>3. FewerParts(after)
  BY DEF FewerParts, TypeOK, Database
<1>4. "suggest_word_deletion" \notin PartOps
  BY DEF PartOps
<1> HIDE DEF allowed, after, table, key
<1>5. after.seq["word_suggestions"] = SuggestionSeq
  BY <1>2, TablesStill DEF Still, SuggestionSeq
<1>6. QED
  BY <1>1, <1>3, <1>4, <1>5, WriteAloneHeld

\* A cascade takes parts and brings none.
LEMMA CascadeOfParts ==
    ASSUME NEW d \in Database, FewerParts(d), d.seq = db.seq
    PROVE  FewerParts(Cascade(d)) /\ Cascade(d).seq = db.seq
<1> DEFINE p == CascadeParents(d)
<1>1. /\ p \in Database /\ p.seq = d.seq
      /\ p.example_suggestions = d.example_suggestions
      /\ p.linked_word_suggestions = d.linked_word_suggestions
      /\ p.dataset_attribution_suggestions = d.dataset_attribution_suggestions
  BY DEF Database, CascadeParents
<1> HIDE DEF p
<1> DEFINE c == CascadeLeaves(p)
<1>2. /\ c.seq = p.seq
      /\ c.example_suggestions \subseteq p.example_suggestions
      /\ c.linked_word_suggestions \subseteq p.linked_word_suggestions
      /\ c.dataset_attribution_suggestions \subseteq p.dataset_attribution_suggestions
  BY <1>1 DEF Database, CascadeLeaves
<1>3. Cascade(d) = c
  BY DEF Cascade, p
<1> HIDE DEF c
<1>4. QED
  BY <1>1, <1>2, <1>3 DEF FewerParts

\* So do the DELETEs.
LEMMA DeletesHeld ==
    ASSUME TypeOK, ThreadsKnown, Indexed, Held, TypeOK', NEW t \in Threads,
           delete_word(t) \/ delete_word_suggestion(t) \/ delete_example(t) \/ delete_link(t)
    PROVE  Held'
<1>1. PICK id : id = Current(t).id
  OBVIOUS
<1> DEFINE allowed == TRUE
<1>2. PICK op \in {"delete_word", "delete_word_suggestion", "delete_example", "delete_link"} :
          At(t, op)
  BY DEF delete_word, delete_word_suggestion, delete_example, delete_link
<1>3. PICK after \in {WithoutWord(db, id), WithoutWordSuggestion(db, id),
                      WithoutExample(db, id), WithoutLinkedWord(db, id)} :
          Write(t, allowed, after, <<>>)
  BY <1>1 DEF delete_word, delete_word_suggestion, delete_example, delete_link
<1>4. op \notin PartOps
  BY DEF PartOps
<1> DEFINE word == [db EXCEPT !.words = @ \ {id}]
           suggestion == [db EXCEPT !.word_suggestions = Drop(@, id)]
           example == [db EXCEPT !.examples = Drop(@, id)]
           link == [db EXCEPT !.linked_words = Drop(@, id)]
<1>5. ASSUME NEW d \in {word, suggestion, example, link}
      PROVE  d \in Database /\ FewerParts(d) /\ d.seq = db.seq
  <2>1. db \in Database
    BY DEF TypeOK
  <2>2. QED
    BY <2>1 DEF Database, Drop, FewerParts
<1>6. \E d \in {word, suggestion, example, link} : after = Cascade(d)
  BY DEF WithoutWord, WithoutWordSuggestion, WithoutExample, WithoutLinkedWord
<1> HIDE DEF word, suggestion, example, link
<1>7. FewerParts(after) /\ after.seq["word_suggestions"] = SuggestionSeq
  BY <1>5, <1>6, CascadeOfParts DEF SuggestionSeq
<1> HIDE DEF allowed
<1>8. QED
  BY <1>2, <1>3, <1>4, <1>7, WriteAloneHeld

\* A message to the index puts documents of suggestions whose number was given out.
LEMMA ExecIndexHeld ==
    ASSUME TypeOK, ThreadsKnown, Indexed, Held, TypeOK', NEW t \in Threads, ExecIndex(t)
    PROVE  Held'
<1>1. PICK op \in {"index_put", "index_delete"} :
          /\ At(t, op)
          /\ index' = IF op = "index_put" THEN index \cup {Current(t).doc}
                      ELSE index \ {Current(t).doc}
  BY DEF ExecIndex
<1> DEFINE X == {}
           p == <<>>
           about == {}
<1>2. /\ Continue(t, p, about) /\ UNCHANGED <<db, forms, broken>> /\ Observe
      /\ p \in Seq(X) /\ X = {}
  BY DEF ExecIndex
<1> HIDE DEF X, p, about
<1>3. /\ todo[t] # <<>> /\ Current(t).op = op /\ Current(t) \in Statements(todo[t])
      /\ Statements(todo[t]) = {Current(t)} \cup Statements(Tail(todo[t]))
  BY <1>1, ProgramAt
<1>4. SuggestionSeq' = SuggestionSeq /\ SuggestionSeq \in Nat
  BY <1>2, SuggestionSeqType DEF SuggestionSeq
<1>5. \A doc \in index' \ index : doc[1] = "suggested" => doc[2] <= SuggestionSeq'
  <2>1. op = "index_put" => Answerable(t, Current(t))
    BY <1>3 DEF Held, Orderly
  <2>2. QED
    BY <1>1, <1>3, <1>4, <2>1 DEF Answerable
<1>6. FewerParts(db')
  BY <1>2 DEF FewerParts
<1>7. \A w \in Sheets' : w \in Sheets
  <2>1. /\ \A u \in Threads \ {t} : todo'[u] = todo[u]
        /\ Statements(todo'[t]) = Statements(p) \cup Statements(Tail(todo[t]))
        /\ Statements(p) \subseteq X
    BY <1>2, <1>3, Continued
  <2>2. SentBy(t)' \subseteq SentBy(t)
    BY <1>2, <1>3, <2>1 DEF SentBy
  <2>3. QED
    BY <1>2, <2>1, <2>2, SheetsOf DEF Sheets
<1>8. Keeps(t)
  <2>1. \A s \in Id : NoNewParts(db', s)
    BY <1>6, NoneAdded
  <2>2. SuggestionSeq <= SuggestionSeq'
    BY <1>4
  <2>3. QED
    BY <1>2, <1>5, <1>7, <2>1, <2>2 DEF Keeps
<1>9. PartsStayAhead(t, db', Statements(p))
  BY <1>3, <1>6, OthersStayAhead DEF PartOps
<1>10. broken \subseteq broken'
  BY <1>2
<1>11. QED
  BY <1>1, <1>2, <1>8, <1>9, <1>10, GoesOnHeld

-----------------------------------------------------------------------------
(* Requests arrive *)

\* A request that arrives brings no part and accepts none yet.
LEMMA ArriveHeld ==
    ASSUME TypeOK, ThreadsKnown, Indexed, Held, TypeOK', NEW t \in Threads,
           NEW X, NEW statements \in Seq(X), NEW route, NEW about,
           Arrive(t, route, statements, about), DropsLast(statements),
           \A x \in X : /\ x.op \notin {"index_put", "accept_links"}
                        /\ x.op \in SentOps => LinksOthers(x.word),
           claims'[t] = about => \A x \in X : Answerable(t, x)' /\ Complete(x)'
    PROVE  Held'
<1>1. /\ UNCHANGED <<db, index, forms>> /\ Acts(t)
      /\ todo'[t] = statements /\ claims'[t] = about
  BY DEF Arrive, Acts, TypeOK
<1>2. Statements(todo'[t]) \subseteq X
  BY <1>1, StatementsOf
<1>3. SuggestionSeq' = SuggestionSeq /\ SuggestionSeq \in Nat
  BY <1>1, SuggestionSeqType DEF SuggestionSeq
<1>4. \A w \in Sheets' : w \in Sheets \/ LinksOthers(w)'
  <2>1. ASSUME NEW w \in SentBy(t)'
        PROVE  LinksOthers(w)'
    <3>1. LinksOthers(w)
      BY <1>2, <2>1 DEF SentBy
    <3>2. QED
      BY <1>3, <3>1 DEF LinksOthers
  <2>2. QED
    BY <1>1, <2>1, SheetsOf DEF Acts
<1>5. Keeps(t)
  <2>1. FewerParts(db')
    BY <1>1 DEF FewerParts
  <2>2. \A s \in Id : NoNewParts(db', s)
    BY <2>1, NoneAdded
  <2>3. SuggestionSeq <= SuggestionSeq'
    BY <1>3
  <2>4. QED
    BY <1>1, <1>4, <2>2, <2>3 DEF Keeps
<1>6. Orderly(t)'
  <2>1. DropsLast(todo'[t]) /\ DropsItsOwn(t)'
    BY <1>1, <1>2 DEF DropsItsOwn
  <2>2. \A s : ~WillAccept(t, s)'
    BY <1>2 DEF WillAccept
  <2>3. DropsLast(todo[t])'
    BY <2>1
  <2>4. \A x \in Statements(todo'[t]) : Answerable(t, x)' /\ Complete(x)'
    BY <1>1, <1>2
  <2>5. QED
    BY <2>1, <2>2, <2>3, <2>4 DEF Orderly
<1>7. QED
  BY <1>1, <1>5, <1>6, StepHeld

\* A request with one statement that there is nothing to answer for.
LEMMA ArriveBland ==
    ASSUME TypeOK, ThreadsKnown, Indexed, Held, TypeOK', NEW t \in Threads,
           NEW s, NEW route, NEW about, Bland(s), Arrive(t, route, <<s>>, about)
    PROVE  Held'
<1> DEFINE X == {s}
           p == <<s>>
<1>1. p \in Seq(X) /\ Arrive(t, route, p, about) /\ p[1] = s /\ Len(p) = 1
  OBVIOUS
<1>2. DropsLast(p)
  BY <1>1 DEF DropsLast
<1>3. \A x \in X : Answerable(t, x)' /\ Complete(x)'
  BY BlandFits
<1>4. \A x \in X : x.op \notin {"index_put", "accept_links"} \cup SentOps
  BY DEF Bland, MindedOps
<1> HIDE DEF X, p
<1>5. QED
  BY <1>1, <1>2, <1>3, <1>4, ArriveHeld

\* A rejection deletes the suggestion last.
LEMMA RejectWordHeld ==
    ASSUME TypeOK, ThreadsKnown, Indexed, Held, TypeOK', NEW t \in Threads,
           reject_suggested_word(t)
    PROVE  Held'
<1>1. PICK s \in EverGiven("word_suggestions") :
          Arrive(t, "reject_suggested_word", DeleteWordSuggestion(s), {Suggested(s)})
  BY DEF reject_suggested_word
<1> DEFINE x == IndexDelete(Suggested(s))
           y == [op |-> "delete_word_suggestion", id |-> s]
           X == {x, y}
           p == <<x, y>>
           about == {Suggested(s)}
           route == "reject_suggested_word"
<1>2. x.op = "index_delete" /\ y.op = "delete_word_suggestion"
  BY DEF IndexDelete
<1>3. Arrive(t, route, p, about)
  BY <1>1 DEF DeleteWordSuggestion
<1> HIDE DEF x, y
<1>4. p \in Seq(X) /\ Len(p) = 2 /\ p[1] = x /\ p[2] = y
  OBVIOUS
<1>5. DropsLast(p)
  BY <1>2, <1>4 DEF DropsLast
<1>6. \A z \in X : Answerable(t, z)' /\ Complete(z)'
  BY <1>2 DEF Answerable, Complete, SentOps, ProcessOps
<1>7. \A z \in X : z.op \notin {"index_put", "accept_links"} \cup SentOps
  BY <1>2 DEF SentOps
<1> HIDE DEF X, p, about, route
<1>8. QED
  BY <1>3, <1>4, <1>5, <1>6, <1>7, ArriveHeld

\* A link of a form that is sent is to a word that the form had, or to one that the
\* search offered.
LEMMA LinksOffered ==
    ASSUME NEW form, form.links \subseteq LinkEntry, NEW L \in LinkEdits(form), NEW e \in L
    PROVE  (\E f \in form.links : e.other = f.other) \/ e.other \in Offered(form)
<1> DEFINE kept == IF "drop_link" \in Edits THEN SUBSET form.links ELSE {form.links}
           Retargeted(K) == {(K \ {f}) \cup {[f EXCEPT !.other = doc]} :
                                f \in K, doc \in Offered(form)}
           Retyped(K) == {(K \ {f}) \cup {[f EXCEPT !.retyped = TRUE]} : f \in K}
           Added(K) == {K \cup {[suggestion_id |-> Null, existing_id |-> Null,
                                 other |-> doc, retyped |-> FALSE]} : doc \in Offered(form)}
           Of(K) == {K} \cup (IF "retarget_link" \in Edits THEN Retargeted(K) ELSE {})
                        \cup (IF "retype_link" \in Edits THEN Retyped(K) ELSE {})
                        \cup (IF "add_link" \in Edits THEN Added(K) ELSE {})
           Known(x) == (\E f \in form.links : x.other = f.other) \/ x.other \in Offered(form)
<1>1. LinkEdits(form) = UNION {Of(K) : K \in kept}
  BY DEF LinkEdits
<1>2. \A K \in kept : K \subseteq form.links
  OBVIOUS
<1>3. ASSUME NEW K \in SUBSET form.links
      PROVE  /\ \A M \in Retargeted(K) : \A x \in M : Known(x)
             /\ \A M \in Retyped(K) : \A x \in M : Known(x)
             /\ \A M \in Added(K) : \A x \in M : Known(x)
             /\ \A x \in K : Known(x)
  <2>1. \A f \in LinkEntry : \A doc : [f EXCEPT !.other = doc].other = doc
    BY DEF LinkEntry
  <2>2. \A f \in LinkEntry : [f EXCEPT !.retyped = TRUE].other = f.other
    BY DEF LinkEntry
  <2>3. \A x \in K : Known(x)
    OBVIOUS
  <2>4. \A f \in K, doc \in Offered(form) : Known([f EXCEPT !.other = doc])
    BY <2>1
  <2>5. \A f \in K : Known([f EXCEPT !.retyped = TRUE])
    BY <2>2
  <2>6. \A doc \in Offered(form) : Known([suggestion_id |-> Null, existing_id |-> Null,
                                          other |-> doc, retyped |-> FALSE])
    OBVIOUS
  <2> HIDE DEF Known
  <2>7. QED
    BY <2>3, <2>4, <2>5, <2>6
<1> HIDE DEF kept, Retargeted, Retyped, Added, Known
<1>4. \A K \in kept : \A M \in Of(K) : \A x \in M : Known(x)
  BY <1>2, <1>3
<1> HIDE DEF Of
<1>5. Known(e)
  BY <1>1, <1>4
<1>6. QED
  BY <1>5 DEF Known

\* So no form that is sent says of a suggestion that it is linked to itself, nor to
\* one that is still to come.
LEMMA SentLinksOthers ==
    ASSUME TypeOK, Held, NEW form \in forms \cup {NewWordForm}, NEW w \in Submissions(form)
    PROVE  LinksOthers(w)
<1>1. /\ w.suggestion_id = form.suggestion_id /\ w.existing_id = form.existing_id
      /\ w.links \in LinkEdits(form)
  BY DEF Submissions
<1>2. form.links \subseteq LinkEntry /\ LinksOthers(form)
  <2>1. CASE form \in forms
    BY <2>1 DEF TypeOK, Form, Held, Sheets
  <2>2. CASE form = NewWordForm
    BY <2>2 DEF NewWordForm, LinksOthers
  <2>3. QED
    BY <2>1, <2>2
<1>3. ASSUME NEW e \in w.links, w.existing_id = Null
      PROVE  /\ e.other # Suggested(w.suggestion_id)
             /\ w.suggestion_id = Null /\ e.other[1] = "suggested" => e.other[2] <= SuggestionSeq
  <2>1. (\E f \in form.links : e.other = f.other) \/ e.other \in Offered(form)
    BY <1>1, <1>2, LinksOffered
  <2>2. CASE \E f \in form.links : e.other = f.other
    BY <1>1, <1>2, <1>3, <2>2 DEF LinksOthers
  <2>3. CASE e.other \in Offered(form)
    <3>1. e.other \in index /\ e.other[2] # form.suggestion_id
      BY <1>1, <1>3, <2>3 DEF Offered
    <3>2. e.other[1] = "suggested" => e.other[2] <= SuggestionSeq
      BY <3>1 DEF Held
    <3>3. QED
      BY <1>1, <3>1, <3>2 DEF Suggested
  <2>4. QED
    BY <2>1, <2>2, <2>3
<1>4. QED
  BY <1>3 DEF LinksOthers

\* A form that is sent is one its page could show.
LEMMA SubmitHeld ==
    ASSUME TypeOK, ThreadsKnown, Indexed, Held, TypeOK', NEW t \in Threads, submit_suggestion(t)
    PROVE  Held'
<1>1. PICK form \in forms \cup {NewWordForm} :
          \E w \in Submissions(form) :
              Arrive(t, "submit_suggestion", <<[op |-> "read_original", word |-> w]>>,
                     AboutSubmission(w))
  BY DEF submit_suggestion
<1> PICK w \in Submissions(form) :
          Arrive(t, "submit_suggestion", <<[op |-> "read_original", word |-> w]>>,
                 AboutSubmission(w))
  BY <1>1
<1>2. LinksOthers(w)
  BY SentLinksOthers
<1> DEFINE s == [op |-> "read_original", word |-> w]
           X == {s}
           p == <<s>>
           about == AboutSubmission(w)
           route == "submit_suggestion"
<1>3. Arrive(t, route, p, about) /\ s.op = "read_original" /\ s.word = w
  OBVIOUS
<1> HIDE DEF s, about
<1>4. p \in Seq(X) /\ Len(p) = 1 /\ p[1] = s
  OBVIOUS
<1>5. DropsLast(p)
  BY <1>4 DEF DropsLast
<1>6. claims'[t] = about => \A x \in X : Answerable(t, x)' /\ Complete(x)'
  BY <1>3 DEF Answerable, Complete, ProcessOps, about
<1>7. \A x \in X : /\ x.op \notin {"index_put", "accept_links"}
                   /\ x.op \in SentOps => LinksOthers(x.word)
  BY <1>2, <1>3
<1> HIDE DEF X, p, route
<1>8. QED
  BY <1>3, <1>4, <1>5, <1>6, <1>7, ArriveHeld

\* So every request keeps it.
LEMMA RequestHeld ==
    ASSUME TypeOK, ThreadsKnown, Indexed, Held, TypeOK', NEW t \in Threads, Request(t)
    PROVE  Held'
<1> DEFINE Kind(op) == op \notin MindedOps
<1>1. /\ Kind("fetch_alone") /\ Kind("suggest_word_deletion") /\ Kind("fetch_example")
      /\ Kind("fetch_link") /\ Kind("fetch_dataset") /\ Kind("fetch_word_deletion")
      /\ Kind("fetch_example_deletion") /\ Kind("fetch_link_deletion") /\ Kind("delete_row")
  BY DEF MindedOps, SentOps, ProcessOps
<1>2. \/ reject_suggested_word(t) \/ submit_suggestion(t)
      \/ \E s, route, about : Kind(s.op) /\ Arrive(t, route, <<s>>, about)
  <2> HIDE DEF Kind
  <2>1. CASE accept_suggested_word(t)
    BY <1>1, <2>1 DEF accept_suggested_word
  <2>2. CASE suggest_word_deletion(t)
    BY <1>1, <2>2 DEF suggest_word_deletion
  <2>3. CASE accept_suggested_example(t) \/ reject_suggested_example(t)
    BY <1>1, <2>3 DEF accept_suggested_example, reject_suggested_example,
                      DeleteExampleSuggestion, DeleteRow
  <2>4. CASE accept_linked_word(t) \/ reject_linked_word(t)
    BY <1>1, <2>4 DEF accept_linked_word, reject_linked_word,
                      DeleteLinkedWordSuggestion, DeleteRow
  <2>5. CASE accept_dataset_attribution_suggestion(t) \/ reject_dataset_attribution_suggestion(t)
    BY <1>1, <2>5 DEF accept_dataset_attribution_suggestion,
                      reject_dataset_attribution_suggestion, DeleteDatasetSuggestion, DeleteRow
  <2>6. CASE accept_deletion(t) \/ reject_deletion(t)
    BY <1>1, <2>6 DEF accept_deletion, reject_deletion, RejectWordDeletion, DeleteRow
  <2>7. CASE accept_example_deletion(t) \/ reject_example_deletion(t)
    BY <1>1, <2>7 DEF accept_example_deletion, reject_example_deletion,
                      DeleteExampleDeletion, DeleteRow
  <2>8. CASE accept_linked_word_deletion(t) \/ reject_linked_word_deletion(t)
    BY <1>1, <2>8 DEF accept_linked_word_deletion, reject_linked_word_deletion,
                      DeleteLinkedWordDeletion, DeleteRow
  <2>9. QED
    BY <2>1, <2>2, <2>3, <2>4, <2>5, <2>6, <2>7, <2>8 DEF Request
<1>3. QED
  BY <1>2, RejectWordHeld, SubmitHeld, ArriveBland DEF Bland

-----------------------------------------------------------------------------
(* The reads of a decision *)

\* A request that is refused has nothing left ahead.
LEMMA RefuseHeld ==
    ASSUME TypeOK, ThreadsKnown, Indexed, Held, TypeOK', NEW t \in Threads, Refuse(t)
    PROVE  Held'
BY StopHeld DEF Refuse

\* A read after which one statement is left.
LEMMA ReadOneHeld ==
    ASSUME TypeOK, ThreadsKnown, Indexed, Held, TypeOK', NEW t \in Threads, NEW op \in FirstOps,
           At(t, op), NEW s, NEW found, NEW about, Read(t, found, <<s>>, about),
           Fitting(t, op, s),
           found /\ claims'[t] = claims[t] \cup about => Answerable(t, s)' /\ Complete(s)'
    PROVE  Held'
<1> DEFINE X == {s}
           p == <<s>>
<1>1. p \in Seq(X) /\ Read(t, found, p, about)
  OBVIOUS
<1>2. op \notin PartOps
  BY DEF FirstOps, FetchedOps, PartOps
<1>3. \A x \in X : Fitting(t, op, x)
  OBVIOUS
<1>4. found /\ claims'[t] = claims[t] \cup about => \A x \in X : Answerable(t, x)' /\ Complete(x)'
  OBVIOUS
<1> HIDE DEF X, p
<1>5. QED
  BY <1>1, <1>2, <1>3, <1>4, ReadHeld

\* One after which there are two, that there is nothing to answer for.
LEMMA ReadTwoHeld ==
    ASSUME TypeOK, ThreadsKnown, Indexed, Held, TypeOK', NEW t \in Threads, NEW op \in FirstOps,
           At(t, op), NEW x, NEW y, NEW about, Read(t, TRUE, <<x, y>>, about),
           Bland(x), Bland(y)
    PROVE  Held'
<1> DEFINE X == {x, y}
           p == <<x, y>>
           found == TRUE
<1>1. p \in Seq(X)
  OBVIOUS
<1>2. op \notin PartOps
  BY DEF FirstOps, FetchedOps, PartOps
<1>3. \A z \in X : Bland(z)
  OBVIOUS
<1>4. \A z \in X : Fitting(t, op, z) /\ Answerable(t, z)' /\ Complete(z)'
  BY <1>3, BlandFits
<1>5. Read(t, found, p, about)
  OBVIOUS
<1> HIDE DEF X, p, found
<1>6. \A z \in X : Fitting(t, op, z)
  BY <1>4
<1>7. \A z \in X : Answerable(t, z)' /\ Complete(z)'
  BY <1>4
<1>8. QED
  BY <1>1, <1>2, <1>5, <1>6, <1>7, ReadHeld

\* The reads that go on to statements there is nothing to answer for.
LEMMA FetchHeld ==
    ASSUME TypeOK, ThreadsKnown, Indexed, Held, TypeOK', NEW t \in Threads,
           \/ fetch_alone(t) \/ fetch_example(t) \/ fetch_link(t) \/ fetch_dataset(t)
           \/ fetch_example_deletion(t) \/ fetch_link_deletion(t) \/ fetch_word_deletion(t)
    PROVE  Held'
<1> DEFINE One(op) == /\ op \in FirstOps /\ At(t, op)
                      /\ \/ Refuse(t)
                         \/ \E s, found, about : Bland(s) /\ Read(t, found, <<s>>, about)
           Two(op) == /\ op \in FirstOps /\ At(t, op)
                      /\ \/ Refuse(t)
                         \/ \E x, y, about : Bland(x) /\ Bland(y) /\ Read(t, TRUE, <<x, y>>, about)
<1>1. /\ \A row, examples, links, datasets :
            Bland(Fetched("fetch_examples", row, examples, links, datasets))
      /\ \A rows, word : Bland([op |-> "accept_examples", rows |-> rows, word_id |-> word])
      /\ \A rows, word : Bland([op |-> "accept_datasets", rows |-> rows, word_id |-> word])
      /\ \A link : Bland([op |-> "accept_link", link |-> link])
      /\ \A id, shown : Bland([op |-> "delete_word", id |-> id, shown |-> shown])
      /\ \A id, shown : Bland([op |-> "delete_example", id |-> id, shown |-> shown])
      /\ \A id : Bland([op |-> "delete_link", id |-> id])
      /\ \A doc : Bland(IndexDelete(doc))
      /\ \A table, id : Bland(DeleteRow(table, id))
  BY DEF Fetched, DeleteRow, IndexDelete, Bland, MindedOps, SentOps, ProcessOps
<1>2. /\ "fetch_alone" \in FirstOps /\ "fetch_example" \in FirstOps
      /\ "fetch_link" \in FirstOps /\ "fetch_dataset" \in FirstOps
      /\ "fetch_example_deletion" \in FirstOps /\ "fetch_link_deletion" \in FirstOps
      /\ "fetch_word_deletion" \in FirstOps
  BY DEF FirstOps, FetchedOps
<1>3. ASSUME NEW op, One(op)
      PROVE  Held'
  <2>1. op \in FirstOps /\ At(t, op)
    BY <1>3
  <2>2. ASSUME NEW s, NEW found, NEW about, Bland(s), Read(t, found, <<s>>, about)
        PROVE  Held'
    <3>1. Fitting(t, op, s) /\ Answerable(t, s)' /\ Complete(s)'
      BY <2>2, BlandFits
    <3> HIDE DEF One, Two
    <3>2. QED
      BY <2>1, <2>2, <3>1, ReadOneHeld
  <2>3. QED
    BY <1>3, <2>2, RefuseHeld
<1>4. ASSUME NEW op, Two(op)
      PROVE  Held'
  <2>1. op \in FirstOps /\ At(t, op)
    BY <1>4
  <2>2. ASSUME NEW x, NEW y, NEW about, Bland(x), Bland(y), Read(t, TRUE, <<x, y>>, about)
        PROVE  Held'
    <3> HIDE DEF One, Two
    <3>1. QED
      BY <2>1, <2>2, ReadTwoHeld
  <2>3. QED
    BY <1>4, <2>2, RefuseHeld
<1>5. CASE fetch_alone(t)
  <2>1. One("fetch_alone")
    BY <1>1, <1>2, <1>5 DEF fetch_alone
  <2>2. QED
    BY <1>3, <2>1
<1>6. CASE fetch_example(t)
  <2>1. One("fetch_example")
    BY <1>1, <1>2, <1>6 DEF fetch_example
  <2>2. QED
    BY <1>3, <2>1
<1>7. CASE fetch_link(t)
  <2>1. One("fetch_link")
    BY <1>1, <1>2, <1>7 DEF fetch_link
  <2>2. QED
    BY <1>3, <2>1
<1>8. CASE fetch_dataset(t)
  <2>1. One("fetch_dataset")
    BY <1>1, <1>2, <1>8 DEF fetch_dataset
  <2>2. QED
    BY <1>3, <2>1
<1>9. CASE fetch_example_deletion(t)
  <2>1. Two("fetch_example_deletion")
    BY <1>1, <1>2, <1>9 DEF fetch_example_deletion, DeleteExampleDeletion
  <2>2. QED
    BY <1>4, <2>1
<1>10. CASE fetch_link_deletion(t)
  <2>1. Two("fetch_link_deletion")
    BY <1>1, <1>2, <1>10 DEF fetch_link_deletion, DeleteLinkedWordDeletion
  <2>2. QED
    BY <1>4, <2>1
<1>11. CASE fetch_word_deletion(t)
  <2>1. Two("fetch_word_deletion")
    BY <1>1, <1>2, <1>11 DEF fetch_word_deletion
  <2>2. QED
    BY <1>4, <2>1
<1>12. QED
  BY <1>5, <1>6, <1>7, <1>8, <1>9, <1>10, <1>11

\* The examples a thread fetches are all there are.
LEMMA FetchExamplesHeld ==
    ASSUME TypeOK, ThreadsKnown, Indexed, Held, TypeOK', NEW t \in Threads, fetch_examples(t)
    PROVE  Held'
<1>1. At(t, "fetch_examples") /\ "fetch_examples" \in FirstOps
  BY DEF fetch_examples, FirstOps, FetchedOps
<1>2. PICK c : c = Current(t)
  OBVIOUS
<1>3. PICK examples : examples = ExampleSuggestionsOf(db, c.row.id)
  OBVIOUS
<1>4. PICK about : about = UNION {EditedExample(r) : r \in examples}
  OBVIOUS
<1> DEFINE s == Fetched("fetch_linked_words", c.row, examples, {}, {})
           found == TRUE
<1>5. Read(t, found, <<s>>, about) /\ db' = db
  BY <1>2, <1>3, <1>4 DEF fetch_examples, Read
<1>6. s.op = "fetch_linked_words" /\ s.row = c.row /\ s.examples = examples
  BY DEF Fetched
<1> HIDE DEF s, found
<1>7. Fitting(t, "fetch_examples", s) /\ Answerable(t, s)'
  BY <1>6 DEF Fitting, SentOps, Answerable, ProcessOps
<1>8. PartIds(db, "example_suggestions", c.row.id)' = Ids(examples)
  BY <1>3, <1>5 DEF PartIds
<1>9. Complete(s)'
  BY <1>6, <1>8 DEF Complete, HasAll
<1>10. QED
  BY <1>1, <1>5, <1>7, <1>9, ReadOneHeld

\* The two ends of a suggested link of a suggestion are not the same.
LEMMA EndsAreApart ==
    ASSUME NEW d \in Database, ForeignKeysHold(d), NEW r \in d.linked_word_suggestions,
           LinkApart(r), NamesTwoWords(d, r, FALSE)
    PROVE  EndsApart(FirstAndSecond(d, r, FALSE))
<1> DEFINE ids == NamedWords(d, r, FALSE)
           named == Named(ids)
           i == Least(named)
           j == Least(named \ {i})
<1>1. /\ DOMAIN ids = 1 .. 6
      /\ ids[1] = Existing(r.first_existing_word_id)
      /\ ids[2] = Existing(r.second_existing_word_id)
      /\ ids[3] = Suggested(r.suggested_word_id)
      /\ ids[4] = Suggested(r.second_suggested_word_id)
      /\ ids[5] = Existing(Null)
      /\ ids[6] = Existing(Null)
  BY DEF NamedWords
<1> HIDE DEF ids
<1>2. \E n, m \in named : n < m
  BY DEF NamesTwoWords, ids
<1>3. named \subseteq 1 .. 4
  BY <1>1 DEF Named, Existing
<1>4. \E n, m \in named : n # m
  BY <1>2, <1>3
<1>5. \A n \in named : ids[n][2] # Null
  BY DEF Named
<1> HIDE DEF named
<1>6. i \in named /\ \A n \in named : i <= n
  BY <1>3, <1>4, LeastType
<1> HIDE DEF i
<1>7. named \ {i} # {} /\ named \ {i} \subseteq 1 .. 6
  <2>1. PICK n \in named, m \in named : n # m
    BY <1>4
  <2>2. n \in named \ {i} \/ m \in named \ {i}
    BY <2>1
  <2>3. named \subseteq 1 .. 6
    BY <1>3
  <2>4. QED
    BY <2>2, <2>3
<1>8. j \in named \ {i}
  BY <1>7, LeastType
<1>9. FirstAndSecond(d, r, FALSE) = [first |-> ids[i], second |-> ids[j]]
  BY DEF FirstAndSecond, ids, named, i
<1> HIDE DEF j
<1>10. ASSUME ids[i][1] = "suggested"
       PROVE  ids[i] # ids[j]
  <2>1. i \in {3, 4} /\ j \in 1 .. 4 /\ i <= j /\ i # j
    BY <1>1, <1>3, <1>6, <1>8, <1>10 DEF Existing
  <2>2. i = 3 /\ j = 4
    BY <2>1
  <2>3. r.suggested_word_id # Null
    BY <1>1, <1>5, <1>6, <2>2 DEF Suggested
  <2>4. QED
    BY <1>1, <2>2, <2>3 DEF LinkApart, Suggested
<1>11. QED
  <2>1. PICK ends : ends = FirstAndSecond(d, r, FALSE)
    OBVIOUS
  <2>2. PICK first, second : first = ids[i] /\ second = ids[j]
    OBVIOUS
  <2>3. ends = [first |-> first, second |-> second]
    BY <1>9, <2>1, <2>2
  <2>4. ends.first = first /\ ends.second = second
    BY <2>3
  <2>5. EndsApart(ends)
    BY <1>10, <2>2, <2>4 DEF EndsApart
  <2>6. QED
    BY <2>1, <2>5

\* What was fetched of a suggestion is still all there is after the next read.
LEMMA StillComplete ==
    ASSUME TypeOK, ThreadsKnown, Held, TypeOK', NEW t \in Threads, NEW op \in FetchedOps,
           At(t, op), NEW c, c = Current(t), db' = db, broken \subseteq broken', Observe,
           claims[t] \subseteq claims'[t]
    PROVE  Complete(c)' /\ Answerable(t, c)'
<1>1. c \in Statements(todo[t]) /\ c \in Statement
  BY ProgramAt
<1>2. Complete(c) /\ Answerable(t, c)
  BY <1>1 DEF Held, Orderly
<1>3. Excused \subseteq Excused'
  BY DEF Excused, Observe
<1>4. \A table, s : PartIds(db', table, s) = PartIds(db, table, s)
  OBVIOUS
<1>5. \A table \in PartTables : \A rows :
          HasAll(c.row.id, table, rows) => HasAll(c.row.id, table, rows)'
  BY <1>3, <1>4 DEF HasAll
<1>6. Complete(c)'
  BY <1>2, <1>5 DEF Complete, PartTables
<1>7. SuggestionSeq <= SuggestionSeq'
  BY SuggestionSeqType DEF SuggestionSeq
<1>8. Answerable(t, c)'
  BY <1>1, <1>2, <1>7, AnswerableStays
<1>9. QED
  BY <1>6, <1>8

\* So are the links, and the thread is about the words and suggestions they are
\* between.
LEMMA FetchLinkedWordsHeld ==
    ASSUME TypeOK, References, ThreadsKnown, Indexed, Held, TypeOK', NEW t \in Threads,
           fetch_linked_words(t)
    PROVE  Held'
<1>1. At(t, "fetch_linked_words") /\ "fetch_linked_words" \in FetchedOps \cap FirstOps
  BY DEF fetch_linked_words, FetchedOps, FirstOps
<1>2. PICK c : c = Current(t)
  OBVIOUS
<1>3. PICK rows : rows = LinkSuggestionsOf(db, c.row.id)
  OBVIOUS
<1>4. PICK links : links = {Populated(db, r, FALSE) : r \in rows}
  OBVIOUS
<1>5. PICK about : about = UNION ({{l.ends.first, l.ends.second} : l \in links}
                                  \cup {EditedLink(r) : r \in rows})
  OBVIOUS
<1> DEFINE x == Fetched("fetch_datasets", c.row, c.examples, links, {})
           found == TRUE
<1>6. CASE LinksPopulate(db, c.row.id)
  <2>1. Read(t, found, <<x>>, about)
    BY <1>2, <1>3, <1>4, <1>5, <1>6 DEF fetch_linked_words
  <2>2. db' = db /\ broken' = broken /\ Observe
    BY <2>1 DEF Read
  <2>3. /\ x.op = "fetch_datasets" /\ x.row = c.row
        /\ x.examples = c.examples /\ x.links = links
    BY DEF Fetched
  <2> HIDE DEF x, found
  <2>4. ASSUME claims'[t] = claims[t] \cup about
        PROVE  Answerable(t, x)' /\ Complete(x)'
    <3>1. Complete(c)'
      BY <1>1, <1>2, <2>2, <2>4, StillComplete
    <3>2. c.op = "fetch_linked_words"
      BY <1>1, <1>2, ProgramAt
    <3>3. HasAll(c.row.id, "example_suggestions", c.examples)'
      BY <3>1, <3>2 DEF Complete
    <3>4. Ids(links) = Ids(rows)
      <4>1. \A r : Populated(db, r, FALSE).id = r.id
        BY DEF Populated
      <4>2. QED
        BY <1>4, <4>1 DEF Ids
    <3>5. PartIds(db', "linked_word_suggestions", c.row.id) = Ids(rows)
      BY <1>3, <2>2 DEF PartIds
    <3>6. HasAll(c.row.id, "linked_word_suggestions", links)'
      BY <3>4, <3>5 DEF HasAll
    <3>7. ASSUME NEW l \in links
          PROVE  {l.ends.first, l.ends.second} \subseteq claims'[t] /\ EndsApart(l.ends)
      <4>1. PICK r \in rows : l = Populated(db, r, FALSE)
        BY <1>4
      <4>2. l.ends = FirstAndSecond(db, r, FALSE)
        BY <4>1 DEF Populated
      <4>3. r \in db.linked_word_suggestions /\ NamesTwoWords(db, r, FALSE)
        BY <1>3, <1>6 DEF LinkSuggestionsOf, LinksPopulate
      <4>4. LinkApart(r)
        BY <4>3 DEF Held, LinksApart, LinkApart
      <4>5. EndsApart(l.ends)
        BY <4>2, <4>3, <4>4, EndsAreApart DEF TypeOK, References
      <4>6. {l.ends.first, l.ends.second} \subseteq about
        BY <1>5
      <4>7. QED
        BY <2>4, <4>5, <4>6
    <3>8. EndsKnown(t, links)'
      BY <3>7 DEF EndsKnown
    <3>9. Answerable(t, x)'
      BY <2>3, <3>8 DEF Answerable, SentOps, ProcessOps
    <3>10. Complete(x)'
      BY <2>3, <3>3, <3>6 DEF Complete
    <3>11. QED
      BY <3>9, <3>10
  <2>5. Fitting(t, "fetch_linked_words", x)
    BY <2>3 DEF Fitting, SentOps
  <2>6. QED
    BY <1>1, <2>1, <2>4, <2>5, ReadOneHeld
<1>7. CASE ~LinksPopulate(db, c.row.id)
  <2>1. Refuse(t)
    BY <1>2, <1>7 DEF fetch_linked_words
  <2>2. QED
    BY <2>1, RefuseHeld
<1>8. QED
  BY <1>6, <1>7

\* So are the datasets.
LEMMA FetchDatasetsHeld ==
    ASSUME TypeOK, ThreadsKnown, Indexed, Held, TypeOK', NEW t \in Threads, fetch_datasets(t)
    PROVE  Held'
<1>1. At(t, "fetch_datasets") /\ "fetch_datasets" \in FetchedOps \cap FirstOps
  BY DEF fetch_datasets, FetchedOps, FirstOps
<1>2. PICK c : c = Current(t)
  OBVIOUS
<1>3. PICK rows : rows = DatasetSuggestionsOf(db, c.row.id)
  OBVIOUS
<1> DEFINE x == Fetched("accept_just_word", c.row, c.examples, c.links, rows)
           found == TRUE
           about == {}
<1>4. Read(t, found, <<x>>, about)
  BY <1>2, <1>3 DEF fetch_datasets
<1>5. db' = db /\ broken' = broken /\ Observe
  BY <1>4 DEF Read
<1>6. /\ x.op = "accept_just_word" /\ x.row = c.row
      /\ x.examples = c.examples /\ x.links = c.links /\ x.datasets = rows
  BY DEF Fetched
<1> HIDE DEF x, found, about
<1>7. ASSUME claims'[t] = claims[t] \cup about
      PROVE  Answerable(t, x)' /\ Complete(x)'
  <2>1. Complete(c)' /\ Answerable(t, c)'
    BY <1>1, <1>2, <1>5, <1>7, StillComplete
  <2>2. c.op = "fetch_datasets"
    BY <1>1, <1>2, ProgramAt
  <2>3. /\ HasAll(c.row.id, "example_suggestions", c.examples)'
        /\ HasAll(c.row.id, "linked_word_suggestions", c.links)'
    BY <2>1, <2>2 DEF Complete
  <2>4. PartIds(db', "dataset_attribution_suggestions", c.row.id) = Ids(rows)
    BY <1>3, <1>5 DEF PartIds
  <2>5. HasAll(c.row.id, "dataset_attribution_suggestions", rows)'
    BY <2>4 DEF HasAll
  <2>6. EndsKnown(t, c.links)'
    BY <2>1, <2>2 DEF Answerable
  <2>7. Answerable(t, x)'
    BY <1>6, <2>6 DEF Answerable, SentOps, ProcessOps
  <2>8. Complete(x)'
    BY <1>6, <2>3, <2>5 DEF Complete
  <2>9. QED
    BY <2>7, <2>8
<1>8. Fitting(t, "fetch_datasets", x)
  BY <1>6 DEF Fitting, SentOps
<1>9. QED
  BY <1>1, <1>4, <1>7, <1>8, ReadOneHeld

-----------------------------------------------------------------------------
(* The acceptance of a word *)

\* Two sequences, one after the other.
LEMMA Joined ==
    ASSUME NEW A, NEW p \in Seq(A), NEW q \in Seq(A)
    PROVE  /\ p \o q \in Seq(A) /\ Len(p) \in Nat /\ Len(q) \in Nat
           /\ Len(p \o q) = Len(p) + Len(q)
           /\ \A k \in 1 .. Len(p) : (p \o q)[k] = p[k]
           /\ \A k \in 1 .. Len(p) + Len(q) : k > Len(p) => (p \o q)[k] = q[k - Len(p)]
<1>1. p \o q \in Seq(A) /\ Len(p) \in Nat /\ Len(q) \in Nat
  OBVIOUS
<1>2. Len(p \o q) = Len(p) + Len(q)
  OBVIOUS
<1>3. \A k \in 1 .. Len(p) : (p \o q)[k] = p[k]
  OBVIOUS
<1>4. \A k \in 1 .. Len(p) + Len(q) : k > Len(p) => (p \o q)[k] = q[k - Len(p)]
  OBVIOUS
<1>5. QED
  BY <1>1, <1>2, <1>3, <1>4

\* A program that ends with a message to the index, the DELETE of a suggestion and a
\* document has that DELETE last.
LEMMA EndsWithDelete ==
    ASSUME NEW Q, NEW q \in Seq(Q), \A x \in Q : x.op # "delete_word_suggestion",
           NEW i, NEW w, NEW p, i.op # "delete_word_suggestion", p.op = "index_put"
    PROVE  DropsLast(q \o <<i, w>> \o <<p>>)
<1> DEFINE two == <<i, w>>
           one == <<p>>
           A == Q \cup {i, w, p}
           r == q \o two
           s == r \o one
<1>1. /\ Len(two) = 2 /\ two[1] = i /\ two[2] = w
      /\ Len(one) = 1 /\ one[1] = p
  OBVIOUS
<1>2. \A k \in 1 .. Len(q) : q[k] \in Q
  OBVIOUS
<1>3. q \in Seq(A) /\ two \in Seq(A) /\ one \in Seq(A)
  OBVIOUS
<1> HIDE DEF two, one, A
<1>4. /\ r \in Seq(A) /\ Len(q) \in Nat /\ Len(r) = Len(q) + Len(two)
      /\ \A k \in 1 .. Len(q) : r[k] = q[k]
      /\ \A k \in 1 .. Len(q) + Len(two) : k > Len(q) => r[k] = two[k - Len(q)]
  BY <1>3, Joined, Zenon
<1> HIDE DEF r
<1>5. /\ Len(s) = Len(r) + Len(one)
      /\ \A k \in 1 .. Len(r) : s[k] = r[k]
      /\ \A k \in 1 .. Len(r) + Len(one) : k > Len(r) => s[k] = one[k - Len(r)]
  <2>1. r \in Seq(A)
    BY <1>4
  <2>2. QED
    BY <1>3, <2>1, Joined, Zenon
<1> HIDE DEF s
<1>6. Len(r) = Len(q) + 2 /\ Len(s) = Len(q) + 3
  BY <1>1, <1>4, <1>5
<1>7. \A k \in 1 .. Len(q) : s[k] \in Q
  BY <1>2, <1>4, <1>5, <1>6
<1>8. s[Len(q) + 1] = i
  <2> DEFINE k == Len(q) + 1
  <2>1. k \in 1 .. Len(q) + Len(two) /\ k > Len(q) /\ k - Len(q) = 1 /\ k \in 1 .. Len(r)
    BY <1>1, <1>4, <1>6
  <2> HIDE DEF k
  <2>2. r[k] = two[1] /\ s[k] = r[k]
    BY <1>4, <1>5, <2>1
  <2>3. QED
    BY <1>1, <2>2 DEF k
<1>9. s[Len(q) + 3] = p
  <2> DEFINE k == Len(q) + 3
  <2>1. k \in 1 .. Len(r) + Len(one) /\ k > Len(r) /\ k - Len(r) = 1
    BY <1>1, <1>4, <1>6
  <2> HIDE DEF k
  <2>2. s[k] = one[1]
    BY <1>5, <2>1
  <2>3. QED
    BY <1>1, <2>2 DEF k
<1>10. ASSUME NEW k \in 1 .. Len(s), s[k].op = "delete_word_suggestion"
       PROVE  k = Len(s) \/ (k + 1 = Len(s) /\ s[k + 1].op = "index_put")
  <2>1. k > Len(q)
    BY <1>4, <1>6, <1>7, <1>10
  <2>2. k # Len(q) + 1
    BY <1>8, <1>10
  <2>3. k = Len(q) + 2 \/ k = Len(q) + 3
    BY <1>4, <1>6, <2>1, <2>2
  <2>4. CASE k = Len(q) + 2
    <3>1. k + 1 = Len(q) + 3
      BY <1>4, <2>4
    <3>2. QED
      BY <1>6, <1>9, <3>1
  <2>5. QED
    BY <1>6, <2>3, <2>4
<1>11. DropsLast(s)
  BY <1>10 DEF DropsLast
<1>12. QED
  BY <1>11 DEF s, r, two, one

\* What the acceptance goes on to do has every part that was fetched ahead, and
\* the DELETE of the suggestion last.
LEMMA RestTakesParts ==
    ASSUME NEW c, NEW word
    PROVE  LET p == RestOfAcceptance(c, word)
               S == Statements(p)
           IN  /\ DropsLast(p)
               /\ \A x \in S : x.op = "accept_links" =>
                                   x.rows = c.links /\ x.suggestion = c.row.id
               /\ \A id \in Ids(c.examples) : Ahead(S, "example_suggestions", id)
               /\ \A id \in Ids(c.links) : Ahead(S, "linked_word_suggestions", id)
               /\ \A id \in Ids(c.datasets) : Ahead(S, "dataset_attribution_suggestions", id)
<1> DEFINE a == AddUserAttribution(c.row.user, word)
           e == [op |-> "accept_examples", rows |-> {}, word_id |-> word]
           d == [op |-> "accept_datasets", rows |-> {}, word_id |-> word]
           l == [op |-> "accept_links", rows |-> {}, word_id |-> word, suggestion |-> c.row.id]
           ee == [e EXCEPT !.rows = c.examples]
           dd == [d EXCEPT !.rows = c.datasets]
           ll == [l EXCEPT !.rows = c.links]
           i == IndexDelete(Suggested(c.row.id))
           w == [op |-> "delete_word_suggestion", id |-> c.row.id]
           p == IndexPut(Existing(word))
           X == {a, ee, dd, ll}
           Y == {i, w, p}
<1>1. /\ a.op = "add_user_attribution"
      /\ ee.op = "accept_examples" /\ ee.rows = c.examples
      /\ dd.op = "accept_datasets" /\ dd.rows = c.datasets
      /\ ll.op = "accept_links" /\ ll.rows = c.links /\ ll.suggestion = c.row.id
      /\ i.op = "index_delete" /\ w.op = "delete_word_suggestion" /\ p.op = "index_put"
  BY DEF AddUserAttribution, IndexDelete, IndexPut
<1>2. /\ Loop(e, c.examples) \in Seq({ee}) /\ Loop(d, c.datasets) \in Seq({dd})
      /\ Loop(l, c.links) \in Seq({ll})
  BY LoopStatements
<1>3. /\ c.examples # {} => Loop(e, c.examples) = <<ee>>
      /\ c.datasets # {} => Loop(d, c.datasets) = <<dd>>
      /\ c.links # {} => Loop(l, c.links) = <<ll>>
  BY DEF Loop
<1>4. RestOfAcceptance(c, word) =
          <<a>> \o Loop(e, c.examples) \o Loop(d, c.datasets) \o Loop(l, c.links)
          \o <<i, w>> \o <<p>>
  BY DEF RestOfAcceptance, DeleteWordSuggestion
<1> HIDE DEF a, ee, dd, ll, i, w, p
<1> DEFINE q1 == <<a>>
           q2 == Loop(e, c.examples)
           q3 == Loop(d, c.datasets)
           q4 == Loop(l, c.links)
           q5 == <<i, w>>
           q6 == <<p>>
<1>5. /\ q1 \in Seq(X) /\ q2 \in Seq(X) /\ q3 \in Seq(X) /\ q4 \in Seq(X)
      /\ q5 \in Seq(Y) /\ q6 \in Seq(Y)
  BY <1>2
<1>6. \A x : Statements(<<x>>) = {x}
  <2>1. ASSUME NEW x
        PROVE  Statements(<<x>>) = {x}
    <3>1. Len(<<x>>) = 1 /\ <<x>>[1] = x /\ 1 .. 1 = {1}
      OBVIOUS
    <3>2. QED
      BY <3>1 DEF Statements
  <2>2. QED
    BY <2>1
<1>7. /\ c.examples # {} => ee \in Statements(q2)
      /\ c.datasets # {} => dd \in Statements(q3)
      /\ c.links # {} => ll \in Statements(q4)
  BY <1>3, <1>6
<1>8. RestOfAcceptance(c, word) = q1 \o q2 \o q3 \o q4 \o q5 \o q6
  BY <1>4
<1>9. \A x \in X : /\ x.op # "delete_word_suggestion"
                   /\ x.op = "accept_links" => x.rows = c.links /\ x.suggestion = c.row.id
  BY <1>1
<1>10. \A x \in Y : x.op # "accept_links"
  BY <1>1
<1> HIDE DEF X, Y, q1, q2, q3, q4
<1> DEFINE r2 == q1 \o q2
           r3 == r2 \o q3
           r4 == r3 \o q4
           r5 == r4 \o q5
           r == r5 \o q6
           S == Statements(r)
<1>11. r2 \in Seq(X) /\ Statements(q2) \subseteq Statements(r2)
  BY <1>5, StatementsOfBoth
<1> HIDE DEF r2
<1>12. r3 \in Seq(X) /\ Statements(q2) \cup Statements(q3) \subseteq Statements(r3)
  BY <1>5, <1>11, StatementsOfBoth
<1> HIDE DEF r3
<1>13. /\ r4 \in Seq(X)
       /\ Statements(q2) \cup Statements(q3) \cup Statements(q4) \subseteq Statements(r4)
  BY <1>5, <1>12, StatementsOfBoth
<1>14. RestOfAcceptance(c, word) = r
  BY <1>8 DEF r2, r3
<1> HIDE DEF r4
<1>15. DropsLast(r)
  BY <1>1, <1>9, <1>13, EndsWithDelete
<1> HIDE DEF q5, q6
<1>16. r5 \in Seq(X \cup Y) /\ Statements(r5) = Statements(r4) \cup Statements(q5)
  <2>1. r5 \in Seq(X \cup Y)
    BY <1>5, <1>13
  <2>2. QED
    BY <1>5, <1>13, <2>1, StatementsOfBoth
<1> HIDE DEF r5
<1>17. S = Statements(r5) \cup Statements(q6)
  BY <1>5, <1>16, StatementsOfBoth
<1>18. /\ Statements(r4) \subseteq X
       /\ Statements(q5) \subseteq Y /\ Statements(q6) \subseteq Y
  BY <1>5, <1>13, StatementsOf
<1> HIDE DEF r, S
<1>19. \A x \in S : x.op = "accept_links" => x.rows = c.links /\ x.suggestion = c.row.id
  BY <1>9, <1>10, <1>16, <1>17, <1>18
<1>20. /\ \A id \in Ids(c.examples) : ee \in S
       /\ \A id \in Ids(c.links) : ll \in S
       /\ \A id \in Ids(c.datasets) : dd \in S
  BY <1>7, <1>13, <1>16, <1>17 DEF Ids
<1>21. /\ \A id \in Ids(c.examples) : Ahead(S, "example_suggestions", id)
       /\ \A id \in Ids(c.links) : Ahead(S, "linked_word_suggestions", id)
       /\ \A id \in Ids(c.datasets) : Ahead(S, "dataset_attribution_suggestions", id)
  BY <1>1, <1>20 DEF Ahead, AcceptOp
<1>22. QED
  BY <1>14, <1>15, <1>19, <1>21 DEF S

\* The word is made; each part that was fetched has its statement ahead of the DELETE.
LEMMA AcceptJustWordHeld ==
    ASSUME TypeOK, ThreadsKnown, Indexed, Held, TypeOK', NEW t \in Threads, accept_just_word(t)
    PROVE  Held'
<1>1. At(t, "accept_just_word") /\ "accept_just_word" \in FirstOps
  BY DEF accept_just_word, FirstOps, FetchedOps
<1>2. PICK c : c = Current(t)
  OBVIOUS
<1>3. PICK word : word = KeyOrNext(db, "words", c.row.existing_word_id)
  OBVIOUS
<1> DEFINE p == RestOfAcceptance(c, word)
           about == {Existing(word)}
           S == Statements(p)
<1>4. /\ db' = [db EXCEPT !.words = @ \cup {word}, !.seq = Bump(@, "words", word)]
      /\ Continue(t, p, about) /\ UNCHANGED <<index, forms, broken>> /\ Observe
  BY <1>2, <1>3 DEF accept_just_word
<1>5. /\ c \in Statements(todo[t]) /\ c.op = "accept_just_word"
      /\ todo[t] # <<>> /\ Tail(todo[t]) = <<>>
  BY <1>1, <1>2, ProgramAt, ShapeAt
<1>6. /\ c \in FetchedStatement /\ Complete(c) /\ Answerable(t, c)
  BY <1>1, <1>2, <1>5, AtFetched DEF Held, Orderly, At
<1>7. /\ p \in Seq(S) /\ S # {}
      /\ \A x \in S : /\ x.op \notin SentOps \cup FetchedOps \cup {"delete_word"}
                      /\ x.op = "index_put" => x.doc = Existing(word)
                      /\ x.op = "delete_word_suggestion" => x.id = c.row.id
  BY AcceptanceMoves
<1>8. \A x \in S : x.op \in AcceptanceOps
  <2>1. c.row.existing_word_id \in Nat
    BY <1>6 DEF FetchedStatement, WordSuggestionRow, OptionalId
  <2>2. word \in Id
    BY <1>3, <2>1, KeyOrNextType DEF TypeOK, AutoIncrement, OptionalId
  <2>3. QED
    BY <1>6, <2>2, RestOfAcceptanceKnown
<1>9. /\ DropsLast(p)
      /\ \A x \in S : x.op = "accept_links" => x.rows = c.links /\ x.suggestion = c.row.id
      /\ \A id \in Ids(c.examples) : Ahead(S, "example_suggestions", id)
      /\ \A id \in Ids(c.links) : Ahead(S, "linked_word_suggestions", id)
      /\ \A id \in Ids(c.datasets) : Ahead(S, "dataset_attribution_suggestions", id)
  BY RestTakesParts
<1>10. PICK x : x \in Statements(p)
  BY <1>7
<1> HIDE DEF p, about
<1>11. /\ Acts(t) /\ Statements(todo'[t]) = S /\ claims'[t] = claims[t] \cup about
       /\ todo'[t] = p
  <2>1. broken \subseteq broken'
    BY <1>4
  <2>2. todo'[t] = p \o Tail(todo[t])
    BY <1>4, <1>5, AboutStill
  <2> HIDE DEF S
  <2>3. todo'[t] = p
    BY <1>5, <1>7, <2>2, ConcatEmptySeq
  <2>4. QED
    BY <1>1, <1>4, <1>7, <1>10, <2>1, <2>3, BeginsAt DEF S
<1> HIDE DEF S
<1>12. /\ FewerParts(db') /\ SuggestionSeq' = SuggestionSeq /\ SuggestionSeq \in Nat
       /\ \A table, s : PartIds(db', table, s) = PartIds(db, table, s)
  <2>1. /\ db'.example_suggestions = db.example_suggestions
        /\ db'.linked_word_suggestions = db.linked_word_suggestions
        /\ db'.dataset_attribution_suggestions = db.dataset_attribution_suggestions
        /\ db'.seq = Bump(db.seq, "words", word)
    BY <1>4 DEF TypeOK, Database
  <2>2. SuggestionSeq' = SuggestionSeq
    BY <2>1 DEF Bump, TypeOK, Database, AutoIncrement, SuggestionSeq
  <2>3. \A table, s : PartIds(db', table, s) = PartIds(db, table, s)
    BY <2>1 DEF PartIds, ExampleSuggestionsOf, LinkSuggestionsOf, DatasetSuggestionsOf
  <2>4. QED
    BY <2>1, <2>2, <2>3, SuggestionSeqType DEF FewerParts
<1>13. Keeps(t)
  <2>1. SentBy(t)' = {}
    BY <1>7, <1>11 DEF SentBy
  <2>2. \A w \in Sheets' : w \in Sheets
    BY <1>4, <1>11, <2>1, SheetsOf DEF Acts
  <2>3. \A s \in Id : NoNewParts(db', s)
    BY <1>12, NoneAdded
  <2>4. db'.linked_word_suggestions \subseteq db.linked_word_suggestions
    BY <1>12 DEF FewerParts
  <2>5. SuggestionSeq <= SuggestionSeq'
    BY <1>12
  <2>6. QED
    BY <1>4, <2>2, <2>3, <2>4, <2>5 DEF Keeps
<1>14. \A y \in S : Answerable(t, y)' /\ Complete(y)'
  <2>1. EndsKnown(t, c.links)'
    BY <1>5, <1>6, <1>11 DEF Answerable, EndsKnown
  <2>2. Existing(word)[1] # "suggested"
    BY DEF Existing
  <2>3. ASSUME NEW y \in S
        PROVE  Answerable(t, y)' /\ Complete(y)'
    <3>1. y.op \in AcceptanceOps
      BY <1>8 DEF S
    <3>2. y.op = "accept_links" => EndsKnown(t, y.rows)'
      BY <1>9, <2>1
    <3>3. y.op = "index_put" => y.doc[1] # "suggested"
      BY <1>7, <2>2
    <3>4. Answerable(t, y)'
      BY <3>1, <3>2, <3>3 DEF Answerable, AcceptanceOps, SharedOps, SentOps, ProcessOps
    <3>5. QED
      BY <3>1, <3>4 DEF Complete, AcceptanceOps, SharedOps
  <2>4. QED
    BY <2>3
<1>15. ASSUME NEW s \in Id, WillAccept(t, s)'
       PROVE  Covered(t, s)'
  <2>1. s = c.row.id
    BY <1>7, <1>11, <1>15 DEF WillAccept, WillDrop
  <2>2. Excused \subseteq Excused'
    BY <1>11, OverlapsExcused
  <2>3. ASSUME Suggested(s) \notin Excused', NEW table \in PartTables, NEW id \in PartIds(db', table, s)
        PROVE  Ahead(S, table, id)
    <3>1. id \in PartIds(db, table, s)
      BY <1>12, <2>3
    <3>2. /\ HasAll(s, "example_suggestions", c.examples)
          /\ HasAll(s, "linked_word_suggestions", c.links)
          /\ HasAll(s, "dataset_attribution_suggestions", c.datasets)
      BY <1>5, <1>6, <2>1 DEF Complete
    <3>3. Suggested(s) \notin Excused
      BY <2>2, <2>3
    <3>4. QED
      BY <1>9, <3>1, <3>2, <3>3 DEF HasAll, PartTables
  <2>4. QED
    BY <1>11, <2>3 DEF Covered
<1>16. Orderly(t)'
  <2>1. DropsItsOwn(t)'
    BY <1>7, <1>9, <1>11 DEF DropsItsOwn
  <2>2. DropsLast(todo[t])'
    BY <1>9, <1>11
  <2>3. QED
    BY <1>11, <1>14, <1>15, <2>1, <2>2 DEF Orderly
<1>17. QED
  BY <1>11, <1>13, <1>16, StepHeld

\* One turn of a loop over parts: the row is deleted next, the others are still to
\* be accepted.
LEMMA TurnAhead ==
    ASSUME NEW t, NEW c, c = Current(t), NEW table \in PartTables, c.op = AcceptOp(table),
           NEW r \in c.rows, NEW d, FewerParts(d), NEW S,
           \E y \in S : y.op = "delete_row" /\ y.table = table /\ y.id = r.id,
           c.rows \ {r} # {} => \E z \in S : z.op = c.op /\ z.rows = c.rows \ {r}
    PROVE  PartsStayAhead(t, d, S)
<1>1. ASSUME NEW other \in PartTables, NEW id, Ahead({c}, other, id)
      PROVE  Ahead(S, other, id)
  <2>1. c.op # "delete_row"
    BY DEF AcceptOp, PartTables
  <2>2. c.op = AcceptOp(other) /\ id \in Ids(c.rows)
    BY <1>1, <2>1 DEF Ahead
  <2>3. other = table
    BY <2>2 DEF AcceptOp, PartTables
  <2>4. PICK q \in c.rows : q.id = id
    BY <2>2 DEF Ids
  <2>5. CASE q = r
    BY <2>3, <2>4, <2>5 DEF Ahead
  <2>6. CASE q # r
    <3>1. q \in c.rows \ {r}
      BY <2>6
    <3>2. PICK z \in S : z.op = c.op /\ z.rows = c.rows \ {r}
      BY <3>1
    <3>3. id \in Ids(z.rows)
      BY <2>4, <3>1, <3>2 DEF Ids
    <3>4. QED
      BY <2>3, <3>2, <3>3 DEF Ahead
  <2>7. QED
    BY <2>5, <2>6
<1>2. QED
  BY <1>1, NoneAdded DEF PartsStayAhead

\* What such a turn goes on with.
LEMMA TurnStatements ==
    ASSUME NEW x, NEW y, NEW c, NEW S
    PROVE  LET z == [c EXCEPT !.rows = S]
               p == <<x, y>> \o Loop(c, S)
           IN  /\ p \in Seq({x, y, z})
               /\ y \in Statements(p)
               /\ S # {} => z \in Statements(p)
<1> DEFINE z == [c EXCEPT !.rows = S]
           X == {x, y, z}
           q == Loop(c, S)
           r == <<x, y>>
<1>1. q \in Seq({z})
  BY LoopStatements
<1>2. S # {} => q = <<z>>
  BY DEF Loop
<1> HIDE DEF q, z
<1>3. q \in Seq(X) /\ r \in Seq(X)
  BY <1>1
<1>4. S # {} => z \in Statements(q)
  <2>1. Len(<<z>>) = 1 /\ <<z>>[1] = z
    OBVIOUS
  <2>2. QED
    BY <1>2, <2>1 DEF Statements
<1>5. y \in Statements(r)
  <2>1. Len(r) = 2 /\ r[2] = y
    OBVIOUS
  <2>2. QED
    BY <2>1 DEF Statements
<1> HIDE DEF r, X
<1>6. r \o q \in Seq(X) /\ Statements(r \o q) = Statements(r) \cup Statements(q)
  BY <1>3, StatementsOfBoth
<1>7. QED
  BY <1>4, <1>5, <1>6 DEF r, q, X, z

\* So of examples and datasets.
LEMMA TurnHeld ==
    ASSUME TypeOK, ThreadsKnown, Indexed, Held, TypeOK', NEW t \in Threads, NEW op, At(t, op),
           NEW table \in PartTables, op = AcceptOp(table), op # "accept_links",
           NEW c, c = Current(t), NEW r \in c.rows, c \in AcceptStatement,
           NEW user, NEW word, NEW allowed, NEW after,
           Write(t, allowed, after,
                 <<AddUserAttribution(user, word), DeleteRow(table, r.id)>>
                 \o Loop(c, c.rows \ {r})),
           FewerParts(after), after.seq["word_suggestions"] = SuggestionSeq
    PROVE  Held'
<1> DEFINE S == c.rows \ {r}
           x == AddUserAttribution(user, word)
           y == DeleteRow(table, r.id)
           z == [c EXCEPT !.rows = S]
           X == {x, y, z}
           p == <<x, y>> \o Loop(c, S)
<1>1. Write(t, allowed, after, p)
  OBVIOUS
<1>2. /\ p \in Seq(X) /\ y \in Statements(p)
      /\ S # {} => z \in Statements(p)
  BY TurnStatements
<1>3. c.op = op
  BY ProgramAt
<1>4. z.op = op /\ (S # {} => z.rows = S)
  BY <1>3 DEF AcceptStatement, AcceptOp, PartTables
<1>5. y.op = "delete_row" /\ y.table = table /\ y.id = r.id /\ x.op = "add_user_attribution"
  BY DEF DeleteRow, AddUserAttribution
<1>6. op \in {"accept_examples", "accept_datasets"}
  BY DEF AcceptOp, PartTables
<1> HIDE DEF x, y, z
<1>7. \A s \in X : Bland(s)
  BY <1>4, <1>5, <1>6 DEF Bland, MindedOps, SentOps, ProcessOps
<1>8. \A s \in X : Fitting(t, op, s)
  BY <1>7, BlandFits
<1>9. \A s \in X : Answerable(t, s)' /\ Complete(s)'
  BY <1>7, BlandFits
<1> HIDE DEF p, X
<1>10. PartsStayAhead(t, after, Statements(p))
  BY <1>2, <1>3, <1>4, <1>5, TurnAhead DEF S
<1>11. Harmless(t, op, after, Statements(p))
  <2>1. SuggestionSeq <= after.seq["word_suggestions"]
    BY SuggestionSeqType
  <2>2. QED
    BY <1>10, <2>1, NoneAdded DEF Harmless, FewerParts
<1>12. QED
  BY <1>1, <1>2, <1>8, <1>9, <1>11, WriteHeld

\* An example that is accepted has its suggestion deleted next.
LEMMA AcceptExampleHeld ==
    ASSUME TypeOK, ThreadsKnown, Indexed, Held, TypeOK', NEW t \in Threads, accept_example(t)
    PROVE  Held'
<1>1. At(t, "accept_examples")
  BY DEF accept_example
<1>2. PICK c : c = Current(t)
  OBVIOUS
<1>3. PICK r \in c.rows :
          Write(t, r.existing_example_id \in Ids(db.examples) \/ c.word_id \in db.words,
                PutExample(db, r.existing_example_id, c.word_id),
                <<AddUserAttribution(r.user, c.word_id), DeleteExampleSuggestion(r.id)>>
                \o Loop(c, c.rows \ {r}))
  BY <1>2 DEF accept_example
<1> DEFINE allowed == r.existing_example_id \in Ids(db.examples) \/ c.word_id \in db.words
           after == PutExample(db, r.existing_example_id, c.word_id)
           tbl == "example_suggestions"
           table == "examples"
           key == KeyOrNext(db, "examples", r.existing_example_id)
           op == "accept_examples"
<1>4. c \in AcceptStatement
  BY <1>1, <1>2, AtAccept, ProgramAt
<1>5. /\ after.words = db.words /\ after.word_suggestions = db.word_suggestions
      /\ after.seq = db.seq \/ after.seq = Bump(db.seq, table, key)
      /\ table # "word_suggestions"
  BY DEF TypeOK, Database, PutExample
<1>6. FewerParts(after)
  BY DEF TypeOK, Database, PutExample, FewerParts
<1>7. Write(t, allowed, after,
            <<AddUserAttribution(r.user, c.word_id), DeleteRow(tbl, r.id)>>
            \o Loop(c, c.rows \ {r}))
  BY <1>3 DEF DeleteExampleSuggestion
<1>8. tbl \in PartTables /\ op = AcceptOp(tbl) /\ op # "accept_links" /\ At(t, op)
  BY <1>1 DEF PartTables, AcceptOp
<1> HIDE DEF allowed, after, tbl, table, key, op
<1>9. after.seq["word_suggestions"] = SuggestionSeq
  BY <1>5, TablesStill DEF Still, SuggestionSeq
<1>10. QED
  BY <1>2, <1>4, <1>6, <1>7, <1>8, <1>9, TurnHeld

\* So has a dataset.
LEMMA AcceptDatasetHeld ==
    ASSUME TypeOK, ThreadsKnown, Indexed, Held, TypeOK', NEW t \in Threads, accept_dataset(t)
    PROVE  Held'
<1>1. At(t, "accept_datasets")
  BY DEF accept_dataset
<1>2. PICK c : c = Current(t)
  OBVIOUS
<1>3. PICK r \in c.rows :
          LET pair == <<c.word_id, r.dataset>>
          IN  Write(t, r.is_delete \/ c.word_id \in db.words,
                    [db EXCEPT !.dataset_attributions =
                        IF r.is_delete THEN @ \ {pair} ELSE @ \cup {pair}],
                    <<AddUserAttribution(r.user, c.word_id), DeleteDatasetSuggestion(r.id)>>
                    \o Loop(c, c.rows \ {r}))
  BY <1>2 DEF accept_dataset
<1> DEFINE pair == <<c.word_id, r.dataset>>
           allowed == r.is_delete \/ c.word_id \in db.words
           after == [db EXCEPT !.dataset_attributions =
                        IF r.is_delete THEN @ \ {pair} ELSE @ \cup {pair}]
           table == "dataset_attribution_suggestions"
           op == "accept_datasets"
<1>4. c \in AcceptStatement
  BY <1>1, <1>2, AtAccept, ProgramAt
<1>5. FewerParts(after) /\ after.seq["word_suggestions"] = SuggestionSeq
  BY DEF TypeOK, Database, FewerParts, SuggestionSeq
<1>6. Write(t, allowed, after,
            <<AddUserAttribution(r.user, c.word_id), DeleteRow(table, r.id)>>
            \o Loop(c, c.rows \ {r}))
  BY <1>3 DEF DeleteDatasetSuggestion
<1>7. table \in PartTables /\ op = AcceptOp(table) /\ op # "accept_links" /\ At(t, op)
  BY <1>1 DEF PartTables, AcceptOp
<1> HIDE DEF pair, allowed, after, table, op
<1>8. QED
  BY <1>2, <1>4, <1>5, <1>6, <1>7, TurnHeld

\* A link between two words is put in the dictionary, and its row is deleted next.
LEMMA PutLinkHeld ==
    ASSUME TypeOK, ThreadsKnown, Indexed, Held, TypeOK', NEW t \in Threads,
           NEW op \in {"accept_links", "accept_link"}, At(t, op),
           NEW c, c = Current(t), NEW l, NEW ends, NEW Y, NEW rest \in Seq(Y),
           op = "accept_links" => l \in c.rows,
           op = "accept_links" /\ c.rows \ {l} # {} =>
               \E z \in Statements(rest) : z.op = op /\ z.rows = c.rows \ {l},
           \A s \in Y : Fitting(t, op, s),
           claims[t] \subseteq claims'[t] /\ SuggestionSeq <= SuggestionSeq' =>
               \A s \in Y : Answerable(t, s)' /\ Complete(s)',
           PutLink(t, l, ends, rest)
    PROVE  Held'
<1> DEFINE first == ends.first[2]
           second == ends.second[2]
           allowed == \/ l.existing_id \in Ids(db.linked_words)
                      \/ first \in db.words /\ second \in db.words
           after == PutLinkedWord(db, l.existing_id, first, second)
           x == AddUserAttribution(l.user, first)
           y == AddUserAttribution(l.user, second)
           z == DeleteLinkedWordSuggestion(l.id)
           X == {x, y, z} \cup Y
           q == <<x, y, z>>
           p == q \o rest
           table == "linked_words"
           tbl == "linked_word_suggestions"
           key == KeyOrNext(db, "linked_words", l.existing_id)
<1>1. Write(t, allowed, after, p)
  BY DEF PutLink
<1>2. /\ after.words = db.words /\ after.word_suggestions = db.word_suggestions
      /\ after.seq = db.seq \/ after.seq = Bump(db.seq, table, key)
      /\ table # "word_suggestions"
  BY DEF TypeOK, Database, PutLinkedWord
<1>3. FewerParts(after)
  BY DEF TypeOK, Database, PutLinkedWord, FewerParts
<1>4. /\ x.op = "add_user_attribution" /\ y.op = "add_user_attribution"
      /\ z.op = "delete_row" /\ z.table = tbl /\ z.id = l.id
  BY DEF DeleteLinkedWordSuggestion, DeleteRow, AddUserAttribution
<1>5. tbl \in PartTables /\ AcceptOp(tbl) = "accept_links" /\ c.op = op
  BY ProgramAt DEF PartTables, AcceptOp
<1> HIDE DEF allowed, after, x, y, z, table, key, tbl
<1>6. Bland(x) /\ Bland(y) /\ Bland(z)
  BY <1>4 DEF Bland, MindedOps, SentOps, ProcessOps
<1>7. after.seq["word_suggestions"] = SuggestionSeq
  BY <1>2, TablesStill DEF Still, SuggestionSeq
<1>8. z \in Statements(q)
  <2>1. Len(q) = 3 /\ q[3] = z
    OBVIOUS
  <2>2. QED
    BY <2>1 DEF Statements
<1>9. q \in Seq(X) /\ rest \in Seq(X)
  OBVIOUS
<1>10. \A s \in X : Fitting(t, op, s)
  BY <1>6, BlandFits
<1>11. claims[t] \subseteq claims'[t] /\ SuggestionSeq <= SuggestionSeq' =>
           \A s \in X : Answerable(t, s)' /\ Complete(s)'
  BY <1>6, BlandFits
<1> HIDE DEF X, q
<1>12. p \in Seq(X) /\ Statements(p) = Statements(q) \cup Statements(rest)
  <2>1. p \in Seq(X)
    BY <1>9
  <2>2. QED
    BY <1>9, <2>1, StatementsOfBoth
<1> HIDE DEF p
<1>13. PartsStayAhead(t, after, Statements(p))
  <2>1. CASE op = "accept_links"
    BY <1>3, <1>4, <1>5, <1>8, <1>12, <2>1, TurnAhead
  <2>2. CASE op = "accept_link"
    <3>1. Current(t).op \notin PartOps
      BY <1>5, <2>2 DEF PartOps
    <3>2. QED
      BY <1>3, <3>1, OthersStayAhead
  <2>3. QED
    BY <2>1, <2>2
<1>14. Harmless(t, op, after, Statements(p))
  <2>1. SuggestionSeq <= after.seq["word_suggestions"]
    BY <1>7, SuggestionSeqType
  <2>2. QED
    BY <1>3, <1>13, <2>1, NoneAdded DEF Harmless, FewerParts
<1>15. allowed /\ db' = after /\ claims[t] \subseteq claims'[t] =>
           \A s \in X : Answerable(t, s)' /\ Complete(s)'
  <2>1. db' = after => SuggestionSeq <= SuggestionSeq'
    BY <1>14 DEF Harmless, SuggestionSeq
  <2>2. QED
    BY <1>11, <2>1
<1>16. QED
  BY <1>1, <1>10, <1>12, <1>14, <1>15, WriteHeld

\* Once its word is there, a link names the suggestion no more.
LEMMA AcceptedEnds ==
    ASSUME NEW first \in WordOrSuggestionId, NEW second \in WordOrSuggestionId,
           NEW l, l.ends = [first |-> first, second |-> second], EndsApart(l.ends),
           NEW s \in Id, NEW word \in Id,
           NEW ends, ends = EndsAccepted(l.ends, s, word)
    PROVE  LET i == IntoSuggested(ends.first)
               j == IntoSuggested(ends.second)
           IN  /\ i # s /\ j # s
               /\ i = Null \/ j = Null
               /\ i # Null => Suggested(i) \in {l.ends.first, l.ends.second}
               /\ j # Null => Suggested(j) \in {l.ends.first, l.ends.second}
<1>1. /\ l.ends.first = first /\ l.ends.second = second
      /\ \/ ends.first = Existing(word) /\ ends.second = second /\ first = Suggested(s)
         \/ ends.first = first /\ ends.second = Existing(word) /\ first # Suggested(s)
  BY DEF EndsAccepted
<1>2. IntoSuggested(Existing(word)) = Null
  BY DEF IntoSuggested, Existing
<1>3. \A e \in WordOrSuggestionId :
          /\ IntoSuggested(e) # Null => Suggested(IntoSuggested(e)) = e
          /\ IntoSuggested(e) = s => e = Suggested(s)
  BY DEF IntoSuggested, Suggested, WordOrSuggestionId, Id
<1>4. s # Null
  BY DEF Id
<1>5. first = Suggested(s) => second # Suggested(s)
  BY <1>1 DEF EndsApart, Suggested
<1>6. QED
  BY <1>1, <1>2, <1>3, <1>4, <1>5

\* A link that waits for its other word is brought up to date: it is a part of that
\* word's suggestion still, and no more of this one.
LEMMA UpdateHeld ==
    ASSUME TypeOK, ThreadsKnown, Indexed, Held, TypeOK', NEW t \in Threads,
           At(t, "accept_links"),
           NEW c, c = Current(t), NEW l \in c.rows, l \in PopulatedLink,
           c \in AcceptStatement, c.word_id \in Id, c.suggestion \in Id,
           NEW ends, ends = EndsAccepted(l.ends, c.suggestion, c.word_id),
           NEW Y, NEW rest \in Seq(Y),
           c.rows \ {l} # {} =>
               \E z \in Statements(rest) : z.op = "accept_links" /\ z.rows = c.rows \ {l},
           \A s \in Y : Fitting(t, "accept_links", s),
           claims[t] \subseteq claims'[t] /\ SuggestionSeq <= SuggestionSeq' =>
               \A s \in Y : Answerable(t, s)' /\ Complete(s)',
           update_first_and_second(t, l, ends, rest)
    PROVE  Held'
<1> DEFINE first == IntoExisting(ends.first)
           second == IntoExisting(ends.second)
           i == IntoSuggested(ends.first)
           j == IntoSuggested(ends.second)
           Updated(r) == [r EXCEPT !.first_existing_word_id = first,
                                   !.second_existing_word_id = second,
                                   !.suggested_word_id = i,
                                   !.second_suggested_word_id = j]
           rows == {IF r.id = l.id THEN Updated(r) ELSE r : r \in db.linked_word_suggestions}
           allowed == \A r \in rows : r.id = l.id => LinkedWordSuggestionOk(db, r)
           after == [db EXCEPT !.linked_word_suggestions = rows]
           op == "accept_links"
           table == "linked_word_suggestions"
<1>1. Write(t, allowed, after, rest)
  BY DEF update_first_and_second
<1>2. c.op = op /\ c \in Statements(todo[t])
  BY ProgramAt
<1>3. EndsKnown(t, c.rows)
  BY <1>2 DEF Held, Orderly, Answerable
<1>4. {l.ends.first, l.ends.second} \subseteq claims[t] /\ EndsApart(l.ends)
  BY <1>3 DEF EndsKnown
<1>5. /\ i # c.suggestion /\ j # c.suggestion /\ (i = Null \/ j = Null)
      /\ i # Null => Suggested(i) \in claims[t]
      /\ j # Null => Suggested(j) \in claims[t]
  <2>1. PICK a \in WordOrSuggestionId, b \in WordOrSuggestionId :
            l.ends = [first |-> a, second |-> b]
    BY DEF PopulatedLink, Ends
  <2>2. /\ i # c.suggestion /\ j # c.suggestion /\ (i = Null \/ j = Null)
        /\ i # Null => Suggested(i) \in {l.ends.first, l.ends.second}
        /\ j # Null => Suggested(j) \in {l.ends.first, l.ends.second}
    BY <1>4, <2>1, AcceptedEnds
  <2>3. QED
    BY <1>4, <2>2
<1> HIDE DEF first, second, i, j
<1>6. \A r \in db.linked_word_suggestions :
          Updated(r).id = r.id /\ Updated(r).suggested_word_id = i
          /\ Updated(r).second_suggested_word_id = j
  BY DEF TypeOK, Database, LinkedWordSuggestionRow
<1> HIDE DEF Updated
<1>7. ASSUME NEW r \in rows
      PROVE  \/ r \in db.linked_word_suggestions /\ r.id # l.id
             \/ r.id = l.id /\ r.suggested_word_id = i /\ r.second_suggested_word_id = j
  BY <1>6
<1>8. /\ after.linked_word_suggestions = rows
      /\ after.example_suggestions = db.example_suggestions
      /\ after.dataset_attribution_suggestions = db.dataset_attribution_suggestions
      /\ after.seq = db.seq
  BY DEF TypeOK, Database
<1> HIDE DEF rows, allowed, after
<1>9. ASSUME NEW s \in Id, s # i, s # j
      PROVE  /\ NoNewParts(after, s)
             /\ l.id \notin PartIds(after, table, s)
  <2>1. \A r \in LinkSuggestionsOf(after, s) : r \in LinkSuggestionsOf(db, s) /\ r.id # l.id
    BY <1>7, <1>8, <1>9 DEF LinkSuggestionsOf
  <2>2. /\ PartIds(after, table, s) \subseteq PartIds(db, table, s)
        /\ l.id \notin PartIds(after, table, s)
    BY <2>1 DEF PartIds, Ids
  <2>3. \A other \in PartTables \ {table} : PartIds(after, other, s) = PartIds(db, other, s)
    BY <1>8 DEF PartTables, PartIds, ExampleSuggestionsOf, DatasetSuggestionsOf
  <2>4. QED
    BY <2>2, <2>3 DEF NoNewParts
<1>10. PartsStayAhead(t, after, Statements(rest))
  <2>1. ASSUME NEW s \in Id, WillAccept(t, s)
        PROVE  s = c.suggestion
    BY <1>2, <2>1 DEF Held, Orderly, DropsItsOwn, WillAccept, WillDrop
  <2>2. ASSUME NEW s \in Id, WillAccept(t, s), NEW other \in PartTables,
               NEW id \in PartIds(after, other, s), Ahead({c}, other, id)
        PROVE  Ahead(Statements(rest), other, id)
    <3>1. c.op = AcceptOp(other) /\ id \in Ids(c.rows)
      BY <1>2, <2>2 DEF Ahead
    <3>2. other = table
      BY <1>2, <3>1 DEF AcceptOp, PartTables
    <3>3. id # l.id
      BY <1>5, <1>9, <2>1, <2>2, <3>2
    <3>4. PICK m \in c.rows : m.id = id
      BY <3>1 DEF Ids
    <3>5. m \in c.rows \ {l}
      BY <3>3, <3>4
    <3>6. PICK z \in Statements(rest) : z.op = op /\ z.rows = c.rows \ {l}
      BY <3>5
    <3>7. id \in Ids(z.rows)
      BY <3>4, <3>5, <3>6 DEF Ids
    <3>8. QED
      BY <1>2, <3>1, <3>6, <3>7 DEF Ahead
  <2>3. \A s \in Id : WillAccept(t, s) => NoNewParts(after, s)
    BY <1>5, <1>9, <2>1
  <2>4. QED
    BY <2>2, <2>3 DEF PartsStayAhead
<1>11. Harmless(t, op, after, Statements(rest))
  <2>1. SuggestionSeq <= after.seq["word_suggestions"]
    BY <1>8, SuggestionSeqType DEF SuggestionSeq
  <2>2. \A r \in after.linked_word_suggestions :
            r \in db.linked_word_suggestions \/ LinkApart(r)
    BY <1>5, <1>7, <1>8 DEF LinkApart
  <2>3. \A s \in Id : Suggested(s) \in claims[t] \/ NoNewParts(after, s)
    <3>1. ASSUME NEW s \in Id
          PROVE  Suggested(s) \in claims[t] \/ NoNewParts(after, s)
      <4>1. CASE s # i /\ s # j
        BY <1>9, <4>1
      <4>2. CASE s = i \/ s = j
        BY <1>5, <4>2 DEF Id
      <4>3. QED
        BY <4>1, <4>2
    <3>2. QED
      BY <3>1
  <2>4. QED
    BY <1>10, <2>1, <2>2, <2>3 DEF Harmless
<1>12. allowed /\ db' = after /\ claims[t] \subseteq claims'[t] =>
           \A s \in Y : Answerable(t, s)' /\ Complete(s)'
  <2>1. db' = after => SuggestionSeq <= SuggestionSeq'
    BY <1>11 DEF Harmless, SuggestionSeq
  <2>2. QED
    BY <2>1
<1>13. At(t, op) /\ \A s \in Y : Fitting(t, op, s)
  OBVIOUS
<1> HIDE DEF op
<1>14. QED
  BY <1>1, <1>11, <1>12, <1>13, WriteHeld

\* One turn of the loop over the links of an accepted word, and the acceptance
\* of one link.
LEMMA AcceptLinkHeld ==
    ASSUME TypeOK, ThreadsKnown, Indexed, Held, TypeOK', NEW t \in Threads,
           accept_link_of_word(t) \/ accept_link(t)
    PROVE  Held'
<1>1. CASE accept_link_of_word(t)
  <2>1. At(t, "accept_links")
    BY <1>1 DEF accept_link_of_word
  <2>2. PICK c : c = Current(t)
    OBVIOUS
  <2>3. c \in [op: {"accept_links"}, rows: SUBSET PopulatedLink, word_id: Id, suggestion: Id]
    BY <2>1, <2>2, AtAccept, ProgramAt DEF AcceptStatement
  <2>4. PICK l \in c.rows :
            LET ends == EndsAccepted(l.ends, c.suggestion, c.word_id)
                rest == Loop(c, c.rows \ {l})
            IN  PutLink(t, l, ends, rest) \/ update_first_and_second(t, l, ends, rest)
    BY <1>1, <2>2 DEF accept_link_of_word
  <2>5. c \in AcceptStatement
    BY <2>1, <2>2, AtAccept
  <2>6. EndsKnown(t, c.rows) /\ c.op = "accept_links"
    <3>1. c \in Statements(todo[t]) /\ c.op = "accept_links"
      BY <2>1, <2>2, ProgramAt
    <3>2. QED
      BY <3>1 DEF Held, Orderly, Answerable
  <2> DEFINE ends == EndsAccepted(l.ends, c.suggestion, c.word_id)
             rest == Loop(c, c.rows \ {l})
             z == [c EXCEPT !.rows = c.rows \ {l}]
             Y == {z}
             op == "accept_links"
  <2>7. rest \in Seq(Y) /\ (c.rows \ {l} # {} => rest = <<z>>)
    BY LoopStatements DEF Loop
  <2>8. z.op = "accept_links" /\ z.suggestion = c.suggestion /\ z.rows = c.rows \ {l}
    BY <2>3
  <2> HIDE DEF z, rest
  <2>9. c.rows \ {l} # {} =>
            \E y \in Statements(rest) : y.op = op /\ y.rows = c.rows \ {l}
    <3>1. Len(<<z>>) = 1 /\ <<z>>[1] = z
      OBVIOUS
    <3>2. rest = <<z>> => z \in Statements(rest)
      BY <3>1 DEF Statements
    <3>3. QED
      BY <2>7, <2>8, <3>2
  <2>10. Fitting(t, op, z)
    BY <2>2, <2>8 DEF Fitting, SentOps
  <2>11. claims[t] \subseteq claims'[t] => Answerable(t, z)' /\ Complete(z)'
    BY <2>6, <2>8 DEF Answerable, Complete, SentOps, ProcessOps, EndsKnown
  <2>12. PutLink(t, l, ends, rest) \/ update_first_and_second(t, l, ends, rest)
    BY <2>4 DEF rest
  <2>13. /\ \A s \in Y : Fitting(t, op, s)
         /\ claims[t] \subseteq claims'[t] /\ SuggestionSeq <= SuggestionSeq' =>
                \A s \in Y : Answerable(t, s)' /\ Complete(s)'
    BY <2>10, <2>11
  <2>14. /\ l \in PopulatedLink /\ c.word_id \in Id /\ c.suggestion \in Id
         /\ op \in {"accept_links", "accept_link"} /\ At(t, op)
    BY <2>1, <2>3
  <2> HIDE DEF ends, Y
  <2>15. CASE PutLink(t, l, ends, rest)
    <3> HIDE DEF op
    <3>1. QED
      BY <2>2, <2>7, <2>9, <2>13, <2>14, <2>15, PutLinkHeld
  <2>16. CASE update_first_and_second(t, l, ends, rest)
    BY <2>1, <2>2, <2>5, <2>7, <2>9, <2>13, <2>14, <2>16, UpdateHeld DEF ends
  <2>17. QED
    BY <2>12, <2>15, <2>16
<1>2. CASE accept_link(t)
  <2> DEFINE l == Current(t).link
             ends == l.ends
             Y == {}
             rest == <<>>
             op == "accept_link"
  <2>1. /\ At(t, op) /\ PutLink(t, l, ends, rest) /\ rest \in Seq(Y) /\ Y = {}
        /\ op \in {"accept_links", "accept_link"} /\ op # "accept_links"
    BY <1>2 DEF accept_link
  <2>2. PICK c : c = Current(t)
    OBVIOUS
  <2> HIDE DEF l, ends, Y, rest, op
  <2>3. QED
    BY <2>1, <2>2, PutLinkHeld
<1>3. QED
  BY <1>1, <1>2

\* A part whose row is deleted is gone.
LEMMA DeleteRowHeld ==
    ASSUME TypeOK, ThreadsKnown, Indexed, Held, TypeOK', NEW t \in Threads, ExecDeleteRow(t)
    PROVE  Held'
<1>1. PICK s : s = Current(t)
  OBVIOUS
<1> DEFINE after == [db EXCEPT ![s.table] = Drop(@, s.id)]
           allowed == TRUE
           X == {}
           p == <<>>
           op == "delete_row"
<1>2. At(t, op) /\ Write(t, allowed, after, p) /\ p \in Seq(X) /\ X = {}
  <2>1. /\ At(t, "delete_row")
        /\ Write(t, TRUE, [db EXCEPT ![Current(t).table] = Drop(@, Current(t).id)], <<>>)
    BY DEF ExecDeleteRow
  <2>2. Write(t, TRUE, [db EXCEPT ![s.table] = Drop(@, s.id)], <<>>)
    BY <1>1, <2>1
  <2>3. p \in Seq(X) /\ X = {}
    OBVIOUS
  <2>4. QED
    BY <2>1, <2>2, <2>3
<1>3. s.table \in LeafTables /\ s.op = op
  <2>1. s \in SharedStatement /\ s.op = "delete_row"
    BY <1>1, <1>2, AtShared, ProgramAt
  <2>2. QED
    BY <2>1 DEF SharedStatement
<1>4. FewerParts(after) /\ after.seq = db.seq
  BY <1>3 DEF FewerParts, LeafTables, Drop, TypeOK, Database
<1>5. \A other \in PartTables : other = s.table => \A r \in after[other] : r.id # s.id
  BY <1>3 DEF PartTables, Drop, TypeOK, Database
<1>6. \A d, u : \A other \in PartTables : PartIds(d, other, u) \subseteq Ids(d[other])
  BY DEF PartTables, PartIds, Ids, ExampleSuggestionsOf, LinkSuggestionsOf, DatasetSuggestionsOf
<1> HIDE DEF after
<1>7. PartsStayAhead(t, after, Statements(p))
  <2>1. ASSUME NEW u \in Id, NEW other \in PartTables, NEW id \in PartIds(after, other, u),
               Ahead({s}, other, id)
        PROVE  FALSE
    <3>1. s.table = other /\ s.id = id
      BY <1>3, <2>1 DEF Ahead, AcceptOp, PartTables
    <3>2. id \in Ids(after[other])
      BY <1>6
    <3>3. QED
      BY <1>5, <3>1, <3>2 DEF Ids
  <2>2. QED
    BY <1>1, <1>4, <2>1, NoneAdded DEF PartsStayAhead
<1>8. Harmless(t, op, after, Statements(p))
  <2>1. SuggestionSeq <= after.seq["word_suggestions"]
    BY <1>4, SuggestionSeqType DEF SuggestionSeq
  <2>2. QED
    BY <1>4, <1>7, <2>1, NoneAdded DEF Harmless, FewerParts
<1>9. /\ \A x \in X : Fitting(t, op, x)
      /\ \A x \in X : Answerable(t, x)' /\ Complete(x)'
  OBVIOUS
<1> HIDE DEF X, p, op, allowed
<1>10. QED
  BY <1>2, <1>8, <1>9, WriteHeld

-----------------------------------------------------------------------------
(* A submission *)

\* Reading the word a submission is compared with brings no part.
LEMMA ReadOriginalHeld ==
    ASSUME TypeOK, ThreadsKnown, Indexed, Held, TypeOK', NEW t \in Threads, read_original(t)
    PROVE  Held'
<1>1. At(t, "read_original")
  BY DEF read_original
<1>2. PICK c : c = Current(t)
  OBVIOUS
<1>3. c \in Statements(todo[t]) /\ c.op = "read_original"
  BY <1>1, <1>2, ProgramAt
<1>4. PICK w : w = c.word
  OBVIOUS
<1>5. w \in SentBy(t) /\ AboutSubmission(w) \subseteq claims[t]
  BY <1>3, <1>4 DEF SentBy, SentOps, Held, Orderly, Answerable
<1>6. PICK x, found :
          /\ x.op = "insert_suggestion" /\ x.word = w
          /\ Read(t, found, <<x>>, {})
  BY <1>2, <1>4 DEF read_original
<1> DEFINE X == {x}
           p == <<x>>
           about == {}
           op == "read_original"
<1>7. At(t, op) /\ Read(t, found, p, about) /\ p \in Seq(X)
  BY <1>1, <1>6
<1>8. op \notin PartOps
  BY DEF PartOps
<1>9. Fitting(t, op, x)
  BY <1>5, <1>6 DEF Fitting
<1>10. claims[t] \subseteq claims'[t] => Answerable(t, x)' /\ Complete(x)'
  BY <1>5, <1>6 DEF Answerable, Complete, ProcessOps
<1>11. \A y \in X : Fitting(t, op, y)
  BY <1>9
<1>12. claims[t] \subseteq claims'[t] => \A y \in X : Answerable(t, y)' /\ Complete(y)'
  BY <1>10
<1> HIDE DEF X, p, about, op
<1>13. found /\ claims'[t] = claims[t] \cup about =>
           \A y \in X : Answerable(t, y)' /\ Complete(y)'
  BY <1>12
<1>14. QED
  BY <1>7, <1>8, <1>11, <1>13, ReadHeld

\* What comes after the INSERT: the document, and the parts in turn.
LEMMA AfterInsertParts ==
    ASSUME NEW c, NEW s
    PROVE  LET S == Statements(AfterInsert(c, s))
               new == IF c.word.existing_id = Null THEN s ELSE Null
           IN  \A x \in S :
                   \/ /\ x.op = "index_put" /\ x.doc = Suggested(new)
                      /\ new # Null /\ (~c.found \/ c.changed)
                   \/ x.op \in ProcessOps /\ x.word = c.word /\ x.new = new
<1> DEFINE new == IF c.word.existing_id = Null THEN s ELSE Null
           i == IndexPut(Suggested(new))
           j == [op |-> "process_linked_words", word |-> c.word, new |-> new]
           k == [op |-> "process_examples", word |-> c.word, new |-> new]
           l == [op |-> "process_datasets", word |-> c.word, new |-> new]
           indexed == new # Null /\ (~c.found \/ c.changed)
           first == IF indexed THEN <<i>> ELSE <<>>
           parts == <<j, k, l>>
           I == {x \in {i} : indexed}
           P == {j, k, l}
<1>1. AfterInsert(c, s) = first \o parts
  BY DEF AfterInsert, ProcessParts
<1>2. /\ i.op = "index_put" /\ i.doc = Suggested(new)
      /\ \A x \in P : x.op \in ProcessOps /\ x.word = c.word /\ x.new = new
  BY DEF IndexPut, ProcessOps
<1> HIDE DEF new, i, j, k, l
<1>3. first \in Seq(I) /\ parts \in Seq(P)
  <2> HIDE DEF indexed
  <2>1. CASE indexed
    <3>1. i \in I /\ first = <<i>>
      BY <2>1
    <3> HIDE DEF I, first
    <3>2. <<i>> \in Seq(I)
      BY <3>1
    <3>3. QED
      BY <3>1, <3>2
  <2>2. CASE ~indexed
    BY <2>2
  <2>3. parts \in Seq(P)
    OBVIOUS
  <2>4. QED
    BY <2>1, <2>2, <2>3
<1> HIDE DEF first, parts
<1>4. Statements(first \o parts) = Statements(first) \cup Statements(parts)
  BY <1>3, StatementsOfBoth
<1>5. Statements(first) \subseteq I /\ Statements(parts) \subseteq P
  BY <1>3, StatementsOf
<1> HIDE DEF P
<1>6. QED
  BY <1>1, <1>2, <1>4, <1>5 DEF new

\* They are about the form that was sent and the suggestion that it made or changed.
LEMMA AfterInsertAnswered ==
    ASSUME TypeOK, Held, NEW t \in Threads, NEW c \in Statements(todo[t]),
           c.op = "insert_suggestion", Foresees(t, c), c.word \in WordSubmission,
           claims[t] \subseteq claims'[t], NEW s \in Nat,
           c.word.suggestion_id # Null => s = c.word.suggestion_id,
           c.changed /\ c.word.suggestion_id = Null => s = SuggestionSeq + 1,
           ~c.changed => s = c.word.suggestion_id,
           c.changed => Suggested(s) \in claims'[t] /\ s <= SuggestionSeq',
           NEW x \in Statements(AfterInsert(c, s))
    PROVE  Fitting(t, "insert_suggestion", x) /\ Answerable(t, x)' /\ Complete(x)'
<1> DEFINE w == c.word
           new == IF w.existing_id = Null THEN s ELSE Null
<1>1. AboutSubmission(w) \subseteq claims[t] /\ w \in Sheets
  <2>1. w \in SentBy(t) /\ AboutSubmission(w) \subseteq claims[t]
    BY DEF SentBy, SentOps, Held, Orderly, Answerable
  <2>2. QED
    BY <2>1 DEF Sheets
<1>2. LinksOthers(w)
  BY <1>1 DEF Held
<1>3. \/ /\ x.op = "index_put" /\ x.doc = Suggested(new)
         /\ new # Null /\ (~c.found \/ c.changed)
      \/ x.op \in ProcessOps /\ x.word = w /\ x.new = new
  BY AfterInsertParts
<1>4. CASE /\ x.op = "index_put" /\ x.doc = Suggested(new)
           /\ new # Null /\ (~c.found \/ c.changed)
  <2>1. new = s /\ w.existing_id = Null
    BY <1>4
  <2>2. c.changed
    BY <1>4, <2>1 DEF Foresees
  <2>3. x.doc[2] <= SuggestionSeq'
    BY <1>4, <2>1, <2>2 DEF Suggested
  <2>4. x.op = "index_put"
    BY <1>4
  <2> HIDE DEF new, w
  <2>5. Answerable(t, x)' /\ Complete(x)'
    BY <2>3, <2>4 DEF Answerable, Complete, SentOps, ProcessOps
  <2>6. QED
    BY <2>4, <2>5 DEF Fitting, SentOps, AcceptanceOps, SharedOps
<1>5. CASE x.op \in ProcessOps /\ x.word = w /\ x.new = new
  <2>1. new # Null => Suggested(new) \in claims'[t]
    <3>1. ASSUME new # Null
          PROVE  Suggested(new) \in claims'[t]
      <4>1. new = s
        BY <3>1
      <4>2. CASE c.changed
        BY <4>1, <4>2
      <4>3. CASE ~c.changed
        <5>1. Suggested(w.suggestion_id) = Suggested(new) /\ w.suggestion_id # Null
          BY <3>1, <4>1, <4>3
        <5>2. Suggested(w.suggestion_id) \in AboutSubmission(w)
          BY <5>1 DEF AboutSubmission, Suggested
        <5>3. QED
          BY <1>1, <5>1, <5>2
      <4>4. QED
        BY <4>2, <4>3
    <3>2. QED
      BY <3>1
  <2>2. ASSUME w.existing_id = Null
        PROVE  /\ w.suggestion_id \in {Null, new}
               /\ \A e \in w.links : e.other # Suggested(new)
    <3>1. new = s
      BY <2>2
    <3>2. w.suggestion_id \in {Null, new}
      BY <3>1
    <3>3. ASSUME NEW e \in w.links
          PROVE  e.other # Suggested(new)
      <4>1. CASE new = w.suggestion_id
        BY <1>2, <2>2, <4>1 DEF LinksOthers
      <4>2. CASE new # w.suggestion_id
        <5>1. w.suggestion_id = Null /\ c.changed /\ new = SuggestionSeq + 1
          BY <3>1, <4>2
        <5>2. e.other[1] = "suggested" => e.other[2] <= SuggestionSeq
          BY <1>2, <2>2, <5>1 DEF LinksOthers
        <5>3. SuggestionSeq \in Nat
          BY SuggestionSeqType
        <5>4. ASSUME e.other = Suggested(new)
              PROVE  FALSE
          <6>1. e.other[1] = "suggested" /\ e.other[2] = new
            BY <5>4 DEF Suggested
          <6> HIDE DEF new
          <6>2. QED
            BY <5>1, <5>2, <5>3, <6>1
        <5>5. QED
          BY <5>4
      <4>3. QED
        BY <4>1, <4>2
    <3>4. QED
      BY <3>2, <3>3
  <2>3. x.op \in ProcessOps
    BY <1>5
  <2>4. AboutSubmission(w) \subseteq claims'[t]
    BY <1>1
  <2>5. x.word = w /\ x.new = new
    BY <1>5
  <2> HIDE DEF new, w
  <2>6. Answerable(t, x)'
    BY <2>1, <2>2, <2>3, <2>4, <2>5 DEF Answerable, SentOps, ProcessOps
  <2>7. QED
    BY <2>3, <2>6 DEF Complete, Fitting, SentOps, ProcessOps
<1>6. QED
  BY <1>3, <1>4, <1>5

\* A suggestion that comes is one the request is about from then on.
LEMMA InsertSuggestionHeld ==
    ASSUME TypeOK, ThreadsKnown, Indexed, Held, TypeOK', NEW t \in Threads, insert_suggestion(t)
    PROVE  Held'
<1>1. At(t, "insert_suggestion")
  BY DEF insert_suggestion
<1>2. PICK c : c = Current(t)
  OBVIOUS
<1>3. c \in Statements(todo[t]) /\ c.op = "insert_suggestion" /\ c \in SubmitStatement
  BY <1>1, <1>2, ProgramAt, AtSubmit
<1>4. c.word \in WordSubmission /\ Foresees(t, c)
  BY <1>3 DEF SubmitStatement, Indexed
<1>5. c.word.suggestion_id \in Nat /\ SuggestionSeq \in Nat /\ "insert_suggestion" \notin AcceptanceOps
  BY <1>4, SuggestionSeqType DEF WordSubmission, OptionalId, AcceptanceOps, SharedOps
<1>6. CASE ~c.changed
  <2>1. PICK s : s = c.word.suggestion_id
    OBVIOUS
  <2> DEFINE p == AfterInsert(c, s)
             X == Statements(p)
             about == {}
             found == TRUE
             op == "insert_suggestion"
  <2>2. Read(t, found, p, about) /\ At(t, op)
    BY <1>1, <1>2, <1>6, <2>1 DEF insert_suggestion
  <2>3. p \in Seq(X)
    BY AfterInsertMoves
  <2>4. s \in Nat
    BY <1>5, <2>1
  <2>5. ASSUME claims[t] \subseteq claims'[t], NEW x \in X
        PROVE  Fitting(t, op, x) /\ Answerable(t, x)' /\ Complete(x)'
    BY <1>3, <1>4, <1>6, <2>1, <2>4, <2>5, AfterInsertAnswered
  <2>6. op \notin PartOps
    BY DEF PartOps
  <2>7. claims[t] \subseteq claims'[t]
    <3>1. PICK x : x \in Statements(p)
      BY AfterInsertMoves
    <3>2. Continue(t, p, about) /\ UNCHANGED broken /\ Observe
      BY <2>2 DEF Read
    <3>3. broken \subseteq broken' /\ op \in FirstOps \cup SentOps
      BY <3>2 DEF SentOps
    <3> HIDE DEF p, about, op, found, X
    <3>4. claims'[t] = claims[t] \cup about
      <4>1. At(t, op) /\ p \in Seq(X)
        BY <2>2, <2>3
      <4>2. QED
        BY <3>1, <3>2, <3>3, <4>1, BeginsAt
    <3>5. QED
      BY <3>4
  <2> HIDE DEF p, X, about, found, op
  <2>8. \A x \in X : Fitting(t, op, x)
    BY <2>5, <2>7
  <2>9. \A x \in X : Answerable(t, x)' /\ Complete(x)'
    BY <2>5, <2>7
  <2>10. QED
    BY <2>2, <2>3, <2>6, <2>8, <2>9, ReadHeld
<1>7. CASE c.changed /\ ~Refuse(t)
  <2>1. PICK s : s = KeyOrNext(db, "word_suggestions", c.word.suggestion_id)
    OBVIOUS
  <2> DEFINE p == AfterInsert(c, s)
             X == Statements(p)
             about == {Suggested(s)}
             op == "insert_suggestion"
  <2>2. PICK row :
            /\ db' = [db EXCEPT !.word_suggestions = Put(@, row),
                                !.seq = Bump(@, "word_suggestions", s)]
            /\ Continue(t, p, about) /\ broken \subseteq broken'
            /\ UNCHANGED <<index, forms, arrivals, origin>> /\ Observe
    BY <1>2, <1>7, <2>1 DEF insert_suggestion
  <2>3. p \in Seq(X) /\ At(t, op)
    BY <1>1, AfterInsertMoves
  <2>4. /\ s \in Nat
        /\ c.word.suggestion_id # Null => s = c.word.suggestion_id
        /\ c.word.suggestion_id = Null => s = SuggestionSeq + 1
    BY <1>5, <2>1 DEF KeyOrNext, SuggestionSeq
  <2>5. SuggestionSeq <= SuggestionSeq' /\ s <= SuggestionSeq'
    <3>1. SuggestionSeq' = IF s > SuggestionSeq THEN s ELSE SuggestionSeq
      BY <2>2 DEF Bump, SuggestionSeq, TypeOK, Database, AutoIncrement
    <3>2. QED
      BY <1>5, <2>4, <3>1
  <2>6. FewerParts(db')
    BY <2>2 DEF FewerParts, TypeOK, Database
  <2>7. claims'[t] = claims[t] \cup about
    <3>1. PICK x : x \in Statements(p)
      BY AfterInsertMoves
    <3>2. op \in FirstOps \cup SentOps
      BY DEF SentOps
    <3> HIDE DEF p, about, op, X
    <3>3. QED
      BY <2>2, <2>3, <3>1, <3>2, BeginsAt
  <2>8. ASSUME NEW x \in X
        PROVE  Fitting(t, op, x) /\ Answerable(t, x)' /\ Complete(x)'
    <3>1. Suggested(s) \in claims'[t] /\ claims[t] \subseteq claims'[t]
      BY <2>7
    <3>2. QED
      BY <1>3, <1>4, <1>7, <2>4, <2>5, <3>1, AfterInsertAnswered
  <2>9. op \notin AcceptanceOps
    BY <1>5
  <2> HIDE DEF p, X, about, op
  <2>10. \A u \in Id : NoNewParts(db', u)
    BY <2>6, NoneAdded
  <2>11. \A r \in db'.linked_word_suggestions : r \in db.linked_word_suggestions
    BY <2>6 DEF FewerParts
  <2>12. \A x \in X : Fitting(t, op, x)
    BY <2>8
  <2>13. \A x \in X : Answerable(t, x)' /\ Complete(x)'
    BY <2>8
  <2>14. UNCHANGED <<index, forms>>
    BY <2>2
  <2>15. QED
    BY <2>2, <2>3, <2>5, <2>9, <2>10, <2>11, <2>12, <2>13, <2>14, ServedHeld
<1>8. QED
  BY <1>6, <1>7, RefuseHeld

\* A part of a submission reads what is there and goes on to write it in loops.
WriteOps == {"write_link", "write_example", "write_dataset"}

\* It brings no part before the first turn of a loop.
LEMMA LoopsHeld ==
    ASSUME TypeOK, ThreadsKnown, Indexed, Held, TypeOK', NEW t \in Threads,
           NEW op \in ProcessOps, At(t, op),
           NEW c, c.op \in WriteOps, NEW S, NEW T,
           \A U \in {S, T} : [c EXCEPT !.rows = U].op = c.op,
           claims[t] \subseteq claims'[t] =>
               \A U \in {S, T} : Answerable(t, [c EXCEPT !.rows = U])',
           Read(t, TRUE, Loop(c, S) \o Loop(c, T), {})
    PROVE  Held'
<1> DEFINE x == [c EXCEPT !.rows = S]
           y == [c EXCEPT !.rows = T]
           X == {x, y}
           p == Loop(c, S) \o Loop(c, T)
           found == TRUE
           about == {}
<1>1. x.op = c.op /\ y.op = c.op
  OBVIOUS
<1>2. Loop(c, S) \in Seq({x}) /\ Loop(c, T) \in Seq({y})
  BY LoopStatements
<1>3. Read(t, found, p, about)
  OBVIOUS
<1>4. claims[t] \subseteq claims'[t] => Answerable(t, x)' /\ Answerable(t, y)'
  OBVIOUS
<1> HIDE DEF x, y, found
<1>5. p \in Seq(X)
  <2> DEFINE q == Loop(c, S)
             r == Loop(c, T)
  <2>1. q \in Seq(X) /\ r \in Seq(X)
    BY <1>2
  <2> HIDE DEF q, r, X
  <2>2. q \o r \in Seq(X)
    BY <2>1
  <2>3. QED
    BY <2>2 DEF q, r
<1>6. \A s \in X : Fitting(t, op, s)
  BY <1>1 DEF Fitting, WriteOps, SentOps
<1>7. claims'[t] = claims[t] \cup about => \A s \in X : Answerable(t, s)' /\ Complete(s)'
  <2>1. Complete(x)' /\ Complete(y)'
    BY <1>1 DEF Complete, WriteOps
  <2>2. QED
    BY <1>4, <2>1
<1>8. op \notin PartOps
  BY DEF ProcessOps, PartOps
<1> HIDE DEF p, X, about
<1>9. found /\ claims'[t] = claims[t] \cup about => \A s \in X : Answerable(t, s)' /\ Complete(s)'
  BY <1>7
<1>10. QED
  BY <1>3, <1>5, <1>6, <1>8, <1>9, ReadHeld

\* What a thread knows of the form whose parts it processes.
LEMMA AtProcess ==
    ASSUME TypeOK, ThreadsKnown, Held, NEW t \in Threads, NEW op \in ProcessOps, At(t, op),
           NEW c, c = Current(t)
    PROVE  /\ c.word \in WordSubmission /\ c.new \in OptionalId
           /\ AboutSubmission(c.word) \subseteq claims[t]
           /\ c.new # Null => Suggested(c.new) \in claims[t]
           /\ c.word.existing_id = Null =>
                 /\ c.word.suggestion_id \in {Null, c.new}
                 /\ \A e \in c.word.links : e.other # Suggested(c.new)
<1>1. c \in Statements(todo[t]) /\ c.op = op /\ c \in SubmitStatement
  BY ProgramAt, AtSubmit DEF ProcessOps
<1>2. c.word \in WordSubmission /\ c.new \in OptionalId
  BY <1>1 DEF ProcessOps, SubmitStatement
<1>3. Answerable(t, c)
  BY <1>1 DEF Held, Orderly
<1>4. QED
  BY <1>1, <1>2, <1>3 DEF Answerable

\* A link that is suggested names what its two sides are.
LEMMA LinkWritten ==
    ASSUME NEW t, NEW e, NEW user, NEW first, NEW second,
           LET i == IntoSuggested(first)
               j == IntoSuggested(second)
           IN  /\ i = Null \/ i # j
               /\ i # Null => Suggested(i) \in claims[t]
               /\ j # Null => Suggested(j) \in claims[t],
           NEW x, x = LinkSuggestion(e, user, first, second)
    PROVE  LinkApart(x.row) /\ NamedBy(x.row) \subseteq claims[t]
BY DEF LinkSuggestion, Upsert, LinkApart, NamedBy

\* The rows that the links of a form become are of suggestions the thread is about.
LinksAnswered(t, writes) ==
    \A x \in writes : x.do = "upsert" =>
        LinkApart(x.row) /\ NamedBy(x.row) \subseteq claims[t]

\* So they are for a word, for a suggestion, and for the links that are added.
LEMMA LinksAnsweredFor ==
    ASSUME TypeOK, NEW t \in Threads, NEW w \in WordSubmission,
           AboutSubmission(w) \subseteq claims[t]
    PROVE  /\ LinksAnswered(t, LinksOfWord(w).writes)
           /\ /\ w.suggestion_id # Null
              /\ \A e \in w.links : e.other # Suggested(w.suggestion_id)
              => LinksAnswered(t, LinksOfSuggestion(w).writes)
           /\ \A user, this :
                 /\ this \in WordOrSuggestionId \/ this = Suggested(Null)
                 /\ IntoSuggested(this) # Null =>
                       this \in claims[t] /\ \A e \in w.links : e.other # this
                 => LinksAnswered(t, {LinkSuggestion(e, user, this, e.other) : e \in w.links})
<1>1. ASSUME NEW e \in w.links
      PROVE  /\ e.other \in WordOrSuggestionId /\ e.other \in claims[t]
             /\ IntoSuggested(e.other) # Null => Suggested(IntoSuggested(e.other)) = e.other
  <2>1. e.other \in WordOrSuggestionId
    BY DEF WordSubmission, LinkEntry
  <2>2. e.other \in AboutSubmission(w)
    BY DEF AboutSubmission
  <2>3. QED
    BY <2>1, <2>2 DEF IntoSuggested, Suggested, WordOrSuggestionId
<1>2. IntoSuggested(Nothing) = Null
  BY DEF IntoSuggested, Nothing
<1>3. LinksAnswered(t, LinksOfWord(w).writes)
  <2> DEFINE this == w.existing_id
             prev == LinksOf(db, this)
             kept == {e \in w.links : e.existing_id \in Ids(prev)}
             Old(e) == RowOf(prev, e.existing_id)
             differs == {e \in kept : e.retyped \/ e.other # Existing(OtherWord(Old(e), this))}
             Changed(e, old) == IF e.other = Existing(old) THEN Nothing ELSE e.other
             Edit(e) == IF this = Old(e).first_word_id
                        THEN LinkSuggestion(e, w.user, Nothing,
                                            Changed(e, Old(e).second_word_id))
                        ELSE LinkSuggestion(e, w.user, Changed(e, Old(e).first_word_id), Nothing)
             edits == {Edit(e) : e \in differs}
             missing == {SuggestDeletion(l.id) : l \in {q \in prev :
                            \A e \in w.links : e.existing_id # q.id}}
  <2>1. LinksOfWord(w).writes = edits \cup missing
    BY DEF LinksOfWord
  <2>2. \A x \in missing : x.do # "upsert"
    BY DEF SuggestDeletion
  <2>3. ASSUME NEW e \in w.links, NEW old, NEW x,
               \/ x = LinkSuggestion(e, w.user, Nothing, Changed(e, old))
               \/ x = LinkSuggestion(e, w.user, Changed(e, old), Nothing)
        PROVE  LinkApart(x.row) /\ NamedBy(x.row) \subseteq claims[t]
    <3>1. PICK y : y = Changed(e, old)
      OBVIOUS
    <3>2. IntoSuggested(y) # Null => Suggested(IntoSuggested(y)) \in claims[t]
      BY <1>1, <1>2, <3>1
    <3>3. \/ x = LinkSuggestion(e, w.user, Nothing, y)
          \/ x = LinkSuggestion(e, w.user, y, Nothing)
      BY <2>3, <3>1
    <3> HIDE DEF Changed
    <3>4. QED
      BY <1>2, <3>2, <3>3, LinkWritten
  <2> HIDE DEF Changed
  <2>4. \A e \in w.links : \A x : x = Edit(e) => LinkApart(x.row) /\ NamedBy(x.row) \subseteq claims[t]
    BY <2>3
  <2> HIDE DEF Edit, missing
  <2>5. \A x \in edits : LinkApart(x.row) /\ NamedBy(x.row) \subseteq claims[t]
    BY <2>4
  <2>6. QED
    BY <2>1, <2>2, <2>5 DEF LinksAnswered
<1>4. ASSUME NEW user, NEW this, this \in WordOrSuggestionId \/ this = Suggested(Null),
             IntoSuggested(this) # Null =>
                 this \in claims[t] /\ \A e \in w.links : e.other # this
      PROVE  LinksAnswered(t, {LinkSuggestion(e, user, this, e.other) : e \in w.links})
  <2>1. IntoSuggested(this) # Null => Suggested(IntoSuggested(this)) = this
    BY <1>4 DEF IntoSuggested, Suggested, WordOrSuggestionId
  <2>2. ASSUME NEW e \in w.links, NEW x, x = LinkSuggestion(e, user, this, e.other)
        PROVE  LinkApart(x.row) /\ NamedBy(x.row) \subseteq claims[t]
    <3>1. IntoSuggested(this) = Null \/ IntoSuggested(this) # IntoSuggested(e.other)
      BY <1>1, <1>4, <2>1
    <3>2. /\ IntoSuggested(this) # Null => Suggested(IntoSuggested(this)) \in claims[t]
          /\ IntoSuggested(e.other) # Null => Suggested(IntoSuggested(e.other)) \in claims[t]
      BY <1>1, <1>4, <2>1
    <3>3. QED
      BY <2>2, <3>1, <3>2, LinkWritten
  <2>3. QED
    BY <2>2 DEF LinksAnswered
<1>5. ASSUME w.suggestion_id # Null, \A e \in w.links : e.other # Suggested(w.suggestion_id)
      PROVE  LinksAnswered(t, LinksOfSuggestion(w).writes)
  <2> DEFINE prev == LinkSuggestionsOf(db, w.suggestion_id)
             kept == {e \in w.links : e.suggestion_id \in Ids(prev)}
             this == Suggested(w.suggestion_id)
             again == {LinkSuggestion(e, w.user, this, e.other) : e \in kept}
             all == {LinkSuggestion(e, w.user, this, e.other) : e \in w.links}
             missing == {Delete(r.id) : r \in {q \in prev :
                            \A e \in w.links : e.suggestion_id # q.id}}
  <2>1. LinksOfSuggestion(w).writes = again \cup missing
    BY DEF LinksOfSuggestion
  <2>2. \A x \in missing : x.do # "upsert"
    BY DEF Delete
  <2>3. again \subseteq all
    OBVIOUS
  <2>4. this \in AboutSubmission(w)
    BY <1>5 DEF AboutSubmission, Suggested
  <2>5. this \in WordOrSuggestionId
    BY <1>5, ReferenceType DEF WordSubmission, OptionalId, Id
  <2>6. \A e \in w.links : e.other # this
    BY <1>5
  <2> HIDE DEF this, missing
  <2>7. LinksAnswered(t, all)
    BY <1>4, <2>4, <2>5, <2>6
  <2> HIDE DEF again, all
  <2>8. QED
    BY <2>1, <2>2, <2>3, <2>7 DEF LinksAnswered
<1>6. QED
  BY <1>3, <1>4, <1>5

\* The links of a submission.
LEMMA ProcessLinkedWordsHeld ==
    ASSUME TypeOK, ThreadsKnown, Indexed, Held, TypeOK', NEW t \in Threads,
           process_linked_words(t)
    PROVE  Held'
<1>1. At(t, "process_linked_words") /\ "process_linked_words" \in ProcessOps
  BY DEF process_linked_words, ProcessOps
<1>2. PICK c : c = Current(t)
  OBVIOUS
<1>3. PICK w : w = c.word
  OBVIOUS
<1> DEFINE editing == w.existing_id = Null /\ w.suggestion_id # Null
           old == IF w.existing_id # Null THEN LinksOfWord(w)
                  ELSE IF w.suggestion_id # Null THEN LinksOfSuggestion(w)
                  ELSE [kept |-> {}, writes |-> {}]
           this == IF w.existing_id # Null THEN Existing(w.existing_id)
                   ELSE Suggested(c.new)
           added == {LinkSuggestion(e, w.user, this, e.other) : e \in w.links \ old.kept}
           d == [op |-> "write_link", rows |-> {}]
<1>4. Panic(t) \/ Read(t, TRUE, Loop(d, old.writes) \o Loop(d, added), {})
  BY <1>2, <1>3 DEF process_linked_words
<1>5. /\ w \in WordSubmission /\ c.new \in OptionalId
      /\ AboutSubmission(w) \subseteq claims[t]
      /\ c.new # Null => Suggested(c.new) \in claims[t]
      /\ w.existing_id = Null =>
            /\ w.suggestion_id \in {Null, c.new}
            /\ \A e \in w.links : e.other # Suggested(c.new)
  BY <1>1, <1>2, <1>3, AtProcess
<1>6. LinksAnswered(t, old.writes)
  <2>1. LinksAnswered(t, LinksOfWord(w).writes)
    BY <1>5, LinksAnsweredFor
  <2>2. w.existing_id = Null /\ w.suggestion_id # Null =>
            LinksAnswered(t, LinksOfSuggestion(w).writes)
    BY <1>5, LinksAnsweredFor
  <2>3. LinksAnswered(t, {})
    BY DEF LinksAnswered
  <2>4. QED
    BY <2>1, <2>2, <2>3
<1>7. LinksAnswered(t, added)
  <2>1. this \in WordOrSuggestionId \/ this = Suggested(Null)
    BY <1>5 DEF WordSubmission, OptionalId, Id, WordOrSuggestionId, Existing, Suggested
  <2>2. ASSUME IntoSuggested(this) # Null
        PROVE  this \in claims[t] /\ \A e \in w.links : e.other # this
    <3>1. w.existing_id = Null /\ this = Suggested(c.new)
      BY <2>2 DEF IntoSuggested, Existing
    <3>2. c.new # Null
      BY <2>2, <3>1 DEF IntoSuggested, Suggested
    <3>3. QED
      BY <1>5, <3>1, <3>2
  <2> HIDE DEF this
  <2>3. PICK user : user = w.user
    OBVIOUS
  <2>4. PICK all : all = {LinkSuggestion(e, user, this, e.other) : e \in w.links}
    OBVIOUS
  <2>5. LinksAnswered(t, {LinkSuggestion(e, user, this, e.other) : e \in w.links})
    <3>1. \A u, th :
             /\ th \in WordOrSuggestionId \/ th = Suggested(Null)
             /\ IntoSuggested(th) # Null => th \in claims[t] /\ \A e \in w.links : e.other # th
             => LinksAnswered(t, {LinkSuggestion(e, u, th, e.other) : e \in w.links})
      BY <1>5, LinksAnsweredFor
    <3>2. QED
      BY <2>1, <2>2, <3>1, Zenon
  <2>6. added \subseteq all
    BY <2>3, <2>4
  <2> HIDE DEF added
  <2>7. LinksAnswered(t, all)
    BY <2>4, <2>5
  <2>8. QED
    BY <2>6, <2>7 DEF LinksAnswered
<1> HIDE DEF old, added
<1>8. \A U : [d EXCEPT !.rows = U].op = "write_link" /\ [d EXCEPT !.rows = U].rows = U
  OBVIOUS
<1>9. d.op = "write_link"
  OBVIOUS
<1> HIDE DEF d
<1>10. ASSUME claims[t] \subseteq claims'[t], NEW U \in {old.writes, added}
       PROVE  Answerable(t, [d EXCEPT !.rows = U])'
  <2>1. PICK z : z = [d EXCEPT !.rows = U]
    OBVIOUS
  <2>2. z.op = "write_link" /\ z.rows = U
    BY <1>8, <2>1
  <2>3. \A r \in Upserts(z) : LinkApart(r) /\ NamedBy(r) \subseteq claims'[t]
    BY <1>6, <1>7, <1>10, <2>2 DEF LinksAnswered, Upserts
  <2>4. Answerable(t, z)'
    BY <2>2, <2>3 DEF Answerable, SentOps, ProcessOps
  <2>5. QED
    BY <2>1, <2>4
<1>11. \A U \in {old.writes, added} : [d EXCEPT !.rows = U].op = d.op
  BY <1>8, <1>9
<1>12. CASE Panic(t)
  BY <1>12, StopHeld DEF Panic
<1>13. CASE Read(t, TRUE, Loop(d, old.writes) \o Loop(d, added), {})
  <2>1. PICK S, T : S = old.writes /\ T = added
    OBVIOUS
  <2>2. Read(t, TRUE, Loop(d, S) \o Loop(d, T), {})
    BY <1>13, <2>1
  <2>3. \A U \in {S, T} : [d EXCEPT !.rows = U].op = d.op
    BY <1>11, <2>1
  <2>4. claims[t] \subseteq claims'[t] => \A U \in {S, T} : Answerable(t, [d EXCEPT !.rows = U])'
    BY <1>10, <2>1
  <2>5. d.op \in WriteOps
    BY <1>9 DEF WriteOps
  <2>6. QED
    BY <1>1, <2>2, <2>3, <2>4, <2>5, LoopsHeld
<1>14. QED
  BY <1>4, <1>12, <1>13

\* Its examples.
LEMMA ProcessExamplesHeld ==
    ASSUME TypeOK, ThreadsKnown, Indexed, Held, TypeOK', NEW t \in Threads, process_examples(t)
    PROVE  Held'
<1>1. At(t, "process_examples") /\ "process_examples" \in ProcessOps
  BY DEF process_examples, ProcessOps
<1>2. PICK c : c = Current(t)
  OBVIOUS
<1>3. PICK w : w = c.word
  OBVIOUS
<1> DEFINE old == IF w.existing_id # Null THEN ExamplesOfWord(w)
                  ELSE IF w.suggestion_id # Null THEN ExamplesOfSuggestion(w, c.new)
                  ELSE [kept |-> {}, writes |-> {}]
           added == {ExampleSuggestion(e, w.user, c.new, w.existing_id) :
                        e \in w.examples \ old.kept}
           d == [op |-> "write_example", rows |-> {}]
           Of(writes) == \A x \in writes :
                             x.do = "upsert" => x.row.suggested_word_id \in {Null, c.new}
<1>4. Read(t, TRUE, Loop(d, old.writes) \o Loop(d, added), {})
  BY <1>2, <1>3 DEF process_examples
<1>5. c.new # Null => Suggested(c.new) \in claims[t]
  BY <1>1, <1>2, AtProcess
<1>6. \A e, user, new, existing : ExampleSuggestion(e, user, new, existing).row.suggested_word_id = new
  BY DEF ExampleSuggestion, Upsert
<1>7. \A id : Delete(id).do # "upsert" /\ SuggestDeletion(id).do # "upsert"
  BY DEF Delete, SuggestDeletion
<1>8. Of(old.writes)
  <2>1. Of(ExamplesOfWord(w).writes)
    <3> DEFINE prev == {x \in db.examples : x.word_id = w.existing_id}
               kept == {e \in w.examples : e.existing_id \in Ids(prev)}
               edits == {ExampleSuggestion(e, w.user, Null, w.existing_id) :
                            e \in {q \in kept : q.changed}}
               missing == {SuggestDeletion(x.id) : x \in {q \in prev :
                              \A e \in w.examples : e.existing_id # q.id}}
    <3>1. ExamplesOfWord(w).writes = edits \cup missing
      BY DEF ExamplesOfWord
    <3> HIDE DEF kept, prev
    <3>2. \A x \in edits : x.row.suggested_word_id = Null
      BY <1>6
    <3>3. \A x \in missing : x.do # "upsert"
      BY <1>7
    <3> HIDE DEF edits, missing
    <3>4. QED
      BY <3>1, <3>2, <3>3
  <2>2. Of(ExamplesOfSuggestion(w, c.new).writes)
    <3> DEFINE prev == ExampleSuggestionsOf(db, w.suggestion_id)
               kept == {e \in w.examples : e.suggestion_id \in Ids(prev)}
               again == {ExampleSuggestion(e, w.user, c.new, Null) : e \in kept}
               missing == {Delete(r.id) : r \in {q \in prev :
                              \A e \in w.examples : e.suggestion_id # q.id}}
    <3>1. ExamplesOfSuggestion(w, c.new).writes = again \cup missing
      BY DEF ExamplesOfSuggestion
    <3> HIDE DEF kept, prev
    <3>2. \A x \in again : x.row.suggested_word_id = c.new
      BY <1>6
    <3>3. \A x \in missing : x.do # "upsert"
      BY <1>7
    <3> HIDE DEF again, missing
    <3>4. QED
      BY <3>1, <3>2, <3>3
  <2>3. Of({})
    OBVIOUS
  <2> HIDE DEF Of
  <2>4. QED
    BY <2>1, <2>2, <2>3
<1>9. Of(added)
  BY <1>6
<1> HIDE DEF old, added
<1>10. \A U : [d EXCEPT !.rows = U].op = "write_example" /\ [d EXCEPT !.rows = U].rows = U
  OBVIOUS
<1>11. d.op = "write_example"
  OBVIOUS
<1> HIDE DEF d
<1>12. PICK S, T : S = old.writes /\ T = added
  OBVIOUS
<1>13. ASSUME claims[t] \subseteq claims'[t], NEW U \in {S, T}
       PROVE  Answerable(t, [d EXCEPT !.rows = U])'
  <2>1. PICK z : z = [d EXCEPT !.rows = U]
    OBVIOUS
  <2>2. z.op = "write_example" /\ z.rows = U
    BY <1>10, <2>1
  <2>3. \A r \in Upserts(z) : r.suggested_word_id \in {Null, c.new}
    BY <1>8, <1>9, <1>12, <2>2 DEF Upserts
  <2>4. \A r \in Upserts(z) : r.suggested_word_id # Null =>
                                  Suggested(r.suggested_word_id) \in claims'[t]
    BY <1>5, <1>13, <2>3
  <2>5. Answerable(t, z)'
    BY <2>2, <2>4 DEF Answerable, SentOps, ProcessOps
  <2>6. QED
    BY <2>1, <2>5
<1>14. Read(t, TRUE, Loop(d, S) \o Loop(d, T), {})
  BY <1>4, <1>12
<1>15. \A U \in {S, T} : [d EXCEPT !.rows = U].op = d.op
  BY <1>10, <1>11
<1>16. d.op \in WriteOps
  BY <1>11 DEF WriteOps
<1>17. QED
  BY <1>1, <1>13, <1>14, <1>15, <1>16, LoopsHeld

\* Its datasets.
LEMMA ProcessDatasetsHeld ==
    ASSUME TypeOK, ThreadsKnown, Indexed, Held, TypeOK', NEW t \in Threads, process_datasets(t)
    PROVE  Held'
<1>1. At(t, "process_datasets") /\ "process_datasets" \in ProcessOps
  BY DEF process_datasets, ProcessOps
<1>2. PICK c : c = Current(t)
  OBVIOUS
<1> DEFINE d == [op |-> "write_dataset", rows |-> {}, new |-> c.new,
                 existing_id |-> c.word.existing_id, user |-> c.word.user]
<1>3. PICK S : Read(t, TRUE, Loop(d, S), {})
  BY <1>2 DEF process_datasets
<1>4. c.new # Null => Suggested(c.new) \in claims[t]
  BY <1>1, <1>2, AtProcess
<1>5. \A U : [d EXCEPT !.rows = U].op = "write_dataset" /\ [d EXCEPT !.rows = U].new = c.new
  OBVIOUS
<1>6. d.op = "write_dataset"
  OBVIOUS
<1> HIDE DEF d
<1>7. PICK T : T = {}
  OBVIOUS
<1>8. Loop(d, S) \o Loop(d, T) = Loop(d, S)
  <2> DEFINE x == [d EXCEPT !.rows = S]
             q == Loop(d, S)
  <2>1. Loop(d, T) = <<>> /\ q \in Seq({x})
    BY <1>7, LoopStatements DEF Loop
  <2> HIDE DEF q, x
  <2>2. q \o <<>> = q
    BY <2>1
  <2>3. QED
    BY <2>1, <2>2 DEF q
<1>9. Read(t, TRUE, Loop(d, S) \o Loop(d, T), {})
  BY <1>3, <1>8
<1>10. ASSUME claims[t] \subseteq claims'[t], NEW U \in {S, T}
       PROVE  Answerable(t, [d EXCEPT !.rows = U])'
  <2>1. PICK z : z = [d EXCEPT !.rows = U]
    OBVIOUS
  <2>2. z.op = "write_dataset" /\ z.new = c.new
    BY <1>5, <2>1
  <2>3. Answerable(t, z)'
    BY <1>4, <1>10, <2>2 DEF Answerable, SentOps, ProcessOps
  <2>4. QED
    BY <2>1, <2>3
<1>11. \A U \in {S, T} : [d EXCEPT !.rows = U].op = d.op
  BY <1>5, <1>6
<1>12. d.op \in WriteOps
  BY <1>6 DEF WriteOps
<1>13. QED
  BY <1>1, <1>9, <1>10, <1>11, <1>12, LoopsHeld

-----------------------------------------------------------------------------
(* The writes of a submission *)

\* One turn of a loop of a submission.
LEMMA LoopHeld ==
    ASSUME TypeOK, ThreadsKnown, Indexed, Held, TypeOK', NEW t \in Threads,
           NEW op \in WriteOps, At(t, op), NEW c, c = Current(t), NEW S, S \subseteq c.rows,
           NEW allowed, NEW after, Write(t, allowed, after, Loop(c, S)),
           SuggestionSeq <= after.seq["word_suggestions"],
           \A r \in after.linked_word_suggestions : r \in db.linked_word_suggestions \/ LinkApart(r),
           \A s \in Id : Suggested(s) \in claims[t] \/ NoNewParts(after, s)
    PROVE  Held'
<1> DEFINE z == [c EXCEPT !.rows = S]
           X == {z}
           p == Loop(c, S)
<1>1. c \in Statements(todo[t]) /\ c.op = op /\ c \in SubmitStatement /\ c \in Statement
  BY ProgramAt, AtSubmit DEF WriteOps
<1>2. z.op = op /\ z.rows = S /\ (op = "write_dataset" => z.new = c.new)
  BY <1>1 DEF SubmitStatement, WriteOps
<1>3. p \in Seq(X)
  BY LoopStatements
<1>4. Write(t, allowed, after, p)
  OBVIOUS
<1> HIDE DEF z
<1>5. Fitting(t, op, z)
  BY <1>2 DEF Fitting, WriteOps, SentOps
<1>6. Complete(z)'
  BY <1>2 DEF Complete, WriteOps
<1>7. ASSUME claims[t] \subseteq claims'[t]
      PROVE  Answerable(t, z)'
  <2>1. Answerable(t, c)
    BY <1>1 DEF Held, Orderly
  <2>2. Upserts(z) \subseteq Upserts(c)
    BY <1>2 DEF Upserts
  <2>3. op = "write_link" =>
            \A r \in Upserts(z) : LinkApart(r) /\ NamedBy(r) \subseteq claims'[t]
    BY <1>1, <1>7, <2>1, <2>2 DEF Answerable
  <2>4. op = "write_example" =>
            \A r \in Upserts(z) : r.suggested_word_id # Null =>
                                      Suggested(r.suggested_word_id) \in claims'[t]
    BY <1>1, <1>7, <2>1, <2>2 DEF Answerable
  <2>5. op = "write_dataset" => (z.new # Null => Suggested(z.new) \in claims'[t])
    BY <1>1, <1>2, <1>7, <2>1 DEF Answerable
  <2>6. QED
    BY <1>2, <2>3, <2>4, <2>5 DEF Answerable, WriteOps, SentOps, ProcessOps
<1>8. \A x \in X : Fitting(t, op, x)
  BY <1>5
<1>9. allowed /\ db' = after /\ claims[t] \subseteq claims'[t] =>
          \A x \in X : Answerable(t, x)' /\ Complete(x)'
  BY <1>6, <1>7
<1> HIDE DEF X, p
<1>10. Harmless(t, op, after, Statements(p))
  BY DEF Harmless, AcceptanceOps, SharedOps, WriteOps
<1>11. QED
  BY <1>3, <1>4, <1>8, <1>9, <1>10, WriteHeld

\* A turn of a loop that brings no part.
LEMMA FewerTurnHeld ==
    ASSUME TypeOK, ThreadsKnown, Indexed, Held, TypeOK', NEW t \in Threads,
           NEW op \in WriteOps, At(t, op), NEW c, c = Current(t), NEW S, S \subseteq c.rows,
           NEW allowed, NEW after, Write(t, allowed, after, Loop(c, S)),
           FewerParts(after), Still(after)
    PROVE  Held'
<1>1. SuggestionSeq <= after.seq["word_suggestions"]
  BY SuggestionSeqType DEF Still, SuggestionSeq
<1>2. \A r \in after.linked_word_suggestions : r \in db.linked_word_suggestions \/ LinkApart(r)
  BY DEF FewerParts
<1>3. \A s \in Id : NoNewParts(after, s)
  BY NoneAdded
<1>4. QED
  BY <1>1, <1>2, <1>3, LoopHeld

\* A row that is written over keeps what it is for.
LEMMA RowsNameTheSame ==
    ASSUME NEW d
    PROVE  /\ \A new \in NewLinkRow :
                 LET row == LinkRowAfter(d, new)
                 IN  /\ row.suggested_word_id = new.suggested_word_id
                     /\ row.second_suggested_word_id = new.second_suggested_word_id
           /\ \A new \in NewExampleRow :
                 ExampleRowAfter(d, new).suggested_word_id = new.suggested_word_id
<1>1. ASSUME NEW new \in NewLinkRow
      PROVE  LET row == LinkRowAfter(d, new)
             IN  /\ row.suggested_word_id = new.suggested_word_id
                 /\ row.second_suggested_word_id = new.second_suggested_word_id
  <2>1. CASE new.id \in Ids(d.linked_word_suggestions)
    <3>1. PICK old : old = RowOf(d.linked_word_suggestions, new.id)
      OBVIOUS
    <3>2. LinkRowAfter(d, new) = [new EXCEPT !.existing_linked_word_id = old.existing_linked_word_id,
                                             !.user = old.user]
      BY <2>1, <3>1 DEF LinkRowAfter
    <3>3. QED
      BY <3>2 DEF NewLinkRow
  <2>2. CASE new.id \notin Ids(d.linked_word_suggestions)
    <3>1. PICK key : key = KeyOrNext(d, "linked_word_suggestions", new.id)
      OBVIOUS
    <3>2. LinkRowAfter(d, new) = [new EXCEPT !.id = key]
      BY <2>2, <3>1 DEF LinkRowAfter
    <3>3. QED
      BY <3>2 DEF NewLinkRow
  <2>3. QED
    BY <2>1, <2>2
<1>2. ASSUME NEW new \in NewExampleRow
      PROVE  ExampleRowAfter(d, new).suggested_word_id = new.suggested_word_id
  <2>1. CASE new.id \in Ids(d.example_suggestions)
    <3>1. PICK old : old = RowOf(d.example_suggestions, new.id)
      OBVIOUS
    <3>2. ExampleRowAfter(d, new) = [new EXCEPT !.existing_example_id = old.existing_example_id,
                                                !.user = old.user]
      BY <2>1, <3>1 DEF ExampleRowAfter
    <3>3. QED
      BY <3>2 DEF NewExampleRow
  <2>2. CASE new.id \notin Ids(d.example_suggestions)
    <3>1. PICK key : key = KeyOrNext(d, "example_suggestions", new.id)
      OBVIOUS
    <3>2. ExampleRowAfter(d, new) = [new EXCEPT !.id = key]
      BY <2>2, <3>1 DEF ExampleRowAfter
    <3>3. QED
      BY <3>2 DEF NewExampleRow
  <2>3. QED
    BY <2>1, <2>2
<1>3. QED
  BY <1>1, <1>2

\* A row that comes is a part of the suggestions it names only.
LEMMA RowAdded ==
    ASSUME NEW d, NEW row, NEW s \in Id, NEW table \in PartTables,
           \A other \in PartTables \ {table} : d[other] = db[other],
           \A r \in d[table] : r = row \/ r \in db[table],
           table = "linked_word_suggestions" =>
               s \notin {row.suggested_word_id, row.second_suggested_word_id},
           table # "linked_word_suggestions" => s # row.suggested_word_id
    PROVE  NoNewParts(d, s)
<1>1. ASSUME NEW other \in PartTables
      PROVE  PartIds(d, other, s) \subseteq PartIds(db, other, s)
  <2>1. CASE other = "example_suggestions"
    <3>1. ExampleSuggestionsOf(d, s) \subseteq ExampleSuggestionsOf(db, s)
      BY <2>1 DEF ExampleSuggestionsOf, PartTables
    <3>2. QED
      BY <2>1, <3>1 DEF PartIds, Ids
  <2>2. CASE other = "linked_word_suggestions"
    <3>1. LinkSuggestionsOf(d, s) \subseteq LinkSuggestionsOf(db, s)
      BY <2>2 DEF LinkSuggestionsOf, PartTables
    <3>2. QED
      BY <2>2, <3>1 DEF PartIds, Ids
  <2>3. CASE other = "dataset_attribution_suggestions"
    <3>1. DatasetSuggestionsOf(d, s) \subseteq DatasetSuggestionsOf(db, s)
      BY <2>3 DEF DatasetSuggestionsOf, PartTables
    <3>2. QED
      BY <2>3, <3>1 DEF PartIds, Ids
  <2>4. QED
    BY <2>1, <2>2, <2>3 DEF PartTables
<1>2. QED
  BY <1>1 DEF NoNewParts

\* The links of a submission.
LEMMA WriteLinkHeld ==
    ASSUME TypeOK, ThreadsKnown, Indexed, Held, TypeOK', NEW t \in Threads, write_link(t)
    PROVE  Held'
<1>1. At(t, "write_link") /\ db \in Database /\ "write_link" \in WriteOps
  BY DEF write_link, TypeOK, WriteOps
<1>2. PICK c : c = Current(t)
  OBVIOUS
<1>3. PICK s \in c.rows :
          \/ /\ s.do = "upsert"
             /\ LET row == LinkRowAfter(db, s.row)
                IN  Write(t, LinkedWordSuggestionOk(db, row),
                          [db EXCEPT
                             !.linked_word_suggestions = Put(@, row),
                             !.seq = Bump(@, "linked_word_suggestions", row.id)],
                          Loop(c, c.rows \ {s}))
          \/ Write(t, TRUE, [db EXCEPT !.linked_word_suggestions = Drop(@, s.id)],
                   Loop(c, c.rows \ {s}))
          \/ Write(t, s.id \in Ids(db.linked_words), SuggestLinkDeletion(db, s.id),
                   Loop(c, c.rows \ {s}))
  BY <1>2 DEF write_link
<1>4. PICK S : S = c.rows \ {s}
  OBVIOUS
<1>5. S \subseteq c.rows
  BY <1>4
<1> DEFINE row == LinkRowAfter(db, s.row)
           put == [db EXCEPT !.linked_word_suggestions = Put(@, row),
                             !.seq = Bump(@, "linked_word_suggestions", row.id)]
           less == [db EXCEPT !.linked_word_suggestions = Drop(@, s.id)]
           more == SuggestLinkDeletion(db, s.id)
<1>6. \/ /\ s.do = "upsert"
         /\ Write(t, LinkedWordSuggestionOk(db, row), put, Loop(c, S))
      \/ Write(t, TRUE, less, Loop(c, S))
      \/ Write(t, s.id \in Ids(db.linked_words), more, Loop(c, S))
  BY <1>3, <1>4
<1>7. CASE s.do = "upsert" /\ Write(t, LinkedWordSuggestionOk(db, row), put, Loop(c, S))
  <2>1. /\ c \in Statements(todo[t]) /\ c.op = "write_link"
        /\ c \in [op: {"write_link"}, rows: SUBSET (UpsertOf(NewLinkRow) \cup ById)]
    BY <1>1, <1>2, ProgramAt, AtSubmit DEF SubmitStatement
  <2>2. s.row \in NewLinkRow
    BY <1>7, <2>1 DEF UpsertOf, ById
  <2>3. s.row \in Upserts(c)
    BY <1>7 DEF Upserts
  <2>4. LinkApart(s.row) /\ NamedBy(s.row) \subseteq claims[t]
    BY <2>1, <2>3 DEF Held, Orderly, Answerable
  <2>5. LinkApart(row) /\ NamedBy(row) \subseteq claims[t]
    BY <2>2, <2>4, RowsNameTheSame DEF LinkApart, NamedBy
  <2> HIDE DEF row
  <2>6. /\ put.linked_word_suggestions = Put(db.linked_word_suggestions, row)
        /\ put.example_suggestions = db.example_suggestions
        /\ put.dataset_attribution_suggestions = db.dataset_attribution_suggestions
        /\ put.words = db.words /\ put.word_suggestions = db.word_suggestions
        /\ put.seq = Bump(db.seq, "linked_word_suggestions", row.id)
    BY <1>1 DEF Database
  <2>7. Write(t, LinkedWordSuggestionOk(db, row), put, Loop(c, S))
    BY <1>7
  <2> HIDE DEF put
  <2>8. SuggestionSeq <= put.seq["word_suggestions"]
    <3>1. Still(put)
      BY <2>6, TablesStill
    <3>2. QED
      BY <3>1, SuggestionSeqType DEF Still, SuggestionSeq
  <2>9. \A r \in put.linked_word_suggestions : r \in db.linked_word_suggestions \/ r = row
    BY <2>6 DEF Put
  <2>10. ASSUME NEW id \in Id
         PROVE  Suggested(id) \in claims[t] \/ NoNewParts(put, id)
    <3>1. CASE id \in {row.suggested_word_id, row.second_suggested_word_id}
      <4>1. id # Null
        BY DEF Id, Null
      <4>2. Suggested(id) \in NamedBy(row)
        BY <3>1, <4>1 DEF NamedBy
      <4>3. QED
        BY <2>5, <4>2
    <3>2. CASE id \notin {row.suggested_word_id, row.second_suggested_word_id}
      <4> DEFINE table == "linked_word_suggestions"
      <4>1. /\ table \in PartTables /\ table = "linked_word_suggestions"
            /\ \A other \in PartTables \ {table} : put[other] = db[other]
            /\ \A r \in put[table] : r = row \/ r \in db[table]
        BY <2>6, <2>9 DEF PartTables
      <4> HIDE DEF table
      <4>2. QED
        BY <3>2, <4>1, RowAdded
    <3>3. QED
      BY <3>1, <3>2
  <2>11. \A r \in put.linked_word_suggestions : r \in db.linked_word_suggestions \/ LinkApart(r)
    BY <2>5, <2>9
  <2>12. QED
    BY <1>1, <1>2, <1>5, <2>7, <2>8, <2>10, <2>11, LoopHeld
<1>8. CASE Write(t, TRUE, less, Loop(c, S))
  <2>1. FewerParts(less) /\ Still(less)
    BY <1>1 DEF FewerParts, Still, Drop, Database
  <2> HIDE DEF less
  <2>2. QED
    BY <1>1, <1>2, <1>5, <1>8, <2>1, FewerTurnHeld
<1>9. CASE Write(t, s.id \in Ids(db.linked_words), more, Loop(c, S))
  <2> DEFINE table == "linked_word_deletion_suggestions"
             key == db.seq[table] + 1
  <2>1. /\ more.words = db.words /\ more.word_suggestions = db.word_suggestions
        /\ more.seq = db.seq \/ more.seq = Bump(db.seq, table, key)
        /\ table # "word_suggestions" /\ FewerParts(more)
    BY <1>1 DEF Database, SuggestLinkDeletion, FewerParts
  <2> HIDE DEF more, table, key
  <2>2. Still(more)
    BY <2>1, TablesStill
  <2>3. QED
    BY <1>1, <1>2, <1>5, <1>9, <2>1, <2>2, FewerTurnHeld
<1> HIDE DEF row, put, less, more
<1>10. QED
  BY <1>6, <1>7, <1>8, <1>9

\* Its examples.
LEMMA WriteExampleHeld ==
    ASSUME TypeOK, ThreadsKnown, Indexed, Held, TypeOK', NEW t \in Threads, write_example(t)
    PROVE  Held'
<1>1. At(t, "write_example") /\ db \in Database /\ "write_example" \in WriteOps
  BY DEF write_example, TypeOK, WriteOps
<1>2. PICK c : c = Current(t)
  OBVIOUS
<1>3. PICK s \in c.rows :
          \/ /\ s.do = "upsert"
             /\ LET row == ExampleRowAfter(db, s.row)
                IN  Write(t, ExampleSuggestionOk(db, row),
                          [db EXCEPT
                             !.example_suggestions = Put(@, row),
                             !.seq = Bump(@, "example_suggestions", row.id)],
                          Loop(c, c.rows \ {s}))
          \/ Write(t, TRUE, [db EXCEPT !.example_suggestions = Drop(@, s.id)],
                   Loop(c, c.rows \ {s}))
          \/ Write(t, s.id \in Ids(db.examples), SuggestExampleDeletion(db, s.id),
                   Loop(c, c.rows \ {s}))
  BY <1>2 DEF write_example
<1>4. PICK S : S = c.rows \ {s}
  OBVIOUS
<1>5. S \subseteq c.rows
  BY <1>4
<1> DEFINE row == ExampleRowAfter(db, s.row)
           put == [db EXCEPT !.example_suggestions = Put(@, row),
                             !.seq = Bump(@, "example_suggestions", row.id)]
           less == [db EXCEPT !.example_suggestions = Drop(@, s.id)]
           more == SuggestExampleDeletion(db, s.id)
<1>6. \/ /\ s.do = "upsert"
         /\ Write(t, ExampleSuggestionOk(db, row), put, Loop(c, S))
      \/ Write(t, TRUE, less, Loop(c, S))
      \/ Write(t, s.id \in Ids(db.examples), more, Loop(c, S))
  BY <1>3, <1>4
<1>7. CASE s.do = "upsert" /\ Write(t, ExampleSuggestionOk(db, row), put, Loop(c, S))
  <2>1. /\ c \in Statements(todo[t]) /\ c.op = "write_example"
        /\ c \in [op: {"write_example"}, rows: SUBSET (UpsertOf(NewExampleRow) \cup ById)]
    BY <1>1, <1>2, ProgramAt, AtSubmit DEF SubmitStatement
  <2>2. s.row \in NewExampleRow
    BY <1>7, <2>1 DEF UpsertOf, ById
  <2>3. s.row \in Upserts(c)
    BY <1>7 DEF Upserts
  <2>4. s.row.suggested_word_id # Null => Suggested(s.row.suggested_word_id) \in claims[t]
    BY <2>1, <2>3 DEF Held, Orderly, Answerable
  <2>5. row.suggested_word_id # Null => Suggested(row.suggested_word_id) \in claims[t]
    BY <2>2, <2>4, RowsNameTheSame
  <2> HIDE DEF row
  <2>6. /\ put.example_suggestions = Put(db.example_suggestions, row)
        /\ put.linked_word_suggestions = db.linked_word_suggestions
        /\ put.dataset_attribution_suggestions = db.dataset_attribution_suggestions
        /\ put.words = db.words /\ put.word_suggestions = db.word_suggestions
        /\ put.seq = Bump(db.seq, "example_suggestions", row.id)
    BY <1>1 DEF Database
  <2>7. Write(t, ExampleSuggestionOk(db, row), put, Loop(c, S))
    BY <1>7
  <2> HIDE DEF put
  <2>8. SuggestionSeq <= put.seq["word_suggestions"]
    <3>1. Still(put)
      BY <2>6, TablesStill
    <3>2. QED
      BY <3>1, SuggestionSeqType DEF Still, SuggestionSeq
  <2>9. \A r \in put.example_suggestions : r \in db.example_suggestions \/ r = row
    BY <2>6 DEF Put
  <2>10. ASSUME NEW id \in Id
         PROVE  Suggested(id) \in claims[t] \/ NoNewParts(put, id)
    <3>1. CASE id = row.suggested_word_id
      BY <2>5, <3>1 DEF Id, Null
    <3>2. CASE id # row.suggested_word_id
      <4> DEFINE table == "example_suggestions"
      <4>1. /\ table \in PartTables /\ table # "linked_word_suggestions"
            /\ \A other \in PartTables \ {table} : put[other] = db[other]
            /\ \A r \in put[table] : r = row \/ r \in db[table]
        BY <2>6, <2>9 DEF PartTables
      <4> HIDE DEF table
      <4>2. QED
        BY <3>2, <4>1, RowAdded
    <3>3. QED
      BY <3>1, <3>2
  <2>11. \A r \in put.linked_word_suggestions : r \in db.linked_word_suggestions \/ LinkApart(r)
    BY <2>6
  <2>12. QED
    BY <1>1, <1>2, <1>5, <2>7, <2>8, <2>10, <2>11, LoopHeld
<1>8. CASE Write(t, TRUE, less, Loop(c, S))
  <2>1. FewerParts(less) /\ Still(less)
    BY <1>1 DEF FewerParts, Still, Drop, Database
  <2> HIDE DEF less
  <2>2. QED
    BY <1>1, <1>2, <1>5, <1>8, <2>1, FewerTurnHeld
<1>9. CASE Write(t, s.id \in Ids(db.examples), more, Loop(c, S))
  <2>1. Still(more) /\ FewerParts(more)
    BY <1>1 DEF Still, Database, SuggestExampleDeletion, FewerParts
  <2> HIDE DEF more
  <2>2. QED
    BY <1>1, <1>2, <1>5, <1>9, <2>1, FewerTurnHeld
<1> HIDE DEF row, put, less, more
<1>10. QED
  BY <1>6, <1>7, <1>8, <1>9

\* Its datasets.
LEMMA WriteDatasetHeld ==
    ASSUME TypeOK, ThreadsKnown, Indexed, Held, TypeOK', NEW t \in Threads, write_dataset(t)
    PROVE  Held'
<1>1. At(t, "write_dataset") /\ db \in Database /\ "write_dataset" \in WriteOps
  BY DEF write_dataset, TypeOK, WriteOps
<1>2. PICK c : c = Current(t)
  OBVIOUS
<1>3. PICK key : key = db.seq["dataset_attribution_suggestions"] + 1
  OBVIOUS
<1> DEFINE row(s) == [id |-> key, dataset |-> s.dataset, existing_word_id |-> c.existing_id,
                      suggested_word_id |-> c.new, is_delete |-> s.is_delete, user |-> c.user]
           inserted(s) ==
               [db EXCEPT !.dataset_attribution_suggestions = @ \cup {row(s)},
                          !.seq = Bump(@, "dataset_attribution_suggestions", key)]
           deleted(s) ==
               [db EXCEPT !.dataset_attribution_suggestions =
                   {r \in @ : ~(r.dataset = s.id /\ r.suggested_word_id = c.new)}]
<1>4. PICK s \in c.rows :
          \/ Write(t, DatasetSuggestionOk(db, row(s)), inserted(s), Loop(c, c.rows \ {s}))
          \/ Write(t, TRUE, deleted(s), Loop(c, c.rows \ {s}))
  BY <1>2, <1>3 DEF write_dataset
<1>5. PICK S : S = c.rows \ {s}
  OBVIOUS
<1>6. S \subseteq c.rows
  BY <1>5
<1>7. \E new : new = row(s) /\ new.suggested_word_id = c.new
  <2>1. row(s).suggested_word_id = c.new
    OBVIOUS
  <2> HIDE DEF row
  <2>2. QED
    BY <2>1
<1> HIDE DEF row
<1>a. PICK new : new = row(s) /\ new.suggested_word_id = c.new
  BY <1>7
<1> DEFINE put == [db EXCEPT !.dataset_attribution_suggestions = @ \cup {new},
                             !.seq = Bump(@, "dataset_attribution_suggestions", key)]
           less == deleted(s)
<1>8. \/ Write(t, DatasetSuggestionOk(db, new), put, Loop(c, S))
      \/ Write(t, TRUE, less, Loop(c, S))
  BY <1>4, <1>5, <1>a
<1>9. CASE Write(t, DatasetSuggestionOk(db, new), put, Loop(c, S))
  <2>1. c \in Statements(todo[t]) /\ c.op = "write_dataset"
    BY <1>1, <1>2, ProgramAt
  <2>2. c.new # Null => Suggested(c.new) \in claims[t]
    BY <2>1 DEF Held, Orderly, Answerable
  <2>3. /\ put.dataset_attribution_suggestions = db.dataset_attribution_suggestions \cup {new}
        /\ put.linked_word_suggestions = db.linked_word_suggestions
        /\ put.example_suggestions = db.example_suggestions
        /\ put.words = db.words /\ put.word_suggestions = db.word_suggestions
        /\ put.seq = Bump(db.seq, "dataset_attribution_suggestions", key)
    BY <1>1 DEF Database
  <2>4. Write(t, DatasetSuggestionOk(db, new), put, Loop(c, S))
    BY <1>9
  <2> HIDE DEF put
  <2>5. SuggestionSeq <= put.seq["word_suggestions"]
    <3>1. Still(put)
      BY <2>3, TablesStill
    <3>2. QED
      BY <3>1, SuggestionSeqType DEF Still, SuggestionSeq
  <2>6. ASSUME NEW id \in Id
        PROVE  Suggested(id) \in claims[t] \/ NoNewParts(put, id)
    <3>1. CASE id = c.new
      BY <2>2, <3>1 DEF Id, Null
    <3>2. CASE id # c.new
      <4> DEFINE table == "dataset_attribution_suggestions"
      <4>1. /\ table \in PartTables /\ table # "linked_word_suggestions"
            /\ \A other \in PartTables \ {table} : put[other] = db[other]
            /\ \A r \in put[table] : r = new \/ r \in db[table]
        BY <2>3 DEF PartTables
      <4> HIDE DEF table
      <4>2. QED
        BY <1>a, <3>2, <4>1, RowAdded
    <3>3. QED
      BY <3>1, <3>2
  <2>7. \A r \in put.linked_word_suggestions : r \in db.linked_word_suggestions \/ LinkApart(r)
    BY <2>3
  <2>8. QED
    BY <1>1, <1>2, <1>6, <2>4, <2>5, <2>6, <2>7, LoopHeld
<1>10. CASE Write(t, TRUE, less, Loop(c, S))
  <2>1. FewerParts(less) /\ Still(less)
    BY <1>1 DEF FewerParts, Still, Database
  <2> HIDE DEF less
  <2>2. QED
    BY <1>1, <1>2, <1>6, <1>10, <2>1, FewerTurnHeld
<1> HIDE DEF put, less
<1>11. QED
  BY <1>8, <1>9, <1>10

-----------------------------------------------------------------------------
(* Every step keeps the parts in hand *)

\* A step that neither writes nor moves a request.
LEMMA QuietHeld ==
    ASSUME Held, UNCHANGED <<db, index, todo, claims>>, Excused \subseteq Excused',
           \A w \in Sheets' : w \in Sheets \/ LinksOthers(w)
    PROVE  Held'
<1>1. ASSUME NEW u \in Threads
      PROVE  Orderly(u)'
  <2>1. Orderly(u) /\ Statements(todo'[u]) = Statements(todo[u])
    BY DEF Held
  <2>2. DropsLast(todo[u])' /\ DropsItsOwn(u)'
    BY <2>1 DEF Orderly, DropsLast, DropsItsOwn
  <2>3. ASSUME NEW s \in Statements(todo[u])
        PROVE  Answerable(u, s)' /\ Complete(s)'
    <3>1. Answerable(u, s) /\ Complete(s)
      BY <2>1 DEF Orderly
    <3>2. \A links : EndsKnown(u, links) => EndsKnown(u, links)'
      BY DEF EndsKnown
    <3>3. Answerable(u, s)'
      BY <3>1, <3>2 DEF Answerable, SuggestionSeq
    <3>4. \A id, table, rows : HasAll(id, table, rows) => HasAll(id, table, rows)'
      BY DEF HasAll
    <3>5. Complete(s)'
      BY <3>1, <3>4 DEF Complete
    <3>6. QED
      BY <3>3, <3>5
  <2>4. ASSUME NEW s \in Id, WillAccept(u, s)'
        PROVE  Covered(u, s)'
    <3>1. WillAccept(u, s)
      BY <2>1, <2>4 DEF WillAccept, WillDrop
    <3>2. Covered(u, s)
      BY <2>1, <3>1 DEF Orderly
    <3>3. QED
      BY <3>2 DEF Covered
  <2>5. QED
    BY <2>1, <2>2, <2>3, <2>4 DEF Orderly
<1>2. \A w \in Sheets' : LinksOthers(w)'
  <2>1. \A w \in Sheets' : LinksOthers(w)
    BY DEF Held
  <2>2. \A w : LinksOthers(w) => LinksOthers(w)'
    BY DEF LinksOthers, SuggestionSeq
  <2>3. QED
    BY <2>1, <2>2
<1>3. LinksApart(db') /\ \A doc \in index' : doc[1] = "suggested" => doc[2] <= SuggestionSeq'
  BY DEF Held, SuggestionSeq
<1>4. QED
  BY <1>1, <1>2, <1>3 DEF Held

\* The form of a suggestion does not say that it is linked to itself.
LEMMA FormLinksOthers ==
    ASSUME TypeOK, References, Held, NEW row \in db.word_suggestions,
           LinksPopulate(db, row.id)
    PROVE  LinksOthers(FormOfSuggestion(db, row))
<1> DEFINE form == FormOfSuggestion(db, row)
           this == Suggested(row.id)
           Other(ends) == IF ends.second = this THEN ends.first ELSE ends.second
<1>1. /\ form.suggestion_id = row.id /\ form.existing_id = row.existing_word_id
      /\ row.existing_word_id = Null => form.links = SuggestedLinkEntries(db, row.id, this)
  BY DEF FormOfSuggestion
<1> HIDE DEF form
<1>2. row.id # Null
  BY DEF TypeOK, Database, WordSuggestionRow, Id, Null
<1>3. ASSUME NEW r \in LinkSuggestionsOf(db, row.id)
      PROVE  Other(FirstAndSecond(db, r, FALSE)) # this
  <2>1. r \in db.linked_word_suggestions /\ NamesTwoWords(db, r, FALSE)
    BY DEF LinkSuggestionsOf, LinksPopulate
  <2>2. LinkApart(r)
    BY <2>1 DEF Held, LinksApart, LinkApart
  <2>3. PICK ends : ends = FirstAndSecond(db, r, FALSE)
    OBVIOUS
  <2>4. EndsApart(ends)
    BY <2>1, <2>2, <2>3, EndsAreApart DEF TypeOK, References
  <2>5. this[1] = "suggested"
    BY DEF Suggested
  <2> HIDE DEF this
  <2>6. Other(ends) # this
    BY <2>4, <2>5 DEF EndsApart
  <2>7. QED
    BY <2>3, <2>6
<1>4. \A e \in SuggestedLinkEntries(db, row.id, this) : e.other # this
  <2> HIDE DEF this
  <2>1. ASSUME NEW e \in SuggestedLinkEntries(db, row.id, this)
        PROVE  e.other # this
    <3>1. PICK r \in LinkSuggestionsOf(db, row.id) :
              e = [suggestion_id |-> r.id, existing_id |-> r.existing_linked_word_id,
                   other |-> Other(FirstAndSecond(db, r, FALSE)), retyped |-> FALSE]
      BY DEF SuggestedLinkEntries
    <3>a. PICK other : other = Other(FirstAndSecond(db, r, FALSE))
      OBVIOUS
    <3>b. e = [suggestion_id |-> r.id, existing_id |-> r.existing_linked_word_id,
               other |-> other, retyped |-> FALSE]
      BY <3>1, <3>a
    <3>c. e.other = Other(FirstAndSecond(db, r, FALSE))
      BY <3>a, <3>b
    <3>2. QED
      BY <1>3, <3>c
  <2>2. QED
    BY <2>1
<1>5. LinksOthers(form)
  BY <1>1, <1>2, <1>4 DEF LinksOthers
<1>6. QED
  BY <1>5 DEF form

\* A page that is shown brings a form of it.
LEMMA PagesHeld ==
    ASSUME TypeOK, References, Held, edit_word_page \/ edit_suggestion_page
    PROVE  Held'
<1>1. PICK form : /\ LinksOthers(form)
                  /\ forms' = forms \cup {form}
                  /\ UNCHANGED <<db, index, todo, claims, broken>>
                  /\ Observe
  <2>1. CASE edit_word_page
    <3>1. PICK w \in 1 .. db.seq["words"] : Show("edit_word_page", FormOfWord(db, w))
      BY <2>1 DEF edit_word_page
    <3>2. w # Null
      BY <3>1 DEF Null, TypeOK, Database, AutoIncrement
    <3>3. LinksOthers(FormOfWord(db, w))
      BY <3>2 DEF FormOfWord, LinksOthers
    <3>4. QED
      BY <3>1, <3>3 DEF Show
  <2>2. CASE edit_suggestion_page
    <3>1. PICK row \in db.word_suggestions :
              LinksPopulate(db, row.id) /\ Show("edit_suggestion_page", FormOfSuggestion(db, row))
      BY <2>2 DEF edit_suggestion_page
    <3>2. LinksOthers(FormOfSuggestion(db, row))
      BY <3>1, FormLinksOthers
    <3>3. QED
      BY <3>1, <3>2 DEF Show
  <2>3. QED
    BY <2>1, <2>2
<1>2. \A w \in Sheets' : w \in Sheets \/ LinksOthers(w)
  <2>1. \A u \in Threads : SentBy(u)' = SentBy(u)
    BY <1>1 DEF SentBy
  <2>2. \A w \in Sheets' : w \in Sheets \/ w = form
    BY <1>1, <2>1 DEF Sheets
  <2>3. QED
    BY <1>1, <2>2
<1>3. Excused \subseteq Excused'
  BY <1>1 DEF Observe, Excused
<1>4. QED
  BY <1>1, <1>2, <1>3, QuietHeld

\* A step in which nothing happens.
LEMMA StutterHeld ==
    ASSUME Held, UNCHANGED vars
    PROVE  Held'
<1>1. UNCHANGED <<db, index, todo, forms, claims, broken, overlapped>>
  BY DEF vars
<1>2. \A u \in Threads : SentBy(u)' = SentBy(u)
  BY <1>1 DEF SentBy
<1>3. \A w \in Sheets' : w \in Sheets
  BY <1>1, <1>2 DEF Sheets
<1>4. Excused \subseteq Excused'
  BY <1>1 DEF Excused
<1>5. QED
  BY <1>1, <1>3, <1>4, QuietHeld

\* After a crash nothing is ahead.
LEMMA CrashHeld ==
    ASSUME Held, Crash
    PROVE  Held'
<1>1. /\ \A t \in Threads : todo'[t] = <<>>
      /\ UNCHANGED <<db, index, forms>>
  BY DEF Crash
<1>2. \A t \in Threads : Statements(todo'[t]) = {}
  BY <1>1 DEF Statements
<1>3. ASSUME NEW t \in Threads
      PROVE  Orderly(t)'
  <2>1. todo'[t] = <<>> /\ Len(<<>>) = 0
    BY <1>1
  <2>2. DropsLast(todo[t])'
    BY <2>1 DEF DropsLast
  <2>3. QED
    BY <1>2, <2>2 DEF Orderly, DropsItsOwn, WillAccept, WillDrop
<1>4. \A w \in Sheets' : LinksOthers(w)'
  <2>1. \A u \in Threads : SentBy(u)' = {}
    BY <1>2 DEF SentBy
  <2>2. Sheets' \subseteq Sheets
    BY <1>1, <2>1 DEF Sheets
  <2>3. \A w : LinksOthers(w) => LinksOthers(w)'
    BY <1>1 DEF LinksOthers, SuggestionSeq
  <2>4. QED
    BY <2>2, <2>3 DEF Held
<1>5. LinksApart(db') /\ \A doc \in index' : doc[1] = "suggested" => doc[2] <= SuggestionSeq'
  BY <1>1 DEF Held, SuggestionSeq
<1>6. QED
  BY <1>3, <1>4, <1>5 DEF Held

\* Every statement of a request keeps the parts in hand.
LEMMA ServeHeld ==
    ASSUME IInv, Indexed, Held, TypeOK', NEW t \in Threads, Serve(t)
    PROVE  Held'
<1>1. TypeOK /\ References /\ ThreadsKnown
  BY DEF IInv, Decided
<1>2. CASE \/ read_original(t) \/ insert_suggestion(t)
           \/ process_linked_words(t) \/ write_link(t)
           \/ process_examples(t) \/ write_example(t)
           \/ process_datasets(t) \/ write_dataset(t)
           \/ insert_word_deletion(t)
           \/ ExecAddUserAttribution(t) \/ ExecDeleteRow(t) \/ ExecIndex(t)
  BY <1>1, <1>2, ReadOriginalHeld, InsertSuggestionHeld, ProcessLinkedWordsHeld,
     ProcessExamplesHeld, ProcessDatasetsHeld, WriteLinkHeld, WriteExampleHeld,
     WriteDatasetHeld, InsertWordDeletionHeld, AttributionHeld, DeleteRowHeld, ExecIndexHeld
<1>3. CASE \/ fetch_alone(t) \/ fetch_examples(t) \/ fetch_linked_words(t) \/ fetch_datasets(t)
           \/ accept_just_word(t) \/ accept_example(t) \/ accept_dataset(t)
           \/ accept_link_of_word(t) \/ delete_word_suggestion(t)
           \/ fetch_example(t) \/ fetch_link(t) \/ accept_link(t) \/ fetch_dataset(t)
           \/ fetch_word_deletion(t) \/ delete_word(t)
           \/ fetch_example_deletion(t) \/ delete_example(t)
           \/ fetch_link_deletion(t) \/ delete_link(t)
  BY <1>1, <1>3, FetchHeld, FetchExamplesHeld, FetchLinkedWordsHeld, FetchDatasetsHeld,
     AcceptJustWordHeld, AcceptExampleHeld, AcceptDatasetHeld, AcceptLinkHeld, DeletesHeld
<1>4. QED
  BY <1>2, <1>3 DEF Serve

\* And so does every step of the server.
LEMMA NextHeld ==
    ASSUME IInv, Indexed, Held, TypeOK', [Next]_vars
    PROVE  Held'
<1>1. TypeOK /\ References /\ ThreadsKnown
  BY DEF IInv, Decided
<1>2. ASSUME NEW t \in Threads, abandon_deletion(t)
      PROVE  Held'
  BY <1>1, <1>2, StopHeld DEF abandon_deletion, Panic
<1>3. QED
  BY <1>1, <1>2, RequestHeld, ServeHeld, PagesHeld, CrashHeld, StutterHeld DEF Next

\* There is nothing in hand when the server starts.
LEMMA InitialHeld ==
    ASSUME Init
    PROVE  Held
<1>1. /\ Consistent(db) /\ index = Documents(db) /\ forms = {}
      /\ \A t \in Threads : todo[t] = <<>>
  BY DbsAssumption DEF Init
<1>2. \A t \in Threads : Statements(todo[t]) = {}
  BY <1>1 DEF Statements
<1>3. Sheets = {}
  BY <1>1, <1>2 DEF Sheets, SentBy
<1>4. ASSUME NEW t \in Threads
      PROVE  Orderly(t)
  <2>1. todo[t] = <<>> /\ Len(<<>>) = 0
    BY <1>1
  <2>2. DropsLast(todo[t])
    BY <2>1 DEF DropsLast
  <2>3. QED
    BY <1>2, <2>2 DEF Orderly, DropsItsOwn, WillAccept, WillDrop
<1>5. \A doc \in index : doc[1] = "suggested" => doc[2] <= SuggestionSeq
  <2>1. \A r \in db.word_suggestions : r.id <= SuggestionSeq
    BY <1>1 DEF Consistent, KeysAllocated, SequencePassed, Ids, SuggestionSeq
  <2>2. QED
    BY <1>1, <2>1 DEF Documents, Existing, Suggested
<1>6. QED
  BY <1>1, <1>3, <1>4, <1>5 DEF Held, Consistent

\* Whoever accepts a suggestion of a word has each part of it ahead, as a statement
\* that accepts the part or deletes its row, up to the DELETE of the suggestion;
\* whoever brings a part is about the suggestion it is of.
THEOREM PartsInHand == Spec => [](IInv /\ Indexed /\ Held)
<1>1. Init => IInv /\ Indexed /\ Held
  BY InitialType, InitialDecided, InitialIndexed, InitialHeld DEF IInv
<1>2. IInv /\ Indexed /\ Held /\ [Next]_vars => IInv' /\ Indexed' /\ Held'
  <2>1. IInv /\ [Next]_vars => TypeOK' /\ References'
    BY StepType, StepReferences DEF IInv
  <2>2. QED
    BY <2>1, NextDecided, NextIndexed, NextHeld DEF IInv
<1>3. QED
  BY <1>1, <1>2, PTL DEF Spec

\* Of two statements left, the DELETE of the suggestion first, the other is about
\* its document: the word was made, and nothing is ahead for a part.
LEMMA NothingLeftToAccept ==
    ASSUME TypeOK, ThreadsKnown, Held, NEW t \in Threads, Accepting(t),
           Suggested(Current(t).id) \notin Excused
    PROVE  \A table \in PartTables : PartIds(db, table, Current(t).id) = {}
<1>1. PICK s : s = Current(t).id
  OBVIOUS
<1> DEFINE p == todo[t]
<1>2. Len(p) = 2 /\ p \in Seq(Statement) /\ p[1] = Current(t)
  BY DEF Accepting, At, Current, TypeOK
<1>3. p[1].op = "delete_word_suggestion" /\ p[1].id = s
  BY <1>1, <1>2 DEF Accepting, At, Current
<1> HIDE DEF p
<1>4. Orderly(t)
  BY DEF Held
<1>5. p[2].op = "index_put"
  <2>1. DropsLast(p)
    BY <1>4 DEF Orderly, p
  <2>2. 1 \in 1 .. Len(p) /\ 1 # Len(p)
    BY <1>2
  <2>3. p[1 + 1].op = "index_put"
    BY <1>3, <2>1, <2>2 DEF DropsLast
  <2>4. QED
    BY <2>3
<1>6. Statements(p) = {p[1], p[2]}
  BY <1>2 DEF Statements
<1>7. s \in Id
  <2>1. p[1] \in Statement
    BY <1>2
  <2>2. QED
    BY <1>3, <2>1 DEF Statement, FetchedStatement, ByIdStatement, AcceptStatement,
                      SharedStatement, DeletionStatement, SubmitStatement
<1>8. WillAccept(t, s)
  BY <1>3, <1>5, <1>6 DEF WillAccept, WillDrop, p
<1>9. \A table \in PartTables : \A id \in PartIds(db, table, s) : Ahead(Statements(p), table, id)
  BY <1>1, <1>4, <1>7, <1>8 DEF Orderly, Covered, p
<1>10. \A table \in PartTables : \A id : ~Ahead(Statements(p), table, id)
  BY <1>3, <1>5, <1>6 DEF Ahead, AcceptOp, PartTables
<1>11. QED
  BY <1>1, <1>9, <1>10

\* When accepting a word gets to the DELETE of its suggestion, the cascade takes no
\* part of the suggestion with it.
THEOREM PartsAreAccepted == Spec => []AcceptLosesNoPart
<1>1. IInv /\ Held => AcceptLosesNoPart
  <2>1. ASSUME IInv, Held, NEW t \in Threads, Accepting(t),
               Suggested(Current(t).id) \notin Excused
        PROVE  /\ ExampleSuggestionsOf(db, Current(t).id) = {}
               /\ DatasetSuggestionsOf(db, Current(t).id) = {}
               /\ LinkSuggestionsOf(db, Current(t).id) = {}
    <3>1. \A table \in PartTables : PartIds(db, table, Current(t).id) = {}
      BY <2>1, NothingLeftToAccept DEF IInv, Decided
    <3>2. /\ PartIds(db, "example_suggestions", Current(t).id) = {}
          /\ PartIds(db, "linked_word_suggestions", Current(t).id) = {}
          /\ PartIds(db, "dataset_attribution_suggestions", Current(t).id) = {}
      BY <3>1 DEF PartTables
    <3>3. QED
      BY <3>2 DEF PartIds, Ids
  <2>2. QED
    BY <2>1 DEF AcceptLosesNoPart
<1>2. QED
  BY <1>1, PartsInHand, PTL

-----------------------------------------------------------------------------
(* What becomes of a suggested word: every step is one of Decisions', or none *)

\* The suggestion of a new word that a request is going to accept is there.
Lives ==
    \A t \in Threads : \A s \in Statements(todo[t]) :
        s.op \in FetchedOps /\ s.row.existing_word_id = Null =>
            Suggested(s.row.id) \in Excused \cup Documents(db)

\* A word that came of a suggestion is there, or was deleted.
WordsKnown == \A p \in origin : Existing(p[1]) \in Entries(db) \cup gone

\* Who is accepting a suggestion is at one statement, which is about no document.
LEMMA AcceptingIsSilent ==
    ASSUME NEW p \in Seq(Statement), Shaped(p), NEW s \in Statements(p), s.op \in FetchedOps
    PROVE  \A doc : Silent(Statements(p), doc)
<1>1. s.op \in FirstOps /\ s.op \notin AcceptanceOps \cup SubmissionOps
  BY DEF FetchedOps, FirstOps, AcceptanceOps, SubmissionOps, SharedOps
<1>2. PICK i \in 1 .. Len(p) : s = p[i]
  BY DEF Statements
<1>3. Len(p) = 1
  <2>1. Len(p) = 2 => i = 1 \/ i = 2
    BY <1>2
  <2>2. s.op \notin DeleteOps \cup SharedOps
    BY DEF FetchedOps, DeleteOps, SharedOps
  <2>3. QED
    BY <1>1, <1>2, <2>1, <2>2 DEF Shaped, Issues
<1>4. Statements(p) = {s}
  BY <1>2, <1>3 DEF Statements
<1>5. s.op \notin DocumentOps
  BY DEF FetchedOps, DocumentOps
<1>6. QED
  BY <1>4, <1>5 DEF Silent, Puts, Takes, Removes, DocumentOps

\* So the index is in line with the tables for what is being accepted.
AcceptedInLine ==
    \A t \in Threads : \A s \in Statements(todo[t]) :
        s.op \in FetchedOps =>
            Suggested(s.row.id) \in Excused \/ Matches(Suggested(s.row.id))

LEMMA AcceptingMatches == TypeOK /\ ThreadsKnown /\ Indexed => AcceptedInLine
<1> SUFFICES ASSUME TypeOK, ThreadsKnown, Indexed,
                    NEW t \in Threads, NEW s \in Statements(todo[t]), s.op \in FetchedOps
             PROVE  Suggested(s.row.id) \in Excused \/ Matches(Suggested(s.row.id))
  BY DEF AcceptedInLine
<1>1. /\ todo[t] \in Seq(Statement) /\ Shaped(todo[t])
      /\ Suggested(s.row.id) \in claims[t]
  BY DEF TypeOK, ThreadsKnown, Sure, FetchedKnown
<1>2. Suggested(s.row.id) \in WordOrSuggestionId
  <2>1. s \in Statement
    BY <1>1, StatementsOf
  <2>2. s \in FetchedStatement
    BY <2>1 DEF FetchedOps, Statement, FetchedStatement, ByIdStatement, AcceptStatement,
                SharedStatement, DeletionStatement, SubmitStatement
  <2>3. s.row.id \in Id
    BY <2>2 DEF FetchedStatement, WordSuggestionRow
  <2>4. QED
    BY <2>3 DEF Suggested, WordOrSuggestionId
<1>3. Silent(Statements(todo[t]), Suggested(s.row.id))
  BY <1>1, AcceptingIsSilent
<1>4. QED
  BY <1>1, <1>2, <1>3, SilentSettles DEF Indexed

\* And it is after a step that keeps it in line.
LEMMA AcceptingMatchesNext == TypeOK' /\ ThreadsKnown' /\ Indexed' => AcceptedInLine'
BY AcceptingMatches, PTL

\* No step takes what a request is accepting, but for one that two are about.
LEMMA StepLives ==
    ASSUME TypeOK, ThreadsKnown, Indexed, Lives, TypeOK', ThreadsKnown', Indexed',
           NEW t \in Threads, Uneventful(t) \/ Brings(t)
    PROVE  Lives'
<1>1. Acts(t) /\ Excused \subseteq Excused'
  BY DEF Uneventful, Brings, Acts, Observe, Excused
<1> SUFFICES ASSUME NEW u \in Threads, NEW s \in Statements(todo'[u]), s.op \in FetchedOps,
                    s.row.existing_word_id = Null, Suggested(s.row.id) \notin Excused'
             PROVE  Suggested(s.row.id) \in Documents(db')
  BY DEF Lives
<1> DEFINE doc == Suggested(s.row.id)
<1>2. \/ \E x \in Statements(todo[u]) : x.op \in FetchedOps /\ x.row = s.row
      \/ u = t /\ Uneventful(t) /\ doc \in Documents(db')
  <2>1. CASE u = t
    BY <2>1 DEF Uneventful, Brings, Supported
  <2>2. CASE u # t
    BY <1>1, <2>2 DEF Acts
  <2>3. QED
    BY <2>1, <2>2
<1>3. ASSUME NEW x \in Statements(todo[u]), x.op \in FetchedOps, x.row = s.row
      PROVE  doc \in Documents(db')
  <2>1. doc \in Documents(db)
    BY <1>1, <1>3 DEF Lives
  <2>2. CASE Brings(t)
    BY <2>1, <2>2 DEF Brings
  <2>3. CASE Uneventful(t)
    <3>1. doc \in index <=> doc \in Documents(db)
      BY <1>1, <1>3, AcceptingMatches DEF AcceptedInLine, Matches
    <3>2. doc \in index' <=> doc \in Documents(db')
      BY AcceptingMatchesNext DEF AcceptedInLine, Matches
    <3>3. index' = index \/ db' = db
      BY <2>3 DEF Uneventful
    <3> HIDE DEF doc
    <3>4. QED
      BY <2>1, <3>1, <3>2, <3>3
  <2>4. QED
    BY <2>2, <2>3
<1>4. QED
  BY <1>2, <1>3

\* A step that is about no suggestion: a page, a crash, or nothing.
Rests ==
    /\ UNCHANGED <<db, origin>>
    /\ gone \subseteq gone' /\ Excused \subseteq Excused'
    /\ \A t \in Threads : Statements(todo'[t]) \subseteq Statements(todo[t])

\* There are three kinds of steps.
LEMMA StepKinds ==
    ASSUME IInv, Indexed, TypeOK', [Next]_vars
    PROVE  \/ Rests
           \/ \E t \in Threads :
                 \/ Uneventful(t)
                 \/ Brings(t) /\ (accept_just_word(t) \/ insert_suggestion(t))
<1>1. TypeOK /\ ThreadsKnown
  BY DEF IInv, Decided
<1>2. ASSUME NEW t \in Threads, Request(t)
      PROVE  Uneventful(t)
  BY <1>1, <1>2, RequestIndexed DEF KeepsInLine
<1>3. ASSUME NEW t \in Threads, abandon_deletion(t)
      PROVE  Uneventful(t)
  BY <1>1, <1>3, PanicIndexed DEF abandon_deletion, KeepsInLine
<1>4. CASE edit_word_page \/ edit_suggestion_page
  <2>1. UNCHANGED <<db, todo, origin, broken>> /\ Observe
    BY <1>4 DEF edit_word_page, edit_suggestion_page, Show
  <2>2. QED
    BY <2>1 DEF Rests, Observe, Excused
<1>5. CASE Crash
  <2>1. /\ UNCHANGED <<db, origin>> /\ Observe /\ broken \subseteq broken'
        /\ \A t \in Threads : todo'[t] = <<>>
    BY <1>5 DEF Crash
  <2>2. \A t \in Threads : Statements(todo'[t]) = {}
    BY <2>1 DEF Statements
  <2>3. QED
    BY <2>1, <2>2 DEF Rests, Observe, Excused
<1>6. CASE UNCHANGED vars
  BY <1>6 DEF vars, Rests, Excused
<1>7. QED
  BY <1>2, <1>3, <1>4, <1>5, <1>6, ServeIndexed DEF Next

\* In every behaviour what a request is accepting is there.
LEMMA NextLives ==
    ASSUME IInv, Indexed, Lives, IInv', Indexed', [Next]_vars
    PROVE  Lives'
<1>1. TypeOK /\ ThreadsKnown /\ TypeOK' /\ ThreadsKnown'
  BY DEF IInv, Decided
<1>2. CASE Rests
  <2>1. /\ db' = db /\ Excused \subseteq Excused'
        /\ \A t \in Threads : Statements(todo'[t]) \subseteq Statements(todo[t])
    BY <1>2 DEF Rests
  <2>2. QED
    BY <2>1 DEF Lives
<1>3. QED
  BY <1>1, <1>2, StepKinds, StepLives

\* An accepted suggestion becomes the word it is an edit of or a new one.
LEMMA AcceptsAs ==
    ASSUME TypeOK, NEW t \in Threads, accept_just_word(t)
    PROVE  \E c, word :
               /\ c = Current(t) /\ word = KeyOrNext(db, "words", c.row.existing_word_id)
               /\ db'.words = db.words \cup {word}
               /\ db'.word_suggestions = db.word_suggestions
               /\ db'.seq["word_suggestions"] = db.seq["word_suggestions"]
               /\ origin' = IF c.row.existing_word_id = Null
                            THEN origin \cup {<<word, c.row.id>>} ELSE origin
               /\ broken' = broken
               /\ Observe
<1>1. PICK c, word : c = Current(t) /\ word = KeyOrNext(db, "words", c.row.existing_word_id)
  OBVIOUS
<1>2. /\ db' = [db EXCEPT !.words = @ \cup {word}, !.seq = Bump(@, "words", word)]
      /\ origin' = IF c.row.existing_word_id = Null
                   THEN origin \cup {<<word, c.row.id>>} ELSE origin
      /\ broken' = broken /\ Observe
  BY <1>1 DEF accept_just_word
<1>3. /\ db'.words = db.words \cup {word}
      /\ db'.word_suggestions = db.word_suggestions
      /\ db'.seq = Bump(db.seq, "words", word)
  BY <1>2 DEF TypeOK, Database
<1>4. db'.seq["word_suggestions"] = db.seq["word_suggestions"]
  BY <1>3 DEF Bump, TypeOK, Database, AutoIncrement
<1>5. QED
  BY <1>1, <1>2, <1>3, <1>4

\* A suggestion is inserted under the next number or the one its form names, which
\* was given out before; one that is not there is excused from then on.
LEMMA InsertsUnder ==
    ASSUME TypeOK, ThreadsKnown, Indexed, NEW t \in Threads, insert_suggestion(t)
    PROVE  /\ origin' = origin /\ Observe /\ broken \subseteq broken'
           /\ \/ db' = db
              \/ LET last == db.seq["word_suggestions"]
                     last1 == db'.seq["word_suggestions"]
                 IN  \E s \in Id :
                       /\ Ids(db'.word_suggestions) = Ids(db.word_suggestions) \cup {s}
                       /\ \/ s = last + 1 /\ last1 = last + 1
                          \/ /\ s <= last /\ last1 = last
                             /\ s \in Ids(db.word_suggestions) \/ Suggested(s) \in Excused'
<1>1. PICK c, s : c = Current(t) /\ s = KeyOrNext(db, "word_suggestions", c.word.suggestion_id)
  OBVIOUS
<1> DEFINE old == {r \in db.word_suggestions : r.id = s}
           user == IF old = {} THEN c.word.user ELSE RowOf(old, s).user
           row == [id |-> s, existing_word_id |-> c.word.existing_id, user |-> user]
<1>2. \/ UNCHANGED <<db, origin, broken>> /\ Observe
      \/ /\ db' = [db EXCEPT !.word_suggestions = Put(@, row),
                             !.seq = Bump(@, "word_suggestions", s)]
         /\ broken' = IF c.word.suggestion_id # Null /\ old = {}
                      THEN broken \cup {Suggested(s)} ELSE broken
         /\ origin' = origin /\ Observe
  BY <1>1 DEF insert_suggestion, Read, Refuse, Stop
<1>3. row.id = s
  OBVIOUS
<1> HIDE DEF row
<1>4. ASSUME db' = [db EXCEPT !.word_suggestions = Put(@, row),
                              !.seq = Bump(@, "word_suggestions", s)],
             broken' = IF c.word.suggestion_id # Null /\ old = {}
                       THEN broken \cup {Suggested(s)} ELSE broken,
             Observe
      PROVE  LET last == db.seq["word_suggestions"]
                 last1 == db'.seq["word_suggestions"]
             IN  /\ s \in Id
                 /\ Ids(db'.word_suggestions) = Ids(db.word_suggestions) \cup {s}
                 /\ \/ s = last + 1 /\ last1 = last + 1
                    \/ /\ s <= last /\ last1 = last
                       /\ s \in Ids(db.word_suggestions) \/ Suggested(s) \in Excused'
  <2> DEFINE last == db.seq["word_suggestions"]
             last1 == db'.seq["word_suggestions"]
  <2>1. At(t, "insert_suggestion")
    BY DEF insert_suggestion
  <2>2. c \in Statements(todo[t]) /\ c.op \in SentOps /\ c.word \in WordSubmission
    BY <1>1, <2>1, AtSubmit, ProgramAt DEF SubmitStatement, SentOps
  <2>3. c.word.suggestion_id \in Nat /\ last \in Nat
    BY <2>2 DEF WordSubmission, Form, OptionalId, TypeOK, Database, AutoIncrement
  <2>4. c.word.suggestion_id # Null => s = c.word.suggestion_id /\ s <= last
    <3>1. c.word.suggestion_id # Null =>
              <<c.word.suggestion_id, c.word.existing_id>> \in Filed
      BY <2>2 DEF Filed, Sheets, SentBy
    <3>2. QED
      BY <1>1, <3>1 DEF KeyOrNext, Indexed, FiledOnce
  <2>5. c.word.suggestion_id = Null => s = last + 1
    BY <1>1 DEF KeyOrNext
  <2>6. db'.word_suggestions = Put(db.word_suggestions, row)
    BY <1>4 DEF TypeOK, Database
  <2>7. last1 = IF s > last THEN s ELSE last
    BY <1>4 DEF Bump, TypeOK, Database, AutoIncrement
  <2>8. Ids(db'.word_suggestions) = Ids(db.word_suggestions) \cup {s}
    BY <1>3, <2>6 DEF Put, Ids
  <2>9. c.word.suggestion_id # Null => s \in Ids(db.word_suggestions) \/ Suggested(s) \in Excused'
    <3>1. old # {} => s \in Ids(db.word_suggestions)
      BY DEF Ids
    <3>2. c.word.suggestion_id # Null /\ old = {} => Suggested(s) \in Excused'
      BY <1>4 DEF Excused
    <3> HIDE DEF old
    <3>3. QED
      BY <3>1, <3>2
  <2> HIDE DEF last, last1, old
  <2>10. s \in Id /\ ((s = last + 1 /\ last1 = last + 1) \/ (s <= last /\ last1 = last))
    <3>1. CASE c.word.suggestion_id = Null
      BY <2>3, <2>5, <2>7, <3>1 DEF Id, Null
    <3>2. CASE c.word.suggestion_id # Null
      <4>1. s \in Nat /\ s # Null /\ s <= last
        BY <2>3, <2>4, <3>2
      <4>2. ~(s > last)
        BY <2>3, <4>1
      <4>3. QED
        BY <2>7, <4>1, <4>2 DEF Id
    <3>3. QED
      BY <3>1, <3>2
  <2>11. s <= last /\ last1 = last => s \in Ids(db.word_suggestions) \/ Suggested(s) \in Excused'
    BY <2>3, <2>4, <2>5, <2>9
  <2>12. QED
    BY <2>8, <2>10, <2>11 DEF last, last1
<1>5. broken \subseteq broken'
  BY <1>2
<1>6. QED
  BY <1>2, <1>4, <1>5

\* Words that come of suggestions are new ones, and stay unless they are deleted.
LEMMA NextWordsKnown ==
    ASSUME IInv, Indexed, TypeOK', WordsKnown, [Next]_vars
    PROVE  WordsKnown'
<1>1. TypeOK /\ ThreadsKnown
  BY DEF IInv, Decided
<1>2. ASSUME Observe, origin' = origin
      PROVE  WordsKnown'
  BY <1>2 DEF Observe, WordsKnown
<1>3. CASE Rests
  BY <1>3 DEF Rests, WordsKnown
<1>4. ASSUME NEW t \in Threads, Uneventful(t)
      PROVE  WordsKnown'
  BY <1>2, <1>4 DEF Uneventful, Acts
<1>5. ASSUME NEW t \in Threads, insert_suggestion(t)
      PROVE  WordsKnown'
  BY <1>1, <1>2, <1>5, InsertsUnder
<1>6. ASSUME NEW t \in Threads, accept_just_word(t)
      PROVE  WordsKnown'
  <2>1. PICK c, word :
            /\ Observe /\ db'.words = db.words \cup {word}
            /\ origin' \subseteq origin \cup {<<word, c.row.id>>}
    BY <1>1, <1>6, AcceptsAs
  <2>2. Existing(word) \in Entries(db')
    BY <2>1 DEF Entries
  <2>3. Entries(db) \cup gone \subseteq Entries(db') \cup gone'
    BY <2>1 DEF Observe
  <2>4. QED
    BY <2>1, <2>2, <2>3 DEF WordsKnown
<1>7. QED
  BY <1>3, <1>4, <1>5, <1>6, StepKinds

\* Every suggestion has a number that was given out.
LEMMA NumbersPassed ==
    ASSUME IInv
    PROVE  /\ db.seq["word_suggestions"] \in Nat
           /\ \A s \in Ids(db.word_suggestions) \cup {p[2] : p \in origin} :
                 s \in 1 .. db.seq["word_suggestions"]
<1>1. TypeOK /\ IdsPassed
  BY DEF IInv, Decided
<1>2. \A s \in Ids(db.word_suggestions) : s \in Id /\ s <= db.seq["word_suggestions"]
  BY <1>1 DEF IdsPassed, Ids, TypeOK, Database, WordSuggestionRow
<1>3. \A p \in origin : p[2] \in Id /\ p[2] <= db.seq["word_suggestions"]
  BY <1>1 DEF IdsPassed, TypeOK
<1>4. db.seq["word_suggestions"] \in Nat
  BY <1>1 DEF TypeOK, Database, AutoIncrement
<1>5. QED
  BY <1>2, <1>3, <1>4 DEF Id, Null

\* What is lost track of stays lost, and what became of the rest stays so.
LEMMA TrackKept ==
    ASSUME IInv, Excused \subseteq Excused', origin \subseteq origin',
           db.seq["word_suggestions"] <= db'.seq["word_suggestions"],
           db'.seq["word_suggestions"] \in Nat,
           NEW waiting, NEW words,
           \A s : s \in Waiting' <=> s \in waiting /\ Suggested(s) \notin Excused',
           waiting \subseteq 1 .. db'.seq["word_suggestions"],
           \A p \in words : p[2] \in 1 .. db'.seq["word_suggestions"],
           \A p : p \in Accepted' <=> p \in words /\ Suggested(p[2]) \notin Excused'
    PROVE  Decision!Track(waiting, words)
<1>1. Untracked \subseteq Untracked' /\ Untracked' \subseteq 1 .. db'.seq["word_suggestions"]
  BY NumbersPassed DEF Untracked
<1>2. \A s \in 1 .. db'.seq["word_suggestions"] : s \in Untracked' <=> Suggested(s) \in Excused'
  BY DEF Untracked
<1>3. Waiting' = waiting \ Untracked'
  BY <1>2
<1>4. Accepted' = {p \in words : p[2] \notin Untracked'}
  BY <1>2
<1>5. QED
  BY <1>1, <1>3, <1>4 DEF Decision!Track

\* A step that brings no suggestion that is kept track of settles some, or none.
LEMMA StepSettles ==
    ASSUME IInv, Excused \subseteq Excused', origin \subseteq origin',
           db'.seq["word_suggestions"] = db.seq["word_suggestions"],
           \A s \in Ids(db'.word_suggestions) :
               s \in Ids(db.word_suggestions) \/ Suggested(s) \in Excused',
           \A p \in origin' : p \in origin \/ Suggested(p[2]) \in Excused'
    PROVE  Decision!Settle
<1> DEFINE S == Waiting \ Waiting'
           waiting == Waiting \ S
<1>1. /\ db'.seq["word_suggestions"] \in Nat
      /\ db.seq["word_suggestions"] <= db'.seq["word_suggestions"]
      /\ Waiting \subseteq 1 .. db'.seq["word_suggestions"]
      /\ \A p \in Accepted : p[2] \in 1 .. db'.seq["word_suggestions"]
  BY NumbersPassed DEF Waiting, Accepted
<1>2. \A s : s \in Waiting' <=> s \in waiting /\ Suggested(s) \notin Excused'
  BY DEF Waiting
<1>3. \A p : p \in Accepted' <=> p \in Accepted /\ Suggested(p[2]) \notin Excused'
  BY DEF Accepted
<1>4. waiting \subseteq 1 .. db'.seq["word_suggestions"]
  BY <1>1
<1>5. S \in SUBSET Waiting
  OBVIOUS
<1> HIDE DEF S
<1>6. Decision!Track(waiting, Accepted)
  <2> HIDE DEF waiting
  <2>1. QED
    BY <1>1, <1>2, <1>3, <1>4, TrackKept
<1>7. QED
  BY <1>5, <1>6 DEF Decision!Settle

\* A suggestion that is inserted comes under a new number, or replaces one.
LEMMA InsertDecides ==
    ASSUME IInv, IInv', Indexed, NEW t \in Threads, insert_suggestion(t)
    PROVE  Decision!Suggest \/ Decision!Settle
<1>1. TypeOK /\ ThreadsKnown
  BY DEF IInv, Decided
<1>2. /\ origin' = origin /\ Observe /\ broken \subseteq broken'
      /\ \/ db' = db
         \/ LET last == db.seq["word_suggestions"]
                last1 == db'.seq["word_suggestions"]
            IN  \E s \in Id :
                  /\ Ids(db'.word_suggestions) = Ids(db.word_suggestions) \cup {s}
                  /\ \/ s = last + 1 /\ last1 = last + 1
                     \/ /\ s <= last /\ last1 = last
                        /\ s \in Ids(db.word_suggestions) \/ Suggested(s) \in Excused'
  BY <1>1, InsertsUnder
<1>3. Excused \subseteq Excused'
  BY <1>2 DEF Observe, Excused
<1>4. CASE db' = db
  BY <1>2, <1>3, <1>4, StepSettles
<1>5. ASSUME NEW s \in Id,
             Ids(db'.word_suggestions) = Ids(db.word_suggestions) \cup {s},
             s \in Ids(db.word_suggestions) \/ Suggested(s) \in Excused',
             db'.seq["word_suggestions"] = db.seq["word_suggestions"]
      PROVE  Decision!Settle
  BY <1>2, <1>3, <1>5, StepSettles
<1>6. ASSUME NEW s \in Id,
             Ids(db'.word_suggestions) = Ids(db.word_suggestions) \cup {s},
             s = db.seq["word_suggestions"] + 1,
             db'.seq["word_suggestions"] = s
      PROVE  Decision!Suggest
  <2> DEFINE waiting == Waiting \cup {s}
  <2>1. /\ db.seq["word_suggestions"] \in Nat /\ s \in Nat
        /\ \A i \in Ids(db.word_suggestions) : i \in 1 .. db.seq["word_suggestions"]
        /\ \A p \in origin : p[2] \in 1 .. db.seq["word_suggestions"]
    BY <1>6, NumbersPassed
  <2>2. /\ db.seq["word_suggestions"] <= db'.seq["word_suggestions"]
        /\ db'.seq["word_suggestions"] \in Nat
        /\ \A i \in 1 .. db.seq["word_suggestions"] : i # s /\ i \in 1 .. s
        /\ s \in 1 .. s
    BY <1>6, <2>1
  <2>3. \A i : i \in Waiting' <=> i \in waiting /\ Suggested(i) \notin Excused'
    BY <1>2, <1>3, <1>6, <2>1, <2>2 DEF Waiting
  <2>4. \A p : p \in Accepted' <=> p \in Accepted /\ Suggested(p[2]) \notin Excused'
    BY <1>2, <1>3 DEF Accepted
  <2>5. /\ waiting \subseteq 1 .. db'.seq["word_suggestions"]
        /\ \A p \in Accepted : p[2] \in 1 .. db'.seq["word_suggestions"]
    BY <1>6, <2>1, <2>2 DEF Waiting, Accepted
  <2>6. Decision!Track(waiting, Accepted)
    <3> HIDE DEF waiting
    <3>1. QED
      BY <1>2, <1>3, <2>2, <2>3, <2>4, <2>5, TrackKept
  <2>7. QED
    BY <1>6, <2>6 DEF Decision!Suggest
<1>7. QED
  BY <1>2, <1>4, <1>5, <1>6

\* A suggestion of a new word that is accepted waited, and the word is new.
LEMMA AcceptDecides ==
    ASSUME IInv, IInv', Indexed, Lives, WordsKnown, NEW t \in Threads, accept_just_word(t)
    PROVE  Decision!Accept \/ Decision!Settle
<1>1. TypeOK /\ ThreadsKnown /\ IdsPassed
  BY DEF IInv, Decided
<1>2. PICK c, word :
          /\ c = Current(t) /\ word = KeyOrNext(db, "words", c.row.existing_word_id)
          /\ db'.words = db.words \cup {word}
          /\ db'.word_suggestions = db.word_suggestions
          /\ db'.seq["word_suggestions"] = db.seq["word_suggestions"]
          /\ origin' = IF c.row.existing_word_id = Null
                       THEN origin \cup {<<word, c.row.id>>} ELSE origin
          /\ broken' = broken
          /\ Observe
  BY <1>1, AcceptsAs
<1> DEFINE s == c.row.id
           p == <<word, s>>
           last == db.seq["word_suggestions"]
<1>3. Excused \subseteq Excused' /\ origin \subseteq origin'
  BY <1>2 DEF Observe, Excused
<1>4. CASE c.row.existing_word_id # Null \/ Suggested(s) \in Excused'
  <2>1. \A q \in origin' : q \in origin \/ Suggested(q[2]) \in Excused'
    BY <1>2, <1>4
  <2> HIDE DEF s, p
  <2>2. QED
    BY <1>2, <1>3, <2>1, StepSettles
<1>5. CASE c.row.existing_word_id = Null /\ Suggested(s) \notin Excused'
  <2>1. /\ c \in Statements(todo[t]) /\ c.op \in FetchedOps /\ Sure(t, c)
    BY <1>1, <1>2, ProgramAt DEF accept_just_word, FetchedOps
  <2>2. s \in Ids(db.word_suggestions)
    <3>1. Suggested(s) \in Documents(db)
      BY <1>3, <1>5, <2>1 DEF Lives
    <3>2. QED
      BY <3>1 DEF Documents, Suggested, Existing, Ids
  <2>3. s \in Waiting
    <3>1. \A q \in origin : q[2] # s
      BY <1>3, <1>5, <2>1 DEF Sure, FetchedKnown, Undecided
    <3>2. QED
      BY <1>3, <1>5, <2>2, <3>1 DEF Waiting
  <2>4. \A q \in origin : q[1] # word
    <3>1. /\ word = db.seq["words"] + 1 /\ db.seq["words"] \in Nat
      BY <1>1, <1>2, <1>5 DEF KeyOrNext, TypeOK, Database, AutoIncrement
    <3>2. ASSUME NEW q \in origin
          PROVE  q[1] \in Nat /\ q[1] <= db.seq["words"]
      <4>1. Existing(q[1])[2] <= LastId(db, Existing(q[1]))
        BY DEF WordsKnown, IInv, Decided, IdsPassed
      <4>2. Existing(q[1])[2] = q[1] /\ LastId(db, Existing(q[1])) = db.seq["words"]
        BY DEF Existing, LastId
      <4>3. q[1] \in Nat
        BY <1>1 DEF TypeOK, Id
      <4>4. QED
        BY <4>1, <4>2, <4>3
    <3>3. QED
      BY <3>1, <3>2
  <2>5. p[1] = word /\ p[2] = s /\ origin' = origin \cup {p}
    BY <1>2, <1>5
  <2> DEFINE waiting == Waiting \ {s}
             words == Accepted \cup {p}
  <2> HIDE DEF s, p
  <2>6. p \in Accepted' /\ \A q \in Accepted : q[1] # p[1]
    BY <1>5, <2>4, <2>5 DEF Accepted
  <2>7. /\ last \in Nat /\ s \in 1 .. last
        /\ \A i \in Ids(db.word_suggestions) : i \in 1 .. last
        /\ \A q \in origin : q[2] \in 1 .. last
    BY <2>2, NumbersPassed
  <2>8. \A i : i \in Waiting' <=> i \in waiting /\ Suggested(i) \notin Excused'
    BY <1>2, <1>3, <2>5 DEF Waiting
  <2>9. \A q : q \in Accepted' <=> q \in words /\ Suggested(q[2]) \notin Excused'
    BY <1>3, <1>5, <2>5 DEF Accepted
  <2>10. /\ waiting \subseteq 1 .. last /\ \A q \in words : q[2] \in 1 .. last
    BY <2>5, <2>7 DEF Waiting, Accepted
  <2>11. Decision!Track(waiting, words)
    <3>1. last <= db'.seq["word_suggestions"] /\ db'.seq["word_suggestions"] = last
      BY <1>2, <2>7
    <3> HIDE DEF waiting, words
    <3>2. QED
      BY <1>3, <2>7, <2>8, <2>9, <2>10, <3>1, TrackKept
  <2>12. QED
    BY <1>2, <2>3, <2>5, <2>6, <2>11 DEF Decision!Accept
<1>6. QED
  BY <1>4, <1>5

\* So every step is one of Decisions', or none.
LEMMA NextDecides ==
    ASSUME IInv, IInv', Indexed, Lives, WordsKnown, [Next]_vars
    PROVE  Decision!Next
<1>1. TypeOK'
  BY DEF IInv
<1>2. CASE Rests
  BY <1>2, StepSettles DEF Rests, Decision!Next
<1>3. ASSUME NEW t \in Threads, Uneventful(t)
      PROVE  Decision!Next
  <2>1. /\ origin' = origin
        /\ db'.word_suggestions \subseteq db.word_suggestions
        /\ db'.seq["word_suggestions"] = db.seq["word_suggestions"]
        /\ Excused \subseteq Excused'
    BY <1>3 DEF Uneventful, Acts, Observe, Excused
  <2>2. Ids(db'.word_suggestions) \subseteq Ids(db.word_suggestions)
    BY <2>1 DEF Ids
  <2>3. QED
    BY <2>1, <2>2, StepSettles DEF Decision!Next
<1>4. QED
  BY <1>1, <1>2, <1>3, StepKinds, InsertDecides, AcceptDecides DEF Decision!Next

\* Suggestions are decided on as Decisions says, whatever requests come at once,
\* from pages and forms of any age, and whenever the server is killed.
THEOREM DecisionsKept == Spec => DecisionsAsPromised
<1> DEFINE Inv == IInv /\ Indexed /\ Lives /\ WordsKnown
<1>1. Init => Inv
  <2>1. Init => IInv /\ Indexed
    BY InitialType, InitialDecided, InitialIndexed DEF IInv
  <2>2. Init => Lives /\ WordsKnown
    BY DEF Init, Lives, WordsKnown, Statements
  <2>3. QED
    BY <2>1, <2>2
<1>2. Inv /\ [Next]_vars => Inv'
  <2>1. IInv /\ [Next]_vars => IInv'
    BY StepType, StepReferences, NextDecided DEF IInv
  <2>2. IInv /\ Indexed /\ [Next]_vars => Indexed'
    BY <2>1, NextIndexed DEF IInv
  <2>3. QED
    BY <2>1, <2>2, NextLives, NextWordsKnown DEF IInv
<1>3. Init => Decision!Init
  <2> SUFFICES ASSUME Init
               PROVE  Decision!Init
    OBVIOUS
  <2>1. IInv
    BY InitialType, InitialDecided DEF IInv
  <2>2. origin = {} /\ Excused = {}
    BY DEF Init, Excused
  <2>3. Waiting \subseteq 1 .. db.seq["word_suggestions"] /\ db.seq["word_suggestions"] \in Nat
    BY <2>1, NumbersPassed DEF Waiting
  <2>4. Accepted = {} /\ Untracked = {}
    BY <2>2 DEF Accepted, Untracked
  <2>5. QED
    BY <2>3, <2>4 DEF Decision!Init
<1>4. Inv /\ Inv' /\ [Next]_vars => [Decision!Next]_(Decision!decisionVars)
  BY NextDecides
<1> HIDE DEF Inv
<1>5. QED
  BY <1>1, <1>2, <1>3, <1>4, PTL DEF Spec, DecisionsAsPromised, Decision!Spec
=============================================================================
