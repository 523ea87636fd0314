-------------------------- MODULE ModerationProofs --------------------------
(* What holds of the tables for any users, threads, requests and databases:  *)
(* they are well typed, no foreign key dangles, and what a decision does, it *)
(* does once and for good: a suggestion becomes one word, what was deleted   *)
(* stays deleted, and the word that is deleted is the one the page showed.   *)
EXTENDS Moderation, SequenceTheorems, FiniteSetTheorems, WellFoundedInduction, TLAPS

-----------------------------------------------------------------------------
(* Keys and rows of any database.  There always is a next key, and it is not *)
(* in use.                                                                   *)

\* A finite set of numbers that is not empty has a largest one: the smallest
\* subset without one would get it from what is left when a number is taken out.
LEMMA FiniteHasLargest ==
    ASSUME NEW S \in SUBSET Nat, IsFiniteSet(S), S # {}
    PROVE  \E n \in S : \A i \in S : i <= n
<1> DEFINE Largest(U, n) == n \in U /\ \A i \in U : i <= n
           without == {U \in SUBSET S : U # {} /\ ~ \E n \in U : Largest(U, n)}
<1>1. SUFFICES ASSUME S \in without
               PROVE  FALSE
  OBVIOUS
<1>2. IsWellFoundedOn(StrictSubsetOrdering(S), FiniteSubsetsOf(S))
  BY FS_StrictSubsetOrderingWellFounded
<1>3. without \subseteq FiniteSubsetsOf(S)
  BY FS_Subset DEF FiniteSubsetsOf
<1>4. without # {}
  BY <1>1
<1> HIDE DEF without
<1>5. PICK U \in without : \A V \in without : <<V, U>> \notin StrictSubsetOrdering(S)
  BY <1>2, <1>3, <1>4, WFMin
<1>6. U \in SUBSET S /\ U # {} /\ ~ \E n \in U : Largest(U, n)
  BY <1>5 DEF without
<1>7. PICK x \in U : TRUE
  BY <1>6
<1>8. U \ {x} \notin without
  <2>1. <<U \ {x}, U>> \in StrictSubsetOrdering(S)
    BY <1>6 DEF StrictSubsetOrdering
  <2>2. QED
    BY <1>5, <2>1
<1>9. CASE U \ {x} = {}
  BY <1>6, <1>9
<1>10. CASE U \ {x} # {}
  <2>1. PICK n \in U \ {x} : \A i \in U \ {x} : i <= n
    BY <1>6, <1>8, <1>10 DEF without
  <2>2. n \in Nat /\ x \in Nat
    BY <1>6
  <2>3. Largest(U, IF n < x THEN x ELSE n)
    BY <1>6, <2>1, <2>2
  <2>4. QED
    BY <1>6, <2>3
<1>11. QED
  BY <1>9, <1>10

\* The key a table of finitely many rows gives out is not in use in it.
LEMMA NextKeyType ==
    ASSUME NEW ids \in SUBSET (Nat \ {0}), IsFiniteSet(ids)
    PROVE  NextKey(ids) \in Nat \ {0} /\ NextKey(ids) \notin ids
<1> DEFINE free == {1} \cup {i + 1 : i \in ids}
<1>1. \E n \in free : \A i \in ids : i < n
  <2>1. CASE ids = {}
    BY <2>1
  <2>2. CASE ids # {}
    <3>1. PICK n \in ids : \A i \in ids : i <= n
      BY <2>2, FiniteHasLargest
    <3>2. n + 1 \in free /\ \A i \in ids : i < n + 1
      BY <3>1
    <3>3. QED
      BY <3>2
  <2>3. QED
    BY <2>1, <2>2
<1>2. NextKey(ids) \in free /\ \A i \in ids : i < NextKey(ids)
  BY <1>1 DEF NextKey
<1>3. QED
  BY <1>2

\* The row found by an id of the table is a row of the table with that id.
LEMMA RowOfType ==
    ASSUME NEW T, NEW id \in Ids(T)
    PROVE  RowOf(T, id) \in T /\ RowOf(T, id).id = id
BY DEF RowOf, Ids

\* The sequences stay natural numbers when a key is given out.
LEMMA BumpType ==
    ASSUME NEW seq \in [AutoIncrement -> Nat], NEW table \in AutoIncrement, NEW id \in Nat
    PROVE  Bump(seq, table, id) \in [AutoIncrement -> Nat]
BY DEF Bump

\* An INSERT gets a key that is not NULL.
LEMMA KeyOrNextType ==
    ASSUME NEW d \in Database, NEW table \in AutoIncrement, NEW id \in OptionalId
    PROVE  KeyOrNext(d, table, id) \in Id
BY DEF KeyOrNext, Database, OptionalId, Id, Null

\* A table of finitely many rows has a key to give out, and it is not in use.
LEMMA NextRowidType ==
    ASSUME NEW Row, NEW T \in FiniteTable(Row), \A r \in T : r.id \in Id
    PROVE  NextRowid(T) \in Id /\ NextRowid(T) \notin Ids(T)
<1>1. IsFiniteSet(T)
  BY DEF FiniteTable
<1>2. Ids(T) \subseteq Nat \ {0} /\ IsFiniteSet(Ids(T))
  <2> DEFINE f == [r \in T |-> r.id]
  <2>1. f \in Surjection(T, Ids(T))
    BY DEF Surjection, Ids
  <2>2. IsFiniteSet(Ids(T))
    BY <1>1, <2>1, FS_Surjection DEF ExistsSurjection
  <2>3. QED
    BY <2>2 DEF Ids, Id, Null
<1>3. QED
  BY <1>2, NextKeyType DEF NextRowid, Id, Null

\* A table stays finite when rows go and when one row comes.
LEMMA FiniteTableType ==
    ASSUME NEW Row, NEW T \in FiniteTable(Row)
    PROVE  /\ \A S \in SUBSET T : S \in FiniteTable(Row)
           /\ \A r \in Row : T \cup {r} \in FiniteTable(Row)
<1>1. IsFiniteSet(T) /\ T \subseteq Row
  BY DEF FiniteTable
<1>2. \A S \in SUBSET T : IsFiniteSet(S)
  BY <1>1, FS_Subset
<1>3. \A r \in Row : IsFiniteSet(T \cup {r})
  BY <1>1, FS_AddElement
<1>4. QED
  BY <1>1, <1>2, <1>3 DEF FiniteTable

\* A cascade leaves a database of the same shape.
LEMMA CascadeType ==
    ASSUME NEW d \in Database
    PROVE  Cascade(d) \in Database
<1> DEFINE p == CascadeParents(d)
<1>1. p \in Database
  BY DEF Database, CascadeParents
<1> HIDE DEF p
<1>2. {r \in p.example_deletion_suggestions : r.example_id \in Ids(p.examples)}
          \in FiniteTable(ExampleDeletionRow)
  <2>1. p.example_deletion_suggestions \in FiniteTable(ExampleDeletionRow)
    BY <1>1 DEF Database
  <2>2. QED
    BY <2>1, FiniteTableType
<1>3. CascadeLeaves(p) \in Database
  BY <1>1, <1>2 DEF Database, CascadeLeaves
<1>4. QED
  BY <1>3 DEF Cascade, p

\* The DELETEs of words, word suggestions, examples and links do too.
LEMMA WithoutType ==
    ASSUME NEW d \in Database, NEW id \in Id
    PROVE  /\ WithoutWord(d, id) \in Database
           /\ WithoutWordSuggestion(d, id) \in Database
           /\ WithoutExample(d, id) \in Database
           /\ WithoutLinkedWord(d, id) \in Database
<1>1. [d EXCEPT !.words = @ \ {id}] \in Database
  BY DEF Database
<1>2. [d EXCEPT !.word_suggestions = Drop(@, id)] \in Database
  BY DEF Database, Drop
<1>3. [d EXCEPT !.examples = Drop(@, id)] \in Database
  BY DEF Database, Drop
<1>4. [d EXCEPT !.linked_words = Drop(@, id)] \in Database
  BY DEF Database, Drop
<1>5. QED
  BY <1>1, <1>2, <1>3, <1>4, CascadeType
     DEF WithoutWord, WithoutWordSuggestion, WithoutExample, WithoutLinkedWord

-----------------------------------------------------------------------------
(* Cascades *)

\* One pass over the parents and one over the leaves restores every foreign key
\* of a database that lost rows of words, word_suggestions, examples or
\* linked_words: nothing a cascade removes is referred to by what it keeps.
LEMMA CascadeRestoresForeignKeys ==
    ASSUME NEW d \in Database
    PROVE  ForeignKeysHold(Cascade(d))
<1> DEFINE p == CascadeParents(d)
           c == Cascade(d)
<1>1. p \in Database
  BY DEF Database, CascadeParents
<1>2. /\ p.words = d.words
      /\ p.word_suggestions = {r \in d.word_suggestions : WordSuggestionOk(d, r)}
      /\ p.examples = {r \in d.examples : r.word_id \in d.words}
      /\ p.linked_words = {r \in d.linked_words : LinkedWordOk(d, r)}
  BY DEF Database, CascadeParents
<1> HIDE DEF p
<1>3. /\ c.words = p.words
      /\ c.word_suggestions = p.word_suggestions
      /\ c.examples = p.examples
      /\ c.linked_words = p.linked_words
      /\ c.example_suggestions = {r \in p.example_suggestions : ExampleSuggestionOk(p, r)}
      /\ c.linked_word_suggestions =
            {r \in p.linked_word_suggestions : LinkedWordSuggestionOk(p, r)}
      /\ c.dataset_attributions = {r \in p.dataset_attributions : r[1] \in p.words}
      /\ c.dataset_attribution_suggestions =
            {r \in p.dataset_attribution_suggestions : DatasetSuggestionOk(p, r)}
      /\ c.user_attributions = {r \in p.user_attributions : r[1] \in p.words}
      /\ c.word_deletion_suggestions =
            {r \in p.word_deletion_suggestions : r.word_id \in p.words}
      /\ c.example_deletion_suggestions =
            {r \in p.example_deletion_suggestions : r.example_id \in Ids(p.examples)}
      /\ c.linked_word_deletion_suggestions =
            {r \in p.linked_word_deletion_suggestions :
                r.linked_word_id \in Ids(p.linked_words)}
  BY <1>1 DEF Database, CascadeLeaves, Cascade, p
<1> HIDE DEF c
<1>4. \A r \in c.word_suggestions : WordSuggestionOk(c, r)
  BY <1>2, <1>3 DEF WordSuggestionOk
<1>5. \A r \in c.linked_words : LinkedWordOk(c, r)
  BY <1>2, <1>3 DEF LinkedWordOk
<1>6. \A r \in c.example_suggestions : ExampleSuggestionOk(c, r)
  BY <1>3 DEF ExampleSuggestionOk
<1>7. \A r \in c.linked_word_suggestions : LinkedWordSuggestionOk(c, r)
  BY <1>3 DEF LinkedWordSuggestionOk
<1>8. \A r \in c.dataset_attribution_suggestions : DatasetSuggestionOk(c, r)
  BY <1>3 DEF DatasetSuggestionOk
<1>9. QED
  BY <1>2, <1>3, <1>4, <1>5, <1>6, <1>7, <1>8 DEF ForeignKeysHold, c

-----------------------------------------------------------------------------
(* Steps *)

\* Words, examples and links have names.
LEMMA EntriesType ==
    ASSUME NEW d \in Database
    PROVE  Entries(d) \subseteq Claim
BY DEF Entries, Database, Claim, Existing, Ids, ExampleRow, LinkedWordRow

\* The history keeps its type whenever the database and the claims do.
LEMMA HistoryType ==
    ASSUME TypeOK, db' \in Database, claims' \in [Threads -> SUBSET Claim], Observe
    PROVE  /\ overlapped' \subseteq Claim
           /\ gone' \subseteq Claim
           /\ pages' \in [word: SUBSET WordDeletionRow, example: SUBSET ExampleDeletionRow]
<1>1. Entries(db) \subseteq Claim
  BY EntriesType DEF TypeOK
<1>2. overlapped' \subseteq Claim
  BY DEF TypeOK, Observe, TwoThreads
<1>3. pages' \in [word: SUBSET WordDeletionRow, example: SUBSET ExampleDeletionRow]
  BY DEF TypeOK, Observe, Listed, Database, FiniteTable
<1>4. QED
  BY <1>1, <1>2, <1>3 DEF TypeOK, Observe

\* A thread that has nothing left to issue keeps the type of the state.
LEMMA StopType ==
    ASSUME TypeOK, NEW t \in Threads, Stop(t), broken' \subseteq Claim
    PROVE  TypeOK'
<1>1. claims' \in [Threads -> SUBSET Claim] /\ todo' \in [Threads -> Seq(Statement)]
  BY DEF TypeOK, Stop
<1>2. db' \in Database
  BY DEF TypeOK, Stop
<1>3. Observe
  BY DEF Stop
<1>4. QED
  BY <1>1, <1>2, <1>3, HistoryType DEF TypeOK, Stop

\* An unwrap before anything was written, or after.
LEMMA PanicType ==
    ASSUME TypeOK, NEW t \in Threads, Refuse(t) \/ Panic(t)
    PROVE  TypeOK'
<1>1. broken' \subseteq Claim
  BY DEF TypeOK, Refuse, Panic
<1>2. QED
  BY <1>1, StopType DEF Refuse, Panic

\* A statement is followed by statements.
LEMMA ContinueType ==
    ASSUME TypeOK, NEW t \in Threads, todo[t] # <<>>,
           NEW statements \in Seq(Statement), NEW about \in SUBSET Claim,
           Continue(t, statements, about)
    PROVE  claims' \in [Threads -> SUBSET Claim] /\ todo' \in [Threads -> Seq(Statement)]
<1>1. statements \o Tail(todo[t]) \in Seq(Statement)
  BY DEF TypeOK
<1>2. QED
  BY <1>1 DEF TypeOK, Continue

\* A read that hands on well-typed statements keeps the type of the state.
LEMMA ReadType ==
    ASSUME TypeOK, NEW t \in Threads, todo[t] # <<>>,
           NEW found, NEW statements, NEW about,
           found => statements \in Seq(Statement) /\ about \in SUBSET Claim,
           Read(t, found, statements, about)
    PROVE  TypeOK'
<1>1. CASE found
  <2>1. /\ Continue(t, statements, about) /\ Observe
        /\ UNCHANGED <<db, index, forms, arrivals, origin, broken>>
    BY <1>1 DEF Read
  <2>2. claims' \in [Threads -> SUBSET Claim] /\ todo' \in [Threads -> Seq(Statement)]
    BY <1>1, <2>1, ContinueType
  <2>3. QED
    BY <2>1, <2>2, HistoryType DEF TypeOK
<1>2. CASE ~found
  BY <1>2, PanicType DEF Read
<1>3. QED
  BY <1>1, <1>2


\* A write does too, whether or not it is allowed.
LEMMA WriteType ==
    ASSUME TypeOK, NEW t \in Threads, todo[t] # <<>>,
           NEW allowed, NEW after, NEW statements \in Seq(Statement),
           allowed => after \in Database,
           Write(t, allowed, after, statements)
    PROVE  TypeOK'
<1>1. CASE allowed
  <2>1. /\ db' = after /\ Observe
        /\ Continue(t, statements, Entries(db) \ Entries(after))
        /\ UNCHANGED <<index, forms, arrivals, origin, broken>>
    BY <1>1 DEF Write
  <2>2. claims' \in [Threads -> SUBSET Claim] /\ todo' \in [Threads -> Seq(Statement)]
    <3>1. Entries(db) \ Entries(after) \in SUBSET Claim
      BY EntriesType DEF TypeOK
    <3>2. QED
      BY <2>1, <3>1, ContinueType
  <2>3. QED
    BY <1>1, <2>1, <2>2, HistoryType DEF TypeOK
<1>2. CASE ~allowed
  BY <1>2, PanicType DEF Write
<1>3. QED
  BY <1>1, <1>2

\* A request arrives with well-typed statements.
LEMMA ArriveType ==
    ASSUME TypeOK, NEW t \in Threads, NEW route,
           NEW statements \in Seq(Statement), NEW about \in SUBSET Claim,
           Arrive(t, route, statements, about)
    PROVE  TypeOK'
<1>1. arrivals' \in 0 .. MaxRequests
  BY BoundsAssumption DEF TypeOK, Arrive
<1>2. claims' \in [Threads -> SUBSET Claim] /\ todo' \in [Threads -> Seq(Statement)]
  BY DEF TypeOK, Arrive
<1>3. Observe /\ UNCHANGED <<db, index, forms, origin, broken>>
  BY DEF Arrive
<1>4. QED
  BY <1>1, <1>2, <1>3, HistoryType DEF TypeOK

-----------------------------------------------------------------------------
(* The statement a thread is at *)

\* A thread is always at a statement.
LEMMA CurrentType ==
    ASSUME TypeOK, NEW t \in Threads, todo[t] # <<>>
    PROVE  Current(t) \in Statement
BY DEF TypeOK, Current

\* The operation tells which kind of statement it is: a step of fetch_full.
LEMMA AtFetched ==
    ASSUME TypeOK, NEW t \in Threads, NEW op, At(t, op),
           op \in {"fetch_examples", "fetch_linked_words", "fetch_datasets",
                   "accept_just_word"}
    PROVE  Current(t) \in FetchedStatement
<1>1. todo[t] # <<>> /\ Current(t).op = op
  BY DEF At, Current
<1>2. Current(t) \in Statement
  BY <1>1, CurrentType
<1>3. QED
  BY <1>1, <1>2 DEF Statement, FetchedStatement, ByIdStatement, AcceptStatement,
                    SharedStatement, DeletionStatement, SubmitStatement

\* A statement that is about a row by its id.
LEMMA AtById ==
    ASSUME TypeOK, NEW t \in Threads, NEW op, At(t, op),
           op \in {"fetch_alone", "delete_word_suggestion", "fetch_example", "fetch_link",
                   "fetch_dataset", "fetch_link_deletion", "delete_link",
                   "suggest_word_deletion", "delete_word", "delete_example"}
    PROVE  Current(t).id \in Id
<1>1. todo[t] # <<>> /\ Current(t).op = op
  BY DEF At, Current
<1>2. Current(t) \in Statement
  BY <1>1, CurrentType
<1>3. QED
  BY <1>1, <1>2 DEF Statement, FetchedStatement, ByIdStatement, AcceptStatement,
                    SharedStatement, DeletionStatement, SubmitStatement

\* A statement of an acceptance.
LEMMA AtAccept ==
    ASSUME TypeOK, NEW t \in Threads, NEW op, At(t, op),
           op \in {"add_user_attribution", "accept_examples", "accept_datasets",
                   "accept_links", "accept_link"}
    PROVE  Current(t) \in AcceptStatement
<1>1. todo[t] # <<>> /\ Current(t).op = op
  BY DEF At, Current
<1>2. Current(t) \in Statement
  BY <1>1, CurrentType
<1>3. QED
  BY <1>1, <1>2 DEF Statement, FetchedStatement, ByIdStatement, AcceptStatement,
                    SharedStatement, DeletionStatement, SubmitStatement

\* A statement handlers share.
LEMMA AtShared ==
    ASSUME TypeOK, NEW t \in Threads, NEW op, At(t, op),
           op \in {"delete_row", "index_put", "index_delete"}
    PROVE  Current(t) \in SharedStatement
<1>1. todo[t] # <<>> /\ Current(t).op = op
  BY DEF At, Current
<1>2. Current(t) \in Statement
  BY <1>1, CurrentType
<1>3. QED
  BY <1>1, <1>2 DEF Statement, FetchedStatement, ByIdStatement, AcceptStatement,
                    SharedStatement, DeletionStatement, SubmitStatement

\* A statement of an accepted deletion.
LEMMA AtDeletion ==
    ASSUME TypeOK, NEW t \in Threads, NEW op, At(t, op),
           op \in {"fetch_word_deletion", "fetch_example_deletion", "delete_word",
                   "delete_example"}
    PROVE  Current(t) \in DeletionStatement
<1>1. todo[t] # <<>> /\ Current(t).op = op
  BY DEF At, Current
<1>2. Current(t) \in Statement
  BY <1>1, CurrentType
<1>3. QED
  BY <1>1, <1>2 DEF Statement, FetchedStatement, ByIdStatement, AcceptStatement,
                    SharedStatement, DeletionStatement, SubmitStatement

\* A statement of a submission.
LEMMA AtSubmit ==
    ASSUME TypeOK, NEW t \in Threads, NEW op, At(t, op),
           op \in {"read_original", "insert_suggestion", "process_linked_words",
                   "process_examples", "process_datasets", "write_link",
                   "write_example", "write_dataset"}
    PROVE  Current(t) \in SubmitStatement
<1>1. todo[t] # <<>> /\ Current(t).op = op
  BY DEF At, Current
<1>2. Current(t) \in Statement
  BY <1>1, CurrentType
<1>3. QED
  BY <1>1, <1>2 DEF Statement, FetchedStatement, ByIdStatement, AcceptStatement,
                    SharedStatement, DeletionStatement, SubmitStatement

-----------------------------------------------------------------------------
(* The statements handlers are made of *)

\* The statements every handler shares are statements.
LEMMA SharedStatements ==
    /\ \A doc \in WordOrSuggestionId :
          IndexPut(doc) \in Statement /\ IndexDelete(doc) \in Statement
    /\ \A user \in Users, w \in Id : AddUserAttribution(user, w) \in Statement
    /\ \A table \in LeafTables, id \in Id : DeleteRow(table, id) \in Statement
<1>1. \A doc \in WordOrSuggestionId :
          IndexPut(doc) \in SharedStatement /\ IndexDelete(doc) \in SharedStatement
  BY DEF IndexPut, IndexDelete, SharedStatement
<1>2. \A user \in Users, w \in Id : AddUserAttribution(user, w) \in AcceptStatement
  BY DEF AddUserAttribution, AcceptStatement
<1>3. \A table \in LeafTables, id \in Id : DeleteRow(table, id) \in SharedStatement
  BY DEF DeleteRow, SharedStatement
<1>4. QED
  BY <1>1, <1>2, <1>3 DEF Statement

\* So are the six DELETEs of a row by its id.
LEMMA DeleteStatements ==
    ASSUME NEW id \in Id
    PROVE  /\ DeleteExampleSuggestion(id) \in Statement
           /\ DeleteLinkedWordSuggestion(id) \in Statement
           /\ DeleteDatasetSuggestion(id) \in Statement
           /\ RejectWordDeletion(id) \in Statement
           /\ DeleteExampleDeletion(id) \in Statement
           /\ DeleteLinkedWordDeletion(id) \in Statement
BY SharedStatements DEF DeleteExampleSuggestion, DeleteLinkedWordSuggestion,
   DeleteDatasetSuggestion, RejectWordDeletion, DeleteExampleDeletion,
   DeleteLinkedWordDeletion, LeafTables

\* References to rows, by either kind of id.
LEMMA ReferenceType ==
    ASSUME NEW id \in Id
    PROVE  /\ Existing(id) \in WordOrSuggestionId \cap Claim
           /\ Suggested(id) \in WordOrSuggestionId \cap Claim
           /\ <<"example", id>> \in Claim
           /\ <<"link", id>> \in Claim
BY DEF Existing, Suggested, WordOrSuggestionId, Claim

\* A reference yields an id on the side it is of, and NULL on the other.
LEMMA IntoType ==
    ASSUME NEW ref, ref \in WordOrSuggestionId \/ ref = Nothing
    PROVE  IntoExisting(ref) \in OptionalId /\ IntoSuggested(ref) \in OptionalId
BY DEF IntoExisting, IntoSuggested, WordOrSuggestionId, Nothing, OptionalId, Id, Null

\* A loop is over when its set is empty, and is a statement until then.
LEMMA LoopType ==
    ASSUME NEW statement, NEW set,
           set # {} => [statement EXCEPT !.rows = set] \in Statement
    PROVE  Loop(statement, set) \in Seq(Statement)
BY DEF Loop

\* A statement about a row by its id is a statement.
LEMMA ByIdStatements ==
    ASSUME NEW id \in Id,
           NEW op \in {"fetch_alone", "delete_word_suggestion", "fetch_example",
                       "fetch_link", "fetch_dataset", "fetch_link_deletion",
                       "delete_link", "suggest_word_deletion"}
    PROVE  [op |-> op, id |-> id] \in Statement
BY DEF Statement, ByIdStatement

\* Deleting a word suggestion is two statements.
LEMMA DeleteWordSuggestionType ==
    ASSUME NEW s \in Id
    PROVE  DeleteWordSuggestion(s) \in Seq(Statement)
<1>1. IndexDelete(Suggested(s)) \in Statement
  BY SharedStatements, ReferenceType
<1>2. [op |-> "delete_word_suggestion", id |-> s] \in Statement
  BY ByIdStatements
<1>3. QED
  BY <1>1, <1>2 DEF DeleteWordSuggestion

-----------------------------------------------------------------------------
(* Accepting a word suggestion: one lemma per action *)

\* Ids a page may hold are ids.
LEMMA EverGivenType ==
    ASSUME TypeOK, NEW table \in AutoIncrement
    PROVE  EverGiven(table) \subseteq Id
BY DEF EverGiven, TypeOK, Database, Id, Null

\* The requests about word suggestions keep the type of the state.
LEMMA WordRequestsType ==
    ASSUME TypeOK, NEW t \in Threads,
           accept_suggested_word(t) \/ reject_suggested_word(t)
    PROVE  TypeOK'
<1>1. CASE accept_suggested_word(t)
  <2>1. PICK s \in EverGiven("word_suggestions") :
            Arrive(t, "accept_suggested_word",
                   <<[op |-> "fetch_alone", id |-> s]>>, {Suggested(s)})
    BY <1>1 DEF accept_suggested_word
  <2>2. s \in Id
    BY EverGivenType DEF AutoIncrement
  <2>3. [op |-> "fetch_alone", id |-> s] \in Statement
    BY <2>2, ByIdStatements
  <2>4. <<[op |-> "fetch_alone", id |-> s]>> \in Seq(Statement)
    BY <2>3
  <2>5. {Suggested(s)} \in SUBSET Claim
    BY <2>2, ReferenceType
  <2>6. QED
    BY <2>1, <2>4, <2>5, ArriveType
<1>2. CASE reject_suggested_word(t)
  <2>1. PICK s \in EverGiven("word_suggestions") :
            Arrive(t, "reject_suggested_word", DeleteWordSuggestion(s), {Suggested(s)})
    BY <1>2 DEF reject_suggested_word
  <2>2. s \in Id
    BY EverGivenType DEF AutoIncrement
  <2>3. {Suggested(s)} \in SUBSET Claim
    BY <2>2, ReferenceType
  <2>4. QED
    BY <2>1, <2>2, <2>3, DeleteWordSuggestionType, ArriveType
<1>3. QED
  BY <1>1, <1>2

\* The first query of fetch_full hands on the row it found.
LEMMA FetchAloneType ==
    ASSUME TypeOK, NEW t \in Threads, fetch_alone(t)
    PROVE  TypeOK'
<1> DEFINE s == Current(t).id
           row == RowOf(db.word_suggestions, s)
           edited == IF row.existing_word_id = Null THEN {}
                     ELSE {Existing(row.existing_word_id)}
           next == Fetched("fetch_examples", row, {}, {}, {})
<1>1. todo[t] # <<>> /\ At(t, "fetch_alone")
  BY DEF fetch_alone, At
<1>2. CASE s \in Ids(db.word_suggestions)
  <2>1. row \in WordSuggestionRow
    BY <1>2, RowOfType DEF TypeOK, Database
  <2>2. edited \in SUBSET Claim
    BY <2>1, ReferenceType DEF WordSuggestionRow, Id, OptionalId
  <2>3. next \in FetchedStatement
    BY <2>1 DEF Fetched, FetchedStatement
  <2>4. <<next>> \in Seq(Statement)
    BY <2>3 DEF Statement
  <2>5. Read(t, TRUE, <<next>>, edited)
    BY <1>2 DEF fetch_alone
  <2>6. QED
    BY <1>1, <2>2, <2>4, <2>5, ReadType
<1>3. CASE s \notin Ids(db.word_suggestions)
  BY <1>3, PanicType DEF fetch_alone
<1>4. QED
  BY <1>2, <1>3

\* What a suggestion is an edit of has a name.
LEMMA EditedType ==
    /\ \A r \in ExampleSuggestionRow : EditedExample(r) \subseteq Claim
    /\ \A r \in LinkedWordSuggestionRow : EditedLink(r) \subseteq Claim
BY DEF EditedExample, EditedLink, ExampleSuggestionRow, LinkedWordSuggestionRow,
       OptionalId, Id, Claim

\* The second adds the examples of the suggestion.
LEMMA FetchExamplesType ==
    ASSUME TypeOK, NEW t \in Threads, fetch_examples(t)
    PROVE  TypeOK'
<1> DEFINE c == Current(t)
           next == Fetched("fetch_linked_words", c.row,
                           ExampleSuggestionsOf(db, c.row.id), {}, {})
           about == UNION {EditedExample(r) : r \in ExampleSuggestionsOf(db, c.row.id)}
<1>1. todo[t] # <<>> /\ At(t, "fetch_examples") /\ Read(t, TRUE, <<next>>, about)
  BY DEF fetch_examples, At
<1>2. c.row \in WordSuggestionRow
  BY <1>1, AtFetched DEF FetchedStatement
<1>3. ExampleSuggestionsOf(db, c.row.id) \subseteq ExampleSuggestionRow
  BY DEF ExampleSuggestionsOf, TypeOK, Database
<1>4. next \in FetchedStatement
  BY <1>2, <1>3 DEF Fetched, FetchedStatement
<1>5. <<next>> \in Seq(Statement)
  BY <1>4 DEF Statement
<1>6. about \in SUBSET Claim
  BY <1>3, EditedType
<1>7. QED
  BY <1>1, <1>5, <1>6, ReadType

\* The fourth adds the datasets.
LEMMA FetchDatasetsType ==
    ASSUME TypeOK, NEW t \in Threads, fetch_datasets(t)
    PROVE  TypeOK'
<1> DEFINE c == Current(t)
           next == Fetched("accept_just_word", c.row, c.examples, c.links,
                           DatasetSuggestionsOf(db, c.row.id))
<1>1. todo[t] # <<>> /\ At(t, "fetch_datasets") /\ Read(t, TRUE, <<next>>, {})
  BY DEF fetch_datasets, At
<1>2. c \in FetchedStatement
  BY <1>1, AtFetched
<1>3. DatasetSuggestionsOf(db, c.row.id) \subseteq DatasetSuggestionRow
  BY DEF DatasetSuggestionsOf, TypeOK, Database
<1>4. next \in FetchedStatement
  BY <1>2, <1>3 DEF Fetched, FetchedStatement
<1>5. <<next>> \in Seq(Statement)
  BY <1>4 DEF Statement
<1>6. QED
  BY <1>1, <1>5, ReadType

-----------------------------------------------------------------------------
(* The two words of a link suggestion *)

\* A set of positions that is not empty has a least one.
LEMMA LeastType ==
    ASSUME NEW S \in SUBSET (1 .. 6), S # {}
    PROVE  Least(S) \in S /\ \A j \in S : Least(S) <= j
<1>1. \A n \in 1 .. 6 : n \in S /\ (\A j \in 1 .. 6 : j < n => j \notin S)
                         => \A j \in S : n <= j
  OBVIOUS
<1>2. \E i \in S : \A j \in S : i <= j
  <2>1. CASE 1 \in S
    BY <1>1, <2>1
  <2>2. CASE 1 \notin S /\ 2 \in S
    BY <1>1, <2>2
  <2>3. CASE 1 \notin S /\ 2 \notin S /\ 3 \in S
    BY <1>1, <2>3
  <2>4. CASE 1 \notin S /\ 2 \notin S /\ 3 \notin S /\ 4 \in S
    BY <1>1, <2>4
  <2>5. CASE 1 \notin S /\ 2 \notin S /\ 3 \notin S /\ 4 \notin S /\ 5 \in S
    BY <1>1, <2>5
  <2>6. CASE S \subseteq {6}
    <3>1. S = {6}
      BY <2>6
    <3>2. QED
      BY <3>1
  <2>7. QED
    BY <2>1, <2>2, <2>3, <2>4, <2>5, <2>6
<1>3. QED
  BY <1>2 DEF Least

\* The ids a link suggestion names are references or NULL.
LEMMA NamedWordsType ==
    ASSUME NEW d \in Database, ForeignKeysHold(d),
           NEW r \in d.linked_word_suggestions, NEW joined
    PROVE  LET ids == NamedWords(d, r, joined)
           IN  /\ DOMAIN ids = 1 .. 6
               /\ \A i \in 1 .. 6 : ids[i][2] # Null => ids[i] \in WordOrSuggestionId
<1> DEFINE l == RowOf(d.linked_words, r.existing_linked_word_id)
           edits == joined /\ r.existing_linked_word_id # Null
           ids == NamedWords(d, r, joined)
<1>1. r \in LinkedWordSuggestionRow
  BY DEF Database
<1>2. ASSUME edits
      PROVE  l \in LinkedWordRow
  <2>1. r.existing_linked_word_id \in Ids(d.linked_words)
    BY <1>2 DEF ForeignKeysHold, LinkedWordSuggestionOk, Refers
  <2>2. QED
    BY <2>1, RowOfType DEF Database
<1>3. /\ \A n \in OptionalId : Existing(n)[2] # Null => Existing(n) \in WordOrSuggestionId
      /\ \A n \in OptionalId : Suggested(n)[2] # Null => Suggested(n) \in WordOrSuggestionId
  BY DEF Existing, Suggested, WordOrSuggestionId, Id, OptionalId
<1>4. /\ (IF edits THEN l.first_word_id ELSE Null) \in OptionalId
      /\ (IF edits THEN l.second_word_id ELSE Null) \in OptionalId
  BY <1>2 DEF LinkedWordRow, Id, OptionalId, Null
<1>5. DOMAIN ids = 1 .. 6
  BY DEF NamedWords
<1>6. /\ ids[1] = Existing(r.first_existing_word_id)
      /\ ids[2] = Existing(r.second_existing_word_id)
      /\ ids[3] = Suggested(r.suggested_word_id)
      /\ ids[4] = Suggested(r.second_suggested_word_id)
      /\ ids[5] = Existing(IF edits THEN l.first_word_id ELSE Null)
      /\ ids[6] = Existing(IF edits THEN l.second_word_id ELSE Null)
  BY DEF NamedWords
<1> HIDE DEF ids, l, edits
<1>7. \A i \in 1 .. 6 : ids[i][2] # Null => ids[i] \in WordOrSuggestionId
  BY <1>1, <1>3, <1>4, <1>6 DEF LinkedWordSuggestionRow
<1>8. QED
  BY <1>5, <1>7 DEF ids

\* A link suggestion that names two words is between two references.
LEMMA EndsType ==
    ASSUME NEW d \in Database, ForeignKeysHold(d),
           NEW r \in d.linked_word_suggestions, NEW joined, NamesTwoWords(d, r, joined)
    PROVE  FirstAndSecond(d, r, joined) \in Ends
<1> DEFINE ids == NamedWords(d, r, joined)
           named == Named(ids)
           i == Least(named)
           j == Least(named \ {i})
<1>1. /\ DOMAIN ids = 1 .. 6
      /\ \A n \in 1 .. 6 : ids[n][2] # Null => ids[n] \in WordOrSuggestionId
  BY NamedWordsType
<1> HIDE DEF ids
<1>2. \E n, m \in named : n < m
  BY DEF NamesTwoWords, ids
<1>3. named \subseteq 1 .. 6
  BY <1>1 DEF Named
<1>4. \A n \in named : ids[n] \in WordOrSuggestionId
  BY <1>1 DEF Named
<1>5. \E n, m \in named : n # m
  BY <1>2, <1>3
<1> HIDE DEF named
<1>6. i \in named
  BY <1>3, <1>5, LeastType
<1> HIDE DEF i
<1>7. named \ {i} # {} /\ named \ {i} \subseteq 1 .. 6
  <2>1. PICK n \in named, m \in named : n # m
    BY <1>5
  <2>2. n \in named \ {i} \/ m \in named \ {i}
    BY <2>1
  <2>3. QED
    BY <1>3, <2>2
<1>8. j \in named \ {i}
  BY <1>7, LeastType
<1>9. FirstAndSecond(d, r, joined) = [first |-> ids[i], second |-> ids[j]]
  BY DEF FirstAndSecond, ids, named, i
<1> HIDE DEF j
<1>10. QED
  BY <1>4, <1>6, <1>8, <1>9 DEF Ends

\* What is handed on of it is a populated link.
LEMMA PopulatedType ==
    ASSUME NEW d \in Database, ForeignKeysHold(d),
           NEW r \in d.linked_word_suggestions, NEW joined, NamesTwoWords(d, r, joined)
    PROVE  Populated(d, r, joined) \in PopulatedLink
<1>1. FirstAndSecond(d, r, joined) \in Ends
  BY EndsType
<1>2. r \in LinkedWordSuggestionRow
  BY DEF Database
<1>3. QED
  BY <1>1, <1>2 DEF Populated, PopulatedLink, LinkedWordSuggestionRow

\* The third query of fetch_full hands on links between two references.
LEMMA FetchLinkedWordsType ==
    ASSUME TypeOK, References, NEW t \in Threads, fetch_linked_words(t)
    PROVE  TypeOK'
<1> DEFINE c == Current(t)
           rows == LinkSuggestionsOf(db, c.row.id)
           links == {Populated(db, r, FALSE) : r \in rows}
           next == Fetched("fetch_datasets", c.row, c.examples, links, {})
           about == UNION ({{l.ends.first, l.ends.second} : l \in links}
                           \cup {EditedLink(r) : r \in rows})
<1>1. todo[t] # <<>> /\ At(t, "fetch_linked_words")
  BY DEF fetch_linked_words, At
<1>2. c \in FetchedStatement
  BY <1>1, AtFetched
<1>3. CASE LinksPopulate(db, c.row.id)
  <2>1. links \subseteq PopulatedLink
    BY <1>3, PopulatedType DEF LinksPopulate, LinkSuggestionsOf, TypeOK, References
  <2>2. about \in SUBSET Claim
    <3>1. \A l \in PopulatedLink : {l.ends.first, l.ends.second} \subseteq Claim
      BY DEF PopulatedLink, Ends, WordOrSuggestionId, Claim
    <3>2. \A r \in rows : EditedLink(r) \subseteq Claim
      <4>1. rows \subseteq LinkedWordSuggestionRow
        BY DEF LinkSuggestionsOf, TypeOK, Database
      <4>2. QED
        BY <4>1, EditedType
    <3> HIDE DEF links, rows
    <3>3. UNION {{l.ends.first, l.ends.second} : l \in links} \subseteq Claim
      BY <2>1, <3>1
    <3>4. UNION {EditedLink(r) : r \in rows} \subseteq Claim
      BY <3>2
    <3>5. QED
      BY <3>3, <3>4
  <2>3. next \in FetchedStatement
    BY <1>2, <2>1 DEF Fetched, FetchedStatement
  <2>4. <<next>> \in Seq(Statement)
    BY <2>3 DEF Statement
  <2>5. Read(t, TRUE, <<next>>, about)
    BY <1>3 DEF fetch_linked_words
  <2>6. QED
    BY <1>1, <2>2, <2>4, <2>5, ReadType
<1>4. CASE ~LinksPopulate(db, c.row.id)
  BY <1>4, PanicType DEF fetch_linked_words
<1>5. QED
  BY <1>3, <1>4

\* What follows the INSERT of the word is statements.
LEMMA RestOfAcceptanceType ==
    ASSUME NEW c \in FetchedStatement, NEW word \in Id
    PROVE  RestOfAcceptance(c, word) \in Seq(Statement)
<1>1. <<AddUserAttribution(c.row.user, word)>> \in Seq(Statement)
  BY SharedStatements DEF FetchedStatement, WordSuggestionRow
<1>2. Loop([op |-> "accept_examples", rows |-> {}, word_id |-> word], c.examples)
          \in Seq(Statement)
  <2>1. [[op |-> "accept_examples", rows |-> {}, word_id |-> word] EXCEPT !.rows = c.examples]
           \in AcceptStatement
    BY DEF AcceptStatement, FetchedStatement
  <2>2. QED
    BY <2>1, LoopType DEF Statement
<1>3. Loop([op |-> "accept_datasets", rows |-> {}, word_id |-> word], c.datasets)
          \in Seq(Statement)
  <2>1. [[op |-> "accept_datasets", rows |-> {}, word_id |-> word] EXCEPT !.rows = c.datasets]
           \in AcceptStatement
    BY DEF AcceptStatement, FetchedStatement
  <2>2. QED
    BY <2>1, LoopType DEF Statement
<1>4. Loop([op |-> "accept_links", rows |-> {}, word_id |-> word,
            suggestion |-> c.row.id], c.links) \in Seq(Statement)
  <2>1. [[op |-> "accept_links", rows |-> {}, word_id |-> word,
          suggestion |-> c.row.id] EXCEPT !.rows = c.links] \in AcceptStatement
    BY DEF AcceptStatement, FetchedStatement, WordSuggestionRow
  <2>2. QED
    BY <2>1, LoopType DEF Statement
<1>5. DeleteWordSuggestion(c.row.id) \in Seq(Statement)
  BY DeleteWordSuggestionType DEF FetchedStatement, WordSuggestionRow
<1>6. <<IndexPut(Existing(word))>> \in Seq(Statement)
  <2>1. IndexPut(Existing(word)) \in Statement
    BY SharedStatements, ReferenceType
  <2>2. QED
    BY <2>1
<1>7. \A p, q \in Seq(Statement) : p \o q \in Seq(Statement)
  OBVIOUS
<1>8. QED
  BY <1>1, <1>2, <1>3, <1>4, <1>5, <1>6, <1>7 DEF RestOfAcceptance

\* A database with another value for one of its tables and the sequence.
LEMMA WordInserted ==
    ASSUME NEW d \in Database, NEW word \in Id
    PROVE  [d EXCEPT !.words = @ \cup {word}, !.seq = Bump(@, "words", word)] \in Database
<1>1. d.seq \in [AutoIncrement -> Nat]
  BY DEF Database
<1>2. Bump(d.seq, "words", word) \in [AutoIncrement -> Nat]
  BY <1>1, BumpType DEF AutoIncrement, Id
<1>3. QED
  BY <1>2 DEF Database

\* The INSERT of the word keeps the type of the state.
LEMMA AcceptJustWordType ==
    ASSUME TypeOK, NEW t \in Threads, accept_just_word(t)
    PROVE  TypeOK'
<1> DEFINE c == Current(t)
           word == KeyOrNext(db, "words", c.row.existing_word_id)
<1>1. todo[t] # <<>> /\ At(t, "accept_just_word")
  BY DEF accept_just_word, At
<1>2. c \in FetchedStatement
  BY <1>1, AtFetched
<1>3. word \in Id
  BY <1>2, KeyOrNextType DEF TypeOK, FetchedStatement, WordSuggestionRow, AutoIncrement
<1>4. /\ db' = [db EXCEPT !.words = @ \cup {word}, !.seq = Bump(@, "words", word)]
      /\ Continue(t, RestOfAcceptance(c, word), {Existing(word)})
      /\ origin' = IF c.row.existing_word_id = Null
                   THEN origin \cup {<<word, c.row.id>>} ELSE origin
      /\ UNCHANGED <<index, forms, arrivals, broken>>
      /\ Observe
  BY DEF accept_just_word
<1> HIDE DEF word
<1>5. db' \in Database
  BY <1>3, <1>4, WordInserted DEF TypeOK
<1>6. RestOfAcceptance(c, word) \in Seq(Statement) /\ {Existing(word)} \in SUBSET Claim
  BY <1>2, <1>3, RestOfAcceptanceType, ReferenceType
<1>7. claims' \in [Threads -> SUBSET Claim] /\ todo' \in [Threads -> Seq(Statement)]
  BY <1>1, <1>4, <1>6, ContinueType
<1>8. origin' \subseteq Id \X Id
  BY <1>2, <1>3, <1>4 DEF TypeOK, FetchedStatement, WordSuggestionRow
<1>9. QED
  BY <1>4, <1>5, <1>7, <1>8, HistoryType DEF TypeOK

\* The upsert of an example leaves a database.
LEMMA PutExampleType ==
    ASSUME NEW d \in Database, NEW id \in OptionalId, NEW word \in Id
    PROVE  PutExample(d, id, word) \in Database
<1> DEFINE key == KeyOrNext(d, "examples", id)
           seq == Bump(d.seq, "examples", key)
<1>1. key \in Id
  BY KeyOrNextType DEF AutoIncrement
<1>2. seq \in [AutoIncrement -> Nat]
  BY <1>1, BumpType DEF Database, AutoIncrement, Id
<1>3. [id |-> key, word_id |-> word] \in ExampleRow
  BY <1>1 DEF ExampleRow
<1> HIDE DEF key
<1>4. [d EXCEPT !.examples = @ \cup {[id |-> key, word_id |-> word]},
                !.seq = Bump(@, "examples", key)] \in Database
  BY <1>2, <1>3 DEF Database
<1>5. QED
  BY <1>4 DEF PutExample, key

\* One turn of the loop over the examples of an acceptance.
LEMMA AcceptExampleType ==
    ASSUME TypeOK, NEW t \in Threads, accept_example(t)
    PROVE  TypeOK'
<1> DEFINE c == Current(t)
           after(r) == PutExample(db, r.existing_example_id, c.word_id)
           next(r) == <<AddUserAttribution(r.user, c.word_id), DeleteExampleSuggestion(r.id)>>
                      \o Loop(c, c.rows \ {r})
<1>1. todo[t] # <<>> /\ At(t, "accept_examples") /\ c.op = "accept_examples"
  BY DEF accept_example, At, Current
<1>2. /\ c \in [op: {"accept_examples"}, rows: SUBSET ExampleSuggestionRow, word_id: Id]
  BY <1>1, AtAccept DEF AcceptStatement
<1>3. PICK r \in c.rows :
          Write(t, r.existing_example_id \in Ids(db.examples) \/ c.word_id \in db.words,
                after(r), next(r))
  BY DEF accept_example
<1>4. r \in ExampleSuggestionRow
  BY <1>2
<1>5. after(r) \in Database
  BY <1>2, <1>4, PutExampleType DEF TypeOK, ExampleSuggestionRow
<1>6. next(r) \in Seq(Statement)
  <2>1. /\ AddUserAttribution(r.user, c.word_id) \in Statement
        /\ DeleteExampleSuggestion(r.id) \in Statement
    BY <1>2, <1>4, SharedStatements, DeleteStatements DEF ExampleSuggestionRow
  <2>2. [c EXCEPT !.rows = c.rows \ {r}] \in Statement
    BY <1>2 DEF Statement, AcceptStatement
  <2>3. Loop(c, c.rows \ {r}) \in Seq(Statement)
    BY <2>2, LoopType
  <2>4. QED
    BY <2>1, <2>3
<1> HIDE DEF after, next
<1>7. QED
  BY <1>1, <1>3, <1>5, <1>6, WriteType

\* One turn of the loop over the datasets.
LEMMA AcceptDatasetType ==
    ASSUME TypeOK, NEW t \in Threads, accept_dataset(t)
    PROVE  TypeOK'
<1> DEFINE c == Current(t)
           after(r) == [db EXCEPT !.dataset_attributions =
                           IF r.is_delete THEN @ \ {<<c.word_id, r.dataset>>}
                           ELSE @ \cup {<<c.word_id, r.dataset>>}]
           next(r) == <<AddUserAttribution(r.user, c.word_id), DeleteDatasetSuggestion(r.id)>>
                      \o Loop(c, c.rows \ {r})
<1>1. todo[t] # <<>> /\ At(t, "accept_datasets") /\ c.op = "accept_datasets"
  BY DEF accept_dataset, At, Current
<1>2. /\ c \in [op: {"accept_datasets"}, rows: SUBSET DatasetSuggestionRow, word_id: Id]
  BY <1>1, AtAccept DEF AcceptStatement
<1>3. PICK r \in c.rows :
          Write(t, r.is_delete \/ c.word_id \in db.words, after(r), next(r))
  BY DEF accept_dataset
<1>4. r \in DatasetSuggestionRow
  BY <1>2
<1>5. after(r) \in Database
  <2>1. <<c.word_id, r.dataset>> \in Id \X Datasets
    BY <1>2, <1>4 DEF DatasetSuggestionRow
  <2>2. \A S \in SUBSET (Id \X Datasets) :
            [db EXCEPT !.dataset_attributions = S] \in Database
    BY DEF TypeOK, Database
  <2>3. (IF r.is_delete THEN db.dataset_attributions \ {<<c.word_id, r.dataset>>}
         ELSE db.dataset_attributions \cup {<<c.word_id, r.dataset>>})
           \in SUBSET (Id \X Datasets)
    BY <2>1 DEF TypeOK, Database
  <2>4. QED
    BY <2>2, <2>3
<1>6. next(r) \in Seq(Statement)
  <2>1. /\ AddUserAttribution(r.user, c.word_id) \in Statement
        /\ DeleteDatasetSuggestion(r.id) \in Statement
    BY <1>2, <1>4, SharedStatements, DeleteStatements DEF DatasetSuggestionRow
  <2>2. [c EXCEPT !.rows = c.rows \ {r}] \in Statement
    BY <1>2 DEF Statement, AcceptStatement
  <2>3. Loop(c, c.rows \ {r}) \in Seq(Statement)
    BY <2>2, LoopType
  <2>4. QED
    BY <2>1, <2>3
<1> HIDE DEF after, next
<1>7. QED
  BY <1>1, <1>3, <1>5, <1>6, WriteType

\* The upsert of a link leaves a database.
LEMMA PutLinkedWordType ==
    ASSUME NEW d \in Database, NEW id \in OptionalId, NEW first \in Id, NEW second \in Id
    PROVE  PutLinkedWord(d, id, first, second) \in Database
<1> DEFINE key == KeyOrNext(d, "linked_words", id)
           seq == Bump(d.seq, "linked_words", key)
           row == [id |-> key, first_word_id |-> first, second_word_id |-> second]
<1>1. key \in Id
  BY KeyOrNextType DEF AutoIncrement
<1>2. seq \in [AutoIncrement -> Nat]
  BY <1>1, BumpType DEF Database, AutoIncrement, Id
<1>3. row \in LinkedWordRow
  BY <1>1 DEF LinkedWordRow
<1> HIDE DEF key
<1>4. [d EXCEPT !.linked_words = @ \cup {row},
                !.seq = Bump(@, "linked_words", key)] \in Database
  BY <1>2, <1>3 DEF Database
<1>5. QED
  BY <1>4 DEF PutLinkedWord, key

\* SuggestedLinkedWord::accept.
LEMMA PutLinkType ==
    ASSUME TypeOK, NEW t \in Threads, todo[t] # <<>>,
           NEW l \in PopulatedLink, NEW ends \in Ends, NEW rest \in Seq(Statement),
           PutLink(t, l, ends, rest)
    PROVE  TypeOK'
<1> DEFINE first == ends.first[2]
           second == ends.second[2]
           after == PutLinkedWord(db, l.existing_id, first, second)
           next == <<AddUserAttribution(l.user, first), AddUserAttribution(l.user, second),
                     DeleteLinkedWordSuggestion(l.id)>> \o rest
<1>1. first \in Id /\ second \in Id
  BY DEF Ends, WordOrSuggestionId
<1>2. after \in Database
  BY <1>1, PutLinkedWordType DEF TypeOK, PopulatedLink
<1>3. next \in Seq(Statement)
  <2>1. /\ AddUserAttribution(l.user, first) \in Statement
        /\ AddUserAttribution(l.user, second) \in Statement
        /\ DeleteLinkedWordSuggestion(l.id) \in Statement
    BY <1>1, SharedStatements, DeleteStatements DEF PopulatedLink
  <2>2. QED
    BY <2>1
<1>4. Write(t, \/ l.existing_id \in Ids(db.linked_words)
               \/ first \in db.words /\ second \in db.words, after, next)
  BY DEF PutLink
<1> HIDE DEF after, next
<1>5. QED
  BY <1>2, <1>3, <1>4, WriteType

\* An UPDATE of the four columns of a link suggestion.
LEMMA UpdateFirstAndSecondType ==
    ASSUME TypeOK, NEW t \in Threads, todo[t] # <<>>,
           NEW l, NEW ends \in Ends, NEW rest \in Seq(Statement),
           update_first_and_second(t, l, ends, rest)
    PROVE  TypeOK'
<1> DEFINE Updated(r) == [r EXCEPT
               !.first_existing_word_id = IntoExisting(ends.first),
               !.second_existing_word_id = IntoExisting(ends.second),
               !.suggested_word_id = IntoSuggested(ends.first),
               !.second_suggested_word_id = IntoSuggested(ends.second)]
           after == {IF r.id = l.id THEN Updated(r) ELSE r : r \in db.linked_word_suggestions}
<1>1. /\ IntoExisting(ends.first) \in OptionalId /\ IntoSuggested(ends.first) \in OptionalId
      /\ IntoExisting(ends.second) \in OptionalId /\ IntoSuggested(ends.second) \in OptionalId
  BY IntoType DEF Ends
<1>2. db.linked_word_suggestions \subseteq LinkedWordSuggestionRow
  BY DEF TypeOK, Database
<1>3. \A r \in LinkedWordSuggestionRow : Updated(r) \in LinkedWordSuggestionRow
  BY <1>1 DEF LinkedWordSuggestionRow
<1>4. after \subseteq LinkedWordSuggestionRow
  <2> HIDE DEF Updated
  <2>1. QED
    BY <1>2, <1>3
<1>5. Write(t, \A r \in after : r.id = l.id => LinkedWordSuggestionOk(db, r),
            [db EXCEPT !.linked_word_suggestions = after], rest)
  BY DEF update_first_and_second
<1> HIDE DEF after
<1>6. [db EXCEPT !.linked_word_suggestions = after] \in Database
  BY <1>4 DEF TypeOK, Database
<1>7. QED
  BY <1>5, <1>6, WriteType

\* One turn of the loop over the links of an accepted word.
LEMMA AcceptLinkOfWordType ==
    ASSUME TypeOK, NEW t \in Threads, accept_link_of_word(t)
    PROVE  TypeOK'
<1> DEFINE c == Current(t)
           ends(l) == EndsAccepted(l.ends, c.suggestion, c.word_id)
           rest(l) == Loop(c, c.rows \ {l})
<1>1. todo[t] # <<>> /\ At(t, "accept_links") /\ c.op = "accept_links"
  BY DEF accept_link_of_word, At, Current
<1>2. c \in [op: {"accept_links"}, rows: SUBSET PopulatedLink, word_id: Id, suggestion: Id]
  BY <1>1, AtAccept DEF AcceptStatement
<1>3. PICK l \in c.rows :
          IF BothExist(ends(l)) THEN PutLink(t, l, ends(l), rest(l))
          ELSE update_first_and_second(t, l, ends(l), rest(l))
  BY DEF accept_link_of_word
<1>4. l \in PopulatedLink
  BY <1>2
<1>5. ends(l) \in Ends
  BY <1>2, <1>4, ReferenceType DEF EndsAccepted, Ends, PopulatedLink
<1>6. rest(l) \in Seq(Statement)
  <2>1. [c EXCEPT !.rows = c.rows \ {l}] \in Statement
    BY <1>2 DEF Statement, AcceptStatement
  <2>2. QED
    BY <2>1, LoopType
<1> HIDE DEF ends, rest
<1>7. QED
  BY <1>1, <1>3, <1>4, <1>5, <1>6, PutLinkType, UpdateFirstAndSecondType

\* The DELETE of a word suggestion.
LEMMA DeleteSuggestionType ==
    ASSUME TypeOK, NEW t \in Threads, delete_word_suggestion(t)
    PROVE  TypeOK'
<1>1. todo[t] # <<>> /\ At(t, "delete_word_suggestion")
  BY DEF delete_word_suggestion, At
<1>2. WithoutWordSuggestion(db, Current(t).id) \in Database
  BY <1>1, AtById, WithoutType DEF TypeOK
<1>3. Write(t, TRUE, WithoutWordSuggestion(db, Current(t).id), <<>>)
  BY DEF delete_word_suggestion
<1>4. <<>> \in Seq(Statement)
  OBVIOUS
<1>5. QED
  BY <1>1, <1>2, <1>3, <1>4, WriteType

-----------------------------------------------------------------------------
(* Decisions about parts and deletions *)

\* The requests about parts and deletions keep the type of the state.
LEMMA PartRequestsType ==
    ASSUME TypeOK, NEW t \in Threads,
           \/ accept_suggested_example(t) \/ reject_suggested_example(t)
           \/ accept_linked_word(t) \/ reject_linked_word(t)
           \/ accept_dataset_attribution_suggestion(t)
           \/ reject_dataset_attribution_suggestion(t)
           \/ accept_deletion(t) \/ reject_deletion(t)
           \/ accept_example_deletion(t) \/ reject_example_deletion(t)
           \/ accept_linked_word_deletion(t) \/ reject_linked_word_deletion(t)
    PROVE  TypeOK'
<1>1. {} \in SUBSET Claim
  OBVIOUS
<1>2. \A statement \in Statement : <<statement>> \in Seq(Statement)
  OBVIOUS
<1>3. /\ EverGiven("example_suggestions") \subseteq Id
      /\ EverGiven("linked_word_suggestions") \subseteq Id
      /\ EverGiven("dataset_attribution_suggestions") \subseteq Id
      /\ EverGiven("word_deletion_suggestions") \subseteq Id
      /\ EverGiven("linked_word_deletion_suggestions") \subseteq Id
  BY EverGivenType DEF AutoIncrement
<1>4. /\ \A shown \in pages.word : shown \in WordDeletionRow
      /\ \A shown \in pages.example : shown \in ExampleDeletionRow
  BY DEF TypeOK
<1>5. ASSUME NEW route, NEW statement \in Statement, Arrive(t, route, <<statement>>, {})
      PROVE  TypeOK'
  BY <1>1, <1>2, <1>5, ArriveType
<1>6. CASE accept_suggested_example(t)
  BY <1>3, <1>5, <1>6, ByIdStatements DEF accept_suggested_example
<1>7. CASE reject_suggested_example(t)
  BY <1>3, <1>5, <1>7, DeleteStatements DEF reject_suggested_example
<1>8. CASE accept_linked_word(t)
  BY <1>3, <1>5, <1>8, ByIdStatements DEF accept_linked_word
<1>9. CASE reject_linked_word(t)
  BY <1>3, <1>5, <1>9, DeleteStatements DEF reject_linked_word
<1>10. CASE accept_dataset_attribution_suggestion(t)
  BY <1>3, <1>5, <1>10, ByIdStatements DEF accept_dataset_attribution_suggestion
<1>11. CASE reject_dataset_attribution_suggestion(t)
  BY <1>3, <1>5, <1>11, DeleteStatements DEF reject_dataset_attribution_suggestion
<1>12. CASE accept_deletion(t)
  <2>1. \A shown \in WordDeletionRow : [op |-> "fetch_word_deletion", shown |-> shown] \in Statement
    BY DEF Statement, DeletionStatement
  <2>2. QED
    BY <1>4, <1>5, <1>12, <2>1 DEF accept_deletion
<1>13. CASE reject_deletion(t)
  BY <1>3, <1>5, <1>13, DeleteStatements DEF reject_deletion
<1>14. CASE accept_example_deletion(t)
  <2>1. \A shown \in ExampleDeletionRow :
            [op |-> "fetch_example_deletion", shown |-> shown] \in Statement
    BY DEF Statement, DeletionStatement
  <2>2. QED
    BY <1>4, <1>5, <1>14, <2>1 DEF accept_example_deletion
<1>15. CASE reject_example_deletion(t)
  BY <1>4, <1>5, <1>15, DeleteStatements DEF reject_example_deletion, ExampleDeletionRow
<1>16. CASE accept_linked_word_deletion(t)
  BY <1>3, <1>5, <1>16, ByIdStatements DEF accept_linked_word_deletion
<1>17. CASE reject_linked_word_deletion(t)
  BY <1>3, <1>5, <1>17, DeleteStatements DEF reject_linked_word_deletion
<1>18. QED
  BY <1>6, <1>7, <1>8, <1>9, <1>10, <1>11, <1>12, <1>13, <1>14, <1>15, <1>16, <1>17

\* fetch and accept of an example of an existing word.
LEMMA FetchExampleType ==
    ASSUME TypeOK, NEW t \in Threads, fetch_example(t)
    PROVE  TypeOK'
<1> DEFINE s == Current(t).id
           row == RowOf(db.example_suggestions, s)
           next == [op |-> "accept_examples", rows |-> {row}, word_id |-> row.existing_word_id]
           about == {Existing(row.existing_word_id)} \cup EditedExample(row)
<1>1. todo[t] # <<>>
  BY DEF fetch_example, At
<1>2. CASE s \in Ids(db.example_suggestions)
  <2>1. Read(t, row.existing_word_id # Null, <<next>>, about)
    BY <1>2 DEF fetch_example
  <2>2. row \in ExampleSuggestionRow
    BY <1>2, RowOfType DEF TypeOK, Database
  <2> HIDE DEF row
  <2>3. ASSUME row.existing_word_id # Null
        PROVE  <<next>> \in Seq(Statement) /\ about \in SUBSET Claim
    <3>1. row.existing_word_id \in Id
      BY <2>2, <2>3 DEF ExampleSuggestionRow, OptionalId, Id
    <3>2. next \in AcceptStatement
      BY <2>2, <3>1 DEF AcceptStatement
    <3>3. EditedExample(row) \in SUBSET Claim
      BY <2>2, EditedType
    <3>4. Existing(row.existing_word_id) \in Claim
      BY <3>1, ReferenceType
    <3>5. <<next>> \in Seq(Statement)
      BY <3>2 DEF Statement
    <3>6. QED
      BY <3>3, <3>4, <3>5
  <2> HIDE DEF next, about
  <2>4. QED
    BY <1>1, <2>1, <2>3, ReadType
<1>3. CASE s \notin Ids(db.example_suggestions)
  BY <1>3, PanicType DEF fetch_example
<1>4. QED
  BY <1>2, <1>3

\* fetch and accept of a dataset of an existing word.
LEMMA FetchDatasetType ==
    ASSUME TypeOK, NEW t \in Threads, fetch_dataset(t)
    PROVE  TypeOK'
<1> DEFINE s == Current(t).id
           row == RowOf(db.dataset_attribution_suggestions, s)
           next == [op |-> "accept_datasets", rows |-> {row}, word_id |-> row.existing_word_id]
           about == {Existing(row.existing_word_id)}
<1>1. todo[t] # <<>>
  BY DEF fetch_dataset, At
<1>2. CASE s \in Ids(db.dataset_attribution_suggestions)
  <2>1. Read(t, row.existing_word_id # Null, <<next>>, about)
    BY <1>2 DEF fetch_dataset
  <2>2. row \in DatasetSuggestionRow
    BY <1>2, RowOfType DEF TypeOK, Database
  <2> HIDE DEF row
  <2>3. ASSUME row.existing_word_id # Null
        PROVE  <<next>> \in Seq(Statement) /\ about \in SUBSET Claim
    <3>1. row.existing_word_id \in Id
      BY <2>2, <2>3 DEF DatasetSuggestionRow, OptionalId, Id
    <3>2. next \in AcceptStatement
      BY <2>2, <3>1 DEF AcceptStatement
    <3>3. Existing(row.existing_word_id) \in Claim
      BY <3>1, ReferenceType
    <3>4. <<next>> \in Seq(Statement)
      BY <3>2 DEF Statement
    <3>5. QED
      BY <3>3, <3>4
  <2> HIDE DEF next, about
  <2>4. QED
    BY <1>1, <2>1, <2>3, ReadType
<1>3. CASE s \notin Ids(db.dataset_attribution_suggestions)
  BY <1>3, PanicType DEF fetch_dataset
<1>4. QED
  BY <1>2, <1>3

\* fetch and accept of a link between existing words.
LEMMA FetchLinkType ==
    ASSUME TypeOK, References, NEW t \in Threads, fetch_link(t)
    PROVE  TypeOK'
<1> DEFINE s == Current(t).id
           row == RowOf(db.linked_word_suggestions, s)
           link == Populated(db, row, TRUE)
           next == [op |-> "accept_link", link |-> link]
           about == {link.ends.first, link.ends.second} \cup EditedLink(row)
           found == /\ s \in Ids(db.linked_word_suggestions)
                    /\ NamesTwoWords(db, row, TRUE)
                    /\ BothExist(link.ends)
<1>1. todo[t] # <<>>
  BY DEF fetch_link, At
<1>2. CASE found
  <2>1. Read(t, TRUE, <<next>>, about)
    BY <1>2 DEF fetch_link
  <2>2. row \in db.linked_word_suggestions
    BY <1>2, RowOfType
  <2> HIDE DEF row
  <2>3. link \in PopulatedLink
    BY <1>2, <2>2, PopulatedType DEF TypeOK, References
  <2> HIDE DEF link
  <2>4. <<next>> \in Seq(Statement)
    <3>1. next \in AcceptStatement
      BY <2>3 DEF AcceptStatement
    <3>2. QED
      BY <3>1 DEF Statement
  <2>5. about \in SUBSET Claim
    <3>1. row \in LinkedWordSuggestionRow
      BY <2>2 DEF TypeOK, Database
    <3>2. EditedLink(row) \in SUBSET Claim
      BY <3>1, EditedType
    <3>3. link.ends.first \in Claim /\ link.ends.second \in Claim
      BY <2>3 DEF PopulatedLink, Ends, WordOrSuggestionId, Claim
    <3>4. QED
      BY <3>2, <3>3
  <2> HIDE DEF next, about
  <2>6. QED
    BY <1>1, <2>1, <2>4, <2>5, ReadType
<1>3. CASE ~found
  BY <1>3, PanicType DEF fetch_link
<1>4. QED
  BY <1>2, <1>3

\* The acceptance of a link between existing words.
LEMMA AcceptLinkType ==
    ASSUME TypeOK, NEW t \in Threads, accept_link(t)
    PROVE  TypeOK'
<1> DEFINE l == Current(t).link
<1>1. todo[t] # <<>> /\ At(t, "accept_link") /\ Current(t).op = "accept_link"
  BY DEF accept_link, At, Current
<1>2. l \in PopulatedLink
  BY <1>1, AtAccept DEF AcceptStatement
<1>3. l.ends \in Ends
  BY <1>2 DEF PopulatedLink
<1>4. PutLink(t, l, l.ends, <<>>)
  BY DEF accept_link
<1>5. <<>> \in Seq(Statement)
  OBVIOUS
<1> HIDE DEF l
<1>6. QED
  BY <1>1, <1>2, <1>3, <1>4, <1>5, PutLinkType

\* Accepting a deletion hands on the DELETE and what has to follow it.
LEMMA FetchDeletionType ==
    ASSUME TypeOK, NEW t \in Threads,
           fetch_word_deletion(t) \/ fetch_example_deletion(t) \/ fetch_link_deletion(t)
    PROVE  TypeOK'
<1>1. CASE fetch_word_deletion(t)
  <2> DEFINE shown == Current(t).shown
             word == RowOf(db.word_deletion_suggestions, shown.id).word_id
             one == [op |-> "delete_word", id |-> word, shown |-> shown.word_id]
             two == IndexDelete(Existing(word))
  <2>1. todo[t] # <<>> /\ At(t, "fetch_word_deletion")
        /\ Current(t).op = "fetch_word_deletion"
    BY <1>1 DEF fetch_word_deletion, At, Current
  <2>2. shown \in WordDeletionRow
    BY <2>1, AtDeletion DEF DeletionStatement
  <2>3. CASE shown.id \in Ids(db.word_deletion_suggestions)
    <3>1. Read(t, TRUE, <<one, two>>, {Existing(word)})
      BY <1>1, <2>3 DEF fetch_word_deletion
    <3>2. word \in Id
      BY <2>3, RowOfType DEF TypeOK, Database, WordDeletionRow
    <3> HIDE DEF word
    <3>3. one \in Statement
      BY <2>2, <3>2 DEF Statement, DeletionStatement, WordDeletionRow
    <3>4. two \in Statement
      BY <3>2, SharedStatements, ReferenceType
    <3>5. {Existing(word)} \in SUBSET Claim
      BY <3>2, ReferenceType
    <3> HIDE DEF one, two
    <3>6. <<one, two>> \in Seq(Statement)
      BY <3>3, <3>4
    <3>7. QED
      BY <2>1, <3>1, <3>5, <3>6, ReadType
  <2>4. CASE shown.id \notin Ids(db.word_deletion_suggestions)
    BY <1>1, <2>4, PanicType DEF fetch_word_deletion
  <2>5. QED
    BY <2>3, <2>4
<1>2. CASE fetch_example_deletion(t)
  <2> DEFINE shown == Current(t).shown
             example == RowOf(db.example_deletion_suggestions, shown.id).example_id
             one == [op |-> "delete_example", id |-> example, shown |-> shown.example_id]
             two == DeleteExampleDeletion(shown.id)
  <2>1. todo[t] # <<>> /\ At(t, "fetch_example_deletion")
        /\ Current(t).op = "fetch_example_deletion"
    BY <1>2 DEF fetch_example_deletion, At, Current
  <2>2. shown \in ExampleDeletionRow
    BY <2>1, AtDeletion DEF DeletionStatement
  <2>3. CASE shown.id \in Ids(db.example_deletion_suggestions)
    <3>1. Read(t, TRUE, <<one, two>>, {<<"example", example>>})
      BY <1>2, <2>3 DEF fetch_example_deletion
    <3>2. example \in Id
      BY <2>3, RowOfType DEF TypeOK, Database, FiniteTable, ExampleDeletionRow
    <3> HIDE DEF example
    <3>3. one \in Statement
      BY <2>2, <3>2 DEF Statement, DeletionStatement, ExampleDeletionRow
    <3>4. two \in Statement
      BY <2>2, DeleteStatements DEF ExampleDeletionRow
    <3>5. {<<"example", example>>} \in SUBSET Claim
      BY <3>2, ReferenceType
    <3> HIDE DEF one, two
    <3>6. <<one, two>> \in Seq(Statement)
      BY <3>3, <3>4
    <3>7. QED
      BY <2>1, <3>1, <3>5, <3>6, ReadType
  <2>4. CASE shown.id \notin Ids(db.example_deletion_suggestions)
    BY <1>2, <2>4, PanicType DEF fetch_example_deletion
  <2>5. QED
    BY <2>3, <2>4
<1>3. CASE fetch_link_deletion(t)
  <2> DEFINE s == Current(t).id
             link == RowOf(db.linked_word_deletion_suggestions, s).linked_word_id
             one == [op |-> "delete_link", id |-> link]
             two == DeleteLinkedWordDeletion(s)
  <2>1. todo[t] # <<>> /\ At(t, "fetch_link_deletion")
    BY <1>3 DEF fetch_link_deletion, At
  <2>2. s \in Id
    BY <2>1, AtById
  <2>3. CASE s \in Ids(db.linked_word_deletion_suggestions)
    <3>1. Read(t, TRUE, <<one, two>>, {<<"link", link>>})
      BY <1>3, <2>3 DEF fetch_link_deletion
    <3>2. link \in Id
      BY <2>3, RowOfType DEF TypeOK, Database, LinkedWordDeletionRow
    <3> HIDE DEF link
    <3>3. one \in Statement
      BY <3>2, ByIdStatements
    <3>4. two \in Statement
      BY <2>2, DeleteStatements
    <3>5. {<<"link", link>>} \in SUBSET Claim
      BY <3>2, ReferenceType
    <3> HIDE DEF one, two
    <3>6. <<one, two>> \in Seq(Statement)
      BY <3>3, <3>4
    <3>7. QED
      BY <2>1, <3>1, <3>5, <3>6, ReadType
  <2>4. CASE s \notin Ids(db.linked_word_deletion_suggestions)
    BY <1>3, <2>4, PanicType DEF fetch_link_deletion
  <2>5. QED
    BY <2>3, <2>4
<1>4. QED
  BY <1>1, <1>2, <1>3

\* The DELETEs of a word, an example and a link.
LEMMA DeleteType ==
    ASSUME TypeOK, NEW t \in Threads, delete_word(t) \/ delete_example(t) \/ delete_link(t)
    PROVE  TypeOK'
<1>1. todo[t] # <<>>
  BY DEF delete_word, delete_example, delete_link, At
<1>2. Current(t).id \in Id
  BY AtById DEF delete_word, delete_example, delete_link
<1>3. <<>> \in Seq(Statement)
  OBVIOUS
<1>4. PICK after \in Database : Write(t, TRUE, after, <<>>)
  BY <1>2, WithoutType DEF delete_word, delete_example, delete_link, TypeOK
<1>5. QED
  BY <1>1, <1>3, <1>4, WriteType

\* The statements handlers share.
LEMMA ExecSharedType ==
    ASSUME TypeOK, NEW t \in Threads,
           ExecAddUserAttribution(t) \/ ExecDeleteRow(t) \/ ExecIndex(t) \/ abandon_deletion(t)
    PROVE  TypeOK'
<1>1. <<>> \in Seq(Statement) /\ {} \in SUBSET Claim
  OBVIOUS
<1>2. CASE ExecAddUserAttribution(t)
  <2> DEFINE s == Current(t)
             after == [db EXCEPT !.user_attributions = @ \cup {<<s.word_id, s.user>>}]
  <2>1. /\ todo[t] # <<>> /\ At(t, "add_user_attribution")
        /\ s.op = "add_user_attribution"
    BY <1>2 DEF ExecAddUserAttribution, At, Current
  <2>2. s.word_id \in Id /\ s.user \in Users
    BY <2>1, AtAccept DEF AcceptStatement
  <2>3. \A S \in SUBSET (Id \X Users) : [db EXCEPT !.user_attributions = S] \in Database
    BY DEF TypeOK, Database
  <2>4. after \in Database
    <3>1. <<s.word_id, s.user>> \in Id \X Users
      BY <2>2
    <3>2. db.user_attributions \cup {<<s.word_id, s.user>>} \in SUBSET (Id \X Users)
      BY <3>1 DEF TypeOK, Database
    <3>3. QED
      BY <2>3, <3>2
  <2>5. Write(t, s.word_id \in db.words, after, <<>>)
    BY <1>2 DEF ExecAddUserAttribution
  <2> HIDE DEF after
  <2>6. QED
    BY <1>1, <2>1, <2>4, <2>5, WriteType
<1>3. CASE ExecDeleteRow(t)
  <2> DEFINE s == Current(t)
             after == [db EXCEPT ![s.table] = Drop(@, s.id)]
  <2>1. todo[t] # <<>> /\ At(t, "delete_row") /\ s.op = "delete_row"
    BY <1>3 DEF ExecDeleteRow, At, Current
  <2>2. s.table \in LeafTables
    BY <2>1, AtShared DEF SharedStatement
  <2>3. after \in Database
    <3>1. CASE s.table = "example_suggestions"
      BY <3>1 DEF TypeOK, Database, Drop
    <3>2. CASE s.table = "linked_word_suggestions"
      BY <3>2 DEF TypeOK, Database, Drop
    <3>3. CASE s.table = "dataset_attribution_suggestions"
      BY <3>3 DEF TypeOK, Database, Drop
    <3>4. CASE s.table = "word_deletion_suggestions"
      BY <3>4 DEF TypeOK, Database, Drop
    <3>5. CASE s.table = "example_deletion_suggestions"
      <4>1. db.example_deletion_suggestions \in FiniteTable(ExampleDeletionRow)
        BY DEF TypeOK, Database
      <4>2. Drop(db.example_deletion_suggestions, s.id) \in FiniteTable(ExampleDeletionRow)
        BY <4>1, FiniteTableType DEF Drop
      <4>3. QED
        BY <3>5, <4>2 DEF TypeOK, Database
    <3>6. CASE s.table = "linked_word_deletion_suggestions"
      BY <3>6 DEF TypeOK, Database, Drop
    <3>7. QED
      BY <2>2, <3>1, <3>2, <3>3, <3>4, <3>5, <3>6 DEF LeafTables
  <2>4. Write(t, TRUE, after, <<>>)
    BY <1>3 DEF ExecDeleteRow
  <2> HIDE DEF after
  <2>5. QED
    BY <1>1, <2>1, <2>3, <2>4, WriteType
<1>4. CASE ExecIndex(t)
  <2>1. /\ todo[t] # <<>>
        /\ At(t, "index_put") \/ At(t, "index_delete")
        /\ Current(t).op \in {"index_put", "index_delete"}
    BY <1>4 DEF ExecIndex, At, Current
  <2>2. Current(t).doc \in WordOrSuggestionId
    BY <2>1, AtShared DEF SharedStatement
  <2>3. index' \subseteq WordOrSuggestionId
    BY <1>4, <2>2 DEF ExecIndex, TypeOK
  <2>4. /\ Continue(t, <<>>, {}) /\ Observe
        /\ UNCHANGED <<db, forms, arrivals, origin, broken>>
    BY <1>4 DEF ExecIndex
  <2>5. claims' \in [Threads -> SUBSET Claim] /\ todo' \in [Threads -> Seq(Statement)]
    BY <1>1, <2>1, <2>4, ContinueType
  <2>6. QED
    BY <2>3, <2>4, <2>5, HistoryType DEF TypeOK
<1>5. CASE abandon_deletion(t)
  BY <1>5, PanicType DEF abandon_deletion
<1>6. QED
  BY <1>2, <1>3, <1>4, <1>5

-----------------------------------------------------------------------------
(* Forms *)

\* The parts of an existing word make entries of a form.
LEMMA ExistingEntriesType ==
    ASSUME NEW d \in Database, NEW w \in Id
    PROVE  /\ ExistingLinkEntries(d, w) \subseteq LinkEntry
           /\ ExistingExampleEntries(d, w) \subseteq ExampleEntry
<1>1. \A l \in d.linked_words :
          [suggestion_id |-> Null, existing_id |-> l.id,
           other |-> Existing(OtherWord(l, w)), retyped |-> FALSE] \in LinkEntry
  <2>1. \A l \in d.linked_words : OtherWord(l, w) \in Id /\ l.id \in OptionalId
    BY DEF Database, LinkedWordRow, OtherWord, Id, OptionalId
  <2>2. QED
    BY <2>1, ReferenceType DEF LinkEntry, OptionalId, Null
<1>2. \A e \in d.examples :
          [suggestion_id |-> Null, existing_id |-> e.id, changed |-> FALSE] \in ExampleEntry
  BY DEF Database, ExampleRow, ExampleEntry, OptionalId, Id, Null
<1>3. ExistingLinkEntries(d, w) \subseteq LinkEntry
  BY <1>1 DEF ExistingLinkEntries, LinksOf
<1>4. ExistingExampleEntries(d, w) \subseteq ExampleEntry
  BY <1>2 DEF ExistingExampleEntries
<1>5. QED
  BY <1>3, <1>4

\* So do the parts of a suggestion whose links can be populated.
LEMMA SuggestedEntriesType ==
    ASSUME NEW d \in Database, ForeignKeysHold(d), NEW s, LinksPopulate(d, s), NEW this
    PROVE  /\ SuggestedLinkEntries(d, s, this) \subseteq LinkEntry
           /\ SuggestedExampleEntries(d, s) \subseteq ExampleEntry
<1> DEFINE Other(ends) == IF ends.second = this THEN ends.first ELSE ends.second
           entry(r) == [suggestion_id |-> r.id, existing_id |-> r.existing_linked_word_id,
                        other |-> Other(FirstAndSecond(d, r, FALSE)), retyped |-> FALSE]
<1>1. ASSUME NEW r \in LinkSuggestionsOf(d, s)
      PROVE  entry(r) \in LinkEntry
  <2>1. r \in d.linked_word_suggestions /\ NamesTwoWords(d, r, FALSE)
    BY <1>1 DEF LinkSuggestionsOf, LinksPopulate
  <2>2. FirstAndSecond(d, r, FALSE) \in Ends
    BY <2>1, EndsType
  <2>3. Other(FirstAndSecond(d, r, FALSE)) \in WordOrSuggestionId
    BY <2>2 DEF Ends
  <2>4. r.id \in OptionalId /\ r.existing_linked_word_id \in OptionalId
    BY <2>1 DEF Database, LinkedWordSuggestionRow, Id, OptionalId
  <2> HIDE DEF Other
  <2>5. QED
    BY <2>3, <2>4 DEF LinkEntry
<1>2. SuggestedLinkEntries(d, s, this) = {entry(r) : r \in LinkSuggestionsOf(d, s)}
  BY DEF SuggestedLinkEntries
<1> HIDE DEF entry
<1>3. SuggestedLinkEntries(d, s, this) \subseteq LinkEntry
  BY <1>1, <1>2
<1>4. SuggestedExampleEntries(d, s) \subseteq ExampleEntry
  <2>1. \A r \in d.example_suggestions :
            [suggestion_id |-> r.id, existing_id |-> r.existing_example_id,
             changed |-> FALSE] \in ExampleEntry
    BY DEF Database, ExampleSuggestionRow, ExampleEntry, OptionalId, Id
  <2>2. QED
    BY <2>1 DEF SuggestedExampleEntries, ExampleSuggestionsOf
<1>5. QED
  BY <1>3, <1>4

\* The page of a word shows a form.
LEMMA FormOfWordType ==
    ASSUME NEW d \in Database, NEW w \in Id
    PROVE  FormOfWord(d, w) \in Form
<1>1. {r[2] : r \in {q \in d.dataset_attributions : q[1] = w}} \subseteq Datasets
  BY DEF Database
<1>2. QED
  BY <1>1, ExistingEntriesType DEF FormOfWord, Form, Id, OptionalId, Null

\* The page of a suggestion shows a form when it can be rendered.
LEMMA FormOfSuggestionType ==
    ASSUME NEW d \in Database, ForeignKeysHold(d), NEW row \in d.word_suggestions,
           LinksPopulate(d, row.id)
    PROVE  FormOfSuggestion(d, row) \in Form
<1> DEFINE w == row.existing_word_id
           this == IF w = Null THEN Suggested(row.id) ELSE Existing(w)
           links == SuggestedLinkEntries(d, row.id, this) \cup
                    (IF w = Null THEN {} ELSE ExistingLinkEntries(d, w))
           examples == SuggestedExampleEntries(d, row.id) \cup
                       (IF w = Null THEN {} ELSE ExistingExampleEntries(d, w))
           datasets == {r.dataset : r \in DatasetSuggestionsOf(d, row.id)}
<1>1. row \in WordSuggestionRow
  BY DEF Database
<1>2. w = Null \/ w \in Id
  BY <1>1 DEF WordSuggestionRow, OptionalId, Id
<1>3. links \subseteq LinkEntry /\ examples \subseteq ExampleEntry
  BY <1>2, ExistingEntriesType, SuggestedEntriesType
<1>4. datasets \subseteq Datasets
  BY DEF DatasetSuggestionsOf, Database, DatasetSuggestionRow
<1>5. FormOfSuggestion(d, row) =
          [suggestion_id |-> row.id, existing_id |-> w, links |-> links,
           examples |-> examples, datasets |-> datasets]
  BY DEF FormOfSuggestion
<1> HIDE DEF links, examples, datasets
<1>6. QED
  BY <1>1, <1>3, <1>4, <1>5 DEF Form, WordSuggestionRow, Id, OptionalId

\* Pages keep the type of the state.
LEMMA PagesType ==
    ASSUME TypeOK, References, edit_word_page \/ edit_suggestion_page
    PROVE  TypeOK'
<1>1. PICK form \in Form, route \in {"edit_word_page", "edit_suggestion_page"} :
          Show(route, form)
  <2>1. CASE edit_word_page
    <3>1. PICK w \in 1 .. db.seq["words"] : Show("edit_word_page", FormOfWord(db, w))
      BY <2>1 DEF edit_word_page
    <3>2. w \in Id
      BY EverGivenType DEF EverGiven, AutoIncrement
    <3>3. FormOfWord(db, w) \in Form
      BY <3>2, FormOfWordType DEF TypeOK
    <3>4. QED
      BY <3>1, <3>3
  <2>2. CASE edit_suggestion_page
    <3>1. PICK row \in db.word_suggestions :
              LinksPopulate(db, row.id) /\ Show("edit_suggestion_page", FormOfSuggestion(db, row))
      BY <2>2 DEF edit_suggestion_page
    <3>2. FormOfSuggestion(db, row) \in Form
      BY <3>1, FormOfSuggestionType DEF TypeOK, References
    <3>3. QED
      BY <3>1, <3>2
  <2>3. QED
    BY <2>1, <2>2
<1>2. /\ forms' = forms \cup {form} /\ Observe
      /\ UNCHANGED <<db, index, todo, arrivals, claims, origin, broken>>
  BY <1>1 DEF Show
<1>3. db' \in Database /\ claims' \in [Threads -> SUBSET Claim]
  BY <1>2 DEF TypeOK
<1>4. QED
  BY <1>2, <1>3, HistoryType DEF TypeOK

\* What a user makes of the links of a form are entries.
LEMMA LinkEditsType ==
    ASSUME NEW form \in Form, index \subseteq WordOrSuggestionId
    PROVE  \A L \in LinkEdits(form) : L \subseteq LinkEntry
<1> DEFINE kept == IF "drop_link" \in Edits THEN SUBSET form.links ELSE {form.links}
           Retargeted(L) == {(L \ {e}) \cup {[e EXCEPT !.other = doc]} :
                                e \in L, doc \in Offered(form)}
           Retyped(L) == {(L \ {e}) \cup {[e EXCEPT !.retyped = TRUE]} : e \in L}
           Added(L) == {L \cup {[suggestion_id |-> Null, existing_id |-> Null,
                                 other |-> doc, retyped |-> FALSE]} : doc \in Offered(form)}
           Of(L) == {L} \cup (IF "retarget_link" \in Edits THEN Retargeted(L) ELSE {})
                        \cup (IF "retype_link" \in Edits THEN Retyped(L) ELSE {})
                        \cup (IF "add_link" \in Edits THEN Added(L) ELSE {})
<1>1. LinkEdits(form) = UNION {Of(L) : L \in kept}
  BY DEF LinkEdits
<1>2. form.links \subseteq LinkEntry
  BY DEF Form
<1>3. \A L \in kept : L \subseteq LinkEntry
  BY <1>2
<1>4. Offered(form) \subseteq WordOrSuggestionId
  BY DEF Offered
<1>5. ASSUME NEW L \in SUBSET LinkEntry
      PROVE  /\ \A M \in Retargeted(L) : M \subseteq LinkEntry
             /\ \A M \in Retyped(L) : M \subseteq LinkEntry
             /\ \A M \in Added(L) : M \subseteq LinkEntry
  <2>1. \A e \in LinkEntry, doc \in WordOrSuggestionId :
            [e EXCEPT !.other = doc] \in LinkEntry
    BY DEF LinkEntry
  <2>2. \A e \in LinkEntry : [e EXCEPT !.retyped = TRUE] \in LinkEntry
    BY DEF LinkEntry
  <2>3. \A doc \in WordOrSuggestionId :
            [suggestion_id |-> Null, existing_id |-> Null,
             other |-> doc, retyped |-> FALSE] \in LinkEntry
    BY DEF LinkEntry, OptionalId, Null
  <2>4. QED
    BY <1>4, <2>1, <2>2, <2>3
<1> HIDE DEF kept, Retargeted, Retyped, Added
<1>6. \A L \in kept : \A M \in Of(L) : M \subseteq LinkEntry
  BY <1>3, <1>5
<1> HIDE DEF Of
<1>7. QED
  BY <1>1, <1>6

\* What a user makes of the examples are entries.
LEMMA ExampleEditsType ==
    ASSUME NEW form \in Form
    PROVE  \A E \in ExampleEdits(form) : E \subseteq ExampleEntry
<1> DEFINE kept == IF "drop_example" \in Edits THEN SUBSET form.examples ELSE {form.examples}
           Changed(E) == {(E \ {e}) \cup {[e EXCEPT !.changed = TRUE]} : e \in E}
           Added(E) == {E \cup {[suggestion_id |-> Null, existing_id |-> Null,
                                 changed |-> TRUE]}}
           Of(E) == {E} \cup (IF "change_example" \in Edits THEN Changed(E) ELSE {})
                        \cup (IF "add_example" \in Edits THEN Added(E) ELSE {})
<1>1. ExampleEdits(form) = UNION {Of(E) : E \in kept}
  BY DEF ExampleEdits
<1>2. form.examples \subseteq ExampleEntry
  BY DEF Form
<1>3. \A E \in kept : E \subseteq ExampleEntry
  BY <1>2
<1>4. ASSUME NEW E \in SUBSET ExampleEntry
      PROVE  /\ \A M \in Changed(E) : M \subseteq ExampleEntry
             /\ \A M \in Added(E) : M \subseteq ExampleEntry
  <2>1. \A e \in ExampleEntry : [e EXCEPT !.changed = TRUE] \in ExampleEntry
    BY DEF ExampleEntry
  <2>2. [suggestion_id |-> Null, existing_id |-> Null, changed |-> TRUE] \in ExampleEntry
    BY DEF ExampleEntry, OptionalId, Null
  <2>3. QED
    BY <2>1, <2>2
<1> HIDE DEF kept, Changed, Added
<1>5. \A E \in kept : \A M \in Of(E) : M \subseteq ExampleEntry
  BY <1>3, <1>4
<1> HIDE DEF Of
<1>6. QED
  BY <1>1, <1>5

\* What a user sends is a submission, about rows that could exist.
LEMMA SubmissionType ==
    ASSUME NEW form \in Form, index \subseteq WordOrSuggestionId,
           NEW w \in Submissions(form)
    PROVE  w \in WordSubmission /\ AboutSubmission(w) \in SUBSET Claim
<1>1. /\ form.suggestion_id \in OptionalId /\ form.existing_id \in OptionalId
      /\ form.datasets \subseteq Datasets
  BY DEF Form
<1>2. w.links \subseteq LinkEntry
  BY LinkEditsType DEF Submissions
<1>3. w.examples \subseteq ExampleEntry
  BY ExampleEditsType DEF Submissions
<1>4. w.datasets \subseteq Datasets
  BY <1>1 DEF Submissions
<1>5. w \in WordSubmission
  BY <1>1, <1>2, <1>3, <1>4 DEF WordSubmission, Submissions
<1>6. {e.other : e \in w.links} \subseteq Claim
  BY <1>2 DEF LinkEntry, WordOrSuggestionId, Claim
<1>7. {ref \in {Suggested(w.suggestion_id), Existing(w.existing_id)} : ref[2] # Null}
          \subseteq Claim
  BY <1>5 DEF WordSubmission, Suggested, Existing, Claim, OptionalId, Id
<1>8. QED
  BY <1>5, <1>6, <1>7 DEF AboutSubmission

\* Submissions and suggestions to delete a word keep the type of the state.
LEMMA SubmitRequestsType ==
    ASSUME TypeOK, NEW t \in Threads, submit_suggestion(t) \/ suggest_word_deletion(t)
    PROVE  TypeOK'
<1>1. CASE submit_suggestion(t)
  <2>1. NewWordForm \in Form
    BY DEF NewWordForm, Form, OptionalId, Null
  <2>2. PICK form \in forms \cup (IF "new_word" \in Edits THEN {NewWordForm} ELSE {}) :
            \E w \in Submissions(form) :
                Arrive(t, "submit_suggestion",
                       <<[op |-> "read_original", word |-> w]>>, AboutSubmission(w))
    BY <1>1 DEF submit_suggestion
  <2>3. form \in Form
    BY <2>1 DEF TypeOK
  <2> PICK w \in Submissions(form) :
          Arrive(t, "submit_suggestion",
                 <<[op |-> "read_original", word |-> w]>>, AboutSubmission(w))
    BY <2>2
  <2>4. w \in WordSubmission /\ AboutSubmission(w) \in SUBSET Claim
    BY <2>3, SubmissionType DEF TypeOK
  <2>5. [op |-> "read_original", word |-> w] \in SubmitStatement
    BY <2>4 DEF SubmitStatement
  <2>6. <<[op |-> "read_original", word |-> w]>> \in Seq(Statement)
    BY <2>5 DEF Statement
  <2>7. QED
    BY <2>4, <2>6, ArriveType
<1>2. CASE suggest_word_deletion(t)
  <2>1. PICK w \in 1 .. db.seq["words"] :
            Arrive(t, "suggest_word_deletion",
                   <<[op |-> "suggest_word_deletion", id |-> w]>>, {})
    BY <1>2 DEF suggest_word_deletion
  <2>2. w \in Id
    BY EverGivenType DEF EverGiven, AutoIncrement
  <2>3. [op |-> "suggest_word_deletion", id |-> w] \in Statement
    BY <2>2, ByIdStatements
  <2>4. <<[op |-> "suggest_word_deletion", id |-> w]>> \in Seq(Statement) /\ {} \in SUBSET Claim
    BY <2>3
  <2>5. QED
    BY <2>1, <2>4, ArriveType
<1>3. QED
  BY <1>1, <1>2

-----------------------------------------------------------------------------
(* The statements of a submission *)

\* Which changes there are is decided for the statement that writes the word.
LEMMA ReadOriginalType ==
    ASSUME TypeOK, NEW t \in Threads, read_original(t)
    PROVE  TypeOK'
<1> DEFINE w == Current(t).word
           found == w.suggestion_id \in Ids(db.word_suggestions)
           next(changed) == [op |-> "insert_suggestion", word |-> w, found |-> found,
                             changed |-> changed]
<1>1. todo[t] # <<>> /\ At(t, "read_original") /\ Current(t).op = "read_original"
  BY DEF read_original, At, Current
<1>2. w \in WordSubmission
  BY <1>1, AtSubmit DEF SubmitStatement
<1>3. PICK changed \in BOOLEAN :
          Read(t, found => LinksPopulate(db, w.suggestion_id), <<next(changed)>>, {})
  BY DEF read_original
<1>4. found \in BOOLEAN
  OBVIOUS
<1> HIDE DEF found
<1>5. next(changed) \in SubmitStatement
  BY <1>2, <1>4 DEF SubmitStatement
<1>6. <<next(changed)>> \in Seq(Statement) /\ {} \in SUBSET Claim
  BY <1>5 DEF Statement
<1> HIDE DEF next
<1>7. QED
  BY <1>1, <1>3, <1>6, ReadType

\* After the INSERT come the document and the parts.
LEMMA AfterInsertType ==
    ASSUME NEW c, c.word \in WordSubmission, NEW s \in OptionalId
    PROVE  AfterInsert(c, s) \in Seq(Statement)
<1> DEFINE new == IF c.word.existing_id = Null THEN s ELSE Null
           first == IF new # Null /\ (~c.found \/ c.changed)
                    THEN <<IndexPut(Suggested(new))>> ELSE <<>>
<1>1. new \in OptionalId
  BY DEF OptionalId, Null
<1> HIDE DEF new
<1>2. first \in Seq(Statement)
  <2>1. CASE new # Null
    <3>1. new \in Id
      BY <1>1, <2>1 DEF OptionalId, Id
    <3>2. IndexPut(Suggested(new)) \in Statement
      BY <3>1, SharedStatements, ReferenceType
    <3>3. QED
      BY <3>2
  <2>2. CASE new = Null
    BY <2>2
  <2>3. QED
    BY <2>1, <2>2
<1>3. ProcessParts(c.word, new) \in Seq(Statement)
  <2>1. /\ [op |-> "process_linked_words", word |-> c.word, new |-> new] \in SubmitStatement
        /\ [op |-> "process_examples", word |-> c.word, new |-> new] \in SubmitStatement
        /\ [op |-> "process_datasets", word |-> c.word, new |-> new] \in SubmitStatement
    BY <1>1 DEF SubmitStatement
  <2>2. QED
    BY <2>1 DEF ProcessParts, Statement
<1>4. first \o ProcessParts(c.word, new) \in Seq(Statement)
  BY <1>2, <1>3
<1>5. AfterInsert(c, s) = first \o ProcessParts(c.word, new)
  BY DEF AfterInsert, new
<1>6. QED
  BY <1>4, <1>5

\* The upsert of the suggestion, refused, skipped or made.
LEMMA InsertSuggestionType ==
    ASSUME TypeOK, NEW t \in Threads, insert_suggestion(t)
    PROVE  TypeOK'
<1> DEFINE c == Current(t)
           s == KeyOrNext(db, "word_suggestions", c.word.suggestion_id)
           old == {r \in db.word_suggestions : r.id = s}
           user == IF old = {} THEN c.word.user ELSE RowOf(old, s).user
           row == [id |-> s, existing_word_id |-> c.word.existing_id, user |-> user]
<1>1. todo[t] # <<>> /\ At(t, "insert_suggestion") /\ c.op = "insert_suggestion"
  BY DEF insert_suggestion, At, Current
<1>2. c.word \in WordSubmission
  BY <1>1, AtSubmit DEF SubmitStatement
<1>3. c.word.suggestion_id \in OptionalId /\ c.word.existing_id \in OptionalId
      /\ c.word.user \in Users
  BY <1>2 DEF WordSubmission
<1>4. s \in Id
  BY <1>3, KeyOrNextType DEF TypeOK, AutoIncrement
<1>5. CASE ~c.changed
  <2>1. Read(t, TRUE, AfterInsert(c, c.word.suggestion_id), {})
    BY <1>5 DEF insert_suggestion
  <2>2. AfterInsert(c, c.word.suggestion_id) \in Seq(Statement)
    BY <1>2, <1>3, AfterInsertType
  <2>3. {} \in SUBSET Claim
    OBVIOUS
  <2>4. QED
    BY <1>1, <2>1, <2>2, <2>3, ReadType
<1>6. CASE c.changed /\ ~WordSuggestionOk(db, row)
  BY <1>6, PanicType DEF insert_suggestion
<1>7. CASE c.changed /\ WordSuggestionOk(db, row)
  <2>1. /\ db' = [db EXCEPT !.word_suggestions = Put(@, row),
                            !.seq = Bump(@, "word_suggestions", s)]
        /\ Continue(t, AfterInsert(c, s), {Suggested(s)})
        /\ broken' = IF c.word.suggestion_id # Null /\ old = {}
                     THEN broken \cup {Suggested(s)} ELSE broken
        /\ UNCHANGED <<index, forms, arrivals, origin>>
        /\ Observe
    BY <1>7 DEF insert_suggestion
  <2>2. user \in Users
    <3>1. CASE old = {}
      BY <1>3, <3>1
    <3>2. CASE old # {}
      <4>1. s \in Ids(old)
        BY <3>2 DEF Ids
      <4>2. RowOf(old, s) \in WordSuggestionRow
        BY <4>1, RowOfType DEF TypeOK, Database
      <4>3. QED
        BY <3>2, <4>2 DEF WordSuggestionRow
    <3>3. QED
      BY <3>1, <3>2
  <2> HIDE DEF s, old, user
  <2>3. row \in WordSuggestionRow
    BY <1>3, <1>4, <2>2 DEF WordSuggestionRow
  <2> HIDE DEF row
  <2>4. Bump(db.seq, "word_suggestions", s) \in [AutoIncrement -> Nat]
    BY <1>4, BumpType DEF TypeOK, Database, AutoIncrement, Id
  <2>5. db' \in Database
    BY <2>1, <2>3, <2>4 DEF TypeOK, Database, Put
  <2>6. AfterInsert(c, s) \in Seq(Statement)
    BY <1>2, <1>4, AfterInsertType DEF Id, OptionalId
  <2>7. {Suggested(s)} \in SUBSET Claim
    BY <1>4, ReferenceType
  <2>8. claims' \in [Threads -> SUBSET Claim] /\ todo' \in [Threads -> Seq(Statement)]
    BY <1>1, <2>1, <2>6, <2>7, ContinueType
  <2>9. broken' \subseteq Claim
    BY <2>1, <2>7 DEF TypeOK
  <2>10. QED
    BY <2>1, <2>5, <2>8, <2>9, HistoryType DEF TypeOK
<1>8. QED
  BY <1>5, <1>6, <1>7

\* The suggestion that a word be deleted.
LEMMA InsertWordDeletionType ==
    ASSUME TypeOK, NEW t \in Threads, insert_word_deletion(t)
    PROVE  TypeOK'
<1> DEFINE w == Current(t).id
           T == db.word_deletion_suggestions
           key == db.seq["word_deletion_suggestions"] + 1
           after == IF \E r \in T : r.word_id = w THEN db
                    ELSE [db EXCEPT
                            !.word_deletion_suggestions = @ \cup {[id |-> key, word_id |-> w]},
                            !.seq = Bump(@, "word_deletion_suggestions", key)]
<1>1. todo[t] # <<>> /\ At(t, "suggest_word_deletion")
  BY DEF insert_word_deletion, At
<1>2. w \in Id
  BY <1>1, AtById
<1>3. key \in Id
  BY DEF TypeOK, Database, AutoIncrement, Id, Null
<1>4. Bump(db.seq, "word_deletion_suggestions", key) \in [AutoIncrement -> Nat]
  BY <1>3, BumpType DEF TypeOK, Database, AutoIncrement, Id
<1>5. [id |-> key, word_id |-> w] \in WordDeletionRow
  BY <1>2, <1>3 DEF WordDeletionRow
<1>6. Write(t, w \in db.words, after, <<>>)
  BY DEF insert_word_deletion
<1> HIDE DEF key
<1>7. after \in Database
  BY <1>4, <1>5 DEF TypeOK, Database
<1>8. <<>> \in Seq(Statement)
  OBVIOUS
<1> HIDE DEF after
<1>9. QED
  BY <1>1, <1>6, <1>7, <1>8, WriteType

\* A loop over link writes.
LEMMA LinkLoopType ==
    ASSUME NEW rows \in SUBSET (UpsertOf(NewLinkRow) \cup ById)
    PROVE  Loop([op |-> "write_link", rows |-> {}], rows) \in Seq(Statement)
<1>1. [[op |-> "write_link", rows |-> {}] EXCEPT !.rows = rows] \in SubmitStatement
  BY DEF SubmitStatement
<1>2. QED
  BY <1>1, LoopType DEF Statement

\* A link suggestion to be written is typed when its two sides are.
LEMMA LinkSuggestionType ==
    ASSUME NEW e \in LinkEntry, NEW user \in Users,
           NEW first, IntoExisting(first) \in OptionalId, IntoSuggested(first) \in OptionalId,
           NEW second, IntoExisting(second) \in OptionalId, IntoSuggested(second) \in OptionalId
    PROVE  LinkSuggestion(e, user, first, second) \in UpsertOf(NewLinkRow)
BY DEF LinkSuggestion, Upsert, UpsertOf, NewLinkRow, LinkEntry

\* Deleting a row and suggesting to have one deleted name it by its id.
LEMMA ByIdWrites ==
    ASSUME NEW id \in Id
    PROVE  Delete(id) \in ById /\ SuggestDeletion(id) \in ById
BY DEF Delete, SuggestDeletion, ById

\* What is written for the links of a suggested word.
LEMMA LinksOfSuggestionType ==
    ASSUME TypeOK, NEW w \in WordSubmission, w.suggestion_id # Null
    PROVE  LinksOfSuggestion(w).writes \subseteq UpsertOf(NewLinkRow) \cup ById
<1> DEFINE prev == LinkSuggestionsOf(db, w.suggestion_id)
           kept == {e \in w.links : e.suggestion_id \in Ids(prev)}
           again == {LinkSuggestion(e, w.user, Suggested(w.suggestion_id), e.other) : e \in kept}
           missing == {Delete(r.id) : r \in {q \in prev :
                          \A e \in w.links : e.suggestion_id # q.id}}
<1>1. Suggested(w.suggestion_id) \in WordOrSuggestionId
  BY ReferenceType DEF WordSubmission, OptionalId, Id
<1>2. w.links \subseteq LinkEntry /\ w.user \in Users
  BY DEF WordSubmission
<1>3. again \subseteq UpsertOf(NewLinkRow)
  <2>1. \A e \in w.links : e.other \in WordOrSuggestionId
    BY <1>2 DEF LinkEntry
  <2>2. \A e \in w.links :
            LinkSuggestion(e, w.user, Suggested(w.suggestion_id), e.other)
                \in UpsertOf(NewLinkRow)
    BY <1>1, <1>2, <2>1, IntoType, LinkSuggestionType
  <2>3. QED
    BY <2>2
<1>4. missing \subseteq ById
  <2>1. \A r \in prev : r.id \in Id
    BY DEF LinkSuggestionsOf, TypeOK, Database, LinkedWordSuggestionRow
  <2>2. QED
    BY <2>1, ByIdWrites
<1>5. LinksOfSuggestion(w).writes = again \cup missing
  BY DEF LinksOfSuggestion
<1>6. QED
  BY <1>3, <1>4, <1>5

\* What is written for the links of an existing word.
LEMMA LinksOfWordType ==
    ASSUME TypeOK, NEW w \in WordSubmission
    PROVE  LinksOfWord(w).writes \subseteq UpsertOf(NewLinkRow) \cup ById
<1> DEFINE this == w.existing_id
           prev == LinksOf(db, this)
           kept == {e \in w.links : e.existing_id \in Ids(prev)}
           Old(e) == RowOf(prev, e.existing_id)
           differs == {e \in kept : e.retyped \/ e.other # Existing(OtherWord(Old(e), this))}
           Changed(e, old) == IF e.other = Existing(old) THEN Nothing ELSE e.other
           Edit(e) == IF this = Old(e).first_word_id
                      THEN LinkSuggestion(e, w.user, Nothing,
                                          Changed(e, Old(e).second_word_id))
                      ELSE LinkSuggestion(e, w.user, Changed(e, Old(e).first_word_id), Nothing)
           edits == {Edit(e) : e \in differs}
           missing == {SuggestDeletion(l.id) : l \in {q \in prev :
                          \A e \in w.links : e.existing_id # q.id}}
<1>1. w.links \subseteq LinkEntry /\ w.user \in Users
  BY DEF WordSubmission
<1>2. ASSUME NEW e \in w.links
      PROVE  Edit(e) \in UpsertOf(NewLinkRow)
  <2>1. e \in LinkEntry /\ e.other \in WordOrSuggestionId
    BY <1>1 DEF LinkEntry
  <2>2. /\ IntoExisting(Nothing) \in OptionalId /\ IntoSuggested(Nothing) \in OptionalId
        /\ \A old : IntoExisting(Changed(e, old)) \in OptionalId
                    /\ IntoSuggested(Changed(e, old)) \in OptionalId
    BY <2>1, IntoType
  <2> HIDE DEF Changed
  <2>3. \A old : /\ LinkSuggestion(e, w.user, Nothing, Changed(e, old)) \in UpsertOf(NewLinkRow)
                 /\ LinkSuggestion(e, w.user, Changed(e, old), Nothing) \in UpsertOf(NewLinkRow)
    BY <1>1, <2>1, <2>2, LinkSuggestionType
  <2>4. QED
    BY <2>3
<1>3. missing \subseteq ById
  <2>1. \A l \in prev : l.id \in Id
    BY DEF LinksOf, TypeOK, Database, LinkedWordRow
  <2>2. QED
    BY <2>1, ByIdWrites
<1>4. LinksOfWord(w).writes = edits \cup missing
  BY DEF LinksOfWord
<1> HIDE DEF Edit
<1>5. edits \subseteq UpsertOf(NewLinkRow)
  BY <1>2
<1>6. QED
  BY <1>3, <1>4, <1>5

\* process_linked_words compares the form with the links there are now.
LEMMA ProcessLinkedWordsType ==
    ASSUME TypeOK, NEW t \in Threads, process_linked_words(t)
    PROVE  TypeOK'
<1> DEFINE c == Current(t)
           w == c.word
           editing == w.existing_id = Null /\ w.suggestion_id # Null
           old == IF w.existing_id # Null THEN LinksOfWord(w)
                  ELSE IF w.suggestion_id # Null THEN LinksOfSuggestion(w)
                  ELSE [kept |-> {}, writes |-> {}]
           this == IF w.existing_id # Null THEN Existing(w.existing_id)
                   ELSE Suggested(c.new)
           added == {LinkSuggestion(e, w.user, this, e.other) : e \in w.links \ old.kept}
           next == Loop([op |-> "write_link", rows |-> {}], old.writes)
                   \o Loop([op |-> "write_link", rows |-> {}], added)
<1>1. todo[t] # <<>> /\ At(t, "process_linked_words") /\ c.op = "process_linked_words"
  BY DEF process_linked_words, At, Current
<1>2. w \in WordSubmission /\ c.new \in OptionalId
  BY <1>1, AtSubmit DEF SubmitStatement
<1>3. CASE editing /\ ~LinksPopulate(db, w.suggestion_id)
  BY <1>3, PanicType DEF process_linked_words
<1>4. CASE ~(editing /\ ~LinksPopulate(db, w.suggestion_id))
  <2>1. Read(t, TRUE, next, {})
    BY <1>4 DEF process_linked_words
  <2>2. old.writes \subseteq UpsertOf(NewLinkRow) \cup ById
    BY <1>2, LinksOfWordType, LinksOfSuggestionType
  <2>3. IntoExisting(this) \in OptionalId /\ IntoSuggested(this) \in OptionalId
    BY <1>2 DEF IntoExisting, IntoSuggested, Existing, Suggested, WordSubmission,
                OptionalId, Null
  <2> HIDE DEF old, this
  <2>4. added \subseteq UpsertOf(NewLinkRow) \cup ById
    <3>1. w.links \subseteq LinkEntry /\ w.user \in Users
      BY <1>2 DEF WordSubmission
    <3>2. \A e \in w.links : e.other \in WordOrSuggestionId
      BY <3>1 DEF LinkEntry
    <3>3. \A e \in w.links :
              LinkSuggestion(e, w.user, this, e.other) \in UpsertOf(NewLinkRow)
      BY <2>3, <3>1, <3>2, IntoType, LinkSuggestionType
    <3>4. QED
      BY <3>3
  <2> HIDE DEF added
  <2>5. next \in Seq(Statement) /\ {} \in SUBSET Claim
    BY <2>2, <2>4, LinkLoopType
  <2> HIDE DEF next
  <2>6. QED
    BY <1>1, <2>1, <2>5, ReadType
<1>5. QED
  BY <1>3, <1>4

\* The row an upsert of a link suggestion leaves.
LEMMA LinkRowAfterType ==
    ASSUME NEW d \in Database, NEW new \in NewLinkRow
    PROVE  LinkRowAfter(d, new) \in LinkedWordSuggestionRow
<1>1. CASE new.id \in Ids(d.linked_word_suggestions)
  <2> DEFINE old == RowOf(d.linked_word_suggestions, new.id)
  <2>1. old \in LinkedWordSuggestionRow /\ old.id = new.id
    BY <1>1, RowOfType DEF Database
  <2>2. new.id \in Id
    BY <2>1 DEF LinkedWordSuggestionRow
  <2>3. LinkRowAfter(d, new) =
            [new EXCEPT !.existing_linked_word_id = old.existing_linked_word_id,
                        !.user = old.user]
    BY <1>1 DEF LinkRowAfter
  <2> HIDE DEF old
  <2>4. QED
    BY <2>1, <2>2, <2>3 DEF NewLinkRow, LinkedWordSuggestionRow
<1>2. CASE new.id \notin Ids(d.linked_word_suggestions)
  <2>1. KeyOrNext(d, "linked_word_suggestions", new.id) \in Id
    BY KeyOrNextType DEF NewLinkRow, AutoIncrement
  <2>2. QED
    BY <1>2, <2>1 DEF LinkRowAfter, NewLinkRow, LinkedWordSuggestionRow
<1>3. QED
  BY <1>1, <1>2

\* The suggestion that a link be deleted.
LEMMA SuggestLinkDeletionType ==
    ASSUME NEW d \in Database, NEW link \in Id
    PROVE  SuggestLinkDeletion(d, link) \in Database
<1> DEFINE key == d.seq["linked_word_deletion_suggestions"] + 1
           row == [id |-> key, linked_word_id |-> link]
<1>1. key \in Id
  BY DEF Database, AutoIncrement, Id, Null
<1>2. Bump(d.seq, "linked_word_deletion_suggestions", key) \in [AutoIncrement -> Nat]
  BY <1>1, BumpType DEF Database, AutoIncrement, Id
<1>3. row \in LinkedWordDeletionRow
  BY <1>1 DEF LinkedWordDeletionRow
<1> HIDE DEF key
<1>4. [d EXCEPT !.linked_word_deletion_suggestions = @ \cup {row},
                !.seq = Bump(@, "linked_word_deletion_suggestions", key)] \in Database
  BY <1>2, <1>3 DEF Database
<1>5. QED
  BY <1>4 DEF SuggestLinkDeletion, key

\* One turn of the loops over links.
LEMMA WriteLinkType ==
    ASSUME TypeOK, NEW t \in Threads, write_link(t)
    PROVE  TypeOK'
<1> DEFINE c == Current(t)
           rest(s) == Loop(c, c.rows \ {s})
<1>1. todo[t] # <<>> /\ At(t, "write_link") /\ c.op = "write_link"
  BY DEF write_link, At, Current
<1>2. c \in [op: {"write_link"}, rows: SUBSET (UpsertOf(NewLinkRow) \cup ById)]
  BY <1>1, AtSubmit DEF SubmitStatement
<1>3. ASSUME NEW s \in c.rows
      PROVE  rest(s) \in Seq(Statement)
  <2>1. [c EXCEPT !.rows = c.rows \ {s}] \in SubmitStatement
    BY <1>2 DEF SubmitStatement
  <2>2. QED
    BY <2>1, LoopType DEF Statement
<1>4. PICK s \in c.rows :
          \/ /\ s.do = "upsert"
             /\ LET row == LinkRowAfter(db, s.row)
                IN  Write(t, LinkedWordSuggestionOk(db, row),
                          [db EXCEPT
                             !.linked_word_suggestions = Put(@, row),
                             !.seq = Bump(@, "linked_word_suggestions", row.id)],
                          rest(s))
          \/ /\ s.do = "delete"
             /\ Write(t, TRUE, [db EXCEPT !.linked_word_suggestions = Drop(@, s.id)], rest(s))
          \/ /\ s.do = "suggest_deletion"
             /\ Write(t, s.id \in Ids(db.linked_words), SuggestLinkDeletion(db, s.id), rest(s))
  BY DEF write_link
<1>5. s \in UpsertOf(NewLinkRow) \cup ById /\ rest(s) \in Seq(Statement)
  BY <1>2, <1>3
<1> HIDE DEF rest
<1>6. CASE s.do = "upsert"
  <2> DEFINE row == LinkRowAfter(db, s.row)
             after == [db EXCEPT !.linked_word_suggestions = Put(@, row),
                                 !.seq = Bump(@, "linked_word_suggestions", row.id)]
  <2>1. s.row \in NewLinkRow
    BY <1>5, <1>6 DEF UpsertOf, ById
  <2>2. row \in LinkedWordSuggestionRow
    BY <2>1, LinkRowAfterType DEF TypeOK
  <2>3. Write(t, LinkedWordSuggestionOk(db, row), after, rest(s))
    BY <1>4, <1>6
  <2> HIDE DEF row
  <2>4. Bump(db.seq, "linked_word_suggestions", row.id) \in [AutoIncrement -> Nat]
    BY <2>2, BumpType DEF TypeOK, Database, AutoIncrement, Id, LinkedWordSuggestionRow
  <2>5. after \in Database
    BY <2>2, <2>4 DEF TypeOK, Database, Put
  <2> HIDE DEF after
  <2>6. QED
    BY <1>1, <1>5, <2>3, <2>5, WriteType
<1>7. CASE s.do = "delete"
  <2> DEFINE after == [db EXCEPT !.linked_word_suggestions = Drop(@, s.id)]
  <2>1. after \in Database
    BY DEF TypeOK, Database, Drop
  <2>2. Write(t, TRUE, after, rest(s))
    BY <1>4, <1>7
  <2> HIDE DEF after
  <2>3. QED
    BY <1>1, <1>5, <2>1, <2>2, WriteType
<1>8. CASE s.do = "suggest_deletion"
  <2>1. s.id \in Id
    BY <1>5, <1>8 DEF UpsertOf, ById
  <2>2. SuggestLinkDeletion(db, s.id) \in Database
    BY <2>1, SuggestLinkDeletionType DEF TypeOK
  <2>3. Write(t, s.id \in Ids(db.linked_words), SuggestLinkDeletion(db, s.id), rest(s))
    BY <1>4, <1>8
  <2>4. QED
    BY <1>1, <1>5, <2>2, <2>3, WriteType
<1>9. QED
  BY <1>4, <1>6, <1>7, <1>8

\* A loop over example writes.
LEMMA ExampleLoopType ==
    ASSUME NEW rows \in SUBSET (UpsertOf(NewExampleRow) \cup ById)
    PROVE  Loop([op |-> "write_example", rows |-> {}], rows) \in Seq(Statement)
<1>1. [[op |-> "write_example", rows |-> {}] EXCEPT !.rows = rows] \in SubmitStatement
  BY DEF SubmitStatement
<1>2. QED
  BY <1>1, LoopType DEF Statement

\* An example suggestion to be written.
LEMMA ExampleSuggestionType ==
    ASSUME NEW e \in ExampleEntry, NEW user \in Users,
           NEW suggested \in OptionalId, NEW existing \in OptionalId
    PROVE  ExampleSuggestion(e, user, suggested, existing) \in UpsertOf(NewExampleRow)
BY DEF ExampleSuggestion, Upsert, UpsertOf, NewExampleRow, ExampleEntry

\* What is written for the examples of a suggested word, and of an existing one.
LEMMA ExampleWritesType ==
    ASSUME TypeOK, NEW w \in WordSubmission, NEW new \in OptionalId
    PROVE  /\ ExamplesOfSuggestion(w, new).writes \subseteq UpsertOf(NewExampleRow) \cup ById
           /\ ExamplesOfWord(w).writes \subseteq UpsertOf(NewExampleRow) \cup ById
<1>1. w.examples \subseteq ExampleEntry /\ w.user \in Users /\ w.existing_id \in OptionalId
      /\ Null \in OptionalId
  BY DEF WordSubmission, OptionalId, Null
<1>2. ExamplesOfSuggestion(w, new).writes \subseteq UpsertOf(NewExampleRow) \cup ById
  <2> DEFINE prev == ExampleSuggestionsOf(db, w.suggestion_id)
             kept == {e \in w.examples : e.suggestion_id \in Ids(prev)}
             again == {ExampleSuggestion(e, w.user, new, Null) : e \in kept}
             missing == {Delete(r.id) : r \in {q \in prev :
                            \A e \in w.examples : e.suggestion_id # q.id}}
  <2>1. again \subseteq UpsertOf(NewExampleRow)
    BY <1>1, ExampleSuggestionType
  <2>2. \A r \in prev : r.id \in Id
    BY DEF ExampleSuggestionsOf, TypeOK, Database, ExampleSuggestionRow
  <2>3. missing \subseteq ById
    BY <2>2, ByIdWrites
  <2>4. ExamplesOfSuggestion(w, new).writes = again \cup missing
    BY DEF ExamplesOfSuggestion
  <2>5. QED
    BY <2>1, <2>3, <2>4
<1>3. ExamplesOfWord(w).writes \subseteq UpsertOf(NewExampleRow) \cup ById
  <2> DEFINE prev == {x \in db.examples : x.word_id = w.existing_id}
             kept == {e \in w.examples : e.existing_id \in Ids(prev)}
             again == {ExampleSuggestion(e, w.user, Null, w.existing_id) :
                          e \in {q \in kept : q.changed}}
             missing == {SuggestDeletion(x.id) : x \in {q \in prev :
                            \A e \in w.examples : e.existing_id # q.id}}
  <2>1. again \subseteq UpsertOf(NewExampleRow)
    BY <1>1, ExampleSuggestionType
  <2>2. \A r \in prev : r.id \in Id
    BY DEF TypeOK, Database, ExampleRow
  <2>3. missing \subseteq ById
    BY <2>2, ByIdWrites
  <2>4. ExamplesOfWord(w).writes = again \cup missing
    BY DEF ExamplesOfWord
  <2>5. QED
    BY <2>1, <2>3, <2>4
<1>4. QED
  BY <1>2, <1>3

\* process_examples compares the form with the examples there are now.
LEMMA ProcessExamplesType ==
    ASSUME TypeOK, NEW t \in Threads, process_examples(t)
    PROVE  TypeOK'
<1> DEFINE c == Current(t)
           w == c.word
           old == IF w.existing_id # Null THEN ExamplesOfWord(w)
                  ELSE IF w.suggestion_id # Null THEN ExamplesOfSuggestion(w, c.new)
                  ELSE [kept |-> {}, writes |-> {}]
           added == {ExampleSuggestion(e, w.user, c.new, w.existing_id) :
                        e \in w.examples \ old.kept}
           next == Loop([op |-> "write_example", rows |-> {}], old.writes)
                   \o Loop([op |-> "write_example", rows |-> {}], added)
<1>1. todo[t] # <<>> /\ At(t, "process_examples") /\ c.op = "process_examples"
  BY DEF process_examples, At, Current
<1>2. w \in WordSubmission /\ c.new \in OptionalId
  BY <1>1, AtSubmit DEF SubmitStatement
<1>3. Read(t, TRUE, next, {})
  BY DEF process_examples
<1>4. old.writes \subseteq UpsertOf(NewExampleRow) \cup ById
  BY <1>2, ExampleWritesType
<1> HIDE DEF old
<1>5. added \subseteq UpsertOf(NewExampleRow) \cup ById
  <2>1. w.examples \subseteq ExampleEntry /\ w.user \in Users /\ w.existing_id \in OptionalId
    BY <1>2 DEF WordSubmission
  <2>2. QED
    BY <1>2, <2>1, ExampleSuggestionType
<1> HIDE DEF added
<1>6. next \in Seq(Statement) /\ {} \in SUBSET Claim
  BY <1>4, <1>5, ExampleLoopType
<1> HIDE DEF next
<1>7. QED
  BY <1>1, <1>3, <1>6, ReadType

\* The suggestion that an example be deleted gets a key of its own.
LEMMA SuggestExampleDeletionType ==
    ASSUME NEW d \in Database, NEW example \in Id
    PROVE  SuggestExampleDeletion(d, example) \in Database
<1> DEFINE T == d.example_deletion_suggestions
           row == [id |-> NextRowid(T), example_id |-> example]
<1>1. T \in FiniteTable(ExampleDeletionRow)
  BY DEF Database
<1>2. \A r \in T : r.id \in Id
  BY <1>1 DEF FiniteTable, ExampleDeletionRow
<1> HIDE DEF T
<1>3. row \in ExampleDeletionRow
  BY <1>1, <1>2, NextRowidType DEF ExampleDeletionRow
<1>4. T \cup {row} \in FiniteTable(ExampleDeletionRow)
  BY <1>1, <1>3, FiniteTableType
<1> HIDE DEF row
<1>5. [d EXCEPT !.example_deletion_suggestions = @ \cup {row}] \in Database
  BY <1>4 DEF Database, T
<1>6. QED
  BY <1>5 DEF SuggestExampleDeletion, T, row

\* The row an upsert of an example suggestion leaves.
LEMMA ExampleRowAfterType ==
    ASSUME NEW d \in Database, NEW new \in NewExampleRow
    PROVE  ExampleRowAfter(d, new) \in ExampleSuggestionRow
<1>1. CASE new.id \in Ids(d.example_suggestions)
  <2> DEFINE old == RowOf(d.example_suggestions, new.id)
  <2>1. old \in ExampleSuggestionRow /\ old.id = new.id
    BY <1>1, RowOfType DEF Database
  <2>2. new.id \in Id
    BY <2>1 DEF ExampleSuggestionRow
  <2>3. ExampleRowAfter(d, new) =
            [new EXCEPT !.existing_example_id = old.existing_example_id,
                        !.user = old.user]
    BY <1>1 DEF ExampleRowAfter
  <2> HIDE DEF old
  <2>4. QED
    BY <2>1, <2>2, <2>3 DEF NewExampleRow, ExampleSuggestionRow
<1>2. CASE new.id \notin Ids(d.example_suggestions)
  <2>1. KeyOrNext(d, "example_suggestions", new.id) \in Id
    BY KeyOrNextType DEF NewExampleRow, AutoIncrement
  <2>2. QED
    BY <1>2, <2>1 DEF ExampleRowAfter, NewExampleRow, ExampleSuggestionRow
<1>3. QED
  BY <1>1, <1>2

\* One turn of the loops over examples.
LEMMA WriteExampleType ==
    ASSUME TypeOK, NEW t \in Threads, write_example(t)
    PROVE  TypeOK'
<1> DEFINE c == Current(t)
           rest(s) == Loop(c, c.rows \ {s})
<1>1. todo[t] # <<>> /\ At(t, "write_example") /\ c.op = "write_example"
  BY DEF write_example, At, Current
<1>2. c \in [op: {"write_example"}, rows: SUBSET (UpsertOf(NewExampleRow) \cup ById)]
  BY <1>1, AtSubmit DEF SubmitStatement
<1>3. ASSUME NEW s \in c.rows
      PROVE  rest(s) \in Seq(Statement)
  <2>1. [c EXCEPT !.rows = c.rows \ {s}] \in SubmitStatement
    BY <1>2 DEF SubmitStatement
  <2>2. QED
    BY <2>1, LoopType DEF Statement
<1>4. PICK s \in c.rows :
          \/ /\ s.do = "upsert"
             /\ LET row == ExampleRowAfter(db, s.row)
                IN  Write(t, ExampleSuggestionOk(db, row),
                          [db EXCEPT
                             !.example_suggestions = Put(@, row),
                             !.seq = Bump(@, "example_suggestions", row.id)],
                          rest(s))
          \/ /\ s.do = "delete"
             /\ Write(t, TRUE, [db EXCEPT !.example_suggestions = Drop(@, s.id)], rest(s))
          \/ /\ s.do = "suggest_deletion"
             /\ Write(t, s.id \in Ids(db.examples), SuggestExampleDeletion(db, s.id), rest(s))
  BY DEF write_example
<1>5. s \in UpsertOf(NewExampleRow) \cup ById /\ rest(s) \in Seq(Statement)
  BY <1>2, <1>3
<1> HIDE DEF rest
<1>6. CASE s.do = "upsert"
  <2> DEFINE row == ExampleRowAfter(db, s.row)
             after == [db EXCEPT !.example_suggestions = Put(@, row),
                                 !.seq = Bump(@, "example_suggestions", row.id)]
  <2>1. s.row \in NewExampleRow
    BY <1>5, <1>6 DEF UpsertOf, ById
  <2>2. row \in ExampleSuggestionRow
    BY <2>1, ExampleRowAfterType DEF TypeOK
  <2>3. Write(t, ExampleSuggestionOk(db, row), after, rest(s))
    BY <1>4, <1>6
  <2> HIDE DEF row
  <2>4. Bump(db.seq, "example_suggestions", row.id) \in [AutoIncrement -> Nat]
    BY <2>2, BumpType DEF TypeOK, Database, AutoIncrement, Id, ExampleSuggestionRow
  <2>5. after \in Database
    BY <2>2, <2>4 DEF TypeOK, Database, Put
  <2> HIDE DEF after
  <2>6. QED
    BY <1>1, <1>5, <2>3, <2>5, WriteType
<1>7. CASE s.do = "delete"
  <2> DEFINE after == [db EXCEPT !.example_suggestions = Drop(@, s.id)]
  <2>1. after \in Database
    BY DEF TypeOK, Database, Drop
  <2>2. Write(t, TRUE, after, rest(s))
    BY <1>4, <1>7
  <2> HIDE DEF after
  <2>3. QED
    BY <1>1, <1>5, <2>1, <2>2, WriteType
<1>8. CASE s.do = "suggest_deletion"
  <2>1. s.id \in Id
    BY <1>5, <1>8 DEF UpsertOf, ById
  <2>2. SuggestExampleDeletion(db, s.id) \in Database
    BY <2>1, SuggestExampleDeletionType DEF TypeOK
  <2>3. Write(t, s.id \in Ids(db.examples), SuggestExampleDeletion(db, s.id), rest(s))
    BY <1>4, <1>8
  <2>4. QED
    BY <1>1, <1>5, <2>2, <2>3, WriteType
<1>9. QED
  BY <1>4, <1>6, <1>7, <1>8

\* process_datasets compares the form with the datasets there are now.
LEMMA ProcessDatasetsType ==
    ASSUME TypeOK, NEW t \in Threads, process_datasets(t)
    PROVE  TypeOK'
<1> DEFINE c == Current(t)
           w == c.word
           current == IF c.new # Null
                      THEN {r.dataset : r \in DatasetSuggestionsOf(db, c.new)}
                      ELSE {d \in Datasets : <<w.existing_id, d>> \in db.dataset_attributions}
           Insert(d, is_delete) ==
               [do |-> "insert", dataset |-> d, is_delete |-> is_delete]
           add == {Insert(d, FALSE) : d \in w.datasets \ current}
           remove == {IF c.new # Null THEN Delete(d) ELSE Insert(d, TRUE) :
                         d \in current \ w.datasets}
           loop == [op |-> "write_dataset", rows |-> {}, new |-> c.new,
                    existing_id |-> w.existing_id, user |-> w.user]
<1>1. todo[t] # <<>> /\ At(t, "process_datasets") /\ c.op = "process_datasets"
  BY DEF process_datasets, At, Current
<1>2. w \in WordSubmission /\ c.new \in OptionalId
  BY <1>1, AtSubmit DEF SubmitStatement
<1>3. Read(t, TRUE, Loop(loop, add \cup remove), {})
  BY DEF process_datasets
<1>4. current \subseteq Datasets
  BY DEF DatasetSuggestionsOf, TypeOK, Database, DatasetSuggestionRow
<1>5. w.datasets \subseteq Datasets /\ w.existing_id \in OptionalId /\ w.user \in Users
  BY <1>2 DEF WordSubmission
<1> HIDE DEF current
<1>6. add \cup remove \subseteq DatasetWrite
  <2>1. \A d \in Datasets, b \in BOOLEAN : Insert(d, b) \in DatasetWrite
    BY DEF DatasetWrite
  <2>2. \A d \in Datasets : Delete(d) \in DatasetWrite
    BY DEF Delete, DatasetWrite
  <2> HIDE DEF Insert
  <2>3. QED
    BY <1>4, <1>5, <2>1, <2>2
<1> HIDE DEF add, remove
<1>7. [loop EXCEPT !.rows = add \cup remove] \in SubmitStatement
  BY <1>2, <1>5, <1>6 DEF SubmitStatement
<1>8. Loop(loop, add \cup remove) \in Seq(Statement) /\ {} \in SUBSET Claim
  BY <1>7, LoopType DEF Statement
<1> HIDE DEF loop
<1>9. QED
  BY <1>1, <1>3, <1>8, ReadType

\* One turn of the loop over datasets.
LEMMA WriteDatasetType ==
    ASSUME TypeOK, NEW t \in Threads, write_dataset(t)
    PROVE  TypeOK'
<1> DEFINE c == Current(t)
           key == db.seq["dataset_attribution_suggestions"] + 1
           rest(s) == Loop(c, c.rows \ {s})
           row(s) == [id |-> key, dataset |-> s.dataset, existing_word_id |-> c.existing_id,
                      suggested_word_id |-> c.new, is_delete |-> s.is_delete, user |-> c.user]
           inserted(s) ==
               [db EXCEPT !.dataset_attribution_suggestions = @ \cup {row(s)},
                          !.seq = Bump(@, "dataset_attribution_suggestions", key)]
           deleted(s) ==
               [db EXCEPT !.dataset_attribution_suggestions =
                   {r \in @ : ~(r.dataset = s.id /\ r.suggested_word_id = c.new)}]
<1>1. todo[t] # <<>> /\ At(t, "write_dataset") /\ c.op = "write_dataset"
  BY DEF write_dataset, At, Current
<1>2. c \in [op: {"write_dataset"}, rows: SUBSET DatasetWrite, new: OptionalId,
             existing_id: OptionalId, user: Users]
  BY <1>1, AtSubmit DEF SubmitStatement
<1>3. ASSUME NEW s \in c.rows
      PROVE  rest(s) \in Seq(Statement)
  <2>1. [c EXCEPT !.rows = c.rows \ {s}] \in SubmitStatement
    BY <1>2 DEF SubmitStatement
  <2>2. QED
    BY <2>1, LoopType DEF Statement
<1>4. PICK s \in c.rows :
          \/ /\ s.do = "insert"
             /\ Write(t, DatasetSuggestionOk(db, row(s)), inserted(s), rest(s))
          \/ /\ s.do = "delete"
             /\ Write(t, TRUE, deleted(s), rest(s))
  BY DEF write_dataset
<1>5. s \in DatasetWrite /\ rest(s) \in Seq(Statement)
  BY <1>2, <1>3
<1>6. key \in Id
  BY DEF TypeOK, Database, AutoIncrement, Id, Null
<1>7. Bump(db.seq, "dataset_attribution_suggestions", key) \in [AutoIncrement -> Nat]
  BY <1>6, BumpType DEF TypeOK, Database, AutoIncrement, Id
<1> HIDE DEF key, rest
<1>8. CASE s.do = "insert"
  <2>1. row(s) \in DatasetSuggestionRow
    BY <1>2, <1>5, <1>6, <1>8 DEF DatasetWrite, DatasetSuggestionRow
  <2>2. Write(t, DatasetSuggestionOk(db, row(s)), inserted(s), rest(s))
    BY <1>4, <1>8
  <2> HIDE DEF row
  <2>3. inserted(s) \in Database
    BY <1>7, <2>1 DEF TypeOK, Database
  <2> HIDE DEF inserted
  <2>4. QED
    BY <1>1, <1>5, <2>2, <2>3, WriteType
<1>9. CASE s.do = "delete"
  <2>1. deleted(s) \in Database
    BY DEF TypeOK, Database
  <2>2. Write(t, TRUE, deleted(s), rest(s))
    BY <1>4, <1>9
  <2> HIDE DEF deleted
  <2>3. QED
    BY <1>1, <1>5, <2>1, <2>2, WriteType
<1>10. QED
  BY <1>4, <1>8, <1>9

-----------------------------------------------------------------------------
(* Every step *)

\* A crash keeps the type of the state.
LEMMA CrashType ==
    ASSUME TypeOK, Crash
    PROVE  TypeOK'
<1>1. todo' \in [Threads -> Seq(Statement)] /\ claims' \in [Threads -> SUBSET Claim]
  BY DEF Crash
<1>2. broken' \subseteq Claim
  BY DEF TypeOK, Crash
<1>3. db' \in Database /\ Observe
  BY DEF TypeOK, Crash
<1>4. QED
  BY <1>1, <1>2, <1>3, HistoryType DEF TypeOK, Crash

\* A step that changes nothing does.
LEMMA StutterType ==
    ASSUME TypeOK, UNCHANGED vars
    PROVE  TypeOK'
BY DEF TypeOK, vars

\* Every request does.
LEMMA RequestType ==
    ASSUME TypeOK, NEW t \in Threads, Request(t)
    PROVE  TypeOK'
BY WordRequestsType, PartRequestsType, SubmitRequestsType DEF Request

\* So does everything a thread does for a request.
LEMMA ServeType ==
    ASSUME TypeOK, References, NEW t \in Threads, Serve(t)
    PROVE  TypeOK'
<1>1. CASE read_original(t) \/ insert_suggestion(t) \/ insert_word_deletion(t)
  BY <1>1, ReadOriginalType, InsertSuggestionType, InsertWordDeletionType
<1>2. CASE \/ process_linked_words(t) \/ write_link(t)
           \/ process_examples(t) \/ write_example(t)
           \/ process_datasets(t) \/ write_dataset(t)
  BY <1>2, ProcessLinkedWordsType, WriteLinkType, ProcessExamplesType, WriteExampleType,
     ProcessDatasetsType, WriteDatasetType
<1>3. CASE \/ fetch_alone(t) \/ fetch_examples(t)
           \/ fetch_linked_words(t) \/ fetch_datasets(t)
  BY <1>3, FetchAloneType, FetchExamplesType, FetchLinkedWordsType, FetchDatasetsType
<1>4. CASE \/ accept_just_word(t) \/ accept_example(t) \/ accept_dataset(t)
           \/ accept_link_of_word(t) \/ accept_link(t) \/ delete_word_suggestion(t)
  BY <1>4, AcceptJustWordType, AcceptExampleType, AcceptDatasetType, AcceptLinkOfWordType,
     AcceptLinkType, DeleteSuggestionType
<1>5. CASE fetch_example(t) \/ fetch_link(t) \/ fetch_dataset(t)
  BY <1>5, FetchExampleType, FetchLinkType, FetchDatasetType
<1>6. CASE \/ fetch_word_deletion(t) \/ fetch_example_deletion(t) \/ fetch_link_deletion(t)
           \/ delete_word(t) \/ delete_example(t) \/ delete_link(t)
  BY <1>6, FetchDeletionType, DeleteType
<1>7. CASE ExecAddUserAttribution(t) \/ ExecDeleteRow(t) \/ ExecIndex(t)
  BY <1>7, ExecSharedType
<1>8. QED
  BY <1>1, <1>2, <1>3, <1>4, <1>5, <1>6, <1>7 DEF Serve

\* Every step keeps the type of a state whose foreign keys hold.
LEMMA StepType ==
    ASSUME TypeOK, References, [Next]_vars
    PROVE  TypeOK'
BY RequestType, ServeType, ExecSharedType, PagesType, CrashType, StutterType DEF Next

\* The server starts with a database and with everything else empty or derived
\* from it.
LEMMA InitialType ==
    ASSUME Init
    PROVE  TypeOK /\ References
<1>1. db \in Database /\ ForeignKeysHold(db)
  BY DbsAssumption DEF Init, Consistent
<1>2. Documents(db) \subseteq WordOrSuggestionId
  BY <1>1 DEF Documents, Database, WordOrSuggestionId, Existing, Suggested, WordSuggestionRow
<1>3. Listed(db) \in [word: SUBSET WordDeletionRow, example: SUBSET ExampleDeletionRow]
  BY <1>1 DEF Listed, Database, FiniteTable
<1>4. todo \in [Threads -> Seq(Statement)] /\ claims \in [Threads -> SUBSET Claim]
  BY DEF Init
<1>5. arrivals \in 0 .. MaxRequests
  BY BoundsAssumption DEF Init
<1>6. QED
  BY <1>1, <1>2, <1>3, <1>4, <1>5 DEF Init, TypeOK, References

-----------------------------------------------------------------------------
(* Foreign keys hold at every step, for any users, threads, requests and    *)
(* databases.  A statement of a handler leaves the tables alone, adds or    *)
(* replaces rows that refer to what is there, or deletes with a cascade.    *)

(* Statements *)

\* Rows that refer to what is there keep the foreign keys when no row others
\* refer to goes away: upserts, inserts, and deletes nothing refers to.
LEMMA RowsThatReferMayCome ==
    ASSUME NEW d, NEW e, ForeignKeysHold(d),
           d.words \subseteq e.words,
           Ids(d.word_suggestions) \subseteq Ids(e.word_suggestions),
           Ids(d.examples) \subseteq Ids(e.examples),
           Ids(d.linked_words) \subseteq Ids(e.linked_words),
           \A r \in e.word_suggestions \ d.word_suggestions : WordSuggestionOk(d, r),
           \A r \in e.examples \ d.examples : r.word_id \in d.words,
           \A r \in e.example_suggestions \ d.example_suggestions : ExampleSuggestionOk(d, r),
           \A r \in e.linked_words \ d.linked_words : LinkedWordOk(d, r),
           \A r \in e.linked_word_suggestions \ d.linked_word_suggestions :
               LinkedWordSuggestionOk(d, r),
           \A r \in e.dataset_attributions \ d.dataset_attributions : r[1] \in d.words,
           \A r \in e.dataset_attribution_suggestions \ d.dataset_attribution_suggestions :
               DatasetSuggestionOk(d, r),
           \A r \in e.user_attributions \ d.user_attributions : r[1] \in d.words,
           \A r \in e.word_deletion_suggestions \ d.word_deletion_suggestions :
               r.word_id \in d.words,
           \A r \in e.example_deletion_suggestions \ d.example_deletion_suggestions :
               r.example_id \in Ids(d.examples),
           \A r \in e.linked_word_deletion_suggestions \ d.linked_word_deletion_suggestions :
               r.linked_word_id \in Ids(d.linked_words)
    PROVE  ForeignKeysHold(e)
<1>1. \A r \in e.word_suggestions : WordSuggestionOk(e, r)
  BY DEF ForeignKeysHold, WordSuggestionOk, Refers
<1>2. \A r \in e.examples : r.word_id \in e.words
  BY DEF ForeignKeysHold
<1>3. \A r \in e.example_suggestions : ExampleSuggestionOk(e, r)
  <2>1. \A r \in e.example_suggestions : ExampleSuggestionOk(d, r)
    BY DEF ForeignKeysHold
  <2>2. QED
    BY <2>1 DEF ExampleSuggestionOk, Refers
<1>4. \A r \in e.linked_words : LinkedWordOk(e, r)
  BY DEF ForeignKeysHold, LinkedWordOk
<1>5. \A r \in e.linked_word_suggestions : LinkedWordSuggestionOk(e, r)
  <2>1. \A r \in e.linked_word_suggestions : LinkedWordSuggestionOk(d, r)
    BY DEF ForeignKeysHold
  <2>2. QED
    BY <2>1 DEF LinkedWordSuggestionOk, Refers
<1>6. \A r \in e.dataset_attribution_suggestions : DatasetSuggestionOk(e, r)
  <2>1. \A r \in e.dataset_attribution_suggestions : DatasetSuggestionOk(d, r)
    BY DEF ForeignKeysHold
  <2>2. QED
    BY <2>1 DEF DatasetSuggestionOk, Refers
<1>7. /\ \A r \in e.dataset_attributions : r[1] \in e.words
      /\ \A r \in e.user_attributions : r[1] \in e.words
      /\ \A r \in e.word_deletion_suggestions : r.word_id \in e.words
  BY DEF ForeignKeysHold
<1>8. /\ \A r \in e.example_deletion_suggestions : r.example_id \in Ids(e.examples)
      /\ \A r \in e.linked_word_deletion_suggestions : r.linked_word_id \in Ids(e.linked_words)
  BY DEF ForeignKeysHold
<1>9. QED
  BY <1>1, <1>2, <1>3, <1>4, <1>5, <1>6, <1>7, <1>8 DEF ForeignKeysHold

\* The four DELETEs of rows others refer to cascade.
LEMMA DeletesCascade ==
    ASSUME NEW d \in Database, NEW id
    PROVE  /\ ForeignKeysHold(WithoutWord(d, id))
           /\ ForeignKeysHold(WithoutWordSuggestion(d, id))
           /\ ForeignKeysHold(WithoutExample(d, id))
           /\ ForeignKeysHold(WithoutLinkedWord(d, id))
<1>1. [d EXCEPT !.words = @ \ {id}] \in Database
  BY DEF Database
<1>2. [d EXCEPT !.word_suggestions = Drop(@, id)] \in Database
  BY DEF Database, Drop
<1>3. [d EXCEPT !.examples = Drop(@, id)] \in Database
  BY DEF Database, Drop
<1>4. [d EXCEPT !.linked_words = Drop(@, id)] \in Database
  BY DEF Database, Drop
<1>5. QED
  BY <1>1, <1>2, <1>3, <1>4, CascadeRestoresForeignKeys
     DEF WithoutWord, WithoutWordSuggestion, WithoutExample, WithoutLinkedWord

\* Reads, unwraps and requests leave the tables alone.
LEMMA ReadsKeepReferences ==
    ASSUME References, NEW t \in Threads, NEW found, NEW statements, NEW about, NEW route,
           \/ Refuse(t) \/ Panic(t)
           \/ Read(t, found, statements, about) \/ Arrive(t, route, statements, about)
    PROVE  References'
BY DEF References, Refuse, Panic, Stop, Read, Arrive

\* A write keeps the foreign keys when what it may write does.
LEMMA WritesKeepReferences ==
    ASSUME References, NEW t \in Threads, NEW allowed, NEW after, NEW statements,
           allowed => ForeignKeysHold(after),
           Write(t, allowed, after, statements)
    PROVE  References'
BY DEF References, Write, Panic, Stop

\* Only the leaves, which nothing refers to, may be written in this way: S is
\* what is in the table afterwards.
LEMMA LeavesMayChange ==
    ASSUME NEW d \in Database, ForeignKeysHold(d), NEW S, NEW q
    PROVE  /\ (\A r \in S \ d.example_suggestions : ExampleSuggestionOk(d, r)) =>
                 /\ ForeignKeysHold([d EXCEPT !.example_suggestions = S])
                 /\ ForeignKeysHold([d EXCEPT !.example_suggestions = S, !.seq = q])
           /\ (\A r \in S \ d.linked_word_suggestions : LinkedWordSuggestionOk(d, r)) =>
                 /\ ForeignKeysHold([d EXCEPT !.linked_word_suggestions = S])
                 /\ ForeignKeysHold([d EXCEPT !.linked_word_suggestions = S, !.seq = q])
           /\ (\A r \in S \ d.dataset_attribution_suggestions : DatasetSuggestionOk(d, r)) =>
                 /\ ForeignKeysHold([d EXCEPT !.dataset_attribution_suggestions = S])
                 /\ ForeignKeysHold([d EXCEPT !.dataset_attribution_suggestions = S, !.seq = q])
           /\ (\A r \in S \ d.dataset_attributions : r[1] \in d.words) =>
                 ForeignKeysHold([d EXCEPT !.dataset_attributions = S])
           /\ (\A r \in S \ d.user_attributions : r[1] \in d.words) =>
                 ForeignKeysHold([d EXCEPT !.user_attributions = S])
           /\ (\A r \in S \ d.word_deletion_suggestions : r.word_id \in d.words) =>
                 /\ ForeignKeysHold([d EXCEPT !.word_deletion_suggestions = S])
                 /\ ForeignKeysHold([d EXCEPT !.word_deletion_suggestions = S, !.seq = q])
           /\ (\A r \in S \ d.example_deletion_suggestions : r.example_id \in Ids(d.examples)) =>
                 ForeignKeysHold([d EXCEPT !.example_deletion_suggestions = S])
           /\ (\A r \in S \ d.linked_word_deletion_suggestions :
                  r.linked_word_id \in Ids(d.linked_words)) =>
                 /\ ForeignKeysHold([d EXCEPT !.linked_word_deletion_suggestions = S])
                 /\ ForeignKeysHold([d EXCEPT !.linked_word_deletion_suggestions = S, !.seq = q])
<1>1. ASSUME \A r \in S \ d.example_suggestions : ExampleSuggestionOk(d, r)
      PROVE  /\ ForeignKeysHold([d EXCEPT !.example_suggestions = S])
             /\ ForeignKeysHold([d EXCEPT !.example_suggestions = S, !.seq = q])
  BY <1>1, RowsThatReferMayCome DEF Database
<1>2. ASSUME \A r \in S \ d.linked_word_suggestions : LinkedWordSuggestionOk(d, r)
      PROVE  /\ ForeignKeysHold([d EXCEPT !.linked_word_suggestions = S])
             /\ ForeignKeysHold([d EXCEPT !.linked_word_suggestions = S, !.seq = q])
  BY <1>2, RowsThatReferMayCome DEF Database
<1>3. ASSUME \A r \in S \ d.dataset_attribution_suggestions : DatasetSuggestionOk(d, r)
      PROVE  /\ ForeignKeysHold([d EXCEPT !.dataset_attribution_suggestions = S])
             /\ ForeignKeysHold([d EXCEPT !.dataset_attribution_suggestions = S, !.seq = q])
  BY <1>3, RowsThatReferMayCome DEF Database
<1>4. ASSUME \A r \in S \ d.dataset_attributions : r[1] \in d.words
      PROVE  ForeignKeysHold([d EXCEPT !.dataset_attributions = S])
  BY <1>4, RowsThatReferMayCome DEF Database
<1>5. ASSUME \A r \in S \ d.user_attributions : r[1] \in d.words
      PROVE  ForeignKeysHold([d EXCEPT !.user_attributions = S])
  BY <1>5, RowsThatReferMayCome DEF Database
<1>6. ASSUME \A r \in S \ d.word_deletion_suggestions : r.word_id \in d.words
      PROVE  /\ ForeignKeysHold([d EXCEPT !.word_deletion_suggestions = S])
             /\ ForeignKeysHold([d EXCEPT !.word_deletion_suggestions = S, !.seq = q])
  BY <1>6, RowsThatReferMayCome DEF Database
<1>7. ASSUME \A r \in S \ d.example_deletion_suggestions : r.example_id \in Ids(d.examples)
      PROVE  ForeignKeysHold([d EXCEPT !.example_deletion_suggestions = S])
  BY <1>7, RowsThatReferMayCome DEF Database
<1>8. ASSUME \A r \in S \ d.linked_word_deletion_suggestions :
                 r.linked_word_id \in Ids(d.linked_words)
      PROVE  /\ ForeignKeysHold([d EXCEPT !.linked_word_deletion_suggestions = S])
             /\ ForeignKeysHold([d EXCEPT !.linked_word_deletion_suggestions = S, !.seq = q])
  BY <1>8, RowsThatReferMayCome DEF Database
<1>9. QED
  BY <1>1, <1>2, <1>3, <1>4, <1>5, <1>6, <1>7, <1>8

\* The INSERT of a word.
LEMMA WordsMayCome ==
    ASSUME NEW d \in Database, ForeignKeysHold(d), NEW word, NEW q
    PROVE  ForeignKeysHold([d EXCEPT !.words = @ \cup {word}, !.seq = q])
BY RowsThatReferMayCome DEF Database

\* SuggestedExample::accept inserts an example of a word that is there.
LEMMA ExamplesMayCome ==
    ASSUME NEW d \in Database, ForeignKeysHold(d), NEW id, NEW word,
           id \in Ids(d.examples) \/ word \in d.words
    PROVE  ForeignKeysHold(PutExample(d, id, word))
<1>1. CASE id \in Ids(d.examples)
  BY <1>1 DEF PutExample
<1>2. CASE id \notin Ids(d.examples)
  <2> DEFINE key == KeyOrNext(d, "examples", id)
             row == [id |-> key, word_id |-> word]
             S == d.examples \cup {row}
             e == [d EXCEPT !.examples = S, !.seq = Bump(@, "examples", key)]
  <2>1. row.word_id \in d.words
    BY <1>2
  <2>2. Ids(d.examples) \subseteq Ids(S)
    BY DEF Ids
  <2>3. \A r \in S \ d.examples : r.word_id \in d.words
    BY <2>1
  <2> HIDE DEF row, key, S
  <2>4. ForeignKeysHold(e)
    BY <2>2, <2>3, RowsThatReferMayCome DEF Database
  <2>5. QED
    BY <1>2, <2>4 DEF PutExample, S, row, key
<1>3. QED
  BY <1>1, <1>2

\* SuggestedLinkedWord::accept inserts a link of words that are there.
LEMMA LinksMayCome ==
    ASSUME NEW d \in Database, ForeignKeysHold(d), NEW id, NEW first, NEW second,
           id \in Ids(d.linked_words) \/ (first \in d.words /\ second \in d.words)
    PROVE  ForeignKeysHold(PutLinkedWord(d, id, first, second))
<1>1. CASE id \in Ids(d.linked_words)
  BY <1>1 DEF PutLinkedWord
<1>2. CASE id \notin Ids(d.linked_words)
  <2> DEFINE key == KeyOrNext(d, "linked_words", id)
             row == [id |-> key, first_word_id |-> first, second_word_id |-> second]
             S == d.linked_words \cup {row}
             e == [d EXCEPT !.linked_words = S, !.seq = Bump(@, "linked_words", key)]
  <2>1. LinkedWordOk(d, row)
    BY <1>2 DEF LinkedWordOk
  <2>2. Ids(d.linked_words) \subseteq Ids(S)
    BY DEF Ids
  <2>3. \A r \in S \ d.linked_words : LinkedWordOk(d, r)
    BY <2>1
  <2> HIDE DEF row, key, S
  <2>4. ForeignKeysHold(e)
    BY <2>2, <2>3, RowsThatReferMayCome DEF Database
  <2>5. QED
    BY <1>2, <2>4 DEF PutLinkedWord, S, row, key
<1>3. QED
  BY <1>1, <1>2

\* The upsert of a word suggestion replaces a row by one of the same id.
LEMMA WordSuggestionsMayCome ==
    ASSUME NEW d \in Database, ForeignKeysHold(d), NEW row, WordSuggestionOk(d, row), NEW q
    PROVE  ForeignKeysHold([d EXCEPT !.word_suggestions = Put(@, row), !.seq = q])
<1> DEFINE S == Put(d.word_suggestions, row)
<1>1. Ids(d.word_suggestions) \subseteq Ids(S)
  BY DEF Put, Ids
<1>2. \A r \in S \ d.word_suggestions : WordSuggestionOk(d, r)
  BY DEF Put
<1> HIDE DEF S
<1>3. ForeignKeysHold([d EXCEPT !.word_suggestions = S, !.seq = q])
  BY <1>1, <1>2, RowsThatReferMayCome DEF Database
<1>4. QED
  BY <1>3 DEF S

-----------------------------------------------------------------------------
(* The writes of the handlers *)

\* accept_whole_word_suggestion: the word, its examples and its datasets.
LEMMA AcceptReferences ==
    ASSUME TypeOK, References, NEW t \in Threads,
           accept_just_word(t) \/ accept_example(t) \/ accept_dataset(t)
    PROVE  References'
<1>1. db \in Database /\ ForeignKeysHold(db)
  BY DEF TypeOK, References
<1> DEFINE c == Current(t)
<1>2. CASE accept_just_word(t)
  <2> DEFINE word == KeyOrNext(db, "words", c.row.existing_word_id)
             after == [db EXCEPT !.words = @ \cup {word}, !.seq = Bump(@, "words", word)]
  <2>1. db' = after
    BY <1>2 DEF accept_just_word
  <2>2. ForeignKeysHold(after)
    BY <1>1, WordsMayCome
  <2>3. QED
    BY <2>1, <2>2 DEF References
<1>3. CASE accept_example(t)
  <2> DEFINE allowed(r) == r.existing_example_id \in Ids(db.examples) \/ c.word_id \in db.words
             after(r) == PutExample(db, r.existing_example_id, c.word_id)
             next(r) == <<AddUserAttribution(r.user, c.word_id),
                          DeleteExampleSuggestion(r.id)>> \o Loop(c, c.rows \ {r})
  <2>1. PICK r \in c.rows : Write(t, allowed(r), after(r), next(r))
    BY <1>3 DEF accept_example
  <2>2. allowed(r) => ForeignKeysHold(after(r))
    BY <1>1, ExamplesMayCome
  <2> HIDE DEF allowed, after, next
  <2>3. QED
    BY <2>1, <2>2, WritesKeepReferences
<1>4. CASE accept_dataset(t)
  <2> DEFINE allowed(r) == r.is_delete \/ c.word_id \in db.words
             pair(r) == <<c.word_id, r.dataset>>
             S(r) == IF r.is_delete THEN db.dataset_attributions \ {pair(r)}
                     ELSE db.dataset_attributions \cup {pair(r)}
             after(r) == [db EXCEPT !.dataset_attributions =
                             IF r.is_delete THEN @ \ {pair(r)} ELSE @ \cup {pair(r)}]
             next(r) == <<AddUserAttribution(r.user, c.word_id),
                          DeleteDatasetSuggestion(r.id)>> \o Loop(c, c.rows \ {r})
  <2>1. PICK r \in c.rows : Write(t, allowed(r), after(r), next(r))
    BY <1>4 DEF accept_dataset
  <2>2. allowed(r) => \A q \in S(r) \ db.dataset_attributions : q[1] \in db.words
    OBVIOUS
  <2>3. after(r) = [db EXCEPT !.dataset_attributions = S(r)]
    OBVIOUS
  <2> HIDE DEF S, after
  <2>4. allowed(r) => ForeignKeysHold(after(r))
    BY <1>1, <2>2, <2>3, LeavesMayChange
  <2> HIDE DEF allowed, next
  <2>5. QED
    BY <2>1, <2>4, WritesKeepReferences
<1>5. QED
  BY <1>2, <1>3, <1>4

\* SuggestedLinkedWord::accept.
LEMMA PutLinkReferences ==
    ASSUME TypeOK, References, NEW t \in Threads, NEW l, NEW ends, NEW rest,
           PutLink(t, l, ends, rest)
    PROVE  References'
<1> DEFINE first == ends.first[2]
           second == ends.second[2]
           allowed == \/ l.existing_id \in Ids(db.linked_words)
                      \/ first \in db.words /\ second \in db.words
           after == PutLinkedWord(db, l.existing_id, first, second)
           next == <<AddUserAttribution(l.user, first), AddUserAttribution(l.user, second),
                     DeleteLinkedWordSuggestion(l.id)>> \o rest
<1>1. Write(t, allowed, after, next)
  BY DEF PutLink
<1>2. allowed => ForeignKeysHold(after)
  BY LinksMayCome DEF TypeOK, References
<1> HIDE DEF allowed, after, next
<1>3. QED
  BY <1>1, <1>2, WritesKeepReferences

\* update_first_and_second is refused when an end is gone.
LEMMA UpdateReferences ==
    ASSUME TypeOK, References, NEW t \in Threads, NEW l, NEW ends, NEW rest,
           update_first_and_second(t, l, ends, rest)
    PROVE  References'
<1> DEFINE Updated(r) == [r EXCEPT
               !.first_existing_word_id = IntoExisting(ends.first),
               !.second_existing_word_id = IntoExisting(ends.second),
               !.suggested_word_id = IntoSuggested(ends.first),
               !.second_suggested_word_id = IntoSuggested(ends.second)]
           after == {IF r.id = l.id THEN Updated(r) ELSE r : r \in db.linked_word_suggestions}
           allowed == \A r \in after : r.id = l.id => LinkedWordSuggestionOk(db, r)
           written == [db EXCEPT !.linked_word_suggestions = after]
<1>1. Write(t, allowed, written, rest)
  BY DEF update_first_and_second
<1>2. \A r \in after \ db.linked_word_suggestions : r.id = l.id
  <2>1. db.linked_word_suggestions \subseteq LinkedWordSuggestionRow
    BY DEF TypeOK, Database
  <2>2. \A r \in db.linked_word_suggestions : Updated(r).id = r.id
    BY <2>1 DEF LinkedWordSuggestionRow
  <2> HIDE DEF Updated
  <2>3. QED
    BY <2>2
<1>3. allowed => \A r \in after \ db.linked_word_suggestions : LinkedWordSuggestionOk(db, r)
  BY <1>2
<1> HIDE DEF after, allowed
<1>4. allowed => ForeignKeysHold(written)
  BY <1>3, LeavesMayChange DEF TypeOK, References
<1> HIDE DEF written
<1>5. QED
  BY <1>1, <1>4, WritesKeepReferences

\* The links of an acceptance, and the acceptance of a link.
LEMMA AcceptLinkReferences ==
    ASSUME TypeOK, References, NEW t \in Threads, accept_link_of_word(t) \/ accept_link(t)
    PROVE  References'
<1>1. CASE accept_link_of_word(t)
  <2> DEFINE c == Current(t)
             ends(l) == EndsAccepted(l.ends, c.suggestion, c.word_id)
             rest(l) == Loop(c, c.rows \ {l})
  <2>1. PICK l \in c.rows :
            IF BothExist(ends(l)) THEN PutLink(t, l, ends(l), rest(l))
            ELSE update_first_and_second(t, l, ends(l), rest(l))
    BY <1>1 DEF accept_link_of_word
  <2> HIDE DEF ends, rest
  <2>2. QED
    BY <2>1, PutLinkReferences, UpdateReferences
<1>2. CASE accept_link(t)
  <2>1. PutLink(t, Current(t).link, Current(t).link.ends, <<>>)
    BY <1>2 DEF accept_link
  <2>2. QED
    BY <2>1, PutLinkReferences
<1>3. QED
  BY <1>1, <1>2

\* The DELETEs of decisions.
LEMMA DeleteReferences ==
    ASSUME TypeOK, References, NEW t \in Threads,
           delete_word_suggestion(t) \/ delete_word(t) \/ delete_example(t) \/ delete_link(t)
    PROVE  References'
<1> DEFINE id == Current(t).id
<1>1. /\ ForeignKeysHold(WithoutWord(db, id))
      /\ ForeignKeysHold(WithoutWordSuggestion(db, id))
      /\ ForeignKeysHold(WithoutExample(db, id))
      /\ ForeignKeysHold(WithoutLinkedWord(db, id))
  BY DeletesCascade DEF TypeOK
<1>2. \/ Write(t, TRUE, WithoutWord(db, id), <<>>)
      \/ Write(t, TRUE, WithoutWordSuggestion(db, id), <<>>)
      \/ Write(t, TRUE, WithoutExample(db, id), <<>>)
      \/ Write(t, TRUE, WithoutLinkedWord(db, id), <<>>)
  BY DEF delete_word_suggestion, delete_word, delete_example, delete_link
<1>3. QED
  BY <1>1, <1>2, WritesKeepReferences

\* The statements handlers share.
LEMMA SharedReferences ==
    ASSUME TypeOK, References, NEW t \in Threads,
           ExecAddUserAttribution(t) \/ ExecDeleteRow(t) \/ ExecIndex(t) \/ abandon_deletion(t)
    PROVE  References'
<1>1. db \in Database /\ ForeignKeysHold(db)
  BY DEF TypeOK, References
<1> DEFINE s == Current(t)
<1>2. CASE ExecAddUserAttribution(t)
  <2> DEFINE S == db.user_attributions \cup {<<s.word_id, s.user>>}
             allowed == s.word_id \in db.words
             after == [db EXCEPT !.user_attributions = @ \cup {<<s.word_id, s.user>>}]
  <2>1. Write(t, allowed, after, <<>>)
    BY <1>2 DEF ExecAddUserAttribution
  <2>2. allowed => \A r \in S \ db.user_attributions : r[1] \in db.words
    OBVIOUS
  <2>3. after = [db EXCEPT !.user_attributions = S]
    OBVIOUS
  <2> HIDE DEF S, after
  <2>4. allowed => ForeignKeysHold(after)
    BY <1>1, <2>2, <2>3, LeavesMayChange
  <2> HIDE DEF allowed
  <2>5. QED
    BY <2>1, <2>4, WritesKeepReferences
<1>3. CASE ExecDeleteRow(t)
  <2> DEFINE after == [db EXCEPT ![s.table] = Drop(@, s.id)]
  <2>1. Write(t, TRUE, after, <<>>)
    BY <1>3 DEF ExecDeleteRow
  <2>2. s \in SharedStatement /\ s.op = "delete_row"
    BY <1>3, AtShared DEF ExecDeleteRow, At, Current
  <2>3. s.table \in LeafTables
    BY <2>2 DEF SharedStatement
  <2>4. \A T : Drop(T, s.id) \subseteq T
    BY DEF Drop
  <2>5. ForeignKeysHold(after)
    <3>1. CASE s.table = "example_suggestions"
      BY <1>1, <2>4, <3>1, LeavesMayChange
    <3>2. CASE s.table = "linked_word_suggestions"
      BY <1>1, <2>4, <3>2, LeavesMayChange
    <3>3. CASE s.table = "dataset_attribution_suggestions"
      BY <1>1, <2>4, <3>3, LeavesMayChange
    <3>4. CASE s.table = "word_deletion_suggestions"
      BY <1>1, <2>4, <3>4, LeavesMayChange
    <3>5. CASE s.table = "example_deletion_suggestions"
      BY <1>1, <2>4, <3>5, LeavesMayChange
    <3>6. CASE s.table = "linked_word_deletion_suggestions"
      BY <1>1, <2>4, <3>6, LeavesMayChange
    <3>7. QED
      BY <2>3, <3>1, <3>2, <3>3, <3>4, <3>5, <3>6 DEF LeafTables
  <2> HIDE DEF after
  <2>6. QED
    BY <2>1, <2>5, WritesKeepReferences
<1>4. CASE ExecIndex(t)
  BY <1>4 DEF ExecIndex, References
<1>5. CASE abandon_deletion(t)
  BY <1>5, ReadsKeepReferences DEF abandon_deletion
<1>6. QED
  BY <1>2, <1>3, <1>4, <1>5

\* The upsert of a suggestion of a word, and the suggestion to delete a word.
LEMMA InsertReferences ==
    ASSUME TypeOK, References, NEW t \in Threads,
           insert_suggestion(t) \/ insert_word_deletion(t)
    PROVE  References'
<1>1. db \in Database /\ ForeignKeysHold(db)
  BY DEF TypeOK, References
<1> DEFINE c == Current(t)
<1>2. CASE insert_suggestion(t)
  <2> DEFINE s == KeyOrNext(db, "word_suggestions", c.word.suggestion_id)
             old == {r \in db.word_suggestions : r.id = s}
             user == IF old = {} THEN c.word.user ELSE RowOf(old, s).user
             row == [id |-> s, existing_word_id |-> c.word.existing_id, user |-> user]
             after == [db EXCEPT !.word_suggestions = Put(@, row),
                                 !.seq = Bump(@, "word_suggestions", s)]
             next == AfterInsert(c, c.word.suggestion_id)
  <2>1. \/ Read(t, TRUE, next, {})
        \/ Refuse(t)
        \/ WordSuggestionOk(db, row) /\ db' = after
    BY <1>2 DEF insert_suggestion
  <2> HIDE DEF row, s
  <2>2. WordSuggestionOk(db, row) => ForeignKeysHold(after)
    BY <1>1, WordSuggestionsMayCome
  <2> HIDE DEF after, next
  <2>3. CASE Read(t, TRUE, next, {}) \/ Refuse(t)
    BY <2>3, ReadsKeepReferences
  <2>4. QED
    BY <2>1, <2>2, <2>3 DEF References
<1>3. CASE insert_word_deletion(t)
  <2> DEFINE T == db.word_deletion_suggestions
             key == db.seq["word_deletion_suggestions"] + 1
             S == T \cup {[id |-> key, word_id |-> c.id]}
             allowed == c.id \in db.words
             inserted == [db EXCEPT
                             !.word_deletion_suggestions = @ \cup {[id |-> key, word_id |-> c.id]},
                             !.seq = Bump(@, "word_deletion_suggestions", key)]
             after == IF \E r \in T : r.word_id = c.id THEN db ELSE inserted
  <2>1. Write(t, allowed, after, <<>>)
    BY <1>3 DEF insert_word_deletion
  <2>2. allowed => \A r \in S \ db.word_deletion_suggestions : r.word_id \in db.words
    OBVIOUS
  <2>3. inserted = [db EXCEPT !.word_deletion_suggestions = S,
                              !.seq = Bump(@, "word_deletion_suggestions", key)]
    OBVIOUS
  <2> HIDE DEF S, inserted, key
  <2>4. allowed => ForeignKeysHold(inserted)
    BY <1>1, <2>2, <2>3, LeavesMayChange
  <2>5. allowed => ForeignKeysHold(after)
    BY <1>1, <2>4
  <2> HIDE DEF allowed, after
  <2>6. QED
    BY <2>1, <2>5, WritesKeepReferences
<1>4. QED
  BY <1>2, <1>3

\* What may replace a row of a table, and what may leave it.
LEMMA PutAndDrop ==
    ASSUME NEW T, NEW row, NEW id
    PROVE  /\ \A r \in Put(T, row) \ T : r = row
           /\ Drop(T, id) \ T = {}
BY DEF Put, Drop

\* A statement of the loop over the links of a submission.
LEMMA WriteLinkReferences ==
    ASSUME TypeOK, References, NEW t \in Threads, write_link(t)
    PROVE  References'
<1> DEFINE c == Current(t)
           rest(s) == Loop(c, c.rows \ {s})
           row(s) == LinkRowAfter(db, s.row)
           upserted(s) == [db EXCEPT
                             !.linked_word_suggestions = Put(@, row(s)),
                             !.seq = Bump(@, "linked_word_suggestions", row(s).id)]
           deleted(s) == [db EXCEPT !.linked_word_suggestions = Drop(@, s.id)]
           suggested(s) == SuggestLinkDeletion(db, s.id)
<1>1. db \in Database /\ ForeignKeysHold(db)
  BY DEF TypeOK, References
<1>2. PICK s \in c.rows :
          \/ Write(t, LinkedWordSuggestionOk(db, row(s)), upserted(s), rest(s))
          \/ Write(t, TRUE, deleted(s), rest(s))
          \/ Write(t, s.id \in Ids(db.linked_words), suggested(s), rest(s))
  BY DEF write_link
<1>3. LinkedWordSuggestionOk(db, row(s)) => ForeignKeysHold(upserted(s))
  <2> HIDE DEF row
  <2>1. QED
    BY <1>1, PutAndDrop, LeavesMayChange
<1>4. ForeignKeysHold(deleted(s))
  BY <1>1, PutAndDrop, LeavesMayChange
<1>5. s.id \in Ids(db.linked_words) => ForeignKeysHold(suggested(s))
  <2> DEFINE T == db.linked_word_deletion_suggestions
             key == db.seq["linked_word_deletion_suggestions"] + 1
             S == T \cup {[id |-> key, linked_word_id |-> s.id]}
             inserted == [db EXCEPT
                            !.linked_word_deletion_suggestions = S,
                            !.seq = Bump(@, "linked_word_deletion_suggestions", key)]
  <2>1. s.id \in Ids(db.linked_words) =>
            \A r \in S \ T : r.linked_word_id \in Ids(db.linked_words)
    OBVIOUS
  <2>2. suggested(s) \in {db, inserted}
    BY DEF SuggestLinkDeletion
  <2> HIDE DEF S, key
  <2>3. s.id \in Ids(db.linked_words) => ForeignKeysHold(inserted)
    BY <1>1, <2>1, LeavesMayChange
  <2> HIDE DEF inserted, suggested
  <2>4. QED
    BY <1>1, <2>2, <2>3
<1> HIDE DEF row, upserted, deleted, suggested, rest
<1>6. QED
  BY <1>2, <1>3, <1>4, <1>5, WritesKeepReferences

\* A statement of the loop over its examples.
LEMMA WriteExampleReferences ==
    ASSUME TypeOK, References, NEW t \in Threads, write_example(t)
    PROVE  References'
<1> DEFINE c == Current(t)
           rest(s) == Loop(c, c.rows \ {s})
           row(s) == ExampleRowAfter(db, s.row)
           upserted(s) == [db EXCEPT
                             !.example_suggestions = Put(@, row(s)),
                             !.seq = Bump(@, "example_suggestions", row(s).id)]
           deleted(s) == [db EXCEPT !.example_suggestions = Drop(@, s.id)]
           suggested(s) == SuggestExampleDeletion(db, s.id)
<1>1. db \in Database /\ ForeignKeysHold(db)
  BY DEF TypeOK, References
<1>2. PICK s \in c.rows :
          \/ Write(t, ExampleSuggestionOk(db, row(s)), upserted(s), rest(s))
          \/ Write(t, TRUE, deleted(s), rest(s))
          \/ Write(t, s.id \in Ids(db.examples), suggested(s), rest(s))
  BY DEF write_example
<1>3. ExampleSuggestionOk(db, row(s)) => ForeignKeysHold(upserted(s))
  <2> HIDE DEF row
  <2>1. QED
    BY <1>1, PutAndDrop, LeavesMayChange
<1>4. ForeignKeysHold(deleted(s))
  BY <1>1, PutAndDrop, LeavesMayChange
<1>5. s.id \in Ids(db.examples) => ForeignKeysHold(suggested(s))
  <2> DEFINE T == db.example_deletion_suggestions
             S == T \cup {[id |-> NextRowid(T), example_id |-> s.id]}
             inserted == [db EXCEPT !.example_deletion_suggestions = S]
  <2>1. s.id \in Ids(db.examples) => \A r \in S \ T : r.example_id \in Ids(db.examples)
    OBVIOUS
  <2>2. suggested(s) \in {db, inserted}
    BY DEF SuggestExampleDeletion
  <2> HIDE DEF S
  <2>3. s.id \in Ids(db.examples) => ForeignKeysHold(inserted)
    BY <1>1, <2>1, LeavesMayChange
  <2> HIDE DEF inserted, suggested
  <2>4. QED
    BY <1>1, <2>2, <2>3
<1> HIDE DEF row, upserted, deleted, suggested, rest
<1>6. QED
  BY <1>2, <1>3, <1>4, <1>5, WritesKeepReferences

\* A statement of the loop over its datasets.
LEMMA WriteDatasetReferences ==
    ASSUME TypeOK, References, NEW t \in Threads, write_dataset(t)
    PROVE  References'
<1> DEFINE c == Current(t)
           key == db.seq["dataset_attribution_suggestions"] + 1
           rest(s) == Loop(c, c.rows \ {s})
           row(s) == [id |-> key, dataset |-> s.dataset, existing_word_id |-> c.existing_id,
                      suggested_word_id |-> c.new, is_delete |-> s.is_delete, user |-> c.user]
           inserted(s) == [db EXCEPT
                             !.dataset_attribution_suggestions = @ \cup {row(s)},
                             !.seq = Bump(@, "dataset_attribution_suggestions", key)]
           kept(s) == {r \in db.dataset_attribution_suggestions :
                          ~(r.dataset = s.id /\ r.suggested_word_id = c.new)}
           deleted(s) == [db EXCEPT !.dataset_attribution_suggestions =
                             {r \in @ : ~(r.dataset = s.id /\ r.suggested_word_id = c.new)}]
<1>1. db \in Database /\ ForeignKeysHold(db)
  BY DEF TypeOK, References
<1>2. PICK s \in c.rows :
          \/ Write(t, DatasetSuggestionOk(db, row(s)), inserted(s), rest(s))
          \/ Write(t, TRUE, deleted(s), rest(s))
  BY DEF write_dataset
<1>3. DatasetSuggestionOk(db, row(s)) => ForeignKeysHold(inserted(s))
  <2> HIDE DEF row, key
  <2>1. QED
    BY <1>1, LeavesMayChange
<1>4. ForeignKeysHold(deleted(s))
  <2>1. kept(s) \ db.dataset_attribution_suggestions = {}
    OBVIOUS
  <2>2. deleted(s) = [db EXCEPT !.dataset_attribution_suggestions = kept(s)]
    OBVIOUS
  <2> HIDE DEF kept, deleted
  <2>3. QED
    BY <1>1, <2>1, <2>2, LeavesMayChange
<1> HIDE DEF row, inserted, deleted, rest
<1>5. QED
  BY <1>2, <1>3, <1>4, WritesKeepReferences

-----------------------------------------------------------------------------
(* Every step *)

\* What a handler reads leaves the tables alone.
LEMMA ReadsLeaveTables ==
    ASSUME NEW t \in Threads,
           \/ read_original(t) \/ process_linked_words(t)
           \/ process_examples(t) \/ process_datasets(t)
           \/ fetch_alone(t) \/ fetch_examples(t) \/ fetch_linked_words(t) \/ fetch_datasets(t)
           \/ fetch_example(t) \/ fetch_link(t) \/ fetch_dataset(t)
           \/ fetch_word_deletion(t) \/ fetch_example_deletion(t) \/ fetch_link_deletion(t)
    PROVE  UNCHANGED db
<1>1. CASE read_original(t)
  BY <1>1 DEF read_original, Read, Refuse, Stop
<1>2. CASE process_linked_words(t)
  BY <1>2 DEF process_linked_words, Read, Refuse, Panic, Stop
<1>3. CASE process_examples(t) \/ process_datasets(t)
  BY <1>3 DEF process_examples, process_datasets, Read, Refuse, Stop
<1>4. CASE \/ fetch_alone(t) \/ fetch_examples(t)
           \/ fetch_linked_words(t) \/ fetch_datasets(t)
  BY <1>4 DEF fetch_alone, fetch_examples, fetch_linked_words, fetch_datasets,
              Read, Refuse, Stop
<1>5. CASE fetch_example(t) \/ fetch_link(t) \/ fetch_dataset(t)
  BY <1>5 DEF fetch_example, fetch_link, fetch_dataset, Read, Refuse, Stop
<1>6. CASE fetch_word_deletion(t) \/ fetch_example_deletion(t) \/ fetch_link_deletion(t)
  BY <1>6 DEF fetch_word_deletion, fetch_example_deletion, fetch_link_deletion,
              Read, Refuse, Stop
<1>7. QED
  BY <1>1, <1>2, <1>3, <1>4, <1>5, <1>6

\* So do the arrival of a request and the page of a form.
LEMMA RequestsLeaveTables ==
    ASSUME \/ \E t \in Threads : Request(t)
           \/ edit_word_page \/ edit_suggestion_page \/ Crash
    PROVE  UNCHANGED db
<1>1. CASE \E t \in Threads : Request(t)
  <2>1. PICK t \in Threads : Request(t)
    BY <1>1
  <2>2. CASE \/ submit_suggestion(t) \/ suggest_word_deletion(t)
             \/ accept_suggested_word(t) \/ reject_suggested_word(t)
             \/ accept_suggested_example(t) \/ reject_suggested_example(t)
    BY <2>2 DEF submit_suggestion, suggest_word_deletion, accept_suggested_word,
                reject_suggested_word, accept_suggested_example, reject_suggested_example,
                Arrive
  <2>3. CASE \/ accept_linked_word(t) \/ reject_linked_word(t)
             \/ accept_dataset_attribution_suggestion(t)
             \/ reject_dataset_attribution_suggestion(t)
    BY <2>3 DEF accept_linked_word, reject_linked_word,
                accept_dataset_attribution_suggestion,
                reject_dataset_attribution_suggestion, Arrive
  <2>4. CASE \/ accept_deletion(t) \/ reject_deletion(t)
             \/ accept_example_deletion(t) \/ reject_example_deletion(t)
             \/ accept_linked_word_deletion(t) \/ reject_linked_word_deletion(t)
    BY <2>4 DEF accept_deletion, reject_deletion, accept_example_deletion,
                reject_example_deletion, accept_linked_word_deletion,
                reject_linked_word_deletion, Arrive
  <2>5. QED
    BY <2>1, <2>2, <2>3, <2>4 DEF Request
<1>2. CASE edit_word_page \/ edit_suggestion_page
  BY <1>2 DEF edit_word_page, edit_suggestion_page, Show
<1>3. CASE Crash
  BY <1>3 DEF Crash
<1>4. QED
  BY <1>1, <1>2, <1>3

\* Everything a thread does for a request keeps the foreign keys.
LEMMA ServeReferences ==
    ASSUME TypeOK, References, NEW t \in Threads, Serve(t)
    PROVE  References'
<1>1. CASE UNCHANGED db
  BY <1>1 DEF References
<1>2. CASE insert_suggestion(t) \/ insert_word_deletion(t)
  BY <1>2, InsertReferences
<1>3. CASE write_link(t) \/ write_example(t) \/ write_dataset(t)
  BY <1>3, WriteLinkReferences, WriteExampleReferences, WriteDatasetReferences
<1>4. CASE accept_just_word(t) \/ accept_example(t) \/ accept_dataset(t)
  BY <1>4, AcceptReferences
<1>5. CASE accept_link_of_word(t) \/ accept_link(t)
  BY <1>5, AcceptLinkReferences
<1>6. CASE delete_word_suggestion(t) \/ delete_word(t) \/ delete_example(t) \/ delete_link(t)
  BY <1>6, DeleteReferences
<1>7. CASE ExecAddUserAttribution(t) \/ ExecDeleteRow(t) \/ ExecIndex(t)
  BY <1>7, SharedReferences
<1>8. QED
  BY <1>1, <1>2, <1>3, <1>4, <1>5, <1>6, <1>7, ReadsLeaveTables DEF Serve

\* Every step of the server keeps the foreign keys.
LEMMA StepReferences ==
    ASSUME TypeOK, References, [Next]_vars
    PROVE  References'
<1>1. CASE UNCHANGED db
  BY <1>1 DEF References
<1>2. CASE \E t \in Threads : Serve(t)
  BY <1>2, ServeReferences
<1>3. CASE \E t \in Threads : abandon_deletion(t)
  BY <1>3, SharedReferences
<1>4. QED
  BY <1>1, <1>2, <1>3, RequestsLeaveTables DEF Next, vars

-----------------------------------------------------------------------------
(* The two are proved together: the rows a handler has read are typed because *)
(* the links it read were between rows that exist.                            *)

\* TypeOK and References are inductive together.
THEOREM Invariance == Spec => [](TypeOK /\ References)
<1>1. Init => TypeOK /\ References
  BY InitialType
<1>2. TypeOK /\ References /\ [Next]_vars => TypeOK' /\ References'
  BY StepType, StepReferences
<1>3. QED
  BY <1>1, <1>2, PTL DEF Spec

\* In every behaviour of the server, with any number of users, threads and
\* requests, every statement a thread has left to issue is well typed.
THEOREM TypeCorrect == Spec => []TypeOK
BY Invariance, PTL

\* In every behaviour of the server no foreign key dangles, although handlers
\* interleave between statements, panic half way and die in a crash.
THEOREM ReferencesHold == Spec => []References
BY Invariance, PTL

-----------------------------------------------------------------------------
(* Programs: what a thread may have left to issue, by the kind of its request *)

Statements(p) == {p[i] : i \in 1 .. Len(p)}

FetchedOps == {"fetch_examples", "fetch_linked_words", "fetch_datasets", "accept_just_word"}

\* A request that has not written anything is at one statement, a read.
FirstOps ==
    FetchedOps \cup {"fetch_alone", "fetch_example", "fetch_link", "fetch_dataset",
                     "fetch_word_deletion", "fetch_example_deletion",
                     "fetch_link_deletion", "suggest_word_deletion"}

SharedOps == {"delete_row", "index_put", "index_delete"}
DeleteOps == {"delete_word", "delete_example", "delete_link"}

AcceptanceOps ==
    SharedOps \cup {"add_user_attribution", "accept_examples", "accept_datasets",
                    "accept_links", "accept_link", "delete_word_suggestion"}

SubmissionOps ==
    SharedOps \cup {"read_original", "insert_suggestion", "process_linked_words",
                    "process_examples", "process_datasets", "write_link",
                    "write_example", "write_dataset"}

\* Statements that name no row that has to be there.
InertOps ==
    SubmissionOps \cup {"add_user_attribution", "accept_datasets", "delete_word_suggestion",
                        "fetch_example", "fetch_link", "fetch_dataset",
                        "fetch_example_deletion", "fetch_link_deletion",
                        "suggest_word_deletion"}

Issues(p, ops) == \A s \in Statements(p) : s.op \in ops

Shaped(p) ==
    \/ Issues(p, AcceptanceOps)
    \/ Issues(p, SubmissionOps)
    \/ Len(p) = 1 /\ p[1].op \in FirstOps
    \/ Len(p) = 2 /\ p[1].op \in DeleteOps /\ p[2].op \in SharedOps

-----------------------------------------------------------------------------
(* What a thread knows of the rows its statements name *)

\* A row that will be written under its old id is there, unless it is excused:
\* whoever deletes it now is about it at the same time.
Secured(t, ref) == ref \in claims[t] /\ ref \in Entries(db) \cup Excused

ExamplesSecured(t, rows) ==
    \A r \in rows : r.existing_example_id # Null =>
                        Secured(t, <<"example", r.existing_example_id>>)
LinksSecured(t, links) ==
    \A l \in links : l.existing_id # Null => Secured(t, <<"link", l.existing_id>>)

\* No word came of suggestion s.
Undecided(s) == Suggested(s) \in Excused \/ \A p \in origin : p[2] # s

FetchedKnown(t, s) ==
    /\ Suggested(s.row.id) \in claims[t]
    /\ s.row.id <= db.seq["word_suggestions"]
    /\ s.row.existing_word_id = Null => Undecided(s.row.id)
    /\ s.row.existing_word_id # Null => Secured(t, Existing(s.row.existing_word_id))
    /\ ExamplesSecured(t, s.examples)
    /\ LinksSecured(t, s.links)

Sure(t, s) ==
    /\ s.op = "fetch_alone" => Suggested(s.id) \in claims[t]
    /\ s.op \in FetchedOps => FetchedKnown(t, s)
    /\ s.op = "accept_examples" => ExamplesSecured(t, s.rows)
    /\ s.op = "accept_links" => LinksSecured(t, s.rows)
    /\ s.op = "accept_link" => LinksSecured(t, {s.link})
    /\ s.op = "fetch_word_deletion" => s.shown \in pages.word
    /\ s.op = "delete_word" => Existing(s.id) \in claims[t] /\ s.id = s.shown
    /\ s.op = "delete_example" => <<"example", s.id>> \in claims[t]
    /\ s.op = "delete_link" => <<"link", s.id>> \in claims[t]

-----------------------------------------------------------------------------
(* The inductive invariant *)

ThreadsKnown ==
    \A t \in Threads : /\ Shaped(todo[t])
                       /\ \A s \in Statements(todo[t]) : Sure(t, s)

\* The largest id the table of an entry has given out.
LastId(d, ref) ==
    CASE ref[1] = "existing" -> d.seq["words"]
      [] ref[1] = "example" -> d.seq["examples"]
      [] OTHER -> d.seq["linked_words"]

\* No id was given out that the sequence has not passed, not even one that has
\* been deleted since.
IdsPassed ==
    /\ \A ref \in Entries(db) \cup gone : ref[2] <= LastId(db, ref)
    /\ \A r \in db.word_suggestions : r.id <= db.seq["word_suggestions"]
    /\ \A p \in origin : p[2] <= db.seq["word_suggestions"]
    /\ \A r \in pages.word : r.id <= db.seq["word_deletion_suggestions"]

\* A page shows a deletion suggestion as it is and always was.
PagesKnown ==
    /\ db.word_deletion_suggestions \subseteq pages.word
    /\ Keyed(pages.word)

\* A suggestion that a word came of is gone, or the thread that accepted it is
\* going to delete it.
WillDelete(t, s) ==
    /\ Suggested(s) \in claims[t]
    /\ [op |-> "delete_word_suggestion", id |-> s] \in Statements(todo[t])

OriginsKnown ==
    \A p \in origin :
        \/ Suggested(p[2]) \in Excused
        \/ p[2] \notin Ids(db.word_suggestions)
        \/ \E t \in Threads : WillDelete(t, p[2])

Decided ==
    /\ ThreadsKnown
    /\ IdsPassed
    /\ PagesKnown
    /\ OriginsKnown
    /\ OneWordPerSuggestion
    /\ NothingDeletedReturns

IInv == TypeOK /\ References /\ Decided

-----------------------------------------------------------------------------
(* What a step is to keep of it *)

\* Every history a step keeps, and who the step is not about.
Acts(t) ==
    /\ \A u \in Threads \ {t} : todo'[u] = todo[u] /\ claims'[u] = claims[u]
    /\ broken \subseteq broken'
    /\ Observe

SequencesGrow == \A table \in AutoIncrement : db.seq[table] <= db'.seq[table]

\* A row that comes has an id never given out before, or is excused; a row that
\* goes is one the request is about.
EntriesLawful(t) ==
    /\ Entries(db) \ Entries(db') \subseteq claims'[t]
    /\ \A ref \in Entries(db') \ Entries(db) :
          /\ ref[2] <= LastId(db', ref)
          /\ ref[2] > LastId(db, ref) \/ ref \in Excused'

SuggestionsLawful ==
    \A r \in db'.word_suggestions :
        /\ r.id <= db'.seq["word_suggestions"]
        /\ \/ r.id \in Ids(db.word_suggestions)
           \/ r.id > db.seq["word_suggestions"]
           \/ Suggested(r.id) \in Excused'

DeletionsLawful ==
    LET new == db'.word_deletion_suggestions \ db.word_deletion_suggestions
    IN  /\ \A r \in new : /\ r.id > db.seq["word_deletion_suggestions"]
                          /\ r.id <= db'.seq["word_deletion_suggestions"]
        /\ \A q, r \in new : q = r

\* A word comes of a suggestion the request is about, that no word came of.
OriginLawful(t) ==
    \/ origin' = origin
    \/ \E w \in Id, s \in Id :
          /\ origin' = origin \cup {<<w, s>>}
          /\ s <= db.seq["word_suggestions"]
          /\ Suggested(s) \in claims'[t]
          /\ Undecided(s)
          /\ WillDelete(t, s)'

Lawful(t) ==
    /\ SequencesGrow
    /\ EntriesLawful(t)
    /\ SuggestionsLawful
    /\ DeletionsLawful
    /\ OriginLawful(t)

\* The thread that acts knows what it has to, and deletes what it will delete.
Prepared(t) ==
    /\ Shaped(todo'[t])
    /\ \A s \in Statements(todo'[t]) : Sure(t, s)'
    /\ \A s \in Id : WillDelete(t, s) =>
          \/ WillDelete(t, s)'
          \/ Suggested(s) \in Excused'
          \/ s \notin Ids(db'.word_suggestions)

\* A step that brings no row and takes no word, example or link.
Quiet ==
    /\ SequencesGrow
    /\ Entries(db') = Entries(db)
    /\ db'.word_suggestions \subseteq db.word_suggestions
    /\ db'.word_deletion_suggestions \subseteq db.word_deletion_suggestions
    /\ origin' = origin

\* What a write of an acceptance or of a submission leaves.
Mild(d) ==
    /\ \A table \in AutoIncrement : db.seq[table] <= d.seq[table]
    /\ Entries(db) \subseteq Entries(d)
    /\ \A ref \in Entries(d) \ Entries(db) :
          /\ ref[2] <= LastId(d, ref)
          /\ ref[2] > LastId(db, ref) \/ ref \in Excused
    /\ d.word_suggestions \subseteq db.word_suggestions
    /\ d.word_deletion_suggestions \subseteq db.word_deletion_suggestions

\* What a read adds to what the request is about.
HasRead(t, about) ==
    /\ UNCHANGED <<db, origin>>
    /\ claims'[t] = claims[t] \cup about
    /\ Excused \subseteq Excused'
    /\ pages.word \subseteq pages'.word
    /\ \A u \in Threads \ {t} : claims[u] \cap claims'[t] \subseteq Excused'

\* What a thread is sure of, nothing takes from it.
Undisturbed(u) ==
    /\ claims[u] \subseteq claims'[u]
    /\ Excused \subseteq Excused'
    /\ pages.word \subseteq pages'.word
    /\ db.seq["word_suggestions"] <= db'.seq["word_suggestions"]
    /\ claims[u] \cap Entries(db) \subseteq Entries(db') \cup Excused'
    /\ \A p \in origin' \ origin :
          Suggested(p[2]) \in claims[u] => Suggested(p[2]) \in Excused'

-----------------------------------------------------------------------------
(* Lemmas *)

\* A program is statements, and what is left of it after one is too.
LEMMA StatementsOf ==
    ASSUME NEW S, NEW p \in Seq(S)
    PROVE  Statements(p) \subseteq S /\ Statements(Tail(p)) \subseteq Statements(p)
<1>1. \A i \in 1 .. Len(p) : p[i] \in S
  OBVIOUS
<1>2. CASE p = <<>>
  BY <1>2 DEF Statements
<1>3. CASE p # <<>>
  <2>1. Len(Tail(p)) = Len(p) - 1 /\ \A i \in 1 .. Len(Tail(p)) : Tail(p)[i] = p[i + 1]
    BY <1>3
  <2>2. QED
    BY <1>1, <2>1 DEF Statements
<1>4. QED
  BY <1>2, <1>3

\* One put together of two has the statements of both.
LEMMA StatementsOfBoth ==
    ASSUME NEW A, NEW B, NEW p \in Seq(A), NEW q \in Seq(B)
    PROVE  Statements(p \o q) = Statements(p) \cup Statements(q)
<1>1. p \in Seq(A \cup B) /\ q \in Seq(A \cup B)
  OBVIOUS
<1>2. Len(p) \in Nat /\ Len(q) \in Nat /\ Len(p \o q) = Len(p) + Len(q)
  BY <1>1
<1>3. /\ \A i \in 1 .. Len(p) : (p \o q)[i] = p[i]
      /\ \A i \in 1 .. Len(p) + Len(q) : i > Len(p) => (p \o q)[i] = q[i - Len(p)]
  BY <1>1
<1>4. ASSUME NEW i \in 1 .. Len(q)
      PROVE  Len(p) + i \in 1 .. Len(p) + Len(q) /\ (p \o q)[Len(p) + i] = q[i]
  <2>1. Len(p) + i > Len(p) /\ Len(p) + i \in 1 .. Len(p) + Len(q) /\ (Len(p) + i) - Len(p) = i
    BY <1>2
  <2>2. QED
    BY <1>3, <2>1
<1>5. Statements(p \o q) \subseteq Statements(p) \cup Statements(q)
  <2>1. ASSUME NEW i \in 1 .. Len(p) + Len(q)
        PROVE  (p \o q)[i] \in Statements(p) \cup Statements(q)
    <3>1. CASE i \in 1 .. Len(p)
      BY <1>3, <3>1 DEF Statements
    <3>2. CASE i > Len(p)
      <4>1. i - Len(p) \in 1 .. Len(q)
        BY <1>2, <3>2
      <4>2. QED
        BY <1>3, <3>2, <4>1 DEF Statements
    <3>3. QED
      BY <1>2, <3>1, <3>2
  <2>2. QED
    BY <1>2, <2>1 DEF Statements
<1>6. Statements(p) \subseteq Statements(p \o q)
  <2>1. \A i \in 1 .. Len(p) : i \in 1 .. Len(p) + Len(q)
    BY <1>2
  <2>2. QED
    BY <1>2, <1>3, <2>1 DEF Statements
<1>7. Statements(q) \subseteq Statements(p \o q)
  BY <1>2, <1>4 DEF Statements
<1>8. QED
  BY <1>1, <1>5, <1>6, <1>7

\* What a thread is sure of stays so while nothing it is about is disturbed.
LEMMA SureStays ==
    ASSUME TypeOK, TypeOK', NEW t \in Threads, NEW s \in Statement,
           Sure(t, s), Undisturbed(t)
    PROVE  Sure(t, s)'
<1>1. ASSUME NEW ref, Secured(t, ref)
      PROVE  Secured(t, ref)'
  BY <1>1 DEF Secured, Undisturbed
<1>2. ASSUME NEW rows, ExamplesSecured(t, rows)
      PROVE  ExamplesSecured(t, rows)'
  BY <1>1, <1>2 DEF ExamplesSecured
<1>3. ASSUME NEW links, LinksSecured(t, links)
      PROVE  LinksSecured(t, links)'
  BY <1>1, <1>3 DEF LinksSecured
<1>4. ASSUME s.op \in FetchedOps, FetchedKnown(t, s)
      PROVE  FetchedKnown(t, s)'
  <2>1. Suggested(s.row.id) \in claims[t]
    BY <1>4 DEF FetchedKnown
  <2>2. Undecided(s.row.id) => Undecided(s.row.id)'
    BY <2>1 DEF Undecided, Undisturbed
  <2>3. s.row.id \in Nat
    BY <1>4 DEF FetchedOps, Statement, FetchedStatement, ByIdStatement, AcceptStatement,
                SharedStatement, DeletionStatement, SubmitStatement, WordSuggestionRow, Id
  <2>4. /\ db.seq["word_suggestions"] \in Nat
        /\ db'.seq["word_suggestions"] \in Nat
    BY DEF TypeOK, Database, AutoIncrement
  <2>5. s.row.id <= db'.seq["word_suggestions"]
    BY <1>4, <2>3, <2>4 DEF FetchedKnown, Undisturbed
  <2>6. QED
    BY <1>1, <1>2, <1>3, <1>4, <2>1, <2>2, <2>5 DEF FetchedKnown, Undisturbed
<1>5. s.op \in FetchedOps => FetchedKnown(t, s)'
  BY <1>4 DEF Sure
<1>6. /\ s.op = "accept_examples" => ExamplesSecured(t, s.rows)'
      /\ s.op = "accept_links" => LinksSecured(t, s.rows)'
      /\ s.op = "accept_link" => LinksSecured(t, {s.link})'
  BY <1>2, <1>3 DEF Sure
<1>7. /\ s.op = "fetch_alone" => Suggested(s.id) \in claims'[t]
      /\ s.op = "fetch_word_deletion" => s.shown \in pages'.word
      /\ s.op = "delete_word" => Existing(s.id) \in claims'[t] /\ s.id = s.shown
      /\ s.op = "delete_example" => <<"example", s.id>> \in claims'[t]
      /\ s.op = "delete_link" => <<"link", s.id>> \in claims'[t]
  BY DEF Sure, Undisturbed
<1>8. QED
  BY <1>5, <1>6, <1>7 DEF Sure

\* Whatever a step is about that another request is about too is excused.
LEMMA OverlapsExcused ==
    ASSUME TypeOK, NEW t \in Threads, Acts(t)
    PROVE  /\ Excused \subseteq Excused'
           /\ pages.word \subseteq pages'.word
           /\ \A u \in Threads \ {t} : claims[u] \cap claims'[t] \subseteq Excused'
<1>1. \A u \in Threads \ {t} : claims'[u] \cap claims'[t] \subseteq overlapped'
  <2>1. ASSUME NEW u \in Threads \ {t}
        PROVE  claims'[u] \cap claims'[t] \subseteq overlapped'
    <3>1. <<u, t>> \in TwoThreads
      BY DEF TwoThreads
    <3>2. \A p \in TwoThreads : claims'[p[1]] \cap claims'[p[2]] \subseteq overlapped'
      BY DEF Acts, Observe
    <3>3. QED
      BY <3>1, <3>2
  <2>2. QED
    BY <2>1
<1>2. QED
  BY <1>1 DEF Acts, Observe, Excused, TypeOK

\* A step that is lawful disturbs no other thread.
LEMMA OthersUndisturbed ==
    ASSUME TypeOK, NEW t \in Threads, Acts(t), Lawful(t), NEW u \in Threads \ {t}
    PROVE  Undisturbed(u)
<1>1. claims'[u] = claims[u]
  BY DEF Acts
<1>2. claims[u] \cap Entries(db) \subseteq Entries(db') \cup Excused'
  BY OverlapsExcused DEF Lawful, EntriesLawful
<1>3. \A p \in origin' \ origin : Suggested(p[2]) \in claims'[t]
  BY DEF Lawful, OriginLawful
<1>4. db.seq["word_suggestions"] <= db'.seq["word_suggestions"]
  BY DEF Lawful, SequencesGrow, AutoIncrement
<1>5. QED
  BY <1>1, <1>2, <1>3, <1>4, OverlapsExcused DEF Undisturbed

\* Every other thread goes on knowing what it has to.
LEMMA ThreadsStayKnown ==
    ASSUME TypeOK, ThreadsKnown, TypeOK', NEW t \in Threads,
           Acts(t), Lawful(t), Prepared(t)
    PROVE  ThreadsKnown'
<1>1. ASSUME NEW u \in Threads \ {t}
      PROVE  Shaped(todo'[u]) /\ \A s \in Statements(todo'[u]) : Sure(u, s)'
  <2>1. todo'[u] = todo[u] /\ todo[u] \in Seq(Statement)
    BY DEF Acts, TypeOK
  <2>2. Shaped(todo[u]) /\ \A s \in Statements(todo[u]) : Sure(u, s)
    BY DEF ThreadsKnown
  <2>3. Statements(todo[u]) \subseteq Statement
    BY <2>1, StatementsOf
  <2>4. QED
    BY <2>1, <2>2, <2>3, OthersUndisturbed, SureStays
<1>2. QED
  BY <1>1 DEF Prepared, ThreadsKnown

\* The sequences and the last ids are numbers.
LEMMA LastIdType ==
    ASSUME TypeOK, NEW table \in AutoIncrement, NEW ref
    PROVE  db.seq[table] \in Nat /\ LastId(db, ref) \in Nat
BY DEF TypeOK, Database, AutoIncrement, LastId

\* The last ids only grow.
LEMMA LastIdGrows ==
    ASSUME TypeOK, TypeOK', SequencesGrow, NEW ref, NEW i \in Nat, i <= LastId(db, ref)
    PROVE  i <= LastId(db', ref)
<1>1. \A table \in AutoIncrement :
          /\ db.seq[table] \in Nat /\ db'.seq[table] \in Nat
          /\ db.seq[table] <= db'.seq[table]
  BY DEF TypeOK, Database, SequencesGrow
<1>2. {"words", "examples", "linked_words"} \subseteq AutoIncrement
  BY DEF AutoIncrement
<1>3. QED
  BY <1>1, <1>2 DEF LastId

\* No table gives out an id twice.
LEMMA IdsStayPassed ==
    ASSUME TypeOK, IdsPassed, PagesKnown, TypeOK', NEW t \in Threads, Acts(t), Lawful(t)
    PROVE  IdsPassed'
<1>1. ASSUME NEW ref \in Entries(db') \cup gone'
      PROVE  ref[2] <= LastId(db', ref)
  <2>1. CASE ref \in Entries(db) \cup gone
    <3>1. ref[2] \in Nat
      BY <2>1, EntriesType DEF TypeOK, Claim, Id
    <3>2. QED
      BY <2>1, <3>1, LastIdGrows DEF IdsPassed, Lawful
  <2>2. CASE ref \notin Entries(db) \cup gone
    BY <2>2 DEF Acts, Observe, Lawful, EntriesLawful
  <2>3. QED
    BY <2>1, <2>2
<1>2. \A r \in db'.word_suggestions : r.id <= db'.seq["word_suggestions"]
  BY DEF Lawful, SuggestionsLawful
<1>3. /\ db.seq["word_suggestions"] \in Nat /\ db'.seq["word_suggestions"] \in Nat
      /\ db.seq["word_suggestions"] <= db'.seq["word_suggestions"]
      /\ db.seq["word_deletion_suggestions"] \in Nat
      /\ db'.seq["word_deletion_suggestions"] \in Nat
      /\ db.seq["word_deletion_suggestions"] <= db'.seq["word_deletion_suggestions"]
  BY DEF Lawful, SequencesGrow, AutoIncrement, TypeOK, Database
<1>4. ASSUME NEW p \in origin'
      PROVE  p[2] <= db'.seq["word_suggestions"]
  <2>1. p[2] \in Nat
    BY DEF TypeOK, Id
  <2>2. p[2] <= db.seq["word_suggestions"]
    BY DEF IdsPassed, Lawful, OriginLawful
  <2>3. QED
    BY <1>3, <2>1, <2>2
<1>5. ASSUME NEW r \in pages'.word
      PROVE  r.id <= db'.seq["word_deletion_suggestions"]
  <2>1. r.id \in Nat
    BY DEF TypeOK, WordDeletionRow, Id
  <2>2. CASE r \in pages.word
    BY <1>3, <2>1, <2>2 DEF IdsPassed
  <2>3. CASE r \notin pages.word
    <3>1. r \in db'.word_deletion_suggestions
      BY <2>3 DEF Acts, Observe, Listed
    <3>2. r \notin db.word_deletion_suggestions
      BY <2>3 DEF PagesKnown
    <3>3. QED
      BY <3>1, <3>2 DEF Lawful, DeletionsLawful
  <2>4. QED
    BY <2>2, <2>3
<1>6. QED
  BY <1>1, <1>2, <1>4, <1>5 DEF IdsPassed

\* A page goes on showing deletion suggestions as they are.
LEMMA PagesStayKnown ==
    ASSUME TypeOK, IdsPassed, PagesKnown, TypeOK', NEW t \in Threads, Acts(t), Lawful(t)
    PROVE  PagesKnown'
<1> DEFINE new == db'.word_deletion_suggestions \ db.word_deletion_suggestions
<1>1. pages'.word = pages.word \cup db'.word_deletion_suggestions
  BY DEF Acts, Observe, Listed
<1>2. /\ \A r \in new : r.id > db.seq["word_deletion_suggestions"]
      /\ \A q, r \in new : q = r
  BY DEF Lawful, DeletionsLawful
<1>3. pages'.word = pages.word \cup new
  BY <1>1 DEF PagesKnown
<1>4. \A q \in pages.word, r \in new : q.id # r.id
  <2>1. \A q \in pages.word : q.id \in Nat /\ q.id <= db.seq["word_deletion_suggestions"]
    BY DEF IdsPassed, TypeOK, WordDeletionRow, Id
  <2>2. \A r \in new : r.id \in Nat
    BY DEF TypeOK, Database, WordDeletionRow, Id
  <2>3. db.seq["word_deletion_suggestions"] \in Nat
    BY DEF TypeOK, Database, AutoIncrement
  <2>4. QED
    BY <1>2, <2>1, <2>2, <2>3
<1> HIDE DEF new
<1>5. Keyed(pages'.word)
  BY <1>2, <1>3, <1>4 DEF PagesKnown, Keyed
<1>6. QED
  BY <1>1, <1>5 DEF PagesKnown

\* A suggestion that a word came of is still gone, or still to be deleted.
LEMMA OriginsStayKnown ==
    ASSUME TypeOK, IdsPassed, OriginsKnown, TypeOK', NEW t \in Threads,
           Acts(t), Lawful(t), Prepared(t)
    PROVE  OriginsKnown'
<1>1. ASSUME NEW p \in origin', p \notin origin
      PROVE  WillDelete(t, p[2])'
  BY <1>1 DEF Lawful, OriginLawful
<1>2. ASSUME NEW p \in origin
      PROVE  \/ Suggested(p[2]) \in Excused'
             \/ p[2] \notin Ids(db'.word_suggestions)
             \/ \E u \in Threads : WillDelete(u, p[2])'
  <2>1. CASE Suggested(p[2]) \in Excused
    BY <2>1, OverlapsExcused
  <2>2. CASE p[2] \notin Ids(db.word_suggestions)
    <3>1. p[2] \in Nat /\ p[2] <= db.seq["word_suggestions"]
      BY DEF TypeOK, Id, IdsPassed
    <3>2. db.seq["word_suggestions"] \in Nat
      BY DEF TypeOK, Database, AutoIncrement
    <3>3. ~(p[2] > db.seq["word_suggestions"])
      BY <3>1, <3>2
    <3>4. QED
      BY <2>2, <3>3 DEF Lawful, SuggestionsLawful, Ids
  <2>3. CASE \E u \in Threads \ {t} : WillDelete(u, p[2])
    BY <2>3 DEF WillDelete, Acts
  <2>4. CASE WillDelete(t, p[2])
    BY <2>4 DEF Prepared, TypeOK
  <2>5. QED
    BY <2>1, <2>2, <2>3, <2>4 DEF OriginsKnown
<1>3. QED
  BY <1>1, <1>2 DEF OriginsKnown

\* No second word comes of a suggestion.
LEMMA OneWordStays ==
    ASSUME TypeOK, OneWordPerSuggestion, NEW t \in Threads, Acts(t), Lawful(t)
    PROVE  OneWordPerSuggestion'
<1>1. Excused \subseteq Excused'
  BY OverlapsExcused
<1>2. CASE origin' = origin
  BY <1>1, <1>2 DEF OneWordPerSuggestion
<1>3. CASE origin' # origin
  <2>1. PICK w \in Id, s \in Id : origin' = origin \cup {<<w, s>>} /\ Undecided(s)
    BY <1>3 DEF Lawful, OriginLawful
  <2>2. Suggested(s) \in Excused' \/ \A p \in origin : p[2] # s
    BY <1>1, <2>1 DEF Undecided
  <2>3. QED
    BY <1>1, <2>1, <2>2 DEF OneWordPerSuggestion
<1>4. QED
  BY <1>2, <1>3

\* Nothing that was deleted before returns.
LEMMA NothingReturns ==
    ASSUME TypeOK, IdsPassed, NothingDeletedReturns, NEW t \in Threads, Acts(t), Lawful(t)
    PROVE  NothingDeletedReturns'
<1>1. ASSUME NEW ref \in Entries(db'), ref \in gone'
      PROVE  ref \in Excused'
  <2>1. ref \in gone
    BY <1>1 DEF Acts, Observe
  <2>2. CASE ref \in Entries(db)
    BY <2>1, <2>2, OverlapsExcused DEF NothingDeletedReturns
  <2>3. CASE ref \notin Entries(db)
    <3>1. ref[2] \in Nat /\ ref[2] <= LastId(db, ref)
      BY <2>1 DEF TypeOK, Claim, Id, IdsPassed
    <3>2. LastId(db, ref) \in Nat
      BY LastIdType DEF AutoIncrement
    <3>3. ~(ref[2] > LastId(db, ref))
      BY <3>1, <3>2
    <3>4. QED
      BY <1>1, <2>3, <3>3 DEF Lawful, EntriesLawful
  <2>4. QED
    BY <2>2, <2>3
<1>2. QED
  BY <1>1 DEF NothingDeletedReturns

\* So a step that is lawful, of a thread that is prepared, keeps what was decided.
LEMMA StepDecided ==
    ASSUME IInv, TypeOK', NEW t \in Threads, Acts(t), Lawful(t), Prepared(t)
    PROVE  Decided'
<1>1. ThreadsKnown' /\ OriginsKnown'
  BY ThreadsStayKnown, OriginsStayKnown DEF IInv, Decided
<1>2. IdsPassed' /\ PagesKnown'
  BY IdsStayPassed, PagesStayKnown DEF IInv, Decided
<1>3. OneWordPerSuggestion' /\ NothingDeletedReturns'
  BY OneWordStays, NothingReturns DEF IInv, Decided
<1>4. QED
  BY <1>1, <1>2, <1>3 DEF Decided

-----------------------------------------------------------------------------
(* Steps that bring and take nothing *)

\* They are lawful.
LEMMA QuietLawful ==
    ASSUME TypeOK, IdsPassed, TypeOK', NEW t \in Threads, Quiet
    PROVE  Lawful(t)
<1>1. EntriesLawful(t) /\ DeletionsLawful /\ OriginLawful(t)
  BY DEF Quiet, EntriesLawful, DeletionsLawful, OriginLawful
<1>2. ASSUME NEW r \in db'.word_suggestions
      PROVE  r \in db.word_suggestions /\ r.id <= db'.seq["word_suggestions"]
  <2>1. r \in db.word_suggestions
    BY DEF Quiet
  <2>2. r.id \in Nat /\ r.id <= db.seq["word_suggestions"]
    BY <2>1 DEF IdsPassed, TypeOK, Database, WordSuggestionRow, Id
  <2>3. /\ db.seq["word_suggestions"] \in Nat /\ db'.seq["word_suggestions"] \in Nat
        /\ db.seq["word_suggestions"] <= db'.seq["word_suggestions"]
    BY DEF Quiet, SequencesGrow, AutoIncrement, TypeOK, Database
  <2>4. QED
    BY <2>1, <2>2, <2>3
<1>3. SuggestionsLawful
  BY <1>2 DEF SuggestionsLawful, Ids
<1>4. QED
  BY <1>1, <1>3 DEF Lawful, Quiet

\* One that leaves the tables alone is such a step.
LEMMA UnchangedQuiet ==
    ASSUME TypeOK, UNCHANGED <<db, origin>>
    PROVE  Quiet
BY DEF Quiet, SequencesGrow, TypeOK, Database

\* Where a thread is tells what comes after.
LEMMA ProgramAt ==
    ASSUME TypeOK, ThreadsKnown, NEW t \in Threads, NEW op, At(t, op)
    PROVE  /\ todo[t] \in Seq(Statement) /\ todo[t] # <<>>
           /\ Tail(todo[t]) \in Seq(Statement)
           /\ Current(t) \in Statement /\ Current(t).op = op /\ Sure(t, Current(t))
           /\ Statements(todo[t]) = {Current(t)} \cup Statements(Tail(todo[t]))
<1>1. todo[t] \in Seq(Statement) /\ todo[t] # <<>>
  BY DEF At, TypeOK
<1>2. Tail(todo[t]) \in Seq(Statement) /\ Current(t) \in Statement
  BY <1>1 DEF Current
<1>3. Len(todo[t]) >= 1 /\ todo[t][1] = Current(t)
  BY <1>1 DEF Current
<1>4. /\ Len(Tail(todo[t])) = Len(todo[t]) - 1
      /\ \A i \in 1 .. Len(Tail(todo[t])) : Tail(todo[t])[i] = todo[t][i + 1]
  BY <1>1
<1>5. Current(t) \in Statements(todo[t]) /\ Statements(Tail(todo[t])) \subseteq Statements(todo[t])
  BY <1>1, <1>3, StatementsOf DEF Statements
<1>6. ASSUME NEW i \in 1 .. Len(todo[t]), i # 1
      PROVE  todo[t][i] \in Statements(Tail(todo[t]))
  <2>1. i - 1 \in 1 .. Len(Tail(todo[t])) /\ (i - 1) + 1 = i
    BY <1>1, <1>4, <1>6
  <2>2. QED
    BY <1>4, <2>1 DEF Statements
<1>7. Statements(todo[t]) \subseteq {Current(t)} \cup Statements(Tail(todo[t]))
  BY <1>3, <1>6 DEF Statements
<1>8. Current(t).op = op
  BY DEF At, Current
<1>9. QED
  BY <1>1, <1>2, <1>5, <1>7, <1>8 DEF ThreadsKnown

\* So does what kind of statement it is.
LEMMA ShapeAt ==
    ASSUME TypeOK, ThreadsKnown, NEW t \in Threads, NEW op, At(t, op)
    PROVE  /\ op \in FirstOps => Tail(todo[t]) = <<>>
           /\ op \in DeleteOps => Len(Tail(todo[t])) = 1 /\ Issues(Tail(todo[t]), SharedOps)
           /\ op \in AcceptanceOps \ SharedOps => Issues(todo[t], AcceptanceOps)
           /\ op \in SubmissionOps \ SharedOps => Issues(todo[t], SubmissionOps)
           /\ op \in SharedOps =>
                 Issues(todo[t], AcceptanceOps) \/ Issues(todo[t], SubmissionOps)
<1>1. /\ todo[t] \in Seq(Statement) /\ todo[t] # <<>>
      /\ Current(t) \in Statements(todo[t]) /\ Current(t).op = op
      /\ todo[t][1] = Current(t)
  BY ProgramAt DEF Current
<1>2. Shaped(todo[t])
  BY DEF ThreadsKnown
<1>3. CASE Issues(todo[t], AcceptanceOps)
  <2>1. op \in AcceptanceOps
    BY <1>1, <1>3 DEF Issues
  <2>2. QED
    BY <1>3, <2>1 DEF AcceptanceOps, SubmissionOps, FirstOps, FetchedOps, DeleteOps, SharedOps
<1>4. CASE Issues(todo[t], SubmissionOps)
  <2>1. op \in SubmissionOps
    BY <1>1, <1>4 DEF Issues
  <2>2. QED
    BY <1>4, <2>1 DEF AcceptanceOps, SubmissionOps, FirstOps, FetchedOps, DeleteOps, SharedOps
<1>5. CASE Len(todo[t]) = 1 /\ todo[t][1].op \in FirstOps
  <2>1. op \in FirstOps
    BY <1>1, <1>5
  <2>2. Tail(todo[t]) = <<>>
    <3>1. Tail(todo[t]) \in Seq(Statement)
      BY ProgramAt
    <3>2. Len(Tail(todo[t])) = 0
      BY <1>1, <1>5
    <3>3. QED
      BY <3>1, <3>2, EmptySeq
  <2>3. QED
    BY <2>1, <2>2 DEF AcceptanceOps, SubmissionOps, FirstOps, FetchedOps, DeleteOps, SharedOps
<1>6. CASE Len(todo[t]) = 2 /\ todo[t][1].op \in DeleteOps /\ todo[t][2].op \in SharedOps
  <2>1. op \in DeleteOps
    BY <1>1, <1>6
  <2>2. Len(Tail(todo[t])) = 1 /\ Tail(todo[t])[1] = todo[t][2]
    BY <1>1, <1>6
  <2>3. Issues(Tail(todo[t]), SharedOps)
    BY <1>6, <2>2 DEF Issues, Statements
  <2>4. QED
    BY <2>1, <2>2, <2>3
       DEF AcceptanceOps, SubmissionOps, FirstOps, FetchedOps, DeleteOps, SharedOps
<1>7. QED
  BY <1>2, <1>3, <1>4, <1>5, <1>6 DEF Shaped

\* Only the acceptance of a word is going to delete its suggestion.
LEMMA NoDeleteAhead ==
    ASSUME TypeOK, ThreadsKnown, NEW t \in Threads, NEW op, At(t, op),
           op \notin AcceptanceOps, NEW s
    PROVE  ~WillDelete(t, s)
<1>1. /\ Statements(todo[t]) = {Current(t)} \cup Statements(Tail(todo[t]))
      /\ Current(t).op = op /\ todo[t] \in Seq(Statement)
  BY ProgramAt
<1>2. \A x \in Statements(Tail(todo[t])) : x.op # "delete_word_suggestion"
  <2>1. Statements(<<>>) = {}
    BY DEF Statements
  <2>2. op \in FirstOps \cup DeleteOps \cup (SubmissionOps \ SharedOps)
    <3>1. Current(t) \in Statements(todo[t])
      BY <1>1
    <3>2. Shaped(todo[t]) /\ todo[t][1] = Current(t)
      BY ProgramAt DEF ThreadsKnown, Current
    <3>3. QED
      BY <1>1, <3>1, <3>2 DEF Shaped, Issues, AcceptanceOps, SubmissionOps
  <2>3. QED
    BY <1>1, <2>1, <2>2, ShapeAt DEF Issues, SharedOps, SubmissionOps
<1>3. QED
  BY <1>1, <1>2 DEF WillDelete, AcceptanceOps

\* A thread that has stopped knows what it has to.
LEMMA Stopped ==
    ASSUME NEW t \in Threads, todo'[t] = <<>>,
           \A s \in Id : WillDelete(t, s) => Suggested(s) \in Excused'
    PROVE  Prepared(t)
<1>1. Statements(todo'[t]) = {}
  BY DEF Statements
<1>2. QED
  BY <1>1 DEF Prepared, Shaped, Issues

\* A panic excuses what the thread was about.
LEMMA PanicDecided ==
    ASSUME IInv, TypeOK', NEW t \in Threads, Panic(t)
    PROVE  Decided'
<1>1. /\ UNCHANGED <<db, origin>> /\ Acts(t) /\ todo'[t] = <<>>
      /\ broken' = broken \cup claims[t]
  BY DEF Panic, Stop, Acts, IInv, TypeOK
<1>2. \A s \in Id : WillDelete(t, s) => Suggested(s) \in Excused'
  BY <1>1 DEF WillDelete, Excused
<1>3. QED
  BY <1>1, <1>2, Stopped, UnchangedQuiet, QuietLawful, StepDecided DEF IInv, Decided

\* An unwrap of nothing excuses nothing: there is nothing the thread was going
\* to delete.
LEMMA RefuseDecided ==
    ASSUME IInv, TypeOK', NEW t \in Threads, NEW op, At(t, op), op \notin AcceptanceOps,
           Refuse(t)
    PROVE  Decided'
<1>1. UNCHANGED <<db, origin>> /\ Acts(t) /\ todo'[t] = <<>>
  BY DEF Refuse, Stop, Acts, IInv, TypeOK
<1>2. \A s : ~WillDelete(t, s)
  BY NoDeleteAhead DEF IInv, Decided
<1>3. QED
  BY <1>1, <1>2, Stopped, UnchangedQuiet, QuietLawful, StepDecided DEF IInv, Decided

\* What a thread has left when it is done with a statement.
LEMMA Continued ==
    ASSUME TypeOK, NEW t \in Threads, todo[t] # <<>>, NEW X, NEW statements \in Seq(X),
           NEW about, Continue(t, statements, about)
    PROVE  /\ \A u \in Threads \ {t} : todo'[u] = todo[u] /\ claims'[u] = claims[u]
           /\ todo'[t] # <<>> => claims'[t] = claims[t] \cup about
           /\ Statements(todo'[t]) = Statements(statements) \cup Statements(Tail(todo[t]))
           /\ Statements(statements) \subseteq X
           /\ todo'[t] = <<>> => Statements(todo'[t]) = {}
<1>1. /\ \A u \in Threads \ {t} : todo'[u] = todo[u] /\ claims'[u] = claims[u]
      /\ todo'[t] = statements \o Tail(todo[t])
      /\ todo'[t] # <<>> => claims'[t] = claims[t] \cup about
  BY DEF Continue, TypeOK
<1>2. Tail(todo[t]) \in Seq(Statement)
  BY DEF TypeOK
<1>3. Statements(<<>>) = {}
  BY DEF Statements
<1>4. Statements(statements) \subseteq X
  BY StatementsOf
<1>5. Statements(statements \o Tail(todo[t])) = Statements(statements) \cup Statements(Tail(todo[t]))
  <2> DEFINE rest == Tail(todo[t])
  <2>1. rest \in Seq(Statement)
    BY <1>2
  <2> HIDE DEF rest
  <2>2. Statements(statements \o rest) = Statements(statements) \cup Statements(rest)
    BY <2>1, StatementsOfBoth
  <2>3. QED
    BY <2>2 DEF rest
<1>6. Statements(todo'[t]) = Statements(statements) \cup Statements(Tail(todo[t]))
  BY <1>1, <1>5
<1>7. todo'[t] = <<>> => Statements(todo'[t]) = {}
  BY <1>3
<1>8. QED
  BY <1>1, <1>4, <1>6, <1>7

\* An acceptance or a submission goes on with statements of its kind that name
\* rows it is sure of.
LEMMA GoesOn ==
    ASSUME IInv, TypeOK', NEW t \in Threads,
           NEW op \in AcceptanceOps \cup SubmissionOps, At(t, op),
           NEW X, NEW statements \in Seq(X), NEW about, Continue(t, statements, about),
           broken \subseteq broken', Observe, Lawful(t),
           Entries(db) \subseteq Entries(db'), origin' = origin,
           \A x \in X : Sure(t, x),
           op \in AcceptanceOps \ SharedOps => \A x \in X : x.op \in AcceptanceOps,
           op \in SubmissionOps \ SharedOps => \A x \in X : x.op \in SubmissionOps,
           op \in SharedOps => X = {},
           op = "delete_word_suggestion" => Current(t).id \notin Ids(db'.word_suggestions)
    PROVE  Decided'
<1>1. TypeOK /\ ThreadsKnown
  BY DEF IInv, Decided
<1>2. /\ todo[t] # <<>> /\ Current(t).op = op /\ todo[t] \in Seq(Statement)
      /\ Statements(todo[t]) = {Current(t)} \cup Statements(Tail(todo[t]))
  BY <1>1, ProgramAt
<1>3. /\ \A u \in Threads \ {t} : todo'[u] = todo[u] /\ claims'[u] = claims[u]
      /\ todo'[t] # <<>> => claims'[t] = claims[t] \cup about
      /\ Statements(todo'[t]) = Statements(statements) \cup Statements(Tail(todo[t]))
      /\ Statements(statements) \subseteq X
      /\ todo'[t] = <<>> => Statements(todo'[t]) = {}
  BY <1>1, <1>2, Continued
<1>4. Acts(t)
  BY <1>3 DEF Acts
<1>5. Shaped(todo'[t])
  <2>1. Issues(todo'[t], AcceptanceOps) \/ Issues(todo'[t], SubmissionOps)
    BY <1>1, <1>2, <1>3, ShapeAt DEF Issues
  <2>2. QED
    BY <2>1 DEF Shaped
<1>6. ASSUME NEW s \in Statements(todo'[t])
      PROVE  Sure(t, s)'
  <2>1. Sure(t, s)
    BY <1>1, <1>2, <1>3 DEF ThreadsKnown
  <2>2. Undisturbed(t)
    <3>1. claims[t] \subseteq claims'[t]
      BY <1>3
    <3>2. db.seq["word_suggestions"] <= db'.seq["word_suggestions"]
      BY DEF Lawful, SequencesGrow, AutoIncrement
    <3>3. QED
      BY <1>1, <1>4, <3>1, <3>2, OverlapsExcused DEF Undisturbed
  <2>3. s \in Statement
    <3>1. todo'[t] \in Seq(Statement)
      BY DEF TypeOK
    <3>2. QED
      BY <3>1, StatementsOf
  <2>4. QED
    BY <1>1, <2>1, <2>2, <2>3, SureStays
<1>7. ASSUME NEW s \in Id, WillDelete(t, s)
      PROVE  WillDelete(t, s)' \/ s \notin Ids(db'.word_suggestions)
  <2> DEFINE d == [op |-> "delete_word_suggestion", id |-> s]
  <2>1. CASE d = Current(t)
    BY <1>2, <2>1
  <2>2. CASE d \in Statements(Tail(todo[t]))
    BY <1>3, <1>7, <2>2 DEF WillDelete
  <2>3. QED
    BY <1>2, <1>7, <2>1, <2>2 DEF WillDelete
<1>8. Prepared(t)
  BY <1>5, <1>6, <1>7 DEF Prepared
<1>9. QED
  BY <1>4, <1>8, StepDecided

\* A request that has read all it needs goes on with what it read.
LEMMA BeginsWith ==
    ASSUME IInv, TypeOK', NEW t \in Threads, NEW op \in FirstOps, At(t, op),
           NEW X, NEW statements \in Seq(X), NEW about, Continue(t, statements, about),
           broken \subseteq broken', Observe, Lawful(t), Shaped(statements),
           claims'[t] = claims[t] \cup about => \A x \in X : Sure(t, x)'
    PROVE  Decided'
<1>1. TypeOK /\ ThreadsKnown
  BY DEF IInv, Decided
<1>2. todo[t] # <<>> /\ Tail(todo[t]) = <<>>
  BY <1>1, ProgramAt, ShapeAt
<1>3. /\ \A u \in Threads \ {t} : todo'[u] = todo[u] /\ claims'[u] = claims[u]
      /\ todo'[t] # <<>> => claims'[t] = claims[t] \cup about
      /\ Statements(todo'[t]) = Statements(statements) \cup Statements(Tail(todo[t]))
      /\ Statements(statements) \subseteq X
      /\ todo'[t] = <<>> => Statements(todo'[t]) = {}
  BY <1>1, <1>2, Continued
<1>4. Acts(t)
  BY <1>3 DEF Acts
<1>5. todo'[t] = statements
  BY <1>1, <1>2, ConcatEmptySeq DEF Continue, TypeOK
<1>6. \A s \in Statements(todo'[t]) : Sure(t, s)'
  BY <1>3, <1>5
<1>7. \A s : ~WillDelete(t, s)
  <2>1. op \notin AcceptanceOps
    BY DEF FirstOps, FetchedOps, AcceptanceOps, SharedOps
  <2>2. QED
    BY <1>1, <2>1, NoDeleteAhead
<1>8. Prepared(t)
  BY <1>5, <1>6, <1>7 DEF Prepared
<1>9. QED
  BY <1>4, <1>8, StepDecided

\* Most statements name no row that has to be there.
LEMMA Inert ==
    ASSUME NEW t \in Threads, NEW s, s.op \in InertOps
    PROVE  Sure(t, s) /\ Sure(t, s)'
BY DEF Sure, InertOps, SubmissionOps, SharedOps, FetchedOps

\* A write that brings nothing but new ids keeps what was decided.
LEMMA WriteDecided ==
    ASSUME IInv, TypeOK', NEW t \in Threads,
           NEW op \in AcceptanceOps \cup SubmissionOps, At(t, op),
           NEW X, NEW statements \in Seq(X), NEW allowed, NEW after,
           Write(t, allowed, after, statements), allowed => Mild(after),
           \A x \in X : Sure(t, x),
           op \in AcceptanceOps \ SharedOps => \A x \in X : x.op \in AcceptanceOps,
           op \in SubmissionOps \ SharedOps => \A x \in X : x.op \in SubmissionOps,
           op \in SharedOps => X = {},
           op = "delete_word_suggestion" => Current(t).id \notin Ids(after.word_suggestions)
    PROVE  Decided'
<1>1. CASE allowed
  <2> DEFINE about == Entries(db) \ Entries(after)
  <2>1. /\ db' = after /\ Continue(t, statements, about) /\ Observe
        /\ UNCHANGED <<origin, broken>>
    BY <1>1 DEF Write
  <2>2. Mild(db')
    BY <1>1, <2>1
  <2> HIDE DEF about
  <2>3. TypeOK /\ ThreadsKnown /\ IdsPassed /\ todo[t] # <<>>
    BY DEF IInv, Decided, At
  <2>4. Acts(t)
    BY <2>1, <2>3, Continued DEF Acts
  <2>5. SequencesGrow /\ DeletionsLawful /\ OriginLawful(t)
    BY <2>1, <2>2 DEF Mild, SequencesGrow, DeletionsLawful, OriginLawful
  <2>6. EntriesLawful(t)
    BY <2>2, <2>3, <2>4, OverlapsExcused DEF Mild, EntriesLawful
  <2>7. SuggestionsLawful
    <3>1. ASSUME NEW r \in db'.word_suggestions
          PROVE  r \in db.word_suggestions /\ r.id <= db'.seq["word_suggestions"]
      <4>1. r \in db.word_suggestions
        BY <2>2 DEF Mild
      <4>2. r.id \in Nat /\ r.id <= db.seq["word_suggestions"]
        BY <2>3, <4>1 DEF IdsPassed, TypeOK, Database, WordSuggestionRow, Id
      <4>3. /\ db.seq["word_suggestions"] \in Nat /\ db'.seq["word_suggestions"] \in Nat
            /\ db.seq["word_suggestions"] <= db'.seq["word_suggestions"]
        BY <2>3, <2>5 DEF SequencesGrow, AutoIncrement, TypeOK, Database
      <4>4. QED
        BY <4>1, <4>2, <4>3
    <3>2. QED
      BY <3>1 DEF SuggestionsLawful, Ids
  <2>8. Lawful(t)
    BY <2>5, <2>6, <2>7 DEF Lawful
  <2>9. Entries(db) \subseteq Entries(db') /\ broken \subseteq broken' /\ origin' = origin
    BY <2>1, <2>2 DEF Mild
  <2>10. QED
    BY <2>1, <2>8, <2>9, GoesOn
<1>2. CASE ~allowed
  BY <1>2, PanicDecided DEF Write
<1>3. QED
  BY <1>1, <1>2

\* So does one that leaves the words, the examples and the links as they are.
LEMMA LeavesMild ==
    ASSUME NEW d,
           \A table \in AutoIncrement : db.seq[table] <= d.seq[table],
           d.words = db.words, d.examples = db.examples, d.linked_words = db.linked_words,
           d.word_suggestions \subseteq db.word_suggestions,
           d.word_deletion_suggestions \subseteq db.word_deletion_suggestions
    PROVE  Mild(d)
BY DEF Mild, Entries

\* What a submission reads decides nothing.
LEMMA ReadGoesOn ==
    ASSUME IInv, TypeOK', NEW t \in Threads, NEW op \in SubmissionOps \ SharedOps, At(t, op),
           NEW X, NEW statements, NEW found, NEW about, Read(t, found, statements, about),
           found => statements \in Seq(X) /\ \A x \in X : x.op \in SubmissionOps
    PROVE  Decided'
<1>1. CASE found
  <2>1. /\ Continue(t, statements, about) /\ Observe /\ UNCHANGED <<db, origin, broken>>
        /\ statements \in Seq(X) /\ \A x \in X : x.op \in SubmissionOps
    BY <1>1 DEF Read
  <2>2. Lawful(t)
    BY <2>1, UnchangedQuiet, QuietLawful DEF IInv, Decided
  <2>3. \A x \in X : Sure(t, x)
    BY <2>1, Inert DEF InertOps
  <2>4. op \notin AcceptanceOps /\ op # "delete_word_suggestion"
    BY DEF AcceptanceOps, SubmissionOps, SharedOps
  <2>5. QED
    BY <2>1, <2>2, <2>3, <2>4, GoesOn
<1>2. CASE ~found
  <2>1. op \notin AcceptanceOps
    BY DEF AcceptanceOps, SubmissionOps, SharedOps
  <2>2. QED
    BY <1>2, <2>1, RefuseDecided DEF Read
<1>3. QED
  BY <1>1, <1>2

\* What a decision reads, it is sure of.
LEMMA ReadBegins ==
    ASSUME IInv, TypeOK', NEW t \in Threads, NEW op \in FirstOps, At(t, op),
           NEW X, NEW statements, NEW found, NEW about, Read(t, found, statements, about),
           found => statements \in Seq(X) /\ Shaped(statements),
           found /\ HasRead(t, about) => \A x \in X : Sure(t, x)'
    PROVE  Decided'
<1>1. CASE found
  <2>1. /\ Continue(t, statements, about) /\ Observe /\ UNCHANGED <<db, origin, broken>>
        /\ statements \in Seq(X) /\ Shaped(statements)
    BY <1>1 DEF Read
  <2>2. Lawful(t)
    BY <2>1, UnchangedQuiet, QuietLawful DEF IInv, Decided
  <2>3. Excused \subseteq Excused' /\ pages.word \subseteq pages'.word
    BY <2>1 DEF Observe, Excused, IInv, TypeOK
  <2>4. Acts(t)
    BY <2>1, Continued DEF Acts, At, IInv
  <2>5. claims'[t] = claims[t] \cup about => HasRead(t, about)
    BY <2>1, <2>3, <2>4, OverlapsExcused DEF HasRead, IInv
  <2>6. QED
    BY <1>1, <2>1, <2>2, <2>5, BeginsWith
<1>2. CASE ~found
  <2>1. op \notin AcceptanceOps
    BY DEF AcceptanceOps, FirstOps, FetchedOps, SharedOps
  <2>2. QED
    BY <1>2, <2>1, RefuseDecided DEF Read
<1>3. QED
  BY <1>1, <1>2

\* A request that arrives names no row it is not about.
LEMMA ArriveDecided ==
    ASSUME IInv, TypeOK', NEW t \in Threads, NEW X, NEW statements \in Seq(X),
           NEW route, NEW about, Arrive(t, route, statements, about), Shaped(statements),
           claims'[t] = about /\ pages.word \subseteq pages'.word => \A x \in X : Sure(t, x)'
    PROVE  Decided'
<1>1. TypeOK /\ IdsPassed
  BY DEF IInv, Decided
<1>2. /\ UNCHANGED <<db, origin, broken>> /\ Observe
      /\ todo[t] = <<>> /\ todo'[t] = statements /\ claims'[t] = about
  BY <1>1 DEF Arrive, Idle, TypeOK
<1>3. Acts(t)
  BY <1>1, <1>2 DEF Acts, Arrive, TypeOK
<1>4. pages.word \subseteq pages'.word
  BY <1>1, <1>3, OverlapsExcused
<1>5. \A s \in Statements(todo'[t]) : Sure(t, s)'
  BY <1>2, <1>4, StatementsOf
<1>6. \A s : ~WillDelete(t, s)
  BY <1>2 DEF WillDelete, Statements
<1>7. Prepared(t)
  BY <1>2, <1>5, <1>6 DEF Prepared
<1>8. QED
  BY <1>1, <1>2, <1>3, <1>7, UnchangedQuiet, QuietLawful, StepDecided

\* While the tables stay, what was decided does, if every thread stays too or
\* was stopped with what it was about excused.
LEMMA StillDecided ==
    ASSUME IInv, TypeOK', UNCHANGED <<db, origin>>, broken \subseteq broken', Observe,
           \/ UNCHANGED <<todo, claims>>
           \/ /\ todo' = [t \in Threads |-> <<>>]
              /\ \A t \in Threads : claims[t] \subseteq broken'
    PROVE  Decided'
<1>1. TypeOK /\ Decided
  BY DEF IInv
<1>2. Excused \subseteq Excused' /\ gone' = gone /\ pages'.word = pages.word
  BY <1>1 DEF Observe, Excused, Decided, PagesKnown, Listed, TypeOK
<1>3. IdsPassed' /\ PagesKnown' /\ OneWordPerSuggestion' /\ NothingDeletedReturns'
  <2>1. IdsPassed'
    BY <1>1, <1>2 DEF Decided, IdsPassed
  <2>2. PagesKnown'
    BY <1>1, <1>2 DEF Decided, PagesKnown
  <2>3. OneWordPerSuggestion' /\ NothingDeletedReturns'
    BY <1>1, <1>2 DEF Decided, OneWordPerSuggestion, NothingDeletedReturns
  <2>4. QED
    BY <2>1, <2>2, <2>3
<1>4. CASE UNCHANGED <<todo, claims>>
  <2>1. ASSUME NEW t \in Threads, NEW s \in Statements(todo[t])
        PROVE  Sure(t, s)'
    <3>1. s \in Statement
      BY <1>1, StatementsOf DEF TypeOK
    <3>2. Sure(t, s)
      BY <1>1 DEF Decided, ThreadsKnown
    <3>3. Undisturbed(t)
      BY <1>1, <1>2, <1>4 DEF Undisturbed, TypeOK, Database, AutoIncrement
    <3>4. QED
      BY <1>1, <3>1, <3>2, <3>3, SureStays
  <2>2. ThreadsKnown'
    BY <1>1, <1>4, <2>1 DEF Decided, ThreadsKnown
  <2>3. \A t \in Threads, s \in Id : WillDelete(t, s) => WillDelete(t, s)'
    BY <1>4 DEF WillDelete
  <2>4. OriginsKnown'
    BY <1>1, <1>2, <2>3 DEF Decided, OriginsKnown, TypeOK
  <2>5. QED
    BY <1>3, <2>2, <2>4 DEF Decided
<1>5. CASE /\ todo' = [t \in Threads |-> <<>>]
           /\ \A t \in Threads : claims[t] \subseteq broken'
  <2>1. \A t \in Threads : Statements(todo'[t]) = {}
    BY <1>5 DEF Statements
  <2>2. ThreadsKnown'
    BY <2>1 DEF ThreadsKnown, Shaped, Issues
  <2>3. \A t \in Threads, s \in Id : WillDelete(t, s) => Suggested(s) \in Excused'
    BY <1>5 DEF WillDelete, Excused
  <2>4. OriginsKnown'
    BY <1>1, <1>2, <2>3 DEF Decided, OriginsKnown, TypeOK
  <2>5. QED
    BY <1>3, <2>2, <2>4 DEF Decided
<1>6. QED
  BY <1>4, <1>5

-----------------------------------------------------------------------------
(* Requests *)

\* A program of one statement.
LEMMA OneStatement ==
    ASSUME NEW s, s.op \in FirstOps \cup AcceptanceOps \cup SubmissionOps
    PROVE  Shaped(<<s>>) /\ <<s>> \in Seq({s})
<1>1. Statements(<<s>>) = {s} /\ Len(<<s>>) = 1
  BY DEF Statements
<1>2. QED
  BY <1>1 DEF Shaped, Issues

\* A request with one statement.
LEMMA ArriveOne ==
    ASSUME IInv, TypeOK', NEW t \in Threads, NEW s, NEW route, NEW about,
           s.op \in FirstOps \cup AcceptanceOps \cup SubmissionOps,
           Arrive(t, route, <<s>>, about),
           \/ s.op \in InertOps
           \/ claims'[t] = about /\ pages.word \subseteq pages'.word => Sure(t, s)'
    PROVE  Decided'
<1> DEFINE X == {s}
           p == <<s>>
<1>1. Shaped(p) /\ p \in Seq(X)
  BY OneStatement
<1>2. claims'[t] = about /\ pages.word \subseteq pages'.word => \A x \in X : Sure(t, x)'
  BY Inert
<1>3. Arrive(t, route, p, about)
  OBVIOUS
<1> HIDE DEF X, p
<1>4. QED
  BY <1>1, <1>2, <1>3, ArriveDecided

\* The request to accept a suggested word is about that suggestion.
LEMMA AcceptWordArrives ==
    ASSUME IInv, TypeOK', NEW t \in Threads, accept_suggested_word(t)
    PROVE  Decided'
<1>1. PICK s \in EverGiven("word_suggestions") :
          Arrive(t, "accept_suggested_word", <<[op |-> "fetch_alone", id |-> s]>>, {Suggested(s)})
  BY DEF accept_suggested_word
<1> DEFINE x == [op |-> "fetch_alone", id |-> s]
<1>2. x.op \in FirstOps
  BY DEF FirstOps
<1>3. claims'[t] = {Suggested(s)} => Sure(t, x)'
  BY DEF Sure, FetchedOps
<1> HIDE DEF x
<1>4. Arrive(t, "accept_suggested_word", <<x>>, {Suggested(s)})
  BY <1>1 DEF x
<1>5. QED
  BY <1>2, <1>3, <1>4, ArriveOne

\* The request to reject one is the message to the index and the DELETE.
LEMMA RejectWordArrives ==
    ASSUME IInv, TypeOK', NEW t \in Threads, reject_suggested_word(t)
    PROVE  Decided'
<1>1. PICK s \in EverGiven("word_suggestions") :
          Arrive(t, "reject_suggested_word", DeleteWordSuggestion(s), {Suggested(s)})
  BY DEF reject_suggested_word
<1> DEFINE x == IndexDelete(Suggested(s))
           y == [op |-> "delete_word_suggestion", id |-> s]
<1>2. x.op = "index_delete" /\ y.op = "delete_word_suggestion"
  BY DEF IndexDelete
<1>3. DeleteWordSuggestion(s) = <<x, y>>
  BY DEF DeleteWordSuggestion
<1> HIDE DEF x, y
<1> DEFINE X == {x, y}
           p == <<x, y>>
<1>4. p \in Seq(X) /\ Shaped(p)
  BY <1>2 DEF Shaped, Issues, Statements, AcceptanceOps, SharedOps
<1>5. \A z \in X : Sure(t, z)'
  BY <1>2, Inert DEF InertOps, SubmissionOps, SharedOps
<1>6. Arrive(t, "reject_suggested_word", p, {Suggested(s)})
  BY <1>1, <1>3
<1> HIDE DEF X, p
<1>7. QED
  BY <1>4, <1>5, <1>6, ArriveDecided

\* The request to accept the deletion of a word carries what a page showed.
LEMMA AcceptDeletionArrives ==
    ASSUME IInv, TypeOK', NEW t \in Threads, accept_deletion(t)
    PROVE  Decided'
<1>1. PICK shown \in pages.word :
          Arrive(t, "accept_deletion", <<[op |-> "fetch_word_deletion", shown |-> shown]>>, {})
  BY DEF accept_deletion
<1> DEFINE x == [op |-> "fetch_word_deletion", shown |-> shown]
<1>2. x.op \in FirstOps
  BY DEF FirstOps
<1>3. claims'[t] = {} /\ pages.word \subseteq pages'.word => Sure(t, x)'
  BY DEF Sure, FetchedOps
<1> HIDE DEF x
<1>4. Arrive(t, "accept_deletion", <<x>>, {})
  BY <1>1 DEF x
<1>5. QED
  BY <1>2, <1>3, <1>4, ArriveOne

\* Every other request is one statement that names no row that has to be there.
LEMMA InertArrives ==
    ASSUME IInv, TypeOK', NEW t \in Threads,
           \/ submit_suggestion(t) \/ suggest_word_deletion(t)
           \/ accept_suggested_example(t) \/ reject_suggested_example(t)
           \/ accept_linked_word(t) \/ reject_linked_word(t)
           \/ accept_dataset_attribution_suggestion(t)
           \/ reject_dataset_attribution_suggestion(t)
           \/ reject_deletion(t)
           \/ accept_example_deletion(t) \/ reject_example_deletion(t)
           \/ accept_linked_word_deletion(t) \/ reject_linked_word_deletion(t)
    PROVE  Decided'
<1> DEFINE Kind(op) == op \in InertOps /\ op \in FirstOps \cup AcceptanceOps \cup SubmissionOps
<1>1. /\ Kind("read_original") /\ Kind("suggest_word_deletion") /\ Kind("fetch_example")
      /\ Kind("fetch_link") /\ Kind("fetch_dataset") /\ Kind("fetch_example_deletion")
      /\ Kind("fetch_link_deletion") /\ Kind("delete_row")
  BY DEF InertOps, FirstOps, AcceptanceOps, SubmissionOps, SharedOps
<1>2. \E s, route, about : Kind(s.op) /\ Arrive(t, route, <<s>>, about)
  <2> HIDE DEF Kind
  <2>1. CASE submit_suggestion(t)
    <3>1. PICK w : Arrive(t, "submit_suggestion", <<[op |-> "read_original", word |-> w]>>,
                          AboutSubmission(w))
      BY <2>1 DEF submit_suggestion
    <3>2. [op |-> "read_original", word |-> w].op = "read_original"
      OBVIOUS
    <3>3. QED
      BY <1>1, <3>1, <3>2
  <2>2. CASE suggest_word_deletion(t)
    BY <1>1, <2>2 DEF suggest_word_deletion
  <2>3. CASE accept_suggested_example(t) \/ reject_suggested_example(t)
    BY <1>1, <2>3 DEF accept_suggested_example, reject_suggested_example,
                      DeleteExampleSuggestion, DeleteRow
  <2>4. CASE accept_linked_word(t) \/ reject_linked_word(t)
    BY <1>1, <2>4 DEF accept_linked_word, reject_linked_word,
                      DeleteLinkedWordSuggestion, DeleteRow
  <2>5. CASE accept_dataset_attribution_suggestion(t) \/ reject_dataset_attribution_suggestion(t)
    BY <1>1, <2>5 DEF accept_dataset_attribution_suggestion,
                      reject_dataset_attribution_suggestion, DeleteDatasetSuggestion, DeleteRow
  <2>6. CASE reject_deletion(t)
    BY <1>1, <2>6 DEF reject_deletion, RejectWordDeletion, DeleteRow
  <2>7. CASE accept_example_deletion(t) \/ reject_example_deletion(t)
    BY <1>1, <2>7 DEF accept_example_deletion, reject_example_deletion,
                      DeleteExampleDeletion, DeleteRow
  <2>8. CASE accept_linked_word_deletion(t) \/ reject_linked_word_deletion(t)
    BY <1>1, <2>8 DEF accept_linked_word_deletion, reject_linked_word_deletion,
                      DeleteLinkedWordDeletion, DeleteRow
  <2>9. QED
    BY <2>1, <2>2, <2>3, <2>4, <2>5, <2>6, <2>7, <2>8
<1>3. PICK s, route, about : Kind(s.op) /\ Arrive(t, route, <<s>>, about)
  BY <1>2
<1>4. QED
  BY <1>3, ArriveOne

\* So every request keeps what was decided.
LEMMA RequestDecided ==
    ASSUME IInv, TypeOK', NEW t \in Threads, Request(t)
    PROVE  Decided'
BY AcceptWordArrives, RejectWordArrives, AcceptDeletionArrives, InertArrives DEF Request

-----------------------------------------------------------------------------
(* Reads *)

\* A read that hands on one statement.
LEMMA ReadOne ==
    ASSUME IInv, TypeOK', NEW t \in Threads, NEW op \in FirstOps, At(t, op),
           NEW s, NEW found, NEW about, Read(t, found, <<s>>, about),
           found => s.op \in FirstOps \cup AcceptanceOps,
           found /\ HasRead(t, about) => Sure(t, s)'
    PROVE  Decided'
<1> DEFINE X == {s}
           p == <<s>>
<1>1. found => p \in Seq(X) /\ Shaped(p)
  BY OneStatement
<1>2. found /\ HasRead(t, about) => \A x \in X : Sure(t, x)'
  OBVIOUS
<1>3. Read(t, found, p, about)
  OBVIOUS
<1> HIDE DEF X, p
<1>4. QED
  BY <1>1, <1>2, <1>3, ReadBegins

\* What was known of a suggestion is still known when more of it has been read.
LEMMA ReadKeepsKnown ==
    ASSUME IInv, TypeOK', NEW t \in Threads, NEW op \in FetchedOps, At(t, op),
           NEW c, c = Current(t), NEW about, HasRead(t, about)
    PROVE  FetchedKnown(t, c)'
<1>1. c \in Statement /\ Sure(t, c) /\ c.op \in FetchedOps
  BY ProgramAt DEF IInv, Decided
<1>2. Undisturbed(t)
  <2>1. claims[t] \subseteq claims'[t]
    BY DEF HasRead
  <2>2. db.seq["word_suggestions"] <= db'.seq["word_suggestions"]
    BY DEF HasRead, IInv, TypeOK, Database, AutoIncrement
  <2>3. QED
    BY <2>1, <2>2 DEF HasRead, Undisturbed
<1>3. Sure(t, c)'
  BY <1>1, <1>2, SureStays DEF IInv
<1>4. QED
  BY <1>1, <1>3 DEF Sure

\* The row of a suggestion is found where no word came of it yet: whoever made
\* one of it is going to delete it, and is about it until then.
LEMMA FetchAloneDecided ==
    ASSUME IInv, TypeOK', NEW t \in Threads, fetch_alone(t)
    PROVE  Decided'
<1>1. At(t, "fetch_alone") /\ TypeOK /\ References /\ Decided
  BY DEF fetch_alone, IInv
<1>2. PICK s : s = Current(t).id
  OBVIOUS
<1>3. PICK row : row = RowOf(db.word_suggestions, s)
  OBVIOUS
<1>4. PICK edited : edited = IF row.existing_word_id = Null THEN {}
                             ELSE {Existing(row.existing_word_id)}
  OBVIOUS
<1>5. Suggested(s) \in claims[t]
  BY <1>1, <1>2, ProgramAt DEF Decided, Sure
<1>6. CASE s \in Ids(db.word_suggestions)
  <2> DEFINE x == Fetched("fetch_examples", row, {}, {}, {})
  <2>1. Read(t, TRUE, <<x>>, edited)
    BY <1>2, <1>3, <1>4, <1>6 DEF fetch_alone
  <2>2. row \in db.word_suggestions /\ row.id = s
    BY <1>3, <1>6, RowOfType
  <2>3. ASSUME HasRead(t, edited)
        PROVE  FetchedKnown(t, x)'
    <3>1. Suggested(s) \in claims'[t] /\ s <= db'.seq["word_suggestions"]
      BY <1>1, <1>5, <2>2, <2>3 DEF HasRead, Decided, IdsPassed
    <3>2. Undecided(s)'
      <4>1. \A p \in origin : p[2] = s => Suggested(s) \in Excused'
        <5>1. ASSUME NEW p \in origin, p[2] = s, Suggested(s) \notin Excused
              PROVE  Suggested(s) \in Excused'
          <6>1. PICK u \in Threads : WillDelete(u, s)
            BY <1>1, <1>6, <5>1 DEF Decided, OriginsKnown
          <6>2. u # t
            BY <1>1, <6>1, NoDeleteAhead DEF Decided, AcceptanceOps, SharedOps
          <6>3. Suggested(s) \in claims[u]
            BY <6>1 DEF WillDelete
          <6>4. QED
            BY <2>3, <3>1, <6>2, <6>3 DEF HasRead
        <5>2. QED
          BY <2>3, <5>1 DEF HasRead
      <4>2. QED
        BY <2>3, <4>1 DEF Undecided, HasRead
    <3>3. ASSUME row.existing_word_id # Null
          PROVE  Secured(t, Existing(row.existing_word_id))'
      <4>1. row.existing_word_id \in db.words
        BY <1>1, <2>2, <3>3 DEF References, ForeignKeysHold, WordSuggestionOk, Refers
      <4>2. QED
        BY <1>4, <2>3, <3>3, <4>1 DEF Secured, HasRead, Entries
    <3>4. x.row = row /\ x.examples = {} /\ x.links = {}
      BY DEF Fetched
    <3> HIDE DEF x
    <3>5. ExamplesSecured(t, x.examples)' /\ LinksSecured(t, x.links)'
      BY <3>4 DEF ExamplesSecured, LinksSecured
    <3>6. QED
      BY <2>2, <3>1, <3>2, <3>3, <3>4, <3>5 DEF FetchedKnown
  <2>4. x.op = "fetch_examples"
    BY DEF Fetched
  <2> HIDE DEF x
  <2>5. TRUE /\ HasRead(t, edited) => Sure(t, x)'
    BY <2>3, <2>4 DEF Sure
  <2>6. "fetch_alone" \in FirstOps /\ x.op \in FirstOps \cup AcceptanceOps
    BY <2>4 DEF FirstOps, FetchedOps
  <2>7. QED
    BY <1>1, <2>1, <2>5, <2>6, ReadOne
<1>7. CASE s \notin Ids(db.word_suggestions)
  <2>1. Refuse(t)
    BY <1>2, <1>7 DEF fetch_alone
  <2>2. QED
    BY <1>1, <2>1, RefuseDecided DEF AcceptanceOps, SharedOps
<1>8. QED
  BY <1>6, <1>7

\* The examples that a suggestion edits are there when it is read.
LEMMA FetchExamplesDecided ==
    ASSUME IInv, TypeOK', NEW t \in Threads, fetch_examples(t)
    PROVE  Decided'
<1>1. At(t, "fetch_examples") /\ TypeOK /\ References
  BY DEF fetch_examples, IInv
<1>2. PICK c : c = Current(t)
  OBVIOUS
<1>3. PICK examples : examples = ExampleSuggestionsOf(db, c.row.id)
  OBVIOUS
<1>4. PICK about : about = UNION {EditedExample(r) : r \in examples}
  OBVIOUS
<1> DEFINE x == Fetched("fetch_linked_words", c.row, examples, {}, {})
<1>5. Read(t, TRUE, <<x>>, about)
  BY <1>2, <1>3, <1>4 DEF fetch_examples
<1>6. x.op = "fetch_linked_words" /\ x.row = c.row /\ x.examples = examples /\ x.links = {}
  BY DEF Fetched
<1> HIDE DEF x
<1>7. ASSUME HasRead(t, about)
      PROVE  FetchedKnown(t, x)'
  <2>1. FetchedKnown(t, c)'
    BY <1>1, <1>2, <1>7, ReadKeepsKnown DEF FetchedOps
  <2>2. ASSUME NEW r \in examples, r.existing_example_id # Null
        PROVE  Secured(t, <<"example", r.existing_example_id>>)'
    <3>1. r.existing_example_id \in Ids(db.examples)
      BY <1>1, <1>3, <2>2
         DEF ExampleSuggestionsOf, References, ForeignKeysHold, ExampleSuggestionOk, Refers
    <3>2. <<"example", r.existing_example_id>> \in EditedExample(r)
      BY <2>2 DEF EditedExample
    <3>3. <<"example", r.existing_example_id>> \in about
      BY <1>4, <3>2
    <3>4. QED
      BY <1>7, <3>1, <3>3 DEF Secured, HasRead, Entries
  <2>3. ExamplesSecured(t, x.examples)' /\ LinksSecured(t, x.links)'
    BY <1>6, <2>2 DEF ExamplesSecured, LinksSecured
  <2>4. QED
    BY <1>6, <2>1, <2>3 DEF FetchedKnown
<1>8. TRUE /\ HasRead(t, about) => Sure(t, x)'
  BY <1>6, <1>7 DEF Sure
<1>9. "fetch_examples" \in FirstOps /\ x.op \in FirstOps \cup AcceptanceOps
  BY <1>6 DEF FirstOps, FetchedOps
<1>10. QED
  BY <1>1, <1>5, <1>8, <1>9, ReadOne

\* The links that a suggestion edits are there when it is read.
LEMMA FetchLinkedWordsDecided ==
    ASSUME IInv, TypeOK', NEW t \in Threads, fetch_linked_words(t)
    PROVE  Decided'
<1>1. At(t, "fetch_linked_words") /\ TypeOK /\ References
  BY DEF fetch_linked_words, IInv
<1>2. PICK c : c = Current(t)
  OBVIOUS
<1>3. PICK rows : rows = LinkSuggestionsOf(db, c.row.id)
  OBVIOUS
<1>4. PICK links : links = {Populated(db, r, FALSE) : r \in rows}
  OBVIOUS
<1>5. PICK about : about = UNION ({{l.ends.first, l.ends.second} : l \in links}
                                  \cup {EditedLink(r) : r \in rows})
  OBVIOUS
<1> DEFINE x == Fetched("fetch_datasets", c.row, c.examples, links, {})
<1>6. CASE LinksPopulate(db, c.row.id)
  <2>1. Read(t, TRUE, <<x>>, about)
    BY <1>2, <1>3, <1>4, <1>5, <1>6 DEF fetch_linked_words
  <2>2. /\ x.op = "fetch_datasets" /\ x.row = c.row
        /\ x.examples = c.examples /\ x.links = links
    BY DEF Fetched
  <2> HIDE DEF x
  <2>3. ASSUME HasRead(t, about)
        PROVE  FetchedKnown(t, x)'
    <3>1. FetchedKnown(t, c)'
      BY <1>1, <1>2, <2>3, ReadKeepsKnown DEF FetchedOps
    <3>2. ASSUME NEW l \in links, l.existing_id # Null
          PROVE  Secured(t, <<"link", l.existing_id>>)'
      <4>1. PICK r \in rows : l = Populated(db, r, FALSE)
        BY <1>4
      <4>2. l.existing_id = r.existing_linked_word_id
        BY <4>1 DEF Populated
      <4>3. r.existing_linked_word_id \in Ids(db.linked_words)
        BY <1>1, <1>3, <3>2, <4>2
           DEF LinkSuggestionsOf, References, ForeignKeysHold, LinkedWordSuggestionOk, Refers
      <4>4. <<"link", l.existing_id>> \in EditedLink(r)
        BY <3>2, <4>2 DEF EditedLink
      <4>5. <<"link", l.existing_id>> \in about
        BY <1>5, <4>4
      <4>6. QED
        BY <2>3, <4>2, <4>3, <4>5 DEF Secured, HasRead, Entries
    <3>3. LinksSecured(t, x.links)'
      BY <2>2, <3>2 DEF LinksSecured
    <3>4. QED
      BY <2>2, <3>1, <3>3 DEF FetchedKnown
  <2>4. TRUE /\ HasRead(t, about) => Sure(t, x)'
    BY <2>2, <2>3 DEF Sure
  <2>5. "fetch_linked_words" \in FirstOps /\ x.op \in FirstOps \cup AcceptanceOps
    BY <2>2 DEF FirstOps, FetchedOps
  <2>6. QED
    BY <1>1, <2>1, <2>4, <2>5, ReadOne
<1>7. CASE ~LinksPopulate(db, c.row.id)
  <2>1. Refuse(t)
    BY <1>2, <1>7 DEF fetch_linked_words
  <2>2. QED
    BY <1>1, <2>1, RefuseDecided DEF AcceptanceOps, SharedOps
<1>8. QED
  BY <1>6, <1>7

\* Datasets are named by nothing that could be gone.
LEMMA FetchDatasetsDecided ==
    ASSUME IInv, TypeOK', NEW t \in Threads, fetch_datasets(t)
    PROVE  Decided'
<1>1. At(t, "fetch_datasets")
  BY DEF fetch_datasets
<1>2. PICK c : c = Current(t)
  OBVIOUS
<1>3. PICK datasets : datasets = DatasetSuggestionsOf(db, c.row.id)
  OBVIOUS
<1> DEFINE x == Fetched("accept_just_word", c.row, c.examples, c.links, datasets)
<1>4. Read(t, TRUE, <<x>>, {})
  BY <1>2, <1>3 DEF fetch_datasets
<1>5. /\ x.op = "accept_just_word" /\ x.row = c.row
      /\ x.examples = c.examples /\ x.links = c.links
  BY DEF Fetched
<1> HIDE DEF x
<1>6. ASSUME HasRead(t, {})
      PROVE  Sure(t, x)'
  <2>1. FetchedKnown(t, c)'
    BY <1>1, <1>2, <1>6, ReadKeepsKnown DEF FetchedOps
  <2>2. QED
    BY <1>5, <2>1 DEF Sure, FetchedKnown
<1>7. "fetch_datasets" \in FirstOps /\ x.op \in FirstOps \cup AcceptanceOps
  BY <1>5 DEF FirstOps, FetchedOps
<1>8. QED
  BY <1>1, <1>4, <1>6, <1>7, ReadOne

\* A suggested edit of an example is read where the example is there.
LEMMA FetchExampleDecided ==
    ASSUME IInv, TypeOK', NEW t \in Threads, fetch_example(t)
    PROVE  Decided'
<1>1. At(t, "fetch_example") /\ References
  BY DEF fetch_example, IInv
<1>2. PICK row : row = RowOf(db.example_suggestions, Current(t).id)
  OBVIOUS
<1> DEFINE x == [op |-> "accept_examples", rows |-> {row}, word_id |-> row.existing_word_id]
           about == {Existing(row.existing_word_id)} \cup EditedExample(row)
<1>3. CASE Current(t).id \in Ids(db.example_suggestions)
  <2>1. Read(t, row.existing_word_id # Null, <<x>>, about)
    BY <1>2, <1>3 DEF fetch_example
  <2>2. row \in db.example_suggestions
    BY <1>2, <1>3, RowOfType
  <2>3. row.existing_example_id # Null => row.existing_example_id \in Ids(db.examples)
    BY <1>1, <2>2 DEF References, ForeignKeysHold, ExampleSuggestionOk, Refers
  <2>4. row.existing_example_id # Null => <<"example", row.existing_example_id>> \in about
    BY DEF EditedExample
  <2>5. x.op = "accept_examples" /\ x.rows = {row}
    OBVIOUS
  <2> HIDE DEF x, about
  <2>6. ASSUME HasRead(t, about)
        PROVE  Sure(t, x)'
    <3>1. ExamplesSecured(t, x.rows)'
      BY <2>3, <2>4, <2>5, <2>6 DEF ExamplesSecured, Secured, HasRead, Entries
    <3>2. QED
      BY <2>5, <3>1 DEF Sure, FetchedOps
  <2>7. "fetch_example" \in FirstOps /\ x.op \in FirstOps \cup AcceptanceOps
    BY <2>5 DEF FirstOps, AcceptanceOps
  <2>8. QED
    BY <1>1, <2>1, <2>6, <2>7, ReadOne
<1>4. CASE Current(t).id \notin Ids(db.example_suggestions)
  <2>1. Refuse(t)
    BY <1>4 DEF fetch_example
  <2>2. QED
    BY <1>1, <2>1, RefuseDecided DEF AcceptanceOps, SharedOps
<1>5. QED
  BY <1>3, <1>4

\* A suggested edit of a link is read where the link is there.
LEMMA FetchLinkDecided ==
    ASSUME IInv, TypeOK', NEW t \in Threads, fetch_link(t)
    PROVE  Decided'
<1>1. At(t, "fetch_link") /\ References
  BY DEF fetch_link, IInv
<1>2. PICK row : row = RowOf(db.linked_word_suggestions, Current(t).id)
  OBVIOUS
<1>3. PICK link : link = Populated(db, row, TRUE)
  OBVIOUS
<1> DEFINE x == [op |-> "accept_link", link |-> link]
           about == {link.ends.first, link.ends.second} \cup EditedLink(row)
           found == /\ Current(t).id \in Ids(db.linked_word_suggestions)
                    /\ NamesTwoWords(db, row, TRUE)
                    /\ BothExist(link.ends)
<1>4. CASE found
  <2>1. Read(t, TRUE, <<x>>, about)
    BY <1>2, <1>3, <1>4 DEF fetch_link
  <2>2. row \in db.linked_word_suggestions
    BY <1>2, <1>4, RowOfType
  <2>3. row.existing_linked_word_id # Null =>
            row.existing_linked_word_id \in Ids(db.linked_words)
    BY <1>1, <2>2 DEF References, ForeignKeysHold, LinkedWordSuggestionOk, Refers
  <2>4. row.existing_linked_word_id # Null =>
            <<"link", row.existing_linked_word_id>> \in about
    BY DEF EditedLink
  <2>5. /\ x.op = "accept_link" /\ x.link = link
        /\ link.existing_id = row.existing_linked_word_id
    BY <1>3 DEF Populated
  <2> HIDE DEF x, about
  <2>6. ASSUME HasRead(t, about)
        PROVE  Sure(t, x)'
    <3>1. LinksSecured(t, {x.link})'
      BY <2>3, <2>4, <2>5, <2>6 DEF LinksSecured, Secured, HasRead, Entries
    <3>2. QED
      BY <2>5, <3>1 DEF Sure, FetchedOps
  <2>7. "fetch_link" \in FirstOps /\ x.op \in FirstOps \cup AcceptanceOps
    BY <2>5 DEF FirstOps, AcceptanceOps
  <2>8. QED
    BY <1>1, <2>1, <2>6, <2>7, ReadOne
<1>5. CASE ~found
  <2>1. Refuse(t)
    BY <1>2, <1>3, <1>5 DEF fetch_link
  <2>2. QED
    BY <1>1, <2>1, RefuseDecided DEF AcceptanceOps, SharedOps
<1>6. QED
  BY <1>4, <1>5

\* A suggested dataset names nothing that could be gone.
LEMMA FetchDatasetDecided ==
    ASSUME IInv, TypeOK', NEW t \in Threads, fetch_dataset(t)
    PROVE  Decided'
<1>1. At(t, "fetch_dataset")
  BY DEF fetch_dataset
<1>2. PICK row : row = RowOf(db.dataset_attribution_suggestions, Current(t).id)
  OBVIOUS
<1> DEFINE x == [op |-> "accept_datasets", rows |-> {row}, word_id |-> row.existing_word_id]
           about == {Existing(row.existing_word_id)}
<1>3. CASE Current(t).id \in Ids(db.dataset_attribution_suggestions)
  <2>1. Read(t, row.existing_word_id # Null, <<x>>, about)
    BY <1>2, <1>3 DEF fetch_dataset
  <2>2. x.op = "accept_datasets"
    OBVIOUS
  <2> HIDE DEF x, about
  <2>3. Sure(t, x)'
    BY <2>2, Inert DEF InertOps
  <2>4. "fetch_dataset" \in FirstOps /\ x.op \in FirstOps \cup AcceptanceOps
    BY <2>2 DEF FirstOps, AcceptanceOps
  <2>5. QED
    BY <1>1, <2>1, <2>3, <2>4, ReadOne
<1>4. CASE Current(t).id \notin Ids(db.dataset_attribution_suggestions)
  <2>1. Refuse(t)
    BY <1>4 DEF fetch_dataset
  <2>2. QED
    BY <1>1, <2>1, RefuseDecided DEF AcceptanceOps, SharedOps
<1>5. QED
  BY <1>3, <1>4

\* A read that hands on a DELETE and the statement that goes with it.
LEMMA ReadTwo ==
    ASSUME IInv, TypeOK', NEW t \in Threads, NEW op \in FirstOps, At(t, op),
           NEW x, NEW y, NEW about, Read(t, TRUE, <<x, y>>, about),
           x.op \in DeleteOps, y.op \in SharedOps,
           HasRead(t, about) => Sure(t, x)'
    PROVE  Decided'
<1> DEFINE X == {x, y}
           p == <<x, y>>
<1>1. p \in Seq(X) /\ Shaped(p)
  BY DEF Shaped
<1>2. Sure(t, y)'
  BY Inert DEF InertOps, SubmissionOps
<1>3. TRUE /\ HasRead(t, about) => \A z \in X : Sure(t, z)'
  BY <1>2
<1>4. Read(t, TRUE, p, about)
  OBVIOUS
<1> HIDE DEF X, p
<1>5. QED
  BY <1>1, <1>3, <1>4, ReadBegins

\* The word that is going to be deleted is the one the page showed: the row is
\* the one that was on the page.
LEMMA FetchWordDeletionDecided ==
    ASSUME IInv, TypeOK', NEW t \in Threads, fetch_word_deletion(t)
    PROVE  Decided'
<1>1. At(t, "fetch_word_deletion") /\ TypeOK /\ Decided
  BY DEF fetch_word_deletion, IInv
<1>2. PICK shown : shown = Current(t).shown
  OBVIOUS
<1>3. PICK word : word = RowOf(db.word_deletion_suggestions, shown.id).word_id
  OBVIOUS
<1> DEFINE x == [op |-> "delete_word", id |-> word, shown |-> shown.word_id]
           y == IndexDelete(Existing(word))
<1>4. CASE shown.id \in Ids(db.word_deletion_suggestions)
  <2>1. Read(t, TRUE, <<x, y>>, {Existing(word)})
    BY <1>2, <1>3, <1>4 DEF fetch_word_deletion
  <2>2. word = shown.word_id
    <3> DEFINE row == RowOf(db.word_deletion_suggestions, shown.id)
    <3>1. row \in db.word_deletion_suggestions /\ row.id = shown.id
      BY <1>4, RowOfType
    <3>2. shown \in pages.word
      BY <1>1, <1>2, ProgramAt DEF Decided, Sure
    <3>3. row = shown
      BY <1>1, <3>1, <3>2 DEF Decided, PagesKnown, Keyed
    <3>4. QED
      BY <1>3, <3>3
  <2>3. x.op = "delete_word" /\ x.id = word /\ x.shown = shown.word_id /\ y.op = "index_delete"
    BY DEF IndexDelete
  <2> HIDE DEF x, y
  <2>4. HasRead(t, {Existing(word)}) => Sure(t, x)'
    BY <2>2, <2>3 DEF Sure, HasRead, FetchedOps
  <2>5. x.op \in DeleteOps /\ y.op \in SharedOps /\ "fetch_word_deletion" \in FirstOps
    BY <2>3 DEF DeleteOps, SharedOps, FirstOps
  <2>6. QED
    BY <1>1, <2>1, <2>4, <2>5, ReadTwo
<1>5. CASE shown.id \notin Ids(db.word_deletion_suggestions)
  <2>1. Refuse(t)
    BY <1>2, <1>5 DEF fetch_word_deletion
  <2>2. QED
    BY <1>1, <2>1, RefuseDecided DEF AcceptanceOps, SharedOps
<1>6. QED
  BY <1>4, <1>5

\* A request about the deletion of an example is about that example.
LEMMA FetchExampleDeletionDecided ==
    ASSUME IInv, TypeOK', NEW t \in Threads, fetch_example_deletion(t)
    PROVE  Decided'
<1>1. At(t, "fetch_example_deletion")
  BY DEF fetch_example_deletion
<1>2. PICK shown : shown = Current(t).shown
  OBVIOUS
<1>3. PICK example : example = RowOf(db.example_deletion_suggestions, shown.id).example_id
  OBVIOUS
<1> DEFINE x == [op |-> "delete_example", id |-> example, shown |-> shown.example_id]
           y == DeleteExampleDeletion(shown.id)
<1>4. CASE shown.id \in Ids(db.example_deletion_suggestions)
  <2>1. Read(t, TRUE, <<x, y>>, {<<"example", example>>})
    BY <1>2, <1>3, <1>4 DEF fetch_example_deletion
  <2>2. x.op = "delete_example" /\ x.id = example /\ y.op = "delete_row"
    BY DEF DeleteExampleDeletion, DeleteRow
  <2> HIDE DEF x, y
  <2>3. HasRead(t, {<<"example", example>>}) => Sure(t, x)'
    BY <2>2 DEF Sure, HasRead, FetchedOps
  <2>4. x.op \in DeleteOps /\ y.op \in SharedOps /\ "fetch_example_deletion" \in FirstOps
    BY <2>2 DEF DeleteOps, SharedOps, FirstOps
  <2>5. QED
    BY <1>1, <2>1, <2>3, <2>4, ReadTwo
<1>5. CASE shown.id \notin Ids(db.example_deletion_suggestions)
  <2>1. Refuse(t)
    BY <1>2, <1>5 DEF fetch_example_deletion
  <2>2. QED
    BY <1>1, <2>1, RefuseDecided DEF AcceptanceOps, SharedOps
<1>6. QED
  BY <1>4, <1>5

\* And one about the deletion of a link about that link.
LEMMA FetchLinkDeletionDecided ==
    ASSUME IInv, TypeOK', NEW t \in Threads, fetch_link_deletion(t)
    PROVE  Decided'
<1>1. At(t, "fetch_link_deletion")
  BY DEF fetch_link_deletion
<1>2. PICK s : s = Current(t).id
  OBVIOUS
<1>3. PICK link : link = RowOf(db.linked_word_deletion_suggestions, s).linked_word_id
  OBVIOUS
<1> DEFINE x == [op |-> "delete_link", id |-> link]
           y == DeleteLinkedWordDeletion(s)
<1>4. CASE s \in Ids(db.linked_word_deletion_suggestions)
  <2>1. Read(t, TRUE, <<x, y>>, {<<"link", link>>})
    BY <1>2, <1>3, <1>4 DEF fetch_link_deletion
  <2>2. x.op = "delete_link" /\ x.id = link /\ y.op = "delete_row"
    BY DEF DeleteLinkedWordDeletion, DeleteRow
  <2> HIDE DEF x, y
  <2>3. HasRead(t, {<<"link", link>>}) => Sure(t, x)'
    BY <2>2 DEF Sure, HasRead, FetchedOps
  <2>4. x.op \in DeleteOps /\ y.op \in SharedOps /\ "fetch_link_deletion" \in FirstOps
    BY <2>2 DEF DeleteOps, SharedOps, FirstOps
  <2>5. QED
    BY <1>1, <2>1, <2>3, <2>4, ReadTwo
<1>5. CASE s \notin Ids(db.linked_word_deletion_suggestions)
  <2>1. Refuse(t)
    BY <1>2, <1>5 DEF fetch_link_deletion
  <2>2. QED
    BY <1>1, <2>1, RefuseDecided DEF AcceptanceOps, SharedOps
<1>6. QED
  BY <1>4, <1>5

-----------------------------------------------------------------------------
(* Writes of acceptances and submissions *)

\* Each table names its own entries.
LEMMA EntryNames ==
    ASSUME NEW d, NEW i
    PROVE  /\ Existing(i) \in Entries(d) <=> i \in d.words
           /\ <<"example", i>> \in Entries(d) <=> i \in Ids(d.examples)
           /\ <<"link", i>> \in Entries(d) <=> i \in Ids(d.linked_words)
BY DEF Entries, Existing

\* A key that is given out is one the sequence has passed from then on.
LEMMA BumpPasses ==
    ASSUME NEW seq \in [AutoIncrement -> Nat], NEW table \in AutoIncrement, NEW id \in Nat
    PROVE  /\ \A other \in AutoIncrement : seq[other] <= Bump(seq, table, id)[other]
           /\ id <= Bump(seq, table, id)[table]
BY DEF Bump

\* A key an INSERT gets was never given out before, unless it names its own.
LEMMA KeyIsNext ==
    ASSUME NEW d \in Database, NEW table \in AutoIncrement, NEW id \in OptionalId
    PROVE  LET key == KeyOrNext(d, table, id)
           IN  key \in Nat /\ (key > d.seq[table] \/ (id # Null /\ key = id))
BY DEF KeyOrNext, Database, OptionalId, Null

\* The upsert of an example brings nothing but a new id, or one whose deletion
\* was going on.
LEMMA PutExampleMild ==
    ASSUME TypeOK, NEW id \in OptionalId, NEW word,
           id # Null => <<"example", id>> \in Entries(db) \cup Excused
    PROVE  Mild(PutExample(db, id, word))
<1> DEFINE key == KeyOrNext(db, "examples", id)
           row == [id |-> key, word_id |-> word]
           after == PutExample(db, id, word)
<1>1. db \in Database /\ db.seq \in [AutoIncrement -> Nat] /\ "examples" \in AutoIncrement
  BY DEF TypeOK, Database, AutoIncrement
<1>2. CASE id \in Ids(db.examples)
  <2>1. after = db
    BY <1>2 DEF PutExample
  <2>2. QED
    BY <1>1, <2>1, LeavesMild
<1>3. CASE id \notin Ids(db.examples)
  <2>1. key \in Nat /\ (key > db.seq["examples"] \/ (id # Null /\ key = id))
    BY <1>1, KeyIsNext
  <2>2. row.id = key
    OBVIOUS
  <2> HIDE DEF key, row
  <2> DEFINE seq == Bump(db.seq, "examples", key)
  <2>3. after = [db EXCEPT !.examples = @ \cup {row}, !.seq = seq]
    BY <1>3 DEF PutExample, key, row
  <2>4. /\ \A table \in AutoIncrement : db.seq[table] <= seq[table]
        /\ key <= seq["examples"]
    BY <1>1, <2>1, BumpPasses
  <2> HIDE DEF seq
  <2>5. /\ after.words = db.words /\ after.linked_words = db.linked_words
        /\ after.examples = db.examples \cup {row} /\ after.seq = seq
        /\ after.word_suggestions = db.word_suggestions
        /\ after.word_deletion_suggestions = db.word_deletion_suggestions
    BY <1>1, <2>3 DEF Database
  <2> HIDE DEF after
  <2>6. Ids(after.examples) = Ids(db.examples) \cup {key}
    BY <2>2, <2>5 DEF Ids
  <2>7. Entries(after) = Entries(db) \cup {<<"example", key>>}
    BY <2>5, <2>6 DEF Entries
  <2>8. LastId(db, <<"example", key>>) = db.seq["examples"]
        /\ LastId(after, <<"example", key>>) = seq["examples"]
    BY <2>5 DEF LastId
  <2>9. key > db.seq["examples"] \/ <<"example", key>> \in Excused
    BY <1>3, <2>1, EntryNames
  <2>10. \A ref \in Entries(after) \ Entries(db) :
            /\ ref[2] <= LastId(after, ref)
            /\ ref[2] > LastId(db, ref) \/ ref \in Excused
    BY <2>4, <2>7, <2>8, <2>9
  <2>11. Mild(after)
    BY <2>4, <2>5, <2>7, <2>10 DEF Mild
  <2>12. QED
    BY <2>11 DEF after
<1>4. QED
  BY <1>2, <1>3

\* So does the upsert of a link.
LEMMA PutLinkedWordMild ==
    ASSUME TypeOK, NEW id \in OptionalId, NEW first, NEW second,
           id # Null => <<"link", id>> \in Entries(db) \cup Excused
    PROVE  Mild(PutLinkedWord(db, id, first, second))
<1> DEFINE key == KeyOrNext(db, "linked_words", id)
           row == [id |-> key, first_word_id |-> first, second_word_id |-> second]
           after == PutLinkedWord(db, id, first, second)
<1>1. db \in Database /\ db.seq \in [AutoIncrement -> Nat] /\ "linked_words" \in AutoIncrement
  BY DEF TypeOK, Database, AutoIncrement
<1>2. CASE id \in Ids(db.linked_words)
  <2>1. after = db
    BY <1>2 DEF PutLinkedWord
  <2>2. QED
    BY <1>1, <2>1, LeavesMild
<1>3. CASE id \notin Ids(db.linked_words)
  <2>1. key \in Nat /\ (key > db.seq["linked_words"] \/ (id # Null /\ key = id))
    BY <1>1, KeyIsNext
  <2>2. row.id = key
    OBVIOUS
  <2> HIDE DEF key, row
  <2> DEFINE seq == Bump(db.seq, "linked_words", key)
  <2>3. after = [db EXCEPT !.linked_words = @ \cup {row}, !.seq = seq]
    BY <1>3 DEF PutLinkedWord, key, row
  <2>4. /\ \A table \in AutoIncrement : db.seq[table] <= seq[table]
        /\ key <= seq["linked_words"]
    BY <1>1, <2>1, BumpPasses
  <2> HIDE DEF seq
  <2>5. /\ after.words = db.words /\ after.examples = db.examples
        /\ after.linked_words = db.linked_words \cup {row} /\ after.seq = seq
        /\ after.word_suggestions = db.word_suggestions
        /\ after.word_deletion_suggestions = db.word_deletion_suggestions
    BY <1>1, <2>3 DEF Database
  <2> HIDE DEF after
  <2>6. Ids(after.linked_words) = Ids(db.linked_words) \cup {key}
    BY <2>2, <2>5 DEF Ids
  <2>7. Entries(after) = Entries(db) \cup {<<"link", key>>}
    BY <2>5, <2>6 DEF Entries
  <2>8. LastId(db, <<"link", key>>) = db.seq["linked_words"]
        /\ LastId(after, <<"link", key>>) = seq["linked_words"]
    BY <2>5 DEF LastId
  <2>9. key > db.seq["linked_words"] \/ <<"link", key>> \in Excused
    BY <1>3, <2>1, EntryNames
  <2>10. \A ref \in Entries(after) \ Entries(db) :
            /\ ref[2] <= LastId(after, ref)
            /\ ref[2] > LastId(db, ref) \/ ref \in Excused
    BY <2>4, <2>7, <2>8, <2>9
  <2>11. Mild(after)
    BY <2>4, <2>5, <2>7, <2>10 DEF Mild
  <2>12. QED
    BY <2>11 DEF after
<1>4. QED
  BY <1>2, <1>3

\* A loop that goes on is one statement, and one that is over is none.
LEMMA LoopStatements ==
    ASSUME NEW c, NEW set
    PROVE  Loop(c, set) \in Seq({[c EXCEPT !.rows = set]})
<1> DEFINE x == [c EXCEPT !.rows = set]
<1>1. Loop(c, set) = IF set = {} THEN <<>> ELSE <<x>>
  BY DEF Loop
<1> HIDE DEF x
<1>2. <<>> \in Seq({x}) /\ <<x>> \in Seq({x})
  OBVIOUS
<1>3. Loop(c, set) \in Seq({x})
  BY <1>1, <1>2
<1>4. QED
  BY <1>3 DEF x

\* A write after which nothing is added to what is left.
LEMMA WriteAlone ==
    ASSUME IInv, TypeOK', NEW t \in Threads,
           NEW op \in AcceptanceOps \cup SubmissionOps, At(t, op),
           NEW allowed, NEW after, Write(t, allowed, after, <<>>), allowed => Mild(after),
           op = "delete_word_suggestion" => Current(t).id \notin Ids(after.word_suggestions)
    PROVE  Decided'
<1> DEFINE X == {}
           p == <<>>
<1>1. p \in Seq(X) /\ X = {} /\ Write(t, allowed, after, p)
  OBVIOUS
<1> HIDE DEF X, p
<1>2. QED
  BY <1>1, WriteDecided

\* An attribution names no row of the search or of the decisions.
LEMMA AttributionDecided ==
    ASSUME IInv, TypeOK', NEW t \in Threads, ExecAddUserAttribution(t)
    PROVE  Decided'
<1>1. At(t, "add_user_attribution")
  BY DEF ExecAddUserAttribution
<1> DEFINE allowed == Current(t).word_id \in db.words
           after == [db EXCEPT !.user_attributions = @ \cup {<<Current(t).word_id, Current(t).user>>}]
<1>2. Write(t, allowed, after, <<>>)
  BY DEF ExecAddUserAttribution
<1>3. Mild(after)
  <2>1. /\ after.words = db.words /\ after.examples = db.examples
        /\ after.linked_words = db.linked_words /\ after.seq = db.seq
        /\ after.word_suggestions = db.word_suggestions
        /\ after.word_deletion_suggestions = db.word_deletion_suggestions
        /\ db.seq \in [AutoIncrement -> Nat]
    BY DEF IInv, TypeOK, Database
  <2> HIDE DEF after
  <2>2. QED
    BY <2>1, LeavesMild
<1> HIDE DEF allowed, after
<1>4. "add_user_attribution" \in AcceptanceOps
  BY DEF AcceptanceOps
<1>5. QED
  BY <1>1, <1>2, <1>3, <1>4, WriteAlone

\* Nor does a row of a table nothing refers to.
LEMMA DeleteRowDecided ==
    ASSUME IInv, TypeOK', NEW t \in Threads, ExecDeleteRow(t)
    PROVE  Decided'
<1>1. At(t, "delete_row")
  BY DEF ExecDeleteRow
<1> DEFINE s == Current(t)
           after == [db EXCEPT ![s.table] = Drop(@, s.id)]
           allowed == TRUE
<1>2. Write(t, allowed, after, <<>>)
  BY DEF ExecDeleteRow
<1>3. s.table \in LeafTables
  <2>1. s \in SharedStatement /\ s.op = "delete_row"
    BY <1>1, AtShared, ProgramAt DEF IInv, Decided
  <2>2. QED
    BY <2>1 DEF SharedStatement
<1> HIDE DEF s
<1>4. Mild(after)
  <2>1. /\ after.words = db.words /\ after.examples = db.examples
        /\ after.linked_words = db.linked_words /\ after.seq = db.seq
        /\ after.word_suggestions = db.word_suggestions
        /\ after.word_deletion_suggestions \subseteq db.word_deletion_suggestions
    BY <1>3 DEF LeafTables, IInv, TypeOK, Database, Drop
  <2>2. db.seq \in [AutoIncrement -> Nat]
    BY DEF IInv, TypeOK, Database
  <2> HIDE DEF after
  <2>3. QED
    BY <2>1, <2>2, LeavesMild
<1> HIDE DEF after, allowed
<1>5. "delete_row" \in AcceptanceOps
  BY DEF AcceptanceOps, SharedOps
<1>6. QED
  BY <1>1, <1>2, <1>4, <1>5, WriteAlone

\* A message to the index changes no table.
LEMMA IndexDecided ==
    ASSUME IInv, TypeOK', NEW t \in Threads, ExecIndex(t)
    PROVE  Decided'
<1>1. PICK op \in {"index_put", "index_delete"} : At(t, op)
  BY DEF ExecIndex
<1>2. Continue(t, <<>>, {}) /\ Observe /\ UNCHANGED <<db, origin, broken>>
  BY DEF ExecIndex
<1>3. Lawful(t)
  BY <1>2, UnchangedQuiet, QuietLawful DEF IInv, Decided
<1>4. op \in SharedOps \cap AcceptanceOps /\ op # "delete_word_suggestion"
  BY DEF AcceptanceOps, SharedOps
<1> DEFINE X == {}
           p == <<>>
           about == {}
<1>5. p \in Seq(X) /\ X = {} /\ Continue(t, p, about)
  BY <1>2
<1> HIDE DEF X, p, about
<1>6. QED
  BY <1>1, <1>2, <1>3, <1>4, <1>5, GoesOn

\* What remains of a loop over rows is sure when the loop was.
LEMMA RestIsSure ==
    ASSUME NEW t \in Threads, NEW c, c.op \in {"accept_examples", "accept_datasets", "accept_links"},
           Sure(t, c), NEW r, r.op = c.op, r.rows \subseteq c.rows
    PROVE  Sure(t, r)
BY DEF Sure, FetchedOps, ExamplesSecured, LinksSecured

\* A DELETE of a row is a statement that names nothing that has to be there, and
\* so is an attribution.
LEMMA SmallStatements ==
    ASSUME NEW t \in Threads
    PROVE  /\ \A user, word : LET s == AddUserAttribution(user, word)
                              IN  s.op \in AcceptanceOps /\ Sure(t, s)
           /\ \A table, id : LET s == DeleteRow(table, id)
                             IN  s.op \in AcceptanceOps /\ Sure(t, s)
<1>1. ASSUME NEW user, NEW word
      PROVE  LET s == AddUserAttribution(user, word) IN s.op \in AcceptanceOps /\ Sure(t, s)
  <2> DEFINE s == AddUserAttribution(user, word)
  <2>1. s.op = "add_user_attribution"
    BY DEF AddUserAttribution
  <2> HIDE DEF s
  <2>2. s.op \in AcceptanceOps /\ Sure(t, s)
    BY <2>1, Inert DEF AcceptanceOps, InertOps
  <2>3. QED
    BY <2>2 DEF s
<1>2. ASSUME NEW table, NEW id
      PROVE  LET s == DeleteRow(table, id) IN s.op \in AcceptanceOps /\ Sure(t, s)
  <2> DEFINE s == DeleteRow(table, id)
  <2>1. s.op = "delete_row"
    BY DEF DeleteRow
  <2> HIDE DEF s
  <2>2. s.op \in AcceptanceOps /\ Sure(t, s)
    BY <2>1, Inert DEF AcceptanceOps, InertOps, SubmissionOps, SharedOps
  <2>3. QED
    BY <2>2 DEF s
<1>3. QED
  BY <1>1, <1>2

\* One turn of the loop over the examples of an acceptance.
LEMMA AcceptExampleDecided ==
    ASSUME IInv, TypeOK', NEW t \in Threads, accept_example(t)
    PROVE  Decided'
<1>1. At(t, "accept_examples") /\ TypeOK
  BY DEF accept_example, IInv
<1>2. PICK c : c = Current(t)
  OBVIOUS
<1>3. PICK r \in c.rows :
          Write(t, r.existing_example_id \in Ids(db.examples) \/ c.word_id \in db.words,
                PutExample(db, r.existing_example_id, c.word_id),
                <<AddUserAttribution(r.user, c.word_id), DeleteExampleSuggestion(r.id)>>
                \o Loop(c, c.rows \ {r}))
  BY <1>2 DEF accept_example
<1>4. c \in AcceptStatement /\ c.op = "accept_examples" /\ Sure(t, c)
  BY <1>1, <1>2, AtAccept, ProgramAt DEF IInv, Decided
<1>5. c \in [op: {"accept_examples"}, rows: SUBSET ExampleSuggestionRow, word_id: Id]
  BY <1>4 DEF AcceptStatement
<1> DEFINE allowed == r.existing_example_id \in Ids(db.examples) \/ c.word_id \in db.words
           after == PutExample(db, r.existing_example_id, c.word_id)
           x == AddUserAttribution(r.user, c.word_id)
           y == DeleteExampleSuggestion(r.id)
           z == [c EXCEPT !.rows = c.rows \ {r}]
           X == {x, y, z}
           p == <<x, y>> \o Loop(c, c.rows \ {r})
<1>6. Mild(after)
  <2>1. r \in ExampleSuggestionRow
    BY <1>3, <1>5
  <2>2. r.existing_example_id # Null =>
            <<"example", r.existing_example_id>> \in Entries(db) \cup Excused
    BY <1>3, <1>4 DEF Sure, ExamplesSecured, Secured
  <2>3. QED
    BY <1>1, <2>1, <2>2, PutExampleMild DEF ExampleSuggestionRow
<1>7. z.op = c.op /\ z.rows = c.rows \ {r}
  BY <1>5
<1>8. Sure(t, x) /\ Sure(t, y) /\ x.op \in AcceptanceOps /\ y.op \in AcceptanceOps
  BY SmallStatements DEF DeleteExampleSuggestion
<1>9. Loop(c, c.rows \ {r}) \in Seq({z})
  BY LoopStatements
<1>10. Write(t, allowed, after, p)
  BY <1>3
<1> HIDE DEF allowed, after, x, y, z
<1>11. Sure(t, z) /\ z.op \in AcceptanceOps
  BY <1>4, <1>7, RestIsSure DEF AcceptanceOps
<1>12. \A s \in X : Sure(t, s) /\ s.op \in AcceptanceOps
  BY <1>8, <1>11
<1>13. p \in Seq(X)
  <2> DEFINE q == Loop(c, c.rows \ {r})
  <2>1. q \in Seq(X) /\ <<x, y>> \in Seq(X)
    BY <1>9
  <2> HIDE DEF q, X
  <2>2. QED
    BY <2>1 DEF q
<1>14. "accept_examples" \in AcceptanceOps \ (SharedOps \cup SubmissionOps)
  BY DEF AcceptanceOps, SharedOps, SubmissionOps
<1> HIDE DEF X, p
<1>15. QED
  BY <1>1, <1>6, <1>10, <1>12, <1>13, <1>14, WriteDecided

\* One turn of the loop over its datasets.
LEMMA AcceptDatasetDecided ==
    ASSUME IInv, TypeOK', NEW t \in Threads, accept_dataset(t)
    PROVE  Decided'
<1>1. At(t, "accept_datasets") /\ TypeOK
  BY DEF accept_dataset, IInv
<1>2. PICK c : c = Current(t)
  OBVIOUS
<1>3. PICK r \in c.rows :
          LET pair == <<c.word_id, r.dataset>>
          IN  Write(t, r.is_delete \/ c.word_id \in db.words,
                    [db EXCEPT !.dataset_attributions =
                        IF r.is_delete THEN @ \ {pair} ELSE @ \cup {pair}],
                    <<AddUserAttribution(r.user, c.word_id), DeleteDatasetSuggestion(r.id)>>
                    \o Loop(c, c.rows \ {r}))
  BY <1>2 DEF accept_dataset
<1>4. c \in AcceptStatement /\ c.op = "accept_datasets" /\ Sure(t, c)
  BY <1>1, <1>2, AtAccept, ProgramAt DEF IInv, Decided
<1>5. c \in [op: {"accept_datasets"}, rows: SUBSET DatasetSuggestionRow, word_id: Id]
  BY <1>4 DEF AcceptStatement
<1> DEFINE pair == <<c.word_id, r.dataset>>
           allowed == r.is_delete \/ c.word_id \in db.words
           after == [db EXCEPT !.dataset_attributions =
                        IF r.is_delete THEN @ \ {pair} ELSE @ \cup {pair}]
           x == AddUserAttribution(r.user, c.word_id)
           y == DeleteDatasetSuggestion(r.id)
           z == [c EXCEPT !.rows = c.rows \ {r}]
           X == {x, y, z}
           p == <<x, y>> \o Loop(c, c.rows \ {r})
<1>6. Mild(after)
  <2>1. /\ after.words = db.words /\ after.examples = db.examples
        /\ after.linked_words = db.linked_words /\ after.seq = db.seq
        /\ after.word_suggestions = db.word_suggestions
        /\ after.word_deletion_suggestions = db.word_deletion_suggestions
        /\ db.seq \in [AutoIncrement -> Nat]
    BY <1>1 DEF TypeOK, Database
  <2> HIDE DEF after
  <2>2. QED
    BY <2>1, LeavesMild
<1>7. z.op = c.op /\ z.rows = c.rows \ {r}
  BY <1>5
<1>8. Sure(t, x) /\ Sure(t, y) /\ x.op \in AcceptanceOps /\ y.op \in AcceptanceOps
  BY SmallStatements DEF DeleteDatasetSuggestion
<1>9. Loop(c, c.rows \ {r}) \in Seq({z})
  BY LoopStatements
<1>10. Write(t, allowed, after, p)
  BY <1>3
<1> HIDE DEF allowed, after, x, y, z
<1>11. Sure(t, z) /\ z.op \in AcceptanceOps
  BY <1>4, <1>7, RestIsSure DEF AcceptanceOps
<1>12. \A s \in X : Sure(t, s) /\ s.op \in AcceptanceOps
  BY <1>8, <1>11
<1>13. p \in Seq(X)
  <2> DEFINE q == Loop(c, c.rows \ {r})
  <2>1. q \in Seq(X) /\ <<x, y>> \in Seq(X)
    BY <1>9
  <2> HIDE DEF q, X
  <2>2. QED
    BY <2>1 DEF q
<1>14. "accept_datasets" \in AcceptanceOps \ (SharedOps \cup SubmissionOps)
  BY DEF AcceptanceOps, SharedOps, SubmissionOps
<1> HIDE DEF X, p
<1>15. QED
  BY <1>1, <1>6, <1>10, <1>12, <1>13, <1>14, WriteDecided

\* SuggestedLinkedWord::accept, with what is left of the acceptance.
LEMMA PutLinkDecided ==
    ASSUME IInv, TypeOK', NEW t \in Threads, NEW op \in {"accept_links", "accept_link"},
           At(t, op), NEW l \in PopulatedLink, LinksSecured(t, {l}), NEW ends,
           NEW Y, NEW rest \in Seq(Y), \A s \in Y : Sure(t, s) /\ s.op \in AcceptanceOps,
           PutLink(t, l, ends, rest)
    PROVE  Decided'
<1> DEFINE first == ends.first[2]
           second == ends.second[2]
           allowed == \/ l.existing_id \in Ids(db.linked_words)
                      \/ first \in db.words /\ second \in db.words
           after == PutLinkedWord(db, l.existing_id, first, second)
           x == AddUserAttribution(l.user, first)
           y == AddUserAttribution(l.user, second)
           z == DeleteLinkedWordSuggestion(l.id)
           X == {x, y, z} \cup Y
           q == <<x, y, z>>
           p == q \o rest
<1>1. Write(t, allowed, after, p)
  BY DEF PutLink
<1>2. Mild(after)
  <2>1. l.existing_id # Null => <<"link", l.existing_id>> \in Entries(db) \cup Excused
    BY DEF LinksSecured, Secured
  <2> HIDE DEF first, second
  <2>2. QED
    BY <2>1, PutLinkedWordMild DEF IInv, PopulatedLink
<1>3. /\ Sure(t, x) /\ Sure(t, y) /\ Sure(t, z)
      /\ x.op \in AcceptanceOps /\ y.op \in AcceptanceOps /\ z.op \in AcceptanceOps
  BY SmallStatements DEF DeleteLinkedWordSuggestion
<1> HIDE DEF allowed, after, x, y, z
<1>4. \A s \in X : Sure(t, s) /\ s.op \in AcceptanceOps
  BY <1>3
<1>5. q \in Seq(X) /\ rest \in Seq(X)
  OBVIOUS
<1> HIDE DEF X, q
<1>6. p \in Seq(X)
  BY <1>5
<1>7. op \in AcceptanceOps \ (SharedOps \cup SubmissionOps) /\ op # "delete_word_suggestion"
  BY DEF AcceptanceOps, SharedOps, SubmissionOps
<1> HIDE DEF p
<1>8. QED
  BY <1>1, <1>2, <1>4, <1>6, <1>7, WriteDecided

\* A link whose other word is still a suggestion waits for it.
LEMMA UpdateDecided ==
    ASSUME IInv, TypeOK', NEW t \in Threads, At(t, "accept_links"), NEW l, NEW ends,
           NEW Y, NEW rest \in Seq(Y), \A s \in Y : Sure(t, s) /\ s.op \in AcceptanceOps,
           update_first_and_second(t, l, ends, rest)
    PROVE  Decided'
<1> DEFINE Updated(r) == [r EXCEPT
               !.first_existing_word_id = IntoExisting(ends.first),
               !.second_existing_word_id = IntoExisting(ends.second),
               !.suggested_word_id = IntoSuggested(ends.first),
               !.second_suggested_word_id = IntoSuggested(ends.second)]
           rows == {IF r.id = l.id THEN Updated(r) ELSE r : r \in db.linked_word_suggestions}
           allowed == \A r \in rows : r.id = l.id => LinkedWordSuggestionOk(db, r)
           after == [db EXCEPT !.linked_word_suggestions = rows]
<1>1. Write(t, allowed, after, rest)
  BY DEF update_first_and_second
<1> HIDE DEF rows, allowed
<1>2. Mild(after)
  <2>1. /\ after.words = db.words /\ after.examples = db.examples
        /\ after.linked_words = db.linked_words /\ after.seq = db.seq
        /\ after.word_suggestions = db.word_suggestions
        /\ after.word_deletion_suggestions = db.word_deletion_suggestions
        /\ db.seq \in [AutoIncrement -> Nat]
    BY DEF IInv, TypeOK, Database
  <2> HIDE DEF after
  <2>2. QED
    BY <2>1, LeavesMild
<1>3. "accept_links" \in AcceptanceOps \ (SharedOps \cup SubmissionOps)
  BY DEF AcceptanceOps, SharedOps, SubmissionOps
<1> HIDE DEF after
<1>4. QED
  BY <1>1, <1>2, <1>3, WriteDecided

\* One turn of the loop over the links of an accepted word.
LEMMA AcceptLinkOfWordDecided ==
    ASSUME IInv, TypeOK', NEW t \in Threads, accept_link_of_word(t)
    PROVE  Decided'
<1>1. At(t, "accept_links") /\ TypeOK
  BY DEF accept_link_of_word, IInv
<1>2. PICK c : c = Current(t)
  OBVIOUS
<1>3. c \in AcceptStatement /\ c.op = "accept_links" /\ Sure(t, c)
  BY <1>1, <1>2, AtAccept, ProgramAt DEF IInv, Decided
<1>4. c \in [op: {"accept_links"}, rows: SUBSET PopulatedLink, word_id: Id, suggestion: Id]
  BY <1>3 DEF AcceptStatement
<1>5. PICK l \in c.rows :
          LET ends == EndsAccepted(l.ends, c.suggestion, c.word_id)
              rest == Loop(c, c.rows \ {l})
          IN  PutLink(t, l, ends, rest) \/ update_first_and_second(t, l, ends, rest)
  BY <1>2 DEF accept_link_of_word
<1> DEFINE ends == EndsAccepted(l.ends, c.suggestion, c.word_id)
           rest == Loop(c, c.rows \ {l})
           z == [c EXCEPT !.rows = c.rows \ {l}]
           Y == {z}
<1>6. z.op = c.op /\ z.rows = c.rows \ {l} /\ rest \in Seq(Y)
  BY <1>4, LoopStatements
<1>7. l \in PopulatedLink /\ LinksSecured(t, {l})
  BY <1>3, <1>4 DEF Sure, LinksSecured
<1> HIDE DEF z
<1>8. \A s \in Y : Sure(t, s) /\ s.op \in AcceptanceOps
  BY <1>3, <1>6, RestIsSure DEF AcceptanceOps
<1>9. PutLink(t, l, ends, rest) \/ update_first_and_second(t, l, ends, rest)
  BY <1>5
<1> HIDE DEF ends, rest, Y
<1>10. QED
  BY <1>1, <1>6, <1>7, <1>8, <1>9, PutLinkDecided, UpdateDecided

\* Accepting one link.
LEMMA AcceptLinkDecided ==
    ASSUME IInv, TypeOK', NEW t \in Threads, accept_link(t)
    PROVE  Decided'
<1>1. At(t, "accept_link") /\ TypeOK
  BY DEF accept_link, IInv
<1>2. PICK l : l = Current(t).link
  OBVIOUS
<1>3. l \in PopulatedLink /\ LinksSecured(t, {l})
  <2>1. Current(t) \in AcceptStatement /\ Current(t).op = "accept_link" /\ Sure(t, Current(t))
    BY <1>1, AtAccept, ProgramAt DEF IInv, Decided
  <2>2. QED
    BY <1>2, <2>1 DEF AcceptStatement, Sure
<1> DEFINE ends == l.ends
           Y == {}
           rest == <<>>
<1>4. PutLink(t, l, ends, rest) /\ rest \in Seq(Y) /\ Y = {}
  BY <1>2 DEF accept_link
<1> HIDE DEF ends, Y, rest
<1>5. QED
  BY <1>1, <1>3, <1>4, PutLinkDecided

\* The DELETE of a word suggestion takes suggestions only.
LEMMA DeleteSuggestionDecided ==
    ASSUME IInv, TypeOK', NEW t \in Threads, delete_word_suggestion(t)
    PROVE  Decided'
<1>1. At(t, "delete_word_suggestion") /\ TypeOK /\ References
  BY DEF delete_word_suggestion, IInv
<1> DEFINE s == Current(t).id
           less == [db EXCEPT !.word_suggestions = Drop(@, s)]
           after == WithoutWordSuggestion(db, s)
           allowed == TRUE
<1>2. Write(t, allowed, after, <<>>)
  BY DEF delete_word_suggestion
<1>3. /\ after.words = less.words
      /\ after.word_suggestions = {r \in less.word_suggestions : WordSuggestionOk(less, r)}
      /\ after.examples = {r \in less.examples : r.word_id \in less.words}
      /\ after.linked_words = {r \in less.linked_words : LinkedWordOk(less, r)}
      /\ after.word_deletion_suggestions \subseteq less.word_deletion_suggestions
      /\ after.seq = less.seq
  <2>1. less \in Database
    BY <1>1 DEF TypeOK, Database, Drop
  <2> HIDE DEF less
  <2> DEFINE p == CascadeParents(less)
  <2>2. /\ p \in Database /\ p.words = less.words /\ p.seq = less.seq
        /\ p.word_suggestions = {r \in less.word_suggestions : WordSuggestionOk(less, r)}
        /\ p.examples = {r \in less.examples : r.word_id \in less.words}
        /\ p.linked_words = {r \in less.linked_words : LinkedWordOk(less, r)}
        /\ p.word_deletion_suggestions = less.word_deletion_suggestions
    BY <2>1 DEF Database, CascadeParents
  <2> HIDE DEF p
  <2>3. after = CascadeLeaves(p)
    BY DEF WithoutWordSuggestion, Cascade, p, less
  <2>4. /\ after.words = p.words /\ after.seq = p.seq
        /\ after.word_suggestions = p.word_suggestions
        /\ after.examples = p.examples /\ after.linked_words = p.linked_words
        /\ after.word_deletion_suggestions \subseteq p.word_deletion_suggestions
    BY <2>2, <2>3 DEF Database, CascadeLeaves
  <2>5. QED
    BY <2>2, <2>4
<1>4. /\ less.words = db.words /\ less.examples = db.examples /\ less.seq = db.seq
      /\ less.linked_words = db.linked_words
      /\ less.word_suggestions = Drop(db.word_suggestions, s)
      /\ less.word_deletion_suggestions = db.word_deletion_suggestions
  BY <1>1 DEF TypeOK, Database
<1> HIDE DEF after, less
<1>5. Mild(after)
  <2>1. after.examples = db.examples /\ after.linked_words = db.linked_words
    BY <1>1, <1>3, <1>4 DEF References, ForeignKeysHold, LinkedWordOk
  <2>2. /\ after.words = db.words /\ after.seq = db.seq
        /\ after.word_suggestions \subseteq db.word_suggestions
        /\ after.word_deletion_suggestions \subseteq db.word_deletion_suggestions
    BY <1>3, <1>4 DEF Drop
  <2>3. db.seq \in [AutoIncrement -> Nat]
    BY <1>1 DEF TypeOK, Database
  <2>4. QED
    BY <2>1, <2>2, <2>3, LeavesMild
<1>6. s \notin Ids(after.word_suggestions)
  BY <1>3, <1>4 DEF Ids, Drop
<1>7. "delete_word_suggestion" \in AcceptanceOps
  BY DEF AcceptanceOps
<1> HIDE DEF allowed
<1>8. QED
  BY <1>1, <1>2, <1>5, <1>6, <1>7, WriteAlone

-----------------------------------------------------------------------------
(* The INSERT of a word *)

\* What follows it is an acceptance, sure of the rows that were read.
LEMMA RestOfAcceptanceKnown ==
    ASSUME NEW t \in Threads, NEW c \in FetchedStatement, NEW word \in Id
    PROVE  /\ \A s \in Statements(RestOfAcceptance(c, word)) : s.op \in AcceptanceOps
           /\ ExamplesSecured(t, c.examples)' /\ LinksSecured(t, c.links)' =>
                 \A s \in Statements(RestOfAcceptance(c, word)) : Sure(t, s)'
           /\ [op |-> "delete_word_suggestion", id |-> c.row.id]
                 \in Statements(RestOfAcceptance(c, word))
<1> DEFINE a == AddUserAttribution(c.row.user, word)
           e == [op |-> "accept_examples", rows |-> {}, word_id |-> word]
           d == [op |-> "accept_datasets", rows |-> {}, word_id |-> word]
           l == [op |-> "accept_links", rows |-> {}, word_id |-> word, suggestion |-> c.row.id]
           ee == [e EXCEPT !.rows = c.examples]
           dd == [d EXCEPT !.rows = c.datasets]
           ll == [l EXCEPT !.rows = c.links]
           i == IndexDelete(Suggested(c.row.id))
           w == [op |-> "delete_word_suggestion", id |-> c.row.id]
           p == IndexPut(Existing(word))
           X == {a, ee, dd, ll, i, w, p}
<1>1. /\ a.op = "add_user_attribution" /\ ee.op = "accept_examples" /\ ee.rows = c.examples
      /\ dd.op = "accept_datasets" /\ ll.op = "accept_links" /\ ll.rows = c.links
      /\ i.op = "index_delete" /\ w.op = "delete_word_suggestion" /\ p.op = "index_put"
  BY DEF AddUserAttribution, IndexDelete, IndexPut
<1>2. /\ Loop(e, c.examples) \in Seq({ee}) /\ Loop(d, c.datasets) \in Seq({dd})
      /\ Loop(l, c.links) \in Seq({ll})
  BY LoopStatements
<1>3. RestOfAcceptance(c, word) =
          <<a>> \o Loop(e, c.examples) \o Loop(d, c.datasets) \o Loop(l, c.links)
          \o <<i, w>> \o <<p>>
  BY DEF RestOfAcceptance, DeleteWordSuggestion
<1> HIDE DEF a, ee, dd, ll, i, w, p
<1>4. \A s \in X : s.op \in AcceptanceOps
  BY <1>1 DEF AcceptanceOps, SharedOps
<1>5. ExamplesSecured(t, c.examples)' /\ LinksSecured(t, c.links)' => \A s \in X : Sure(t, s)'
  <2>1. ExamplesSecured(t, c.examples)' /\ LinksSecured(t, c.links)'
            => Sure(t, ee)' /\ Sure(t, ll)'
    BY <1>1 DEF Sure, FetchedOps
  <2>2. Sure(t, a)' /\ Sure(t, dd)' /\ Sure(t, i)' /\ Sure(t, w)' /\ Sure(t, p)'
    BY <1>1, Inert DEF InertOps, SubmissionOps, SharedOps
  <2>3. QED
    BY <2>1, <2>2
<1> DEFINE q1 == <<a>>
           q2 == Loop(e, c.examples)
           q3 == Loop(d, c.datasets)
           q4 == Loop(l, c.links)
           q5 == <<i, w>>
           q6 == <<p>>
<1>6. /\ q1 \in Seq(X) /\ q2 \in Seq(X) /\ q3 \in Seq(X) /\ q4 \in Seq(X)
      /\ q5 \in Seq(X) /\ q6 \in Seq(X)
  BY <1>2
<1>7. w \in Statements(q5)
  <2>1. 2 \in 1 .. Len(q5) /\ q5[2] = w
    OBVIOUS
  <2>2. QED
    BY <2>1 DEF Statements
<1>8. RestOfAcceptance(c, word) = q1 \o q2 \o q3 \o q4 \o q5 \o q6
  BY <1>3
<1> HIDE DEF X, q1, q2, q3, q4, q5, q6
<1> DEFINE r4 == q1 \o q2 \o q3 \o q4
           r5 == r4 \o q5
<1>9. r4 \in Seq(X)
  BY <1>6
<1> HIDE DEF r4
<1>10. r5 \in Seq(X)
  BY <1>6, <1>9
<1>11. w \in Statements(r5)
  BY <1>6, <1>7, <1>9, StatementsOfBoth
<1> HIDE DEF r5
<1>12. r5 \o q6 \in Seq(X) /\ w \in Statements(r5 \o q6)
  BY <1>6, <1>10, <1>11, StatementsOfBoth
<1>13. RestOfAcceptance(c, word) = r5 \o q6
  BY <1>8 DEF r4, r5
<1>14. Statements(RestOfAcceptance(c, word)) \subseteq X
  BY <1>12, <1>13, StatementsOf
<1>15. QED
  BY <1>4, <1>5, <1>12, <1>13, <1>14 DEF w

\* The word is a new one, or the one the suggestion is an edit of, which nobody
\* deleted unless that is excused.
LEMMA WordPut ==
    ASSUME IInv, TypeOK', NEW t \in Threads, Acts(t), NEW id \in OptionalId,
           id # Null => Secured(t, Existing(id)),
           NEW word, word = KeyOrNext(db, "words", id),
           db' = [db EXCEPT !.words = @ \cup {word}, !.seq = Bump(@, "words", word)]
    PROVE  SequencesGrow /\ EntriesLawful(t) /\ SuggestionsLawful /\ DeletionsLawful
<1>1. /\ db \in Database /\ db.seq \in [AutoIncrement -> Nat] /\ "words" \in AutoIncrement
      /\ TypeOK /\ IdsPassed
  BY DEF IInv, TypeOK, Database, AutoIncrement, Decided
<1>2. word \in Nat /\ (word > db.seq["words"] \/ (id # Null /\ word = id))
  BY <1>1, KeyIsNext
<1> DEFINE seq == Bump(db.seq, "words", word)
<1>3. /\ \A table \in AutoIncrement : db.seq[table] <= seq[table]
      /\ word <= seq["words"] /\ seq["word_suggestions"] = db.seq["word_suggestions"]
  <2>1. seq["word_suggestions"] = db.seq["word_suggestions"]
    BY <1>1 DEF Bump, AutoIncrement
  <2>2. QED
    BY <1>1, <1>2, <2>1, BumpPasses
<1>4. db' = [db EXCEPT !.words = @ \cup {word}, !.seq = seq]
  OBVIOUS
<1> HIDE DEF seq
<1>5. /\ db'.words = db.words \cup {word} /\ db'.seq = seq
      /\ db'.examples = db.examples /\ db'.linked_words = db.linked_words
      /\ db'.word_suggestions = db.word_suggestions
      /\ db'.word_deletion_suggestions = db.word_deletion_suggestions
  BY <1>1, <1>4 DEF Database
<1>6. Entries(db') = Entries(db) \cup {Existing(word)}
  BY <1>5 DEF Entries
<1>7. /\ LastId(db, Existing(word)) = db.seq["words"]
      /\ LastId(db', Existing(word)) = seq["words"]
      /\ Existing(word)[2] = word
  BY <1>5 DEF LastId, Existing
<1>8. word > db.seq["words"] \/ Existing(word) \in Entries(db) \cup Excused'
  BY <1>1, <1>2, OverlapsExcused DEF Secured
<1>9. EntriesLawful(t)
  BY <1>3, <1>6, <1>7, <1>8 DEF EntriesLawful
<1>10. SequencesGrow /\ DeletionsLawful
  BY <1>3, <1>5 DEF SequencesGrow, DeletionsLawful
<1>11. SuggestionsLawful
  BY <1>1, <1>3, <1>5 DEF SuggestionsLawful, Ids, IdsPassed
<1>12. QED
  BY <1>9, <1>10, <1>11

\* A word comes of a suggestion that no word came of, and that is going to be
\* deleted.
LEMMA AcceptJustWordDecided ==
    ASSUME IInv, TypeOK', NEW t \in Threads, accept_just_word(t)
    PROVE  Decided'
<1>1. At(t, "accept_just_word") /\ TypeOK /\ ThreadsKnown
  BY DEF accept_just_word, IInv, Decided
<1>2. PICK c : c = Current(t)
  OBVIOUS
<1>3. PICK word : word = KeyOrNext(db, "words", c.row.existing_word_id)
  OBVIOUS
<1> DEFINE statements == RestOfAcceptance(c, word)
           about == {Existing(word)}
<1>4. /\ db' = [db EXCEPT !.words = @ \cup {word}, !.seq = Bump(@, "words", word)]
      /\ Continue(t, statements, about)
      /\ origin' = IF c.row.existing_word_id = Null
                   THEN origin \cup {<<word, c.row.id>>} ELSE origin
      /\ broken' = broken /\ Observe
  BY <1>2, <1>3 DEF accept_just_word
<1>5. c \in FetchedStatement /\ Sure(t, c) /\ c.op = "accept_just_word"
  BY <1>1, <1>2, AtFetched, ProgramAt
<1>6. FetchedKnown(t, c) /\ c.row.id \in Id /\ c.row.existing_word_id \in OptionalId
  BY <1>5 DEF Sure, FetchedOps, FetchedStatement, WordSuggestionRow
<1>7. word \in Id
  BY <1>1, <1>3, <1>6, KeyOrNextType DEF TypeOK, AutoIncrement
<1>8. statements \in Seq(Statement)
  BY <1>5, <1>7, RestOfAcceptanceType
<1> DEFINE X == Statements(statements)
<1>9. statements \in Seq(X)
  <2>1. \A i \in 1 .. Len(statements) : statements[i] \in X
    BY DEF Statements
  <2> HIDE DEF X, statements
  <2>2. QED
    BY <1>8, <2>1
<1> HIDE DEF about
<1>10. /\ todo[t] # <<>> /\ Tail(todo[t]) = <<>>
  BY <1>1, ProgramAt, ShapeAt DEF FirstOps, FetchedOps
<1>11. todo'[t] = statements
  <2> HIDE DEF statements
  <2>1. QED
    BY <1>1, <1>4, <1>8, <1>10, ConcatEmptySeq DEF Continue, TypeOK
<1>12. Acts(t)
  <2> HIDE DEF statements
  <2>1. QED
    BY <1>1, <1>4, <1>8, <1>10, Continued DEF Acts
<1>13. /\ SequencesGrow /\ EntriesLawful(t) /\ SuggestionsLawful /\ DeletionsLawful
       /\ Entries(db) \subseteq Entries(db')
  <2>1. SequencesGrow /\ EntriesLawful(t) /\ SuggestionsLawful /\ DeletionsLawful
    BY <1>3, <1>4, <1>6, <1>12, WordPut DEF FetchedKnown
  <2>2. Entries(db) \subseteq Entries(db')
    BY <1>1, <1>4 DEF Entries, TypeOK, Database
  <2>3. QED
    BY <2>1, <2>2
<1>14. ASSUME claims'[t] = claims[t] \cup about
       PROVE  ExamplesSecured(t, c.examples)' /\ LinksSecured(t, c.links)'
  <2>1. \A ref : Secured(t, ref) => Secured(t, ref)'
    BY <1>1, <1>12, <1>13, <1>14, OverlapsExcused DEF Secured
  <2>2. ExamplesSecured(t, c.examples) /\ LinksSecured(t, c.links)
    BY <1>6 DEF FetchedKnown
  <2>3. QED
    BY <2>1, <2>2 DEF ExamplesSecured, LinksSecured
<1> DEFINE d == [op |-> "delete_word_suggestion", id |-> c.row.id]
<1>15. d \in X /\ \A x \in X : x.op \in AcceptanceOps
  BY <1>5, <1>7, RestOfAcceptanceKnown
<1>16. claims'[t] = claims[t] \cup about => \A x \in X : Sure(t, x)'
  BY <1>5, <1>7, <1>14, RestOfAcceptanceKnown
<1> HIDE DEF statements
<1>17. claims'[t] = claims[t] \cup about
  <2>1. statements # <<>>
    BY <1>15 DEF Statements
  <2>2. QED
    BY <1>1, <1>4, <1>8, <1>10, <1>11, <2>1, Continued
<1>18. OriginLawful(t)
  <2>1. CASE c.row.existing_word_id = Null
    <3>1. origin' = origin \cup {<<word, c.row.id>>}
      BY <1>4, <2>1
    <3>2. WillDelete(t, c.row.id)'
      BY <1>6, <1>11, <1>15, <1>17 DEF WillDelete, FetchedKnown
    <3>3. QED
      BY <1>6, <1>7, <1>17, <2>1, <3>1, <3>2 DEF OriginLawful, FetchedKnown
  <2>2. CASE c.row.existing_word_id # Null
    BY <1>4, <2>2 DEF OriginLawful
  <2>3. QED
    BY <2>1, <2>2
<1>19. Shaped(statements)
  BY <1>15 DEF Shaped, Issues
<1>20. "accept_just_word" \in FirstOps /\ Lawful(t)
  BY <1>13, <1>18 DEF FirstOps, FetchedOps, Lawful
<1> HIDE DEF X
<1>21. QED
  BY <1>1, <1>4, <1>9, <1>16, <1>19, <1>20, BeginsWith

-----------------------------------------------------------------------------
(* The suggestion that a word be deleted *)

\* It gets an id no page has shown.
LEMMA InsertWordDeletionDecided ==
    ASSUME IInv, TypeOK', NEW t \in Threads, insert_word_deletion(t)
    PROVE  Decided'
<1>1. At(t, "suggest_word_deletion") /\ TypeOK /\ Decided
  BY DEF insert_word_deletion, IInv
<1> DEFINE w == Current(t).id
           T == db.word_deletion_suggestions
           key == db.seq["word_deletion_suggestions"] + 1
           row == [id |-> key, word_id |-> w]
           after == IF \E r \in T : r.word_id = w THEN db
                    ELSE [db EXCEPT !.word_deletion_suggestions = @ \cup {row},
                                    !.seq = Bump(@, "word_deletion_suggestions", key)]
           about == Entries(db) \ Entries(after)
           X == {}
           p == <<>>
<1>2. Write(t, w \in db.words, after, p)
  BY DEF insert_word_deletion
<1>3. CASE w \in db.words
  <2>1. db' = after /\ Continue(t, p, about) /\ UNCHANGED <<origin, broken>> /\ Observe
    BY <1>2, <1>3 DEF Write
  <2>2. row.id = key /\ row \in {row}
    OBVIOUS
  <2>3. /\ db.seq \in [AutoIncrement -> Nat] /\ "word_deletion_suggestions" \in AutoIncrement
        /\ key \in Nat /\ key > db.seq["word_deletion_suggestions"]
    <3>1. db.seq \in [AutoIncrement -> Nat]
      BY <1>1 DEF TypeOK, Database
    <3>2. "word_deletion_suggestions" \in AutoIncrement
      BY DEF AutoIncrement
    <3>3. db.seq["word_deletion_suggestions"] \in Nat
      BY <3>1, <3>2
    <3>4. QED
      BY <3>1, <3>2, <3>3
  <2> DEFINE seq == Bump(db.seq, "word_deletion_suggestions", key)
  <2>4. /\ \A table \in AutoIncrement : db.seq[table] <= seq[table]
        /\ key <= seq["word_deletion_suggestions"]
        /\ seq["word_suggestions"] = db.seq["word_suggestions"]
    <3>1. seq["word_suggestions"] = db.seq["word_suggestions"]
      BY <2>3 DEF Bump, AutoIncrement
    <3>2. QED
      BY <2>3, <3>1, BumpPasses
  <2>5. after = IF \E r \in T : r.word_id = w THEN db
                ELSE [db EXCEPT !.word_deletion_suggestions = @ \cup {row}, !.seq = seq]
    OBVIOUS
  <2> HIDE DEF row, key, seq
  <2>6. /\ after.words = db.words /\ after.examples = db.examples
        /\ after.linked_words = db.linked_words
        /\ after.word_suggestions = db.word_suggestions
        /\ \/ /\ after.word_deletion_suggestions = db.word_deletion_suggestions
              /\ after.seq = db.seq
           \/ /\ after.word_deletion_suggestions = db.word_deletion_suggestions \cup {row}
              /\ after.seq = seq
    BY <1>1, <2>5 DEF TypeOK, Database
  <2> HIDE DEF after
  <2>7. SequencesGrow
    BY <2>1, <2>3, <2>4, <2>6 DEF SequencesGrow
  <2>8. Entries(db') = Entries(db)
    BY <2>1, <2>6 DEF Entries
  <2>9. SuggestionsLawful
    BY <1>1, <2>1, <2>4, <2>6 DEF SuggestionsLawful, Decided, IdsPassed, Ids
  <2>10. DeletionsLawful
    BY <2>1, <2>2, <2>3, <2>4, <2>6 DEF DeletionsLawful
  <2>11. Lawful(t)
    BY <2>1, <2>7, <2>8, <2>9, <2>10 DEF Lawful, EntriesLawful, OriginLawful
  <2>12. Shaped(p) /\ X = {} /\ p \in Seq(X) /\ "suggest_word_deletion" \in FirstOps
    BY DEF Shaped, Issues, Statements, FirstOps
  <2> HIDE DEF about, X, p
  <2>13. QED
    BY <1>1, <2>1, <2>11, <2>12, BeginsWith
<1>4. CASE w \notin db.words
  BY <1>2, <1>4, PanicDecided DEF Write
<1>5. QED
  BY <1>3, <1>4

-----------------------------------------------------------------------------
(* Submissions *)

\* A write of other tables decides nothing.
LEMMA TablesMild ==
    ASSUME TypeOK, NEW d, NEW table \in AutoIncrement, NEW id \in Nat,
           d.words = db.words, d.examples = db.examples, d.linked_words = db.linked_words,
           d.word_suggestions = db.word_suggestions,
           d.word_deletion_suggestions = db.word_deletion_suggestions,
           d.seq = db.seq \/ d.seq = Bump(db.seq, table, id)
    PROVE  Mild(d)
<1>1. db.seq \in [AutoIncrement -> Nat]
  BY DEF TypeOK, Database
<1>2. \A other \in AutoIncrement : db.seq[other] <= d.seq[other]
  BY <1>1, BumpPasses
<1>3. QED
  BY <1>2, LeavesMild

\* One turn of a loop of a submission.
LEMMA SubmissionWrites ==
    ASSUME IInv, TypeOK', NEW t \in Threads,
           NEW op \in {"write_link", "write_example", "write_dataset"}, At(t, op),
           NEW c, c = Current(t), NEW S, NEW allowed, NEW after,
           Write(t, allowed, after, Loop(c, S)), allowed => Mild(after)
    PROVE  Decided'
<1> DEFINE z == [c EXCEPT !.rows = S]
           X == {z}
           p == Loop(c, S)
<1>1. c \in SubmitStatement /\ c.op = op
  BY AtSubmit, ProgramAt DEF IInv, Decided
<1>2. z.op = op
  BY <1>1 DEF SubmitStatement
<1>3. p \in Seq(X)
  BY LoopStatements
<1> HIDE DEF z
<1>4. \A s \in X : Sure(t, s) /\ s.op \in SubmissionOps
  BY <1>2, Inert DEF InertOps, SubmissionOps
<1>5. op \in SubmissionOps \ (SharedOps \cup AcceptanceOps) /\ op # "delete_word_suggestion"
  BY DEF SubmissionOps, AcceptanceOps, SharedOps
<1> HIDE DEF X, p
<1>6. Write(t, allowed, after, p)
  BY DEF p
<1>7. QED
  BY <1>3, <1>4, <1>5, <1>6, WriteDecided

\* The links of a submission.
LEMMA WriteLinkDecided ==
    ASSUME IInv, TypeOK', NEW t \in Threads, write_link(t)
    PROVE  Decided'
<1>1. At(t, "write_link") /\ TypeOK
  BY DEF write_link, IInv
<1>2. PICK c : c = Current(t)
  OBVIOUS
<1>3. PICK s \in c.rows :
          \/ /\ s.do = "upsert"
             /\ LET row == LinkRowAfter(db, s.row)
                IN  Write(t, LinkedWordSuggestionOk(db, row),
                          [db EXCEPT
                             !.linked_word_suggestions = Put(@, row),
                             !.seq = Bump(@, "linked_word_suggestions", row.id)],
                          Loop(c, c.rows \ {s}))
          \/ Write(t, TRUE, [db EXCEPT !.linked_word_suggestions = Drop(@, s.id)],
                   Loop(c, c.rows \ {s}))
          \/ Write(t, s.id \in Ids(db.linked_words), SuggestLinkDeletion(db, s.id),
                   Loop(c, c.rows \ {s}))
  BY <1>2 DEF write_link
<1>4. c \in [op: {"write_link"}, rows: SUBSET (UpsertOf(NewLinkRow) \cup ById)]
  <2>1. c \in SubmitStatement /\ c.op = "write_link"
    BY <1>1, <1>2, AtSubmit, ProgramAt DEF IInv, Decided
  <2>2. QED
    BY <2>1 DEF SubmitStatement
<1>5. db \in Database /\ db.seq["linked_word_deletion_suggestions"] + 1 \in Nat
  <2>1. db \in Database /\ db.seq \in [AutoIncrement -> Nat]
    BY <1>1 DEF TypeOK, Database
  <2>2. "linked_word_deletion_suggestions" \in AutoIncrement
    BY DEF AutoIncrement
  <2>3. db.seq["linked_word_deletion_suggestions"] \in Nat
    BY <2>1, <2>2
  <2>4. QED
    BY <2>1, <2>3
<1> DEFINE S == c.rows \ {s}
<1>6. ASSUME NEW allowed, NEW after, Write(t, allowed, after, Loop(c, S)), allowed => Mild(after)
      PROVE  Decided'
  <2> HIDE DEF S
  <2>1. QED
    BY <1>1, <1>2, <1>6, SubmissionWrites
<1>7. CASE /\ s.do = "upsert"
           /\ LET row == LinkRowAfter(db, s.row)
              IN  Write(t, LinkedWordSuggestionOk(db, row),
                        [db EXCEPT
                           !.linked_word_suggestions = Put(@, row),
                           !.seq = Bump(@, "linked_word_suggestions", row.id)],
                        Loop(c, c.rows \ {s}))
  <2> DEFINE row == LinkRowAfter(db, s.row)
             seq == Bump(db.seq, "linked_word_suggestions", row.id)
             after == [db EXCEPT !.linked_word_suggestions = Put(@, row), !.seq = seq]
             allowed == LinkedWordSuggestionOk(db, row)
  <2>1. Write(t, allowed, after, Loop(c, S))
    BY <1>7
  <2>2. row.id \in Nat
    <3>1. s.row \in NewLinkRow
      BY <1>4, <1>7 DEF UpsertOf, ById
    <3>2. QED
      BY <1>5, <3>1, LinkRowAfterType DEF LinkedWordSuggestionRow, Id
  <2> HIDE DEF row, allowed
  <2>3. /\ after.words = db.words /\ after.examples = db.examples
        /\ after.linked_words = db.linked_words
        /\ after.word_suggestions = db.word_suggestions
        /\ after.word_deletion_suggestions = db.word_deletion_suggestions
        /\ after.seq = Bump(db.seq, "linked_word_suggestions", row.id)
        /\ "linked_word_suggestions" \in AutoIncrement
    BY <1>5 DEF Database, AutoIncrement
  <2> HIDE DEF after, S
  <2>4. Mild(after)
    BY <1>1, <2>2, <2>3, TablesMild
  <2>5. QED
    BY <1>6, <2>1, <2>4
<1>8. CASE Write(t, TRUE, [db EXCEPT !.linked_word_suggestions = Drop(@, s.id)],
                 Loop(c, c.rows \ {s}))
  <2> DEFINE after == [db EXCEPT !.linked_word_suggestions = Drop(@, s.id)]
             allowed == TRUE
  <2>1. Write(t, allowed, after, Loop(c, S))
    BY <1>8
  <2>2. /\ after.words = db.words /\ after.examples = db.examples
        /\ after.linked_words = db.linked_words
        /\ after.word_suggestions = db.word_suggestions
        /\ after.word_deletion_suggestions = db.word_deletion_suggestions
        /\ after.seq = db.seq /\ "words" \in AutoIncrement /\ 0 \in Nat
    BY <1>5 DEF Database, AutoIncrement
  <2> HIDE DEF after, allowed, S
  <2>3. Mild(after)
    BY <1>1, <2>2, TablesMild
  <2>4. QED
    BY <1>6, <2>1, <2>3
<1>9. CASE Write(t, s.id \in Ids(db.linked_words), SuggestLinkDeletion(db, s.id),
                 Loop(c, c.rows \ {s}))
  <2> DEFINE after == SuggestLinkDeletion(db, s.id)
             allowed == s.id \in Ids(db.linked_words)
             table == "linked_word_deletion_suggestions"
             key == db.seq[table] + 1
  <2>1. Write(t, allowed, after, Loop(c, S))
    BY <1>9
  <2>2. /\ after.words = db.words /\ after.examples = db.examples
        /\ after.linked_words = db.linked_words
        /\ after.word_suggestions = db.word_suggestions
        /\ after.word_deletion_suggestions = db.word_deletion_suggestions
        /\ after.seq = db.seq \/ after.seq = Bump(db.seq, table, key)
        /\ table \in AutoIncrement /\ key \in Nat
    BY <1>5 DEF Database, AutoIncrement, SuggestLinkDeletion
  <2> HIDE DEF after, allowed, S, table, key
  <2>3. Mild(after)
    BY <1>1, <2>2, TablesMild
  <2>4. QED
    BY <1>6, <2>1, <2>3
<1>10. QED
  BY <1>3, <1>7, <1>8, <1>9

\* The examples of a submission.
LEMMA WriteExampleDecided ==
    ASSUME IInv, TypeOK', NEW t \in Threads, write_example(t)
    PROVE  Decided'
<1>1. At(t, "write_example") /\ TypeOK
  BY DEF write_example, IInv
<1>2. PICK c : c = Current(t)
  OBVIOUS
<1>3. PICK s \in c.rows :
          \/ /\ s.do = "upsert"
             /\ LET row == ExampleRowAfter(db, s.row)
                IN  Write(t, ExampleSuggestionOk(db, row),
                          [db EXCEPT
                             !.example_suggestions = Put(@, row),
                             !.seq = Bump(@, "example_suggestions", row.id)],
                          Loop(c, c.rows \ {s}))
          \/ Write(t, TRUE, [db EXCEPT !.example_suggestions = Drop(@, s.id)],
                   Loop(c, c.rows \ {s}))
          \/ Write(t, s.id \in Ids(db.examples), SuggestExampleDeletion(db, s.id),
                   Loop(c, c.rows \ {s}))
  BY <1>2 DEF write_example
<1>4. c \in [op: {"write_example"}, rows: SUBSET (UpsertOf(NewExampleRow) \cup ById)]
  <2>1. c \in SubmitStatement /\ c.op = "write_example"
    BY <1>1, <1>2, AtSubmit, ProgramAt DEF IInv, Decided
  <2>2. QED
    BY <2>1 DEF SubmitStatement
<1>5. db \in Database
  BY <1>1 DEF TypeOK
<1> DEFINE S == c.rows \ {s}
<1>6. ASSUME NEW allowed, NEW after, Write(t, allowed, after, Loop(c, S)), allowed => Mild(after)
      PROVE  Decided'
  <2> HIDE DEF S
  <2>1. QED
    BY <1>1, <1>2, <1>6, SubmissionWrites
<1>7. CASE /\ s.do = "upsert"
           /\ LET row == ExampleRowAfter(db, s.row)
              IN  Write(t, ExampleSuggestionOk(db, row),
                        [db EXCEPT
                           !.example_suggestions = Put(@, row),
                           !.seq = Bump(@, "example_suggestions", row.id)],
                        Loop(c, c.rows \ {s}))
  <2> DEFINE row == ExampleRowAfter(db, s.row)
             seq == Bump(db.seq, "example_suggestions", row.id)
             after == [db EXCEPT !.example_suggestions = Put(@, row), !.seq = seq]
             allowed == ExampleSuggestionOk(db, row)
  <2>1. Write(t, allowed, after, Loop(c, S))
    BY <1>7
  <2>2. row.id \in Nat
    <3>1. s.row \in NewExampleRow
      BY <1>4, <1>7 DEF UpsertOf, ById
    <3>2. QED
      BY <1>5, <3>1, ExampleRowAfterType DEF ExampleSuggestionRow, Id
  <2> HIDE DEF row, allowed
  <2>3. /\ after.words = db.words /\ after.examples = db.examples
        /\ after.linked_words = db.linked_words
        /\ after.word_suggestions = db.word_suggestions
        /\ after.word_deletion_suggestions = db.word_deletion_suggestions
        /\ after.seq = Bump(db.seq, "example_suggestions", row.id)
        /\ "example_suggestions" \in AutoIncrement
    BY <1>5 DEF Database, AutoIncrement
  <2> HIDE DEF after, S
  <2>4. Mild(after)
    BY <1>1, <2>2, <2>3, TablesMild
  <2>5. QED
    BY <1>6, <2>1, <2>4
<1>8. CASE Write(t, TRUE, [db EXCEPT !.example_suggestions = Drop(@, s.id)],
                 Loop(c, c.rows \ {s}))
  <2> DEFINE after == [db EXCEPT !.example_suggestions = Drop(@, s.id)]
             allowed == TRUE
  <2>1. Write(t, allowed, after, Loop(c, S))
    BY <1>8
  <2>2. /\ after.words = db.words /\ after.examples = db.examples
        /\ after.linked_words = db.linked_words
        /\ after.word_suggestions = db.word_suggestions
        /\ after.word_deletion_suggestions = db.word_deletion_suggestions
        /\ after.seq = db.seq /\ "words" \in AutoIncrement /\ 0 \in Nat
    BY <1>5 DEF Database, AutoIncrement
  <2> HIDE DEF after, allowed, S
  <2>3. Mild(after)
    BY <1>1, <2>2, TablesMild
  <2>4. QED
    BY <1>6, <2>1, <2>3
<1>9. CASE Write(t, s.id \in Ids(db.examples), SuggestExampleDeletion(db, s.id),
                 Loop(c, c.rows \ {s}))
  <2> DEFINE after == SuggestExampleDeletion(db, s.id)
             allowed == s.id \in Ids(db.examples)
  <2>1. Write(t, allowed, after, Loop(c, S))
    BY <1>9
  <2>2. /\ after.words = db.words /\ after.examples = db.examples
        /\ after.linked_words = db.linked_words
        /\ after.word_suggestions = db.word_suggestions
        /\ after.word_deletion_suggestions = db.word_deletion_suggestions
        /\ after.seq = db.seq /\ "words" \in AutoIncrement /\ 0 \in Nat
    BY <1>5 DEF Database, AutoIncrement, SuggestExampleDeletion
  <2> HIDE DEF after, allowed, S
  <2>3. Mild(after)
    BY <1>1, <2>2, TablesMild
  <2>4. QED
    BY <1>6, <2>1, <2>3
<1>10. QED
  BY <1>3, <1>7, <1>8, <1>9

\* The datasets of a submission.
LEMMA WriteDatasetDecided ==
    ASSUME IInv, TypeOK', NEW t \in Threads, write_dataset(t)
    PROVE  Decided'
<1>1. At(t, "write_dataset") /\ TypeOK
  BY DEF write_dataset, IInv
<1>2. PICK c : c = Current(t)
  OBVIOUS
<1>3. PICK key : key = db.seq["dataset_attribution_suggestions"] + 1
  OBVIOUS
<1> DEFINE row(s) == [id |-> key, dataset |-> s.dataset, existing_word_id |-> c.existing_id,
                      suggested_word_id |-> c.new, is_delete |-> s.is_delete, user |-> c.user]
           inserted(s) ==
               [db EXCEPT !.dataset_attribution_suggestions = @ \cup {row(s)},
                          !.seq = Bump(@, "dataset_attribution_suggestions", key)]
           deleted(s) ==
               [db EXCEPT !.dataset_attribution_suggestions =
                   {r \in @ : ~(r.dataset = s.id /\ r.suggested_word_id = c.new)}]
<1>4. PICK s \in c.rows :
          \/ Write(t, DatasetSuggestionOk(db, row(s)), inserted(s), Loop(c, c.rows \ {s}))
          \/ Write(t, TRUE, deleted(s), Loop(c, c.rows \ {s}))
  BY <1>2, <1>3 DEF write_dataset
<1>5. db \in Database /\ key \in Nat
  <2>1. db \in Database /\ db.seq \in [AutoIncrement -> Nat]
    BY <1>1 DEF TypeOK, Database
  <2>2. "dataset_attribution_suggestions" \in AutoIncrement
    BY DEF AutoIncrement
  <2>3. db.seq["dataset_attribution_suggestions"] \in Nat
    BY <2>1, <2>2
  <2>4. QED
    BY <1>3, <2>1, <2>3
<1> HIDE DEF row
<1> DEFINE S == c.rows \ {s}
<1>6. ASSUME NEW allowed, NEW after, Write(t, allowed, after, Loop(c, S)), allowed => Mild(after)
      PROVE  Decided'
  <2> HIDE DEF S
  <2>1. QED
    BY <1>1, <1>2, <1>6, SubmissionWrites
<1>7. CASE Write(t, DatasetSuggestionOk(db, row(s)), inserted(s), Loop(c, c.rows \ {s}))
  <2> DEFINE after == inserted(s)
             allowed == DatasetSuggestionOk(db, row(s))
  <2>1. Write(t, allowed, after, Loop(c, S))
    BY <1>7
  <2>2. /\ after.words = db.words /\ after.examples = db.examples
        /\ after.linked_words = db.linked_words
        /\ after.word_suggestions = db.word_suggestions
        /\ after.word_deletion_suggestions = db.word_deletion_suggestions
        /\ after.seq = Bump(db.seq, "dataset_attribution_suggestions", key)
        /\ "dataset_attribution_suggestions" \in AutoIncrement
    BY <1>5 DEF Database, AutoIncrement
  <2> HIDE DEF after, allowed, S
  <2>3. Mild(after)
    BY <1>1, <1>5, <2>2, TablesMild
  <2>4. QED
    BY <1>6, <2>1, <2>3
<1>8. CASE Write(t, TRUE, deleted(s), Loop(c, c.rows \ {s}))
  <2> DEFINE after == deleted(s)
             allowed == TRUE
  <2>1. Write(t, allowed, after, Loop(c, S))
    BY <1>8
  <2>2. /\ after.words = db.words /\ after.examples = db.examples
        /\ after.linked_words = db.linked_words
        /\ after.word_suggestions = db.word_suggestions
        /\ after.word_deletion_suggestions = db.word_deletion_suggestions
        /\ after.seq = db.seq /\ "words" \in AutoIncrement /\ 0 \in Nat
    BY <1>5 DEF Database, AutoIncrement
  <2> HIDE DEF after, allowed, S
  <2>3. Mild(after)
    BY <1>1, <2>2, TablesMild
  <2>4. QED
    BY <1>6, <2>1, <2>3
<1>9. QED
  BY <1>4, <1>7, <1>8

\* A submission reads the original of what it edits.
LEMMA ReadOriginalDecided ==
    ASSUME IInv, TypeOK', NEW t \in Threads, read_original(t)
    PROVE  Decided'
<1>1. At(t, "read_original")
  BY DEF read_original
<1> DEFINE w == Current(t).word
           found == w.suggestion_id \in Ids(db.word_suggestions)
           populates == found => LinksPopulate(db, w.suggestion_id)
           x(changed) == [op |-> "insert_suggestion", word |-> w, found |-> found,
                          changed |-> changed]
<1>2. PICK changed \in BOOLEAN : Read(t, populates, <<x(changed)>>, {})
  BY DEF read_original
<1> DEFINE y == x(changed)
           X == {y}
           p == <<y>>
           about == {}
<1>3. y.op = "insert_suggestion"
  OBVIOUS
<1>4. Read(t, populates, p, about)
  BY <1>2
<1> HIDE DEF y, populates, about
<1>5. p \in Seq(X) /\ \A s \in X : s.op \in SubmissionOps
  BY <1>3 DEF SubmissionOps
<1>6. "read_original" \in SubmissionOps \ SharedOps
  BY DEF SubmissionOps, SharedOps
<1> HIDE DEF p, X
<1>7. QED
  BY <1>1, <1>4, <1>5, <1>6, ReadGoesOn

\* A part of a submission reads what is there and goes on to write it in loops.
LEMMA LoopsDecided ==
    ASSUME IInv, TypeOK', NEW t \in Threads, NEW op \in SubmissionOps \ SharedOps, At(t, op),
           NEW c, c.op \in SubmissionOps, NEW d, d.op \in SubmissionOps, NEW S, NEW T,
           [c EXCEPT !.rows = S].op = c.op, [d EXCEPT !.rows = T].op = d.op,
           NEW about, NEW found, Read(t, found, Loop(c, S) \o Loop(d, T), about)
    PROVE  Decided'
<1> DEFINE x == [c EXCEPT !.rows = S]
           y == [d EXCEPT !.rows = T]
           X == {x, y}
           p == Loop(c, S) \o Loop(d, T)
<1>1. x.op \in SubmissionOps /\ y.op \in SubmissionOps
  OBVIOUS
<1>2. Loop(c, S) \in Seq({x}) /\ Loop(d, T) \in Seq({y})
  BY LoopStatements
<1> HIDE DEF x, y
<1>3. p \in Seq(X)
  <2> DEFINE q == Loop(c, S)
             r == Loop(d, T)
  <2>1. q \in Seq(X) /\ r \in Seq(X)
    BY <1>2
  <2> HIDE DEF q, r, X
  <2>2. q \o r \in Seq(X)
    BY <2>1
  <2>3. QED
    BY <2>2 DEF q, r
<1>4. \A s \in X : s.op \in SubmissionOps
  BY <1>1
<1>5. Read(t, found, p, about)
  OBVIOUS
<1> HIDE DEF p, X
<1>6. QED
  BY <1>3, <1>4, <1>5, ReadGoesOn

\* A submission reads the links it edits.
LEMMA ProcessLinksDecided ==
    ASSUME IInv, TypeOK', NEW t \in Threads, process_linked_words(t)
    PROVE  Decided'
<1>1. At(t, "process_linked_words")
  BY DEF process_linked_words
<1> DEFINE c == [op |-> "write_link", rows |-> {}]
           about == {}
           found == TRUE
<1>2. \/ Panic(t)
      \/ \E S, T : Read(t, found, Loop(c, S) \o Loop(c, T), about)
  BY DEF process_linked_words
<1>3. /\ c.op \in SubmissionOps /\ \A S : [c EXCEPT !.rows = S].op = c.op
      /\ "process_linked_words" \in SubmissionOps \ SharedOps
  BY DEF SubmissionOps, SharedOps
<1> HIDE DEF c, about, found
<1>4. QED
  BY <1>1, <1>2, <1>3, LoopsDecided, PanicDecided

\* A submission reads the examples it edits.
LEMMA ProcessExamplesDecided ==
    ASSUME IInv, TypeOK', NEW t \in Threads, process_examples(t)
    PROVE  Decided'
<1>1. At(t, "process_examples")
  BY DEF process_examples
<1> DEFINE c == [op |-> "write_example", rows |-> {}]
           about == {}
           found == TRUE
<1>2. \E S, T : Read(t, found, Loop(c, S) \o Loop(c, T), about)
  BY DEF process_examples
<1>3. /\ c.op \in SubmissionOps /\ \A S : [c EXCEPT !.rows = S].op = c.op
      /\ "process_examples" \in SubmissionOps \ SharedOps
  BY DEF SubmissionOps, SharedOps
<1> HIDE DEF c, about, found
<1>4. QED
  BY <1>1, <1>2, <1>3, LoopsDecided

\* A submission reads the datasets it edits.
LEMMA ProcessDatasetsDecided ==
    ASSUME IInv, TypeOK', NEW t \in Threads, process_datasets(t)
    PROVE  Decided'
<1>1. At(t, "process_datasets")
  BY DEF process_datasets
<1> DEFINE w == Current(t).word
           c == [op |-> "write_dataset", rows |-> {}, new |-> Current(t).new,
                 existing_id |-> w.existing_id, user |-> w.user]
           about == {}
           found == TRUE
<1>2. PICK S : Read(t, found, Loop(c, S), about)
  BY DEF process_datasets
<1> DEFINE x == [c EXCEPT !.rows = S]
           X == {x}
           p == Loop(c, S)
<1>3. x.op = "write_dataset" /\ "process_datasets" \in SubmissionOps \ SharedOps
  BY DEF SubmissionOps, SharedOps
<1> HIDE DEF c, about, found
<1>4. p \in Seq(X)
  BY LoopStatements
<1>5. \A s \in X : s.op \in SubmissionOps
  BY <1>3 DEF SubmissionOps
<1> HIDE DEF x, X
<1>6. Read(t, found, p, about)
  BY <1>2
<1> HIDE DEF p
<1>7. QED
  BY <1>1, <1>3, <1>4, <1>5, <1>6, ReadGoesOn

\* What comes after the row of a submission is still the submission.
LEMMA AfterInsertStatements ==
    ASSUME NEW c, NEW s
    PROVE  \E X : AfterInsert(c, s) \in Seq(X) /\ \A x \in X : x.op \in SubmissionOps
<1> DEFINE new == IF c.word.existing_id = Null THEN s ELSE Null
           indexed == new # Null /\ (~c.found \/ c.changed)
           put == IndexPut(Suggested(new))
           links == [op |-> "process_linked_words", word |-> c.word, new |-> new]
           examples == [op |-> "process_examples", word |-> c.word, new |-> new]
           datasets == [op |-> "process_datasets", word |-> c.word, new |-> new]
           first == IF indexed THEN <<put>> ELSE <<>>
           X == {put, links, examples, datasets}
<1>1. AfterInsert(c, s) = first \o <<links, examples, datasets>>
  BY DEF AfterInsert, ProcessParts
<1>2. /\ put.op = "index_put" /\ links.op = "process_linked_words"
      /\ examples.op = "process_examples" /\ datasets.op = "process_datasets"
  BY DEF IndexPut
<1> HIDE DEF put, links, examples, datasets, indexed
<1>3. \A x \in X : x.op \in SubmissionOps
  BY <1>2 DEF SubmissionOps, SharedOps
<1>4. first \in Seq(X) /\ <<links, examples, datasets>> \in Seq(X)
  <2>1. put \in X /\ links \in X /\ examples \in X /\ datasets \in X
    OBVIOUS
  <2> HIDE DEF X
  <2>2. <<>> \in Seq(X) /\ <<put>> \in Seq(X) /\ <<links, examples, datasets>> \in Seq(X)
    BY <2>1
  <2>3. QED
    BY <2>2
<1> HIDE DEF first, X
<1>5. first \o <<links, examples, datasets>> \in Seq(X)
  BY <1>4
<1>6. QED
  BY <1>1, <1>3, <1>5

\* The row of a suggestion is new, was there, or comes back and is excused.
LEMMA InsertSuggestionDecided ==
    ASSUME IInv, TypeOK', NEW t \in Threads, insert_suggestion(t)
    PROVE  Decided'
<1>1. At(t, "insert_suggestion") /\ TypeOK /\ IdsPassed
  BY DEF insert_suggestion, IInv, Decided
<1>2. PICK c : c = Current(t)
  OBVIOUS
<1>3. PICK s : s = KeyOrNext(db, "word_suggestions", c.word.suggestion_id)
  OBVIOUS
<1>4. c.word.suggestion_id \in Nat /\ c.op = "insert_suggestion"
  <2>1. c \in SubmitStatement /\ c.op = "insert_suggestion"
    BY <1>1, <1>2, AtSubmit, ProgramAt DEF IInv, Decided
  <2>2. c.word \in WordSubmission
    BY <2>1 DEF SubmitStatement
  <2>3. QED
    BY <2>1, <2>2 DEF WordSubmission, OptionalId
<1>5. "insert_suggestion" \in SubmissionOps \ (SharedOps \cup AcceptanceOps)
  BY DEF SubmissionOps, AcceptanceOps, SharedOps
<1> DEFINE old == {r \in db.word_suggestions : r.id = s}
           user == IF old = {} THEN c.word.user ELSE RowOf(old, s).user
           row == [id |-> s, existing_word_id |-> c.word.existing_id, user |-> user]
           statements == AfterInsert(c, s)
           about == {Suggested(s)}
<1>6. CASE ~c.changed
  <2> DEFINE found == TRUE
             p == AfterInsert(c, c.word.suggestion_id)
             none == {}
  <2>1. Read(t, found, p, none)
    BY <1>2, <1>6 DEF insert_suggestion
  <2>2. PICK X : p \in Seq(X) /\ \A x \in X : x.op \in SubmissionOps
    BY AfterInsertStatements
  <2> HIDE DEF p, found, none
  <2>3. QED
    BY <1>1, <1>5, <2>1, <2>2, ReadGoesOn
<1>7. CASE Refuse(t)
  BY <1>1, <1>5, <1>7, RefuseDecided
<1>8. CASE /\ db' = [db EXCEPT !.word_suggestions = Put(@, row),
                               !.seq = Bump(@, "word_suggestions", s)]
           /\ Continue(t, statements, about)
           /\ broken' = IF c.word.suggestion_id # Null /\ old = {}
                        THEN broken \cup {Suggested(s)} ELSE broken
           /\ UNCHANGED origin
           /\ Observe
  <2>1. /\ db.seq \in [AutoIncrement -> Nat] /\ "word_suggestions" \in AutoIncrement
        /\ db.seq["word_suggestions"] \in Nat
    <3>1. db.seq \in [AutoIncrement -> Nat]
      BY <1>1 DEF TypeOK, Database
    <3>2. "word_suggestions" \in AutoIncrement
      BY DEF AutoIncrement
    <3>3. QED
      BY <3>1, <3>2
  <2>2. /\ s \in Nat
        /\ c.word.suggestion_id = Null => s > db.seq["word_suggestions"]
        /\ c.word.suggestion_id # Null => s = c.word.suggestion_id
    BY <1>3, <1>4, <2>1 DEF KeyOrNext
  <2> DEFINE seq == Bump(db.seq, "word_suggestions", s)
  <2>3. /\ \A table \in AutoIncrement : db.seq[table] <= seq[table]
        /\ s <= seq["word_suggestions"]
    BY <2>1, <2>2, BumpPasses
  <2>4. row.id = s
    OBVIOUS
  <2> HIDE DEF row, seq
  <2>5. /\ db'.words = db.words /\ db'.examples = db.examples
        /\ db'.linked_words = db.linked_words
        /\ db'.word_suggestions = Put(db.word_suggestions, row)
        /\ db'.word_deletion_suggestions = db.word_deletion_suggestions
        /\ db'.seq = seq
    BY <1>1, <1>8 DEF TypeOK, Database, seq
  <2>6. Entries(db') = Entries(db)
    BY <2>5 DEF Entries
  <2>7. SequencesGrow
    BY <2>3, <2>5 DEF SequencesGrow
  <2>8. SuggestionsLawful
    <3>1. ASSUME NEW r \in db'.word_suggestions
          PROVE  /\ r.id <= db'.seq["word_suggestions"]
                 /\ \/ r.id \in Ids(db.word_suggestions)
                    \/ r.id > db.seq["word_suggestions"]
                    \/ Suggested(r.id) \in Excused'
      <4>1. CASE r = row
        <5>1. old # {} => s \in Ids(db.word_suggestions)
          BY DEF Ids
        <5>2. c.word.suggestion_id # Null /\ old = {} => Suggested(s) \in Excused'
          BY <1>8 DEF Excused
        <5>3. QED
          BY <2>2, <2>3, <2>4, <2>5, <4>1, <5>1, <5>2
      <4>2. CASE r # row
        <5>1. r \in db.word_suggestions
          BY <2>5, <4>2 DEF Put
        <5>2. r.id \in Nat /\ r.id <= db.seq["word_suggestions"]
          BY <1>1, <5>1 DEF IdsPassed, TypeOK, Database, WordSuggestionRow, Id
        <5>3. seq["word_suggestions"] \in Nat
          BY <2>1, <2>2, BumpType DEF seq
        <5>4. r.id <= seq["word_suggestions"]
          BY <2>1, <2>3, <5>2, <5>3
        <5>5. QED
          BY <2>5, <5>1, <5>4 DEF Ids
      <4>3. QED
        BY <4>1, <4>2
    <3>2. QED
      BY <3>1 DEF SuggestionsLawful
  <2>9. DeletionsLawful
    BY <2>5 DEF DeletionsLawful
  <2>10. Lawful(t)
    BY <1>8, <2>6, <2>7, <2>8, <2>9 DEF Lawful, EntriesLawful, OriginLawful
  <2>11. broken \subseteq broken'
    BY <1>8
  <2>12. PICK X : statements \in Seq(X) /\ \A x \in X : x.op \in SubmissionOps
    BY AfterInsertStatements
  <2>13. \A x \in X : Sure(t, x)
    BY <2>12, Inert DEF InertOps
  <2> HIDE DEF statements, about
  <2>14. "insert_suggestion" # "delete_word_suggestion"
    OBVIOUS
  <2>15. Continue(t, statements, about) /\ Observe /\ origin' = origin
    BY <1>8
  <2>16. Entries(db) \subseteq Entries(db')
    BY <2>6
  <2>17. QED
    BY <1>1, <1>5, <2>10, <2>11, <2>12, <2>13, <2>14, <2>15, <2>16, GoesOn
<1>9. QED
  BY <1>2, <1>3, <1>6, <1>7, <1>8 DEF insert_suggestion

-----------------------------------------------------------------------------
(* The deletion of a word, an example or a link *)

\* A cascade brings no row and gives no key out.
LEMMA CascadeTakes ==
    ASSUME NEW d \in Database
    PROVE  /\ Cascade(d).words = d.words /\ Cascade(d).seq = d.seq
           /\ Cascade(d).word_suggestions \subseteq d.word_suggestions
           /\ Cascade(d).examples \subseteq d.examples
           /\ Cascade(d).linked_words \subseteq d.linked_words
           /\ Cascade(d).word_deletion_suggestions \subseteq d.word_deletion_suggestions
<1> DEFINE p == CascadeParents(d)
<1>1. /\ p \in Database /\ p.words = d.words /\ p.seq = d.seq
      /\ p.word_suggestions \subseteq d.word_suggestions
      /\ p.examples \subseteq d.examples /\ p.linked_words \subseteq d.linked_words
      /\ p.word_deletion_suggestions = d.word_deletion_suggestions
  BY DEF Database, CascadeParents
<1> HIDE DEF p
<1> DEFINE c == CascadeLeaves(p)
<1>2. /\ c.words = p.words /\ c.seq = p.seq
      /\ c.word_suggestions = p.word_suggestions
      /\ c.examples = p.examples /\ c.linked_words = p.linked_words
      /\ c.word_deletion_suggestions \subseteq p.word_deletion_suggestions
  BY <1>1 DEF Database, CascadeLeaves
<1>3. Cascade(d) = c
  BY DEF Cascade, p
<1> HIDE DEF c
<1>4. QED
  BY <1>1, <1>2, <1>3

\* Nor does the DELETE of a word, an example or a link.
LEMMA DeletesTake ==
    ASSUME NEW d \in Database, NEW id,
           NEW after \in {WithoutWord(d, id), WithoutExample(d, id), WithoutLinkedWord(d, id)}
    PROVE  /\ after.words \subseteq d.words /\ after.seq = d.seq
           /\ after.word_suggestions \subseteq d.word_suggestions
           /\ after.examples \subseteq d.examples
           /\ after.linked_words \subseteq d.linked_words
           /\ after.word_deletion_suggestions \subseteq d.word_deletion_suggestions
<1>1. PICK less \in {[d EXCEPT !.words = @ \ {id}], [d EXCEPT !.examples = Drop(@, id)],
                     [d EXCEPT !.linked_words = Drop(@, id)]} : after = Cascade(less)
  BY DEF WithoutWord, WithoutExample, WithoutLinkedWord
<1>2. /\ less \in Database
      /\ less.words \subseteq d.words /\ less.seq = d.seq
      /\ less.word_suggestions = d.word_suggestions
      /\ less.examples \subseteq d.examples
      /\ less.linked_words \subseteq d.linked_words
      /\ less.word_deletion_suggestions = d.word_deletion_suggestions
  <2>1. CASE less = [d EXCEPT !.words = @ \ {id}]
    BY <2>1 DEF Database
  <2>2. CASE less = [d EXCEPT !.examples = Drop(@, id)]
    BY <2>2 DEF Database, Drop
  <2>3. CASE less = [d EXCEPT !.linked_words = Drop(@, id)]
    BY <2>3 DEF Database, Drop
  <2>4. QED
    BY <1>1, <2>1, <2>2, <2>3
<1>3. QED
  BY <1>1, <1>2, CascadeTakes

\* A program of one statement is not over.
LEMMA OneLeft ==
    ASSUME NEW S, NEW p \in Seq(S), Len(p) = 1
    PROVE  p # <<>>
OBVIOUS

\* What a deletion takes with it, the request is about.
LEMMA DeletingDecided ==
    ASSUME IInv, TypeOK', NEW t \in Threads, NEW op \in DeleteOps, At(t, op), NEW id,
           NEW after \in {WithoutWord(db, id), WithoutExample(db, id), WithoutLinkedWord(db, id)},
           NEW allowed, allowed = TRUE, Write(t, allowed, after, <<>>)
    PROVE  Decided'
<1>1. TypeOK /\ ThreadsKnown /\ IdsPassed /\ todo[t] # <<>>
  BY DEF IInv, Decided, At
<1> DEFINE X == {}
           p == <<>>
           about == Entries(db) \ Entries(after)
<1>2. /\ db' = after /\ Continue(t, p, about) /\ UNCHANGED <<origin, broken>> /\ Observe
      /\ p \in Seq(X)
  BY DEF Write
<1>3. about = Entries(db) \ Entries(db')
  BY <1>2
<1>4. /\ db'.words \subseteq db.words /\ db'.seq = db.seq
      /\ db'.word_suggestions \subseteq db.word_suggestions
      /\ db'.examples \subseteq db.examples
      /\ db'.linked_words \subseteq db.linked_words
      /\ db'.word_deletion_suggestions \subseteq db.word_deletion_suggestions
      /\ db.seq \in [AutoIncrement -> Nat]
  <2>1. db \in Database /\ db.seq \in [AutoIncrement -> Nat]
    BY <1>1 DEF TypeOK, Database
  <2>2. QED
    BY <1>2, <2>1, DeletesTake
<1>5. /\ Len(Tail(todo[t])) = 1 /\ Issues(Tail(todo[t]), SharedOps)
  BY <1>1, ShapeAt
<1>6. todo'[t] = Tail(todo[t])
  <2>1. todo \in [Threads -> Seq(Statement)] /\ Tail(todo[t]) \in Seq(Statement)
    BY <1>1 DEF TypeOK
  <2>2. QED
    BY <1>2, <2>1 DEF Continue
<1> HIDE DEF X, p, about
<1>7. /\ Acts(t)
      /\ todo'[t] # <<>> => claims'[t] = claims[t] \cup about
  BY <1>1, <1>2, Continued DEF Acts
<1>8. claims'[t] = claims[t] \cup about
  <2> DEFINE rest == Tail(todo[t])
  <2>1. rest \in Seq(Statement) /\ Len(rest) = 1 /\ todo'[t] = rest
    BY <1>1, <1>5, <1>6, ProgramAt
  <2> HIDE DEF rest
  <2>2. rest # <<>>
    BY <2>1, OneLeft
  <2>3. QED
    BY <1>7, <2>1, <2>2
<1>9. SequencesGrow /\ DeletionsLawful /\ OriginLawful(t)
  BY <1>2, <1>4 DEF SequencesGrow, DeletionsLawful, OriginLawful
<1>10. EntriesLawful(t)
  <2>1. Entries(db') \subseteq Entries(db)
    BY <1>4 DEF Entries, Ids
  <2>2. QED
    BY <1>3, <1>8, <2>1 DEF EntriesLawful
<1>11. SuggestionsLawful
  BY <1>1, <1>4 DEF SuggestionsLawful, IdsPassed, Ids
<1>12. Shaped(todo'[t])
  BY <1>5, <1>6 DEF Shaped, Issues, AcceptanceOps
<1>13. \A s \in Statements(todo'[t]) : Sure(t, s)'
  BY <1>5, <1>6, Inert DEF Issues, InertOps, SubmissionOps
<1>14. \A s : ~WillDelete(t, s)
  <2>1. op \notin AcceptanceOps
    BY DEF AcceptanceOps, SharedOps, DeleteOps
  <2>2. QED
    BY <1>1, <2>1, NoDeleteAhead
<1>15. QED
  BY <1>7, <1>9, <1>10, <1>11, <1>12, <1>13, <1>14, StepDecided DEF Lawful, Prepared

\* The three of them.
LEMMA DeletesDecided ==
    ASSUME IInv, TypeOK', NEW t \in Threads, delete_word(t) \/ delete_example(t) \/ delete_link(t)
    PROVE  Decided'
<1> DEFINE id == Current(t).id
           allowed == TRUE
<1>1. PICK op \in DeleteOps : At(t, op)
  BY DEF delete_word, delete_example, delete_link, DeleteOps
<1>2. PICK after \in {WithoutWord(db, id), WithoutExample(db, id), WithoutLinkedWord(db, id)} :
          Write(t, allowed, after, <<>>)
  BY DEF delete_word, delete_example, delete_link
<1>3. allowed = TRUE
  OBVIOUS
<1> HIDE DEF id, allowed
<1>4. QED
  BY <1>1, <1>2, <1>3, DeletingDecided

-----------------------------------------------------------------------------
(* Every step *)

\* A client that hangs up leaves the document of the word it deleted.
LEMMA AbandonDecided ==
    ASSUME IInv, TypeOK', NEW t \in Threads, abandon_deletion(t)
    PROVE  Decided'
BY PanicDecided DEF abandon_deletion

\* What a thread does for a decision keeps what was decided.
LEMMA DecisionsDecided ==
    ASSUME IInv, TypeOK', NEW t \in Threads,
           \/ fetch_alone(t) \/ fetch_examples(t) \/ fetch_linked_words(t) \/ fetch_datasets(t)
           \/ accept_just_word(t) \/ accept_example(t) \/ accept_dataset(t)
           \/ accept_link_of_word(t) \/ delete_word_suggestion(t)
           \/ fetch_example(t) \/ fetch_link(t) \/ accept_link(t) \/ fetch_dataset(t)
           \/ fetch_word_deletion(t) \/ delete_word(t)
           \/ fetch_example_deletion(t) \/ delete_example(t)
           \/ fetch_link_deletion(t) \/ delete_link(t)
    PROVE  Decided'
BY FetchAloneDecided, FetchExamplesDecided, FetchLinkedWordsDecided, FetchDatasetsDecided,
   AcceptJustWordDecided, AcceptExampleDecided, AcceptDatasetDecided,
   AcceptLinkOfWordDecided, DeleteSuggestionDecided,
   FetchExampleDecided, FetchLinkDecided, AcceptLinkDecided, FetchDatasetDecided,
   FetchWordDeletionDecided, FetchExampleDeletionDecided, FetchLinkDeletionDecided,
   DeletesDecided

\* So does what it does for a submission, and what every thread may do.
LEMMA SubmissionsDecided ==
    ASSUME IInv, TypeOK', NEW t \in Threads,
           \/ read_original(t) \/ insert_suggestion(t)
           \/ process_linked_words(t) \/ write_link(t)
           \/ process_examples(t) \/ write_example(t)
           \/ process_datasets(t) \/ write_dataset(t)
           \/ insert_word_deletion(t)
           \/ ExecAddUserAttribution(t) \/ ExecDeleteRow(t) \/ ExecIndex(t)
    PROVE  Decided'
BY ReadOriginalDecided, InsertSuggestionDecided, ProcessLinksDecided, WriteLinkDecided,
   ProcessExamplesDecided, WriteExampleDecided, ProcessDatasetsDecided, WriteDatasetDecided,
   InsertWordDeletionDecided, AttributionDecided, DeleteRowDecided, IndexDecided

\* A form that is shown changes nothing that was decided.
LEMMA PagesDecided ==
    ASSUME IInv, TypeOK', edit_word_page \/ edit_suggestion_page
    PROVE  Decided'
<1>1. UNCHANGED <<db, origin, broken, todo, claims>> /\ Observe
  BY DEF edit_word_page, edit_suggestion_page, Show
<1>2. QED
  BY <1>1, StillDecided

\* A crash excuses what the requests were about.
LEMMA CrashDecided ==
    ASSUME IInv, TypeOK', Crash
    PROVE  Decided'
<1>1. /\ UNCHANGED <<db, origin>> /\ Observe
      /\ todo' = [t \in Threads |-> <<>>]
      /\ broken' = broken \cup UNION {claims[t] : t \in Threads}
  BY DEF Crash
<1>2. \A t \in Threads : claims[t] \subseteq broken'
  BY <1>1
<1>3. QED
  BY <1>1, <1>2, StillDecided

\* A step in which nothing happens changes nothing that was decided.
LEMMA StutterDecided ==
    ASSUME IInv, UNCHANGED vars
    PROVE  Decided'
<1>1. /\ UNCHANGED <<db, todo, claims, origin, broken, overlapped, gone, pages>>
  BY DEF vars
<1>2. ThreadsKnown'
  BY <1>1 DEF IInv, Decided, ThreadsKnown, Sure, FetchedKnown, Secured, ExamplesSecured,
     LinksSecured, Undecided, Excused
<1>3. IdsPassed' /\ PagesKnown'
  BY <1>1 DEF IInv, Decided, IdsPassed, PagesKnown
<1>4. OriginsKnown'
  BY <1>1 DEF IInv, Decided, OriginsKnown, WillDelete, Excused
<1>5. OneWordPerSuggestion' /\ NothingDeletedReturns'
  BY <1>1 DEF IInv, Decided, OneWordPerSuggestion, NothingDeletedReturns, Excused
<1>6. QED
  BY <1>2, <1>3, <1>4, <1>5 DEF Decided

\* Every step of the server keeps what was decided.
LEMMA NextDecided ==
    ASSUME IInv, TypeOK', [Next]_vars
    PROVE  Decided'
<1>1. ASSUME NEW t \in Threads, Serve(t)
      PROVE  Decided'
  BY <1>1, DecisionsDecided, SubmissionsDecided DEF Serve
<1>2. QED
  BY <1>1, RequestDecided, AbandonDecided, PagesDecided, CrashDecided, StutterDecided DEF Next

\* In a database the program can have nothing was decided yet.
LEMMA InitialDecided ==
    ASSUME Init
    PROVE  Decided
<1>1. /\ Consistent(db) /\ pages = Listed(db) /\ gone = {} /\ origin = {}
      /\ todo = [t \in Threads |-> <<>>]
  BY DbsAssumption DEF Init
<1>2. ThreadsKnown
  <2>1. Statements(<<>>) = {}
    BY DEF Statements
  <2>2. QED
    BY <1>1, <2>1 DEF ThreadsKnown, Shaped, Issues
<1>3. IdsPassed
  <2>1. ASSUME NEW ref \in Entries(db)
        PROVE  ref[2] <= LastId(db, ref)
    <3>1. CASE \E w \in db.words : ref = Existing(w)
      <4>1. PICK w \in db.words : ref = Existing(w)
        BY <3>1
      <4>2. ref[1] = "existing" /\ ref[2] = w
        BY <4>1 DEF Existing
      <4>3. QED
        BY <1>1, <4>1, <4>2 DEF Consistent, KeysAllocated, SequencePassed, LastId
    <3>2. CASE \E e \in Ids(db.examples) : ref = <<"example", e>>
      <4>1. PICK e \in Ids(db.examples) : ref = <<"example", e>>
        BY <3>2
      <4>2. ref[1] = "example" /\ ref[2] = e
        BY <4>1
      <4>3. QED
        BY <1>1, <4>1, <4>2 DEF Consistent, KeysAllocated, SequencePassed, LastId
    <3>3. CASE \E l \in Ids(db.linked_words) : ref = <<"link", l>>
      <4>1. PICK l \in Ids(db.linked_words) : ref = <<"link", l>>
        BY <3>3
      <4>2. ref[1] = "link" /\ ref[2] = l
        BY <4>1
      <4>3. QED
        BY <1>1, <4>1, <4>2 DEF Consistent, KeysAllocated, SequencePassed, LastId
    <3>4. QED
      BY <3>1, <3>2, <3>3 DEF Entries
  <2>2. \A r \in db.word_suggestions : r.id <= db.seq["word_suggestions"]
    BY <1>1 DEF Consistent, KeysAllocated, SequencePassed, Ids
  <2>3. pages.word = db.word_deletion_suggestions
    BY <1>1 DEF Listed
  <2>4. \A r \in pages.word : r.id <= db.seq["word_deletion_suggestions"]
    BY <1>1, <2>3 DEF Consistent, KeysAllocated, SequencePassed, Ids
  <2>5. QED
    BY <1>1, <2>1, <2>2, <2>4 DEF IdsPassed
<1>4. PagesKnown
  BY <1>1 DEF PagesKnown, Listed, Consistent, KeysUnique
<1>5. OriginsKnown /\ OneWordPerSuggestion /\ NothingDeletedReturns
  BY <1>1 DEF OriginsKnown, OneWordPerSuggestion, NothingDeletedReturns
<1>6. QED
  BY <1>2, <1>3, <1>4, <1>5 DEF Decided

-----------------------------------------------------------------------------
(* Theorems *)

\* What was decided stays decided, but for rows that two requests were about at
\* once, one was cut short on or an old form brought back (Excused); and what each
\* thread has read of the others stays true.
THEOREM DecisionsStand == Spec => []IInv
<1>1. Init => IInv
  BY InitialType, InitialDecided DEF IInv
<1>2. IInv /\ [Next]_vars => IInv'
  <2>1. IInv /\ [Next]_vars => TypeOK' /\ References'
    BY StepType, StepReferences DEF IInv
  <2>2. QED
    BY <2>1, NextDecided DEF IInv
<1>3. QED
  BY <1>1, <1>2, PTL DEF Spec

\* A suggestion of a new word becomes one word at most, unless two requests were
\* about it at once or one was cut short: requests that follow one another, from
\* pages of any age, do not accept it again.
THEOREM SuggestionsBecomeOneWord == Spec => []OneWordPerSuggestion
<1>1. IInv => OneWordPerSuggestion
  BY DEF IInv, Decided
<1>2. QED
  BY <1>1, DecisionsStand, PTL

\* A word, an example or a link that was deleted stays deleted, whatever had been
\* suggested about it before.
THEOREM DeletedStaysDeleted == Spec => []NothingDeletedReturns
<1>1. IInv => NothingDeletedReturns
  BY DEF IInv, Decided
<1>2. QED
  BY <1>1, DecisionsStand, PTL

\* The word that is deleted is the one a moderation page showed beside the
\* suggestion to delete it.
THEOREM ShownWordIsDeleted == Spec => []DeletesTheWordShown
<1>1. IInv => DeletesTheWordShown
  <2>1. ASSUME IInv, NEW t \in Threads, At(t, "delete_word")
        PROVE  Current(t).id = Current(t).shown
    BY <2>1, ProgramAt DEF IInv, Decided, Sure
  <2>2. QED
    BY <2>1 DEF DeletesTheWordShown
<1>2. QED
  BY <1>1, DecisionsStand, PTL
=============================================================================
