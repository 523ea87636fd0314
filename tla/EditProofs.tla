---------------------------- MODULE EditProofs ------------------------------
(* Edits of examples stay filed under the words they are of, edits of links   *)
(* under their links.  A form that is sent back with its parts as it showed   *)
(* them changes none.                                                        *)
EXTENDS ModerationProofs

SentOps == {"read_original", "insert_suggestion"}
ProcessOps == {"process_linked_words", "process_examples", "process_datasets"}
Upserts(s) == {x.row : x \in {y \in s.rows : y.do = "upsert"}}

-----------------------------------------------------------------------------
(* Edits of examples and of links, wherever they are: in the tables, in forms *)
(* and in what threads have yet to issue.  That of an example is told as      *)
(* <<suggestion, example, word>> and that of a link as <<suggestion, link>>.  *)

FormExamples(w) == {<<e.suggestion_id, e.existing_id, w.existing_id>> : e \in w.examples}
FormLinks(w) == {<<e.suggestion_id, e.existing_id>> : e \in w.links}
RowExamples(T) == {<<r.id, r.existing_example_id, r.existing_word_id>> : r \in T}
RowLinks(T) == {<<r.id, r.existing_linked_word_id>> : r \in T}
TakenExamples(T, word) == {<<r.id, r.existing_example_id, word>> : r \in T}
TakenLinks(T) == {<<l.id, l.existing_id>> : l \in T}

WordOps == SentOps \cup ProcessOps
StatementExamples(s) ==
    IF s.op \in WordOps THEN FormExamples(s.word)
    ELSE IF s.op = "write_example" THEN RowExamples(Upserts(s))
    ELSE IF s.op = "accept_examples" THEN TakenExamples(s.rows, s.word_id)
    ELSE IF s.op \in FetchedOps THEN TakenExamples(s.examples, Null)
    ELSE {}
StatementLinks(s) ==
    IF s.op \in WordOps THEN FormLinks(s.word)
    ELSE IF s.op = "write_link" THEN RowLinks(Upserts(s))
    ELSE IF s.op = "accept_links" THEN TakenLinks(s.rows)
    ELSE IF s.op \in FetchedOps THEN TakenLinks(s.links)
    ELSE {}

TableExamples(d) ==
    RowExamples(d.example_suggestions) \cup {<<Null, x.id, x.word_id>> : x \in d.examples}

Queue == UNION {Statements(todo[t]) : t \in Threads}
ToldExamples == TableExamples(db) \cup (UNION {FormExamples(f) : f \in forms})
                \cup (UNION {StatementExamples(s) : s \in Queue})
ToldLinks == RowLinks(db.linked_word_suggestions) \cup (UNION {FormLinks(f) : f \in forms})
             \cup (UNION {StatementLinks(s) : s \in Queue})

\* A suggestion is of one example or link, and an example is of one word; none of
\* them is still to come.
ExamplesFiled(M, suggestions, examples) ==
    /\ \A p, q \in M : p[1] = q[1] /\ p[1] # Null => p[2] = q[2]
    /\ \A p, q \in M : p[2] = q[2] /\ p[2] # Null => p[3] = q[3]
    /\ \A p \in M : /\ p[1] \in Nat /\ p[1] <= suggestions
                    /\ p[2] \in Nat /\ p[2] <= examples
                    /\ p[2] # Null => p[3] # Null
LinksFiled(M, suggestions) ==
    /\ \A p, q \in M : p[1] = q[1] /\ p[1] # Null => p[2] = q[2]
    /\ \A p \in M : p[1] \in Nat /\ p[1] <= suggestions

\* A link that is gone, or that two requests were about, may come back as another.
Lost(l) == <<"link", l>> \in gone \cup Excused
LinkOf(l, w) == \E r \in db.linked_words : r.id = l /\ w \in {r.first_word_id, r.second_word_id}

\* A link that a form has an id of is one of its word.
LinksKnown(w) ==
    \A e \in w.links :
        \/ e.existing_id = Null \/ Lost(e.existing_id)
        \/ w.existing_id # Null /\ LinkOf(e.existing_id, w.existing_id)
OneParent(r) == r.existing_example_id = Null \/ r.suggested_word_id = Null
NamesOne(r) ==
    \/ r.existing_linked_word_id = Null \/ Lost(r.existing_linked_word_id)
    \/ ~NamesTwo(r)
NewOrLost(links) == \A l \in links : l.existing_id = Null \/ Lost(l.existing_id)

Sound(s) ==
    /\ s.op \in WordOps => LinksKnown(s.word)
    /\ s.op \in ProcessOps => s.new = Null \/ s.word.existing_id = Null
    /\ s.op = "write_link" => \A r \in Upserts(s) : NamesOne(r)
    /\ s.op = "write_example" => \A r \in Upserts(s) : OneParent(r)
    /\ s.op \in FetchedOps =>
          NewOrLost(s.links) /\ \A r \in s.examples : r.existing_example_id = Null
    /\ s.op = "accept_links" => NewOrLost(s.rows)

\* The invariant of the edits.
Edited ==
    /\ ExamplesFiled(ToldExamples, db.seq["example_suggestions"], db.seq["examples"])
    /\ LinksFiled(ToldLinks, db.seq["linked_word_suggestions"])
    /\ Keyed(db.linked_words)
    /\ \A r \in db.example_suggestions : OneParent(r)
    /\ \A r \in db.linked_word_suggestions : NamesOne(r)
    /\ \A f \in forms : LinksKnown(f)
    /\ \A s \in Queue : Sound(s)

\* What is told already may be told again.
Retold(M, n) ==
    /\ n[1] = Null \/ \E p \in M : p[1] = n[1] /\ p[2] = n[2]
    /\ n[2] = Null \/ \E p \in M : p[2] = n[2] /\ p[3] = n[3]
RetoldLink(M, n) == n[1] = Null \/ \E p \in M : p[1] = n[1] /\ p[2] = n[2]
Vouched(s) ==
    /\ Sound(s)
    /\ \A n \in StatementExamples(s) : Retold(ToldExamples, n)
    /\ \A n \in StatementLinks(s) : RetoldLink(ToldLinks, n)
VouchedForm(f) ==
    /\ LinksKnown(f)
    /\ \A n \in FormExamples(f) : Retold(ToldExamples, n)
    /\ \A n \in FormLinks(f) : RetoldLink(ToldLinks, n)

\* A write may add a suggestion, or an example, under the next number.
NextExample(d, M, n) ==
    /\ n[1] \in Nat /\ n[1] <= d.seq["example_suggestions"]
    /\ n[2] \in Nat /\ n[2] <= d.seq["examples"]
    /\ \/ /\ n[1] > db.seq["example_suggestions"]
          /\ n[2] = Null \/ \E p \in M : p[2] = n[2] /\ p[3] = n[3]
       \/ n[1] = Null /\ n[2] > db.seq["examples"] /\ n[3] # Null
NextLink(d, n) ==
    /\ n[1] \in Nat /\ n[1] > db.seq["linked_word_suggestions"]
    /\ n[1] <= d.seq["linked_word_suggestions"]

NumbersGrow(d) ==
    \A table \in {"example_suggestions", "examples", "linked_word_suggestions"} :
        db.seq[table] <= d.seq[table]
KeepsLinks(d) ==
    /\ Keyed(d.linked_words)
    /\ \A l \in db.linked_words : l \in d.linked_words \/ l.id \notin Ids(d.linked_words)

\* What a step leaves of the tables is filed where it was, but for one row.
Files(d) ==
    /\ NumbersGrow(d) /\ KeepsLinks(d)
    /\ \A r \in d.example_suggestions : r \in db.example_suggestions \/ OneParent(r)
    /\ \A r \in d.linked_word_suggestions : r \in db.linked_word_suggestions \/ NamesOne(r)
    /\ \E n : \A m \in TableExamples(d) :
          Retold(ToldExamples, m) \/ (m = n /\ NextExample(d, ToldExamples, m))
    /\ \E n : \A m \in RowLinks(d.linked_word_suggestions) :
          RetoldLink(ToldLinks, m) \/ (m = n /\ NextLink(d, m))

-----------------------------------------------------------------------------
\* What is told again, and one thing more, is filed as well.
LEMMA ExamplesStayFiled ==
    ASSUME NEW M, NEW N, NEW d, ExamplesFiled(M, db.seq["example_suggestions"], db.seq["examples"]),
           db.seq["example_suggestions"] \in Nat, db.seq["examples"] \in Nat,
           d.seq["example_suggestions"] \in Nat, d.seq["examples"] \in Nat,
           NumbersGrow(d),
           \E n : \A m \in N : Retold(M, m) \/ (m = n /\ NextExample(d, M, m))
    PROVE  ExamplesFiled(N, d.seq["example_suggestions"], d.seq["examples"])
<1> DEFINE a == db.seq["example_suggestions"]
           b == db.seq["examples"]
           a2 == d.seq["example_suggestions"]
           b2 == d.seq["examples"]
<1>1. /\ a \in Nat /\ b \in Nat /\ a2 \in Nat /\ b2 \in Nat /\ a <= a2 /\ b <= b2
      /\ ExamplesFiled(M, a, b)
  BY DEF NumbersGrow
<1> PICK n : \A m \in N : Retold(M, m) \/ (m = n /\ NextExample(d, M, m))
  OBVIOUS
<1>2. ASSUME NEW m \in N
      PROVE  \/ Retold(M, m)
             \/ /\ m = n /\ m[1] \in Nat /\ m[1] <= a2 /\ m[2] \in Nat /\ m[2] <= b2
                /\ \/ m[1] > a /\ (m[2] = Null \/ \E p \in M : p[2] = m[2] /\ p[3] = m[3])
                   \/ m[1] = Null /\ m[2] > b /\ m[3] # Null
  BY DEF NextExample
<1> HIDE DEF a, b, a2, b2
<1>3. ASSUME NEW m \in N
      PROVE  /\ m[1] \in Nat /\ m[1] <= a2 /\ m[2] \in Nat /\ m[2] <= b2
             /\ m[2] # Null => m[3] # Null
  <2>1. Null \in Nat /\ \A i \in Nat : Null <= i
    BY DEF Null
  <2>2. CASE Retold(M, m)
    <3>1. m[1] \in Nat /\ m[1] <= a2
      BY <1>1, <2>1, <2>2 DEF Retold, ExamplesFiled
    <3>2. m[2] \in Nat /\ m[2] <= b2 /\ (m[2] # Null => m[3] # Null)
      BY <1>1, <2>1, <2>2 DEF Retold, ExamplesFiled
    <3>3. QED
      BY <3>1, <3>2
  <2>3. CASE ~Retold(M, m)
    <3>1. \/ m[2] = Null
          \/ \E p \in M : p[2] = m[2] /\ p[3] = m[3]
          \/ m[3] # Null
      BY <1>2, <2>3
    <3>2. QED
      BY <1>1, <1>2, <2>3, <3>1 DEF ExamplesFiled
  <2>4. QED
    BY <2>2, <2>3
<1>4. ASSUME NEW p \in N, NEW q \in N, p[1] = q[1], p[1] # Null
      PROVE  p[2] = q[2]
  <2>1. ASSUME NEW m \in N, Retold(M, m), m[1] # Null
        PROVE  m[1] <= a /\ m[1] \in Nat /\ \E z \in M : z[1] = m[1] /\ z[2] = m[2]
    BY <1>1, <2>1 DEF Retold, ExamplesFiled
  <2>2. CASE Retold(M, p) /\ Retold(M, q)
    BY <1>1, <1>4, <2>1, <2>2 DEF ExamplesFiled
  <2>3. \A m \in N : ~Retold(M, m) /\ m[1] # Null => m = n /\ m[1] > a
    BY <1>2
  <2>4. QED
    BY <1>1, <1>4, <2>1, <2>2, <2>3
<1>5. ASSUME NEW p \in N, NEW q \in N, p[2] = q[2], p[2] # Null
      PROVE  p[3] = q[3]
  <2>1. ASSUME NEW m \in N, m[2] # Null,
               Retold(M, m) \/ \E z \in M : z[2] = m[2] /\ z[3] = m[3]
        PROVE  m[2] <= b /\ m[2] \in Nat /\ \E z \in M : z[2] = m[2] /\ z[3] = m[3]
    BY <1>1, <2>1 DEF Retold, ExamplesFiled
  <2>2. ASSUME NEW m \in N, m[2] # Null
        PROVE  \/ Retold(M, m) \/ \E z \in M : z[2] = m[2] /\ z[3] = m[3]
               \/ m = n /\ m[2] > b
    BY <1>2, <2>2
  <2>3. CASE p = q
    BY <2>3
  <2>4. CASE p # q
    <3>1. ~(p = n /\ q = n)
      BY <2>4
    <3>2. \A m \in {p, q} : m[2] \in Nat
      BY <1>3
    <3>3. \A m \in {p, q} : \E z \in M : z[2] = m[2] /\ z[3] = m[3]
      BY <1>1, <1>5, <2>1, <2>2, <3>1, <3>2
    <3>4. QED
      BY <1>1, <1>5, <3>3 DEF ExamplesFiled
  <2>5. QED
    BY <2>3, <2>4
<1>6. ExamplesFiled(N, a2, b2)
  BY <1>3, <1>4, <1>5 DEF ExamplesFiled
<1>7. QED
  BY <1>6 DEF a2, b2

\* And so it is for links.
LEMMA LinksStayFiled ==
    ASSUME NEW M, NEW N, NEW d, LinksFiled(M, db.seq["linked_word_suggestions"]),
           db.seq["linked_word_suggestions"] \in Nat, d.seq["linked_word_suggestions"] \in Nat,
           NumbersGrow(d), \E n : \A m \in N : RetoldLink(M, m) \/ (m = n /\ NextLink(d, m))
    PROVE  LinksFiled(N, d.seq["linked_word_suggestions"])
<1> DEFINE a == db.seq["linked_word_suggestions"]
           a2 == d.seq["linked_word_suggestions"]
<1>1. a \in Nat /\ a2 \in Nat /\ a <= a2 /\ LinksFiled(M, a)
  BY DEF NumbersGrow
<1> PICK n : \A m \in N : RetoldLink(M, m) \/ (m = n /\ NextLink(d, m))
  OBVIOUS
<1>2. ASSUME NEW m \in N
      PROVE  RetoldLink(M, m) \/ (m = n /\ m[1] \in Nat /\ m[1] > a /\ m[1] <= a2)
  BY DEF NextLink
<1> HIDE DEF a, a2
<1>3. \A m \in N : RetoldLink(M, m) /\ m[1] # Null =>
          m[1] \in Nat /\ m[1] <= a /\ \E z \in M : z[1] = m[1] /\ z[2] = m[2]
  BY <1>1 DEF RetoldLink, LinksFiled
<1>4. ASSUME NEW m \in N
      PROVE  m[1] \in Nat /\ m[1] <= a2
  <2>1. CASE m[1] = Null
    BY <1>1, <2>1 DEF Null
  <2>2. QED
    BY <1>1, <1>2, <1>3, <2>1
<1>5. ASSUME NEW p \in N, NEW q \in N, p[1] = q[1], p[1] # Null
      PROVE  p[2] = q[2]
  <2>1. CASE RetoldLink(M, p) /\ RetoldLink(M, q)
    BY <1>1, <1>3, <1>5, <2>1 DEF LinksFiled
  <2>2. QED
    BY <1>1, <1>2, <1>3, <1>5, <2>1
<1>6. LinksFiled(N, a2)
  BY <1>4, <1>5 DEF LinksFiled
<1>7. QED
  BY <1>6 DEF a2

\* What is lost stays lost, and a link stays of its words until it is lost.
LEMMA LinksStayKnown ==
    ASSUME Observe, broken \subseteq broken', KeepsLinks(db'), Keyed(db.linked_words)
    PROVE  /\ \A l : Lost(l) => Lost(l)'
           /\ \A l, w : LinkOf(l, w) => LinkOf(l, w)' \/ Lost(l)'
           /\ \A w : LinksKnown(w) => LinksKnown(w)'
           /\ \A r : NamesOne(r) => NamesOne(r)'
           /\ \A s : Sound(s) => Sound(s)'
<1>1. ASSUME NEW l, Lost(l)
      PROVE  Lost(l)'
  BY <1>1 DEF Lost, Observe, Excused
<1>2. ASSUME NEW l, NEW w, LinkOf(l, w)
      PROVE  LinkOf(l, w)' \/ Lost(l)'
  <2>1. PICK r \in db.linked_words : r.id = l /\ w \in {r.first_word_id, r.second_word_id}
    BY <1>2 DEF LinkOf
  <2>2. CASE r \in db'.linked_words
    BY <2>1, <2>2 DEF LinkOf
  <2>3. CASE r \notin db'.linked_words
    <3>1. l \in Ids(db.linked_words) /\ l \notin Ids(db'.linked_words)
      BY <2>1, <2>3 DEF KeepsLinks, Ids
    <3>2. <<"link", l>> \in Entries(db)
      BY <3>1 DEF Entries
    <3>3. <<"link", l>> \notin Entries(db')
      BY <3>1 DEF Entries, Existing
    <3>4. QED
      BY <3>2, <3>3 DEF Observe, Lost
  <2>4. QED
    BY <2>2, <2>3
<1>3. ASSUME NEW w, LinksKnown(w)
      PROVE  LinksKnown(w)'
  BY <1>1, <1>2, <1>3 DEF LinksKnown
<1>4. ASSUME NEW r, NamesOne(r)
      PROVE  NamesOne(r)'
  BY <1>1, <1>4 DEF NamesOne
<1>5. \A L : NewOrLost(L) => NewOrLost(L)'
  BY <1>1 DEF NewOrLost
<1>6. ASSUME NEW s, Sound(s)
      PROVE  Sound(s)'
  BY <1>3, <1>4, <1>5, <1>6 DEF Sound
<1>7. QED
  BY <1>1, <1>2, <1>3, <1>4, <1>6

\* What is there is told of itself.
LEMMA ToldOfItself ==
    ASSUME Edited
    PROVE  /\ \A n \in ToldExamples : Retold(ToldExamples, n)
           /\ \A n \in ToldLinks : RetoldLink(ToldLinks, n)
           /\ \A s \in Queue : Vouched(s)
           /\ \A f \in forms : VouchedForm(f)
<1>1. \A n \in ToldExamples : Retold(ToldExamples, n)
  BY DEF Retold
<1>2. \A n \in ToldLinks : RetoldLink(ToldLinks, n)
  BY DEF RetoldLink
<1>3. \A s \in Queue : StatementExamples(s) \subseteq ToldExamples /\ StatementLinks(s) \subseteq ToldLinks
  BY DEF ToldExamples, ToldLinks
<1>4. \A f \in forms : FormExamples(f) \subseteq ToldExamples /\ FormLinks(f) \subseteq ToldLinks
  BY DEF ToldExamples, ToldLinks
<1>5. QED
  BY <1>1, <1>2, <1>3, <1>4 DEF Edited, Vouched, VouchedForm

\* The numbers given out are numbers.
LEMMA NumbersType ==
    ASSUME TypeOK
    PROVE  \A table \in {"example_suggestions", "examples", "linked_word_suggestions"} :
               db.seq[table] \in Nat
BY DEF TypeOK, Database, AutoIncrement

\* A step after which the statements left and the forms are as they were, but for
\* those that the tables vouch for.
LEMMA StepEdited ==
    ASSUME TypeOK, TypeOK', Edited, Observe, broken \subseteq broken', Files(db'),
           NEW S, Queue' \subseteq Queue \cup S, \A s \in S : Vouched(s),
           NEW F, forms' \subseteq forms \cup F, \A f \in F : VouchedForm(f)
    PROVE  Edited'
<1>1. /\ \A n \in ToldExamples : Retold(ToldExamples, n)
      /\ \A n \in ToldLinks : RetoldLink(ToldLinks, n)
      /\ \A s \in Queue' : Vouched(s)
      /\ \A f \in forms' : VouchedForm(f)
  BY ToldOfItself
<1>2. /\ \A w : LinksKnown(w) => LinksKnown(w)'
      /\ \A r : NamesOne(r) => NamesOne(r)'
      /\ \A s : Sound(s) => Sound(s)'
  BY LinksStayKnown DEF Files, Edited
<1>3. /\ \A table \in {"example_suggestions", "examples", "linked_word_suggestions"} :
             db.seq[table] \in Nat /\ db'.seq[table] \in Nat
      /\ NumbersGrow(db')
  <2>1. \A table \in {"example_suggestions", "examples", "linked_word_suggestions"} :
            db'.seq[table] \in Nat
    BY DEF TypeOK, Database, AutoIncrement
  <2>2. QED
    BY <2>1, NumbersType DEF Files
<1>4. ExamplesFiled(ToldExamples', db'.seq["example_suggestions"], db'.seq["examples"])
  <2>1. PICK n : \A m \in TableExamples(db') :
                     Retold(ToldExamples, m) \/ (m = n /\ NextExample(db', ToldExamples, m))
    BY DEF Files
  <2>2. \A f \in forms' : \A m \in FormExamples(f) : Retold(ToldExamples, m)
    BY <1>1 DEF VouchedForm
  <2>3. \A s \in Queue' : \A m \in StatementExamples(s) : Retold(ToldExamples, m)
    BY <1>1 DEF Vouched
  <2>4. ToldExamples' = TableExamples(db') \cup (UNION {FormExamples(f) : f \in forms'})
                        \cup (UNION {StatementExamples(s) : s \in Queue'})
    BY DEF ToldExamples
  <2>5. \A m \in ToldExamples' :
            Retold(ToldExamples, m) \/ (m = n /\ NextExample(db', ToldExamples, m))
    BY <2>1, <2>2, <2>3, <2>4
  <2>6. PICK M, N : M = ToldExamples /\ N = ToldExamples'
    OBVIOUS
  <2>7. ExamplesFiled(M, db.seq["example_suggestions"], db.seq["examples"])
    BY <2>6 DEF Edited
  <2>8. \A m \in N : Retold(M, m) \/ (m = n /\ NextExample(db', M, m))
    BY <2>5, <2>6
  <2>9. /\ db.seq["example_suggestions"] \in Nat /\ db.seq["examples"] \in Nat
        /\ db'.seq["example_suggestions"] \in Nat /\ db'.seq["examples"] \in Nat
    BY <1>3
  <2>10. PICK d : d = db'
    OBVIOUS
  <2>11. ExamplesFiled(N, d.seq["example_suggestions"], d.seq["examples"])
    <3>1. d.seq["example_suggestions"] \in Nat /\ d.seq["examples"] \in Nat /\ NumbersGrow(d)
      BY <1>3, <2>9, <2>10
    <3>2. \E x : \A m \in N : Retold(M, m) \/ (m = x /\ NextExample(d, M, m))
      BY <2>8, <2>10
    <3>3. QED
      BY <2>7, <2>9, <3>1, <3>2, ExamplesStayFiled
  <2>12. QED
    BY <2>6, <2>10, <2>11
<1>5. LinksFiled(ToldLinks', db'.seq["linked_word_suggestions"])
  <2>1. PICK n : \A m \in RowLinks(db'.linked_word_suggestions) :
                     RetoldLink(ToldLinks, m) \/ (m = n /\ NextLink(db', m))
    BY DEF Files
  <2>2. \A f \in forms' : \A m \in FormLinks(f) : RetoldLink(ToldLinks, m)
    BY <1>1 DEF VouchedForm
  <2>3. \A s \in Queue' : \A m \in StatementLinks(s) : RetoldLink(ToldLinks, m)
    BY <1>1 DEF Vouched
  <2>4. ToldLinks' = RowLinks(db'.linked_word_suggestions)
                     \cup (UNION {FormLinks(f) : f \in forms'})
                     \cup (UNION {StatementLinks(s) : s \in Queue'})
    BY DEF ToldLinks
  <2>5. \A m \in ToldLinks' : RetoldLink(ToldLinks, m) \/ (m = n /\ NextLink(db', m))
    BY <2>1, <2>2, <2>3, <2>4
  <2>6. PICK M, N : M = ToldLinks /\ N = ToldLinks'
    OBVIOUS
  <2>7. LinksFiled(M, db.seq["linked_word_suggestions"])
    BY <2>6 DEF Edited
  <2>8. \E x : \A m \in N : RetoldLink(M, m) \/ (m = x /\ NextLink(db', m))
    BY <2>5, <2>6
  <2>9. LinksFiled(N, db'.seq["linked_word_suggestions"])
    BY <1>3, <2>7, <2>8, LinksStayFiled
  <2>10. QED
    BY <2>6, <2>9
<1>6. /\ \A f \in forms' : LinksKnown(f)'
      /\ \A s \in Queue' : Sound(s)'
  BY <1>1, <1>2 DEF VouchedForm, Vouched
<1>7. /\ \A r \in db'.example_suggestions : OneParent(r)
      /\ \A r \in db'.linked_word_suggestions : NamesOne(r)'
  BY <1>2 DEF Files, Edited
<1>8. Keyed(db'.linked_words)
  BY DEF Files, KeepsLinks
<1>9. QED
  BY <1>4, <1>5, <1>6, <1>7, <1>8 DEF Edited, OneParent

\* Tables in which no edit comes and no link changes.
NoNewEdits(d) ==
    /\ NumbersGrow(d) /\ KeepsLinks(d)
    /\ d.example_suggestions \subseteq db.example_suggestions
    /\ d.examples \subseteq db.examples
    /\ d.linked_word_suggestions \subseteq db.linked_word_suggestions

\* Such tables are as they were as far as edits go.
LEMMA NoneFiled ==
    ASSUME Edited, NEW d, NoNewEdits(d)
    PROVE  Files(d)
<1>1. TableExamples(d) \subseteq ToldExamples
  <2>1. TableExamples(d) \subseteq TableExamples(db)
    BY DEF TableExamples, RowExamples, NoNewEdits
  <2>2. QED
    BY <2>1 DEF ToldExamples
<1>2. RowLinks(d.linked_word_suggestions) \subseteq ToldLinks
  <2>1. RowLinks(d.linked_word_suggestions) \subseteq RowLinks(db.linked_word_suggestions)
    BY DEF RowLinks, NoNewEdits
  <2>2. QED
    BY <2>1 DEF ToldLinks
<1>3. QED
  BY <1>1, <1>2, ToldOfItself DEF Files, NoNewEdits

\* The tables as they are are such.
LEMMA SameTables ==
    ASSUME TypeOK, Edited
    PROVE  NoNewEdits(db)
BY NumbersType DEF NoNewEdits, NumbersGrow, KeepsLinks, Edited

\* A thread has issued a statement and has others to issue before the rest.
LEMMA GoesOnEdited ==
    ASSUME TypeOK, TypeOK', Edited, NEW t \in Threads, todo[t] # <<>>,
           NEW X, NEW statements \in Seq(X), NEW about, Continue(t, statements, about),
           Observe, broken \subseteq broken', forms' = forms, Files(db'),
           \A x \in X : Vouched(x)
    PROVE  Edited'
<1>1. /\ \A u \in Threads \ {t} : todo'[u] = todo[u]
      /\ Statements(todo'[t]) = Statements(statements) \cup Statements(Tail(todo[t]))
      /\ Statements(statements) \subseteq X
  BY Continued
<1>2. Statements(Tail(todo[t])) \subseteq Statements(todo[t])
  <2>1. todo[t] \in Seq(Statement)
    BY DEF TypeOK
  <2>2. QED
    BY <2>1, StatementsOf
<1>3. Queue' \subseteq Queue \cup X
  BY <1>1, <1>2 DEF Queue
<1>4. PICK F : F = {}
  OBVIOUS
<1>5. QED
  BY <1>3, <1>4, StepEdited

\* A request that ends issues nothing more.
LEMMA StopEdited ==
    ASSUME TypeOK, TypeOK', Edited, NEW t \in Threads, Stop(t), broken \subseteq broken'
    PROVE  Edited'
<1>1. UNCHANGED <<db, forms>> /\ Observe
  BY DEF Stop
<1>2. /\ \A u \in Threads \ {t} : todo'[u] = todo[u]
      /\ todo'[t] = <<>>
  BY DEF Stop, TypeOK
<1>3. Statements(todo'[t]) = {}
  BY <1>2 DEF Statements
<1>4. Queue' \subseteq Queue
  BY <1>2, <1>3 DEF Queue
<1>5. Files(db')
  BY <1>1, SameTables, NoneFiled
<1>6. PICK S : S = {}
  OBVIOUS
<1>7. QED
  BY <1>1, <1>4, <1>5, <1>6, StepEdited

\* A read goes on with what it read, or the request ends there.
LEMMA ReadEdited ==
    ASSUME TypeOK, TypeOK', Edited, NEW t \in Threads, todo[t] # <<>>,
           NEW X, NEW statements \in Seq(X), NEW found, NEW about,
           Read(t, found, statements, about), found => \A x \in X : Vouched(x)
    PROVE  Edited'
<1>1. CASE found
  <2>1. Continue(t, statements, about) /\ UNCHANGED <<db, forms, broken>> /\ Observe
    BY <1>1 DEF Read
  <2>2. Files(db')
    BY <2>1, SameTables, NoneFiled
  <2>3. broken \subseteq broken' /\ forms' = forms
    BY <2>1
  <2>4. QED
    BY <1>1, <2>1, <2>2, <2>3, GoesOnEdited
<1>2. CASE ~found
  BY <1>2, StopEdited DEF Read, Refuse
<1>3. QED
  BY <1>1, <1>2

\* A write that files what it leaves, or fails.
LEMMA WriteEdited ==
    ASSUME TypeOK, TypeOK', Edited, NEW t \in Threads, todo[t] # <<>>,
           NEW X, NEW statements \in Seq(X), NEW allowed, NEW after,
           Write(t, allowed, after, statements),
           allowed => Files(after) /\ \A x \in X : Vouched(x)
    PROVE  Edited'
<1>1. CASE allowed
  <2>1. PICK about : Continue(t, statements, about)
    BY <1>1 DEF Write
  <2>2. db' = after /\ UNCHANGED <<forms, broken>> /\ Observe
    BY <1>1 DEF Write
  <2>3. Files(db')
    BY <1>1, <2>2
  <2>4. broken \subseteq broken' /\ forms' = forms
    BY <2>2
  <2>5. QED
    BY <1>1, <2>1, <2>2, <2>3, <2>4, GoesOnEdited
<1>2. CASE ~allowed
  BY <1>2, StopEdited DEF Write, Panic
<1>3. QED
  BY <1>1, <1>2

\* A request that arrives has its statements to issue.
LEMMA ArriveEdited ==
    ASSUME TypeOK, TypeOK', Edited, NEW t \in Threads, NEW X, NEW statements \in Seq(X),
           NEW route, NEW about, Arrive(t, route, statements, about), \A x \in X : Vouched(x)
    PROVE  Edited'
<1>1. UNCHANGED <<db, forms, broken>> /\ Observe
  BY DEF Arrive
<1>2. /\ \A u \in Threads \ {t} : todo'[u] = todo[u]
      /\ todo'[t] = statements
  BY DEF Arrive, TypeOK
<1>3. Statements(todo'[t]) \subseteq X
  BY <1>2, StatementsOf
<1>4. Queue' \subseteq Queue \cup X
  BY <1>2, <1>3 DEF Queue
<1>5. Files(db')
  BY <1>1, SameTables, NoneFiled
<1>6. PICK F : F = {}
  OBVIOUS
<1>7. broken \subseteq broken' /\ forms' \subseteq forms \cup F
  BY <1>1
<1>8. QED
  BY <1>1, <1>4, <1>5, <1>6, <1>7, StepEdited

\* Statements that tell of no edit.
EditOps == WordOps \cup FetchedOps \cup {"write_link", "write_example", "accept_examples", "accept_links"}
LEMMA OthersTellNothing ==
    ASSUME NEW s, s.op \notin EditOps
    PROVE  Vouched(s)
BY DEF Vouched, Sound, StatementExamples, StatementLinks, EditOps, WordOps

\* A statement a thread is at is one of those that tell what is told.
LEMMA AtVouched ==
    ASSUME TypeOK, ThreadsKnown, Edited, NEW t \in Threads, NEW op, At(t, op)
    PROVE  /\ Current(t) \in Queue /\ Current(t).op = op /\ todo[t] # <<>>
           /\ Vouched(Current(t))
<1>1. /\ Current(t) \in Statements(todo[t]) /\ Current(t).op = op
      /\ todo[t] # <<>>
  BY ProgramAt
<1>2. Current(t) \in Queue
  BY <1>1 DEF Queue
<1>3. QED
  BY <1>1, <1>2, ToldOfItself

\* A read that hands on one statement.
LEMMA ReadOneEdited ==
    ASSUME TypeOK, TypeOK', Edited, NEW t \in Threads, todo[t] # <<>>, NEW s, NEW found,
           NEW about, Read(t, found, <<s>>, about), found => Vouched(s)
    PROVE  Edited'
<1> DEFINE X == {s}
           p == <<s>>
<1>1. p \in Seq(X) /\ Read(t, found, p, about)
  OBVIOUS
<1>2. found => \A x \in X : Vouched(x)
  OBVIOUS
<1> HIDE DEF X, p
<1>3. QED
  BY <1>1, <1>2, ReadEdited

\* One that hands on two.
LEMMA ReadTwoEdited ==
    ASSUME TypeOK, TypeOK', Edited, NEW t \in Threads, todo[t] # <<>>, NEW x, NEW y,
           NEW found, NEW about, Read(t, found, <<x, y>>, about), Vouched(x), Vouched(y)
    PROVE  Edited'
<1> DEFINE X == {x, y}
           p == <<x, y>>
<1>1. p \in Seq(X) /\ Read(t, found, p, about)
  OBVIOUS
<1>2. found => \A z \in X : Vouched(z)
  OBVIOUS
<1> HIDE DEF X, p
<1>3. QED
  BY <1>1, <1>2, ReadEdited

\* A request with one statement.
LEMMA ArriveOneEdited ==
    ASSUME TypeOK, TypeOK', Edited, NEW t \in Threads, NEW s, NEW route, NEW about,
           Arrive(t, route, <<s>>, about), Vouched(s)
    PROVE  Edited'
<1> DEFINE X == {s}
           p == <<s>>
<1>1. p \in Seq(X) /\ Arrive(t, route, p, about)
  OBVIOUS
<1>2. \A x \in X : Vouched(x)
  OBVIOUS
<1> HIDE DEF X, p
<1>3. QED
  BY <1>1, <1>2, ArriveEdited

\* The index is told of no edit.
LEMMA SmallVouched ==
    /\ \A doc : Vouched(IndexPut(doc)) /\ Vouched(IndexDelete(doc))
    /\ \A user, word : Vouched(AddUserAttribution(user, word))
    /\ \A table, id : Vouched(DeleteRow(table, id))
<1> DEFINE Tells(op) == op \in EditOps
<1>1. /\ ~Tells("index_put") /\ ~Tells("index_delete") /\ ~Tells("add_user_attribution")
      /\ ~Tells("delete_row")
  BY DEF EditOps, WordOps, SentOps, ProcessOps, FetchedOps
<1>2. /\ \A doc : IndexPut(doc).op = "index_put" /\ IndexDelete(doc).op = "index_delete"
      /\ \A user, word : AddUserAttribution(user, word).op = "add_user_attribution"
      /\ \A table, id : DeleteRow(table, id).op = "delete_row"
  BY DEF IndexPut, IndexDelete, AddUserAttribution, DeleteRow
<1>3. \A s : ~Tells(s.op) => Vouched(s)
  BY OthersTellNothing
<1> HIDE DEF Tells
<1>4. \A doc : Vouched(IndexPut(doc)) /\ Vouched(IndexDelete(doc))
  BY <1>1, <1>2, <1>3
<1>5. \A user, word : Vouched(AddUserAttribution(user, word))
  BY <1>1, <1>2, <1>3
<1>6. \A table, id : Vouched(DeleteRow(table, id))
  BY <1>1, <1>2, <1>3
<1>7. QED
  BY <1>4, <1>5, <1>6

-----------------------------------------------------------------------------
(* Edits as the requests come *)

\* A word that is sent is vouched for as far as its entries are.
LEMMA WordVouched ==
    ASSUME NEW s, s.op \in WordOps, VouchedForm(s.word),
           s.op \in ProcessOps => s.new = Null \/ s.word.existing_id = Null
    PROVE  Vouched(s)
<1>1. /\ s.op \notin FetchedOps
      /\ s.op \notin {"write_link", "write_example", "accept_examples", "accept_links"}
  BY DEF WordOps, SentOps, ProcessOps, FetchedOps
<1>2. Sound(s)
  BY <1>1 DEF Sound, VouchedForm
<1>3. StatementExamples(s) = FormExamples(s.word) /\ StatementLinks(s) = FormLinks(s.word)
  BY DEF StatementExamples, StatementLinks
<1>4. QED
  BY <1>2, <1>3 DEF Vouched, VouchedForm

\* The word of a submission is, at every statement it is handed on to.
LEMMA AtWord ==
    ASSUME TypeOK, ThreadsKnown, Edited, NEW t \in Threads, NEW op \in WordOps, At(t, op),
           NEW c, c = Current(t)
    PROVE  /\ c.op = op /\ todo[t] # <<>> /\ c \in SubmitStatement /\ c.word \in WordSubmission
           /\ VouchedForm(c.word)
           /\ op \in ProcessOps => c.new = Null \/ c.word.existing_id = Null
<1>1. Vouched(c) /\ c.op = op /\ todo[t] # <<>>
  BY AtVouched
<1>2. c \in SubmitStatement
  BY AtSubmit DEF WordOps, SentOps, ProcessOps
<1>3. c.word \in WordSubmission
  BY <1>1, <1>2 DEF SubmitStatement, WordOps, SentOps, ProcessOps
<1>4. StatementExamples(c) = FormExamples(c.word) /\ StatementLinks(c) = FormLinks(c.word)
  BY <1>1 DEF StatementExamples, StatementLinks
<1>5. QED
  BY <1>1, <1>2, <1>3, <1>4 DEF Vouched, VouchedForm, Sound

\* A user changes what the entries of a form say, never which rows they are of.
SameRow(e, f) == e.suggestion_id = f.suggestion_id /\ e.existing_id = f.existing_id
OfForm(e, entries) ==
    \/ e.suggestion_id = Null /\ e.existing_id = Null
    \/ \E f \in entries : SameRow(e, f)

LEMMA LinksSent ==
    ASSUME NEW form, form.links \subseteq LinkEntry, NEW L \in LinkEdits(form), NEW e \in L
    PROVE  OfForm(e, form.links)
<1> DEFINE kept == IF "drop_link" \in Edits THEN SUBSET form.links ELSE {form.links}
           Retargeted(K) == {(K \ {f}) \cup {[f EXCEPT !.other = doc]} :
                                f \in K, doc \in Offered(form)}
           Retyped(K) == {(K \ {f}) \cup {[f EXCEPT !.retyped = TRUE]} : f \in K}
           Added(K) == {K \cup {[suggestion_id |-> Null, existing_id |-> Null,
                                 other |-> doc, retyped |-> FALSE]} : doc \in Offered(form)}
           Of(K) == {K} \cup (IF "retarget_link" \in Edits THEN Retargeted(K) ELSE {})
                        \cup (IF "retype_link" \in Edits THEN Retyped(K) ELSE {})
                        \cup (IF "add_link" \in Edits THEN Added(K) ELSE {})
           Known(x) == OfForm(x, form.links)
<1>1. LinkEdits(form) = UNION {Of(K) : K \in kept}
  BY DEF LinkEdits
<1>2. \A K \in kept : K \subseteq form.links
  OBVIOUS
<1>3. ASSUME NEW K \in SUBSET form.links
      PROVE  /\ \A M \in Retargeted(K) : \A x \in M : Known(x)
             /\ \A M \in Retyped(K) : \A x \in M : Known(x)
             /\ \A M \in Added(K) : \A x \in M : Known(x)
             /\ \A x \in K : Known(x)
  <2>1. \A f \in LinkEntry : \A doc : SameRow([f EXCEPT !.other = doc], f)
    BY DEF LinkEntry, SameRow
  <2>2. \A f \in LinkEntry : SameRow([f EXCEPT !.retyped = TRUE], f)
    BY DEF LinkEntry, SameRow
  <2>3. \A x \in K : Known(x)
    BY DEF OfForm, SameRow
  <2>4. \A f \in K, doc \in Offered(form) : Known([f EXCEPT !.other = doc])
    BY <2>1 DEF OfForm
  <2>5. \A f \in K : Known([f EXCEPT !.retyped = TRUE])
    BY <2>2 DEF OfForm
  <2>6. \A doc \in Offered(form) : Known([suggestion_id |-> Null, existing_id |-> Null,
                                          other |-> doc, retyped |-> FALSE])
    BY DEF OfForm
  <2> HIDE DEF Known
  <2>7. QED
    BY <2>3, <2>4, <2>5, <2>6
<1> HIDE DEF kept, Retargeted, Retyped, Added, Known
<1>4. \A K \in kept : \A M \in Of(K) : \A x \in M : Known(x)
  BY <1>2, <1>3
<1> HIDE DEF Of
<1>5. Known(e)
  BY <1>1, <1>4
<1>6. QED
  BY <1>5 DEF Known

\* And so it is with the examples.
LEMMA ExamplesSent ==
    ASSUME NEW form, form.examples \subseteq ExampleEntry, NEW L \in ExampleEdits(form), NEW e \in L
    PROVE  OfForm(e, form.examples)
<1> DEFINE kept == IF "drop_example" \in Edits THEN SUBSET form.examples ELSE {form.examples}
           Changed(K) == {(K \ {f}) \cup {[f EXCEPT !.changed = TRUE]} : f \in K}
           Added(K) == {K \cup {[suggestion_id |-> Null, existing_id |-> Null, changed |-> TRUE]}}
           Of(K) == {K} \cup (IF "change_example" \in Edits THEN Changed(K) ELSE {})
                        \cup (IF "add_example" \in Edits THEN Added(K) ELSE {})
           Known(x) == OfForm(x, form.examples)
<1>1. ExampleEdits(form) = UNION {Of(K) : K \in kept}
  BY DEF ExampleEdits
<1>2. \A K \in kept : K \subseteq form.examples
  OBVIOUS
<1>3. ASSUME NEW K \in SUBSET form.examples
      PROVE  /\ \A M \in Changed(K) : \A x \in M : Known(x)
             /\ \A M \in Added(K) : \A x \in M : Known(x)
             /\ \A x \in K : Known(x)
  <2>1. \A f \in ExampleEntry : SameRow([f EXCEPT !.changed = TRUE], f)
    BY DEF ExampleEntry, SameRow
  <2>2. \A x \in K : Known(x)
    BY DEF OfForm, SameRow
  <2>3. \A f \in K : Known([f EXCEPT !.changed = TRUE])
    BY <2>1 DEF OfForm
  <2>4. Known([suggestion_id |-> Null, existing_id |-> Null, changed |-> TRUE])
    BY DEF OfForm
  <2> HIDE DEF Known
  <2>5. QED
    BY <2>2, <2>3, <2>4
<1> HIDE DEF kept, Changed, Added, Known
<1>4. \A K \in kept : \A M \in Of(K) : \A x \in M : Known(x)
  BY <1>2, <1>3
<1> HIDE DEF Of
<1>5. Known(e)
  BY <1>1, <1>4
<1>6. QED
  BY <1>5 DEF Known

\* A form that is sent tells what its page told.
LEMMA SentVouched ==
    ASSUME TypeOK, Edited, NEW form \in forms \cup {NewWordForm}, NEW w \in Submissions(form)
    PROVE  VouchedForm(w)
<1>1. /\ w.existing_id = form.existing_id
      /\ w.links \in LinkEdits(form) /\ w.examples \in ExampleEdits(form)
  BY DEF Submissions
<1>2. form.links \subseteq LinkEntry /\ form.examples \subseteq ExampleEntry
  BY DEF TypeOK, Form, NewWordForm
<1>3. VouchedForm(form)
  <2>1. CASE form \in forms
    BY <2>1, ToldOfItself
  <2>2. CASE form = NewWordForm
    <3>1. form.links = {} /\ form.examples = {}
      BY <2>2 DEF NewWordForm
    <3>2. QED
      BY <3>1 DEF VouchedForm, LinksKnown, FormExamples, FormLinks
  <2>3. QED
    BY <2>1, <2>2
<1>4. /\ \A e \in w.links : OfForm(e, form.links)
      /\ \A e \in w.examples : OfForm(e, form.examples)
  BY <1>1, <1>2, LinksSent, ExamplesSent
<1>5. LinksKnown(w)
  BY <1>1, <1>3, <1>4 DEF VouchedForm, LinksKnown, OfForm, SameRow
<1>6. ASSUME NEW n \in FormExamples(w)
      PROVE  Retold(ToldExamples, n)
  <2>1. PICK e \in w.examples : n = <<e.suggestion_id, e.existing_id, w.existing_id>>
    BY DEF FormExamples
  <2>2. (n[1] = Null /\ n[2] = Null) \/ n \in FormExamples(form)
    BY <1>1, <1>4, <2>1 DEF OfForm, SameRow, FormExamples
  <2>3. QED
    BY <1>3, <2>2 DEF VouchedForm, Retold
<1>7. ASSUME NEW n \in FormLinks(w)
      PROVE  RetoldLink(ToldLinks, n)
  <2>1. PICK e \in w.links : n = <<e.suggestion_id, e.existing_id>>
    BY DEF FormLinks
  <2>2. n[1] = Null \/ n \in FormLinks(form)
    BY <1>4, <2>1 DEF OfForm, SameRow, FormLinks
  <2>3. QED
    BY <1>3, <2>2 DEF VouchedForm, RetoldLink
<1>8. QED
  BY <1>5, <1>6, <1>7 DEF VouchedForm

LEMMA SubmitEdited ==
    ASSUME TypeOK, TypeOK', Edited, NEW t \in Threads, submit_suggestion(t)
    PROVE  Edited'
<1>1. PICK form \in forms \cup {NewWordForm} :
          \E w \in Submissions(form) :
              Arrive(t, "submit_suggestion", <<[op |-> "read_original", word |-> w]>>,
                     AboutSubmission(w))
  BY DEF submit_suggestion
<1> PICK w \in Submissions(form) :
          Arrive(t, "submit_suggestion", <<[op |-> "read_original", word |-> w]>>,
                 AboutSubmission(w))
  BY <1>1
<1> DEFINE s == [op |-> "read_original", word |-> w]
<1>2. s.op = "read_original" /\ s.word = w
  OBVIOUS
<1>3. PICK about, route : Arrive(t, route, <<s>>, about)
  OBVIOUS
<1> HIDE DEF s
<1>4. "read_original" \in WordOps \ ProcessOps
  BY DEF WordOps, SentOps, ProcessOps
<1>5. Vouched(s)
  BY <1>2, <1>4, SentVouched, WordVouched
<1>6. QED
  BY <1>3, <1>5, ArriveOneEdited

\* The other requests tell of none.
LEMMA RequestEdited ==
    ASSUME TypeOK, TypeOK', Edited, NEW t \in Threads, Request(t)
    PROVE  Edited'
<1> DEFINE Kind(op) == op \notin EditOps
<1>1. /\ Kind("fetch_alone") /\ Kind("suggest_word_deletion") /\ Kind("fetch_example")
      /\ Kind("fetch_link") /\ Kind("fetch_dataset") /\ Kind("fetch_word_deletion")
      /\ Kind("fetch_example_deletion") /\ Kind("fetch_link_deletion") /\ Kind("delete_row")
      /\ Kind("delete_word_suggestion")
  BY DEF EditOps, WordOps, SentOps, ProcessOps, FetchedOps
<1>2. \/ reject_suggested_word(t) \/ submit_suggestion(t)
      \/ \E s, route, about : Kind(s.op) /\ Arrive(t, route, <<s>>, about)
  <2> HIDE DEF Kind
  <2>1. CASE accept_suggested_word(t)
    BY <1>1, <2>1 DEF accept_suggested_word
  <2>2. CASE suggest_word_deletion(t)
    BY <1>1, <2>2 DEF suggest_word_deletion
  <2>3. CASE accept_suggested_example(t) \/ reject_suggested_example(t)
    BY <1>1, <2>3 DEF accept_suggested_example, reject_suggested_example,
                      DeleteExampleSuggestion, DeleteRow
  <2>4. CASE accept_linked_word(t) \/ reject_linked_word(t)
    BY <1>1, <2>4 DEF accept_linked_word, reject_linked_word,
                      DeleteLinkedWordSuggestion, DeleteRow
  <2>5. CASE accept_dataset_attribution_suggestion(t) \/ reject_dataset_attribution_suggestion(t)
    BY <1>1, <2>5 DEF accept_dataset_attribution_suggestion,
                      reject_dataset_attribution_suggestion, DeleteDatasetSuggestion, DeleteRow
  <2>6. CASE accept_deletion(t) \/ reject_deletion(t)
    BY <1>1, <2>6 DEF accept_deletion, reject_deletion, RejectWordDeletion, DeleteRow
  <2>7. CASE accept_example_deletion(t) \/ reject_example_deletion(t)
    BY <1>1, <2>7 DEF accept_example_deletion, reject_example_deletion,
                      DeleteExampleDeletion, DeleteRow
  <2>8. CASE accept_linked_word_deletion(t) \/ reject_linked_word_deletion(t)
    BY <1>1, <2>8 DEF accept_linked_word_deletion, reject_linked_word_deletion,
                      DeleteLinkedWordDeletion, DeleteRow
  <2>9. QED
    BY <2>1, <2>2, <2>3, <2>4, <2>5, <2>6, <2>7, <2>8 DEF Request
<1>3. CASE reject_suggested_word(t)
  <2>1. PICK s, route, about : Arrive(t, route, DeleteWordSuggestion(s), about)
    BY <1>3 DEF reject_suggested_word
  <2> DEFINE x == IndexDelete(Suggested(s))
             y == [op |-> "delete_word_suggestion", id |-> s]
             X == {x, y}
             p == <<x, y>>
  <2>2. Arrive(t, route, p, about) /\ p \in Seq(X) /\ y.op = "delete_word_suggestion"
    BY <2>1 DEF DeleteWordSuggestion
  <2> HIDE DEF x, y
  <2>3. Vouched(x) /\ Vouched(y)
    BY <1>1, <2>2, SmallVouched, OthersTellNothing DEF x
  <2>4. \A z \in X : Vouched(z)
    BY <2>3
  <2> HIDE DEF X, p
  <2>5. QED
    BY <2>2, <2>4, ArriveEdited
<1>4. QED
  BY <1>2, <1>3, SubmitEdited, OthersTellNothing, ArriveOneEdited

-----------------------------------------------------------------------------
(* Edits as they are read for a decision *)

\* A row of the table is told of.
LEMMA RowsTold ==
    ASSUME Edited, NEW r \in db.example_suggestions
    PROVE  Retold(ToldExamples, <<r.id, r.existing_example_id, r.existing_word_id>>)
<1>1. <<r.id, r.existing_example_id, r.existing_word_id>> \in ToldExamples
  BY DEF ToldExamples, TableExamples, RowExamples
<1>2. QED
  BY <1>1, ToldOfItself

\* So are the rows of links and what was read of them.
LEMMA LinksTold ==
    ASSUME Edited, NEW T, NEW rows \in SUBSET db.linked_word_suggestions,
           \A l \in T : \E r \in rows : l.id = r.id /\ l.existing_id = r.existing_linked_word_id,
           \A r \in rows : r.existing_linked_word_id = Null \/ Lost(r.existing_linked_word_id)
    PROVE  /\ NewOrLost(T)
           /\ \A n \in TakenLinks(T) : RetoldLink(ToldLinks, n)
<1>1. NewOrLost(T)
  BY DEF NewOrLost
<1>2. ASSUME NEW n \in TakenLinks(T)
      PROVE  RetoldLink(ToldLinks, n)
  <2>1. PICK l \in T : n = <<l.id, l.existing_id>>
    BY DEF TakenLinks
  <2>2. PICK r \in rows : l.id = r.id /\ l.existing_id = r.existing_linked_word_id
    OBVIOUS
  <2>3. n \in ToldLinks
    BY <2>1, <2>2 DEF ToldLinks, RowLinks
  <2>4. QED
    BY <2>3, ToldOfItself
<1>3. QED
  BY <1>1, <1>2

\* What a suggestion was found to be is handed on.
LEMMA FetchedVouched ==
    ASSUME NEW s, s.op \in FetchedOps, NewOrLost(s.links),
           \A r \in s.examples : r.existing_example_id = Null,
           \A n \in TakenExamples(s.examples, Null) : Retold(ToldExamples, n),
           \A n \in TakenLinks(s.links) : RetoldLink(ToldLinks, n)
    PROVE  Vouched(s)
<1>1. /\ s.op \notin WordOps
      /\ s.op \notin {"write_link", "write_example", "accept_examples", "accept_links"}
      /\ s.op \notin ProcessOps
  BY DEF WordOps, SentOps, ProcessOps, FetchedOps
<1>2. Sound(s)
  BY <1>1 DEF Sound
<1>3. /\ StatementExamples(s) = TakenExamples(s.examples, Null)
      /\ StatementLinks(s) = TakenLinks(s.links)
  BY <1>1 DEF StatementExamples, StatementLinks
<1>4. QED
  BY <1>2, <1>3 DEF Vouched

\* And what is handed on is what was found.
LEMMA AtFound ==
    ASSUME TypeOK, ThreadsKnown, Edited, NEW t \in Threads, NEW op \in FetchedOps, At(t, op),
           NEW c, c = Current(t)
    PROVE  /\ c.op = op /\ todo[t] # <<>> /\ c \in FetchedStatement
           /\ NewOrLost(c.links)
           /\ \A r \in c.examples : r.existing_example_id = Null
           /\ \A n \in TakenExamples(c.examples, Null) : Retold(ToldExamples, n)
           /\ \A n \in TakenLinks(c.links) : RetoldLink(ToldLinks, n)
<1>1. Vouched(c) /\ c.op = op /\ todo[t] # <<>>
  BY AtVouched
<1>2. c \in FetchedStatement
  BY AtFetched DEF FetchedOps
<1>3. /\ c.op \notin WordOps
      /\ c.op \notin {"write_link", "write_example", "accept_examples", "accept_links"}
  BY <1>1 DEF WordOps, SentOps, ProcessOps, FetchedOps
<1>4. /\ StatementExamples(c) = TakenExamples(c.examples, Null)
      /\ StatementLinks(c) = TakenLinks(c.links)
  BY <1>1, <1>3 DEF StatementExamples, StatementLinks
<1>5. QED
  BY <1>1, <1>2, <1>4 DEF Vouched, Sound

\* A request that is refused issues nothing more.
LEMMA RefuseEdited ==
    ASSUME TypeOK, TypeOK', Edited, NEW t \in Threads, Refuse(t)
    PROVE  Edited'
BY StopEdited DEF Refuse

LEMMA PanicEdited ==
    ASSUME TypeOK, TypeOK', Edited, NEW t \in Threads, Panic(t)
    PROVE  Edited'
BY StopEdited DEF Panic

LEMMA FetchAloneEdited ==
    ASSUME TypeOK, ThreadsKnown, TypeOK', Edited, NEW t \in Threads, fetch_alone(t)
    PROVE  Edited'
<1>1. At(t, "fetch_alone")
  BY DEF fetch_alone
<1>2. todo[t] # <<>>
  BY <1>1 DEF At
<1>3. Refuse(t) \/ \E row, about : Read(t, TRUE, <<Fetched("fetch_examples", row, {}, {}, {})>>, about)
  BY DEF fetch_alone
<1>4. ASSUME NEW row, NEW about, Read(t, TRUE, <<Fetched("fetch_examples", row, {}, {}, {})>>, about)
      PROVE  Edited'
  <2> DEFINE s == Fetched("fetch_examples", row, {}, {}, {})
  <2>1. s.op \in FetchedOps /\ s.links = {} /\ s.examples = {}
    BY DEF Fetched, FetchedOps
  <2>2. Read(t, TRUE, <<s>>, about)
    BY <1>4
  <2> HIDE DEF s
  <2>3. TakenExamples(s.examples, Null) = {} /\ TakenLinks(s.links) = {} /\ NewOrLost(s.links)
    BY <2>1 DEF TakenExamples, TakenLinks, NewOrLost
  <2>4. Vouched(s)
    BY <2>1, <2>3, FetchedVouched
  <2>5. QED
    BY <1>2, <2>2, <2>4, ReadOneEdited
<1>5. QED
  BY <1>3, <1>4, RefuseEdited

\* The examples of a suggestion are new ones.
LEMMA FetchExamplesEdited ==
    ASSUME TypeOK, ThreadsKnown, TypeOK', Edited, NEW t \in Threads, fetch_examples(t)
    PROVE  Edited'
<1>1. At(t, "fetch_examples") /\ "fetch_examples" \in FetchedOps
  BY DEF fetch_examples, FetchedOps
<1>2. PICK c : c = Current(t)
  OBVIOUS
<1>3. todo[t] # <<>> /\ c.row \in WordSuggestionRow
  BY <1>1, <1>2, AtFound DEF FetchedStatement
<1> DEFINE examples == ExampleSuggestionsOf(db, c.row.id)
           s == Fetched("fetch_linked_words", c.row, examples, {}, {})
<1>4. PICK about : Read(t, TRUE, <<s>>, about)
  BY <1>2 DEF fetch_examples
<1>5. s.op \in FetchedOps /\ s.links = {} /\ s.examples = examples
  BY DEF Fetched, FetchedOps
<1>6. \A r \in examples : r \in db.example_suggestions /\ r.existing_example_id = Null
  BY <1>3 DEF ExampleSuggestionsOf, Edited, OneParent, WordSuggestionRow, Id
<1> HIDE DEF s, examples
<1>7. TakenLinks(s.links) = {} /\ NewOrLost(s.links)
  BY <1>5 DEF TakenLinks, NewOrLost
<1>8. ASSUME NEW n \in TakenExamples(s.examples, Null)
      PROVE  Retold(ToldExamples, n)
  <2>1. PICK r \in examples : n = <<r.id, r.existing_example_id, Null>>
    BY <1>5 DEF TakenExamples
  <2>2. Retold(ToldExamples, <<r.id, r.existing_example_id, r.existing_word_id>>)
    BY <1>6, RowsTold
  <2>3. QED
    BY <1>6, <2>1, <2>2 DEF Retold
<1>9. Vouched(s)
  BY <1>5, <1>6, <1>7, <1>8, FetchedVouched
<1>10. QED
  BY <1>3, <1>4, <1>9, ReadOneEdited

\* A row that is read as two words without its link names two.
LEMMA NamesTwoAlone ==
    ASSUME NEW d, NEW r, NamesTwoWords(d, r, FALSE)
    PROVE  NamesTwo(r)
<1> DEFINE ids == NamedWords(d, r, FALSE)
<1>1. PICK i, j : i \in Named(ids) /\ j \in Named(ids) /\ i < j
  BY DEF NamesTwoWords
<1>2. /\ DOMAIN ids = 1 .. 6
      /\ ids[1][2] = r.first_existing_word_id /\ ids[2][2] = r.second_existing_word_id
      /\ ids[3][2] = r.suggested_word_id /\ ids[4][2] = r.second_suggested_word_id
      /\ ids[5][2] = Null /\ ids[6][2] = Null
  BY DEF NamedWords, Existing, Suggested
<1> HIDE DEF ids
<1>3. /\ i \in 1 .. 4 /\ j \in 1 .. 4 /\ i # j /\ ids[i][2] # Null /\ ids[j][2] # Null
  BY <1>1, <1>2 DEF Named
<1> DEFINE column == <<"first_existing_word_id", "second_existing_word_id",
                       "suggested_word_id", "second_suggested_word_id">>
<1>4. /\ column[1] = "first_existing_word_id" /\ column[2] = "second_existing_word_id"
      /\ column[3] = "suggested_word_id" /\ column[4] = "second_suggested_word_id"
  OBVIOUS
<1> HIDE DEF column
<1>5. \A k \in 1 .. 4 : column[k] \in WordColumns /\ r[column[k]] = ids[k][2]
  BY <1>2, <1>4 DEF WordColumns
<1>6. column[i] # column[j]
  BY <1>3, <1>4
<1>7. QED
  BY <1>3, <1>5, <1>6 DEF NamesTwo

\* So the links of a suggestion are new ones, or lost.
LEMMA LinksOfSuggestionNew ==
    ASSUME Edited, NEW s, LinksPopulate(db, s)
    PROVE  \A r \in LinkSuggestionsOf(db, s) :
               /\ r \in db.linked_word_suggestions
               /\ r.existing_linked_word_id = Null \/ Lost(r.existing_linked_word_id)
BY NamesTwoAlone DEF LinksPopulate, LinkSuggestionsOf, Edited, NamesOne

LEMMA FetchLinkedWordsEdited ==
    ASSUME TypeOK, ThreadsKnown, TypeOK', Edited, NEW t \in Threads, fetch_linked_words(t)
    PROVE  Edited'
<1>1. At(t, "fetch_linked_words") /\ "fetch_linked_words" \in FetchedOps
  BY DEF fetch_linked_words, FetchedOps
<1>2. PICK c : c = Current(t)
  OBVIOUS
<1>3. /\ todo[t] # <<>>
      /\ \A r \in c.examples : r.existing_example_id = Null
      /\ \A n \in TakenExamples(c.examples, Null) : Retold(ToldExamples, n)
  BY <1>1, <1>2, AtFound
<1> DEFINE rows == LinkSuggestionsOf(db, c.row.id)
           links == {Populated(db, r, FALSE) : r \in rows}
           s == Fetched("fetch_datasets", c.row, c.examples, links, {})
<1>4. \/ Refuse(t)
      \/ LinksPopulate(db, c.row.id) /\ \E about : Read(t, TRUE, <<s>>, about)
  BY <1>2 DEF fetch_linked_words
<1>5. ASSUME LinksPopulate(db, c.row.id), NEW about, Read(t, TRUE, <<s>>, about)
      PROVE  Edited'
  <2>1. s.op \in FetchedOps /\ s.links = links /\ s.examples = c.examples
    BY DEF Fetched, FetchedOps
  <2>2. /\ rows \in SUBSET db.linked_word_suggestions
        /\ \A r \in rows : r.existing_linked_word_id = Null \/ Lost(r.existing_linked_word_id)
    BY <1>5, LinksOfSuggestionNew
  <2>3. \A l \in links : \E r \in rows : l.id = r.id /\ l.existing_id = r.existing_linked_word_id
    <3>1. \A r : LET l == Populated(db, r, FALSE)
                 IN  l.id = r.id /\ l.existing_id = r.existing_linked_word_id
      BY DEF Populated
    <3>2. \A l \in links : \E r \in rows : l = Populated(db, r, FALSE)
      OBVIOUS
    <3> HIDE DEF rows, links
    <3>3. QED
      BY <3>1, <3>2
  <2> HIDE DEF s, links, rows
  <2>4. NewOrLost(links) /\ \A n \in TakenLinks(links) : RetoldLink(ToldLinks, n)
    BY <2>2, <2>3, LinksTold
  <2>5. Vouched(s)
    BY <1>3, <2>1, <2>4, FetchedVouched
  <2>6. QED
    BY <1>3, <1>5, <2>5, ReadOneEdited
<1>6. QED
  BY <1>4, <1>5, RefuseEdited

LEMMA FetchDatasetsEdited ==
    ASSUME TypeOK, ThreadsKnown, TypeOK', Edited, NEW t \in Threads, fetch_datasets(t)
    PROVE  Edited'
<1>1. At(t, "fetch_datasets") /\ "fetch_datasets" \in FetchedOps
  BY DEF fetch_datasets, FetchedOps
<1>2. PICK c : c = Current(t)
  OBVIOUS
<1>3. /\ todo[t] # <<>> /\ NewOrLost(c.links)
      /\ \A r \in c.examples : r.existing_example_id = Null
      /\ \A n \in TakenExamples(c.examples, Null) : Retold(ToldExamples, n)
      /\ \A n \in TakenLinks(c.links) : RetoldLink(ToldLinks, n)
  BY <1>1, <1>2, AtFound
<1> DEFINE s == Fetched("accept_just_word", c.row, c.examples, c.links,
                        DatasetSuggestionsOf(db, c.row.id))
<1>4. PICK about : Read(t, TRUE, <<s>>, about)
  BY <1>2 DEF fetch_datasets
<1>5. s.op \in FetchedOps /\ s.links = c.links /\ s.examples = c.examples
  BY DEF Fetched, FetchedOps
<1> HIDE DEF s
<1>6. Vouched(s)
  BY <1>3, <1>5, FetchedVouched
<1>7. QED
  BY <1>3, <1>4, <1>6, ReadOneEdited

\* The example of a word is accepted as one of the word it is filed under.
LEMMA FetchExampleEdited ==
    ASSUME TypeOK, ThreadsKnown, TypeOK', Edited, NEW t \in Threads, fetch_example(t)
    PROVE  Edited'
<1>1. At(t, "fetch_example") /\ todo[t] # <<>>
  BY DEF fetch_example, At
<1>2. \/ Refuse(t)
      \/ \E id \in Ids(db.example_suggestions) :
             LET row == RowOf(db.example_suggestions, id)
             IN  \E found, about :
                    Read(t, found, <<[op |-> "accept_examples", rows |-> {row},
                                      word_id |-> row.existing_word_id]>>, about)
  BY DEF fetch_example
<1>3. ASSUME NEW id \in Ids(db.example_suggestions), NEW row,
             row = RowOf(db.example_suggestions, id), NEW found, NEW about,
             Read(t, found, <<[op |-> "accept_examples", rows |-> {row},
                               word_id |-> row.existing_word_id]>>, about)
      PROVE  Edited'
  <2> DEFINE s == [op |-> "accept_examples", rows |-> {row}, word_id |-> row.existing_word_id]
  <2>1. s.op = "accept_examples" /\ s.rows = {row} /\ s.word_id = row.existing_word_id
    OBVIOUS
  <2>2. Read(t, found, <<s>>, about)
    BY <1>3
  <2> HIDE DEF s
  <2>3. row \in db.example_suggestions
    BY <1>3, RowOfType
  <2>4. s.op \notin WordOps \cup ProcessOps \cup FetchedOps
    BY <2>1 DEF WordOps, SentOps, ProcessOps, FetchedOps
  <2>5. /\ StatementExamples(s) = {<<row.id, row.existing_example_id, row.existing_word_id>>}
        /\ StatementLinks(s) = {} /\ Sound(s)
    BY <2>1, <2>4 DEF StatementExamples, StatementLinks, TakenExamples, Sound
  <2>6. Vouched(s)
    BY <2>3, <2>5, RowsTold DEF Vouched
  <2>7. QED
    BY <1>1, <2>2, <2>6, ReadOneEdited
<1>4. QED
  BY <1>2, <1>3, RefuseEdited

\* The other reads go on to statements that tell of no edit.
LEMMA FetchEdited ==
    ASSUME TypeOK, ThreadsKnown, TypeOK', Edited, NEW t \in Threads,
           \/ fetch_link(t) \/ fetch_dataset(t)
           \/ fetch_example_deletion(t) \/ fetch_link_deletion(t) \/ fetch_word_deletion(t)
    PROVE  Edited'
<1> DEFINE One(op) == /\ At(t, op)
                      /\ \/ Refuse(t)
                         \/ \E s, found, about : Vouched(s) /\ Read(t, found, <<s>>, about)
           Two(op) == /\ At(t, op)
                      /\ \/ Refuse(t)
                         \/ \E x, y, about : Vouched(x) /\ Vouched(y) /\ Read(t, TRUE, <<x, y>>, about)
           Tells(op) == op \in EditOps
<1>1. /\ ~Tells("accept_datasets") /\ ~Tells("accept_link") /\ ~Tells("delete_word")
      /\ ~Tells("delete_example") /\ ~Tells("delete_link")
  BY DEF EditOps, WordOps, SentOps, ProcessOps, FetchedOps
<1>2. /\ \A rows, word : Vouched([op |-> "accept_datasets", rows |-> rows, word_id |-> word])
      /\ \A link : Vouched([op |-> "accept_link", link |-> link])
      /\ \A id, shown : Vouched([op |-> "delete_word", id |-> id, shown |-> shown])
      /\ \A id, shown : Vouched([op |-> "delete_example", id |-> id, shown |-> shown])
      /\ \A id : Vouched([op |-> "delete_link", id |-> id])
  <2>1. \A s : ~Tells(s.op) => Vouched(s)
    BY OthersTellNothing
  <2> HIDE DEF Tells
  <2>2. QED
    BY <1>1, <2>1
<1>3. ASSUME NEW op, One(op)
      PROVE  Edited'
  <2>1. todo[t] # <<>>
    BY <1>3 DEF At
  <2>2. ASSUME NEW s, NEW found, NEW about, Vouched(s), Read(t, found, <<s>>, about)
        PROVE  Edited'
    BY <2>1, <2>2, ReadOneEdited
  <2>3. QED
    BY <1>3, <2>2, RefuseEdited
<1>4. ASSUME NEW op, Two(op)
      PROVE  Edited'
  <2>1. todo[t] # <<>>
    BY <1>4 DEF At
  <2>2. ASSUME NEW x, NEW y, NEW about, Vouched(x), Vouched(y), Read(t, TRUE, <<x, y>>, about)
        PROVE  Edited'
    BY <2>1, <2>2, ReadTwoEdited
  <2>3. QED
    BY <1>4, <2>2, RefuseEdited
<1>5. CASE fetch_link(t)
  <2>1. One("fetch_link")
    BY <1>2, <1>5 DEF fetch_link
  <2>2. QED
    BY <1>3, <2>1
<1>6. CASE fetch_dataset(t)
  <2>1. One("fetch_dataset")
    BY <1>2, <1>6 DEF fetch_dataset
  <2>2. QED
    BY <1>3, <2>1
<1>7. CASE fetch_example_deletion(t)
  <2>1. Two("fetch_example_deletion")
    BY <1>2, <1>7, SmallVouched DEF fetch_example_deletion, DeleteExampleDeletion
  <2>2. QED
    BY <1>4, <2>1
<1>8. CASE fetch_link_deletion(t)
  <2>1. Two("fetch_link_deletion")
    BY <1>2, <1>8, SmallVouched DEF fetch_link_deletion, DeleteLinkedWordDeletion
  <2>2. QED
    BY <1>4, <2>1
<1>9. CASE fetch_word_deletion(t)
  <2>1. Two("fetch_word_deletion")
    BY <1>2, <1>9, SmallVouched DEF fetch_word_deletion
  <2>2. QED
    BY <1>4, <2>1
<1>10. QED
  BY <1>5, <1>6, <1>7, <1>8, <1>9

-----------------------------------------------------------------------------
(* Writes that file no edit *)

\* Tables that only lose edits, and links.
FewerEdits(d) ==
    /\ NumbersGrow(d)
    /\ d.example_suggestions \subseteq db.example_suggestions
    /\ d.examples \subseteq db.examples
    /\ d.linked_word_suggestions \subseteq db.linked_word_suggestions
    /\ d.linked_words \subseteq db.linked_words

LEMMA FewerFiled ==
    ASSUME Edited, NEW d, FewerEdits(d)
    PROVE  Files(d)
<1>1. Keyed(db.linked_words)
  BY DEF Edited
<1>2. KeepsLinks(d)
  BY <1>1 DEF KeepsLinks, FewerEdits, Keyed, Ids
<1>3. QED
  BY <1>2, NoneFiled DEF FewerEdits, NoNewEdits

\* A write of one of the tables that hold no edit.
LEMMA OtherTables ==
    ASSUME TypeOK, NEW d, d.example_suggestions = db.example_suggestions,
           d.examples = db.examples, d.linked_word_suggestions = db.linked_word_suggestions,
           d.linked_words = db.linked_words,
           d.seq = db.seq \/ \E table, id : /\ d.seq = Bump(db.seq, table, id)
                                            /\ table \notin {"example_suggestions", "examples",
                                                             "linked_word_suggestions"}
    PROVE  FewerEdits(d)
<1>1. NumbersGrow(d)
  <2>1. CASE d.seq = db.seq
    BY <2>1, NumbersType DEF NumbersGrow
  <2>2. CASE d.seq # db.seq
    <3>1. PICK table, id : /\ d.seq = Bump(db.seq, table, id)
                           /\ table \notin {"example_suggestions", "examples",
                                            "linked_word_suggestions"}
      BY <2>2
    <3>2. db.seq \in [AutoIncrement -> Nat]
      BY DEF TypeOK, Database
    <3>3. \A other \in AutoIncrement : other # table => d.seq[other] = db.seq[other]
      BY <3>1, <3>2 DEF Bump
    <3>4. QED
      BY <3>1, <3>3, NumbersType DEF NumbersGrow, AutoIncrement
  <2>3. QED
    BY <2>1, <2>2
<1>2. QED
  BY <1>1 DEF FewerEdits

\* A write after which nothing is added to what is left.
LEMMA WriteAloneEdited ==
    ASSUME TypeOK, TypeOK', Edited, NEW t \in Threads, todo[t] # <<>>,
           NEW allowed, NEW after, Write(t, allowed, after, <<>>), Files(after)
    PROVE  Edited'
<1> DEFINE X == {}
           p == <<>>
<1>1. p \in Seq(X) /\ Write(t, allowed, after, p)
  OBVIOUS
<1>2. \A x \in X : Vouched(x)
  OBVIOUS
<1> HIDE DEF X, p
<1>3. QED
  BY <1>1, <1>2, WriteEdited

LEMMA AttributionEdited ==
    ASSUME TypeOK, TypeOK', Edited, NEW t \in Threads, ExecAddUserAttribution(t)
    PROVE  Edited'
<1>1. todo[t] # <<>>
  BY DEF ExecAddUserAttribution, At
<1> DEFINE allowed == Current(t).word_id \in db.words
           after == [db EXCEPT !.user_attributions = @ \cup {<<Current(t).word_id, Current(t).user>>}]
<1>2. Write(t, allowed, after, <<>>)
  BY DEF ExecAddUserAttribution
<1>3. FewerEdits(after)
  <2>1. /\ after.example_suggestions = db.example_suggestions /\ after.seq = db.seq
        /\ after.examples = db.examples /\ after.linked_words = db.linked_words
        /\ after.linked_word_suggestions = db.linked_word_suggestions
    BY DEF TypeOK, Database
  <2> HIDE DEF after
  <2>2. QED
    BY <2>1, OtherTables
<1> HIDE DEF allowed, after
<1>4. QED
  BY <1>1, <1>2, <1>3, FewerFiled, WriteAloneEdited

LEMMA DeleteRowEdited ==
    ASSUME TypeOK, ThreadsKnown, TypeOK', Edited, NEW t \in Threads, ExecDeleteRow(t)
    PROVE  Edited'
<1>1. At(t, "delete_row") /\ todo[t] # <<>>
  BY DEF ExecDeleteRow, At
<1> DEFINE s == Current(t)
           after == [db EXCEPT ![s.table] = Drop(@, s.id)]
<1>2. Write(t, TRUE, after, <<>>)
  BY DEF ExecDeleteRow
<1>3. s.table \in LeafTables
  <2>1. s \in SharedStatement /\ s.op = "delete_row"
    BY <1>1, AtShared DEF At, Current
  <2>2. QED
    BY <2>1 DEF SharedStatement
<1> HIDE DEF s
<1>4. FewerEdits(after)
  <2>1. /\ after.seq = db.seq /\ after.examples = db.examples
        /\ after.linked_words = db.linked_words
    BY <1>3 DEF TypeOK, Database, LeafTables
  <2>2. after.example_suggestions \subseteq db.example_suggestions
    BY <1>3 DEF TypeOK, Database, Drop
  <2>3. after.linked_word_suggestions \subseteq db.linked_word_suggestions
    BY <1>3 DEF TypeOK, Database, Drop
  <2> HIDE DEF after
  <2>4. NumbersGrow(after)
    BY <2>1, NumbersType DEF NumbersGrow
  <2>5. QED
    BY <2>1, <2>2, <2>3, <2>4 DEF FewerEdits
<1> HIDE DEF after
<1>5. QED
  BY <1>1, <1>2, <1>4, FewerFiled, WriteAloneEdited

LEMMA ExecIndexEdited ==
    ASSUME TypeOK, ThreadsKnown, TypeOK', Edited, NEW t \in Threads, ExecIndex(t)
    PROVE  Edited'
<1>1. todo[t] # <<>>
  BY DEF ExecIndex, At
<1>2. Continue(t, <<>>, {}) /\ UNCHANGED <<db, forms, broken>> /\ Observe
  BY DEF ExecIndex
<1> DEFINE X == {}
           p == <<>>
           about == {}
<1>3. p \in Seq(X) /\ Continue(t, p, about) /\ \A x \in X : Vouched(x)
  BY <1>2
<1> HIDE DEF X, p, about
<1>4. Files(db') /\ broken \subseteq broken' /\ forms' = forms
  BY <1>2, SameTables, NoneFiled
<1>5. QED
  BY <1>1, <1>2, <1>3, <1>4, GoesOnEdited

LEMMA InsertWordDeletionEdited ==
    ASSUME TypeOK, ThreadsKnown, TypeOK', Edited, NEW t \in Threads, insert_word_deletion(t)
    PROVE  Edited'
<1>1. todo[t] # <<>>
  BY DEF insert_word_deletion, At
<1> DEFINE w == Current(t).id
           T == db.word_deletion_suggestions
           key == db.seq["word_deletion_suggestions"] + 1
           added == [db EXCEPT !.word_deletion_suggestions = @ \cup {[id |-> key, word_id |-> w]},
                               !.seq = Bump(@, "word_deletion_suggestions", key)]
           after == IF \E r \in T : r.word_id = w THEN db ELSE added
           allowed == w \in db.words
<1>2. Write(t, allowed, after, <<>>)
  BY DEF insert_word_deletion
<1>3. FewerEdits(db)
  BY OtherTables
<1>4. FewerEdits(added)
  <2>1. /\ added.example_suggestions = db.example_suggestions
        /\ added.seq = Bump(db.seq, "word_deletion_suggestions", key)
        /\ added.examples = db.examples /\ added.linked_words = db.linked_words
        /\ added.linked_word_suggestions = db.linked_word_suggestions
    BY DEF TypeOK, Database
  <2> HIDE DEF added, key
  <2>2. QED
    BY <2>1, OtherTables
<1>5. FewerEdits(after)
  <2> HIDE DEF added
  <2>1. QED
    BY <1>3, <1>4
<1> HIDE DEF after, allowed
<1>6. QED
  BY <1>1, <1>2, <1>5, FewerFiled, WriteAloneEdited

\* A cascade takes edits and links, and brings none.
LEMMA CascadeOfEdits ==
    ASSUME NEW d \in Database
    PROVE  /\ Cascade(d).seq = d.seq
           /\ Cascade(d).examples \subseteq d.examples
           /\ Cascade(d).linked_words \subseteq d.linked_words
           /\ Cascade(d).example_suggestions \subseteq d.example_suggestions
           /\ Cascade(d).linked_word_suggestions \subseteq d.linked_word_suggestions
<1> DEFINE p == CascadeParents(d)
<1>1. /\ p \in Database /\ p.example_suggestions = d.example_suggestions
      /\ p.linked_word_suggestions = d.linked_word_suggestions
  BY DEF Database, CascadeParents
<1> HIDE DEF p
<1> DEFINE c == CascadeLeaves(p)
<1>2. /\ c.example_suggestions \subseteq p.example_suggestions
      /\ c.linked_word_suggestions \subseteq p.linked_word_suggestions
  BY <1>1 DEF Database, CascadeLeaves
<1>3. Cascade(d) = c
  BY DEF Cascade, p
<1> HIDE DEF c
<1>4. QED
  BY <1>1, <1>2, <1>3, CascadeTakes

LEMMA DeletesEdited ==
    ASSUME TypeOK, ThreadsKnown, TypeOK', Edited, NEW t \in Threads,
           delete_word(t) \/ delete_example(t) \/ delete_link(t) \/ delete_word_suggestion(t)
    PROVE  Edited'
<1>1. todo[t] # <<>>
  BY DEF delete_word, delete_example, delete_link, delete_word_suggestion, At
<1>2. PICK id : id = Current(t).id
  OBVIOUS
<1>3. PICK after \in {WithoutWord(db, id), WithoutExample(db, id), WithoutLinkedWord(db, id),
                      WithoutWordSuggestion(db, id)} : Write(t, TRUE, after, <<>>)
  BY <1>2 DEF delete_word, delete_example, delete_link, delete_word_suggestion
<1>4. PICK less \in {[db EXCEPT !.words = @ \ {id}], [db EXCEPT !.examples = Drop(@, id)],
                     [db EXCEPT !.linked_words = Drop(@, id)],
                     [db EXCEPT !.word_suggestions = Drop(@, id)]} : after = Cascade(less)
  BY DEF WithoutWord, WithoutExample, WithoutLinkedWord, WithoutWordSuggestion
<1>5. /\ less \in Database /\ less.seq = db.seq
      /\ less.examples \subseteq db.examples
      /\ less.linked_words \subseteq db.linked_words
      /\ less.example_suggestions = db.example_suggestions
      /\ less.linked_word_suggestions = db.linked_word_suggestions
  <2>1. db \in Database
    BY DEF TypeOK
  <2>2. CASE less = [db EXCEPT !.words = @ \ {id}]
    BY <2>1, <2>2 DEF Database
  <2>3. CASE less = [db EXCEPT !.examples = Drop(@, id)]
    BY <2>1, <2>3 DEF Database, Drop
  <2>4. CASE less = [db EXCEPT !.linked_words = Drop(@, id)]
    BY <2>1, <2>4 DEF Database, Drop
  <2>5. CASE less = [db EXCEPT !.word_suggestions = Drop(@, id)]
    BY <2>1, <2>5 DEF Database, Drop
  <2>6. QED
    BY <1>4, <2>2, <2>3, <2>4, <2>5
<1>6. NumbersGrow(after)
  BY <1>4, <1>5, CascadeOfEdits, NumbersType DEF NumbersGrow
<1>7. FewerEdits(after)
  BY <1>4, <1>5, <1>6, CascadeOfEdits DEF FewerEdits
<1>8. QED
  BY <1>1, <1>3, <1>7, FewerFiled, WriteAloneEdited

-----------------------------------------------------------------------------
(* Loops over edits *)

LoopOps == {"write_link", "write_example", "write_dataset",
            "accept_examples", "accept_datasets", "accept_links"}

\* What is left of a loop is vouched for as all of it was.
LEMMA RestVouched ==
    ASSUME NEW c, c.op \in LoopOps, Vouched(c), NEW r, r.op = c.op, r.rows \subseteq c.rows,
           c.op = "accept_examples" => r.word_id = c.word_id
    PROVE  Vouched(r)
<1>1. c.op \notin WordOps \cup ProcessOps \cup FetchedOps
  BY DEF LoopOps, WordOps, SentOps, ProcessOps, FetchedOps
<1>2. Upserts(r) \subseteq Upserts(c)
  BY DEF Upserts
<1>3. NewOrLost(c.rows) => NewOrLost(r.rows)
  BY DEF NewOrLost
<1>4. Sound(r)
  BY <1>1, <1>2, <1>3 DEF Vouched, Sound
<1>5. /\ RowExamples(Upserts(r)) \subseteq RowExamples(Upserts(c))
      /\ RowLinks(Upserts(r)) \subseteq RowLinks(Upserts(c))
      /\ \A w : TakenExamples(r.rows, w) \subseteq TakenExamples(c.rows, w)
      /\ TakenLinks(r.rows) \subseteq TakenLinks(c.rows)
  BY <1>2 DEF RowExamples, RowLinks, TakenExamples, TakenLinks
<1>6. StatementExamples(r) \subseteq StatementExamples(c)
  <2>1. CASE c.op = "write_example"
    BY <1>1, <1>5, <2>1 DEF StatementExamples
  <2>2. CASE c.op = "accept_examples"
    BY <1>1, <1>5, <2>2 DEF StatementExamples
  <2>3. CASE c.op \notin {"write_example", "accept_examples"}
    BY <1>1, <2>3 DEF StatementExamples
  <2>4. QED
    BY <2>1, <2>2, <2>3
<1>7. StatementLinks(r) \subseteq StatementLinks(c)
  <2>1. CASE c.op = "write_link"
    BY <1>1, <1>5, <2>1 DEF StatementLinks
  <2>2. CASE c.op = "accept_links"
    BY <1>1, <1>5, <2>2 DEF StatementLinks
  <2>3. CASE c.op \notin {"write_link", "accept_links"}
    BY <1>1, <2>3 DEF StatementLinks
  <2>4. QED
    BY <2>1, <2>2, <2>3
<1>8. QED
  BY <1>4, <1>6, <1>7 DEF Vouched

\* One turn of a loop, with what it issues before the next.
LEMMA TurnEdited ==
    ASSUME TypeOK, ThreadsKnown, TypeOK', Edited, NEW t \in Threads, NEW op \in LoopOps, At(t, op),
           NEW c, c = Current(t), NEW S, S \subseteq c.rows,
           NEW P, NEW p \in Seq(P), \A x \in P : Vouched(x),
           NEW allowed, NEW after, Write(t, allowed, after, p \o Loop(c, S)),
           allowed => Files(after)
    PROVE  Edited'
<1>1. Vouched(c) /\ c.op = op /\ todo[t] # <<>>
  BY AtVouched
<1> DEFINE z == [c EXCEPT !.rows = S]
           X == P \cup {z}
           q == Loop(c, S)
<1>2. z.op = c.op /\ z.rows = S /\ (op = "accept_examples" => z.word_id = c.word_id)
  <2>1. c \in AcceptStatement \/ c \in SubmitStatement
    BY AtAccept, AtSubmit DEF LoopOps
  <2>2. CASE c \in AcceptStatement
    BY <1>1, <2>2 DEF AcceptStatement, LoopOps
  <2>3. CASE c \in SubmitStatement
    BY <1>1, <2>3 DEF SubmitStatement, LoopOps
  <2>4. QED
    BY <2>1, <2>2, <2>3
<1>3. q \in Seq({z})
  BY LoopStatements
<1> HIDE DEF z, q
<1>4. Vouched(z)
  BY <1>1, <1>2, RestVouched
<1>5. \A x \in X : Vouched(x)
  BY <1>4
<1>6. p \in Seq(X) /\ q \in Seq(X)
  BY <1>3
<1> HIDE DEF X
<1>7. p \o q \in Seq(X)
  BY <1>6
<1>8. Write(t, allowed, after, p \o q)
  BY DEF q
<1>9. PICK r : r = p \o q
  OBVIOUS
<1>10. r \in Seq(X) /\ Write(t, allowed, after, r)
  BY <1>7, <1>8, <1>9
<1>11. QED
  BY <1>1, <1>5, <1>10, WriteEdited

\* One that issues nothing.
LEMMA PlainTurnEdited ==
    ASSUME TypeOK, ThreadsKnown, TypeOK', Edited, NEW t \in Threads, NEW op \in LoopOps, At(t, op),
           NEW c, c = Current(t), NEW S, S \subseteq c.rows,
           NEW allowed, NEW after, Write(t, allowed, after, Loop(c, S)),
           allowed => Files(after)
    PROVE  Edited'
<1> DEFINE p == <<>>
           P == {}
<1>1. Loop(c, S) \in Seq({[c EXCEPT !.rows = S]})
  BY LoopStatements
<1>2. p \o Loop(c, S) = Loop(c, S)
  <2>1. PICK q, Z : q = Loop(c, S) /\ q \in Seq(Z)
    BY <1>1
  <2>2. <<>> \o q = q
    BY <2>1
  <2>3. QED
    BY <2>1, <2>2
<1>3. p \in Seq(P) /\ \A x \in P : Vouched(x)
  OBVIOUS
<1>4. Write(t, allowed, after, p \o Loop(c, S))
  BY <1>2
<1> HIDE DEF p, P
<1>5. QED
  BY <1>3, <1>4, TurnEdited

-----------------------------------------------------------------------------
(* What an acceptance writes *)

\* An example that is accepted comes under its word: a new one under the next
\* number, and one that is brought back where it was.
LEMMA PutExampleFiles ==
    ASSUME TypeOK, Edited, NEW id \in OptionalId, NEW word \in Id,
           id = Null \/ \E p \in ToldExamples : p[2] = id /\ p[3] = word
    PROVE  Files(PutExample(db, id, word))
<1>1. CASE id \in Ids(db.examples)
  <2>1. PutExample(db, id, word) = db
    BY <1>1 DEF PutExample
  <2>2. QED
    BY <2>1, SameTables, NoneFiled
<1>2. CASE id \notin Ids(db.examples)
  <2> DEFINE key == KeyOrNext(db, "examples", id)
             row == [id |-> key, word_id |-> word]
             seq == Bump(db.seq, "examples", key)
             after == PutExample(db, id, word)
  <2>1. db \in Database /\ db.seq \in [AutoIncrement -> Nat] /\ "examples" \in AutoIncrement
    BY DEF TypeOK, Database, AutoIncrement
  <2>2. key \in Nat /\ ((id = Null /\ key > db.seq["examples"]) \/ (id # Null /\ key = id))
    BY <2>1 DEF KeyOrNext, OptionalId
  <2>3. row.id = key /\ row.word_id = word
    OBVIOUS
  <2> HIDE DEF key, row
  <2>4. after = [db EXCEPT !.examples = @ \cup {row}, !.seq = seq]
    BY <1>2 DEF PutExample, key, row
  <2>5. /\ \A table \in AutoIncrement : db.seq[table] <= seq[table]
        /\ key <= seq["examples"]
    BY <2>1, <2>2, BumpPasses
  <2> HIDE DEF seq
  <2>6. /\ after.examples = db.examples \cup {row} /\ after.seq = seq
        /\ after.linked_words = db.linked_words
        /\ after.example_suggestions = db.example_suggestions
        /\ after.linked_word_suggestions = db.linked_word_suggestions
    BY <2>1, <2>4 DEF Database
  <2> HIDE DEF after
  <2>7. NumbersGrow(after) /\ KeepsLinks(after)
    BY <2>5, <2>6 DEF NumbersGrow, KeepsLinks, AutoIncrement, Edited
  <2>8. TableExamples(after) = TableExamples(db) \cup {<<Null, key, word>>}
    BY <2>3, <2>6 DEF TableExamples
  <2> DEFINE n == <<Null, key, word>>
  <2>9. Retold(ToldExamples, n) \/ NextExample(after, ToldExamples, n)
    <3>1. n[1] = Null /\ n[2] = key /\ n[3] = word
      OBVIOUS
    <3>2. word # Null /\ Null \in Nat
      BY DEF Id, Null
    <3>3. Null <= after.seq["example_suggestions"]
      <4>1. db.seq["example_suggestions"] \in Nat
        BY NumbersType
      <4>2. db.seq["example_suggestions"] <= seq["example_suggestions"]
        BY <2>5 DEF AutoIncrement
      <4>3. seq["example_suggestions"] \in Nat
        BY <2>1, <2>2 DEF seq, Bump, AutoIncrement
      <4>4. QED
        BY <2>6, <4>3 DEF Null
    <3> HIDE DEF n
    <3>4. CASE id = Null
      BY <2>2, <2>5, <2>6, <3>1, <3>2, <3>3, <3>4 DEF NextExample
    <3>5. CASE id # Null
      BY <2>2, <3>1, <3>5 DEF Retold
    <3>6. QED
      BY <3>4, <3>5
  <2> HIDE DEF n
  <2>10. \A m \in TableExamples(after) :
             Retold(ToldExamples, m) \/ (m = n /\ NextExample(after, ToldExamples, m))
    <3>1. \A m \in TableExamples(db) : Retold(ToldExamples, m)
      BY ToldOfItself DEF ToldExamples
    <3>2. QED
      BY <2>8, <2>9, <3>1 DEF n
  <2>11. \A m \in RowLinks(after.linked_word_suggestions) : RetoldLink(ToldLinks, m)
    BY <2>6, ToldOfItself DEF ToldLinks
  <2>12. Files(after)
    BY <2>6, <2>7, <2>10, <2>11 DEF Files
  <2>13. QED
    BY <2>12 DEF after
<1>3. QED
  BY <1>1, <1>2

LEMMA AcceptExampleEdited ==
    ASSUME TypeOK, ThreadsKnown, TypeOK', Edited, NEW t \in Threads, accept_example(t)
    PROVE  Edited'
<1>1. At(t, "accept_examples") /\ "accept_examples" \in LoopOps
  BY DEF accept_example, LoopOps
<1>2. PICK c : c = Current(t)
  OBVIOUS
<1>3. PICK r \in c.rows :
          Write(t, r.existing_example_id \in Ids(db.examples) \/ c.word_id \in db.words,
                PutExample(db, r.existing_example_id, c.word_id),
                <<AddUserAttribution(r.user, c.word_id), DeleteExampleSuggestion(r.id)>>
                \o Loop(c, c.rows \ {r}))
  BY <1>2 DEF accept_example
<1>4. c \in AcceptStatement /\ c.op = "accept_examples" /\ Vouched(c)
  BY <1>1, <1>2, AtAccept, AtVouched
<1>5. c \in [op: {"accept_examples"}, rows: SUBSET ExampleSuggestionRow, word_id: Id]
  BY <1>4 DEF AcceptStatement
<1> DEFINE after == PutExample(db, r.existing_example_id, c.word_id)
<1>6. Files(after)
  <2>1. r \in ExampleSuggestionRow /\ c.word_id \in Id
    BY <1>3, <1>5
  <2>2. StatementExamples(c) = TakenExamples(c.rows, c.word_id)
    BY <1>4 DEF StatementExamples, WordOps, SentOps, ProcessOps
  <2>3. <<r.id, r.existing_example_id, c.word_id>> \in StatementExamples(c)
    BY <1>3, <2>2 DEF TakenExamples
  <2>4. Retold(ToldExamples, <<r.id, r.existing_example_id, c.word_id>>)
    BY <1>4, <2>3 DEF Vouched
  <2>5. \/ r.existing_example_id = Null
        \/ \E p \in ToldExamples : p[2] = r.existing_example_id /\ p[3] = c.word_id
    BY <2>4 DEF Retold
  <2>6. QED
    BY <2>1, <2>5, PutExampleFiles DEF ExampleSuggestionRow
<1> DEFINE x == AddUserAttribution(r.user, c.word_id)
           y == DeleteExampleSuggestion(r.id)
           P == {x, y}
           p == <<x, y>>
           S == c.rows \ {r}
           allowed == r.existing_example_id \in Ids(db.examples) \/ c.word_id \in db.words
<1>7. Write(t, allowed, after, p \o Loop(c, S)) /\ S \subseteq c.rows
  BY <1>3
<1>8. Vouched(x) /\ Vouched(y)
  BY SmallVouched DEF DeleteExampleSuggestion
<1> HIDE DEF after, x, y, S, allowed
<1>9. p \in Seq(P) /\ \A z \in P : Vouched(z)
  BY <1>8
<1> HIDE DEF p, P
<1>10. QED
  BY <1>1, <1>2, <1>6, <1>7, <1>9, TurnEdited

LEMMA AcceptDatasetEdited ==
    ASSUME TypeOK, ThreadsKnown, TypeOK', Edited, NEW t \in Threads, accept_dataset(t)
    PROVE  Edited'
<1>1. At(t, "accept_datasets") /\ "accept_datasets" \in LoopOps
  BY DEF accept_dataset, LoopOps
<1>2. PICK c : c = Current(t)
  OBVIOUS
<1>3. PICK r \in c.rows :
          LET pair == <<c.word_id, r.dataset>>
          IN  Write(t, r.is_delete \/ c.word_id \in db.words,
                    [db EXCEPT !.dataset_attributions =
                        IF r.is_delete THEN @ \ {pair} ELSE @ \cup {pair}],
                    <<AddUserAttribution(r.user, c.word_id), DeleteDatasetSuggestion(r.id)>>
                    \o Loop(c, c.rows \ {r}))
  BY <1>2 DEF accept_dataset
<1> DEFINE pair == <<c.word_id, r.dataset>>
           after == [db EXCEPT !.dataset_attributions =
                        IF r.is_delete THEN @ \ {pair} ELSE @ \cup {pair}]
           x == AddUserAttribution(r.user, c.word_id)
           y == DeleteDatasetSuggestion(r.id)
           P == {x, y}
           p == <<x, y>>
           S == c.rows \ {r}
           allowed == r.is_delete \/ c.word_id \in db.words
<1>4. FewerEdits(after)
  <2>1. /\ after.example_suggestions = db.example_suggestions /\ after.seq = db.seq
        /\ after.examples = db.examples /\ after.linked_words = db.linked_words
        /\ after.linked_word_suggestions = db.linked_word_suggestions
    BY DEF TypeOK, Database
  <2> HIDE DEF after
  <2>2. QED
    BY <2>1, OtherTables
<1>5. Write(t, allowed, after, p \o Loop(c, S)) /\ S \subseteq c.rows
  BY <1>3
<1>6. Vouched(x) /\ Vouched(y)
  BY SmallVouched DEF DeleteDatasetSuggestion
<1> HIDE DEF after, x, y, S, allowed
<1>7. p \in Seq(P) /\ \A z \in P : Vouched(z)
  BY <1>6
<1> HIDE DEF p, P
<1>8. Files(after)
  BY <1>4, FewerFiled
<1>9. QED
  BY <1>1, <1>2, <1>5, <1>7, <1>8, TurnEdited

\* A link that comes has a number that none has.
LEMMA PutLinkFiles ==
    ASSUME TypeOK, IdsPassed, Edited, NEW id \in OptionalId, NEW first, NEW second
    PROVE  Files(PutLinkedWord(db, id, first, second))
<1>1. CASE id \in Ids(db.linked_words)
  <2>1. PutLinkedWord(db, id, first, second) = db
    BY <1>1 DEF PutLinkedWord
  <2>2. QED
    BY <2>1, SameTables, NoneFiled
<1>2. CASE id \notin Ids(db.linked_words)
  <2> DEFINE key == KeyOrNext(db, "linked_words", id)
             row == [id |-> key, first_word_id |-> first, second_word_id |-> second]
             seq == Bump(db.seq, "linked_words", key)
             after == PutLinkedWord(db, id, first, second)
  <2>1. db \in Database /\ db.seq \in [AutoIncrement -> Nat] /\ "linked_words" \in AutoIncrement
    BY DEF TypeOK, Database, AutoIncrement
  <2>2. key \in Nat /\ (key > db.seq["linked_words"] \/ (id # Null /\ key = id))
    BY <2>1, KeyIsNext
  <2>3. row.id = key
    OBVIOUS
  <2> HIDE DEF key, row
  <2>4. after = [db EXCEPT !.linked_words = @ \cup {row}, !.seq = seq]
    BY <1>2 DEF PutLinkedWord, key, row
  <2>5. \A table \in AutoIncrement : db.seq[table] <= seq[table]
    BY <2>1, <2>2, BumpPasses
  <2> HIDE DEF seq
  <2>6. /\ after.examples = db.examples /\ after.seq = seq
        /\ after.linked_words = db.linked_words \cup {row}
        /\ after.example_suggestions = db.example_suggestions
        /\ after.linked_word_suggestions = db.linked_word_suggestions
    BY <2>1, <2>4 DEF Database
  <2> HIDE DEF after
  <2>7. key \notin Ids(db.linked_words)
    <3>1. ASSUME NEW l \in Ids(db.linked_words)
          PROVE  l \in Nat /\ l <= db.seq["linked_words"]
      <4>1. <<"link", l>> \in Entries(db)
        BY EntryNames
      <4>2. <<"link", l>>[2] <= LastId(db, <<"link", l>>)
        BY <4>1 DEF IdsPassed
      <4>3. LastId(db, <<"link", l>>) = db.seq["linked_words"]
        BY DEF LastId
      <4>4. l \in Nat
        BY <2>1 DEF Database, LinkedWordRow, Ids, Id
      <4>5. QED
        BY <4>2, <4>3, <4>4
    <3>2. db.seq["linked_words"] \in Nat
      BY <2>1
    <3>3. QED
      BY <1>2, <2>2, <3>1, <3>2
  <2>8. NumbersGrow(after)
    BY <2>5, <2>6 DEF NumbersGrow, AutoIncrement
  <2>9. KeepsLinks(after)
    <3>1. Keyed(db.linked_words)
      BY DEF Edited
    <3>2. QED
      BY <2>3, <2>6, <2>7, <3>1 DEF KeepsLinks, Keyed, Ids
  <2>10. \A m \in TableExamples(after) : Retold(ToldExamples, m)
    BY <2>6, ToldOfItself DEF ToldExamples, TableExamples
  <2>11. \A m \in RowLinks(after.linked_word_suggestions) : RetoldLink(ToldLinks, m)
    BY <2>6, ToldOfItself DEF ToldLinks
  <2>12. Files(after)
    BY <2>6, <2>8, <2>9, <2>10, <2>11 DEF Files
  <2>13. QED
    BY <2>12 DEF after
<1>3. QED
  BY <1>1, <1>2

\* A link that waits for its other word is still the one it was.
UpdatedRow(r, ends) ==
    [r EXCEPT !.first_existing_word_id = IntoExisting(ends.first),
              !.second_existing_word_id = IntoExisting(ends.second),
              !.suggested_word_id = IntoSuggested(ends.first),
              !.second_suggested_word_id = IntoSuggested(ends.second)]

LEMMA UpdateFiles ==
    ASSUME TypeOK, Edited, NEW l, NEW ends, l.existing_id = Null \/ Lost(l.existing_id),
           l.id # Null, RetoldLink(ToldLinks, <<l.id, l.existing_id>>), NEW after,
           after = [db EXCEPT !.linked_word_suggestions =
                       {IF r.id = l.id THEN UpdatedRow(r, ends) ELSE r :
                            r \in db.linked_word_suggestions}]
    PROVE  Files(after)
<1> DEFINE rows == db.linked_word_suggestions
           T == {IF r.id = l.id THEN UpdatedRow(r, ends) ELSE r : r \in rows}
<1>1. /\ after.linked_word_suggestions = T /\ after.seq = db.seq
      /\ after.examples = db.examples /\ after.linked_words = db.linked_words
      /\ after.example_suggestions = db.example_suggestions
  BY DEF TypeOK, Database
<1>2. rows \subseteq LinkedWordSuggestionRow
  BY DEF TypeOK, Database
<1>3. \A r \in rows : LET u == UpdatedRow(r, ends)
                      IN  u.id = r.id /\ u.existing_linked_word_id = r.existing_linked_word_id
  BY <1>2 DEF UpdatedRow, LinkedWordSuggestionRow
<1> HIDE DEF rows
<1>4. ASSUME NEW m \in T
      PROVE  \E r \in rows : /\ m.id = r.id /\ m.existing_linked_word_id = r.existing_linked_word_id
                             /\ m = r \/ m.id = l.id
  BY <1>3
<1> HIDE DEF T
<1>5. ASSUME NEW r \in rows, r.id = l.id
      PROVE  r.existing_linked_word_id = l.existing_id
  <2>1. <<r.id, r.existing_linked_word_id>> \in ToldLinks
    BY DEF ToldLinks, RowLinks, rows
  <2>2. PICK p \in ToldLinks : p[1] = l.id /\ p[2] = l.existing_id
    BY DEF RetoldLink
  <2>3. PICK q \in ToldLinks : q[1] = r.id /\ q[2] = r.existing_linked_word_id
    BY <2>1
  <2>4. LinksFiled(ToldLinks, db.seq["linked_word_suggestions"])
    BY DEF Edited
  <2>5. \A x, y \in ToldLinks : x[1] = y[1] /\ x[1] # Null => x[2] = y[2]
    BY <2>4 DEF LinksFiled
  <2>6. p[1] = q[1] /\ p[1] # Null
    BY <1>5, <2>2, <2>3
  <2>7. QED
    BY <2>2, <2>3, <2>5, <2>6
<1>6. \A m \in T : m \in db.linked_word_suggestions \/ NamesOne(m)
  BY <1>4, <1>5 DEF NamesOne, rows
<1>7. \A m \in RowLinks(T) : RetoldLink(ToldLinks, m)
  <2>1. RowLinks(T) \subseteq ToldLinks
    BY <1>4 DEF RowLinks, ToldLinks, rows
  <2>2. QED
    BY <2>1, ToldOfItself
<1>8. \A m \in TableExamples(after) : Retold(ToldExamples, m)
  BY <1>1, ToldOfItself DEF ToldExamples, TableExamples
<1>9. NumbersGrow(after) /\ KeepsLinks(after)
  BY <1>1, NumbersType DEF NumbersGrow, KeepsLinks, Edited
<1>10. QED
  BY <1>1, <1>6, <1>7, <1>8, <1>9 DEF Files

\* A link that is accepted is put where its number says.
LEMMA PutLinkVouched ==
    ASSUME TypeOK, IdsPassed, Edited, NEW t \in Threads, NEW l \in PopulatedLink, NEW ends,
           NEW rest, PutLink(t, l, ends, rest)
    PROVE  \E P, p, allowed, after :
               /\ p \in Seq(P) /\ (\A x \in P : Vouched(x)) /\ Files(after)
               /\ Write(t, allowed, after, p \o rest)
<1> DEFINE first == ends.first[2]
           second == ends.second[2]
           allowed == \/ l.existing_id \in Ids(db.linked_words)
                      \/ first \in db.words /\ second \in db.words
           after == PutLinkedWord(db, l.existing_id, first, second)
           x == AddUserAttribution(l.user, first)
           y == AddUserAttribution(l.user, second)
           z == DeleteLinkedWordSuggestion(l.id)
           P == {x, y, z}
           p == <<x, y, z>>
<1>1. Write(t, allowed, after, p \o rest)
  BY DEF PutLink
<1>2. Files(after)
  <2>1. l.existing_id \in OptionalId
    BY DEF PopulatedLink
  <2> HIDE DEF first, second
  <2>2. QED
    BY <2>1, PutLinkFiles
<1>3. Vouched(x) /\ Vouched(y) /\ Vouched(z)
  BY SmallVouched DEF DeleteLinkedWordSuggestion
<1> HIDE DEF allowed, after, x, y, z
<1>4. p \in Seq(P) /\ \A s \in P : Vouched(s)
  BY <1>3
<1> HIDE DEF p, P
<1>5. QED
  BY <1>1, <1>2, <1>4

LEMMA AcceptLinkEdited ==
    ASSUME TypeOK, ThreadsKnown, IdsPassed, TypeOK', Edited, NEW t \in Threads, accept_link(t)
    PROVE  Edited'
<1>1. At(t, "accept_link") /\ todo[t] # <<>>
  BY DEF accept_link, At
<1>2. PICK l, ends, rest : PutLink(t, l, ends, rest) /\ rest = <<>> /\ l = Current(t).link
  BY DEF accept_link
<1>3. l \in PopulatedLink
  <2>1. Current(t) \in AcceptStatement /\ Current(t).op = "accept_link"
    BY <1>1, AtAccept DEF At, Current
  <2>2. QED
    BY <1>2, <2>1 DEF AcceptStatement
<1>4. PICK P, p, allowed, after :
          /\ p \in Seq(P) /\ (\A x \in P : Vouched(x)) /\ Files(after)
          /\ Write(t, allowed, after, p \o rest)
  BY <1>2, <1>3, PutLinkVouched
<1>5. p \o rest = p
  BY <1>2, <1>4, ConcatEmptySeq
<1>6. Write(t, allowed, after, p)
  BY <1>4, <1>5
<1>7. QED
  BY <1>1, <1>4, <1>6, WriteEdited

LEMMA AcceptLinkOfWordEdited ==
    ASSUME TypeOK, ThreadsKnown, IdsPassed, TypeOK', Edited, NEW t \in Threads,
           accept_link_of_word(t)
    PROVE  Edited'
<1>1. At(t, "accept_links") /\ "accept_links" \in LoopOps
  BY DEF accept_link_of_word, LoopOps
<1>2. PICK c : c = Current(t)
  OBVIOUS
<1>3. PICK l, ends, S :
          /\ l \in c.rows /\ S = c.rows \ {l}
          /\ \/ PutLink(t, l, ends, Loop(c, S))
             \/ update_first_and_second(t, l, ends, Loop(c, S))
  BY <1>2 DEF accept_link_of_word
<1>4. c \in AcceptStatement /\ c.op = "accept_links" /\ Vouched(c)
  BY <1>1, <1>2, AtAccept, AtVouched
<1>5. l \in PopulatedLink
  BY <1>3, <1>4 DEF AcceptStatement
<1>6. CASE PutLink(t, l, ends, Loop(c, S))
  <2>1. PICK P, p, allowed, after :
            /\ p \in Seq(P) /\ (\A x \in P : Vouched(x)) /\ Files(after)
            /\ Write(t, allowed, after, p \o Loop(c, S))
    BY <1>5, <1>6, PutLinkVouched
  <2>2. S \subseteq c.rows
    BY <1>3
  <2>3. QED
    BY <1>1, <1>2, <2>1, <2>2, TurnEdited
<1>7. CASE update_first_and_second(t, l, ends, Loop(c, S))
  <2> DEFINE T == {IF r.id = l.id THEN UpdatedRow(r, ends) ELSE r :
                       r \in db.linked_word_suggestions}
             after == [db EXCEPT !.linked_word_suggestions = T]
             allowed == \A r \in T : r.id = l.id => LinkedWordSuggestionOk(db, r)
  <2>1. Write(t, allowed, after, Loop(c, S))
    BY <1>7 DEF update_first_and_second, UpdatedRow
  <2>2. StatementLinks(c) = TakenLinks(c.rows) /\ NewOrLost(c.rows)
    BY <1>4 DEF StatementLinks, WordOps, SentOps, ProcessOps, Vouched, Sound
  <2>3. <<l.id, l.existing_id>> \in StatementLinks(c)
    BY <1>3, <2>2 DEF TakenLinks
  <2>4. RetoldLink(ToldLinks, <<l.id, l.existing_id>>)
    BY <1>4, <2>3 DEF Vouched
  <2>5. l.existing_id = Null \/ Lost(l.existing_id)
    BY <1>3, <2>2 DEF NewOrLost
  <2>6. l.id # Null
    BY <1>5 DEF PopulatedLink, Id
  <2>7. Files(after)
    BY <2>4, <2>5, <2>6, UpdateFiles
  <2> HIDE DEF after, allowed
  <2>8. S \subseteq c.rows
    BY <1>3
  <2>9. QED
    BY <1>1, <1>2, <2>1, <2>7, <2>8, PlainTurnEdited
<1>8. QED
  BY <1>3, <1>6, <1>7

\* What is left of an acceptance once the word is in: its examples under the word.
LEMMA RestOfAcceptanceVouched ==
    ASSUME NEW c, NEW word, NewOrLost(c.links),
           \A r \in c.examples : r.existing_example_id = Null,
           \A n \in TakenExamples(c.examples, Null) : Retold(ToldExamples, n),
           \A n \in TakenLinks(c.links) : RetoldLink(ToldLinks, n)
    PROVE  \E X : RestOfAcceptance(c, word) \in Seq(X) /\ \A x \in X : Vouched(x)
<1> DEFINE a == AddUserAttribution(c.row.user, word)
           e == [op |-> "accept_examples", rows |-> {}, word_id |-> word]
           d == [op |-> "accept_datasets", rows |-> {}, word_id |-> word]
           l == [op |-> "accept_links", rows |-> {}, word_id |-> word, suggestion |-> c.row.id]
           ee == [e EXCEPT !.rows = c.examples]
           dd == [d EXCEPT !.rows = c.datasets]
           ll == [l EXCEPT !.rows = c.links]
           i == IndexDelete(Suggested(c.row.id))
           w == [op |-> "delete_word_suggestion", id |-> c.row.id]
           p == IndexPut(Existing(word))
           X == {a, ee, dd, ll, i, w, p}
<1>1. /\ ee.op = "accept_examples" /\ ee.rows = c.examples /\ ee.word_id = word
      /\ dd.op = "accept_datasets" /\ ll.op = "accept_links" /\ ll.rows = c.links
      /\ w.op = "delete_word_suggestion"
  OBVIOUS
<1>2. /\ Loop(e, c.examples) \in Seq({ee}) /\ Loop(d, c.datasets) \in Seq({dd})
      /\ Loop(l, c.links) \in Seq({ll})
  BY LoopStatements
<1>3. RestOfAcceptance(c, word) =
          <<a>> \o Loop(e, c.examples) \o Loop(d, c.datasets) \o Loop(l, c.links)
          \o <<i, w>> \o <<p>>
  BY DEF RestOfAcceptance, DeleteWordSuggestion
<1>4. Vouched(a) /\ Vouched(i) /\ Vouched(p)
  BY SmallVouched
<1> HIDE DEF a, ee, dd, ll, i, w, p
<1>5. Vouched(dd) /\ Vouched(w)
  BY <1>1, OthersTellNothing DEF EditOps, WordOps, SentOps, ProcessOps, FetchedOps
<1>6. Vouched(ee)
  <2>1. ee.op \notin WordOps \cup ProcessOps \cup FetchedOps
    BY <1>1 DEF WordOps, SentOps, ProcessOps, FetchedOps
  <2>2. /\ StatementExamples(ee) = TakenExamples(c.examples, word)
        /\ StatementLinks(ee) = {} /\ Sound(ee)
    BY <1>1, <2>1 DEF StatementExamples, StatementLinks, Sound
  <2>3. ASSUME NEW n \in TakenExamples(c.examples, word)
        PROVE  Retold(ToldExamples, n)
    <3>1. PICK r \in c.examples : n = <<r.id, r.existing_example_id, word>>
      BY DEF TakenExamples
    <3>2. Retold(ToldExamples, <<r.id, r.existing_example_id, Null>>)
      BY DEF TakenExamples
    <3>3. QED
      BY <3>1, <3>2 DEF Retold
  <2>4. QED
    BY <2>2, <2>3 DEF Vouched
<1>7. Vouched(ll)
  <2>1. ll.op \notin WordOps \cup ProcessOps \cup FetchedOps
    BY <1>1 DEF WordOps, SentOps, ProcessOps, FetchedOps
  <2>2. /\ StatementLinks(ll) = TakenLinks(c.links)
        /\ StatementExamples(ll) = {} /\ Sound(ll)
    BY <1>1, <2>1 DEF StatementExamples, StatementLinks, Sound
  <2>3. QED
    BY <2>2 DEF Vouched
<1>8. \A x \in X : Vouched(x)
  BY <1>4, <1>5, <1>6, <1>7
<1> DEFINE q1 == <<a>>
           q2 == Loop(e, c.examples)
           q3 == Loop(d, c.datasets)
           q4 == Loop(l, c.links)
           q5 == <<i, w>>
           q6 == <<p>>
<1>9. /\ q1 \in Seq(X) /\ q2 \in Seq(X) /\ q3 \in Seq(X) /\ q4 \in Seq(X)
      /\ q5 \in Seq(X) /\ q6 \in Seq(X)
  BY <1>2
<1>10. RestOfAcceptance(c, word) = q1 \o q2 \o q3 \o q4 \o q5 \o q6
  BY <1>3
<1> HIDE DEF X, q1, q2, q3, q4, q5, q6
<1>11. q1 \o q2 \o q3 \o q4 \o q5 \o q6 \in Seq(X)
  BY <1>9
<1>12. QED
  BY <1>8, <1>10, <1>11

LEMMA AcceptJustWordEdited ==
    ASSUME TypeOK, ThreadsKnown, TypeOK', Edited, NEW t \in Threads, accept_just_word(t)
    PROVE  Edited'
<1>1. At(t, "accept_just_word") /\ "accept_just_word" \in FetchedOps
  BY DEF accept_just_word, FetchedOps
<1>2. PICK c : c = Current(t)
  OBVIOUS
<1>3. PICK word, about :
          /\ db' = [db EXCEPT !.words = @ \cup {word}, !.seq = Bump(@, "words", word)]
          /\ Continue(t, RestOfAcceptance(c, word), about)
  BY <1>2 DEF accept_just_word
<1>4. UNCHANGED <<forms, broken>> /\ Observe
  BY DEF accept_just_word
<1>5. /\ todo[t] # <<>> /\ NewOrLost(c.links)
      /\ \A r \in c.examples : r.existing_example_id = Null
      /\ \A n \in TakenExamples(c.examples, Null) : Retold(ToldExamples, n)
      /\ \A n \in TakenLinks(c.links) : RetoldLink(ToldLinks, n)
  BY <1>1, <1>2, AtFound
<1>6. PICK X : RestOfAcceptance(c, word) \in Seq(X) /\ \A x \in X : Vouched(x)
  BY <1>5, RestOfAcceptanceVouched
<1>7. Files(db')
  <2>1. /\ db'.example_suggestions = db.example_suggestions
        /\ db'.seq = Bump(db.seq, "words", word)
        /\ db'.examples = db.examples /\ db'.linked_words = db.linked_words
        /\ db'.linked_word_suggestions = db.linked_word_suggestions
    BY <1>3 DEF TypeOK, Database
  <2>2. PICK d : d = db'
    OBVIOUS
  <2>3. FewerEdits(d)
    BY <2>1, <2>2, OtherTables
  <2>4. Files(d)
    BY <2>3, FewerFiled
  <2>5. QED
    BY <2>2, <2>4
<1>8. broken \subseteq broken' /\ forms' = forms
  BY <1>4
<1>9. QED
  BY <1>3, <1>4, <1>5, <1>6, <1>7, <1>8, GoesOnEdited

-----------------------------------------------------------------------------
(* What a submission writes *)

LEMMA ReadOriginalEdited ==
    ASSUME TypeOK, ThreadsKnown, TypeOK', Edited, NEW t \in Threads, read_original(t)
    PROVE  Edited'
<1>1. At(t, "read_original") /\ "read_original" \in WordOps
  BY DEF read_original, WordOps, SentOps
<1>2. PICK w : w = Current(t).word
  OBVIOUS
<1>3. PICK allowed, found, changed :
          Read(t, allowed, <<[op |-> "insert_suggestion", word |-> w, found |-> found,
                              changed |-> changed]>>, {})
  BY <1>2 DEF read_original
<1> DEFINE s == [op |-> "insert_suggestion", word |-> w, found |-> found, changed |-> changed]
           about == {}
<1>4. s.op = "insert_suggestion" /\ s.word = w /\ Read(t, allowed, <<s>>, about)
  BY <1>3
<1> HIDE DEF s, about
<1>5. VouchedForm(w) /\ todo[t] # <<>>
  BY <1>1, <1>2, AtWord
<1>6. "insert_suggestion" \in WordOps \ ProcessOps
  BY DEF WordOps, SentOps, ProcessOps
<1>7. Vouched(s)
  BY <1>4, <1>5, <1>6, WordVouched
<1>8. QED
  BY <1>4, <1>5, <1>7, ReadOneEdited

LEMMA AfterInsertVouched ==
    ASSUME NEW c, NEW s, VouchedForm(c.word)
    PROVE  \E X : AfterInsert(c, s) \in Seq(X) /\ \A x \in X : Vouched(x)
<1> DEFINE new == IF c.word.existing_id = Null THEN s ELSE Null
           indexed == new # Null /\ (~c.found \/ c.changed)
           put == IndexPut(Suggested(new))
           links == [op |-> "process_linked_words", word |-> c.word, new |-> new]
           examples == [op |-> "process_examples", word |-> c.word, new |-> new]
           datasets == [op |-> "process_datasets", word |-> c.word, new |-> new]
           first == IF indexed THEN <<put>> ELSE <<>>
           X == {put, links, examples, datasets}
<1>1. AfterInsert(c, s) = first \o <<links, examples, datasets>>
  BY DEF AfterInsert, ProcessParts
<1>2. \A x \in {links, examples, datasets} :
          x.op \in ProcessOps /\ x.word = c.word /\ x.new = new
  BY DEF ProcessOps
<1>3. new = Null \/ c.word.existing_id = Null
  OBVIOUS
<1>4. Vouched(put)
  BY SmallVouched
<1> HIDE DEF put, links, examples, datasets, indexed, new
<1>5. \A x \in X : Vouched(x)
  <2>1. ProcessOps \subseteq WordOps
    BY DEF WordOps
  <2>2. \A x \in {links, examples, datasets} : Vouched(x)
    BY <1>2, <1>3, <2>1, WordVouched
  <2>3. QED
    BY <1>4, <2>2
<1>6. first \in Seq(X) /\ <<links, examples, datasets>> \in Seq(X)
  <2>1. put \in X /\ links \in X /\ examples \in X /\ datasets \in X
    OBVIOUS
  <2> HIDE DEF X
  <2>2. <<>> \in Seq(X) /\ <<put>> \in Seq(X) /\ <<links, examples, datasets>> \in Seq(X)
    BY <2>1
  <2>3. QED
    BY <2>2
<1> HIDE DEF first, X
<1>7. first \o <<links, examples, datasets>> \in Seq(X)
  BY <1>6
<1>8. QED
  BY <1>1, <1>5, <1>7

LEMMA InsertSuggestionEdited ==
    ASSUME TypeOK, ThreadsKnown, TypeOK', Edited, NEW t \in Threads, insert_suggestion(t)
    PROVE  Edited'
<1>1. At(t, "insert_suggestion") /\ "insert_suggestion" \in WordOps
  BY DEF insert_suggestion, WordOps, SentOps
<1>2. PICK c : c = Current(t)
  OBVIOUS
<1>3. VouchedForm(c.word) /\ todo[t] # <<>>
  BY <1>1, <1>2, AtWord
<1>4. \A s : \E X : AfterInsert(c, s) \in Seq(X) /\ \A x \in X : Vouched(x)
  BY <1>3, AfterInsertVouched
<1>5. \/ \E s : Read(t, TRUE, AfterInsert(c, s), {})
      \/ Refuse(t)
      \/ \E s, row, about :
            /\ db' = [db EXCEPT !.word_suggestions = Put(@, row),
                                !.seq = Bump(@, "word_suggestions", s)]
            /\ Continue(t, AfterInsert(c, s), about)
            /\ broken \subseteq broken' /\ UNCHANGED forms /\ Observe
  BY <1>2 DEF insert_suggestion
<1>6. CASE \E s : Read(t, TRUE, AfterInsert(c, s), {})
  <2>1. PICK s : Read(t, TRUE, AfterInsert(c, s), {})
    BY <1>6
  <2>2. PICK X : AfterInsert(c, s) \in Seq(X) /\ \A x \in X : Vouched(x)
    BY <1>4
  <2>3. QED
    BY <1>3, <2>1, <2>2, ReadEdited
<1>7. ASSUME NEW s, NEW row, NEW about,
             db' = [db EXCEPT !.word_suggestions = Put(@, row),
                              !.seq = Bump(@, "word_suggestions", s)],
             Continue(t, AfterInsert(c, s), about),
             broken \subseteq broken', UNCHANGED forms, Observe
      PROVE  Edited'
  <2>1. /\ db'.example_suggestions = db.example_suggestions
        /\ db'.seq = Bump(db.seq, "word_suggestions", s)
        /\ db'.examples = db.examples /\ db'.linked_words = db.linked_words
        /\ db'.linked_word_suggestions = db.linked_word_suggestions
    BY <1>7 DEF TypeOK, Database
  <2>2. PICK d : d = db'
    OBVIOUS
  <2>3. FewerEdits(d)
    BY <2>1, <2>2, OtherTables
  <2>4. Files(db') /\ forms' = forms
    BY <1>7, <2>2, <2>3, FewerFiled
  <2>5. PICK X : AfterInsert(c, s) \in Seq(X) /\ \A x \in X : Vouched(x)
    BY <1>4
  <2>6. QED
    BY <1>3, <1>7, <2>4, <2>5, GoesOnEdited
<1>8. QED
  BY <1>5, <1>6, <1>7, RefuseEdited

\* What is left when the parts of one kind have been read is two loops.
LEMMA LoopsEdited ==
    ASSUME TypeOK, TypeOK', Edited, NEW t \in Threads, todo[t] # <<>>, NEW c, NEW S, NEW T,
           Vouched([c EXCEPT !.rows = S]), Vouched([c EXCEPT !.rows = T]),
           Read(t, TRUE, Loop(c, S) \o Loop(c, T), {})
    PROVE  Edited'
<1> DEFINE x == [c EXCEPT !.rows = S]
           y == [c EXCEPT !.rows = T]
           X == {x, y}
           p == Loop(c, S) \o Loop(c, T)
           about == {}
<1>1. Loop(c, S) \in Seq({x}) /\ Loop(c, T) \in Seq({y})
  BY LoopStatements
<1>2. Vouched(x) /\ Vouched(y)
  OBVIOUS
<1> HIDE DEF x, y
<1>3. p \in Seq(X)
  <2> DEFINE q == Loop(c, S)
             r == Loop(c, T)
  <2>1. q \in Seq(X) /\ r \in Seq(X)
    BY <1>1
  <2> HIDE DEF q, r, X
  <2>2. q \o r \in Seq(X)
    BY <2>1
  <2>3. QED
    BY <2>2 DEF q, r
<1>4. \A s \in X : Vouched(s)
  BY <1>2
<1>5. Read(t, TRUE, p, about)
  OBVIOUS
<1> HIDE DEF p, X, about
<1>6. QED
  BY <1>3, <1>4, <1>5, ReadEdited

LEMMA ProcessDatasetsEdited ==
    ASSUME TypeOK, ThreadsKnown, TypeOK', Edited, NEW t \in Threads, process_datasets(t)
    PROVE  Edited'
<1>1. todo[t] # <<>>
  BY DEF process_datasets, At
<1> DEFINE w == Current(t).word
           c == [op |-> "write_dataset", rows |-> {}, new |-> Current(t).new,
                 existing_id |-> w.existing_id, user |-> w.user]
           about == {}
<1>2. PICK S : Read(t, TRUE, Loop(c, S), about)
  BY DEF process_datasets
<1> DEFINE x == [c EXCEPT !.rows = S]
           X == {x}
           p == Loop(c, S)
<1>3. x.op = "write_dataset"
  OBVIOUS
<1> HIDE DEF c, about
<1>4. p \in Seq(X)
  BY LoopStatements
<1> HIDE DEF x
<1>5. Vouched(x)
  BY <1>3, OthersTellNothing DEF EditOps, WordOps, SentOps, ProcessOps, FetchedOps
<1>6. \A s \in X : Vouched(s)
  BY <1>5
<1> HIDE DEF X
<1>7. Read(t, TRUE, p, about)
  BY <1>2
<1> HIDE DEF p
<1>8. QED
  BY <1>1, <1>4, <1>6, <1>7, ReadEdited

LEMMA WriteDatasetEdited ==
    ASSUME TypeOK, ThreadsKnown, TypeOK', Edited, NEW t \in Threads, write_dataset(t)
    PROVE  Edited'
<1>1. At(t, "write_dataset") /\ "write_dataset" \in LoopOps
  BY DEF write_dataset, LoopOps
<1>2. PICK c, key : c = Current(t) /\ key = db.seq["dataset_attribution_suggestions"] + 1
  OBVIOUS
<1>3. PICK S, allowed, T, seq :
          /\ S \subseteq c.rows
          /\ Write(t, allowed, [db EXCEPT !.dataset_attribution_suggestions = T, !.seq = seq],
                   Loop(c, S))
          /\ seq \in {db.seq, Bump(db.seq, "dataset_attribution_suggestions", key)}
  <2>1. PICK s, S : s \in c.rows /\ S = c.rows \ {s} /\
            \/ \E row : Write(t, DatasetSuggestionOk(db, row),
                      [db EXCEPT !.dataset_attribution_suggestions = @ \cup {row},
                                 !.seq = Bump(@, "dataset_attribution_suggestions", key)],
                      Loop(c, S))
            \/ Write(t, TRUE, [db EXCEPT !.dataset_attribution_suggestions =
                                 {r \in @ : ~(r.dataset = s.id /\ r.suggested_word_id = c.new)}],
                     Loop(c, S))
    BY <1>2 DEF write_dataset
  <2>2. S \subseteq c.rows
    BY <2>1
  <2>3. ASSUME NEW row,
               Write(t, DatasetSuggestionOk(db, row),
                     [db EXCEPT !.dataset_attribution_suggestions = @ \cup {row},
                                !.seq = Bump(@, "dataset_attribution_suggestions", key)],
                     Loop(c, S))
        PROVE  \E allowed, T, seq :
                  /\ Write(t, allowed,
                           [db EXCEPT !.dataset_attribution_suggestions = T, !.seq = seq], Loop(c, S))
                  /\ seq \in {db.seq, Bump(db.seq, "dataset_attribution_suggestions", key)}
    BY <2>3
  <2>4. ASSUME Write(t, TRUE, [db EXCEPT !.dataset_attribution_suggestions =
                                 {r \in @ : ~(r.dataset = s.id /\ r.suggested_word_id = c.new)}],
                     Loop(c, S))
        PROVE  \E allowed, T, seq :
                  /\ Write(t, allowed,
                           [db EXCEPT !.dataset_attribution_suggestions = T, !.seq = seq], Loop(c, S))
                  /\ seq \in {db.seq, Bump(db.seq, "dataset_attribution_suggestions", key)}
    <3> DEFINE T == {r \in db.dataset_attribution_suggestions :
                        ~(r.dataset = s.id /\ r.suggested_word_id = c.new)}
    <3>1. Write(t, TRUE, [db EXCEPT !.dataset_attribution_suggestions = T], Loop(c, S))
      BY <2>4
    <3> HIDE DEF T
    <3>2. [db EXCEPT !.dataset_attribution_suggestions = T] =
              [db EXCEPT !.dataset_attribution_suggestions = T, !.seq = db.seq]
      BY DEF TypeOK, Database
    <3>3. QED
      BY <3>1, <3>2
  <2>5. QED
    BY <2>1, <2>2, <2>3, <2>4
<1> DEFINE after == [db EXCEPT !.dataset_attribution_suggestions = T, !.seq = seq]
<1>4. FewerEdits(after)
  <2>1. /\ after.example_suggestions = db.example_suggestions /\ after.seq = seq
        /\ after.examples = db.examples /\ after.linked_words = db.linked_words
        /\ after.linked_word_suggestions = db.linked_word_suggestions
    BY DEF TypeOK, Database
  <2> HIDE DEF after
  <2>2. QED
    BY <1>3, <2>1, OtherTables
<1>5. Write(t, allowed, after, Loop(c, S))
  BY <1>3
<1> HIDE DEF after
<1>6. QED
  BY <1>1, <1>2, <1>3, <1>4, <1>5, FewerFiled, PlainTurnEdited

\* A write of a loop over examples tells what its row does.
ExampleVouched(x) ==
    x.do = "upsert" =>
        /\ OneParent(x.row)
        /\ Retold(ToldExamples,
                  <<x.row.id, x.row.existing_example_id, x.row.existing_word_id>>)

LEMMA ExampleLoopVouched ==
    ASSUME NEW s, s.op = "write_example", \A x \in s.rows : ExampleVouched(x)
    PROVE  Vouched(s)
<1>1. s.op \notin WordOps \cup ProcessOps \cup FetchedOps
  BY DEF WordOps, SentOps, ProcessOps, FetchedOps
<1>2. \A r \in Upserts(s) :
          /\ OneParent(r)
          /\ Retold(ToldExamples, <<r.id, r.existing_example_id, r.existing_word_id>>)
  BY DEF Upserts, ExampleVouched
<1>3. StatementExamples(s) = RowExamples(Upserts(s)) /\ StatementLinks(s) = {}
  BY <1>1 DEF StatementExamples, StatementLinks
<1>4. \A n \in RowExamples(Upserts(s)) : Retold(ToldExamples, n)
  BY <1>2 DEF RowExamples
<1>5. Sound(s)
  BY <1>1, <1>2 DEF Sound
<1>6. QED
  BY <1>3, <1>4, <1>5 DEF Vouched

\* An entry of a form is written under the form's word, and under a suggestion
\* only when that word is a new one, which has no examples yet.
LEMMA EntryVouched ==
    ASSUME Edited, NEW w, VouchedForm(w), NEW e \in w.examples, NEW user, NEW new,
           new = Null \/ w.existing_id = Null
    PROVE  ExampleVouched(ExampleSuggestion(e, user, new, w.existing_id))
<1> DEFINE r == [id |-> e.suggestion_id, existing_word_id |-> w.existing_id,
                 suggested_word_id |-> new, existing_example_id |-> e.existing_id,
                 user |-> user]
           n == <<e.suggestion_id, e.existing_id, w.existing_id>>
<1>1. ExampleSuggestion(e, user, new, w.existing_id) = [do |-> "upsert", row |-> r]
  BY DEF ExampleSuggestion, Upsert
<1>2. /\ r.id = e.suggestion_id /\ r.existing_example_id = e.existing_id
      /\ r.existing_word_id = w.existing_id /\ r.suggested_word_id = new
      /\ n[1] = e.suggestion_id /\ n[2] = e.existing_id /\ n[3] = w.existing_id
  OBVIOUS
<1>3. Retold(ToldExamples, n)
  <2>1. n \in FormExamples(w)
    BY DEF FormExamples
  <2>2. QED
    BY <2>1 DEF VouchedForm
<1> HIDE DEF r
<1>4. Retold(ToldExamples, <<r.id, r.existing_example_id, r.existing_word_id>>)
  BY <1>2, <1>3
<1> HIDE DEF n
<1>5. w.existing_id = Null => e.existing_id = Null
  <2>1. \A p \in ToldExamples : p[2] # Null => p[3] # Null
    BY DEF Edited, ExamplesFiled
  <2>2. QED
    BY <1>2, <1>3, <2>1 DEF Retold
<1>6. OneParent(r)
  BY <1>2, <1>5 DEF OneParent
<1>7. QED
  BY <1>1, <1>4, <1>6 DEF ExampleVouched

\* The others of a loop name rows by their ids.
LEMMA ByIdVouched ==
    ASSUME NEW id
    PROVE  ExampleVouched(Delete(id)) /\ ExampleVouched(SuggestDeletion(id))
BY DEF ExampleVouched, Delete, SuggestDeletion

LEMMA ProcessExamplesEdited ==
    ASSUME TypeOK, ThreadsKnown, TypeOK', Edited, NEW t \in Threads, process_examples(t)
    PROVE  Edited'
<1>1. At(t, "process_examples") /\ "process_examples" \in WordOps \cap ProcessOps
  BY DEF process_examples, WordOps, ProcessOps
<1>2. PICK c : c = Current(t)
  OBVIOUS
<1>3. PICK w : w = c.word
  OBVIOUS
<1>4. /\ VouchedForm(w) /\ todo[t] # <<>>
      /\ c.new = Null \/ w.existing_id = Null
  BY <1>1, <1>2, <1>3, AtWord
<1> DEFINE old == IF w.existing_id # Null THEN ExamplesOfWord(w)
                  ELSE IF w.suggestion_id # Null THEN ExamplesOfSuggestion(w, c.new)
                  ELSE [kept |-> {}, writes |-> {}]
           added == {ExampleSuggestion(e, w.user, c.new, w.existing_id) :
                        e \in w.examples \ old.kept}
           s == [op |-> "write_example", rows |-> {}]
<1>5. Read(t, TRUE, Loop(s, old.writes) \o Loop(s, added), {})
  BY <1>2, <1>3 DEF process_examples
<1>6. \A x \in added : ExampleVouched(x)
  <2> HIDE DEF old
  <2>1. QED
    BY <1>4, EntryVouched
<1>7. \A x \in ExamplesOfWord(w).writes : ExampleVouched(x)
  <2> DEFINE prev == {x \in db.examples : x.word_id = w.existing_id}
             kept == {e \in w.examples : e.existing_id \in Ids(prev)}
             again == {ExampleSuggestion(e, w.user, Null, w.existing_id) :
                          e \in {q \in kept : q.changed}}
             missing == {SuggestDeletion(x.id) : x \in {q \in prev :
                            \A e \in w.examples : e.existing_id # q.id}}
  <2>1. ExamplesOfWord(w).writes = again \cup missing
    BY DEF ExamplesOfWord
  <2>2. \A x \in again : ExampleVouched(x)
    BY <1>4, EntryVouched
  <2>3. \A x \in missing : ExampleVouched(x)
    BY ByIdVouched
  <2>4. QED
    BY <2>1, <2>2, <2>3
<1>8. ASSUME w.existing_id = Null
      PROVE  \A x \in ExamplesOfSuggestion(w, c.new).writes : ExampleVouched(x)
  <2> DEFINE prev == ExampleSuggestionsOf(db, w.suggestion_id)
             kept == {e \in w.examples : e.suggestion_id \in Ids(prev)}
             again == {ExampleSuggestion(e, w.user, c.new, Null) : e \in kept}
             missing == {Delete(r.id) : r \in {q \in prev :
                            \A e \in w.examples : e.suggestion_id # q.id}}
  <2>1. ExamplesOfSuggestion(w, c.new).writes = again \cup missing
    BY DEF ExamplesOfSuggestion
  <2>2. \A x \in again : ExampleVouched(x)
    BY <1>4, <1>8, EntryVouched
  <2>3. \A x \in missing : ExampleVouched(x)
    BY ByIdVouched
  <2>4. QED
    BY <2>1, <2>2, <2>3
<1>9. \A x \in old.writes : ExampleVouched(x)
  BY <1>7, <1>8
<1> DEFINE S == old.writes
<1> HIDE DEF added
<1>10. \A T : /\ [s EXCEPT !.rows = T].op = "write_example"
              /\ [s EXCEPT !.rows = T].rows = T
  OBVIOUS
<1>11. Read(t, TRUE, Loop(s, S) \o Loop(s, added), {}) /\ \A x \in S : ExampleVouched(x)
  BY <1>5, <1>9
<1> HIDE DEF S, s
<1>12. Vouched([s EXCEPT !.rows = S]) /\ Vouched([s EXCEPT !.rows = added])
  BY <1>6, <1>10, <1>11, ExampleLoopVouched
<1>13. QED
  BY <1>4, <1>11, <1>12, LoopsEdited

\* The row an upsert of an example suggestion leaves tells what it was sent with,
\* or is a new one.
LEMMA ExampleRowTold ==
    ASSUME TypeOK, Edited, NEW new \in NewExampleRow, OneParent(new),
           Retold(ToldExamples, <<new.id, new.existing_example_id, new.existing_word_id>>),
           NEW row, row = ExampleRowAfter(db, new)
    PROVE  /\ OneParent(row) /\ row.id \in Nat
           /\ LET n == <<row.id, row.existing_example_id, row.existing_word_id>>
              IN  \/ Retold(ToldExamples, n)
                  \/ /\ row.id = db.seq["example_suggestions"] + 1
                     /\ \/ row.existing_example_id = Null
                        \/ \E p \in ToldExamples : /\ p[2] = row.existing_example_id
                                                   /\ p[3] = row.existing_word_id
<1> DEFINE T == db.example_suggestions
<1>1. db \in Database
  BY DEF TypeOK
<1>2. CASE new.id \in Ids(T)
  <2>1. PICK old : old = RowOf(T, new.id)
    OBVIOUS
  <2>2. old \in T /\ old.id = new.id /\ old \in ExampleSuggestionRow
    BY <1>1, <1>2, <2>1, RowOfType DEF Database
  <2>3. new.id \in Nat /\ new.id # Null
    BY <2>2 DEF ExampleSuggestionRow, Id
  <2>4. row = [new EXCEPT !.existing_example_id = old.existing_example_id, !.user = old.user]
    BY <1>2, <2>1 DEF ExampleRowAfter
  <2>5. new.existing_example_id = old.existing_example_id
    <3> DEFINE m == <<new.id, new.existing_example_id, new.existing_word_id>>
               o == <<old.id, old.existing_example_id, old.existing_word_id>>
    <3>1. /\ m[1] = new.id /\ m[2] = new.existing_example_id
          /\ o[1] = new.id /\ o[2] = old.existing_example_id
      BY <2>2
    <3>2. o \in ToldExamples
      BY <2>2 DEF ToldExamples, TableExamples, RowExamples
    <3>3. Retold(ToldExamples, m)
      OBVIOUS
    <3> HIDE DEF m, o
    <3>4. PICK p \in ToldExamples : p[1] = new.id /\ p[2] = new.existing_example_id
      BY <2>3, <3>1, <3>3 DEF Retold
    <3>5. \A x, y \in ToldExamples : x[1] = y[1] /\ x[1] # Null => x[2] = y[2]
      BY DEF Edited, ExamplesFiled
    <3>6. QED
      BY <2>3, <3>1, <3>2, <3>4, <3>5
  <2>6. /\ row.id = new.id /\ row.existing_example_id = new.existing_example_id
        /\ row.existing_word_id = new.existing_word_id
        /\ row.suggested_word_id = new.suggested_word_id
    BY <2>4, <2>5 DEF NewExampleRow
  <2>7. QED
    BY <2>3, <2>6 DEF OneParent
<1>3. CASE new.id \notin Ids(T)
  <2>1. PICK key : key = KeyOrNext(db, "example_suggestions", new.id)
    OBVIOUS
  <2>2. /\ new.id \in Nat /\ db.seq["example_suggestions"] \in Nat
        /\ IF new.id = Null THEN key = db.seq["example_suggestions"] + 1 ELSE key = new.id
    BY <2>1, NumbersType DEF KeyOrNext, NewExampleRow, OptionalId
  <2>3. row = [new EXCEPT !.id = key]
    BY <1>3, <2>1 DEF ExampleRowAfter
  <2>4. /\ row.id = key /\ row.existing_example_id = new.existing_example_id
        /\ row.existing_word_id = new.existing_word_id
        /\ row.suggested_word_id = new.suggested_word_id
    BY <2>3 DEF NewExampleRow
  <2>5. OneParent(row) /\ row.id \in Nat
    BY <2>2, <2>4 DEF OneParent
  <2>6. CASE new.id # Null
    BY <2>2, <2>4, <2>5, <2>6
  <2>7. CASE new.id = Null
    <3> DEFINE m == <<new.id, new.existing_example_id, new.existing_word_id>>
    <3>1. m[2] = row.existing_example_id /\ m[3] = row.existing_word_id
      BY <2>4
    <3>2. Retold(ToldExamples, m)
      OBVIOUS
    <3> HIDE DEF m
    <3>3. \/ row.existing_example_id = Null
          \/ \E p \in ToldExamples : /\ p[2] = row.existing_example_id
                                     /\ p[3] = row.existing_word_id
      BY <3>1, <3>2 DEF Retold
    <3>4. QED
      BY <2>2, <2>4, <2>5, <2>7, <3>3
  <2>8. QED
    BY <2>6, <2>7
<1>4. QED
  BY <1>2, <1>3

LEMMA PutExampleSuggestionFiles ==
    ASSUME TypeOK, Edited, NEW new \in NewExampleRow, OneParent(new),
           Retold(ToldExamples, <<new.id, new.existing_example_id, new.existing_word_id>>),
           NEW row, row = ExampleRowAfter(db, new), NEW after,
           after = [db EXCEPT !.example_suggestions = Put(@, row),
                              !.seq = Bump(@, "example_suggestions", row.id)]
    PROVE  Files(after)
<1> DEFINE n == <<row.id, row.existing_example_id, row.existing_word_id>>
           seq == Bump(db.seq, "example_suggestions", row.id)
           T == Put(db.example_suggestions, row)
           R == ToldExamples
<1>1. OneParent(row) /\ row.id \in Nat
  BY ExampleRowTold
<1>2. db \in Database /\ db.seq \in [AutoIncrement -> Nat] /\ "example_suggestions" \in AutoIncrement
  BY DEF TypeOK, Database, AutoIncrement
<1>3. /\ after.example_suggestions = T /\ after.seq = seq
      /\ after.examples = db.examples /\ after.linked_words = db.linked_words
      /\ after.linked_word_suggestions = db.linked_word_suggestions
  BY <1>2 DEF Database
<1>4. /\ \A table \in AutoIncrement : db.seq[table] <= seq[table]
      /\ row.id <= seq["example_suggestions"]
  BY <1>1, <1>2, BumpPasses
<1>5. \A r \in T : r \in db.example_suggestions \/ r = row
  BY DEF Put
<1>6. Retold(R, n) \/ NextExample(after, R, n)
  <2>1. /\ n[1] = row.id /\ n[2] = row.existing_example_id /\ n[3] = row.existing_word_id
    OBVIOUS
  <2>2. \/ Retold(R, n)
        \/ /\ row.id = db.seq["example_suggestions"] + 1
           /\ \/ row.existing_example_id = Null
              \/ \E p \in R : /\ p[2] = row.existing_example_id
                              /\ p[3] = row.existing_word_id
    BY ExampleRowTold
  <2>3. \A p \in R : p[2] \in Nat /\ p[2] <= db.seq["examples"]
    BY DEF Edited, ExamplesFiled
  <2>4. /\ db.seq["examples"] \in Nat /\ db.seq["example_suggestions"] \in Nat
        /\ db.seq["examples"] <= after.seq["examples"]
        /\ after.seq["examples"] \in Nat
    <3>1. after.seq["examples"] = db.seq["examples"]
      BY <1>2, <1>3 DEF Bump, AutoIncrement
    <3>2. QED
      BY <3>1, NumbersType
  <2>5. row.id <= after.seq["example_suggestions"]
    BY <1>3, <1>4
  <2> HIDE DEF n, R, seq, T
  <2>6. CASE Retold(R, n)
    BY <2>6
  <2>7. CASE ~Retold(R, n)
    <3>1. n[2] = Null \/ \E p \in R : p[2] = n[2] /\ p[3] = n[3]
      BY <2>1, <2>2, <2>7
    <3>2. n[2] \in Nat /\ n[2] <= after.seq["examples"]
      BY <2>3, <2>4, <3>1 DEF Null
    <3>3. n[1] \in Nat /\ n[1] > db.seq["example_suggestions"]
      BY <1>1, <2>1, <2>2, <2>4, <2>7
    <3>4. n[1] <= after.seq["example_suggestions"]
      BY <2>1, <2>5
    <3>5. QED
      BY <3>1, <3>2, <3>3, <3>4 DEF NextExample
  <2>8. QED
    BY <2>6, <2>7
<1> HIDE DEF seq, T, R
<1>7. TableExamples(after) \subseteq TableExamples(db) \cup {n}
  BY <1>3, <1>5 DEF TableExamples, RowExamples
<1>8. \A m \in TableExamples(db) : Retold(R, m)
  BY ToldOfItself DEF ToldExamples, R
<1> HIDE DEF n
<1>9. \E x : \A m \in TableExamples(after) :
          Retold(R, m) \/ (m = x /\ NextExample(after, R, m))
  BY <1>6, <1>7, <1>8
<1>10. \A m \in RowLinks(after.linked_word_suggestions) : RetoldLink(ToldLinks, m)
  BY <1>3, ToldOfItself DEF ToldLinks
<1>11. NumbersGrow(after) /\ KeepsLinks(after)
  BY <1>3, <1>4 DEF NumbersGrow, KeepsLinks, AutoIncrement, Edited
<1>12. QED
  BY <1>1, <1>3, <1>5, <1>9, <1>10, <1>11 DEF Files, R

LEMMA WriteExampleEdited ==
    ASSUME TypeOK, ThreadsKnown, TypeOK', Edited, NEW t \in Threads, write_example(t)
    PROVE  Edited'
<1>1. At(t, "write_example") /\ "write_example" \in LoopOps
  BY DEF write_example, LoopOps
<1>2. PICK c : c = Current(t)
  OBVIOUS
<1>3. PICK s, S :
          /\ s \in c.rows /\ S = c.rows \ {s}
          /\ \/ /\ s.do = "upsert"
                /\ LET row == ExampleRowAfter(db, s.row)
                   IN  Write(t, ExampleSuggestionOk(db, row),
                             [db EXCEPT
                                !.example_suggestions = Put(@, row),
                                !.seq = Bump(@, "example_suggestions", row.id)],
                             Loop(c, S))
             \/ Write(t, TRUE, [db EXCEPT !.example_suggestions = Drop(@, s.id)], Loop(c, S))
             \/ Write(t, s.id \in Ids(db.examples), SuggestExampleDeletion(db, s.id), Loop(c, S))
  BY <1>2 DEF write_example
<1>4. /\ c \in [op: {"write_example"}, rows: SUBSET (UpsertOf(NewExampleRow) \cup ById)]
      /\ Vouched(c) /\ c.op = "write_example"
  <2>1. c \in SubmitStatement /\ c.op = "write_example" /\ Vouched(c)
    BY <1>1, <1>2, AtSubmit, AtVouched
  <2>2. QED
    BY <2>1 DEF SubmitStatement
<1>5. s \in c.rows /\ S \subseteq c.rows /\ db \in Database
  BY <1>3 DEF TypeOK
<1>6. ASSUME NEW allowed, NEW after, Write(t, allowed, after, Loop(c, S)), Files(after)
      PROVE  Edited'
  BY <1>1, <1>2, <1>5, <1>6, PlainTurnEdited
<1>7. CASE /\ s.do = "upsert"
           /\ LET row == ExampleRowAfter(db, s.row)
              IN  Write(t, ExampleSuggestionOk(db, row),
                        [db EXCEPT
                           !.example_suggestions = Put(@, row),
                           !.seq = Bump(@, "example_suggestions", row.id)],
                        Loop(c, S))
  <2> DEFINE new == s.row
             row == ExampleRowAfter(db, new)
             after == [db EXCEPT !.example_suggestions = Put(@, row),
                                 !.seq = Bump(@, "example_suggestions", row.id)]
             allowed == ExampleSuggestionOk(db, row)
  <2>1. Write(t, allowed, after, Loop(c, S))
    BY <1>7
  <2>2. new \in NewExampleRow
    BY <1>4, <1>5, <1>7 DEF UpsertOf, ById
  <2>3. new \in Upserts(c)
    BY <1>5, <1>7 DEF Upserts
  <2> HIDE DEF new
  <2>4. OneParent(new)
    BY <1>4, <2>3 DEF Vouched, Sound
  <2>5. Retold(ToldExamples, <<new.id, new.existing_example_id, new.existing_word_id>>)
    <3>1. StatementExamples(c) = RowExamples(Upserts(c))
      BY <1>4 DEF StatementExamples, WordOps, SentOps, ProcessOps
    <3>2. <<new.id, new.existing_example_id, new.existing_word_id>> \in StatementExamples(c)
      BY <2>3, <3>1 DEF RowExamples
    <3>3. QED
      BY <1>4, <3>2 DEF Vouched
  <2> HIDE DEF row
  <2>6. Files(after)
    BY <2>2, <2>4, <2>5, PutExampleSuggestionFiles DEF row
  <2> HIDE DEF after, allowed
  <2>7. QED
    BY <1>6, <2>1, <2>6
<1>8. CASE Write(t, TRUE, [db EXCEPT !.example_suggestions = Drop(@, s.id)], Loop(c, S))
  <2> DEFINE after == [db EXCEPT !.example_suggestions = Drop(@, s.id)]
  <2>1. Write(t, TRUE, after, Loop(c, S))
    BY <1>8
  <2>2. /\ after.seq = db.seq /\ after.examples = db.examples
        /\ after.linked_words = db.linked_words
        /\ after.linked_word_suggestions = db.linked_word_suggestions
        /\ after.example_suggestions \subseteq db.example_suggestions
    BY <1>5 DEF Database, Drop
  <2> HIDE DEF after
  <2>3. NumbersGrow(after)
    BY <2>2, NumbersType DEF NumbersGrow
  <2>4. Files(after)
    BY <2>2, <2>3, FewerFiled DEF FewerEdits
  <2>5. QED
    BY <1>6, <2>1, <2>4
<1>9. CASE Write(t, s.id \in Ids(db.examples), SuggestExampleDeletion(db, s.id), Loop(c, S))
  <2> DEFINE after == SuggestExampleDeletion(db, s.id)
             allowed == s.id \in Ids(db.examples)
  <2>1. Write(t, allowed, after, Loop(c, S))
    BY <1>9
  <2>2. /\ after.seq = db.seq /\ after.examples = db.examples
        /\ after.linked_words = db.linked_words
        /\ after.linked_word_suggestions = db.linked_word_suggestions
        /\ after.example_suggestions = db.example_suggestions
    BY <1>5 DEF Database, SuggestExampleDeletion
  <2> HIDE DEF after, allowed
  <2>3. FewerEdits(after)
    BY <2>2, OtherTables
  <2>4. Files(after)
    BY <2>3, FewerFiled
  <2>5. QED
    BY <1>6, <2>1, <2>4
<1>10. QED
  BY <1>3, <1>7, <1>8, <1>9

\* A write of a loop over links tells what its row does.
LinkVouched(x) ==
    x.do = "upsert" =>
        NamesOne(x.row) /\ RetoldLink(ToldLinks, <<x.row.id, x.row.existing_linked_word_id>>)

LEMMA LinkLoopVouched ==
    ASSUME NEW s, s.op = "write_link", \A x \in s.rows : LinkVouched(x)
    PROVE  Vouched(s)
<1>1. s.op \notin WordOps \cup ProcessOps \cup FetchedOps
  BY DEF WordOps, SentOps, ProcessOps, FetchedOps
<1>2. \A r \in Upserts(s) :
          NamesOne(r) /\ RetoldLink(ToldLinks, <<r.id, r.existing_linked_word_id>>)
  BY DEF Upserts, LinkVouched
<1>3. StatementLinks(s) = RowLinks(Upserts(s)) /\ StatementExamples(s) = {}
  BY <1>1 DEF StatementExamples, StatementLinks
<1>4. \A n \in RowLinks(Upserts(s)) : RetoldLink(ToldLinks, n)
  BY <1>2 DEF RowLinks
<1>5. Sound(s)
  BY <1>1, <1>2 DEF Sound
<1>6. QED
  BY <1>3, <1>4, <1>5 DEF Vouched

\* The edit of a link names no word but the one it is moved to.
LEMMA OneSideNamesOne ==
    ASSUME NEW first, NEW second, first = Nothing \/ second = Nothing, NEW r,
           r.first_existing_word_id = IntoExisting(first),
           r.second_existing_word_id = IntoExisting(second),
           r.suggested_word_id = IntoSuggested(first),
           r.second_suggested_word_id = IntoSuggested(second)
    PROVE  ~NamesTwo(r)
<1>1. IntoExisting(Nothing) = Null /\ IntoSuggested(Nothing) = Null
  BY DEF IntoExisting, IntoSuggested, Nothing
<1>2. \A ref : IntoExisting(ref) = Null \/ IntoSuggested(ref) = Null
  BY DEF IntoExisting, IntoSuggested
<1>3. CASE first = Nothing
  <2>1. /\ r.first_existing_word_id = Null /\ r.suggested_word_id = Null
        /\ r.second_existing_word_id = Null \/ r.second_suggested_word_id = Null
    BY <1>1, <1>2, <1>3
  <2>2. QED
    BY <2>1 DEF NamesTwo, WordColumns
<1>4. CASE second = Nothing
  <2>1. /\ r.second_existing_word_id = Null /\ r.second_suggested_word_id = Null
        /\ r.first_existing_word_id = Null \/ r.suggested_word_id = Null
    BY <1>1, <1>2, <1>4
  <2>2. QED
    BY <2>1 DEF NamesTwo, WordColumns
<1>5. QED
  BY <1>3, <1>4

LEMMA LinkEntryVouched ==
    ASSUME NEW w, VouchedForm(w), NEW e \in w.links, NEW user, NEW first, NEW second,
           \/ e.existing_id = Null \/ Lost(e.existing_id)
           \/ first = Nothing \/ second = Nothing
    PROVE  LinkVouched(LinkSuggestion(e, user, first, second))
<1> DEFINE r == [id |-> e.suggestion_id, existing_linked_word_id |-> e.existing_id,
                 first_existing_word_id |-> IntoExisting(first),
                 second_existing_word_id |-> IntoExisting(second),
                 suggested_word_id |-> IntoSuggested(first),
                 second_suggested_word_id |-> IntoSuggested(second), user |-> user]
           n == <<e.suggestion_id, e.existing_id>>
<1>1. LinkSuggestion(e, user, first, second) = [do |-> "upsert", row |-> r]
  BY DEF LinkSuggestion, Upsert
<1>2. /\ r.id = e.suggestion_id /\ r.existing_linked_word_id = e.existing_id
      /\ r.first_existing_word_id = IntoExisting(first)
      /\ r.second_existing_word_id = IntoExisting(second)
      /\ r.suggested_word_id = IntoSuggested(first)
      /\ r.second_suggested_word_id = IntoSuggested(second)
  OBVIOUS
<1>3. RetoldLink(ToldLinks, n)
  <2>1. n \in FormLinks(w)
    BY DEF FormLinks
  <2>2. QED
    BY <2>1 DEF VouchedForm
<1> HIDE DEF r
<1>4. RetoldLink(ToldLinks, <<r.id, r.existing_linked_word_id>>)
  BY <1>2, <1>3
<1>5. NamesOne(r)
  <2>1. CASE e.existing_id = Null \/ Lost(e.existing_id)
    BY <1>2, <2>1 DEF NamesOne
  <2>2. CASE first = Nothing \/ second = Nothing
    BY <1>2, <2>2, OneSideNamesOne DEF NamesOne
  <2>3. QED
    BY <2>1, <2>2
<1>6. QED
  BY <1>1, <1>4, <1>5 DEF LinkVouched

LEMMA ByIdLinkVouched ==
    ASSUME NEW id
    PROVE  LinkVouched(Delete(id)) /\ LinkVouched(SuggestDeletion(id))
BY DEF LinkVouched, Delete, SuggestDeletion

\* The links of a word that is not there are new, or lost ones.
LEMMA LinksOfSuggestionVouched ==
    ASSUME NEW w, VouchedForm(w), w.existing_id = Null
    PROVE  \A x \in LinksOfSuggestion(w).writes : LinkVouched(x)
<1> DEFINE prev == LinkSuggestionsOf(db, w.suggestion_id)
           kept == {e \in w.links : e.suggestion_id \in Ids(prev)}
           again == {LinkSuggestion(e, w.user, Suggested(w.suggestion_id), e.other) : e \in kept}
           missing == {Delete(r.id) : r \in {q \in prev :
                          \A e \in w.links : e.suggestion_id # q.id}}
<1>1. LinksOfSuggestion(w).writes = again \cup missing
  BY DEF LinksOfSuggestion
<1>2. \A e \in w.links : e.existing_id = Null \/ Lost(e.existing_id)
  BY DEF VouchedForm, LinksKnown
<1>3. \A x \in again : LinkVouched(x)
  BY <1>2, LinkEntryVouched
<1>4. \A x \in missing : LinkVouched(x)
  BY ByIdLinkVouched
<1>5. QED
  BY <1>1, <1>3, <1>4

LEMMA LinksOfWordVouched ==
    ASSUME NEW w, VouchedForm(w)
    PROVE  \A x \in LinksOfWord(w).writes : LinkVouched(x)
<1> DEFINE this == w.existing_id
           prev == LinksOf(db, this)
           kept == {e \in w.links : e.existing_id \in Ids(prev)}
           Old(e) == RowOf(prev, e.existing_id)
           differs == {e \in kept : e.retyped \/ e.other # Existing(OtherWord(Old(e), this))}
           Changed(e, old) == IF e.other = Existing(old) THEN Nothing ELSE e.other
           Edit(e) == IF this = Old(e).first_word_id
                      THEN LinkSuggestion(e, w.user, Nothing,
                                          Changed(e, Old(e).second_word_id))
                      ELSE LinkSuggestion(e, w.user, Changed(e, Old(e).first_word_id), Nothing)
           edits == {Edit(e) : e \in differs}
           missing == {SuggestDeletion(l.id) : l \in {q \in prev :
                          \A e \in w.links : e.existing_id # q.id}}
<1>1. LinksOfWord(w).writes = edits \cup missing
  BY DEF LinksOfWord
<1>2. ASSUME NEW e \in w.links
      PROVE  LinkVouched(Edit(e))
  <2> HIDE DEF Changed, Old
  <2>1. \A ref : /\ LinkVouched(LinkSuggestion(e, w.user, Nothing, ref))
                 /\ LinkVouched(LinkSuggestion(e, w.user, ref, Nothing))
    BY LinkEntryVouched
  <2>2. QED
    BY <2>1
<1> HIDE DEF Edit
<1>3. \A x \in edits : LinkVouched(x)
  BY <1>2
<1>4. \A x \in missing : LinkVouched(x)
  BY ByIdLinkVouched
<1>5. QED
  BY <1>1, <1>3, <1>4

LEMMA ProcessLinksEdited ==
    ASSUME TypeOK, ThreadsKnown, TypeOK', Edited, NEW t \in Threads, process_linked_words(t)
    PROVE  Edited'
<1>1. At(t, "process_linked_words") /\ "process_linked_words" \in WordOps \cap ProcessOps
  BY DEF process_linked_words, WordOps, ProcessOps
<1>2. PICK c : c = Current(t)
  OBVIOUS
<1>3. PICK w : w = c.word
  OBVIOUS
<1>4. VouchedForm(w) /\ todo[t] # <<>>
  BY <1>1, <1>2, <1>3, AtWord
<1> DEFINE old == IF w.existing_id # Null THEN LinksOfWord(w)
                  ELSE IF w.suggestion_id # Null THEN LinksOfSuggestion(w)
                  ELSE [kept |-> {}, writes |-> {}]
           this == IF w.existing_id # Null THEN Existing(w.existing_id) ELSE Suggested(c.new)
           added == {LinkSuggestion(e, w.user, this, e.other) : e \in w.links \ old.kept}
           s == [op |-> "write_link", rows |-> {}]
<1>5. Panic(t) \/ Read(t, TRUE, Loop(s, old.writes) \o Loop(s, added), {})
  BY <1>2, <1>3 DEF process_linked_words
<1>6. CASE Read(t, TRUE, Loop(s, old.writes) \o Loop(s, added), {})
  <2>1. \A x \in old.writes : LinkVouched(x)
    BY <1>4, LinksOfWordVouched, LinksOfSuggestionVouched
  <2>2. \A e \in w.links \ old.kept : e.existing_id = Null \/ Lost(e.existing_id)
    <3>1. CASE w.existing_id = Null
      BY <1>4, <3>1 DEF VouchedForm, LinksKnown
    <3>2. CASE w.existing_id # Null
      <4>1. LinksOfWord(w).kept =
                {e \in w.links : e.existing_id \in Ids(LinksOf(db, w.existing_id))}
        BY DEF LinksOfWord
      <4>2. old.kept = {e \in w.links : e.existing_id \in Ids(LinksOf(db, w.existing_id))}
        BY <3>2, <4>1
      <4> HIDE DEF old
      <4>3. \A l : LinkOf(l, w.existing_id) => l \in Ids(LinksOf(db, w.existing_id))
        BY DEF LinkOf, Ids, LinksOf
      <4>4. QED
        BY <1>4, <3>2, <4>2, <4>3 DEF VouchedForm, LinksKnown
    <3>3. QED
      BY <3>1, <3>2
  <2> HIDE DEF this
  <2>3. \A x \in added : LinkVouched(x)
    <3> HIDE DEF old
    <3>1. QED
      BY <1>4, <2>2, LinkEntryVouched
  <2> DEFINE S == old.writes
  <2> HIDE DEF added
  <2>4. \A T : /\ [s EXCEPT !.rows = T].op = "write_link"
               /\ [s EXCEPT !.rows = T].rows = T
    OBVIOUS
  <2>5. Read(t, TRUE, Loop(s, S) \o Loop(s, added), {}) /\ \A x \in S : LinkVouched(x)
    BY <1>6, <2>1
  <2> HIDE DEF S, s
  <2>6. Vouched([s EXCEPT !.rows = S]) /\ Vouched([s EXCEPT !.rows = added])
    BY <2>3, <2>4, <2>5, LinkLoopVouched
  <2>7. QED
    BY <1>4, <2>5, <2>6, LoopsEdited
<1>7. QED
  BY <1>5, <1>6, PanicEdited

\* The row an upsert of a link suggestion leaves tells what it was sent with, or
\* is a new one.
LEMMA LinkRowTold ==
    ASSUME TypeOK, Edited, NEW new \in NewLinkRow, NamesOne(new),
           RetoldLink(ToldLinks, <<new.id, new.existing_linked_word_id>>),
           NEW row, row = LinkRowAfter(db, new)
    PROVE  /\ NamesOne(row) /\ row.id \in Nat
           /\ \/ RetoldLink(ToldLinks, <<row.id, row.existing_linked_word_id>>)
              \/ row.id = db.seq["linked_word_suggestions"] + 1
<1> DEFINE T == db.linked_word_suggestions
           Same(r) == /\ r.first_existing_word_id = new.first_existing_word_id
                      /\ r.second_existing_word_id = new.second_existing_word_id
                      /\ r.suggested_word_id = new.suggested_word_id
                      /\ r.second_suggested_word_id = new.second_suggested_word_id
                      /\ r.existing_linked_word_id = new.existing_linked_word_id
<1>1. db \in Database
  BY DEF TypeOK
<1>2. Same(row) => NamesOne(row)
  <2>1. ASSUME Same(row)
        PROVE  \A k \in WordColumns : row[k] = new[k]
    BY <2>1 DEF WordColumns
  <2>2. Same(row) => (NamesTwo(row) => NamesTwo(new))
    BY <2>1 DEF NamesTwo
  <2>3. QED
    BY <2>2 DEF NamesOne
<1>3. CASE new.id \in Ids(T)
  <2>1. PICK old : old = RowOf(T, new.id)
    OBVIOUS
  <2>2. old \in T /\ old.id = new.id /\ old \in LinkedWordSuggestionRow
    BY <1>1, <1>3, <2>1, RowOfType DEF Database
  <2>3. new.id \in Nat /\ new.id # Null
    BY <2>2 DEF LinkedWordSuggestionRow, Id
  <2>4. row = [new EXCEPT !.existing_linked_word_id = old.existing_linked_word_id,
                          !.user = old.user]
    BY <1>3, <2>1 DEF LinkRowAfter
  <2>5. new.existing_linked_word_id = old.existing_linked_word_id
    <3> DEFINE m == <<new.id, new.existing_linked_word_id>>
               o == <<old.id, old.existing_linked_word_id>>
    <3>1. /\ m[1] = new.id /\ m[2] = new.existing_linked_word_id
          /\ o[1] = new.id /\ o[2] = old.existing_linked_word_id
      BY <2>2
    <3>2. o \in ToldLinks
      BY <2>2 DEF ToldLinks, RowLinks
    <3>3. RetoldLink(ToldLinks, m)
      OBVIOUS
    <3> HIDE DEF m, o
    <3>4. PICK p \in ToldLinks : p[1] = new.id /\ p[2] = new.existing_linked_word_id
      BY <2>3, <3>1, <3>3 DEF RetoldLink
    <3>5. \A x, y \in ToldLinks : x[1] = y[1] /\ x[1] # Null => x[2] = y[2]
      BY DEF Edited, LinksFiled
    <3>6. QED
      BY <2>3, <3>1, <3>2, <3>4, <3>5
  <2>6. row.id = new.id /\ Same(row)
    BY <2>4, <2>5 DEF NewLinkRow
  <2>7. QED
    BY <1>2, <2>3, <2>6
<1>4. CASE new.id \notin Ids(T)
  <2>1. PICK key : key = KeyOrNext(db, "linked_word_suggestions", new.id)
    OBVIOUS
  <2>2. /\ new.id \in Nat /\ db.seq["linked_word_suggestions"] \in Nat
        /\ IF new.id = Null THEN key = db.seq["linked_word_suggestions"] + 1 ELSE key = new.id
    BY <2>1, NumbersType DEF KeyOrNext, NewLinkRow, OptionalId
  <2>3. row = [new EXCEPT !.id = key]
    BY <1>4, <2>1 DEF LinkRowAfter
  <2>4. row.id = key /\ Same(row)
    BY <2>3 DEF NewLinkRow
  <2>5. row.id \in Nat
    BY <2>2, <2>4
  <2>6. QED
    BY <1>2, <2>2, <2>4, <2>5
<1>5. QED
  BY <1>3, <1>4

LEMMA PutLinkSuggestionFiles ==
    ASSUME TypeOK, Edited, NEW new \in NewLinkRow, NamesOne(new),
           RetoldLink(ToldLinks, <<new.id, new.existing_linked_word_id>>),
           NEW row, row = LinkRowAfter(db, new), NEW after,
           after = [db EXCEPT !.linked_word_suggestions = Put(@, row),
                              !.seq = Bump(@, "linked_word_suggestions", row.id)]
    PROVE  Files(after)
<1> DEFINE n == <<row.id, row.existing_linked_word_id>>
           seq == Bump(db.seq, "linked_word_suggestions", row.id)
           T == Put(db.linked_word_suggestions, row)
           R == ToldLinks
<1>1. NamesOne(row) /\ row.id \in Nat
  BY LinkRowTold
<1>2. /\ db \in Database /\ db.seq \in [AutoIncrement -> Nat]
      /\ "linked_word_suggestions" \in AutoIncrement
  BY DEF TypeOK, Database, AutoIncrement
<1>3. /\ after.linked_word_suggestions = T /\ after.seq = seq
      /\ after.examples = db.examples /\ after.linked_words = db.linked_words
      /\ after.example_suggestions = db.example_suggestions
  BY <1>2 DEF Database
<1>4. /\ \A table \in AutoIncrement : db.seq[table] <= seq[table]
      /\ row.id <= seq["linked_word_suggestions"]
  BY <1>1, <1>2, BumpPasses
<1>5. \A r \in T : r \in db.linked_word_suggestions \/ r = row
  BY DEF Put
<1>6. RetoldLink(R, n) \/ NextLink(after, n)
  <2>1. n[1] = row.id /\ n[2] = row.existing_linked_word_id
    OBVIOUS
  <2>2. RetoldLink(R, n) \/ row.id = db.seq["linked_word_suggestions"] + 1
    BY LinkRowTold
  <2>3. db.seq["linked_word_suggestions"] \in Nat
    BY NumbersType
  <2>4. row.id <= after.seq["linked_word_suggestions"]
    BY <1>3, <1>4
  <2> HIDE DEF n, R, seq, T
  <2>5. QED
    BY <1>1, <2>1, <2>2, <2>3, <2>4 DEF NextLink
<1> HIDE DEF seq, T, R
<1>7. RowLinks(after.linked_word_suggestions) \subseteq RowLinks(db.linked_word_suggestions) \cup {n}
  BY <1>3, <1>5 DEF RowLinks
<1>8. \A m \in RowLinks(db.linked_word_suggestions) : RetoldLink(R, m)
  BY ToldOfItself DEF ToldLinks, R
<1> HIDE DEF n
<1>9. \E x : \A m \in RowLinks(after.linked_word_suggestions) :
          RetoldLink(R, m) \/ (m = x /\ NextLink(after, m))
  BY <1>6, <1>7, <1>8
<1>10. \A m \in TableExamples(after) : Retold(ToldExamples, m)
  BY <1>3, ToldOfItself DEF ToldExamples, TableExamples
<1>11. NumbersGrow(after) /\ KeepsLinks(after)
  BY <1>3, <1>4 DEF NumbersGrow, KeepsLinks, AutoIncrement, Edited
<1>12. QED
  BY <1>1, <1>3, <1>5, <1>9, <1>10, <1>11 DEF Files, R

LEMMA WriteLinkEdited ==
    ASSUME TypeOK, ThreadsKnown, TypeOK', Edited, NEW t \in Threads, write_link(t)
    PROVE  Edited'
<1>1. At(t, "write_link") /\ "write_link" \in LoopOps
  BY DEF write_link, LoopOps
<1>2. PICK c : c = Current(t)
  OBVIOUS
<1>3. PICK s, S :
          /\ s \in c.rows /\ S = c.rows \ {s}
          /\ \/ /\ s.do = "upsert"
                /\ LET row == LinkRowAfter(db, s.row)
                   IN  Write(t, LinkedWordSuggestionOk(db, row),
                             [db EXCEPT
                                !.linked_word_suggestions = Put(@, row),
                                !.seq = Bump(@, "linked_word_suggestions", row.id)],
                             Loop(c, S))
             \/ Write(t, TRUE, [db EXCEPT !.linked_word_suggestions = Drop(@, s.id)], Loop(c, S))
             \/ Write(t, s.id \in Ids(db.linked_words), SuggestLinkDeletion(db, s.id), Loop(c, S))
  BY <1>2 DEF write_link
<1>4. /\ c \in [op: {"write_link"}, rows: SUBSET (UpsertOf(NewLinkRow) \cup ById)]
      /\ Vouched(c) /\ c.op = "write_link"
  <2>1. c \in SubmitStatement /\ c.op = "write_link" /\ Vouched(c)
    BY <1>1, <1>2, AtSubmit, AtVouched
  <2>2. QED
    BY <2>1 DEF SubmitStatement
<1>5. s \in c.rows /\ S \subseteq c.rows /\ db \in Database
  BY <1>3 DEF TypeOK
<1>6. ASSUME NEW allowed, NEW after, Write(t, allowed, after, Loop(c, S)), Files(after)
      PROVE  Edited'
  BY <1>1, <1>2, <1>5, <1>6, PlainTurnEdited
<1>7. CASE /\ s.do = "upsert"
           /\ LET row == LinkRowAfter(db, s.row)
              IN  Write(t, LinkedWordSuggestionOk(db, row),
                        [db EXCEPT
                           !.linked_word_suggestions = Put(@, row),
                           !.seq = Bump(@, "linked_word_suggestions", row.id)],
                        Loop(c, S))
  <2> DEFINE new == s.row
             row == LinkRowAfter(db, new)
             after == [db EXCEPT !.linked_word_suggestions = Put(@, row),
                                 !.seq = Bump(@, "linked_word_suggestions", row.id)]
             allowed == LinkedWordSuggestionOk(db, row)
  <2>1. Write(t, allowed, after, Loop(c, S))
    BY <1>7
  <2>2. new \in NewLinkRow
    BY <1>4, <1>5, <1>7 DEF UpsertOf, ById
  <2>3. new \in Upserts(c)
    BY <1>5, <1>7 DEF Upserts
  <2> HIDE DEF new
  <2>4. NamesOne(new)
    BY <1>4, <2>3 DEF Vouched, Sound
  <2>5. RetoldLink(ToldLinks, <<new.id, new.existing_linked_word_id>>)
    <3>1. StatementLinks(c) = RowLinks(Upserts(c))
      BY <1>4 DEF StatementLinks, WordOps, SentOps, ProcessOps
    <3>2. <<new.id, new.existing_linked_word_id>> \in StatementLinks(c)
      BY <2>3, <3>1 DEF RowLinks
    <3>3. QED
      BY <1>4, <3>2 DEF Vouched
  <2> HIDE DEF row
  <2>6. Files(after)
    BY <2>2, <2>4, <2>5, PutLinkSuggestionFiles DEF row
  <2> HIDE DEF after, allowed
  <2>7. QED
    BY <1>6, <2>1, <2>6
<1>8. CASE Write(t, TRUE, [db EXCEPT !.linked_word_suggestions = Drop(@, s.id)], Loop(c, S))
  <2> DEFINE after == [db EXCEPT !.linked_word_suggestions = Drop(@, s.id)]
  <2>1. Write(t, TRUE, after, Loop(c, S))
    BY <1>8
  <2>2. /\ after.seq = db.seq /\ after.examples = db.examples
        /\ after.linked_words = db.linked_words
        /\ after.linked_word_suggestions \subseteq db.linked_word_suggestions
        /\ after.example_suggestions = db.example_suggestions
    BY <1>5 DEF Database, Drop
  <2> HIDE DEF after
  <2>3. NumbersGrow(after)
    BY <2>2, NumbersType DEF NumbersGrow
  <2>4. Files(after)
    BY <2>2, <2>3, FewerFiled DEF FewerEdits
  <2>5. QED
    BY <1>6, <2>1, <2>4
<1>9. CASE Write(t, s.id \in Ids(db.linked_words), SuggestLinkDeletion(db, s.id), Loop(c, S))
  <2> DEFINE after == SuggestLinkDeletion(db, s.id)
             allowed == s.id \in Ids(db.linked_words)
             key == db.seq["linked_word_deletion_suggestions"] + 1
  <2>1. Write(t, allowed, after, Loop(c, S))
    BY <1>9
  <2>2. /\ after.seq = db.seq \/ after.seq = Bump(db.seq, "linked_word_deletion_suggestions", key)
        /\ after.examples = db.examples /\ after.linked_words = db.linked_words
        /\ after.linked_word_suggestions = db.linked_word_suggestions
        /\ after.example_suggestions = db.example_suggestions
    BY <1>5 DEF Database, SuggestLinkDeletion
  <2> HIDE DEF after, allowed, key
  <2>3. FewerEdits(after)
    BY <2>2, OtherTables
  <2>4. Files(after)
    BY <2>3, FewerFiled
  <2>5. QED
    BY <1>6, <2>1, <2>4
<1>10. QED
  BY <1>3, <1>7, <1>8, <1>9

-----------------------------------------------------------------------------
(* Edits as the pages show them *)

\* The parts of a word are where they are.
LEMMA ExistingPartsTold ==
    ASSUME Edited, NEW w
    PROVE  /\ \A e \in ExistingLinkEntries(db, w) :
                  /\ LinkOf(e.existing_id, w)
                  /\ RetoldLink(ToldLinks, <<e.suggestion_id, e.existing_id>>)
           /\ \A e \in ExistingExampleEntries(db, w) :
                  Retold(ToldExamples, <<e.suggestion_id, e.existing_id, w>>)
<1>1. ASSUME NEW e \in ExistingLinkEntries(db, w)
      PROVE  /\ LinkOf(e.existing_id, w)
             /\ RetoldLink(ToldLinks, <<e.suggestion_id, e.existing_id>>)
  <2>1. PICK l \in LinksOf(db, w) : e.suggestion_id = Null /\ e.existing_id = l.id
    BY DEF ExistingLinkEntries
  <2>2. LinkOf(e.existing_id, w)
    BY <2>1 DEF LinksOf, LinkOf
  <2>3. RetoldLink(ToldLinks, <<e.suggestion_id, e.existing_id>>)
    BY <2>1 DEF RetoldLink
  <2>4. QED
    BY <2>2, <2>3
<1>2. ASSUME NEW e \in ExistingExampleEntries(db, w)
      PROVE  Retold(ToldExamples, <<e.suggestion_id, e.existing_id, w>>)
  <2>1. PICK x \in db.examples : x.word_id = w /\ e.suggestion_id = Null /\ e.existing_id = x.id
    BY DEF ExistingExampleEntries
  <2>2. <<e.suggestion_id, e.existing_id, w>> \in ToldExamples
    BY <2>1 DEF ToldExamples, TableExamples
  <2>3. QED
    BY <2>2, ToldOfItself
<1>3. QED
  BY <1>1, <1>2

\* The parts of a suggestion that can be shown are new ones.
LEMMA SuggestedPartsTold ==
    ASSUME Edited, NEW s, s # Null, LinksPopulate(db, s), NEW this, NEW w
    PROVE  /\ \A e \in SuggestedLinkEntries(db, s, this) :
                  /\ e.existing_id = Null \/ Lost(e.existing_id)
                  /\ RetoldLink(ToldLinks, <<e.suggestion_id, e.existing_id>>)
           /\ \A e \in SuggestedExampleEntries(db, s) :
                  Retold(ToldExamples, <<e.suggestion_id, e.existing_id, w>>)
<1>1. ASSUME NEW e \in SuggestedLinkEntries(db, s, this)
      PROVE  /\ e.existing_id = Null \/ Lost(e.existing_id)
             /\ RetoldLink(ToldLinks, <<e.suggestion_id, e.existing_id>>)
  <2> DEFINE Other(ends) == IF ends.second = this THEN ends.first ELSE ends.second
             entry(r) == [suggestion_id |-> r.id, existing_id |-> r.existing_linked_word_id,
                          other |-> Other(FirstAndSecond(db, r, FALSE)), retyped |-> FALSE]
  <2>1. PICK r \in LinkSuggestionsOf(db, s) :
            e.suggestion_id = r.id /\ e.existing_id = r.existing_linked_word_id
    <3>1. SuggestedLinkEntries(db, s, this) = {entry(r) : r \in LinkSuggestionsOf(db, s)}
      BY DEF SuggestedLinkEntries
    <3>2. \A r : /\ entry(r).suggestion_id = r.id
                 /\ entry(r).existing_id = r.existing_linked_word_id
      OBVIOUS
    <3> HIDE DEF entry
    <3>3. QED
      BY <3>1, <3>2
  <2> HIDE DEF Other, entry
  <2>2. /\ r \in db.linked_word_suggestions
        /\ r.existing_linked_word_id = Null \/ Lost(r.existing_linked_word_id)
    BY LinksOfSuggestionNew
  <2>3. <<e.suggestion_id, e.existing_id>> \in ToldLinks
    BY <2>1, <2>2 DEF ToldLinks, RowLinks
  <2>4. QED
    BY <2>1, <2>2, <2>3, ToldOfItself
<1>2. ASSUME NEW e \in SuggestedExampleEntries(db, s)
      PROVE  Retold(ToldExamples, <<e.suggestion_id, e.existing_id, w>>)
  <2>1. PICK r \in db.example_suggestions :
            /\ r.suggested_word_id = s
            /\ e.suggestion_id = r.id /\ e.existing_id = r.existing_example_id
    BY DEF SuggestedExampleEntries, ExampleSuggestionsOf
  <2>2. r.existing_example_id = Null
    BY <2>1 DEF Edited, OneParent
  <2>3. Retold(ToldExamples, <<r.id, r.existing_example_id, r.existing_word_id>>)
    BY RowsTold
  <2>4. QED
    BY <2>1, <2>2, <2>3 DEF Retold
<1>3. QED
  BY <1>1, <1>2

LEMMA ShowEdited ==
    ASSUME TypeOK, TypeOK', Edited, NEW form, NEW route, Show(route, form), VouchedForm(form)
    PROVE  Edited'
<1>1. forms' = forms \cup {form} /\ Observe /\ UNCHANGED <<db, todo, broken>>
  BY DEF Show
<1>2. Queue' = Queue
  BY <1>1 DEF Queue
<1>3. Files(db')
  BY <1>1, SameTables, NoneFiled
<1>4. PICK S, F : S = {} /\ F = {form}
  OBVIOUS
<1>5. broken \subseteq broken'
  BY <1>1
<1>6. QED
  BY <1>1, <1>2, <1>3, <1>4, <1>5, StepEdited

LEMMA PagesEdited ==
    ASSUME TypeOK, TypeOK', Edited, edit_word_page \/ edit_suggestion_page
    PROVE  Edited'
<1>1. CASE edit_word_page
  <2>1. PICK w \in 1 .. db.seq["words"] : Show("edit_word_page", FormOfWord(db, w))
    BY <1>1 DEF edit_word_page
  <2>2. w # Null
    BY DEF Null
  <2>3. PICK form : form = FormOfWord(db, w)
    OBVIOUS
  <2>4. /\ form.existing_id = w /\ form.links = ExistingLinkEntries(db, w)
        /\ form.examples = ExistingExampleEntries(db, w)
    BY <2>3 DEF FormOfWord
  <2>5. VouchedForm(form)
    BY <2>2, <2>4, ExistingPartsTold DEF VouchedForm, LinksKnown, FormExamples, FormLinks
  <2>6. QED
    BY <2>1, <2>3, <2>5, ShowEdited
<1>2. CASE edit_suggestion_page
  <2>1. PICK row \in db.word_suggestions :
            LinksPopulate(db, row.id) /\ Show("edit_suggestion_page", FormOfSuggestion(db, row))
    BY <1>2 DEF edit_suggestion_page
  <2>2. PICK form : form = FormOfSuggestion(db, row)
    OBVIOUS
  <2>3. PICK w : w = row.existing_word_id
    OBVIOUS
  <2>4. PICK this : this = IF w = Null THEN Suggested(row.id) ELSE Existing(w)
    OBVIOUS
  <2>5. /\ form.existing_id = w
        /\ form.links = SuggestedLinkEntries(db, row.id, this) \cup
                        (IF w = Null THEN {} ELSE ExistingLinkEntries(db, w))
        /\ form.examples = SuggestedExampleEntries(db, row.id) \cup
                           (IF w = Null THEN {} ELSE ExistingExampleEntries(db, w))
    BY <2>2, <2>3, <2>4 DEF FormOfSuggestion
  <2>6. row.id # Null
    BY DEF TypeOK, Database, WordSuggestionRow, Id
  <2>7. /\ \A e \in SuggestedLinkEntries(db, row.id, this) :
               /\ e.existing_id = Null \/ Lost(e.existing_id)
               /\ RetoldLink(ToldLinks, <<e.suggestion_id, e.existing_id>>)
        /\ \A e \in SuggestedExampleEntries(db, row.id) :
               Retold(ToldExamples, <<e.suggestion_id, e.existing_id, w>>)
    BY <2>1, <2>6, SuggestedPartsTold
  <2>8. /\ \A e \in form.links :
               /\ \/ e.existing_id = Null \/ Lost(e.existing_id)
                  \/ w # Null /\ LinkOf(e.existing_id, w)
               /\ RetoldLink(ToldLinks, <<e.suggestion_id, e.existing_id>>)
        /\ \A e \in form.examples :
               Retold(ToldExamples, <<e.suggestion_id, e.existing_id, w>>)
    BY <2>5, <2>7, ExistingPartsTold
  <2>9. VouchedForm(form)
    BY <2>5, <2>8 DEF VouchedForm, LinksKnown, FormExamples, FormLinks
  <2>10. QED
    BY <2>1, <2>2, <2>9, ShowEdited
<1>3. QED
  BY <1>1, <1>2

-----------------------------------------------------------------------------
(* Every step keeps the edits filed *)

LEMMA CrashEdited ==
    ASSUME TypeOK, TypeOK', Edited, Crash
    PROVE  Edited'
<1>1. UNCHANGED <<db, forms>> /\ Observe /\ broken \subseteq broken'
  BY DEF Crash
<1>2. Queue' = {}
  <2>1. \A t \in Threads : todo'[t] = <<>>
    BY DEF Crash
  <2>2. \A t \in Threads : Statements(todo'[t]) = {}
    BY <2>1 DEF Statements
  <2>3. QED
    BY <2>2 DEF Queue
<1>3. Files(db')
  BY <1>1, SameTables, NoneFiled
<1>4. PICK S : S = {}
  OBVIOUS
<1>5. QED
  BY <1>1, <1>2, <1>3, <1>4, StepEdited

LEMMA StutterEdited ==
    ASSUME Edited, UNCHANGED vars
    PROVE  Edited'
<1>1. UNCHANGED <<db, forms, todo, gone, broken, overlapped>>
  BY DEF vars
<1>2. /\ Queue' = Queue /\ ToldExamples' = ToldExamples /\ ToldLinks' = ToldLinks
  BY <1>1 DEF Queue, ToldExamples, ToldLinks
<1>3. \A l : Lost(l)' = Lost(l)
  BY <1>1 DEF Lost, Excused
<1>4. /\ \A r : NamesOne(r)' = NamesOne(r)
      /\ \A w : LinksKnown(w)' = LinksKnown(w)
      /\ \A L : NewOrLost(L)' = NewOrLost(L)
  BY <1>1, <1>3 DEF NamesOne, LinksKnown, NewOrLost, LinkOf
<1>5. \A s : Sound(s)' = Sound(s)
  BY <1>4 DEF Sound
<1>6. QED
  BY <1>1, <1>2, <1>4, <1>5 DEF Edited, OneParent

LEMMA ServeEdited ==
    ASSUME TypeOK, ThreadsKnown, IdsPassed, TypeOK', Edited, NEW t \in Threads, Serve(t)
    PROVE  Edited'
<1>1. CASE \/ read_original(t) \/ insert_suggestion(t)
           \/ process_linked_words(t) \/ write_link(t)
           \/ process_examples(t) \/ write_example(t)
           \/ process_datasets(t) \/ write_dataset(t)
           \/ insert_word_deletion(t)
           \/ ExecAddUserAttribution(t) \/ ExecDeleteRow(t) \/ ExecIndex(t)
  BY <1>1, ReadOriginalEdited, InsertSuggestionEdited, ProcessLinksEdited, WriteLinkEdited,
     ProcessExamplesEdited, WriteExampleEdited, ProcessDatasetsEdited, WriteDatasetEdited,
     InsertWordDeletionEdited, AttributionEdited, DeleteRowEdited, ExecIndexEdited
<1>2. CASE \/ fetch_alone(t) \/ fetch_examples(t) \/ fetch_linked_words(t) \/ fetch_datasets(t)
           \/ accept_just_word(t) \/ accept_example(t) \/ accept_dataset(t)
           \/ accept_link_of_word(t) \/ accept_link(t)
  BY <1>2, FetchAloneEdited, FetchExamplesEdited, FetchLinkedWordsEdited, FetchDatasetsEdited,
     AcceptJustWordEdited, AcceptExampleEdited, AcceptDatasetEdited, AcceptLinkOfWordEdited,
     AcceptLinkEdited
<1>3. CASE \/ fetch_example(t) \/ fetch_link(t) \/ fetch_dataset(t)
           \/ fetch_word_deletion(t) \/ fetch_example_deletion(t) \/ fetch_link_deletion(t)
           \/ delete_word(t) \/ delete_example(t) \/ delete_link(t) \/ delete_word_suggestion(t)
  BY <1>3, FetchExampleEdited, FetchEdited, DeletesEdited
<1>4. QED
  BY <1>1, <1>2, <1>3 DEF Serve

LEMMA NextEdited ==
    ASSUME TypeOK, ThreadsKnown, IdsPassed, TypeOK', Edited, [Next]_vars
    PROVE  Edited'
<1>1. ASSUME NEW t \in Threads, abandon_deletion(t)
      PROVE  Edited'
  BY <1>1, PanicEdited DEF abandon_deletion
<1>2. QED
  BY <1>1, RequestEdited, ServeEdited, PagesEdited, CrashEdited, StutterEdited DEF Next

\* A database to start from has its edits where the forms of words put them.
LEMMA InitialEdited ==
    ASSUME Init
    PROVE  Edited
<1>1. Consistent(db) /\ EditsFiled(db) /\ forms = {} /\ todo = [t \in Threads |-> <<>>]
  BY DbsAssumption, EditsAssumption DEF Init
<1>2. /\ db \in Database /\ ForeignKeysHold(db) /\ KeysAllocated(db) /\ KeysUnique(db)
  BY <1>1 DEF Consistent
<1>3. Queue = {}
  <2>1. \A t \in Threads : Statements(todo[t]) = {}
    BY <1>1 DEF Statements
  <2>2. QED
    BY <2>1 DEF Queue
<1>4. ToldExamples = TableExamples(db) /\ ToldLinks = RowLinks(db.linked_word_suggestions)
  BY <1>1, <1>3 DEF ToldExamples, ToldLinks
<1> DEFINE R == db.example_suggestions
           X == db.examples
           T == TableExamples(db)
           Row(p, r) == p[1] = r.id /\ p[2] = r.existing_example_id /\ p[3] = r.existing_word_id
           Own(p, x) == p[1] = Null /\ p[2] = x.id /\ p[3] = x.word_id
<1>5. \A p \in T : (\E r \in R : Row(p, r)) \/ (\E x \in X : Own(p, x))
  BY DEF TableExamples, RowExamples
<1>6. /\ \A r \in R : /\ r.id \in Nat /\ r.existing_example_id \in Nat
                      /\ r.id <= db.seq["example_suggestions"]
                      /\ r.existing_example_id # Null =>
                             \E x \in X : /\ x.id = r.existing_example_id
                                          /\ x.word_id = r.existing_word_id
                      /\ OneParent(r)
      /\ \A x \in X : /\ x.id \in Nat /\ x.id <= db.seq["examples"]
                      /\ x.word_id # Null
      /\ Keyed(R) /\ Keyed(X)
  <2>1. \A r \in R : r.id \in Nat /\ r.existing_example_id \in Nat
    BY <1>2 DEF Database, ExampleSuggestionRow, Id, OptionalId
  <2>2. \A x \in X : x.id \in Nat /\ x.word_id # Null
    BY <1>2 DEF Database, ExampleRow, Id
  <2>3. /\ \A r \in R : r.id <= db.seq["example_suggestions"]
        /\ \A x \in X : x.id <= db.seq["examples"]
    BY <1>2 DEF KeysAllocated, SequencePassed, Ids
  <2>4. \A r \in R : /\ OneParent(r)
                     /\ r.existing_example_id # Null =>
                            \A x \in X : x.id = r.existing_example_id =>
                                             x.word_id = r.existing_word_id
    BY <1>1 DEF EditsFiled, OneParent
  <2>5. \A r \in R : r.existing_example_id # Null => \E x \in X : x.id = r.existing_example_id
    BY <1>2 DEF ForeignKeysHold, ExampleSuggestionOk, Refers, Ids
  <2>6. Keyed(R) /\ Keyed(X)
    BY <1>2 DEF KeysUnique
  <2> HIDE DEF R, X
  <2>7. QED
    BY <2>1, <2>2, <2>3, <2>4, <2>5, <2>6
<1>7. db.seq["example_suggestions"] \in Nat /\ db.seq["examples"] \in Nat
  BY <1>2 DEF Database, AutoIncrement
<1> HIDE DEF T
<1>8. ExamplesFiled(T, db.seq["example_suggestions"], db.seq["examples"])
  <2> DEFINE a == db.seq["example_suggestions"]
             b == db.seq["examples"]
  <2>1. /\ a \in Nat /\ b \in Nat
        /\ \A r \in R : r.id <= a
        /\ \A x \in X : x.id <= b
    BY <1>6, <1>7
  <2> HIDE DEF R, X, a, b
  <2>2. ASSUME NEW p \in T, NEW q \in T, p[1] = q[1], p[1] # Null
        PROVE  p[2] = q[2]
    BY <1>5, <1>6, <2>2 DEF Keyed
  <2>3. \A p \in T : p[2] # Null => \E x \in X : x.id = p[2] /\ x.word_id = p[3]
    BY <1>5, <1>6
  <2>4. ASSUME NEW p \in T, NEW q \in T, p[2] = q[2], p[2] # Null
        PROVE  p[3] = q[3]
    BY <1>6, <2>3, <2>4 DEF Keyed
  <2>5. ASSUME NEW p \in T
        PROVE  /\ p[1] \in Nat /\ p[1] <= a /\ p[2] \in Nat /\ p[2] <= b
               /\ p[2] # Null => p[3] # Null
    <3>1. p[1] \in Nat /\ p[1] <= a /\ p[2] \in Nat
      BY <1>5, <1>6, <2>1 DEF Null
    <3>2. p[2] <= b /\ (p[2] # Null => p[3] # Null)
      BY <1>6, <2>1, <2>3 DEF Null
    <3>3. QED
      BY <3>1, <3>2
  <2>6. ExamplesFiled(T, a, b)
    BY <2>2, <2>4, <2>5 DEF ExamplesFiled
  <2>7. QED
    BY <2>6 DEF a, b
<1>9. LinksFiled(ToldLinks, db.seq["linked_word_suggestions"])
  <2> DEFINE L == db.linked_word_suggestions
             a == db.seq["linked_word_suggestions"]
  <2>1. \A r \in L : r.id \in Nat
    BY <1>2 DEF Database, LinkedWordSuggestionRow, Id
  <2>2. \A r \in L : r.id <= a
    BY <1>2 DEF KeysAllocated, SequencePassed, Ids
  <2>3. Keyed(L)
    BY <1>2 DEF KeysUnique
  <2>4. \A p \in ToldLinks : \E r \in L : p[1] = r.id /\ p[2] = r.existing_linked_word_id
    BY <1>4 DEF RowLinks
  <2> HIDE DEF L, a
  <2>5. LinksFiled(ToldLinks, a)
    BY <2>1, <2>2, <2>3, <2>4 DEF LinksFiled, Keyed
  <2>6. QED
    BY <2>5 DEF a
<1>10. \A r \in db.linked_word_suggestions : NamesOne(r)
  BY <1>1 DEF EditsFiled, NamesOne
<1>11. Keyed(db.linked_words)
  BY <1>2 DEF KeysUnique
<1>12. ExamplesFiled(ToldExamples, db.seq["example_suggestions"], db.seq["examples"])
  BY <1>4, <1>8 DEF T
<1>13. \A r \in db.example_suggestions : OneParent(r)
  BY <1>6
<1>14. QED
  BY <1>1, <1>3, <1>9, <1>10, <1>11, <1>12, <1>13 DEF Edited

-----------------------------------------------------------------------------
(* Edits stay with what they are of *)

\* Every edit stays filed under what it is of.
THEOREM EditsStayFiled == Spec => [](IInv /\ Edited)
<1>1. Init => Edited
  BY InitialEdited
<1>2. Edited /\ IInv /\ IInv' /\ [Next]_vars => Edited'
  BY NextEdited DEF IInv, Decided
<1>3. QED
  BY <1>1, <1>2, DecisionsStand, PTL DEF Spec

\* The edit of an example is filed under the word that the example is of, however
\* old the form it came with was and whatever has become of the example since.
THEOREM ExampleEditsStayFiled == Spec => []ExampleEditsStay
<1>1. IInv /\ Edited => ExampleEditsStay
  <2>1. ASSUME IInv, Edited, NEW r \in db.example_suggestions, NEW x \in db.examples,
               r.existing_example_id = x.id
        PROVE  r.existing_word_id = x.word_id
    <3> DEFINE p == <<r.id, r.existing_example_id, r.existing_word_id>>
               q == <<Null, x.id, x.word_id>>
    <3>1. p \in ToldExamples /\ q \in ToldExamples
      BY DEF ToldExamples, TableExamples, RowExamples
    <3>2. p[2] = q[2] /\ p[2] = x.id /\ p[3] = r.existing_word_id /\ q[3] = x.word_id
      BY <2>1
    <3> HIDE DEF p, q
    <3>3. \A m, n \in ToldExamples : m[2] = n[2] /\ m[2] # Null => m[3] = n[3]
      BY <2>1 DEF Edited, ExamplesFiled
    <3>4. x.id # Null
      BY <2>1 DEF IInv, TypeOK, Database, ExampleRow, Id
    <3>5. QED
      BY <3>1, <3>2, <3>3, <3>4
  <2>2. QED
    BY <2>1 DEF ExampleEditsStay
<1>2. QED
  BY <1>1, EditsStayFiled, PTL

-----------------------------------------------------------------------------
(* Forms that are sent back as they were shown *)

\* The suggestion that a form edits is there, of the word the form says.
EditsASuggestion(d, f) ==
    f.suggestion_id # Null =>
        \E r \in d.word_suggestions :
            r.id = f.suggestion_id /\ r.existing_word_id = f.existing_id

\* The form of a word has what the word has, but perhaps for its datasets.
ShowsWord(d, f) ==
    /\ f.links = ExistingLinkEntries(d, f.existing_id)
    /\ f.examples = ExistingExampleEntries(d, f.existing_id)
    /\ \/ f.datasets = {x \in Datasets : <<f.existing_id, x>> \in d.dataset_attributions}
       \/ /\ f.datasets = {}
          /\ \E r \in d.word_suggestions : r.existing_word_id = f.existing_id

\* That of a suggestion of a new word has what is suggested with it.
DatasetsOf(d, s) == {r.dataset : r \in DatasetSuggestionsOf(d, s)}
ShowsSuggestion(d, f) ==
    /\ \A e \in f.links :
          \E p \in Parts(d).links :
              p[1] = e.suggestion_id /\ p[3] = {Suggested(f.suggestion_id), e.other}
    /\ \A p \in Parts(d).links :
          Suggested(f.suggestion_id) \in p[3] => \E e \in f.links : e.suggestion_id = p[1]
    /\ f.examples = SuggestedExampleEntries(d, f.suggestion_id)
    /\ f.datasets = DatasetsOf(d, f.suggestion_id)

ShowsNothing(f) == f.links = {} /\ f.examples = {} /\ f.datasets = {}

Shows(d, f) ==
    /\ EditsASuggestion(d, f)
    /\ f.existing_id # Null => ShowsWord(d, f)
    /\ f.existing_id = Null /\ f.suggestion_id # Null => ShowsSuggestion(d, f)
    /\ f.existing_id = Null /\ f.suggestion_id = Null => ShowsNothing(f)

\* The parts go to the suggestion that the form was of, if it has one.
GoesTo(d, w, new) ==
    /\ w.existing_id # Null => new = Null
    /\ w.existing_id = Null =>
          /\ new # Null /\ (w.suggestion_id # Null => new = w.suggestion_id)
          /\ w.datasets = DatasetsOf(d, new)

\* A link is between two words at most.
AtMostTwo(r) ==
    \A c, k, m \in WordColumns :
        r[c] # Null /\ r[k] # Null /\ r[m] # Null => c = k \/ k = m \/ c = m

\* Writes that leave the row as it was.
SameLink(d, x) ==
    /\ x.do = "upsert"
    /\ \E p \in Parts(d).links : p[1] = x.row.id /\ p[3] = Sides(x.row)
    /\ AtMostTwo(x.row)
SameExample(d, x) ==
    /\ x.do = "upsert"
    /\ \E r \in d.example_suggestions :
          /\ r.id = x.row.id /\ r.existing_word_id = x.row.existing_word_id
          /\ r.suggested_word_id = x.row.suggested_word_id
RemovesDataset(x) == x.do = "insert" /\ x.is_delete

\* A statement that changes no part.
Harmless(d, s) ==
    \/ s.op = "read_original" /\ Shows(d, s.word)
    \/ /\ s.op = "insert_suggestion" /\ Shows(d, s.word)
       /\ s.word.existing_id = Null /\ s.word.suggestion_id = Null => s.changed
    \/ s.op \in ProcessOps /\ Shows(d, s.word) /\ GoesTo(d, s.word, s.new)
    \/ s.op = "write_link" /\ \A x \in s.rows : SameLink(d, x)
    \/ s.op = "write_example" /\ \A x \in s.rows : SameExample(d, x)
    \/ /\ s.op = "write_dataset" /\ s.new = Null /\ \A x \in s.rows : RemovesDataset(x)
       /\ s.rows # {} => \E r \in d.word_suggestions : r.existing_word_id = s.existing_id
    \/ s.op = "index_put"

\* The invariant of such forms.
Untouched ==
    /\ PartsFiled(db) /\ Keyed(db.word_suggestions)
    /\ Keyed(db.example_suggestions) /\ Keyed(db.linked_words)
    /\ \A p, q \in Parts(db).links : p[1] = q[1] => p = q
    /\ \A f \in forms : Shows(db, f)
    /\ \A s \in Queue : Harmless(db, s)

\* What a step leaves of the tables has every part it had, and no other but the
\* removal of a dataset.
Leaves(d) ==
    /\ Parts(d) = Parts(db)
    /\ d.examples = db.examples /\ d.linked_words = db.linked_words
    /\ d.dataset_attributions = db.dataset_attributions
    /\ \A r \in db.word_suggestions :
          \E q \in d.word_suggestions : q.id = r.id /\ q.existing_word_id = r.existing_word_id
    /\ db.dataset_attribution_suggestions \subseteq d.dataset_attribution_suggestions
    /\ \A r \in d.dataset_attribution_suggestions \ db.dataset_attribution_suggestions :
          /\ r.is_delete /\ r.suggested_word_id = Null
          /\ \E q \in d.word_suggestions : q.existing_word_id = r.existing_word_id
    /\ PartsFiled(d) /\ Keyed(d.word_suggestions)

-----------------------------------------------------------------------------
\* The parts of a suggestion are what they were.
LEMMA PartsLeft ==
    ASSUME NEW d, Leaves(d)
    PROVE  /\ d.example_suggestions = db.example_suggestions
           /\ Parts(d).links = Parts(db).links
           /\ \A w : ExistingLinkEntries(d, w) = ExistingLinkEntries(db, w)
           /\ \A w : ExistingExampleEntries(d, w) = ExistingExampleEntries(db, w)
           /\ \A s : SuggestedExampleEntries(d, s) = SuggestedExampleEntries(db, s)
           /\ \A s : s # Null => DatasetsOf(d, s) = DatasetsOf(db, s)
<1>1. Parts(d).examples = Parts(db).examples /\ Parts(d).links = Parts(db).links
  BY DEF Leaves
<1>2. d.example_suggestions = db.example_suggestions
  BY <1>1 DEF Parts
<1>3. \A w : ExistingLinkEntries(d, w) = ExistingLinkEntries(db, w)
  BY DEF ExistingLinkEntries, LinksOf, Leaves
<1>4. \A w : ExistingExampleEntries(d, w) = ExistingExampleEntries(db, w)
  BY DEF ExistingExampleEntries, Leaves
<1>5. \A s : SuggestedExampleEntries(d, s) = SuggestedExampleEntries(db, s)
  BY <1>2 DEF SuggestedExampleEntries, ExampleSuggestionsOf
<1>6. ASSUME NEW s, s # Null
      PROVE  DatasetsOf(d, s) = DatasetsOf(db, s)
  <2>1. DatasetSuggestionsOf(d, s) = DatasetSuggestionsOf(db, s)
    BY <1>6 DEF DatasetSuggestionsOf, Leaves
  <2>2. QED
    BY <2>1 DEF DatasetsOf
<1>7. QED
  BY <1>1, <1>2, <1>3, <1>4, <1>5, <1>6

\* A form goes on showing what it shows.
LEMMA StillShown ==
    ASSUME NEW d, Leaves(d), NEW f, Shows(db, f)
    PROVE  Shows(d, f)
<1>1. EditsASuggestion(d, f)
  <2>1. CASE f.suggestion_id = Null
    BY <2>1 DEF EditsASuggestion
  <2>2. CASE f.suggestion_id # Null
    <3>1. PICK r \in db.word_suggestions :
              r.id = f.suggestion_id /\ r.existing_word_id = f.existing_id
      BY <2>2 DEF Shows, EditsASuggestion
    <3>2. PICK q \in d.word_suggestions :
              q.id = r.id /\ q.existing_word_id = r.existing_word_id
      BY DEF Leaves
    <3>3. QED
      BY <3>1, <3>2 DEF EditsASuggestion
  <2>3. QED
    BY <2>1, <2>2
<1>2. ASSUME f.existing_id # Null
      PROVE  ShowsWord(d, f)
  <2>1. ShowsWord(db, f)
    BY <1>2 DEF Shows
  <2>2. \A r \in db.word_suggestions : \E q \in d.word_suggestions :
            q.existing_word_id = r.existing_word_id
    BY DEF Leaves
  <2>3. d.dataset_attributions = db.dataset_attributions
    BY DEF Leaves
  <2>4. QED
    BY <2>1, <2>2, <2>3, PartsLeft DEF ShowsWord
<1>3. ASSUME f.existing_id = Null, f.suggestion_id # Null
      PROVE  ShowsSuggestion(d, f)
  <2>1. ShowsSuggestion(db, f)
    BY <1>3 DEF Shows
  <2>2. QED
    BY <1>3, <2>1, PartsLeft DEF ShowsSuggestion
<1>4. QED
  BY <1>1, <1>2, <1>3 DEF Shows

\* And a statement goes on doing no harm.
LEMMA StillHarmless ==
    ASSUME NEW d, Leaves(d), NEW s, Harmless(db, s)
    PROVE  Harmless(d, s)
<1>1. CASE s.op = "read_original" \/ s.op = "insert_suggestion"
  <2>1. s.op \notin ProcessOps /\ s.op \notin {"write_link", "write_example", "write_dataset", "index_put"}
    BY <1>1 DEF ProcessOps
  <2>2. Shows(d, s.word)
    BY <2>1, StillShown DEF Harmless
  <2>3. QED
    BY <2>1, <2>2 DEF Harmless
<1>2. CASE s.op \in ProcessOps
  <2>1. Shows(db, s.word) /\ GoesTo(db, s.word, s.new)
    BY <1>2 DEF Harmless, ProcessOps
  <2>2. GoesTo(d, s.word, s.new)
    BY <2>1, PartsLeft DEF GoesTo
  <2>3. QED
    BY <1>2, <2>1, <2>2, StillShown DEF Harmless
<1>3. CASE s.op = "write_link"
  <2>1. \A x \in s.rows : SameLink(db, x)
    BY <1>3 DEF Harmless, ProcessOps
  <2>2. \A x \in s.rows : SameLink(d, x)
    BY <2>1, PartsLeft DEF SameLink
  <2>3. QED
    BY <1>3, <2>2 DEF Harmless
<1>4. CASE s.op = "write_example"
  <2>1. \A x \in s.rows : SameExample(db, x)
    BY <1>4 DEF Harmless, ProcessOps
  <2>2. \A x \in s.rows : SameExample(d, x)
    BY <2>1, PartsLeft DEF SameExample
  <2>3. QED
    BY <1>4, <2>2 DEF Harmless
<1>5. CASE s.op = "write_dataset"
  <2>1. /\ s.new = Null /\ \A x \in s.rows : RemovesDataset(x)
        /\ s.rows # {} => \E r \in db.word_suggestions : r.existing_word_id = s.existing_id
    BY <1>5 DEF Harmless, ProcessOps
  <2>2. \A r \in db.word_suggestions : \E q \in d.word_suggestions :
            q.existing_word_id = r.existing_word_id
    BY DEF Leaves
  <2>3. s.rows # {} => \E r \in d.word_suggestions : r.existing_word_id = s.existing_id
    BY <2>1, <2>2
  <2>4. QED
    BY <1>5, <2>1, <2>3 DEF Harmless
<1>6. QED
  BY <1>1, <1>2, <1>3, <1>4, <1>5 DEF Harmless

\* A step after which the statements left and the forms are as they were, but for
\* those that do no harm.
Stays == Untouched' /\ PartsUntouched
LEMMA StepUntouched ==
    ASSUME Untouched, Leaves(db'),
           NEW S, Queue' \subseteq Queue \cup S, \A s \in S : Harmless(db, s),
           NEW F, forms' \subseteq forms \cup F, \A f \in F : Shows(db, f)
    PROVE  Stays
<1>1. \A f \in forms' : Shows(db, f)
  BY DEF Untouched
<1>2. \A s \in Queue' : Harmless(db, s)
  BY DEF Untouched
<1>3. PICK d : d = db'
  OBVIOUS
<1>4. \A f \in forms' : Shows(d, f)
  BY <1>1, <1>3, StillShown
<1>5. \A s \in Queue' : Harmless(d, s)
  BY <1>2, <1>3, StillHarmless
<1>6. /\ d.example_suggestions = db.example_suggestions
      /\ Parts(d).links = Parts(db).links
  BY <1>3, PartsLeft
<1>7. /\ PartsFiled(d) /\ Keyed(d.word_suggestions) /\ d.linked_words = db.linked_words
  BY <1>3 DEF Leaves
<1>8. /\ PartsFiled(d) /\ Keyed(d.word_suggestions)
      /\ Keyed(d.example_suggestions) /\ Keyed(d.linked_words)
      /\ \A p, q \in Parts(d).links : p[1] = q[1] => p = q
  BY <1>6, <1>7 DEF Untouched
<1>9. Untouched'
  BY <1>3, <1>4, <1>5, <1>8 DEF Untouched
<1>10. PartsUntouched
  BY DEF PartsUntouched, Leaves
<1>11. QED
  BY <1>9, <1>10 DEF Stays

\* The tables as they are have every part they have.
LEMMA SameLeft ==
    ASSUME Untouched
    PROVE  Leaves(db)
BY DEF Leaves, Untouched

\* A thread has issued a statement and has others to issue before the rest.
LEMMA GoesOnUntouched ==
    ASSUME TypeOK, Untouched, NEW t \in Threads, todo[t] # <<>>,
           NEW X, NEW statements \in Seq(X), NEW about, Continue(t, statements, about),
           forms' = forms, Leaves(db'), \A x \in X : Harmless(db, x)
    PROVE  Stays
<1>1. /\ \A u \in Threads \ {t} : todo'[u] = todo[u]
      /\ Statements(todo'[t]) = Statements(statements) \cup Statements(Tail(todo[t]))
      /\ Statements(statements) \subseteq X
  BY Continued
<1>2. Statements(Tail(todo[t])) \subseteq Statements(todo[t])
  <2>1. todo[t] \in Seq(Statement)
    BY DEF TypeOK
  <2>2. QED
    BY <2>1, StatementsOf
<1>3. Queue' \subseteq Queue \cup X
  BY <1>1, <1>2 DEF Queue
<1>4. PICK F : F = {}
  OBVIOUS
<1>5. PICK S : S = X
  OBVIOUS
<1>6. Queue' \subseteq Queue \cup S /\ \A s \in S : Harmless(db, s)
  BY <1>3, <1>5
<1>7. forms' \subseteq forms \cup F /\ \A f \in F : Shows(db, f)
  BY <1>4
<1>8. QED
  BY <1>6, <1>7, StepUntouched

\* A request that ends issues nothing more.
LEMMA StopUntouched ==
    ASSUME TypeOK, Untouched, NEW t \in Threads, Stop(t)
    PROVE  Stays
<1>1. UNCHANGED <<db, forms>>
  BY DEF Stop
<1>2. /\ \A u \in Threads \ {t} : todo'[u] = todo[u]
      /\ todo'[t] = <<>>
  BY DEF Stop, TypeOK
<1>3. Statements(todo'[t]) = {}
  BY <1>2 DEF Statements
<1>4. Queue' \subseteq Queue
  BY <1>2, <1>3 DEF Queue
<1>5. Leaves(db')
  BY <1>1, SameLeft
<1>6. PICK S : S = {}
  OBVIOUS
<1>7. QED
  BY <1>1, <1>4, <1>5, <1>6, StepUntouched

\* A read goes on with what it read, or the request ends there.
LEMMA ReadUntouched ==
    ASSUME TypeOK, Untouched, NEW t \in Threads, todo[t] # <<>>,
           NEW X, NEW statements \in Seq(X), NEW found, NEW about,
           Read(t, found, statements, about), found => \A x \in X : Harmless(db, x)
    PROVE  Stays
<1>1. CASE found
  <2>1. Continue(t, statements, about) /\ UNCHANGED <<db, forms>>
    BY <1>1 DEF Read
  <2>2. Leaves(db') /\ forms' = forms
    BY <2>1, SameLeft
  <2>3. QED
    BY <1>1, <2>1, <2>2, GoesOnUntouched
<1>2. CASE ~found
  BY <1>2, StopUntouched DEF Read, Refuse
<1>3. QED
  BY <1>1, <1>2

\* A write that leaves every part, or fails.
LEMMA WriteUntouched ==
    ASSUME TypeOK, Untouched, NEW t \in Threads, todo[t] # <<>>, NEW allowed, NEW after,
           NEW X, NEW statements \in Seq(X), Write(t, allowed, after, statements),
           allowed => Leaves(after), \A x \in X : Harmless(db, x)
    PROVE  Stays
<1>1. CASE allowed
  <2>1. PICK about : Continue(t, statements, about)
    BY <1>1 DEF Write
  <2>2. db' = after /\ forms' = forms
    BY <1>1 DEF Write
  <2>3. Leaves(db')
    BY <1>1, <2>2
  <2>4. QED
    BY <2>1, <2>2, <2>3, GoesOnUntouched
<1>2. CASE ~allowed
  BY <1>2, StopUntouched DEF Write, Panic
<1>3. QED
  BY <1>1, <1>2

\* A statement a thread is at does no harm.
LEMMA AtHarmless ==
    ASSUME TypeOK, ThreadsKnown, Untouched, NEW t \in Threads, NEW op, At(t, op)
    PROVE  /\ Current(t) \in Statement /\ Current(t).op = op /\ todo[t] # <<>>
           /\ Harmless(db, Current(t))
<1>1. /\ Current(t) \in Statements(todo[t]) /\ Current(t).op = op
      /\ todo[t] # <<>> /\ Current(t) \in Statement
  BY ProgramAt
<1>2. Current(t) \in Queue
  BY <1>1 DEF Queue
<1>3. QED
  BY <1>1, <1>2 DEF Untouched

\* There are no other statements than those of a submission.
HarmlessOps == {"read_original", "insert_suggestion", "process_linked_words",
                "process_examples", "process_datasets", "write_link", "write_example",
                "write_dataset", "index_put"}
LEMMA OtherStatementsNever ==
    ASSUME TypeOK, ThreadsKnown, Untouched, NEW t \in Threads, NEW op, op \notin HarmlessOps
    PROVE  ~At(t, op)
<1>1. SUFFICES ASSUME At(t, op)
               PROVE  FALSE
  OBVIOUS
<1>2. Current(t).op = op /\ Harmless(db, Current(t))
  BY <1>1, AtHarmless
<1>3. Current(t).op \in HarmlessOps
  BY <1>2 DEF Harmless, HarmlessOps, ProcessOps
<1>4. QED
  BY <1>2, <1>3

-----------------------------------------------------------------------------
(* Pages and requests *)

PagesAndForms == {"edit_word_page", "edit_suggestion_page", "submit_suggestion"}

\* What users send is what the form shows.
LEMMA SentAsShown ==
    ASSUME Edits \subseteq {"word", "new_word"}, NEW form, NEW w \in Submissions(form)
    PROVE  /\ w.suggestion_id = form.suggestion_id /\ w.existing_id = form.existing_id
           /\ w.links = form.links /\ w.examples = form.examples
           /\ w.datasets = form.datasets
<1>1. /\ "drop_link" \notin Edits /\ "retarget_link" \notin Edits /\ "retype_link" \notin Edits
      /\ "add_link" \notin Edits /\ "drop_example" \notin Edits
      /\ "change_example" \notin Edits /\ "add_example" \notin Edits
      /\ "datasets" \notin Edits
  OBVIOUS
<1>2. LinkEdits(form) = {form.links}
  BY <1>1 DEF LinkEdits
<1>3. ExampleEdits(form) = {form.examples}
  BY <1>1 DEF ExampleEdits
<1>4. w \in [suggestion_id: {form.suggestion_id}, existing_id: {form.existing_id},
             links: {form.links}, examples: {form.examples}, datasets: {form.datasets},
             user: Users]
  BY <1>1, <1>2, <1>3 DEF Submissions
<1>5. QED
  BY <1>4

\* What shows the same is shown as well.
LEMMA ShownAlike ==
    ASSUME NEW f, NEW w, Shows(db, f),
           w.suggestion_id = f.suggestion_id, w.existing_id = f.existing_id,
           w.links = f.links, w.examples = f.examples, w.datasets = f.datasets
    PROVE  Shows(db, w)
BY DEF Shows, EditsASuggestion, ShowsWord, ShowsSuggestion, ShowsNothing

LEMMA SubmitUntouched ==
    ASSUME TypeOK, Untouched, Edits \subseteq {"word", "new_word"}, NEW t \in Threads,
           submit_suggestion(t)
    PROVE  Stays
<1>1. PICK form \in forms \cup {NewWordForm} :
          \E w \in Submissions(form) :
              Arrive(t, "submit_suggestion", <<[op |-> "read_original", word |-> w]>>,
                     AboutSubmission(w))
  BY DEF submit_suggestion
<1> PICK w \in Submissions(form) :
          Arrive(t, "submit_suggestion", <<[op |-> "read_original", word |-> w]>>,
                 AboutSubmission(w))
  BY <1>1
<1> DEFINE s == [op |-> "read_original", word |-> w]
           S == {s}
           p == <<s>>
<1>2. s.op = "read_original" /\ s.word = w
  OBVIOUS
<1>3. p \in Seq(S)
  OBVIOUS
<1>4. /\ \A u \in Threads \ {t} : todo'[u] = todo[u]
      /\ todo'[t] = p
      /\ UNCHANGED <<db, forms>>
  BY DEF Arrive, TypeOK
<1> HIDE DEF s, p
<1>5. Shows(db, form)
  <2>1. CASE form \in forms
    BY <2>1 DEF Untouched
  <2>2. CASE form = NewWordForm
    BY <2>2 DEF NewWordForm, Shows, EditsASuggestion, ShowsNothing
  <2>3. QED
    BY <2>1, <2>2
<1>6. Shows(db, w)
  BY <1>5, SentAsShown, ShownAlike
<1>7. \A x \in S : Harmless(db, x)
  BY <1>2, <1>6 DEF Harmless
<1> HIDE DEF S
<1>8. Queue' \subseteq Queue \cup S
  BY <1>3, <1>4, StatementsOf DEF Queue
<1>9. Leaves(db')
  BY <1>4, SameLeft
<1>10. PICK F : F = {}
  OBVIOUS
<1>11. forms' \subseteq forms \cup F
  BY <1>4
<1>12. QED
  BY <1>7, <1>8, <1>9, <1>10, <1>11, StepUntouched

\* Nobody makes other requests.
LEMMA RequestUntouched ==
    ASSUME TypeOK, Untouched, Routes \subseteq PagesAndForms,
           Edits \subseteq {"word", "new_word"}, NEW t \in Threads, Request(t)
    PROVE  Stays
<1>1. \A route, p, about : Arrive(t, route, p, about) => route \in PagesAndForms
  BY DEF Arrive
<1> DEFINE Never(route) == \A p, about : ~Arrive(t, route, p, about)
<1>2. /\ Never("suggest_word_deletion") /\ Never("accept_suggested_word")
      /\ Never("reject_suggested_word") /\ Never("accept_suggested_example")
      /\ Never("reject_suggested_example") /\ Never("accept_linked_word")
      /\ Never("reject_linked_word") /\ Never("accept_dataset_attribution_suggestion")
      /\ Never("reject_dataset_attribution_suggestion") /\ Never("accept_deletion")
      /\ Never("reject_deletion") /\ Never("accept_example_deletion")
      /\ Never("reject_example_deletion") /\ Never("accept_linked_word_deletion")
      /\ Never("reject_linked_word_deletion")
  BY <1>1 DEF PagesAndForms
<1>3. /\ ~suggest_word_deletion(t) /\ ~accept_suggested_word(t) /\ ~reject_suggested_word(t)
      /\ ~accept_suggested_example(t) /\ ~reject_suggested_example(t)
  BY <1>2 DEF suggest_word_deletion, accept_suggested_word, reject_suggested_word,
              accept_suggested_example, reject_suggested_example
<1>4. /\ ~accept_linked_word(t) /\ ~reject_linked_word(t)
      /\ ~accept_dataset_attribution_suggestion(t)
      /\ ~reject_dataset_attribution_suggestion(t)
  BY <1>2 DEF accept_linked_word, reject_linked_word,
              accept_dataset_attribution_suggestion, reject_dataset_attribution_suggestion
<1>5. /\ ~accept_deletion(t) /\ ~reject_deletion(t) /\ ~accept_example_deletion(t)
      /\ ~reject_example_deletion(t) /\ ~accept_linked_word_deletion(t)
      /\ ~reject_linked_word_deletion(t)
  BY <1>2 DEF accept_deletion, reject_deletion, accept_example_deletion,
              reject_example_deletion, accept_linked_word_deletion,
              reject_linked_word_deletion
<1>6. QED
  BY <1>3, <1>4, <1>5, SubmitUntouched DEF Request

LEMMA ShowUntouched ==
    ASSUME Untouched, NEW form, NEW route, Show(route, form), Shows(db, form)
    PROVE  Stays
<1>1. forms' = forms \cup {form} /\ UNCHANGED <<db, todo>>
  BY DEF Show
<1>2. Queue' = Queue
  BY <1>1 DEF Queue
<1>3. Leaves(db')
  BY <1>1, SameLeft
<1>4. PICK S, F : S = {} /\ F = {form}
  OBVIOUS
<1>5. QED
  BY <1>1, <1>2, <1>3, <1>4, StepUntouched

LEMMA CrashUntouched ==
    ASSUME Untouched, Crash
    PROVE  Stays
<1>1. UNCHANGED <<db, forms>>
  BY DEF Crash
<1>2. Queue' = {}
  <2>1. \A t \in Threads : todo'[t] = <<>>
    BY DEF Crash
  <2>2. \A t \in Threads : Statements(todo'[t]) = {}
    BY <2>1 DEF Statements
  <2>3. QED
    BY <2>2 DEF Queue
<1>3. Leaves(db')
  BY <1>1, SameLeft
<1>4. PICK S : S = {}
  OBVIOUS
<1>5. QED
  BY <1>1, <1>2, <1>3, <1>4, StepUntouched

\* The two words that a link is read as being between are all that it names.
LEMMA TwoSides ==
    ASSUME NEW d, NEW r, NamesTwoWords(d, r, FALSE), AtMostTwo(r),
           NEW ends, ends = FirstAndSecond(d, r, FALSE)
    PROVE  Sides(r) = {ends.first, ends.second}
<1> DEFINE ids == NamedWords(d, r, FALSE)
           named == Named(ids)
           i == Least(named)
           j == Least(named \ {i})
<1>1. /\ DOMAIN ids = 1 .. 6
      /\ ids[1] = Existing(r.first_existing_word_id)
      /\ ids[2] = Existing(r.second_existing_word_id)
      /\ ids[3] = Suggested(r.suggested_word_id)
      /\ ids[4] = Suggested(r.second_suggested_word_id)
      /\ ids[5] = Existing(Null) /\ ids[6] = Existing(Null)
  BY DEF NamedWords
<1>2. ends.first = ids[i] /\ ends.second = ids[j]
  BY DEF FirstAndSecond
<1>3. PICK a, b : a \in named /\ b \in named /\ a < b
  BY DEF NamesTwoWords
<1> HIDE DEF ids
<1>4. named \subseteq 1 .. 4 /\ named \subseteq 1 .. 6
  <2>1. ids[5][2] = Null /\ ids[6][2] = Null
    BY <1>1 DEF Existing
  <2>2. QED
    BY <1>1, <2>1 DEF Named
<1>5. \A k \in 1 .. 4 : k \in named <=> ids[k] \notin {Existing(Null), Suggested(Null)}
  <2>1. \A k \in 1 .. 4 : k \in named <=> ids[k][2] # Null
    BY <1>1 DEF Named
  <2>2. \A x : /\ (Existing(x)[2] # Null <=> Existing(x) \notin {Existing(Null), Suggested(Null)})
               /\ (Suggested(x)[2] # Null <=> Suggested(x) \notin {Existing(Null), Suggested(Null)})
    BY DEF Existing, Suggested
  <2>3. QED
    BY <1>1, <2>1, <2>2
<1>6. Sides(r) = {ids[k] : k \in named}
  <2>1. Sides(r) = {ids[1], ids[2], ids[3], ids[4]} \ {Existing(Null), Suggested(Null)}
    BY <1>1 DEF Sides
  <2> HIDE DEF named
  <2>2. QED
    BY <1>4, <1>5, <2>1
<1>7. ASSUME NEW p \in named, NEW q \in named, NEW m \in named
      PROVE  p = q \/ q = m \/ p = m
  <2> DEFINE column == <<"first_existing_word_id", "second_existing_word_id",
                         "suggested_word_id", "second_suggested_word_id">>
  <2>1. /\ column[1] = "first_existing_word_id" /\ column[2] = "second_existing_word_id"
        /\ column[3] = "suggested_word_id" /\ column[4] = "second_suggested_word_id"
    OBVIOUS
  <2> HIDE DEF column
  <2>2. \A k \in 1 .. 4 : column[k] \in WordColumns /\ r[column[k]] = ids[k][2]
    BY <1>1, <2>1 DEF WordColumns, Existing, Suggested
  <2>3. /\ p \in 1 .. 4 /\ q \in 1 .. 4 /\ m \in 1 .. 4
        /\ ids[p][2] # Null /\ ids[q][2] # Null /\ ids[m][2] # Null
    BY <1>4, <1>7 DEF Named
  <2>4. column[p] = column[q] \/ column[q] = column[m] \/ column[p] = column[m]
    BY <2>2, <2>3 DEF AtMostTwo
  <2>5. \A k, l \in 1 .. 4 : column[k] = column[l] => k = l
    BY <2>1
  <2>6. QED
    BY <2>3, <2>4, <2>5
<1> HIDE DEF named
<1>8. i \in named
  BY <1>3, <1>4, LeastType
<1> HIDE DEF i
<1>9. j \in named /\ j # i
  <2>1. named \ {i} \subseteq 1 .. 6
    BY <1>4
  <2>2. named \ {i} # {}
    <3>1. a # b
      BY <1>3, <1>4
    <3>2. QED
      BY <1>3, <3>1
  <2>3. QED
    BY <2>1, <2>2, LeastType
<1> HIDE DEF j
<1>10. named = {i, j}
  BY <1>7, <1>8, <1>9
<1>11. QED
  BY <1>2, <1>6, <1>10

\* The links that the form of a suggestion shows are those that name it.
LEMMA SuggestedLinksShown ==
    ASSUME Untouched, NEW s, s # Null, LinksPopulate(db, s), NEW links,
           links = SuggestedLinkEntries(db, s, Suggested(s))
    PROVE  /\ \A e \in links :
                 \E p \in Parts(db).links :
                     p[1] = e.suggestion_id /\ p[3] = {Suggested(s), e.other}
           /\ \A p \in Parts(db).links :
                 Suggested(s) \in p[3] => \E e \in links : e.suggestion_id = p[1]
<1> DEFINE Other(ends) == IF ends.second = Suggested(s) THEN ends.first ELSE ends.second
           Pair(r) == FirstAndSecond(db, r, FALSE)
           entry(r) == [suggestion_id |-> r.id, existing_id |-> r.existing_linked_word_id,
                        other |-> Other(Pair(r)), retyped |-> FALSE]
<1>1. links = {entry(r) : r \in LinkSuggestionsOf(db, s)}
  BY DEF SuggestedLinkEntries
<1>2. Parts(db).links = {<<r.id, r.existing_linked_word_id, Sides(r)>> :
                            r \in db.linked_word_suggestions}
  BY DEF Parts
<1>3. \A r : entry(r).suggestion_id = r.id /\ entry(r).other = Other(Pair(r))
  OBVIOUS
<1> HIDE DEF entry
<1>4. \A r \in db.linked_word_suggestions :
          r \in LinkSuggestionsOf(db, s) <=> Suggested(s) \in Sides(r)
  BY DEF LinkSuggestionsOf, Sides, Existing, Suggested
<1>5. ASSUME NEW r \in LinkSuggestionsOf(db, s)
      PROVE  Sides(r) = {Suggested(s), Other(Pair(r))} /\ r \in db.linked_word_suggestions
  <2>1. r \in db.linked_word_suggestions /\ NamesTwoWords(db, r, FALSE)
    BY DEF LinkSuggestionsOf, LinksPopulate
  <2>2. AtMostTwo(r)
    BY <2>1 DEF Untouched, PartsFiled, AtMostTwo
  <2>3. PICK ends : ends = Pair(r)
    OBVIOUS
  <2>4. Sides(r) = {ends.first, ends.second}
    BY <2>1, <2>2, <2>3, TwoSides
  <2>5. Suggested(s) \in Sides(r)
    BY <1>4, <2>1
  <2>6. Sides(r) = {Suggested(s), Other(ends)}
    BY <2>4, <2>5
  <2>7. QED
    BY <2>1, <2>3, <2>6
<1> HIDE DEF Other, Pair
<1>6. ASSUME NEW e \in links
      PROVE  \E p \in Parts(db).links :
                 p[1] = e.suggestion_id /\ p[3] = {Suggested(s), e.other}
  <2>1. PICK r \in LinkSuggestionsOf(db, s) : e = entry(r)
    BY <1>1
  <2>2. PICK p : p = <<r.id, r.existing_linked_word_id, Sides(r)>>
    OBVIOUS
  <2>3. p \in Parts(db).links
    BY <1>2, <1>5, <2>2
  <2>4. p[1] = e.suggestion_id /\ p[3] = {Suggested(s), e.other}
    BY <1>3, <1>5, <2>1, <2>2
  <2>5. QED
    BY <2>3, <2>4
<1>7. ASSUME NEW p \in Parts(db).links, Suggested(s) \in p[3]
      PROVE  \E e \in links : e.suggestion_id = p[1]
  <2>1. PICK r \in db.linked_word_suggestions :
            p = <<r.id, r.existing_linked_word_id, Sides(r)>>
    BY <1>2
  <2>2. r \in LinkSuggestionsOf(db, s)
    BY <1>4, <1>7, <2>1
  <2>3. entry(r) \in links
    BY <1>1, <2>2
  <2>4. QED
    BY <1>3, <2>1, <2>3
<1>8. QED
  BY <1>6, <1>7

\* Nothing is suggested with an edit of a word.
LEMMA EditsHaveNoParts ==
    ASSUME Untouched, NEW row \in db.word_suggestions, row.existing_word_id # Null
    PROVE  /\ LinkSuggestionsOf(db, row.id) = {} /\ ExampleSuggestionsOf(db, row.id) = {}
           /\ DatasetSuggestionsOf(db, row.id) = {}
<1> DEFINE New(s) == \A r \in db.word_suggestions : r.id = s => r.existing_word_id = Null
<1>1. /\ \A r \in db.linked_word_suggestions :
             New(r.suggested_word_id) /\ New(r.second_suggested_word_id)
      /\ \A r \in db.example_suggestions : New(r.suggested_word_id)
      /\ \A r \in db.dataset_attribution_suggestions : New(r.suggested_word_id)
  BY DEF Untouched, PartsFiled
<1>2. ~New(row.id)
  OBVIOUS
<1> HIDE DEF New
<1>3. QED
  BY <1>1, <1>2 DEF LinkSuggestionsOf, ExampleSuggestionsOf, DatasetSuggestionsOf

LEMMA PagesUntouched ==
    ASSUME TypeOK, Untouched, edit_word_page \/ edit_suggestion_page
    PROVE  Stays
<1>1. CASE edit_word_page
  <2>1. PICK w \in 1 .. db.seq["words"] : Show("edit_word_page", FormOfWord(db, w))
    BY <1>1 DEF edit_word_page
  <2>2. w # Null
    BY DEF Null
  <2>3. PICK form : form = FormOfWord(db, w)
    OBVIOUS
  <2>4. /\ form.existing_id = w /\ form.suggestion_id = Null
        /\ form.links = ExistingLinkEntries(db, w)
        /\ form.examples = ExistingExampleEntries(db, w)
        /\ form.datasets = {r[2] : r \in {q \in db.dataset_attributions : q[1] = w}}
    BY <2>3 DEF FormOfWord
  <2>5. form.datasets = {x \in Datasets : <<w, x>> \in db.dataset_attributions}
    <3>1. db.dataset_attributions \subseteq Id \X Datasets
      BY DEF TypeOK, Database
    <3> DEFINE A == db.dataset_attributions
    <3> HIDE DEF A
    <3>2. {r[2] : r \in {q \in A : q[1] = w}} = {x \in Datasets : <<w, x>> \in A}
      BY <3>1 DEF A
    <3>3. QED
      BY <2>4, <3>2 DEF A
  <2>6. Shows(db, form)
    BY <2>2, <2>4, <2>5 DEF Shows, EditsASuggestion, ShowsWord
  <2>7. QED
    BY <2>1, <2>3, <2>6, ShowUntouched
<1>2. CASE edit_suggestion_page
  <2>1. PICK row \in db.word_suggestions :
            LinksPopulate(db, row.id) /\ Show("edit_suggestion_page", FormOfSuggestion(db, row))
    BY <1>2 DEF edit_suggestion_page
  <2>2. PICK form : form = FormOfSuggestion(db, row)
    OBVIOUS
  <2>3. PICK w : w = row.existing_word_id
    OBVIOUS
  <2>4. PICK this : this = IF w = Null THEN Suggested(row.id) ELSE Existing(w)
    OBVIOUS
  <2>5. /\ form.existing_id = w /\ form.suggestion_id = row.id
        /\ form.links = SuggestedLinkEntries(db, row.id, this) \cup
                        (IF w = Null THEN {} ELSE ExistingLinkEntries(db, w))
        /\ form.examples = SuggestedExampleEntries(db, row.id) \cup
                           (IF w = Null THEN {} ELSE ExistingExampleEntries(db, w))
        /\ form.datasets = DatasetsOf(db, row.id)
    BY <2>2, <2>3, <2>4 DEF FormOfSuggestion, DatasetsOf
  <2>6. row.id # Null
    BY DEF TypeOK, Database, WordSuggestionRow, Id
  <2>7. EditsASuggestion(db, form)
    BY <2>3, <2>5 DEF EditsASuggestion
  <2>8. ASSUME w = Null
        PROVE  Shows(db, form)
    <3>1. /\ form.links = SuggestedLinkEntries(db, row.id, Suggested(row.id))
          /\ form.examples = SuggestedExampleEntries(db, row.id)
      BY <2>4, <2>5, <2>8
    <3>2. ShowsSuggestion(db, form)
      BY <2>1, <2>5, <2>6, <3>1, SuggestedLinksShown DEF ShowsSuggestion
    <3>3. QED
      BY <2>5, <2>6, <2>7, <2>8, <3>2 DEF Shows
  <2>9. ASSUME w # Null
        PROVE  Shows(db, form)
    <3>1. /\ SuggestedLinkEntries(db, row.id, this) = {}
          /\ SuggestedExampleEntries(db, row.id) = {} /\ DatasetsOf(db, row.id) = {}
      BY <2>3, <2>9, EditsHaveNoParts
         DEF SuggestedLinkEntries, SuggestedExampleEntries, DatasetsOf
    <3>2. /\ form.links = ExistingLinkEntries(db, w)
          /\ form.examples = ExistingExampleEntries(db, w)
          /\ form.datasets = {}
      BY <2>5, <2>9, <3>1
    <3>3. ShowsWord(db, form)
      BY <2>3, <2>5, <3>2 DEF ShowsWord
    <3>4. QED
      BY <2>5, <2>7, <2>9, <3>3 DEF Shows
  <2>10. Shows(db, form)
    BY <2>8, <2>9
  <2>11. QED
    BY <2>1, <2>2, <2>10, ShowUntouched
<1>3. QED
  BY <1>1, <1>2

-----------------------------------------------------------------------------
(* The suggestion *)

LEMMA ReadOriginalUntouched ==
    ASSUME TypeOK, ThreadsKnown, Untouched, NEW t \in Threads, read_original(t)
    PROVE  Stays
<1>1. At(t, "read_original")
  BY DEF read_original
<1>2. PICK w : w = Current(t).word
  OBVIOUS
<1>3. PICK allowed, found, changed :
          /\ Read(t, allowed, <<[op |-> "insert_suggestion", word |-> w, found |-> found,
                                 changed |-> changed]>>, {})
          /\ w.suggestion_id \notin Ids(db.word_suggestions) /\ w.existing_id \notin db.words
                => changed
  BY <1>2 DEF read_original
<1> DEFINE s == [op |-> "insert_suggestion", word |-> w, found |-> found, changed |-> changed]
           p == <<s>>
           X == {s}
           about == {}
<1>4. /\ s.op = "insert_suggestion" /\ s.word = w /\ s.changed = changed
      /\ Read(t, allowed, p, about) /\ p \in Seq(X)
  BY <1>3
<1> HIDE DEF s, p, about
<1>5. Shows(db, w) /\ todo[t] # <<>>
  BY <1>1, <1>2, AtHarmless DEF Harmless, ProcessOps
<1>6. Null \notin Ids(db.word_suggestions) /\ Null \notin db.words
  BY DEF TypeOK, Database, WordSuggestionRow, Ids, Id
<1>7. w.existing_id = Null /\ w.suggestion_id = Null => s.changed
  BY <1>3, <1>4, <1>6
<1>8. \A x \in X : Harmless(db, x)
  BY <1>4, <1>5, <1>7 DEF Harmless
<1> HIDE DEF X
<1>9. QED
  BY <1>4, <1>5, <1>8, ReadUntouched

\* The parts are processed for the suggestion that they are of.
LEMMA AfterInsertHarmless ==
    ASSUME NEW c, NEW s, Shows(db, c.word),
           c.word.existing_id = Null =>
               /\ s # Null /\ (c.word.suggestion_id # Null => s = c.word.suggestion_id)
               /\ c.word.datasets = DatasetsOf(db, s)
    PROVE  \E X : AfterInsert(c, s) \in Seq(X) /\ \A x \in X : Harmless(db, x)
<1> DEFINE new == IF c.word.existing_id = Null THEN s ELSE Null
           indexed == new # Null /\ (~c.found \/ c.changed)
           put == IndexPut(Suggested(new))
           links == [op |-> "process_linked_words", word |-> c.word, new |-> new]
           examples == [op |-> "process_examples", word |-> c.word, new |-> new]
           datasets == [op |-> "process_datasets", word |-> c.word, new |-> new]
           first == IF indexed THEN <<put>> ELSE <<>>
           X == {put, links, examples, datasets}
<1>1. AfterInsert(c, s) = first \o <<links, examples, datasets>>
  BY DEF AfterInsert, ProcessParts
<1>2. \A x \in {links, examples, datasets} :
          x.op \in ProcessOps /\ x.word = c.word /\ x.new = new
  BY DEF ProcessOps
<1>3. GoesTo(db, c.word, new)
  BY DEF GoesTo
<1>4. Harmless(db, put)
  <2>1. put.op = "index_put"
    BY DEF IndexPut
  <2>2. QED
    BY <2>1 DEF Harmless
<1> HIDE DEF put, links, examples, datasets, indexed, new
<1>5. \A x \in X : Harmless(db, x)
  <2>1. \A x \in {links, examples, datasets} : Harmless(db, x)
    BY <1>2, <1>3 DEF Harmless
  <2>2. QED
    BY <1>4, <2>1
<1>6. first \in Seq(X) /\ <<links, examples, datasets>> \in Seq(X)
  <2>1. put \in X /\ links \in X /\ examples \in X /\ datasets \in X
    OBVIOUS
  <2> HIDE DEF X
  <2>2. <<>> \in Seq(X) /\ <<put>> \in Seq(X) /\ <<links, examples, datasets>> \in Seq(X)
    BY <2>1
  <2>3. QED
    BY <2>2
<1> HIDE DEF first, X
<1>7. first \o <<links, examples, datasets>> \in Seq(X)
  BY <1>6
<1>8. QED
  BY <1>1, <1>5, <1>7

\* Nothing is suggested with a suggestion that is still to come.
LEMMA NothingOfTheNext ==
    ASSUME TypeOK, References, IdsPassed,
           NEW s, s = db.seq["word_suggestions"] + 1
    PROVE  /\ s # Null /\ s \notin Ids(db.word_suggestions)
           /\ \A r \in db.example_suggestions : r.suggested_word_id # s
           /\ \A r \in db.dataset_attribution_suggestions : r.suggested_word_id # s
           /\ \A r \in db.linked_word_suggestions :
                 r.suggested_word_id # s /\ r.second_suggested_word_id # s
<1>1. db.seq["word_suggestions"] \in Nat
  BY DEF TypeOK, Database, AutoIncrement
<1>2. s # Null /\ s \notin Ids(db.word_suggestions)
  <2>1. \A r \in db.word_suggestions : r.id \in Nat /\ r.id <= db.seq["word_suggestions"]
    BY DEF TypeOK, Database, WordSuggestionRow, Id, IdsPassed
  <2>2. QED
    BY <1>1, <2>1 DEF Ids, Null
<1>3. QED
  BY <1>2 DEF References, ForeignKeysHold, ExampleSuggestionOk, DatasetSuggestionOk,
              LinkedWordSuggestionOk, Refers

\* The row of a suggestion is written with the word it had, or comes new.
LEMMA PutSuggestionLeaves ==
    ASSUME TypeOK, References, IdsPassed, Untouched, NEW row,
           \/ row.id = db.seq["word_suggestions"] + 1
           \/ \E r \in db.word_suggestions :
                 r.id = row.id /\ r.existing_word_id = row.existing_word_id,
           NEW seq, NEW d, d = [db EXCEPT !.word_suggestions = Put(@, row), !.seq = seq]
    PROVE  Leaves(d)
<1>1. /\ d.word_suggestions = {r \in db.word_suggestions : r.id # row.id} \cup {row}
      /\ d.examples = db.examples /\ d.linked_words = db.linked_words
      /\ d.dataset_attributions = db.dataset_attributions
      /\ d.dataset_attribution_suggestions = db.dataset_attribution_suggestions
      /\ d.example_suggestions = db.example_suggestions
      /\ d.linked_word_suggestions = db.linked_word_suggestions
      /\ d.word_deletion_suggestions = db.word_deletion_suggestions
      /\ d.example_deletion_suggestions = db.example_deletion_suggestions
      /\ d.linked_word_deletion_suggestions = db.linked_word_deletion_suggestions
  BY DEF TypeOK, Database, Put
<1>2. Parts(d) = Parts(db)
  BY <1>1 DEF Parts
<1>3. Keyed(db.word_suggestions) /\ PartsFiled(db)
  BY DEF Untouched
<1>4. Keyed(d.word_suggestions)
  BY <1>1, <1>3 DEF Keyed
<1>5. \A r \in db.word_suggestions :
          r.id = row.id => r.existing_word_id = row.existing_word_id
  <2>1. row.id = db.seq["word_suggestions"] + 1 => row.id \notin Ids(db.word_suggestions)
    BY NothingOfTheNext
  <2>2. QED
    BY <1>3, <2>1 DEF Keyed, Ids
<1>6. \A r \in db.word_suggestions :
          \E q \in d.word_suggestions : q.id = r.id /\ q.existing_word_id = r.existing_word_id
  BY <1>1, <1>5
<1> DEFINE New(e, s) == \A r \in e.word_suggestions : r.id = s => r.existing_word_id = Null
<1>7. ASSUME NEW s, New(db, s), s = Null \/ s \in Ids(db.word_suggestions)
      PROVE  New(d, s)
  <2>1. CASE row.id = db.seq["word_suggestions"] + 1
    <3>1. row.id # Null /\ row.id \notin Ids(db.word_suggestions)
      BY <2>1, NothingOfTheNext
    <3>2. QED
      BY <1>1, <1>7, <3>1
  <2>2. CASE \E r \in db.word_suggestions :
                 r.id = row.id /\ r.existing_word_id = row.existing_word_id
    BY <1>1, <1>7, <2>2
  <2>3. QED
    BY <2>1, <2>2
<1>8. /\ \A r \in db.example_suggestions :
             r.suggested_word_id = Null \/ r.suggested_word_id \in Ids(db.word_suggestions)
      /\ \A r \in db.dataset_attribution_suggestions :
             r.suggested_word_id = Null \/ r.suggested_word_id \in Ids(db.word_suggestions)
      /\ \A r \in db.linked_word_suggestions :
             /\ r.suggested_word_id = Null \/ r.suggested_word_id \in Ids(db.word_suggestions)
             /\ \/ r.second_suggested_word_id = Null
                \/ r.second_suggested_word_id \in Ids(db.word_suggestions)
  BY DEF References, ForeignKeysHold, ExampleSuggestionOk, DatasetSuggestionOk,
         LinkedWordSuggestionOk, Refers
<1>9. PartsFiled(d)
  <2>1. /\ \A r \in db.example_suggestions :
               /\ New(db, r.suggested_word_id)
               /\ r.suggested_word_id # Null => r.existing_word_id = Null
        /\ \A r \in db.dataset_attribution_suggestions : New(db, r.suggested_word_id)
        /\ \A r \in db.linked_word_suggestions :
               /\ New(db, r.suggested_word_id) /\ New(db, r.second_suggested_word_id)
               /\ AtMostTwo(r)
    BY <1>3 DEF PartsFiled, AtMostTwo
  <2> HIDE DEF New
  <2>2. /\ \A r \in d.example_suggestions :
               /\ New(d, r.suggested_word_id)
               /\ r.suggested_word_id # Null => r.existing_word_id = Null
        /\ \A r \in d.dataset_attribution_suggestions : New(d, r.suggested_word_id)
        /\ \A r \in d.linked_word_suggestions :
               /\ New(d, r.suggested_word_id) /\ New(d, r.second_suggested_word_id)
               /\ AtMostTwo(r)
    BY <1>1, <1>7, <1>8, <2>1
  <2>3. QED
    BY <2>2 DEF PartsFiled, AtMostTwo, New
<1>10. QED
  BY <1>1, <1>2, <1>4, <1>6, <1>9 DEF Leaves

LEMMA InsertSuggestionUntouched ==
    ASSUME TypeOK, References, IdsPassed, ThreadsKnown, Untouched, NEW t \in Threads,
           insert_suggestion(t)
    PROVE  Stays
<1>1. At(t, "insert_suggestion")
  BY DEF insert_suggestion
<1>2. PICK c : c = Current(t)
  OBVIOUS
<1>3. PICK w : w = c.word
  OBVIOUS
<1>4. /\ Shows(db, w) /\ todo[t] # <<>>
      /\ w.existing_id = Null /\ w.suggestion_id = Null => c.changed
  BY <1>1, <1>2, <1>3, AtHarmless DEF Harmless, ProcessOps
<1>5. PICK s, user :
          /\ s = KeyOrNext(db, "word_suggestions", w.suggestion_id)
          /\ \/ ~c.changed /\ Read(t, TRUE, AfterInsert(c, w.suggestion_id), {})
             \/ Refuse(t)
             \/ /\ db' = [db EXCEPT
                             !.word_suggestions =
                                 Put(@, [id |-> s, existing_word_id |-> w.existing_id,
                                         user |-> user]),
                             !.seq = Bump(@, "word_suggestions", s)]
                /\ Continue(t, AfterInsert(c, s), {Suggested(s)})
                /\ UNCHANGED forms
  BY <1>2, <1>3 DEF insert_suggestion
<1>6. ASSUME w.existing_id = Null, w.suggestion_id # Null
      PROVE  w.datasets = DatasetsOf(db, w.suggestion_id)
  BY <1>4, <1>6 DEF Shows, ShowsSuggestion
<1>7. CASE ~c.changed /\ Read(t, TRUE, AfterInsert(c, w.suggestion_id), {})
  <2>1. PICK X : AfterInsert(c, w.suggestion_id) \in Seq(X) /\ \A x \in X : Harmless(db, x)
    <3>1. w.existing_id = Null => w.suggestion_id # Null
      BY <1>4, <1>7
    <3>2. QED
      BY <1>3, <1>4, <1>6, <3>1, AfterInsertHarmless
  <2>2. QED
    BY <1>4, <1>7, <2>1, ReadUntouched
<1>8. CASE /\ db' = [db EXCEPT
                        !.word_suggestions =
                            Put(@, [id |-> s, existing_word_id |-> w.existing_id,
                                    user |-> user]),
                        !.seq = Bump(@, "word_suggestions", s)]
           /\ Continue(t, AfterInsert(c, s), {Suggested(s)})
           /\ UNCHANGED forms
  <2> DEFINE row == [id |-> s, existing_word_id |-> w.existing_id, user |-> user]
             seq == Bump(db.seq, "word_suggestions", s)
             d == [db EXCEPT !.word_suggestions = Put(@, row), !.seq = seq]
  <2>1. row.id = s /\ row.existing_word_id = w.existing_id /\ db' = d
    BY <1>8
  <2> HIDE DEF row, seq
  <2>2. s = IF w.suggestion_id = Null THEN db.seq["word_suggestions"] + 1 ELSE w.suggestion_id
    BY <1>5 DEF KeyOrNext
  <2>3. \/ row.id = db.seq["word_suggestions"] + 1
        \/ \E r \in db.word_suggestions :
              r.id = row.id /\ r.existing_word_id = row.existing_word_id
    BY <1>4, <2>1, <2>2 DEF Shows, EditsASuggestion
  <2>4. Leaves(db')
    <3>1. Leaves(d)
      BY <2>3, PutSuggestionLeaves
    <3>2. QED
      BY <2>1, <3>1
  <2>5. w.existing_id = Null =>
            /\ s # Null /\ (w.suggestion_id # Null => s = w.suggestion_id)
            /\ w.datasets = DatasetsOf(db, s)
    <3>1. ASSUME w.existing_id = Null, w.suggestion_id = Null
          PROVE  s # Null /\ w.datasets = DatasetsOf(db, s)
      <4>1. w.datasets = {}
        BY <1>4, <3>1 DEF Shows, ShowsNothing
      <4>2. s # Null /\ DatasetSuggestionsOf(db, s) = {}
        BY <2>2, <3>1, NothingOfTheNext DEF DatasetSuggestionsOf
      <4>3. QED
        BY <4>1, <4>2 DEF DatasetsOf
    <3>2. QED
      BY <1>6, <2>2, <3>1
  <2>6. PICK X : AfterInsert(c, s) \in Seq(X) /\ \A x \in X : Harmless(db, x)
    BY <1>3, <1>4, <2>5, AfterInsertHarmless
  <2>7. PICK about : Continue(t, AfterInsert(c, s), about)
    BY <1>8
  <2>8. forms' = forms
    BY <1>8
  <2>9. QED
    BY <1>4, <2>4, <2>6, <2>7, <2>8, GoesOnUntouched
<1>9. QED
  BY <1>5, <1>7, <1>8, StopUntouched DEF Refuse

-----------------------------------------------------------------------------
(* The parts *)

\* What is left when the parts of one kind have been read is two loops.
LEMMA LoopsUntouched ==
    ASSUME TypeOK, Untouched, NEW t \in Threads, todo[t] # <<>>, NEW c, NEW S, NEW T,
           Harmless(db, [c EXCEPT !.rows = S]), Harmless(db, [c EXCEPT !.rows = T]),
           Read(t, TRUE, Loop(c, S) \o Loop(c, T), {})
    PROVE  Stays
<1> DEFINE x == [c EXCEPT !.rows = S]
           y == [c EXCEPT !.rows = T]
           X == {x, y}
           p == Loop(c, S) \o Loop(c, T)
           about == {}
<1>1. Loop(c, S) \in Seq({x}) /\ Loop(c, T) \in Seq({y})
  BY LoopStatements
<1>2. Harmless(db, x) /\ Harmless(db, y)
  OBVIOUS
<1> HIDE DEF x, y
<1>3. p \in Seq(X)
  <2> DEFINE q == Loop(c, S)
             r == Loop(c, T)
  <2>1. q \in Seq(X) /\ r \in Seq(X)
    BY <1>1
  <2> HIDE DEF q, r, X
  <2>2. q \o r \in Seq(X)
    BY <2>1
  <2>3. QED
    BY <2>2 DEF q, r
<1>4. \A s \in X : Harmless(db, s)
  BY <1>2
<1>5. Read(t, TRUE, p, about)
  OBVIOUS
<1> HIDE DEF p, X, about
<1>6. QED
  BY <1>3, <1>4, <1>5, ReadUntouched

\* The word of a submission, at every statement that processes a part of it.
LEMMA AtPart ==
    ASSUME TypeOK, ThreadsKnown, Untouched, NEW t \in Threads, NEW op \in ProcessOps,
           At(t, op), NEW c, c = Current(t)
    PROVE  /\ todo[t] # <<>> /\ c.word \in WordSubmission
           /\ Shows(db, c.word) /\ GoesTo(db, c.word, c.new)
<1>1. Harmless(db, c) /\ c.op = op /\ todo[t] # <<>>
  BY AtHarmless
<1>2. c \in SubmitStatement
  BY AtSubmit DEF ProcessOps
<1>3. c.word \in WordSubmission
  BY <1>1, <1>2 DEF SubmitStatement, ProcessOps
<1>4. QED
  BY <1>1, <1>3 DEF Harmless, ProcessOps

\* No link of a word differs from what the form shows of it.
LEMMA LinksOfWordSame ==
    ASSUME Untouched, NEW w, ShowsWord(db, w)
    PROVE  LinksOfWord(w).writes = {} /\ w.links \subseteq LinksOfWord(w).kept
<1> DEFINE this == w.existing_id
           prev == LinksOf(db, this)
           kept == {e \in w.links : e.existing_id \in Ids(prev)}
           Old(e) == RowOf(prev, e.existing_id)
           differs == {e \in kept : e.retyped \/ e.other # Existing(OtherWord(Old(e), this))}
           Changed(e, old) == IF e.other = Existing(old) THEN Nothing ELSE e.other
           Edit(e) == IF this = Old(e).first_word_id
                      THEN LinkSuggestion(e, w.user, Nothing,
                                          Changed(e, Old(e).second_word_id))
                      ELSE LinkSuggestion(e, w.user, Changed(e, Old(e).first_word_id), Nothing)
           missing == {q \in prev : \A e \in w.links : e.existing_id # q.id}
           entry(l) == [suggestion_id |-> Null, existing_id |-> l.id,
                        other |-> Existing(OtherWord(l, this)), retyped |-> FALSE]
<1>1. /\ LinksOfWord(w).writes = {Edit(e) : e \in differs}
                                 \cup {SuggestDeletion(l.id) : l \in missing}
      /\ LinksOfWord(w).kept = kept
  BY DEF LinksOfWord
<1>2. w.links = {entry(l) : l \in prev}
  BY DEF ShowsWord, ExistingLinkEntries
<1>3. \A l : /\ entry(l).existing_id = l.id /\ ~entry(l).retyped
             /\ entry(l).other = Existing(OtherWord(l, this))
  OBVIOUS
<1> HIDE DEF entry, Edit
<1>4. \A l \in prev : RowOf(prev, l.id) = l
  <2>1. Keyed(prev)
    BY DEF Untouched, Keyed, LinksOf
  <2>2. QED
    BY <2>1 DEF Keyed, RowOf
<1>5. w.links \subseteq kept
  BY <1>2, <1>3 DEF Ids
<1>6. differs = {}
  BY <1>2, <1>3, <1>4
<1>7. missing = {}
  BY <1>2, <1>3
<1>8. QED
  BY <1>1, <1>5, <1>6, <1>7

\* The links of a suggestion are written again as they are.
LEMMA LinksOfSuggestionSame ==
    ASSUME Untouched, NEW w \in WordSubmission, ShowsSuggestion(db, w), w.suggestion_id # Null
    PROVE  /\ \A x \in LinksOfSuggestion(w).writes : SameLink(db, x)
           /\ w.links \subseteq LinksOfSuggestion(w).kept
<1> DEFINE s == w.suggestion_id
           prev == LinkSuggestionsOf(db, s)
           kept == {e \in w.links : e.suggestion_id \in Ids(prev)}
           again == {LinkSuggestion(e, w.user, Suggested(s), e.other) : e \in kept}
           missing == {q \in prev : \A e \in w.links : e.suggestion_id # q.id}
<1>1. /\ LinksOfSuggestion(w).writes = again \cup {Delete(r.id) : r \in missing}
      /\ LinksOfSuggestion(w).kept = kept
  BY DEF LinksOfSuggestion
<1>2. \A r \in db.linked_word_suggestions :
          /\ r \in prev <=> Suggested(s) \in Sides(r)
          /\ \E p \in Parts(db).links : p[1] = r.id /\ p[3] = Sides(r)
  <2>1. ASSUME NEW r \in db.linked_word_suggestions
        PROVE  \E p \in Parts(db).links : p[1] = r.id /\ p[3] = Sides(r)
    <3>1. PICK p : p = <<r.id, r.existing_linked_word_id, Sides(r)>>
      OBVIOUS
    <3>2. p \in Parts(db).links
      BY <3>1 DEF Parts
    <3>3. QED
      BY <3>1, <3>2
  <2>2. \A r \in db.linked_word_suggestions : r \in prev <=> Suggested(s) \in Sides(r)
    BY DEF LinkSuggestionsOf, Sides, Existing, Suggested
  <2>3. QED
    BY <2>1, <2>2
<1>3. \A p \in Parts(db).links :
          \E r \in db.linked_word_suggestions : p[1] = r.id /\ p[3] = Sides(r)
  BY DEF Parts
<1>4. /\ \A e \in w.links :
             \E p \in Parts(db).links : p[1] = e.suggestion_id /\ p[3] = {Suggested(s), e.other}
      /\ \A p \in Parts(db).links :
             Suggested(s) \in p[3] => \E e \in w.links : e.suggestion_id = p[1]
  BY DEF ShowsSuggestion
<1>5. prev \subseteq db.linked_word_suggestions
  BY DEF LinkSuggestionsOf
<1> HIDE DEF prev
<1>6. missing = {}
  BY <1>2, <1>4, <1>5
<1>7. w.links \subseteq kept
  <2>1. ASSUME NEW e \in w.links
        PROVE  e.suggestion_id \in Ids(prev)
    <3>1. PICK p \in Parts(db).links : p[1] = e.suggestion_id /\ p[3] = {Suggested(s), e.other}
      BY <1>4
    <3>2. PICK r \in db.linked_word_suggestions : p[1] = r.id /\ p[3] = Sides(r)
      BY <1>3
    <3>3. r \in prev
      BY <1>2, <3>1, <3>2
    <3>4. QED
      BY <3>1, <3>2, <3>3 DEF Ids
  <2>2. QED
    BY <2>1
<1>8. ASSUME NEW e \in w.links
      PROVE  SameLink(db, LinkSuggestion(e, w.user, Suggested(s), e.other))
  <2> DEFINE r == [id |-> e.suggestion_id, existing_linked_word_id |-> e.existing_id,
                   first_existing_word_id |-> IntoExisting(Suggested(s)),
                   second_existing_word_id |-> IntoExisting(e.other),
                   suggested_word_id |-> IntoSuggested(Suggested(s)),
                   second_suggested_word_id |-> IntoSuggested(e.other), user |-> w.user]
             x == LinkSuggestion(e, w.user, Suggested(s), e.other)
  <2>1. x.do = "upsert" /\ x.row = r
    BY DEF LinkSuggestion, Upsert
  <2> HIDE DEF x
  <2>2. /\ r.id = e.suggestion_id
        /\ r.first_existing_word_id = Null /\ r.suggested_word_id = s
        /\ r.second_existing_word_id = IntoExisting(e.other)
        /\ r.second_suggested_word_id = IntoSuggested(e.other)
    BY DEF IntoExisting, IntoSuggested, Suggested
  <2> HIDE DEF r
  <2>3. PICK kind \in {"existing", "suggested"}, other \in Id : e.other = <<kind, other>>
    BY DEF WordSubmission, LinkEntry, WordOrSuggestionId
  <2>4. AtMostTwo(r)
    <3>1. r.second_existing_word_id = Null \/ r.second_suggested_word_id = Null
      BY <2>2 DEF IntoExisting, IntoSuggested
    <3>2. QED
      BY <2>2, <3>1 DEF AtMostTwo, WordColumns
  <2>5. Sides(r) = {Suggested(s), e.other}
    <3>1. other # Null
      BY DEF Id
    <3>2. CASE kind = "existing"
      <4>1. r.second_existing_word_id = other /\ r.second_suggested_word_id = Null
        BY <2>2, <2>3, <3>2 DEF IntoExisting, IntoSuggested
      <4>2. QED
        BY <2>2, <2>3, <3>1, <3>2, <4>1 DEF Sides, Existing, Suggested
    <3>3. CASE kind = "suggested"
      <4>1. r.second_existing_word_id = Null /\ r.second_suggested_word_id = other
        BY <2>2, <2>3, <3>3 DEF IntoExisting, IntoSuggested
      <4>2. QED
        BY <2>2, <2>3, <3>1, <3>3, <4>1 DEF Sides, Existing, Suggested
    <3>4. QED
      BY <3>2, <3>3
  <2>6. SameLink(db, x)
    BY <1>4, <2>1, <2>2, <2>4, <2>5 DEF SameLink
  <2>7. QED
    BY <2>6 DEF x
<1>9. \A x \in again : SameLink(db, x)
  BY <1>8
<1>10. QED
  BY <1>1, <1>6, <1>7, <1>9

LEMMA ProcessLinksUntouched ==
    ASSUME TypeOK, ThreadsKnown, Untouched, NEW t \in Threads, process_linked_words(t)
    PROVE  Stays
<1>1. At(t, "process_linked_words") /\ "process_linked_words" \in ProcessOps
  BY DEF process_linked_words, ProcessOps
<1>2. PICK c : c = Current(t)
  OBVIOUS
<1>3. PICK w : w = c.word
  OBVIOUS
<1>4. w \in WordSubmission /\ Shows(db, w) /\ todo[t] # <<>>
  BY <1>1, <1>2, <1>3, AtPart
<1> DEFINE old == IF w.existing_id # Null THEN LinksOfWord(w)
                  ELSE IF w.suggestion_id # Null THEN LinksOfSuggestion(w)
                  ELSE [kept |-> {}, writes |-> {}]
           this == IF w.existing_id # Null THEN Existing(w.existing_id) ELSE Suggested(c.new)
           added == {LinkSuggestion(e, w.user, this, e.other) : e \in w.links \ old.kept}
           s == [op |-> "write_link", rows |-> {}]
<1>5. Panic(t) \/ Read(t, TRUE, Loop(s, old.writes) \o Loop(s, added), {})
  BY <1>2, <1>3 DEF process_linked_words
<1>6. (\A x \in old.writes : SameLink(db, x)) /\ w.links \subseteq old.kept
  <2>1. CASE w.existing_id # Null
    <3>1. ShowsWord(db, w)
      BY <1>4, <2>1 DEF Shows
    <3>2. QED
      BY <2>1, <3>1, LinksOfWordSame
  <2>2. CASE w.existing_id = Null /\ w.suggestion_id # Null
    <3>1. ShowsSuggestion(db, w)
      BY <1>4, <2>2 DEF Shows
    <3>2. QED
      BY <1>4, <2>2, <3>1, LinksOfSuggestionSame
  <2>3. CASE w.existing_id = Null /\ w.suggestion_id = Null
    <3>1. w.links = {}
      BY <1>4, <2>3 DEF Shows, ShowsNothing
    <3>2. QED
      BY <2>3, <3>1
  <2>4. QED
    BY <2>1, <2>2, <2>3
<1>7. CASE Read(t, TRUE, Loop(s, old.writes) \o Loop(s, added), {})
  <2>1. \A x \in added : SameLink(db, x)
    <3> HIDE DEF old
    <3>1. QED
      BY <1>6
  <2> DEFINE S == old.writes
  <2> HIDE DEF added
  <2>2. \A T : /\ [s EXCEPT !.rows = T].op = "write_link"
               /\ [s EXCEPT !.rows = T].rows = T
    OBVIOUS
  <2>3. Read(t, TRUE, Loop(s, S) \o Loop(s, added), {}) /\ \A x \in S : SameLink(db, x)
    BY <1>6, <1>7
  <2> HIDE DEF S, s
  <2>4. Harmless(db, [s EXCEPT !.rows = S]) /\ Harmless(db, [s EXCEPT !.rows = added])
    BY <2>1, <2>2, <2>3 DEF Harmless
  <2>5. QED
    BY <1>4, <2>3, <2>4, LoopsUntouched
<1>8. QED
  BY <1>5, <1>7, StopUntouched DEF Panic

\* No example of a word differs from what the form shows of it, and those of a
\* suggestion are written again as they are.
LEMMA ExamplesOfWordSame ==
    ASSUME NEW w, ShowsWord(db, w)
    PROVE  ExamplesOfWord(w).writes = {} /\ w.examples \subseteq ExamplesOfWord(w).kept
<1> DEFINE prev == {x \in db.examples : x.word_id = w.existing_id}
           kept == {e \in w.examples : e.existing_id \in Ids(prev)}
           changed == {q \in kept : q.changed}
           missing == {q \in prev : \A e \in w.examples : e.existing_id # q.id}
           entry(x) == [suggestion_id |-> Null, existing_id |-> x.id, changed |-> FALSE]
<1>1. /\ ExamplesOfWord(w).writes =
             {ExampleSuggestion(e, w.user, Null, w.existing_id) : e \in changed}
             \cup {SuggestDeletion(x.id) : x \in missing}
      /\ ExamplesOfWord(w).kept = kept
  BY DEF ExamplesOfWord
<1>2. w.examples = {entry(x) : x \in prev}
  BY DEF ShowsWord, ExistingExampleEntries
<1>3. \A x : entry(x).existing_id = x.id /\ ~entry(x).changed
  OBVIOUS
<1> HIDE DEF entry, prev
<1>4. w.examples \subseteq kept
  BY <1>2, <1>3 DEF Ids
<1>5. changed = {} /\ missing = {}
  BY <1>2, <1>3
<1>6. QED
  BY <1>1, <1>4, <1>5

LEMMA ExamplesOfSuggestionSame ==
    ASSUME Untouched, NEW w, ShowsSuggestion(db, w), w.suggestion_id # Null
    PROVE  /\ \A x \in ExamplesOfSuggestion(w, w.suggestion_id).writes : SameExample(db, x)
           /\ w.examples \subseteq ExamplesOfSuggestion(w, w.suggestion_id).kept
<1> DEFINE s == w.suggestion_id
           prev == ExampleSuggestionsOf(db, s)
           kept == {e \in w.examples : e.suggestion_id \in Ids(prev)}
           again == {ExampleSuggestion(e, w.user, s, Null) : e \in kept}
           missing == {q \in prev : \A e \in w.examples : e.suggestion_id # q.id}
           entry(r) == [suggestion_id |-> r.id, existing_id |-> r.existing_example_id,
                        changed |-> FALSE]
<1>1. /\ ExamplesOfSuggestion(w, s).writes = again \cup {Delete(r.id) : r \in missing}
      /\ ExamplesOfSuggestion(w, s).kept = kept
  BY DEF ExamplesOfSuggestion
<1>2. w.examples = {entry(r) : r \in prev}
  BY DEF ShowsSuggestion, SuggestedExampleEntries
<1>3. \A r : entry(r).suggestion_id = r.id
  OBVIOUS
<1>4. \A r \in prev : /\ r \in db.example_suggestions /\ r.suggested_word_id = s
                      /\ r.existing_word_id = Null
  BY DEF ExampleSuggestionsOf, Untouched, PartsFiled
<1> HIDE DEF entry, prev
<1>5. w.examples \subseteq kept /\ missing = {}
  BY <1>2, <1>3 DEF Ids
<1>6. ASSUME NEW e \in w.examples
      PROVE  SameExample(db, ExampleSuggestion(e, w.user, s, Null))
  <2>1. PICK r \in prev : e.suggestion_id = r.id
    BY <1>2, <1>3
  <2>2. PICK x : x = ExampleSuggestion(e, w.user, s, Null)
    OBVIOUS
  <2>3. /\ x.do = "upsert" /\ x.row.id = e.suggestion_id
        /\ x.row.existing_word_id = Null /\ x.row.suggested_word_id = s
    BY <2>2 DEF ExampleSuggestion, Upsert
  <2>4. SameExample(db, x)
    BY <1>4, <2>1, <2>3 DEF SameExample
  <2>5. QED
    BY <2>2, <2>4
<1>7. \A x \in again : SameExample(db, x)
  BY <1>6
<1>8. QED
  BY <1>1, <1>5, <1>7

LEMMA ProcessExamplesUntouched ==
    ASSUME TypeOK, ThreadsKnown, Untouched, NEW t \in Threads, process_examples(t)
    PROVE  Stays
<1>1. At(t, "process_examples") /\ "process_examples" \in ProcessOps
  BY DEF process_examples, ProcessOps
<1>2. PICK c : c = Current(t)
  OBVIOUS
<1>3. PICK w : w = c.word
  OBVIOUS
<1>4. w \in WordSubmission /\ Shows(db, w) /\ todo[t] # <<>> /\ GoesTo(db, w, c.new)
  BY <1>1, <1>2, <1>3, AtPart
<1> DEFINE old == IF w.existing_id # Null THEN ExamplesOfWord(w)
                  ELSE IF w.suggestion_id # Null THEN ExamplesOfSuggestion(w, c.new)
                  ELSE [kept |-> {}, writes |-> {}]
           added == {ExampleSuggestion(e, w.user, c.new, w.existing_id) :
                        e \in w.examples \ old.kept}
           s == [op |-> "write_example", rows |-> {}]
<1>5. Read(t, TRUE, Loop(s, old.writes) \o Loop(s, added), {})
  BY <1>2, <1>3 DEF process_examples
<1>6. (\A x \in old.writes : SameExample(db, x)) /\ w.examples \subseteq old.kept
  <2>1. CASE w.existing_id # Null
    <3>1. ShowsWord(db, w)
      BY <1>4, <2>1 DEF Shows
    <3>2. QED
      BY <2>1, <3>1, ExamplesOfWordSame
  <2>2. CASE w.existing_id = Null /\ w.suggestion_id # Null
    <3>1. ShowsSuggestion(db, w) /\ c.new = w.suggestion_id
      BY <1>4, <2>2 DEF Shows, GoesTo
    <3>2. old = ExamplesOfSuggestion(w, w.suggestion_id)
      BY <2>2, <3>1
    <3> HIDE DEF old
    <3>3. QED
      BY <2>2, <3>1, <3>2, ExamplesOfSuggestionSame
  <2>3. CASE w.existing_id = Null /\ w.suggestion_id = Null
    <3>1. w.examples = {}
      BY <1>4, <2>3 DEF Shows, ShowsNothing
    <3>2. QED
      BY <2>3, <3>1
  <2>4. QED
    BY <2>1, <2>2, <2>3
<1>7. \A x \in added : SameExample(db, x)
  <2> HIDE DEF old
  <2>1. QED
    BY <1>6
<1> DEFINE S == old.writes
<1> HIDE DEF added
<1>8. \A T : /\ [s EXCEPT !.rows = T].op = "write_example"
             /\ [s EXCEPT !.rows = T].rows = T
  OBVIOUS
<1>9. Read(t, TRUE, Loop(s, S) \o Loop(s, added), {}) /\ \A x \in S : SameExample(db, x)
  BY <1>5, <1>6
<1> HIDE DEF S, s
<1>10. Harmless(db, [s EXCEPT !.rows = S]) /\ Harmless(db, [s EXCEPT !.rows = added])
  BY <1>7, <1>8, <1>9 DEF Harmless
<1>11. QED
  BY <1>4, <1>9, <1>10, LoopsUntouched

\* The datasets of a word that the form does not show are suggested to be removed.
LEMMA ProcessDatasetsUntouched ==
    ASSUME TypeOK, ThreadsKnown, Untouched, NEW t \in Threads, process_datasets(t)
    PROVE  Stays
<1>1. At(t, "process_datasets") /\ "process_datasets" \in ProcessOps
  BY DEF process_datasets, ProcessOps
<1>2. PICK c : c = Current(t)
  OBVIOUS
<1>3. PICK w : w = c.word
  OBVIOUS
<1>4. w \in WordSubmission /\ Shows(db, w) /\ todo[t] # <<>> /\ GoesTo(db, w, c.new)
  BY <1>1, <1>2, <1>3, AtPart
<1> DEFINE current == IF c.new # Null
                      THEN {r.dataset : r \in DatasetSuggestionsOf(db, c.new)}
                      ELSE {d \in Datasets : <<w.existing_id, d>> \in db.dataset_attributions}
           Insert(d, is_delete) ==
               [do |-> "insert", dataset |-> d, is_delete |-> is_delete]
           add == {Insert(d, FALSE) : d \in w.datasets \ current}
           remove == {IF c.new # Null THEN Delete(d) ELSE Insert(d, TRUE) :
                         d \in current \ w.datasets}
           rows == add \cup remove
           s == [op |-> "write_dataset", rows |-> {}, new |-> c.new,
                 existing_id |-> w.existing_id, user |-> w.user]
           x == [s EXCEPT !.rows = rows]
           X == {y \in {x} : rows # {}}
           p == Loop(s, rows)
           about == {}
<1>5. Read(t, TRUE, p, about)
  BY <1>2, <1>3 DEF process_datasets
<1>6. /\ x.op = "write_dataset" /\ x.new = c.new /\ x.rows = rows
      /\ x.existing_id = w.existing_id
  OBVIOUS
<1>7. \A d : RemovesDataset(Insert(d, TRUE))
  BY DEF RemovesDataset
<1> HIDE DEF Insert
<1>8. rows # {} => /\ c.new = Null /\ \A y \in rows : RemovesDataset(y)
                   /\ \E r \in db.word_suggestions : r.existing_word_id = w.existing_id
  <2>1. CASE w.existing_id = Null
    <3>1. c.new # Null /\ w.datasets = DatasetsOf(db, c.new)
      BY <1>4, <2>1 DEF GoesTo
    <3>2. current = w.datasets
      BY <3>1 DEF DatasetsOf
    <3> HIDE DEF current
    <3>3. rows = {}
      BY <3>2
    <3>4. QED
      BY <3>3
  <2>2. CASE w.existing_id # Null
    <3>1. c.new = Null /\ ShowsWord(db, w)
      BY <1>4, <2>2 DEF GoesTo, Shows
    <3>2. current = {d \in Datasets : <<w.existing_id, d>> \in db.dataset_attributions}
      BY <3>1
    <3> HIDE DEF current
    <3>3. \/ w.datasets = current
          \/ /\ w.datasets = {}
             /\ \E r \in db.word_suggestions : r.existing_word_id = w.existing_id
      BY <3>1, <3>2 DEF ShowsWord
    <3>4. add = {}
      BY <3>3
    <3>5. \A y \in remove : RemovesDataset(y)
      BY <1>7, <3>1
    <3>6. remove # {} => w.datasets # current
      OBVIOUS
    <3> HIDE DEF add, remove
    <3>7. QED
      BY <3>1, <3>3, <3>4, <3>5, <3>6
  <2>3. QED
    BY <2>1, <2>2
<1>9. p \in Seq(X)
  <2>1. CASE rows = {}
    <3>1. p = <<>>
      BY <2>1 DEF Loop
    <3>2. QED
      BY <3>1
  <2>2. CASE rows # {}
    <3> HIDE DEF rows, s
    <3>1. X = {x}
      BY <2>2
    <3>2. Loop(s, rows) \in Seq({[s EXCEPT !.rows = rows]})
      BY LoopStatements
    <3>3. QED
      BY <3>1, <3>2
  <2>3. QED
    BY <2>1, <2>2
<1> HIDE DEF rows, s, x, p
<1>10. \A y \in X : Harmless(db, y)
  BY <1>6, <1>8 DEF Harmless
<1> HIDE DEF X, about
<1>11. QED
  BY <1>4, <1>5, <1>9, <1>10, ReadUntouched

-----------------------------------------------------------------------------
(* What is written of them *)

\* One turn of a loop leaves the others to be made.
LEMMA TurnUntouched ==
    ASSUME TypeOK, ThreadsKnown, Untouched, NEW t \in Threads,
           NEW op \in {"write_link", "write_example", "write_dataset"}, At(t, op),
           NEW c, c = Current(t), NEW S, S \subseteq c.rows,
           NEW allowed, NEW after, Write(t, allowed, after, Loop(c, S)),
           allowed => Leaves(after)
    PROVE  Stays
<1>1. Harmless(db, c) /\ c.op = op /\ todo[t] # <<>>
  BY AtHarmless
<1>2. c \in SubmitStatement
  BY AtSubmit
<1> DEFINE z == [c EXCEPT !.rows = S]
           X == {z}
           p == Loop(c, S)
<1>3. /\ z.op = c.op /\ z.rows = S
      /\ op = "write_dataset" => z.new = c.new /\ z.existing_id = c.existing_id
  BY <1>1, <1>2 DEF SubmitStatement
<1>4. p \in Seq(X)
  BY LoopStatements
<1>5. Write(t, allowed, after, p)
  OBVIOUS
<1> HIDE DEF z, p
<1>6. Harmless(db, z)
  BY <1>1, <1>3 DEF Harmless, ProcessOps
<1>7. \A x \in X : Harmless(db, x)
  BY <1>6
<1> HIDE DEF X
<1>8. QED
  BY <1>1, <1>4, <1>5, <1>7, WriteUntouched

\* A row that suggests to remove a dataset of a word.
LEMMA RemovalLeaves ==
    ASSUME TypeOK, Untouched, NEW row, row.is_delete, row.suggested_word_id = Null,
           \E q \in db.word_suggestions : q.existing_word_id = row.existing_word_id,
           NEW seq, NEW d,
           d = [db EXCEPT !.dataset_attribution_suggestions = @ \cup {row}, !.seq = seq]
    PROVE  Leaves(d)
<1>1. /\ d.dataset_attribution_suggestions = db.dataset_attribution_suggestions \cup {row}
      /\ d.word_suggestions = db.word_suggestions
      /\ d.example_suggestions = db.example_suggestions
      /\ d.linked_word_suggestions = db.linked_word_suggestions
      /\ d.word_deletion_suggestions = db.word_deletion_suggestions
      /\ d.example_deletion_suggestions = db.example_deletion_suggestions
      /\ d.linked_word_deletion_suggestions = db.linked_word_deletion_suggestions
      /\ d.examples = db.examples /\ d.linked_words = db.linked_words
      /\ d.dataset_attributions = db.dataset_attributions
  BY DEF TypeOK, Database
<1>2. Parts(d) = Parts(db)
  BY <1>1 DEF Parts
<1>3. \A r \in db.word_suggestions : r.id # Null
  BY DEF TypeOK, Database, WordSuggestionRow, Id
<1>4. PartsFiled(d)
  BY <1>1, <1>3 DEF PartsFiled, Untouched
<1>5. QED
  BY <1>1, <1>2, <1>4 DEF Leaves, Untouched

LEMMA WriteDatasetUntouched ==
    ASSUME TypeOK, ThreadsKnown, Untouched, NEW t \in Threads, write_dataset(t)
    PROVE  Stays
<1>1. At(t, "write_dataset")
  BY DEF write_dataset
<1>2. PICK c, key : c = Current(t) /\ key = db.seq["dataset_attribution_suggestions"] + 1
  OBVIOUS
<1>3. /\ Harmless(db, c) /\ c.op = "write_dataset"
  BY <1>1, <1>2, AtHarmless
<1>4. /\ c.new = Null /\ \A x \in c.rows : RemovesDataset(x)
      /\ c.rows # {} => \E r \in db.word_suggestions : r.existing_word_id = c.existing_id
  BY <1>3 DEF Harmless, ProcessOps
<1>5. PICK s, S, row :
          /\ s \in c.rows /\ S = c.rows \ {s}
          /\ row = [id |-> key, dataset |-> s.dataset, existing_word_id |-> c.existing_id,
                    suggested_word_id |-> c.new, is_delete |-> s.is_delete, user |-> c.user]
          /\ \/ Write(t, DatasetSuggestionOk(db, row),
                      [db EXCEPT
                         !.dataset_attribution_suggestions = @ \cup {row},
                         !.seq = Bump(@, "dataset_attribution_suggestions", key)],
                      Loop(c, S))
             \/ s.do = "delete"
  BY <1>2 DEF write_dataset
<1>6. s.do = "insert" /\ s.is_delete
  BY <1>4, <1>5 DEF RemovesDataset
<1>7. /\ row.is_delete /\ row.suggested_word_id = Null
      /\ row.existing_word_id = c.existing_id
  BY <1>4, <1>5, <1>6
<1>8. \E q \in db.word_suggestions : q.existing_word_id = row.existing_word_id
  BY <1>4, <1>5, <1>7
<1> DEFINE allowed == DatasetSuggestionOk(db, row)
           seq == Bump(db.seq, "dataset_attribution_suggestions", key)
           after == [db EXCEPT !.dataset_attribution_suggestions = @ \cup {row}, !.seq = seq]
<1>9. Write(t, allowed, after, Loop(c, S))
  BY <1>5, <1>6
<1> HIDE DEF allowed, seq
<1>10. PICK d : d = after
  OBVIOUS
<1>11. Leaves(d)
  BY <1>7, <1>8, <1>10, RemovalLeaves
<1>12. S \subseteq c.rows /\ Write(t, allowed, d, Loop(c, S))
  BY <1>5, <1>9, <1>10
<1>13. QED
  BY <1>1, <1>2, <1>11, <1>12, TurnUntouched

\* An example that is written again as it is.
LEMMA SameExampleLeaves ==
    ASSUME TypeOK, Untouched, NEW x, SameExample(db, x), x.row \in NewExampleRow,
           NEW row, row = ExampleRowAfter(db, x.row), NEW seq, NEW d,
           d = [db EXCEPT !.example_suggestions = Put(@, row), !.seq = seq]
    PROVE  Leaves(d)
<1>1. PICK r \in db.example_suggestions :
          /\ r.id = x.row.id /\ r.existing_word_id = x.row.existing_word_id
          /\ r.suggested_word_id = x.row.suggested_word_id
  BY DEF SameExample
<1>2. \A q \in db.example_suggestions : q.id = r.id => q = r
  BY DEF Untouched, Keyed
<1>3. x.row.id \in Ids(db.example_suggestions) /\ RowOf(db.example_suggestions, x.row.id) = r
  BY <1>1, <1>2 DEF Ids, RowOf
<1>4. row = [x.row EXCEPT !.existing_example_id = r.existing_example_id, !.user = r.user]
  BY <1>3 DEF ExampleRowAfter
<1>5. r \in ExampleSuggestionRow
  BY DEF TypeOK, Database
<1>6. row = r
  BY <1>1, <1>4, <1>5 DEF NewExampleRow, ExampleSuggestionRow
<1>7. Put(db.example_suggestions, row) = db.example_suggestions
  BY <1>2, <1>6 DEF Put
<1>8. /\ d.dataset_attribution_suggestions = db.dataset_attribution_suggestions
      /\ d.word_suggestions = db.word_suggestions
      /\ d.example_suggestions = db.example_suggestions
      /\ d.linked_word_suggestions = db.linked_word_suggestions
      /\ d.word_deletion_suggestions = db.word_deletion_suggestions
      /\ d.example_deletion_suggestions = db.example_deletion_suggestions
      /\ d.linked_word_deletion_suggestions = db.linked_word_deletion_suggestions
      /\ d.examples = db.examples /\ d.linked_words = db.linked_words
      /\ d.dataset_attributions = db.dataset_attributions
  BY <1>7 DEF TypeOK, Database
<1>9. Parts(d) = Parts(db)
  BY <1>8 DEF Parts
<1>10. PartsFiled(db) /\ Keyed(db.word_suggestions)
  BY DEF Untouched
<1>11. PartsFiled(d)
  BY <1>8, <1>10 DEF PartsFiled
<1>12. QED
  BY <1>8, <1>9, <1>10, <1>11 DEF Leaves

LEMMA WriteExampleUntouched ==
    ASSUME TypeOK, ThreadsKnown, Untouched, NEW t \in Threads, write_example(t)
    PROVE  Stays
<1>1. At(t, "write_example")
  BY DEF write_example
<1>2. PICK c : c = Current(t)
  OBVIOUS
<1>3. /\ Harmless(db, c) /\ c.op = "write_example" /\ c \in SubmitStatement
  BY <1>1, <1>2, AtHarmless, AtSubmit
<1>4. /\ \A x \in c.rows : SameExample(db, x)
      /\ c.rows \subseteq UpsertOf(NewExampleRow) \cup ById
  BY <1>3 DEF Harmless, ProcessOps, SubmitStatement
<1>5. PICK s, S :
          /\ s \in c.rows /\ S = c.rows \ {s}
          /\ \/ LET row == ExampleRowAfter(db, s.row)
                IN  Write(t, ExampleSuggestionOk(db, row),
                          [db EXCEPT
                             !.example_suggestions = Put(@, row),
                             !.seq = Bump(@, "example_suggestions", row.id)],
                          Loop(c, S))
             \/ s.do \in {"delete", "suggest_deletion"}
  BY <1>2 DEF write_example
<1>6. SameExample(db, s) /\ s.do = "upsert" /\ s.row \in NewExampleRow
  BY <1>4, <1>5 DEF SameExample, UpsertOf, ById
<1> DEFINE row == ExampleRowAfter(db, s.row)
           allowed == ExampleSuggestionOk(db, row)
           seq == Bump(db.seq, "example_suggestions", row.id)
           after == [db EXCEPT !.example_suggestions = Put(@, row), !.seq = seq]
<1>7. Write(t, allowed, after, Loop(c, S))
  BY <1>5, <1>6
<1> HIDE DEF allowed, seq
<1>8. PICK d : d = after
  OBVIOUS
<1>9. Leaves(d)
  BY <1>6, <1>8, SameExampleLeaves
<1>10. S \subseteq c.rows /\ Write(t, allowed, d, Loop(c, S))
  BY <1>5, <1>7, <1>8
<1>11. QED
  BY <1>1, <1>2, <1>9, <1>10, TurnUntouched

\* A link that is written again between the two words it is between.
LEMMA SameLinkLeaves ==
    ASSUME TypeOK, Untouched, NEW x, SameLink(db, x), x.row \in NewLinkRow,
           NEW row, row = LinkRowAfter(db, x.row), NEW seq, NEW d,
           d = [db EXCEPT !.linked_word_suggestions = Put(@, row), !.seq = seq]
    PROVE  Leaves(d)
<1> DEFINE L == db.linked_word_suggestions
           link(r) == <<r.id, r.existing_linked_word_id, Sides(r)>>
<1>1. PICK p \in Parts(db).links : p[1] = x.row.id /\ p[3] = Sides(x.row)
  BY DEF SameLink
<1>2. \A q \in L : q.id = x.row.id => link(q) = p
  <2>1. \A q \in L : link(q) \in Parts(db).links /\ link(q)[1] = q.id
    BY DEF Parts
  <2> HIDE DEF link
  <2>2. QED
    BY <1>1, <2>1 DEF Untouched
<1>3. PICK r \in L : /\ r = RowOf(L, x.row.id) /\ r.id = x.row.id
                    /\ Sides(r) = Sides(x.row) /\ x.row.id \in Ids(L)
  <2>1. \E q \in L : q.id = x.row.id
    BY <1>1 DEF Parts
  <2>2. PICK r : r = RowOf(L, x.row.id)
    OBVIOUS
  <2>3. r \in L /\ r.id = x.row.id
    BY <2>1, <2>2 DEF RowOf
  <2>4. Sides(r) = Sides(x.row)
    BY <1>1, <1>2, <2>3
  <2>5. QED
    BY <2>2, <2>3, <2>4 DEF Ids
<1>4. row = [x.row EXCEPT !.existing_linked_word_id = r.existing_linked_word_id, !.user = r.user]
  BY <1>3 DEF LinkRowAfter
<1>5. /\ row.id = r.id /\ row.existing_linked_word_id = r.existing_linked_word_id
      /\ \A k \in WordColumns : row[k] = x.row[k]
      /\ row.first_existing_word_id = x.row.first_existing_word_id
      /\ row.second_existing_word_id = x.row.second_existing_word_id
      /\ row.suggested_word_id = x.row.suggested_word_id
      /\ row.second_suggested_word_id = x.row.second_suggested_word_id
  BY <1>3, <1>4 DEF NewLinkRow, WordColumns
<1>6. Sides(row) = Sides(r)
  BY <1>3, <1>5 DEF Sides
<1>7. link(row) = link(r)
  BY <1>5, <1>6
<1>8. /\ d.dataset_attribution_suggestions = db.dataset_attribution_suggestions
      /\ d.word_suggestions = db.word_suggestions
      /\ d.example_suggestions = db.example_suggestions
      /\ d.linked_word_suggestions = Put(L, row)
      /\ d.word_deletion_suggestions = db.word_deletion_suggestions
      /\ d.example_deletion_suggestions = db.example_deletion_suggestions
      /\ d.linked_word_deletion_suggestions = db.linked_word_deletion_suggestions
      /\ d.examples = db.examples /\ d.linked_words = db.linked_words
      /\ d.dataset_attributions = db.dataset_attributions
  BY DEF TypeOK, Database
<1>9. Parts(d) = Parts(db)
  <2>1. {link(q) : q \in Put(L, row)} = {link(q) : q \in L}
    <3>1. \A q : q \in Put(L, row) <=> (q \in L /\ q.id # row.id) \/ q = row
      BY DEF Put
    <3>2. r \in L /\ \A q \in L : q.id = row.id => link(q) = link(r)
      BY <1>2, <1>3, <1>5
    <3> HIDE DEF link, L
    <3>3. QED
      BY <1>7, <3>1, <3>2
  <2>2. QED
    BY <1>8, <2>1 DEF Parts
<1>10. PartsFiled(d)
  <2> DEFINE New(s) == \A q \in db.word_suggestions : q.id = s => q.existing_word_id = Null
             Two(q) == \A c, k, m \in WordColumns :
                           q[c] # Null /\ q[k] # Null /\ q[m] # Null => c = k \/ k = m \/ c = m
  <2>1. /\ \A q \in L : New(q.suggested_word_id) /\ New(q.second_suggested_word_id) /\ Two(q)
        /\ \A q \in db.example_suggestions :
              New(q.suggested_word_id) /\ (q.suggested_word_id # Null => q.existing_word_id = Null)
        /\ \A q \in db.dataset_attribution_suggestions : New(q.suggested_word_id)
    BY DEF Untouched, PartsFiled
  <2>2. New(Null)
    BY DEF TypeOK, Database, WordSuggestionRow, Id
  <2>3. \A s : s # Null /\ Suggested(s) \in Sides(r) =>
                   s = r.suggested_word_id \/ s = r.second_suggested_word_id
    BY DEF Sides, Suggested, Existing
  <2>4. /\ row.suggested_word_id # Null => Suggested(row.suggested_word_id) \in Sides(row)
        /\ row.second_suggested_word_id # Null =>
               Suggested(row.second_suggested_word_id) \in Sides(row)
    BY DEF Sides, Suggested, Existing
  <2>5. Two(row)
    BY <1>5 DEF SameLink, AtMostTwo
  <2> HIDE DEF New, Two
  <2>6. New(row.suggested_word_id) /\ New(row.second_suggested_word_id)
    BY <1>6, <2>1, <2>2, <2>3, <2>4
  <2>7. \A q \in Put(L, row) : New(q.suggested_word_id) /\ New(q.second_suggested_word_id) /\ Two(q)
    BY <2>1, <2>5, <2>6 DEF Put
  <2>8. QED
    BY <1>8, <2>1, <2>7 DEF PartsFiled, New, Two
<1>11. QED
  BY <1>8, <1>9, <1>10 DEF Leaves, Untouched

LEMMA WriteLinkUntouched ==
    ASSUME TypeOK, ThreadsKnown, Untouched, NEW t \in Threads, write_link(t)
    PROVE  Stays
<1>1. At(t, "write_link")
  BY DEF write_link
<1>2. PICK c : c = Current(t)
  OBVIOUS
<1>3. /\ Harmless(db, c) /\ c.op = "write_link" /\ c \in SubmitStatement
  BY <1>1, <1>2, AtHarmless, AtSubmit
<1>4. /\ \A x \in c.rows : SameLink(db, x)
      /\ c.rows \subseteq UpsertOf(NewLinkRow) \cup ById
  BY <1>3 DEF Harmless, ProcessOps, SubmitStatement
<1>5. PICK s, S :
          /\ s \in c.rows /\ S = c.rows \ {s}
          /\ \/ LET row == LinkRowAfter(db, s.row)
                IN  Write(t, LinkedWordSuggestionOk(db, row),
                          [db EXCEPT
                             !.linked_word_suggestions = Put(@, row),
                             !.seq = Bump(@, "linked_word_suggestions", row.id)],
                          Loop(c, S))
             \/ s.do \in {"delete", "suggest_deletion"}
  BY <1>2 DEF write_link
<1>6. SameLink(db, s) /\ s.do = "upsert" /\ s.row \in NewLinkRow
  BY <1>4, <1>5 DEF SameLink, UpsertOf, ById
<1> DEFINE row == LinkRowAfter(db, s.row)
           allowed == LinkedWordSuggestionOk(db, row)
           seq == Bump(db.seq, "linked_word_suggestions", row.id)
           after == [db EXCEPT !.linked_word_suggestions = Put(@, row), !.seq = seq]
<1>7. Write(t, allowed, after, Loop(c, S))
  BY <1>5, <1>6
<1> HIDE DEF allowed, seq
<1>8. PICK d : d = after
  OBVIOUS
<1>9. Leaves(d)
  BY <1>6, <1>8, SameLinkLeaves
<1>10. S \subseteq c.rows /\ Write(t, allowed, d, Loop(c, S))
  BY <1>5, <1>7, <1>8
<1>11. QED
  BY <1>1, <1>2, <1>9, <1>10, TurnUntouched

LEMMA ExecIndexUntouched ==
    ASSUME TypeOK, ThreadsKnown, Untouched, NEW t \in Threads, ExecIndex(t)
    PROVE  Stays
<1>1. todo[t] # <<>>
  BY DEF ExecIndex, At
<1>2. Continue(t, <<>>, {}) /\ UNCHANGED <<db, forms>>
  BY DEF ExecIndex
<1> DEFINE X == {}
           p == <<>>
           about == {}
<1>3. p \in Seq(X) /\ Continue(t, p, about) /\ \A x \in X : Harmless(db, x)
  BY <1>2
<1> HIDE DEF X, p, about
<1>4. Leaves(db') /\ forms' = forms
  BY <1>2, SameLeft
<1>5. QED
  BY <1>1, <1>3, <1>4, GoesOnUntouched

-----------------------------------------------------------------------------
(* Every step *)

LEMMA ServeUntouched ==
    ASSUME TypeOK, References, IdsPassed, ThreadsKnown, Untouched, NEW t \in Threads, Serve(t)
    PROVE  Stays
<1>1. CASE \/ read_original(t) \/ insert_suggestion(t)
           \/ process_linked_words(t) \/ write_link(t)
           \/ process_examples(t) \/ write_example(t)
           \/ process_datasets(t) \/ write_dataset(t) \/ ExecIndex(t)
  BY <1>1, ReadOriginalUntouched, InsertSuggestionUntouched, ProcessLinksUntouched,
     WriteLinkUntouched, ProcessExamplesUntouched, WriteExampleUntouched,
     ProcessDatasetsUntouched, WriteDatasetUntouched, ExecIndexUntouched
<1> DEFINE Never(op) == ~At(t, op)
<1>2. \A op : op \notin HarmlessOps => Never(op)
  BY OtherStatementsNever
<1> HIDE DEF Never
<1>3. /\ Never("suggest_word_deletion") /\ Never("fetch_alone") /\ Never("fetch_examples")
      /\ Never("fetch_linked_words") /\ Never("fetch_datasets") /\ Never("accept_just_word")
      /\ Never("accept_examples") /\ Never("accept_datasets") /\ Never("accept_links")
      /\ Never("delete_word_suggestion") /\ Never("fetch_example") /\ Never("fetch_link")
      /\ Never("accept_link") /\ Never("fetch_dataset") /\ Never("fetch_word_deletion")
      /\ Never("delete_word") /\ Never("fetch_example_deletion") /\ Never("delete_example")
      /\ Never("fetch_link_deletion") /\ Never("delete_link")
      /\ Never("add_user_attribution") /\ Never("delete_row")
  BY <1>2 DEF HarmlessOps
<1>4. /\ ~insert_word_deletion(t) /\ ~fetch_alone(t) /\ ~fetch_examples(t)
      /\ ~fetch_linked_words(t) /\ ~fetch_datasets(t) /\ ~accept_just_word(t)
  BY <1>3 DEF Never, insert_word_deletion, fetch_alone, fetch_examples, fetch_linked_words,
              fetch_datasets, accept_just_word
<1>5. /\ ~accept_example(t) /\ ~accept_dataset(t) /\ ~accept_link_of_word(t)
      /\ ~delete_word_suggestion(t) /\ ~fetch_example(t) /\ ~fetch_link(t)
      /\ ~accept_link(t) /\ ~fetch_dataset(t)
  BY <1>3 DEF Never, accept_example, accept_dataset, accept_link_of_word,
              delete_word_suggestion, fetch_example, fetch_link, accept_link, fetch_dataset
<1>6. /\ ~fetch_word_deletion(t) /\ ~delete_word(t) /\ ~fetch_example_deletion(t)
      /\ ~delete_example(t) /\ ~fetch_link_deletion(t) /\ ~delete_link(t)
      /\ ~ExecAddUserAttribution(t) /\ ~ExecDeleteRow(t)
  BY <1>3 DEF Never, fetch_word_deletion, delete_word, fetch_example_deletion, delete_example,
              fetch_link_deletion, delete_link, ExecAddUserAttribution, ExecDeleteRow
<1>7. QED
  BY <1>1, <1>4, <1>5, <1>6 DEF Serve

LEMMA StutterUntouched ==
    ASSUME Untouched, UNCHANGED vars
    PROVE  Untouched'
<1>1. UNCHANGED <<db, forms, todo>>
  BY DEF vars
<1>2. Queue' = Queue
  BY <1>1 DEF Queue
<1>3. Parts(db)' = Parts(db)
  BY <1>1 DEF Parts
<1>4. PICK d, Q, F : d = db /\ Q = Queue /\ F = forms
  OBVIOUS
<1>5. /\ PartsFiled(d) /\ Keyed(d.word_suggestions)
      /\ Keyed(d.example_suggestions) /\ Keyed(d.linked_words)
      /\ \A p, q \in Parts(d).links : p[1] = q[1] => p = q
      /\ \A f \in F : Shows(d, f)
      /\ \A s \in Q : Harmless(d, s)
  BY <1>4 DEF Untouched
<1>6. db' = d /\ Queue' = Q /\ forms' = F
  BY <1>1, <1>2, <1>4
<1>7. QED
  BY <1>5, <1>6 DEF Untouched

LEMMA NextUntouched ==
    ASSUME TypeOK, References, IdsPassed, ThreadsKnown, Untouched,
           Routes \subseteq PagesAndForms, Edits \subseteq {"word", "new_word"}, [Next]_vars
    PROVE  Untouched' /\ [PartsUntouched]_vars
<1>1. CASE UNCHANGED vars
  BY <1>1, StutterUntouched
<1>2. CASE Next
  <2>1. ASSUME NEW t \in Threads, abandon_deletion(t)
        PROVE  Stays
    <3>1. At(t, "index_delete") /\ "index_delete" \notin HarmlessOps
      BY <2>1 DEF abandon_deletion, HarmlessOps
    <3>2. QED
      BY <3>1, OtherStatementsNever
  <2>2. Stays
    BY <1>2, <2>1, RequestUntouched, ServeUntouched, PagesUntouched, CrashUntouched DEF Next
  <2>3. QED
    BY <2>2 DEF Stays
<1>3. QED
  BY <1>1, <1>2

\* A database to start from has its parts with suggestions of new words.
LEMMA InitialUntouched ==
    ASSUME Init
    PROVE  Untouched
<1>1. Consistent(db) /\ PartsFiled(db) /\ forms = {} /\ todo = [t \in Threads |-> <<>>]
  BY DbsAssumption, PartsAssumption DEF Init
<1>2. Queue = {}
  <2>1. \A t \in Threads : Statements(todo[t]) = {}
    BY <1>1 DEF Statements
  <2>2. QED
    BY <2>1 DEF Queue
<1>3. /\ Keyed(db.word_suggestions) /\ Keyed(db.example_suggestions)
      /\ Keyed(db.linked_words) /\ Keyed(db.linked_word_suggestions)
  BY <1>1 DEF Consistent, KeysUnique
<1>4. \A p, q \in Parts(db).links : p[1] = q[1] => p = q
  BY <1>3 DEF Parts, Keyed
<1>5. QED
  BY <1>1, <1>2, <1>3, <1>4 DEF Untouched

\* When users do nothing but open pages and send their forms back, with other
\* texts perhaps, no part of a suggestion is changed, withdrawn or added, but for
\* datasets that are suggested to be removed.
THEOREM UntouchedStays ==
    ASSUME Routes \subseteq PagesAndForms, Edits \subseteq {"word", "new_word"}
    PROVE  Spec => UntouchedPartsStay
<1>1. Init => Untouched
  BY InitialUntouched
<1>2. IInv /\ Untouched /\ [Next]_vars => Untouched' /\ [PartsUntouched]_vars
  BY NextUntouched DEF IInv, Decided
<1>3. Spec => []IInv
  BY DecisionsStand
<1>4. QED
  BY <1>1, <1>2, <1>3, PTL DEF Spec, UntouchedPartsStay
=============================================================================
