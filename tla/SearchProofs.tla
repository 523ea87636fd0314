----------------------------- MODULE SearchProofs -----------------------------
(***************************************************************************)
(* What is proved of the search index: the types of its state, and that    *)
(* the cached list of all words keeps the promise of WordList.             *)
(***************************************************************************)
EXTENDS SearchIndex, FiniteSetTheorems, TLAPS

\* A request that is under way says what it asks for.
Requests ==
    [at: {"row", "index", "invalidating", "sending", "sent"},
     op: {"add", "edit"}, id: WordOrSuggestionId, text: Texts, by: Users]
    \cup [at: {"row", "index", "invalidating", "sending", "sent"},
          op: {"delete"}, id: WordOrSuggestionId, text: {Nothing}, by: {Nothing}]

RequestsSayWhat == \A c \in Changes : changes[c].at # "idle" => changes[c] \in Requests

\* The writer's mailbox holds the requests that have been sent, each once.
SentOnce ==
    /\ \A i \in 1 .. Len(mailbox) : changes[mailbox[i]].at = "sent"
    /\ \A i, j \in 1 .. Len(mailbox) : mailbox[i] = mailbox[j] => i = j

TypeInv == TypeOK /\ RequestsSayWhat /\ SentOnce

-----------------------------------------------------------------------------
(* What the handlers make of their arguments *)

LEMMA DocumentType ==
    ASSUME NEW m \in Requests, m.op # "delete"
    PROVE  DocumentOf(m) \in Document
BY DEF Requests, DocumentOf, Document

LEMMA ApplyType ==
    ASSUME NEW index \in SUBSET Document, NEW m \in Requests
    PROVE  Apply(index, m) \in SUBSET Document
<1>1. CASE m.op = "delete"
  BY <1>1 DEF Apply, Term
<1>2. CASE m.op = "add"
  <2>1. DocumentOf(m) \in Document
    BY <1>2, DocumentType
  <2> QED  BY <1>2, <2>1 DEF Apply
<1>3. CASE m.op = "edit"
  <2>1. DocumentOf(m) \in Document
    BY <1>3, DocumentType
  <2> QED  BY <1>3, <2>1 DEF Apply, Term
<1> QED  BY <1>1, <1>2, <1>3 DEF Requests

LEMMA LatestType ==
    ASSUME TypeOK
    PROVE  Latest \in SUBSET Document
BY DEF TypeOK, Latest

LEMMA VisibleIsNumber ==
    ASSUME TypeOK
    PROVE  visible \in Nat /\ Len(commits) \in Nat /\ 1 <= visible /\ visible <= Len(commits)
BY DEF TypeOK

LEMMA PageTypes ==
    ASSUME TypeOK
    PROVE  /\ Idle \in PageRecord
           /\ Page("reading", 0) \in PageRecord
           /\ Page("filling", 0) \in PageRecord
           /\ Page("storing", visible) \in PageRecord
BY VisibleIsNumber DEF Idle, Page, PageRecord

LEMMA AddressType ==
    Existing(1) \in WordOrSuggestionId /\ Suggested(1) \in WordOrSuggestionId
BY DataAssumption DEF Existing, Suggested, WordOrSuggestionId

-----------------------------------------------------------------------------
(* Types, action by action *)

LEMMA InitTyped == Init => TypeInv
<1> SUFFICES ASSUME Init PROVE TypeInv
  OBVIOUS
<1> DEFINE text == CHOOSE t \in Texts : TRUE
           by == CHOOSE u \in Users : TRUE
<1>1. text \in Texts /\ by \in Users
  BY DataAssumption
<1>2. /\ rows \in [WordOrSuggestionId -> Texts \cup {Nothing}]
      /\ authors \in [WordOrSuggestionId -> Users \cup {Nothing}]
  BY <1>1 DEF Init
<1>3. commits \in Seq(SUBSET Document) /\ Len(commits) = 1
  <2>1. \A d \in {Existing(1), Suggested(1)} :
          DocumentOf([id |-> d, text |-> text, by |-> by]) \in Document
    BY <1>1, AddressType DEF DocumentOf, Document
  <2>2. PICK docs : docs = {DocumentOf([id |-> d, text |-> text, by |-> by]) :
                               d \in {Existing(1), Suggested(1)}}
    OBVIOUS
  <2>3. docs \in SUBSET Document
    BY <2>1, <2>2
  <2>4. commits = <<docs>>
    BY <2>2 DEF Init
  <2> QED  BY <2>3, <2>4
<1>4. pages \in [Pages -> PageRecord]
  BY DEF Init, Page, Idle, PageRecord
<1>5. changes \in [Changes -> ChangeRecord] /\ RequestsSayWhat
  BY AddressType DEF Init, NoChange, ChangeRecord, RequestsSayWhat
<1>6. lock = <<>> /\ mailbox = <<>> /\ visible = 1 /\ cache = Nothing
  BY DEF Init
<1>7. SentOnce
  BY <1>6 DEF SentOnce
<1> QED
  BY <1>2, <1>3, <1>4, <1>5, <1>6, <1>7, SizesAssumption, MailboxAssumption
     DEF Init, TypeInv, TypeOK

LEMMA AllWordsTyped ==
    ASSUME TypeInv, NEW p \in Pages, all_words(p)
    PROVE  TypeInv'
<1>1. pages' \in [Pages -> PageRecord] /\ PageRecord' = PageRecord
  BY PageTypes DEF TypeInv, TypeOK, all_words, indexVars, PageRecord
<1>2. lock' \in Seq(Processes \X {"read", "write"})
  BY DEF TypeInv, TypeOK, all_words, Processes
<1>3. opened' \in 0 .. MaxPages
  BY SizesAssumption DEF TypeInv, TypeOK, all_words
<1> QED
  BY <1>1, <1>2, <1>3
     DEF TypeInv, TypeOK, all_words, indexVars, RequestsSayWhat, SentOnce, ChangeRecord

LEMMA ReadCacheTyped ==
    ASSUME TypeInv, NEW p \in Pages, read_cache(p)
    PROVE  TypeInv'
<1>1. lock # <<>> /\ Tail(lock) \in Seq(Processes \X {"read", "write"})
  BY DEF TypeInv, TypeOK, read_cache, Holds
<1>2. lock' \in Seq(Processes \X {"read", "write"})
  <2>1. CASE cache # Nothing
    BY <1>1, <2>1 DEF read_cache, Show
  <2>2. CASE cache = Nothing
    <3>1. <<p, "write">> \in Processes \X {"read", "write"}
      BY DEF Processes
    <3>2. lock' = Append(Tail(lock), <<p, "write">>)
      BY <2>2 DEF read_cache, DropToWrite
    <3> QED  BY <1>1, <3>1, <3>2
  <2> QED  BY <2>1, <2>2
<1>3. pages' \in [Pages -> PageRecord]
  <2>1. Idle \in PageRecord /\ Page("filling", 0) \in PageRecord
    BY PageTypes DEF TypeInv
  <2> QED  BY <2>1 DEF TypeInv, TypeOK, read_cache, Show
<1>4. shown' \in 0 .. visible
  <2>1. CASE cache # Nothing
    BY <2>1, VisibleIsNumber DEF TypeInv, TypeOK, read_cache, Show
  <2>2. CASE cache = Nothing
    BY <2>2 DEF TypeInv, TypeOK, read_cache
  <2> QED  BY <2>1, <2>2
<1>5. PageRecord' = PageRecord
  BY DEF read_cache, indexVars, PageRecord
<1> QED
  BY <1>2, <1>3, <1>4, <1>5
     DEF TypeInv, TypeOK, read_cache, indexVars, countVars, RequestsSayWhat, SentOnce,
         ChangeRecord

LEMMA GetAllWordsTyped ==
    ASSUME TypeInv, NEW p \in Pages, get_all_words(p)
    PROVE  TypeInv'
<1>1. lock # <<>> /\ Tail(lock) \in Seq(Processes \X {"read", "write"})
  BY DEF TypeInv, TypeOK, get_all_words, Holds
<1>2. lock' \in Seq(Processes \X {"read", "write"})
  BY <1>1 DEF TypeInv, TypeOK, get_all_words
<1>3. pages' \in [Pages -> PageRecord]
  <2>1. Idle \in PageRecord /\ Page("storing", visible) \in PageRecord
    BY PageTypes DEF TypeInv
  <2> QED  BY <2>1 DEF TypeInv, TypeOK, get_all_words
<1>4. PageRecord' = PageRecord
  BY DEF get_all_words, indexVars, PageRecord
<1> QED
  BY <1>2, <1>3, <1>4
     DEF TypeInv, TypeOK, get_all_words, indexVars, countVars, RequestsSayWhat, SentOnce,
         ChangeRecord

LEMMA StoreListTyped ==
    ASSUME TypeInv, NEW p \in Pages, store_list(p)
    PROVE  TypeInv'
<1>1. lock # <<>> /\ Tail(lock) \in Seq(Processes \X {"read", "write"})
  BY DEF TypeInv, TypeOK, store_list, Holds
<1>2. pages' \in [Pages -> PageRecord]
  <2>1. Idle \in PageRecord
    BY PageTypes DEF TypeInv
  <2> QED  BY <2>1 DEF TypeInv, TypeOK, store_list, Show
<1>3. pages[p].list \in 1 .. visible
  BY DEF TypeInv, TypeOK, PageRecord, store_list
<1>4. cache' \in (1 .. visible) \cup {Nothing} /\ shown' \in 0 .. visible
  BY <1>3, VisibleIsNumber DEF TypeInv, store_list, Show
<1>5. PageRecord' = PageRecord
  BY DEF store_list, indexVars, PageRecord
<1> QED
  BY <1>1, <1>2, <1>4, <1>5
     DEF TypeInv, TypeOK, store_list, Show, indexVars, countVars, RequestsSayWhat,
         SentOnce, ChangeRecord

-----------------------------------------------------------------------------
(* Requests that change a row *)

LEMMA RequestIsRecord == Requests \subseteq ChangeRecord
BY DEF Requests, ChangeRecord

LEMMA MovedType ==
    ASSUME NEW m \in Requests,
           NEW at \in {"row", "index", "invalidating", "sending", "sent"}
    PROVE  /\ MovedTo(m, at) \in Requests /\ MovedTo(m, at).at = at
           /\ MovedTo(m, at).id = m.id
<1>1. CASE m \in [at: {"row", "index", "invalidating", "sending", "sent"},
                  op: {"add", "edit"}, id: WordOrSuggestionId, text: Texts, by: Users]
  BY <1>1 DEF MovedTo, Requests
<1>2. CASE m \in [at: {"row", "index", "invalidating", "sending", "sent"},
                  op: {"delete"}, id: WordOrSuggestionId, text: {Nothing}, by: {Nothing}]
  BY <1>2 DEF MovedTo, Requests
<1> QED  BY <1>1, <1>2 DEF Requests

LEMMA NoChangeType == NoChange \in ChangeRecord /\ NoChange.at = "idle"
BY AddressType DEF NoChange, ChangeRecord

\* One request moves on and no message is handled.
LEMMA OneMoves ==
    ASSUME TypeInv, NEW c \in Changes, NEW m, UNCHANGED mailbox,
           changes[c].at # "sent",
           m \in Requests \/ m = NoChange,
           changes' = [changes EXCEPT ![c] = m]
    PROVE  changes' \in [Changes -> ChangeRecord] /\ RequestsSayWhat' /\ SentOnce'
<1>1. changes' \in [Changes -> ChangeRecord]
  BY RequestIsRecord, NoChangeType DEF TypeInv, TypeOK
<1>2. RequestsSayWhat'
  BY NoChangeType DEF TypeInv, TypeOK, RequestsSayWhat
<1>3. SentOnce'
  BY DEF TypeInv, TypeOK, SentOnce
<1> QED  BY <1>1, <1>2, <1>3

LEMMA BeginTyped ==
    ASSUME TypeInv, NEW c \in Changes, begin_change(c)
    PROVE  TypeInv'
<1>1. PICK m \in Asked :
        /\ changes' = [changes EXCEPT ![c] =
                         [at |-> IF RowFirst(m.op, m.id) THEN "row" ELSE "index",
                          op |-> m.op, id |-> m.id, text |-> m.text, by |-> m.by]]
        /\ disputed' = IF m.id \in InFlight THEN disputed \cup {m.id} ELSE disputed
  BY DEF begin_change
<1>2. PICK r : r = [at |-> IF RowFirst(m.op, m.id) THEN "row" ELSE "index",
                    op |-> m.op, id |-> m.id, text |-> m.text, by |-> m.by]
  OBVIOUS
<1>3. r \in Requests /\ m.id \in WordOrSuggestionId
  BY <1>2 DEF Asked, Requests, NextOf, Present
<1>4. changes[c].at # "sent"
  BY DEF begin_change, FirstFree
<1>5. changes' \in [Changes -> ChangeRecord] /\ RequestsSayWhat' /\ SentOnce'
  BY <1>1, <1>2, <1>3, <1>4, OneMoves DEF begin_change, indexVars
<1>6. disputed' \subseteq WordOrSuggestionId /\ changed' \in 0 .. MaxChanges
  BY <1>1, <1>3, SizesAssumption DEF TypeInv, TypeOK, begin_change
<1> QED
  BY <1>5, <1>6
     DEF TypeInv, TypeOK, begin_change, indexVars, PageRecord, ChangeRecord

LEMMA WriteRowTyped ==
    ASSUME TypeInv, NEW c \in Changes, write_row(c)
    PROVE  TypeInv'
<1>1. changes[c] \in Requests /\ changes[c].at = "row"
  BY DEF TypeInv, RequestsSayWhat, write_row
<1>2. PICK n : n = IF RowFirst(changes[c].op, changes[c].id)
                   THEN MovedTo(changes[c], "index") ELSE NoChange
  OBVIOUS
<1>3. n \in Requests \/ n = NoChange
  BY <1>1, <1>2, MovedType
<1>4. changes' = [changes EXCEPT ![c] = n]
  BY <1>2 DEF write_row
<1>5. changes' \in [Changes -> ChangeRecord] /\ RequestsSayWhat' /\ SentOnce'
  BY <1>1, <1>3, <1>4, OneMoves DEF write_row, indexVars
<1>6. /\ changes[c].op # "delete" => changes[c].text \in Texts
      /\ changes[c].by \in Users \cup {Nothing}
  BY <1>1 DEF Requests
<1>7. /\ rows' \in [WordOrSuggestionId -> Texts \cup {Nothing}]
      /\ authors' \in [WordOrSuggestionId -> Users \cup {Nothing}]
  BY <1>6 DEF TypeInv, TypeOK, write_row
<1> QED
  BY <1>5, <1>7
     DEF TypeInv, TypeOK, write_row, indexVars, countVars, PageRecord, ChangeRecord

LEMMA AwaitLockTyped ==
    ASSUME TypeInv, NEW c \in Changes, await_lock(c)
    PROVE  TypeInv'
<1>1. changes[c] \in Requests /\ changes[c].at = "index"
  BY DEF TypeInv, RequestsSayWhat, await_lock
<1>2. PICK n : n = MovedTo(changes[c], "invalidating")
  OBVIOUS
<1>3. n \in Requests
  BY <1>1, <1>2, MovedType
<1>4. changes' \in [Changes -> ChangeRecord] /\ RequestsSayWhat' /\ SentOnce'
  BY <1>1, <1>2, <1>3, OneMoves DEF await_lock, indexVars
<1>5. lock' \in Seq(Processes \X {"read", "write"})
  BY DEF TypeInv, TypeOK, await_lock, Processes
<1> QED
  BY <1>4, <1>5
     DEF TypeInv, TypeOK, await_lock, indexVars, countVars, PageRecord, ChangeRecord

LEMMA InvalidateTyped ==
    ASSUME TypeInv, NEW c \in Changes, invalidate_all_words_cache(c)
    PROVE  TypeInv'
<1>1. changes[c] \in Requests /\ changes[c].at = "invalidating"
  BY DEF TypeInv, RequestsSayWhat, invalidate_all_words_cache
<1>2. PICK n : n = MovedTo(changes[c], "sending")
  OBVIOUS
<1>3. n \in Requests
  BY <1>1, <1>2, MovedType
<1>4. changes' \in [Changes -> ChangeRecord] /\ RequestsSayWhat' /\ SentOnce'
  BY <1>1, <1>2, <1>3, OneMoves DEF invalidate_all_words_cache, indexVars
<1>5. lock' \in Seq(Processes \X {"read", "write"})
  BY DEF TypeInv, TypeOK, invalidate_all_words_cache, Holds
<1>6. seen' \in 1 .. visible
  BY VisibleIsNumber DEF TypeInv, invalidate_all_words_cache
<1> QED
  BY <1>4, <1>5, <1>6
     DEF TypeInv, TypeOK, invalidate_all_words_cache, indexVars, countVars, PageRecord,
         ChangeRecord

LEMMA SendTyped ==
    ASSUME TypeInv, NEW c \in Changes, send(c)
    PROVE  TypeInv'
<1>1. changes[c] \in Requests /\ changes[c].at = "sending"
  BY DEF TypeInv, RequestsSayWhat, send
<1>2. CASE writer
  <2>1. PICK n : n = MovedTo(changes[c], "sent")
    OBVIOUS
  <2>2. n \in Requests /\ n.at = "sent"
    BY <1>1, <2>1, MovedType
  <2>3. changes' = [changes EXCEPT ![c] = n]
    BY <1>2, <2>1 DEF send
  <2>4. mailbox' = Append(mailbox, c) /\ Len(mailbox) < WriterMailbox
    BY <1>2 DEF send, HasRoom
  <2>5. mailbox' \in Seq(Changes) /\ Len(mailbox') <= WriterMailbox
    BY <2>4, MailboxAssumption DEF TypeInv, TypeOK
  <2>6. changes' \in [Changes -> ChangeRecord] /\ RequestsSayWhat'
    BY <2>2, <2>3, RequestIsRecord DEF TypeInv, TypeOK, RequestsSayWhat
  <2>7. SentOnce'
    <3>1. \A i \in 1 .. Len(mailbox) : mailbox[i] # c
      BY <1>1 DEF TypeInv, SentOnce
    <3>2. /\ Len(mailbox') = Len(mailbox) + 1
          /\ \A i \in 1 .. Len(mailbox) : mailbox'[i] = mailbox[i]
          /\ mailbox'[Len(mailbox) + 1] = c
      BY <2>4 DEF TypeInv, TypeOK
    <3>3. \A i \in 1 .. Len(mailbox') :
            i \in 1 .. Len(mailbox) \/ i = Len(mailbox) + 1
      BY <3>2 DEF TypeInv, TypeOK
    <3>4. \A i \in 1 .. Len(mailbox) : mailbox[i] \in Changes
      BY DEF TypeInv, TypeOK
    <3>5. \A i \in 1 .. Len(mailbox') : changes'[mailbox'[i]].at = "sent"
      BY <2>2, <2>3, <3>1, <3>2, <3>3, <3>4 DEF TypeInv, TypeOK, SentOnce
    <3>6. \A i, j \in 1 .. Len(mailbox') : mailbox'[i] = mailbox'[j] => i = j
      BY <3>1, <3>2, <3>3 DEF TypeInv, SentOnce
    <3> QED  BY <3>5, <3>6 DEF SentOnce
  <2>8. disputed' = disputed
    BY <1>2 DEF send
  <2> QED
    BY <2>5, <2>6, <2>7, <2>8
       DEF TypeInv, TypeOK, send, countVars, PageRecord, ChangeRecord
<1>3. CASE ~writer
  <2>1. /\ changes' = [changes EXCEPT ![c] = NoChange]
        /\ disputed' = disputed \cup {changes[c].id}
        /\ mailbox' = mailbox
    BY <1>3 DEF send
  <2>2. changes' \in [Changes -> ChangeRecord] /\ RequestsSayWhat' /\ SentOnce'
    BY <1>1, <2>1, OneMoves
  <2>3. disputed' \subseteq WordOrSuggestionId
    BY <1>1, <2>1 DEF TypeInv, TypeOK, Requests
  <2> QED
    BY <2>1, <2>2, <2>3
       DEF TypeInv, TypeOK, send, countVars, PageRecord, ChangeRecord
<1> QED  BY <1>2, <1>3 DEF TypeInv, TypeOK

-----------------------------------------------------------------------------
(* The writer, the readers and the faults *)

LEMMA HandleTyped ==
    ASSUME TypeInv, handle
    PROVE  TypeInv'
<1>1. PICK c : c = Head(mailbox)
  OBVIOUS
<1>2. /\ mailbox # <<>> /\ c = mailbox[1] /\ c \in Changes
      /\ 1 \in 1 .. Len(mailbox)
  BY <1>1 DEF TypeInv, TypeOK, handle
<1>3. changes[c].at = "sent" /\ changes[c] \in Requests
  BY <1>2 DEF TypeInv, SentOnce, RequestsSayWhat
<1>4. PICK m : m = changes[c]
  OBVIOUS
<1>5. PICK docs : docs = Apply(Latest, m)
  OBVIOUS
<1>6. docs \in SUBSET Document
  BY <1>3, <1>4, <1>5, LatestType, ApplyType DEF TypeInv
<1>7. commits' = Append(commits, docs)
  BY <1>1, <1>4, <1>5 DEF handle
<1>8. /\ commits' \in Seq(SUBSET Document)
      /\ Len(commits') = Len(commits) + 1
  BY <1>6, <1>7 DEF TypeInv, TypeOK
<1>9. PICK n : n = IF RowFirst(m.op, m.id) THEN NoChange ELSE MovedTo(m, "row")
  OBVIOUS
<1>10. changes' = [changes EXCEPT ![c] = n]
  BY <1>1, <1>4, <1>9 DEF handle
<1>11. n \in Requests \/ n = NoChange
  BY <1>3, <1>4, <1>9, MovedType
<1>12. changes' \in [Changes -> ChangeRecord] /\ RequestsSayWhat'
  BY <1>2, <1>10, <1>11, RequestIsRecord, NoChangeType
     DEF TypeInv, TypeOK, RequestsSayWhat
<1>13. /\ mailbox' \in Seq(Changes) /\ Len(mailbox') = Len(mailbox) - 1
       /\ \A i \in 1 .. Len(mailbox') : mailbox'[i] = mailbox[i + 1]
                                         /\ i + 1 \in 1 .. Len(mailbox)
  BY <1>2 DEF TypeInv, TypeOK, handle
<1>14. SentOnce'
  <2>1. \A i \in 1 .. Len(mailbox') : mailbox'[i] # c
    BY <1>2, <1>13 DEF TypeInv, SentOnce
  <2>2. \A i \in 1 .. Len(mailbox') : mailbox'[i] \in Changes
    BY <1>13
  <2>3. \A i \in 1 .. Len(mailbox') : changes'[mailbox'[i]].at = "sent"
    <3>1. SUFFICES ASSUME NEW i \in 1 .. Len(mailbox')
                   PROVE  changes'[mailbox'[i]].at = "sent"
      OBVIOUS
    <3>2. PICK d : d = mailbox'[i]
      OBVIOUS
    <3>3. d \in Changes /\ d # c /\ changes[d].at = "sent"
      <4>1. mailbox'[i] = mailbox[i + 1] /\ i + 1 \in 1 .. Len(mailbox)
        BY <1>13, <3>1
      <4>2. changes[mailbox[i + 1]].at = "sent"
        BY <4>1 DEF TypeInv, SentOnce
      <4>3. d # c /\ d \in Changes
        BY <2>1, <2>2, <3>1, <3>2
      <4> QED  BY <3>2, <4>1, <4>2, <4>3
    <3> QED  BY <1>10, <3>2, <3>3 DEF TypeInv, TypeOK
  <2>4. \A i, j \in 1 .. Len(mailbox') : mailbox'[i] = mailbox'[j] => i = j
    <3>1. SUFFICES ASSUME NEW i \in 1 .. Len(mailbox'), NEW j \in 1 .. Len(mailbox'),
                          mailbox'[i] = mailbox'[j]
                   PROVE  i = j
      OBVIOUS
    <3>2. mailbox[i + 1] = mailbox[j + 1]
      BY <1>13, <3>1
    <3>3. i + 1 = j + 1
      BY <1>13, <3>2 DEF TypeInv, SentOnce
    <3> QED  BY <1>13, <3>3
  <2> QED  BY <2>3, <2>4 DEF SentOnce
<1>15. visible' \in 1 .. Len(commits') /\ visible' = visible
  BY <1>8, VisibleIsNumber DEF TypeInv, handle
<1>16. Len(mailbox') <= WriterMailbox
  BY <1>13, MailboxAssumption DEF TypeInv, TypeOK
<1>17. PageRecord' = PageRecord
  BY <1>15 DEF PageRecord
<1> QED
  BY <1>8, <1>12, <1>13, <1>14, <1>15, <1>16, <1>17
     DEF TypeInv, TypeOK, handle, countVars, ChangeRecord

\* The readers may go on to any commit that there is.
LEMMA VisibleGrows ==
    ASSUME TypeInv, visible' \in Nat, visible' >= visible
    PROVE  /\ PageRecord \subseteq PageRecord'
           /\ 1 .. visible \subseteq 1 .. visible'
           /\ 0 .. visible \subseteq 0 .. visible'
           /\ visible' \in 1 .. visible'
BY VisibleIsNumber DEF TypeInv, PageRecord

LEMMA ReloadTyped ==
    ASSUME TypeInv, reload
    PROVE  TypeInv'
<1>1. visible' \in 1 .. Len(commits) /\ visible' \in Nat /\ visible' >= visible
  BY VisibleIsNumber DEF TypeInv, reload
<1>2. pages' \in [Pages -> PageRecord']
  BY <1>1, VisibleGrows DEF TypeInv, TypeOK, reload
<1>3. /\ cache \in (1 .. visible') \cup {Nothing}
      /\ seen \in 1 .. visible' /\ shown \in 0 .. visible'
  BY <1>1, VisibleGrows DEF TypeInv, TypeOK
<1> QED
  BY <1>1, <1>2, <1>3
     DEF TypeInv, TypeOK, reload, countVars, RequestsSayWhat, SentOnce, ChangeRecord

LEMMA FaultCounted ==
    ASSUME TypeInv, Fault
    PROVE  faults' \in 0 .. MaxFaults
BY SizesAssumption DEF TypeInv, TypeOK, Fault

LEMMA WriterPanicsTyped ==
    ASSUME TypeInv, writer_panics
    PROVE  TypeInv'
<1>1. PICK lost : lost = {c \in Changes : changes[c].at = "sent"}
  OBVIOUS
<1>2. /\ changes' = [c \in Changes |-> IF c \in lost THEN NoChange ELSE changes[c]]
      /\ disputed' = disputed \cup {changes[c].id : c \in lost}
  BY <1>1 DEF writer_panics
<1>3. changes' \in [Changes -> ChangeRecord] /\ RequestsSayWhat'
  BY <1>2, NoChangeType DEF TypeInv, TypeOK, RequestsSayWhat
<1>4. disputed' \subseteq WordOrSuggestionId
  <2>1. \A c \in lost : changes[c].id \in WordOrSuggestionId
    BY <1>1 DEF TypeInv, RequestsSayWhat, Requests
  <2> QED  BY <1>2, <2>1 DEF TypeInv, TypeOK
<1>5. mailbox' = <<>> /\ SentOnce' /\ mailbox' \in Seq(Changes) /\ Len(mailbox') = 0
  BY DEF writer_panics, SentOnce
<1>6. faults' \in 0 .. MaxFaults
  BY FaultCounted DEF writer_panics
<1>7. writer' \in BOOLEAN
  BY DEF writer_panics
<1> QED
  BY <1>3, <1>4, <1>5, <1>6, <1>7, MailboxAssumption
     DEF TypeInv, TypeOK, writer_panics, PageRecord, ChangeRecord

LEMMA SearcherPanicsTyped ==
    ASSUME TypeInv, searcher_panics
    PROVE  TypeInv'
<1>1. searchers' \in 0 .. NumSearchers
  BY SizesAssumption DEF TypeInv, TypeOK, searcher_panics
<1> QED
  BY <1>1, FaultCounted
     DEF TypeInv, TypeOK, searcher_panics, indexVars, RequestsSayWhat, SentOnce,
         PageRecord, ChangeRecord

LEMMA ReindexedType ==
    ASSUME TypeOK
    PROVE  Reindexed \in SUBSET Document
BY DEF TypeOK, Reindexed, Document

\* A new index is empty first, and then has the words.
LEMMA ReindexedCommits ==
    ASSUME TypeOK, NEW new, new = commits \o <<{}, Reindexed>>
    PROVE  /\ new \in Seq(SUBSET Document) /\ Len(new) = Len(commits) + 2
           /\ new[Len(new)] = Reindexed
<1>1. PICK none \in SUBSET Document : none = {}
  OBVIOUS
<1>2. PICK index \in SUBSET Document : index = Reindexed
  BY ReindexedType
<1>3. PICK two \in Seq(SUBSET Document) : two = <<none, index>>
  <2>1. PICK T : T = SUBSET Document
    OBVIOUS
  <2>2. none \in T /\ index \in T
    BY <2>1
  <2>3. <<none, index>> \in Seq(T)
    BY <2>2
  <2>4. QED
    BY <2>1, <2>3
<1>4. Len(two) = 2 /\ two[2] = index
  BY <1>3
<1>5. commits \in Seq(SUBSET Document) /\ new = commits \o two
  BY <1>1, <1>2, <1>3 DEF TypeOK
<1>6. Len(new) = Len(commits) + 2 /\ new \in Seq(SUBSET Document)
  BY <1>4, <1>5
<1>7. new[Len(commits) + 2] = two[2]
  BY <1>4, <1>5
<1>8. QED
  BY <1>2, <1>4, <1>6, <1>7

\* Either way a start leaves every commit that was visible behind.
LEMMA StartCommits ==
    ASSUME TypeInv, start
    PROVE  /\ commits' \in Seq(SUBSET Document) /\ Len(commits') \in Nat
           /\ visible' \in visible .. Len(commits') /\ visible' \in Nat
           /\ disputed' \subseteq WordOrSuggestionId
<1>1. CASE /\ UNCHANGED commits /\ visible' = Len(commits)
           /\ disputed' = disputed \cup InFlight
  <2>1. InFlight \subseteq WordOrSuggestionId
    BY DEF TypeInv, TypeOK, InFlight, ChangeRecord
  <2> QED  BY <1>1, <2>1, VisibleIsNumber DEF TypeInv, TypeOK
<1>2. CASE /\ commits' = commits \o <<{}, Reindexed>> /\ visible' = Len(commits) + 1
           /\ disputed' = disputed \cup {d \in WordOrSuggestionId : IsSuggestion(d)}
  <2>1. commits' \in Seq(SUBSET Document) /\ Len(commits') = Len(commits) + 2
    BY <1>2, ReindexedCommits DEF TypeInv
  <2> QED  BY <1>2, <2>1, VisibleIsNumber DEF TypeInv, TypeOK
<1> QED  BY <1>1, <1>2 DEF start

LEMMA StartTyped ==
    ASSUME TypeInv, start
    PROVE  TypeInv'
<1>1. /\ commits' \in Seq(SUBSET Document) /\ Len(commits') \in Nat
      /\ visible' \in visible .. Len(commits') /\ visible' \in Nat
      /\ disputed' \subseteq WordOrSuggestionId
  BY StartCommits
<1>2. visible' \in 1 .. Len(commits') /\ seen' \in 1 .. visible'
  BY <1>1, VisibleIsNumber DEF TypeInv, start
<1>3. pages' \in [Pages -> PageRecord']
  BY <1>1, VisibleGrows, PageTypes DEF TypeInv, start
<1>4. changes' \in [Changes -> ChangeRecord] /\ RequestsSayWhat'
  BY NoChangeType DEF start, RequestsSayWhat
<1>5. lock' = <<>> /\ mailbox' = <<>> /\ SentOnce'
  BY DEF start, SentOnce
<1>6. /\ lock' \in Seq(Processes \X {"read", "write"})
      /\ mailbox' \in Seq(Changes) /\ Len(mailbox') <= WriterMailbox
  BY <1>5, MailboxAssumption
<1>7. shown' \in 0 .. visible' /\ searchers' \in 0 .. NumSearchers
  BY <1>1, VisibleGrows, SizesAssumption DEF TypeInv, TypeOK, start
<1> QED
  BY <1>1, <1>2, <1>3, <1>4, <1>5, <1>6, <1>7, FaultCounted
     DEF TypeInv, TypeOK, start, ChangeRecord

LEMMA StutterTyped == TypeInv /\ UNCHANGED vars => TypeInv'
BY DEF TypeInv, TypeOK, vars, indexVars, countVars, RequestsSayWhat, SentOnce, PageRecord,
       ChangeRecord

LEMMA NextTyped == TypeInv /\ [Next]_vars => TypeInv'
<1> SUFFICES ASSUME TypeInv, [Next]_vars PROVE TypeInv'
  OBVIOUS
<1>1. CASE UNCHANGED vars
  BY <1>1, StutterTyped
<1>2. CASE \E p \in Pages : all_words(p)
  BY <1>2, AllWordsTyped
<1>3. CASE \E p \in Pages : PageSteps(p)
  BY <1>3, ReadCacheTyped, GetAllWordsTyped, StoreListTyped DEF PageSteps
<1>4. CASE \E c \in Changes : begin_change(c)
  BY <1>4, BeginTyped
<1>5. CASE \E c \in Changes : ChangeSteps(c)
  BY <1>5, WriteRowTyped, AwaitLockTyped, InvalidateTyped, SendTyped DEF ChangeSteps
<1>6. CASE handle \/ reload
  BY <1>6, HandleTyped, ReloadTyped
<1>7. CASE writer_panics \/ searcher_panics \/ start
  BY <1>7, WriterPanicsTyped, SearcherPanicsTyped, StartTyped
<1> QED  BY <1>1, <1>2, <1>3, <1>4, <1>5, <1>6, <1>7 DEF Next, Work

THEOREM Typed == Spec => []TypeInv
<1> QED  BY InitTyped, NextTyped, PTL DEF Spec

\* The state of the search index has its types, and the writer's mailbox never
\* holds more than its size.
THEOREM TypeCorrect == Spec => []TypeOK
<1>1. TypeInv => TypeOK
  BY DEF TypeInv
<1> QED  BY <1>1, Typed, PTL

-----------------------------------------------------------------------------
(* The list of all words *)

\* A page that has asked the searchers has the lock to itself, and neither what
\* they said nor what the cache holds is older than the last invalidation or
\* than the list that was shown last.
ListInv ==
    /\ \A p \in Pages : pages[p].at = "storing" =>
          /\ Holds(p, "write")
          /\ pages[p].list >= seen
          /\ pages[p].list >= shown
    /\ cache # Nothing => cache >= seen /\ cache >= shown

Inv == TypeInv /\ ListInv

LEMMA InitListed == Init => ListInv
BY DEF Init, ListInv, Idle, Page

\* Who comes later waits at the end.
LEMMA StillHolds ==
    ASSUME TypeOK, NEW w \in Processes \X {"read", "write"}, lock' = Append(lock, w),
           NEW p \in Pages, Holds(p, "write")
    PROVE  Holds(p, "write")'
BY DEF TypeOK, Holds

\* Nobody else has it.
LEMMA OneHolds ==
    ASSUME NEW p, NEW q, NEW m, NEW n, Holds(p, m), Holds(q, n)
    PROVE  p = q /\ m = n
BY DEF Holds

LEMMA AllWordsListed ==
    ASSUME Inv, NEW p \in Pages, all_words(p)
    PROVE  ListInv'
<1>1. lock' = Append(lock, <<p, "read">>)
      /\ <<p, "read">> \in Processes \X {"read", "write"}
  BY DEF all_words, Processes
<1>2. \A q \in Pages : pages'[q].at = "storing" => pages'[q] = pages[q]
  BY DEF Inv, TypeInv, TypeOK, all_words, Page
<1>3. cache' = cache /\ seen' = seen /\ shown' = shown
  BY DEF all_words
<1>4. \A q \in Pages : pages'[q].at = "storing" => Holds(q, "write")'
  BY <1>1, <1>2, StillHolds DEF Inv, TypeInv, ListInv
<1> QED  BY <1>2, <1>3, <1>4 DEF Inv, ListInv

\* Whoever holds the lock is the only page that may be storing.
LEMMA OthersNotStoring ==
    ASSUME Inv, NEW x \in Processes, NEW mode, Holds(x, mode),
           NEW q \in Pages, q # x
    PROVE  pages[q].at # "storing"
BY OneHolds DEF Inv, ListInv

LEMMA ReadCacheListed ==
    ASSUME Inv, NEW p \in Pages, read_cache(p)
    PROVE  ListInv'
<1>1. Holds(p, "read") /\ p \in Processes
  BY DEF read_cache, Processes
<1>2. \A q \in Pages : pages'[q].at # "storing"
  <2>1. \A q \in Pages : q # p => pages[q].at # "storing"
    BY <1>1, OthersNotStoring
  <2> QED  BY <2>1 DEF Inv, TypeInv, TypeOK, read_cache, Show, Page, Idle
<1>3. cache' = cache /\ seen' = seen
  BY DEF read_cache
<1>4. cache # Nothing => shown' = cache
  BY DEF read_cache, Show
<1>5. cache # Nothing => cache >= shown'
  BY <1>4, VisibleIsNumber DEF Inv, TypeInv, TypeOK
<1> QED  BY <1>2, <1>3, <1>5 DEF Inv, ListInv

LEMMA GetAllWordsListed ==
    ASSUME Inv, NEW p \in Pages, get_all_words(p)
    PROVE  ListInv'
<1>1. Holds(p, "write") /\ p \in Processes
  BY DEF get_all_words, Processes
<1>2. \A q \in Pages : q # p => pages'[q].at # "storing"
  <2>1. \A q \in Pages : q # p => pages[q].at # "storing"
    BY <1>1, OthersNotStoring
  <2> QED  BY <2>1 DEF Inv, TypeInv, TypeOK, get_all_words
<1>3. cache' = cache /\ seen' = seen /\ shown' = shown
  BY DEF get_all_words
<1>4. pages'[p].at = "storing" =>
        lock' = lock /\ pages'[p].list = visible
  BY DEF Inv, TypeInv, TypeOK, get_all_words, Page, Idle
<1>5. visible >= seen /\ visible >= shown
  BY VisibleIsNumber DEF Inv, TypeInv, TypeOK
<1>6. pages'[p].at = "storing" => Holds(p, "write")'
  BY <1>1, <1>4 DEF Holds
<1> QED  BY <1>2, <1>3, <1>4, <1>5, <1>6 DEF Inv, ListInv

LEMMA StoreListListed ==
    ASSUME Inv, NEW p \in Pages, store_list(p)
    PROVE  ListInv'
<1>1. Holds(p, "write") /\ p \in Processes
  BY DEF store_list, Processes
<1>2. \A q \in Pages : pages'[q].at # "storing"
  <2>1. \A q \in Pages : q # p => pages[q].at # "storing"
    BY <1>1, OthersNotStoring
  <2> QED  BY <2>1 DEF Inv, TypeInv, TypeOK, store_list, Show, Page, Idle
<1>3. cache' = pages[p].list /\ shown' = pages[p].list /\ seen' = seen
  BY DEF store_list, Show
<1>4. pages[p].list >= seen /\ pages[p].list \in Nat
  BY VisibleIsNumber DEF Inv, TypeInv, TypeOK, ListInv, store_list, PageRecord
<1> QED  BY <1>2, <1>3, <1>4 DEF ListInv

\* Steps that neither take the lock nor show a list.
LEMMA ElsewhereListed ==
    ASSUME Inv, UNCHANGED <<pages, cache, lock, seen, shown>>
    PROVE  ListInv'
BY DEF Inv, ListInv, Holds

LEMMA AwaitLockListed ==
    ASSUME Inv, NEW c \in Changes, await_lock(c)
    PROVE  ListInv'
<1>1. lock' = Append(lock, <<c, "write">>)
      /\ <<c, "write">> \in Processes \X {"read", "write"}
  BY DEF await_lock, Processes
<1>2. cache' = cache /\ seen' = seen /\ shown' = shown /\ pages' = pages
  BY DEF await_lock
<1>3. \A q \in Pages : pages'[q].at = "storing" => Holds(q, "write")'
  BY <1>1, <1>2, StillHolds DEF Inv, TypeInv, ListInv
<1> QED  BY <1>2, <1>3 DEF Inv, ListInv

LEMMA InvalidateListed ==
    ASSUME Inv, NEW c \in Changes, invalidate_all_words_cache(c)
    PROVE  ListInv'
<1>1. Holds(c, "write") /\ c \in Processes
  BY DEF invalidate_all_words_cache, Processes
<1>2. \A q \in Pages : q # c
  BY DEF Pages, Changes
<1>3. \A q \in Pages : pages[q].at # "storing"
  BY <1>1, <1>2, OthersNotStoring
<1> QED  BY <1>3 DEF ListInv, invalidate_all_words_cache

LEMMA StartListed ==
    ASSUME Inv, start
    PROVE  ListInv'
BY DEF ListInv, start, Page, Idle

LEMMA NextListed == Inv /\ [Next]_vars => ListInv'
<1> SUFFICES ASSUME Inv, [Next]_vars PROVE ListInv'
  OBVIOUS
<1>1. CASE UNCHANGED vars
  BY <1>1, ElsewhereListed DEF vars
<1>2. CASE \E p \in Pages : all_words(p)
  BY <1>2, AllWordsListed
<1>3. CASE \E p \in Pages : PageSteps(p)
  BY <1>3, ReadCacheListed, GetAllWordsListed, StoreListListed DEF PageSteps
<1>4. CASE \E c \in Changes : begin_change(c) \/ write_row(c) \/ send(c)
  BY <1>4, ElsewhereListed DEF begin_change, write_row, send
<1>5. CASE \E c \in Changes : await_lock(c) \/ invalidate_all_words_cache(c)
  BY <1>5, AwaitLockListed, InvalidateListed
<1>6. CASE handle \/ reload
  BY <1>6, ElsewhereListed DEF handle, reload
<1>7. CASE writer_panics \/ searcher_panics
  BY <1>7, ElsewhereListed DEF writer_panics, searcher_panics
<1>8. CASE start
  BY <1>8, StartListed
<1> QED
  BY <1>1, <1>2, <1>3, <1>4, <1>5, <1>6, <1>7, <1>8 DEF Next, Work, ChangeSteps

THEOREM ListKept == Spec => []Inv
<1>1. Init => Inv
  BY InitTyped, InitListed DEF Inv
<1>2. Inv /\ [Next]_vars => Inv'
  BY NextTyped, NextListed DEF Inv
<1> QED  BY <1>1, <1>2, PTL DEF Spec

-----------------------------------------------------------------------------
(* Every step is one of WordList's, or none *)

LEMMA InitPromised == Init => List!Init
BY DEF Init, List!Init

LEMMA PagePromised ==
    ASSUME Inv, NEW p \in Pages, PageSteps(p)
    PROVE  List!Show \/ UNCHANGED <<visible, seen, shown>>
<1>1. visible \in Nat /\ seen \in Nat /\ shown \in Nat
  BY VisibleIsNumber DEF Inv, TypeInv, TypeOK
<1>2. CASE read_cache(p) /\ cache # Nothing
  <2>1. shown' = cache /\ visible' = visible /\ seen' = seen
    BY <1>2 DEF read_cache, Show, indexVars
  <2>2. cache \in 1 .. visible /\ cache >= seen /\ cache >= shown
    BY <1>2 DEF Inv, TypeInv, TypeOK, ListInv
  <2> QED  BY <1>1, <2>1, <2>2 DEF List!Show
<1>3. CASE read_cache(p) /\ cache = Nothing
  BY <1>3 DEF read_cache, indexVars
<1>4. CASE get_all_words(p)
  BY <1>4 DEF get_all_words, indexVars
<1>5. CASE store_list(p)
  <2>1. shown' = pages[p].list /\ visible' = visible /\ seen' = seen
    BY <1>5 DEF store_list, Show, indexVars
  <2>2. pages[p].at = "storing"
    BY <1>5 DEF store_list
  <2>3. pages[p].list \in 1 .. visible
    BY <2>2 DEF Inv, TypeInv, TypeOK, PageRecord
  <2>4. pages[p].list >= seen /\ pages[p].list >= shown
    BY <2>2 DEF Inv, ListInv
  <2> QED  BY <1>1, <2>1, <2>3, <2>4 DEF List!Show
<1> QED  BY <1>2, <1>3, <1>4, <1>5 DEF PageSteps

LEMMA NextPromised == Inv /\ [Next]_vars => [List!Next]_(List!listVars)
<1> SUFFICES ASSUME Inv, [Next]_vars
             PROVE  List!Next \/ UNCHANGED <<visible, seen, shown>>
  BY DEF List!listVars
<1>1. CASE UNCHANGED vars
  BY <1>1 DEF vars, indexVars
<1>2. CASE \E p \in Pages : all_words(p)
  BY <1>2 DEF all_words, indexVars
<1>3. CASE \E p \in Pages : PageSteps(p)
  BY <1>3, PagePromised DEF List!Next
<1>4. CASE \E c \in Changes : begin_change(c) \/ write_row(c) \/ await_lock(c) \/ send(c)
  BY <1>4 DEF begin_change, write_row, await_lock, send, indexVars
<1>5. CASE \E c \in Changes : invalidate_all_words_cache(c)
  BY <1>5 DEF invalidate_all_words_cache, indexVars, List!Forget, List!Next
<1>6. CASE handle \/ writer_panics \/ searcher_panics
  BY <1>6 DEF handle, writer_panics, searcher_panics, indexVars
<1>7. CASE reload
  <2>1. visible' = Len(commits) /\ visible' \in Nat /\ visible' > visible
    BY <1>7, VisibleIsNumber DEF Inv, TypeInv, reload
  <2> QED  BY <1>7, <2>1 DEF reload, List!Publish, List!Next
<1>8. CASE start
  <2>1. visible' \in Nat /\ visible' >= visible
    BY <1>8, StartCommits DEF Inv
  <2> QED  BY <1>8, <2>1 DEF start, List!Restart, List!Next
<1> QED
  BY <1>1, <1>2, <1>3, <1>4, <1>5, <1>6, <1>7, <1>8 DEF Next, Work, ChangeSteps

\* The cache, its lock and the searchers do what WordList promises of the list
\* of all words, however many pages and changes there are at one time and
\* however large the mailbox is.
THEOREM ListPromiseKept == Spec => ListAsPromised
<1>1. Init => List!Init
  BY InitPromised
<1>2. Inv /\ [Next]_vars => [List!Next]_(List!listVars)
  BY NextPromised
<1> QED  BY <1>1, <1>2, ListKept, PTL DEF Spec, ListAsPromised, List!Spec

-----------------------------------------------------------------------------
(* The index follows the rows *)

\* What the index holds of a word or a suggestion, and that it is what its row
\* says, once.
Found(d) == {x \in Latest : x.id = d}

Agrees(d) ==
    IF rows[d] = Nothing THEN Found(d) = {}
    ELSE \E x \in Latest : Found(d) = {x} /\ x.text = rows[d]

UnderWay(c) == changes[c].at # "idle"

\* What a request relies on between its two halves: until it has written the
\* row, the two agree (or, of a suggestion that is deleted, the index has nothing
\* left); from then on, the row is as it asked, and the index has nothing yet of
\* what is being added.
Halfway(m) ==
    IF m.at = "row"
    THEN IF RowFirst(m.op, m.id)
         THEN Agrees(m.id) /\ (m.op = "add" => rows[m.id] = Nothing)
         ELSE Found(m.id) = {}
    ELSE RowFirst(m.op, m.id) =>
            /\ rows[m.id] = m.text
            /\ m.op = "add" => Found(m.id) = {}

\* Ids are not given out again, as their rows have had authors; of two requests
\* about one id it is disputed; and unless it is, the one that is under way, or
\* nobody, accounts for the difference between its row and the index.
IdsAreNew == \A d \in WordOrSuggestionId : rows[d] # Nothing => authors[d] # Nothing

AloneOrDisputed ==
    \A c, e \in Changes :
        UnderWay(c) /\ UnderWay(e) /\ changes[c].id = changes[e].id =>
            c = e \/ changes[c].id \in disputed

AllHalfway ==
    \A c \in Changes : UnderWay(c) => changes[c].id \in disputed \/ Halfway(changes[c])

AtRest == \A d \in WordOrSuggestionId \ (disputed \cup InFlight) : Agrees(d)

Following == IdsAreNew /\ AloneOrDisputed /\ AllHalfway /\ AtRest

LEMMA RequestShape ==
    ASSUME NEW m \in Requests
    PROVE  /\ m.id \in WordOrSuggestionId /\ m.at # "idle"
           /\ m.op \in {"add", "edit", "delete"}
           /\ m.op # "delete" => m.text \in Texts /\ m.by \in Users
           /\ m.op = "delete" => m.text = Nothing /\ m.by = Nothing
BY DEF Requests

LEMMA OneRequest ==
    ASSUME TypeInv, NEW c \in Changes, UnderWay(c)
    PROVE  changes[c] \in Requests
BY DEF TypeInv, RequestsSayWhat, UnderWay

LEMMA InFlightIs ==
    \A d : d \in InFlight <=> \E c \in Changes : UnderWay(c) /\ changes[c].id = d
BY DEF InFlight, UnderWay

\* Who is not disputed is alone.
LEMMA Alone ==
    ASSUME Following, NEW c \in Changes, UnderWay(c), changes[c].id \notin disputed,
           NEW e \in Changes, UnderWay(e), e # c
    PROVE  changes[e].id # changes[c].id
BY DEF Following, AloneOrDisputed

\* Steps that leave the rows and the latest commit alone, and of the requests
\* only where some of them are.
LEMMA MovedFollowing ==
    ASSUME TypeInv, Following, NEW c \in Changes, NEW at, UnderWay(c),
           NEW n, n = MovedTo(changes[c], at), changes' = [changes EXCEPT ![c] = n],
           changes[c].at # "row", at \notin {"row", "idle"},
           UNCHANGED <<rows, authors, commits, disputed>>
    PROVE  Following'
<1>1. /\ changes'[c].at = at /\ changes'[c].op = changes[c].op
      /\ changes'[c].id = changes[c].id /\ changes'[c].text = changes[c].text
  <2>1. changes[c] \in Requests
    BY OneRequest
  <2>2. QED
    BY <2>1 DEF TypeInv, TypeOK, MovedTo, Requests
<1>2. \A e \in Changes : e # c => changes'[e] = changes[e]
  BY DEF TypeInv, TypeOK
<1>3. \A e \in Changes : UnderWay(e)' <=> UnderWay(e)
  BY <1>1, <1>2 DEF UnderWay
<1>4. \A e \in Changes : changes'[e].id = changes[e].id
  BY <1>1, <1>2
<1>5. InFlight' = InFlight
  BY <1>3, <1>4, InFlightIs DEF InFlight, UnderWay
<1>6. /\ \A d : Found(d)' = Found(d) /\ Latest' = Latest
      /\ \A d : Agrees(d)' <=> Agrees(d)
  BY DEF Found, Latest, Agrees
<1>7. QED
  BY <1>1, <1>2, <1>3, <1>4, <1>5, <1>6
     DEF Following, IdsAreNew, AloneOrDisputed, AllHalfway, AtRest, Halfway

\* The step of one request, which touches what it is about and nothing else.
LEMMA OneFollows ==
    ASSUME TypeInv, Following, NEW c \in Changes, NEW n, NEW d,
           changes' = [changes EXCEPT ![c] = n],
           UnderWay(c) => changes[c].id = d,
           n.at # "idle" => n.id = d,
           \A e \in Changes : e # c /\ UnderWay(e) /\ changes[e].id = d => d \in disputed',
           disputed \subseteq disputed',
           \A x \in WordOrSuggestionId :
              x # d => rows'[x] = rows[x] /\ Found(x)' = Found(x),
           IdsAreNew',
           d \in disputed' \/ (IF n.at = "idle" THEN Agrees(d)' ELSE Halfway(n)')
    PROVE  Following'
<1>1. changes'[c] = n /\ \A e \in Changes : e # c => changes'[e] = changes[e]
  BY DEF TypeInv, TypeOK
<1>2. \A x \in WordOrSuggestionId : x # d => (Agrees(x)' <=> Agrees(x))
  BY DEF Agrees, Found
<1>3. \A e \in Changes :
         UnderWay(e) => changes[e] \in Requests /\ changes[e].id \in WordOrSuggestionId
  BY OneRequest, RequestShape
<1>4. \A e \in Changes : e # c => (UnderWay(e)' <=> UnderWay(e))
  BY <1>1 DEF UnderWay
<1>5. AloneOrDisputed'
  BY <1>1, <1>4 DEF Following, AloneOrDisputed, UnderWay
<1>6. AllHalfway'
  <2> SUFFICES ASSUME NEW e \in Changes, UnderWay(e)', changes'[e].id \notin disputed'
               PROVE  Halfway(changes[e])'
    BY DEF AllHalfway
  <2>1. CASE e = c
    BY <1>1, <2>1 DEF UnderWay
  <2>2. CASE e # c
    <3>1. UnderWay(e) /\ changes'[e] = changes[e] /\ changes[e].id # d
      BY <1>1, <1>4, <2>2
    <3>2. Halfway(changes[e])
      BY <3>1 DEF Following, AllHalfway
    <3>3. PICK x \in WordOrSuggestionId : x = changes[e].id
      BY <1>3, <3>1
    <3>4. rows'[x] = rows[x] /\ Found(x)' = Found(x) /\ (Agrees(x)' <=> Agrees(x))
      BY <1>2, <3>1, <3>3
    <3>5. QED
      BY <3>1, <3>2, <3>3, <3>4 DEF Halfway
  <2>3. QED
    BY <2>1, <2>2
<1>7. AtRest'
  <2> SUFFICES ASSUME NEW x \in WordOrSuggestionId, x \notin disputed', x \notin InFlight'
               PROVE  Agrees(x)'
    BY DEF AtRest
  <2>1. CASE x = d
    <3>1. n.at = "idle"
      BY <1>1, <2>1 DEF InFlight
    <3>2. QED
      BY <2>1, <3>1
  <2>2. CASE x # d
    <3>1. \A e \in Changes : UnderWay(e) => changes[e].id # x
      BY <1>1, <1>4, <2>2 DEF InFlight, UnderWay
    <3>2. Agrees(x)
      BY <3>1, InFlightIs DEF Following, AtRest
    <3>3. QED
      BY <1>2, <2>2, <3>2
  <2>3. QED
    BY <2>1, <2>2
<1>8. QED
  BY <1>5, <1>6, <1>7 DEF Following

LEMMA BeginFollowing ==
    ASSUME TypeInv, Following, NEW c \in Changes, begin_change(c)
    PROVE  Following'
<1>1. PICK m \in Asked :
        /\ changes' = [changes EXCEPT ![c] =
                         [at |-> IF RowFirst(m.op, m.id) THEN "row" ELSE "index",
                          op |-> m.op, id |-> m.id, text |-> m.text, by |-> m.by]]
        /\ disputed' = IF m.id \in InFlight THEN disputed \cup {m.id} ELSE disputed
  BY DEF begin_change
<1>2. PICK n : n = [at |-> IF RowFirst(m.op, m.id) THEN "row" ELSE "index",
                    op |-> m.op, id |-> m.id, text |-> m.text, by |-> m.by]
  OBVIOUS
<1>3. PICK d : d = m.id
  OBVIOUS
<1>4. /\ n.id = d /\ n.op = m.op /\ n.at \in {"row", "index"}
      /\ n.at = "row" <=> RowFirst(n.op, n.id)
      /\ d \in WordOrSuggestionId
  BY <1>2, <1>3 DEF Asked, NextOf, Present
<1>5. ~UnderWay(c)
  BY DEF begin_change, FirstFree, UnderWay
<1>6. \A e \in Changes : e # c /\ UnderWay(e) /\ changes[e].id = d => d \in disputed'
  BY <1>1, <1>3, InFlightIs
<1>7. UNCHANGED <<rows, authors, commits>>
  BY DEF begin_change, indexVars
<1>8. \A x : Found(x)' = Found(x) /\ (Agrees(x)' <=> Agrees(x))
  BY <1>7 DEF Found, Latest, Agrees
<1>9. d \notin disputed' => Agrees(d) /\ d \notin InFlight
  BY <1>1, <1>3, <1>4 DEF Following, AtRest
<1>10. n.op = "add" => rows[d] = Nothing
  BY <1>2, <1>3, <1>4 DEF Asked, NextOf, Following, IdsAreNew
<1>11. d \notin disputed' => Halfway(n)'
  BY <1>4, <1>7, <1>8, <1>9, <1>10 DEF Halfway
<1>12. IdsAreNew' /\ disputed \subseteq disputed'
  BY <1>1, <1>7 DEF Following, IdsAreNew
<1>13. changes' = [changes EXCEPT ![c] = n] /\ n.at # "idle"
  BY <1>1, <1>2, <1>4
<1>14. QED
  BY <1>4, <1>5, <1>6, <1>7, <1>8, <1>11, <1>12, <1>13, OneFollows

LEMMA WriteRowFollowing ==
    ASSUME TypeInv, Following, NEW c \in Changes, write_row(c)
    PROVE  Following'
<1>1. UnderWay(c) /\ changes[c].at = "row" /\ changes[c] \in Requests
  BY OneRequest DEF write_row, UnderWay
<1>2. PICK m : m = changes[c]
  OBVIOUS
<1>3. PICK d : d = m.id
  OBVIOUS
<1>4. /\ m \in Requests /\ d \in WordOrSuggestionId /\ m.at = "row"
      /\ m.op \in {"add", "edit", "delete"}
      /\ m.op # "delete" => m.text \in Texts /\ m.by \in Users
      /\ m.op = "delete" => m.text = Nothing
  BY <1>1, <1>2, <1>3, RequestShape
<1>5. /\ rows' = [rows EXCEPT ![d] = m.text]
      /\ authors' = [authors EXCEPT ![d] = IF @ = Nothing THEN m.by ELSE @]
      /\ UNCHANGED <<commits, disputed>>
  BY <1>2, <1>3, <1>4 DEF write_row, indexVars
<1>6. IdsAreNew'
  BY <1>4, <1>5, NothingAssumption DEF Following, IdsAreNew, TypeInv, TypeOK
<1>7. \A x : Found(x)' = Found(x)
  BY <1>5 DEF Found, Latest
<1>8. rows'[d] = m.text /\ \A x \in WordOrSuggestionId : x # d => rows'[x] = rows[x]
  BY <1>4, <1>5 DEF TypeInv, TypeOK
<1>9. d \notin disputed' => Halfway(m)
  BY <1>1, <1>2, <1>3, <1>5 DEF Following, AllHalfway
<1>10. PICK n : n = IF RowFirst(m.op, m.id) THEN MovedTo(m, "index") ELSE NoChange
  OBVIOUS
<1>11. changes' = [changes EXCEPT ![c] = n]
  BY <1>2, <1>10 DEF write_row
<1>12. n.at # "idle" => /\ RowFirst(m.op, m.id) /\ n.at = "index" /\ n.id = d
                        /\ n.op = m.op /\ n.text = m.text
  <2>1. CASE RowFirst(m.op, m.id)
    <3>1. n = MovedTo(m, "index")
      BY <1>10, <2>1
    <3>2. QED
      BY <1>3, <1>4, <2>1, <3>1 DEF MovedTo, Requests
  <2>2. QED
    BY <1>10, <2>1, NoChangeType
<1>13. d \notin disputed' => IF n.at = "idle" THEN Agrees(d)' ELSE Halfway(n)'
  <2> SUFFICES ASSUME d \notin disputed'
               PROVE  IF n.at = "idle" THEN Agrees(d)' ELSE Halfway(n)'
    OBVIOUS
  <2>1. CASE n.at = "idle"
    <3>1. ~RowFirst(m.op, m.id)
      BY <1>4, <1>10, <2>1, MovedType
    <3>2. Found(d) = {} /\ m.text = Nothing
      BY <1>3, <1>4, <1>9, <3>1 DEF Halfway, RowFirst
    <3>3. QED
      BY <1>7, <1>8, <2>1, <3>2 DEF Agrees
  <2>2. CASE n.at # "idle"
    <3>1. m.op = "add" => Found(d) = {}
      BY <1>3, <1>4, <1>9, <1>12, <2>2 DEF Halfway, Agrees
    <3>2. Halfway(n)'
      BY <1>7, <1>8, <1>12, <2>2, <3>1 DEF Halfway
    <3>3. QED
      BY <2>2, <3>2
  <2>3. QED
    BY <2>1, <2>2
<1>14. \A e \in Changes : e # c /\ UnderWay(e) /\ changes[e].id = d => d \in disputed'
  BY <1>1, <1>2, <1>3, <1>5, Alone
<1>15. UnderWay(c) => changes[c].id = d
  BY <1>2, <1>3
<1>16. QED
  BY <1>5, <1>6, <1>7, <1>8, <1>11, <1>12, <1>13, <1>14, <1>15, OneFollows

LEMMA SendFollowing ==
    ASSUME TypeInv, Following, NEW c \in Changes, send(c)
    PROVE  Following'
<1>1. UnderWay(c) /\ changes[c].at = "sending"
  BY DEF send, UnderWay
<1>2. CASE writer
  <2>1. PICK n : n = MovedTo(changes[c], "sent")
    OBVIOUS
  <2>2. /\ changes' = [changes EXCEPT ![c] = n]
        /\ UNCHANGED <<rows, authors, commits, disputed>>
    BY <1>2, <2>1 DEF send
  <2>3. QED
    BY <1>1, <2>1, <2>2, MovedFollowing
<1>3. CASE ~writer
  <2>1. PICK d : d = changes[c].id
    OBVIOUS
  <2>2. PICK n : n = NoChange
    OBVIOUS
  <2>3. /\ changes' = [changes EXCEPT ![c] = n] /\ disputed' = disputed \cup {d}
        /\ UNCHANGED <<rows, authors, commits>>
    BY <1>3, <2>1, <2>2 DEF send
  <2>4. n.at = "idle"
    BY <2>2, NoChangeType
  <2>5. /\ \A x : Found(x)' = Found(x) /\ rows'[x] = rows[x]
        /\ IdsAreNew'
    BY <2>3 DEF Found, Latest, Following, IdsAreNew
  <2>6. d \in disputed' /\ disputed \subseteq disputed'
    BY <2>3
  <2>7. QED
    BY <2>1, <2>3, <2>4, <2>5, <2>6, OneFollows
<1>4. QED
  BY <1>2, <1>3

LEMMA AwaitLockFollowing ==
    ASSUME TypeInv, Following, NEW c \in Changes, await_lock(c)
    PROVE  Following'
<1>1. UnderWay(c) /\ changes[c].at = "index"
  BY DEF await_lock, UnderWay
<1>2. PICK n : n = MovedTo(changes[c], "invalidating")
  OBVIOUS
<1>3. /\ changes' = [changes EXCEPT ![c] = n]
      /\ UNCHANGED <<rows, authors, commits, disputed>>
  BY <1>2 DEF await_lock, indexVars
<1>4. QED
  BY <1>1, <1>2, <1>3, MovedFollowing

LEMMA InvalidateFollowing ==
    ASSUME TypeInv, Following, NEW c \in Changes, invalidate_all_words_cache(c)
    PROVE  Following'
<1>1. UnderWay(c) /\ changes[c].at = "invalidating"
  BY DEF invalidate_all_words_cache, UnderWay
<1>2. PICK n : n = MovedTo(changes[c], "sending")
  OBVIOUS
<1>3. /\ changes' = [changes EXCEPT ![c] = n]
      /\ UNCHANGED <<rows, authors, commits, disputed>>
  BY <1>2 DEF invalidate_all_words_cache, indexVars
<1>4. QED
  BY <1>1, <1>2, <1>3, MovedFollowing

\* What a message makes of the index: of other ids nothing, and of its own what
\* the request asked for.
LEMMA ApplyFinds ==
    ASSUME NEW index, NEW m \in Requests
    PROVE  /\ \A d : d # m.id =>
                 {x \in Apply(index, m) : x.id = d} = {x \in index : x.id = d}
           /\ m.op = "delete" => {x \in Apply(index, m) : x.id = m.id} = {}
           /\ (m.op = "edit" \/ (m.op = "add" /\ {x \in index : x.id = m.id} = {})) =>
                 /\ {x \in Apply(index, m) : x.id = m.id} = {DocumentOf(m)}
                 /\ DocumentOf(m).text = m.text
<1>1. DocumentOf(m).id = m.id /\ DocumentOf(m).text = m.text
  BY DEF DocumentOf
<1>2. CASE m.op = "delete"
  BY <1>2 DEF Apply, Term
<1>3. CASE m.op = "edit"
  <2>1. Apply(index, m) = {x \in index : x.id # m.id} \cup {DocumentOf(m)}
    BY <1>3 DEF Apply, Term
  <2>2. QED
    BY <1>1, <1>3, <2>1
<1>4. CASE m.op = "add"
  <2>1. Apply(index, m) = index \cup {DocumentOf(m)}
    BY <1>4 DEF Apply
  <2>2. QED
    BY <1>1, <1>4, <2>1
<1>5. QED
  BY <1>2, <1>3, <1>4, RequestShape

LEMMA HandleFollowing ==
    ASSUME TypeInv, Following, handle
    PROVE  Following'
<1>1. PICK c : c = Head(mailbox)
  OBVIOUS
<1>2. c \in Changes /\ changes[c].at = "sent"
  BY <1>1 DEF handle, TypeInv, TypeOK, SentOnce
<1>3. UnderWay(c) /\ changes[c] \in Requests
  BY <1>2, OneRequest DEF UnderWay
<1>4. PICK m : m = changes[c]
  OBVIOUS
<1>5. PICK d : d = m.id
  OBVIOUS
<1>6. PICK n : n = IF RowFirst(m.op, m.id) THEN NoChange ELSE MovedTo(m, "row")
  OBVIOUS
<1>7. /\ changes' = [changes EXCEPT ![c] = n]
      /\ UNCHANGED <<rows, authors, disputed>>
  BY <1>1, <1>4, <1>6 DEF handle
<1>8. Latest' = Apply(Latest, m)
  <2>1. PICK index : index = Apply(Latest, m)
    OBVIOUS
  <2>2. commits' = Append(commits, index)
    BY <1>1, <1>4, <2>1 DEF handle
  <2>3. index \in SUBSET Document
    BY <1>3, <1>4, <2>1, LatestType, ApplyType DEF TypeInv
  <2>4. Len(commits') = Len(commits) + 1 /\ commits'[Len(commits) + 1] = index
    BY <2>2, <2>3 DEF TypeInv, TypeOK
  <2>5. QED
    BY <2>1, <2>4 DEF Latest
<1>9. /\ m \in Requests /\ m.op \in {"add", "edit", "delete"}
      /\ m.op # "delete" => m.text \in Texts
      /\ m.op = "delete" => m.text = Nothing
  BY <1>3, <1>4, RequestShape
<1>10. /\ \A x : x # d => Found(x)' = Found(x)
       /\ m.op = "delete" => Found(d)' = {}
       /\ (m.op = "edit" \/ (m.op = "add" /\ Found(d) = {})) =>
             Found(d)' = {DocumentOf(m)} /\ DocumentOf(m).text = m.text
  BY <1>5, <1>8, <1>9, ApplyFinds DEF Found
<1>11. d \notin disputed' => IF n.at = "idle" THEN Agrees(d)' ELSE Halfway(n)'
  <2> SUFFICES ASSUME d \notin disputed
               PROVE  IF n.at = "idle" THEN Agrees(d)' ELSE Halfway(n)'
    BY <1>7
  <2>1. Halfway(m)
    BY <1>2, <1>3, <1>4, <1>5 DEF Following, AllHalfway
  <2>2. CASE RowFirst(m.op, m.id)
    <3>1. n.at = "idle"
      BY <1>6, <2>2, NoChangeType
    <3>2. rows'[d] = m.text /\ (m.op = "add" => Found(d) = {})
      BY <1>2, <1>4, <1>5, <1>7, <2>1, <2>2 DEF Halfway
    <3>3. CASE m.op = "delete"
      BY <1>9, <1>10, <3>1, <3>2, <3>3 DEF Agrees
    <3>4. CASE m.op # "delete"
      <4>1. Found(d)' = {DocumentOf(m)} /\ DocumentOf(m).text = m.text
        BY <1>9, <1>10, <3>2, <3>4
      <4>2. DocumentOf(m) \in Latest'
        BY <4>1 DEF Found
      <4>3. rows'[d] # Nothing
        BY <1>9, <3>2, <3>4, NothingAssumption
      <4>4. Agrees(d)'
        BY <3>2, <4>1, <4>2, <4>3 DEF Agrees
      <4>5. QED
        BY <3>1, <4>4
    <3>5. QED
      BY <3>3, <3>4
  <2>3. CASE ~RowFirst(m.op, m.id)
    <3>1. /\ n \in Requests /\ n.at = "row" /\ n.id = d /\ n.op = m.op
      <4>1. n = MovedTo(m, "row")
        BY <1>6, <2>3
      <4>2. QED
        BY <1>5, <1>9, <4>1, MovedType DEF MovedTo, Requests
    <3>2. m.op = "delete" /\ ~RowFirst(n.op, n.id)
      BY <1>5, <2>3, <3>1 DEF RowFirst
    <3>3. Halfway(n)'
      BY <1>10, <3>1, <3>2 DEF Halfway
    <3>4. QED
      BY <3>1, <3>3
  <2>4. QED
    BY <2>2, <2>3
<1>12. n.at # "idle" => n.id = d
  BY <1>5, <1>6, <1>9, MovedType, NoChangeType
<1>13. \A e \in Changes : e # c /\ UnderWay(e) /\ changes[e].id = d => d \in disputed'
  BY <1>2, <1>3, <1>4, <1>5, <1>7, Alone
<1>14. IdsAreNew' /\ disputed \subseteq disputed'
  BY <1>7 DEF Following, IdsAreNew
<1>15. \A x \in WordOrSuggestionId : x # d => rows'[x] = rows[x] /\ Found(x)' = Found(x)
  BY <1>7, <1>10
<1>16. UnderWay(c) => changes[c].id = d
  BY <1>4, <1>5
<1>17. changes' = [changes EXCEPT ![c] = n]
  BY <1>7
<1>18. d \in disputed' \/ (IF n.at = "idle" THEN Agrees(d)' ELSE Halfway(n)')
  BY <1>11
<1>19. QED
  BY <1>2, <1>12, <1>13, <1>14, <1>15, <1>16, <1>17, <1>18, OneFollows

\* Requests that end where they are, with whatever they were about disputed.
LEMMA AbandonedFollowing ==
    ASSUME TypeInv, Following, NEW lost \in SUBSET Changes,
           changes' = [c \in Changes |-> IF c \in lost THEN NoChange ELSE changes[c]],
           disputed' = disputed \cup {changes[c].id : c \in lost},
           UNCHANGED <<rows, authors, commits>>
    PROVE  Following'
<1>1. \A c \in Changes : UnderWay(c)' => UnderWay(c) /\ changes'[c] = changes[c]
  BY NoChangeType DEF UnderWay
<1>2. \A c \in Changes : UnderWay(c) /\ ~UnderWay(c)' => changes[c].id \in disputed'
  BY DEF UnderWay
<1>3. \A x : Found(x)' = Found(x) /\ (Agrees(x)' <=> Agrees(x))
  BY DEF Found, Latest, Agrees
<1>4. IdsAreNew' /\ AloneOrDisputed'
  BY <1>1 DEF Following, IdsAreNew, AloneOrDisputed
<1>5. AllHalfway'
  <2> SUFFICES ASSUME NEW e \in Changes, UnderWay(e)', changes'[e].id \notin disputed'
               PROVE  Halfway(changes[e])'
    BY DEF AllHalfway
  <2>1. UnderWay(e) /\ changes'[e] = changes[e]
    BY <1>1
  <2>2. Halfway(changes[e])
    BY <2>1 DEF Following, AllHalfway
  <2>3. QED
    BY <1>3, <2>1, <2>2 DEF Halfway
<1>6. AtRest'
  <2> SUFFICES ASSUME NEW x \in WordOrSuggestionId, x \notin disputed', x \notin InFlight'
               PROVE  Agrees(x)'
    BY DEF AtRest
  <2>1. \A c \in Changes : UnderWay(c)' => changes'[c].id # x
    BY DEF InFlight, UnderWay
  <2>2. x \notin InFlight
    BY <1>1, <1>2, <2>1, InFlightIs
  <2>3. QED
    BY <1>3, <2>2 DEF Following, AtRest
<1>7. QED
  BY <1>4, <1>5, <1>6 DEF Following

\* Steps of the list's pages, of the readers and of the searchers.
LEMMA ElsewhereFollowing ==
    ASSUME Following, UNCHANGED <<rows, authors, commits, changes, disputed>>
    PROVE  Following'
<1>1. \A x : Found(x)' = Found(x) /\ (Agrees(x)' <=> Agrees(x))
  BY DEF Found, Latest, Agrees
<1>2. QED
  BY <1>1 DEF Following, IdsAreNew, AloneOrDisputed, AllHalfway, AtRest, UnderWay, Halfway,
              InFlight

LEMMA WriterPanicsFollowing ==
    ASSUME TypeInv, Following, writer_panics
    PROVE  Following'
<1>1. PICK lost : lost = {c \in Changes : changes[c].at = "sent"}
  OBVIOUS
<1>2. /\ lost \in SUBSET Changes
      /\ changes' = [c \in Changes |-> IF c \in lost THEN NoChange ELSE changes[c]]
      /\ disputed' = disputed \cup {changes[c].id : c \in lost}
      /\ UNCHANGED <<rows, authors, commits>>
  BY <1>1 DEF writer_panics
<1>3. QED
  BY <1>2, AbandonedFollowing

LEMMA ReindexedFinds ==
    ASSUME TypeOK, NEW d \in WordOrSuggestionId, ~IsSuggestion(d)
    PROVE  LET found == {x \in Reindexed : x.id = d}
           IN  IF rows[d] = Nothing THEN found = {}
               ELSE \E x \in Reindexed : found = {x} /\ x.text = rows[d]
<1>1. CASE rows[d] = Nothing
  BY <1>1 DEF Reindexed
<1>2. CASE rows[d] # Nothing
  <2>1. PICK x : x = [id |-> d, text |-> rows[d], suggesting_user |-> Nothing]
    OBVIOUS
  <2>2. x \in Reindexed /\ x.id = d /\ x.text = rows[d]
    BY <1>2, <2>1 DEF Reindexed
  <2>3. \A y \in Reindexed : y.id = d => y = x
    BY <2>1 DEF Reindexed
  <2>4. QED
    BY <1>2, <2>2, <2>3
<1>3. QED
  BY <1>1, <1>2

LEMMA StartFollowing ==
    ASSUME TypeInv, Following, start
    PROVE  Following'
<1>1. changes' = [c \in Changes |-> NoChange] /\ UNCHANGED <<rows, authors>>
  BY DEF start
<1>2. \A c \in Changes : ~UnderWay(c)'
  BY <1>1, NoChangeType DEF UnderWay
<1>3. IdsAreNew' /\ AloneOrDisputed' /\ AllHalfway'
  BY <1>1, <1>2 DEF Following, IdsAreNew, AloneOrDisputed, AllHalfway
<1>4. CASE UNCHANGED commits /\ disputed' = disputed \cup InFlight
  <2>1. \A x : Agrees(x)' <=> Agrees(x)
    BY <1>1, <1>4 DEF Found, Latest, Agrees
  <2>2. AtRest'
    BY <1>4, <2>1 DEF Following, AtRest
  <2>3. QED
    BY <1>3, <2>2 DEF Following
<1>5. CASE /\ commits' = commits \o <<{}, Reindexed>>
           /\ disputed' = disputed \cup {d \in WordOrSuggestionId : IsSuggestion(d)}
  <2>1. Latest' = Reindexed
    <3>1. commits'[Len(commits')] = Reindexed
      BY <1>5, ReindexedCommits DEF TypeInv
    <3>2. QED
      BY <3>1 DEF Latest
  <2>2. \A d \in WordOrSuggestionId : ~IsSuggestion(d) => Agrees(d)'
    BY <1>1, <2>1, ReindexedFinds DEF TypeInv, Agrees, Found
  <2>3. AtRest'
    BY <1>5, <2>2 DEF AtRest
  <2>4. QED
    BY <1>3, <2>3 DEF Following
<1>6. QED
  BY <1>4, <1>5 DEF start

LEMMA InitFollowing == Init => Following
<1> SUFFICES ASSUME Init PROVE Following
  OBVIOUS
<1>1. PICK text : text = CHOOSE t \in Texts : TRUE
  OBVIOUS
<1>2. PICK by : by = CHOOSE u \in Users : TRUE
  OBVIOUS
<1>3. text \in Texts /\ by \in Users /\ text # Nothing /\ by # Nothing
  BY <1>1, <1>2, DataAssumption, NothingAssumption
<1>4. /\ rows = [d \in WordOrSuggestionId |-> IF Number(d) = 1 THEN text ELSE Nothing]
      /\ authors = [d \in WordOrSuggestionId |-> IF Number(d) = 1 THEN by ELSE Nothing]
      /\ changes = [c \in Changes |-> NoChange]
  BY <1>1, <1>2 DEF Init
<1>5. Latest = {DocumentOf([id |-> d, text |-> text, by |-> by]) :
                   d \in {Existing(1), Suggested(1)}}
  BY <1>1, <1>2 DEF Init, Latest
<1>6. \A c \in Changes : ~UnderWay(c)
  BY <1>4, NoChangeType DEF UnderWay
<1>7. \A d : DocumentOf([id |-> d, text |-> text, by |-> by]).id = d
             /\ DocumentOf([id |-> d, text |-> text, by |-> by]).text = text
  BY DEF DocumentOf
<1>8. ASSUME NEW d \in WordOrSuggestionId
      PROVE  Agrees(d)
  <2>1. CASE Number(d) = 1
    <3>1. d \in {Existing(1), Suggested(1)}
      BY <2>1 DEF WordOrSuggestionId, Number, Existing, Suggested
    <3>2. PICK x : x = DocumentOf([id |-> d, text |-> text, by |-> by])
      OBVIOUS
    <3>3. x \in Latest /\ Found(d) = {x} /\ x.text = text
      BY <1>5, <1>7, <3>1, <3>2 DEF Found
    <3>4. QED
      BY <1>3, <1>4, <2>1, <3>3 DEF Agrees
  <2>2. CASE Number(d) # 1
    <3>1. d \notin {Existing(1), Suggested(1)}
      BY <2>2 DEF Number, Existing, Suggested
    <3>2. Found(d) = {}
      BY <1>5, <1>7, <3>1 DEF Found
    <3>3. QED
      BY <1>4, <2>2, <3>2 DEF Agrees
  <2>3. QED
    BY <2>1, <2>2
<1>9. QED
  BY <1>3, <1>4, <1>6, <1>8 DEF Following, IdsAreNew, AloneOrDisputed, AllHalfway, AtRest

LEMMA NextFollowing == TypeInv /\ Following /\ [Next]_vars => Following'
<1> SUFFICES ASSUME TypeInv, Following, [Next]_vars PROVE Following'
  OBVIOUS
<1>1. CASE UNCHANGED vars
  BY <1>1, ElsewhereFollowing DEF vars, indexVars
<1>2. CASE \E p \in Pages : all_words(p) \/ PageSteps(p)
  BY <1>2, ElsewhereFollowing
     DEF all_words, PageSteps, read_cache, get_all_words, store_list, indexVars
<1>3. CASE \E c \in Changes : begin_change(c) \/ ChangeSteps(c)
  BY <1>3, BeginFollowing, WriteRowFollowing, AwaitLockFollowing, InvalidateFollowing,
     SendFollowing DEF ChangeSteps
<1>4. CASE handle
  BY <1>4, HandleFollowing
<1>5. CASE reload \/ searcher_panics
  BY <1>5, ElsewhereFollowing DEF reload, searcher_panics, indexVars
<1>6. CASE writer_panics \/ start
  BY <1>6, WriterPanicsFollowing, StartFollowing
<1>7. QED
  BY <1>1, <1>2, <1>3, <1>4, <1>5, <1>6 DEF Next, Work

\* At rest and undisputed, a word or a suggestion is in the index as its row
\* reads, once, or not at all when its row is gone: through failed commits,
\* restarts and indexes that are built again, however many requests there are.
THEOREM IndexAlwaysFollowsRows == Spec => []IndexFollowsRows
<1>1. Init => TypeInv /\ Following
  BY InitTyped, InitFollowing
<1>2. (TypeInv /\ Following) /\ [Next]_vars => (TypeInv /\ Following)'
  BY NextTyped, NextFollowing
<1>3. Following => IndexFollowsRows
  <2> SUFFICES ASSUME Following, NEW d \in WordOrSuggestionId, d \notin disputed,
                      d \notin InFlight
               PROVE  IF rows[d] = Nothing THEN Found(d) = {}
                      ELSE Cardinality(Found(d)) = 1
                           /\ \A x \in Found(d) : x.text = rows[d]
    BY DEF IndexFollowsRows, Found
  <2>1. Agrees(d)
    BY DEF Following, AtRest
  <2>2. \A x : Cardinality({x}) = 1
    BY FS_Singleton
  <2>3. QED
    BY <2>1, <2>2 DEF Agrees
<1>4. QED
  BY <1>1, <1>2, <1>3, PTL DEF Spec
=============================================================================
