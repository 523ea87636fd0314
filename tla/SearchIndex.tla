----------------------------- MODULE SearchIndex -----------------------------
(***************************************************************************)
(* The Tantivy index of the words and of the suggestions of new words      *)
(* (server/src/search.rs), kept up to date by the requests that change     *)
(* them, and the cached list of all words.  One actor writes to the index, *)
(* a message at a time; a pool of actors searches the commit that the      *)
(* readers have loaded last; the list is behind a read-write lock, which   *)
(* serves its waiters in the order they came.                              *)
(***************************************************************************)
EXTENDS Naturals, Sequences, FiniteSets

CONSTANTS
    NumPages,       \* requests for the list of all words, at one time
    NumChanges,     \* requests that change what is indexed, at one time
    Users,
    Texts,
    Nothing,        \* no text, no user, no list
    MaxNumber,      \* rows a table is ever given
    WriterMailbox,  \* messages the writer's mailbox holds
    NumSearchers,   \* actors in the pool of searchers
    MaxChanges,     \* bounds on what happens in a behaviour
    MaxPages,
    MaxFaults

ASSUME MailboxAssumption == WriterMailbox \in Nat \ {0}
ASSUME SizesAssumption ==
    {NumPages, NumChanges, NumSearchers, MaxChanges, MaxPages, MaxFaults} \subseteq Nat
ASSUME DataAssumption == Users # {} /\ Texts # {} /\ MaxNumber \in Nat \ {0}
ASSUME NothingAssumption == Nothing \notin Users \cup Texts

\* Slots for requests; one that arrives takes the first that is free.
Pages == {"page"} \X (1 .. NumPages)
Changes == {"change"} \X (1 .. NumChanges)

FirstFree(slots, requests) ==
    {s \in slots : /\ requests[s].at = "idle"
                   /\ \A x \in slots : requests[x].at = "idle" => s[2] <= x[2]}

\* WordOrSuggestionId
Existing(n) == <<"existing", n>>
Suggested(n) == <<"suggested", n>>
Number(d) == d[2]
IsSuggestion(d) == d[1] = "suggested"
WordOrSuggestionId == {"existing", "suggested"} \X (1 .. MaxNumber)

\* WordDocument
Document == [id: WordOrSuggestionId, text: Texts, suggesting_user: Users \cup {Nothing}]

VARIABLES
    rows,        \* the texts of words and word_suggestions, by id
    authors,     \* the suggesting_user column, by id
    commits,     \* what the index held after each commit
    visible,     \* the commit the readers have loaded
    cache,       \* all_words_html_cache: the commit it lists, or Nothing
    lock,        \* who holds the lock of the cache, and who waits for it
    mailbox,     \* of the writer
    writer,      \* the writer actor runs
    searchers,   \* actors of the pool that run
    pages,       \* requests for the list
    changes,     \* requests that change a row
    changed, opened, faults,   \* how often these have happened
    \* Read by properties only:
    seen,        \* visible when the cache was invalidated last
    shown,       \* the commit that was listed last
    disputed     \* ids of changes that overlapped, or failed half-way

indexVars == <<commits, visible, mailbox, writer>>
countVars == <<changed, opened, faults>>
vars == <<rows, authors, indexVars, cache, lock, searchers, pages, changes,
          countVars, seen, shown, disputed>>

-----------------------------------------------------------------------------
(* The lock: its head holds it *)

Processes == Pages \cup Changes

\* Faulty: whoever comes takes it.
TakesIt(p, mode) == <<p, mode>> \in {lock[i] : i \in DOMAIN lock}

Holds(p, mode) == lock # <<>> /\ Head(lock) = <<p, mode>>

\* Faulty: the read guard lives until the list is stored.
KeepToWrite(p) == Append(lock, <<p, "write">>)

\* A holder asks again, as a writer, once it has dropped its guard.
DropToWrite(p) == Append(Tail(lock), <<p, "write">>)

-----------------------------------------------------------------------------
(* get_all_words_html *)

Page(at, list) == [at |-> at, list |-> list]
Idle == Page("idle", 0)

all_words(p) ==
    /\ p \in FirstFree(Pages, pages)
    /\ opened < MaxPages
    /\ opened' = opened + 1
    /\ pages' = [pages EXCEPT ![p] = Page("reading", 0)]
    /\ lock' = Append(lock, <<p, "read">>)
    /\ UNCHANGED <<rows, authors, indexVars, cache, searchers, changes, changed,
                   faults, seen, shown, disputed>>

Show(p, commit) ==
    /\ pages' = [pages EXCEPT ![p] = Idle]
    /\ shown' = commit
    /\ lock' = Tail(lock)

\* The list is not looked at again once the write lock is there.
read_cache(p) ==
    /\ pages[p].at = "reading"
    /\ Holds(p, "read")
    /\ IF cache # Nothing
       THEN Show(p, cache)
       ELSE /\ pages' = [pages EXCEPT ![p] = Page("filling", 0)]
            /\ lock' = DropToWrite(p)
            /\ UNCHANGED shown
    /\ UNCHANGED <<rows, authors, indexVars, cache, searchers, changes, countVars,
                   seen, disputed>>

\* Handler<GetAllWords> of a searcher, on the commit that is loaded.  The
\* request fails when no searcher is left, and its lock is dropped with it.
get_all_words(p) ==
    /\ pages[p].at = "filling"
    /\ Holds(p, "write")
    /\ IF searchers > 0
       THEN /\ pages' = [pages EXCEPT ![p] = Page("storing", visible)]
            /\ UNCHANGED lock
       ELSE /\ pages' = [pages EXCEPT ![p] = Idle]
            /\ lock' = Tail(lock)
    /\ UNCHANGED <<rows, authors, indexVars, cache, searchers, changes, countVars,
                   seen, shown, disputed>>

store_list(p) ==
    /\ pages[p].at = "storing"
    /\ Holds(p, "write")
    /\ cache' = pages[p].list
    /\ Show(p, pages[p].list)
    /\ UNCHANGED <<rows, authors, indexVars, searchers, changes, countVars, seen,
                   disputed>>

-----------------------------------------------------------------------------
(* Requests that change a row and then the index, or the index and then the *)
(* row: only the deletion of a suggestion begins with the index.            *)

NoChange == [at |-> "idle", op |-> "none", id |-> Existing(1), text |-> Nothing,
             by |-> Nothing]

MovedTo(m, at) == [m EXCEPT !.at = at]

RowFirst(op, d) == ~(op = "delete" /\ IsSuggestion(d))

InFlight == {changes[c].id : c \in {x \in Changes : changes[x].at # "idle"}}

\* Ids come from AUTOINCREMENT: the next one is new.
NextOf(table) ==
    {d \in WordOrSuggestionId : d[1] = table /\ authors[d] = Nothing
                                 /\ d \notin InFlight
                                 /\ \A n \in 1 .. Number(d) - 1 :
                                        \/ authors[<<table, n>>] # Nothing
                                        \/ <<table, n>> \in InFlight}

Present == {d \in WordOrSuggestionId : rows[d] # Nothing}

\* A word or a suggestion is added, edited or deleted.
Asked ==
    [op: {"add"}, id: NextOf("existing") \cup NextOf("suggested"), text: Texts, by: Users]
    \cup [op: {"edit"}, id: Present, text: Texts, by: Users]
    \cup [op: {"delete"}, id: Present, text: {Nothing}, by: {Nothing}]

begin_change(c) ==
    /\ c \in FirstFree(Changes, changes)
    /\ changed < MaxChanges
    /\ changed' = changed + 1
    /\ \E m \in Asked :
         /\ changes' = [changes EXCEPT ![c] =
                          [at |-> IF RowFirst(m.op, m.id) THEN "row" ELSE "index",
                           op |-> m.op, id |-> m.id, text |-> m.text, by |-> m.by]]
         /\ disputed' = IF m.id \in InFlight THEN disputed \cup {m.id} ELSE disputed
    /\ UNCHANGED <<rows, authors, indexVars, cache, lock, searchers, pages, opened,
                   faults, seen, shown>>

\* The INSERT ... ON CONFLICT DO UPDATE of a word or of a suggestion, whose
\* suggesting_user stays what it was, or the DELETE.
write_row(c) ==
    /\ changes[c].at = "row"
    /\ LET m == changes[c]
       IN  /\ rows' = [rows EXCEPT ![m.id] = IF m.op = "delete" THEN Nothing ELSE m.text]
           /\ authors' = [authors EXCEPT ![m.id] = IF @ = Nothing THEN m.by ELSE @]
           /\ changes' = [changes EXCEPT ![c] =
                            IF RowFirst(m.op, m.id) THEN MovedTo(@, "index")
                            ELSE NoChange]
    /\ UNCHANGED <<indexVars, cache, lock, searchers, pages, countVars, seen, shown,
                   disputed>>

\* add_new_word, edit_word and delete_word: invalidate_all_words_cache ...
await_lock(c) ==
    /\ changes[c].at = "index"
    /\ changes' = [changes EXCEPT ![c] = MovedTo(@, "invalidating")]
    /\ lock' = Append(lock, <<c, "write">>)
    /\ UNCHANGED <<rows, authors, indexVars, cache, searchers, pages, countVars,
                   seen, shown, disputed>>

invalidate_all_words_cache(c) ==
    /\ changes[c].at = "invalidating"
    /\ Holds(c, "write")
    /\ cache' = Nothing
    /\ lock' = Tail(lock)
    /\ changes' = [changes EXCEPT ![c] = MovedTo(@, "sending")]
    /\ seen' = visible
    /\ UNCHANGED <<rows, authors, indexVars, searchers, pages, countVars, shown,
                   disputed>>

\* Faulty: one message too many.
HasRoomOrIsFull == Len(mailbox) <= WriterMailbox

HasRoom == Len(mailbox) < WriterMailbox

\* ... and then the message to the writer, which must have room for it.
send(c) ==
    /\ changes[c].at = "sending"
    /\ IF writer
       THEN /\ HasRoom
            /\ mailbox' = Append(mailbox, c)
            /\ changes' = [changes EXCEPT ![c] = MovedTo(@, "sent")]
            /\ UNCHANGED disputed
       ELSE /\ changes' = [changes EXCEPT ![c] = NoChange]
            /\ disputed' = disputed \cup {changes[c].id}
            /\ UNCHANGED mailbox
    /\ UNCHANGED <<rows, authors, commits, visible, writer, cache, lock, searchers,
                   pages, countVars, seen, shown>>

-----------------------------------------------------------------------------
(* The writer *)

\* Faulty: one term for the ids of words and of suggestions.
TermOfNumber(index, d) == {x \in index : Number(x.id) = Number(d)}

\* delete_term on existing_id or suggestion_id
Term(index, d) == {x \in index : x.id = d}

\* add_word: the user is the one whose request this is.
DocumentOf(m) ==
    [id |-> m.id, text |-> m.text,
     suggesting_user |-> IF IsSuggestion(m.id) THEN m.by ELSE Nothing]

\* Handler<IndexWord>, Handler<EditWord>, Handler<DeleteWord>
Apply(index, m) ==
    CASE m.op = "add" -> index \cup {DocumentOf(m)}
      [] m.op = "edit" -> (index \ Term(index, m.id)) \cup {DocumentOf(m)}
      [] m.op = "delete" -> index \ Term(index, m.id)

Latest == commits[Len(commits)]

handle ==
    /\ mailbox # <<>>
    /\ LET c == Head(mailbox)
           m == changes[c]
       IN  /\ commits' = Append(commits, Apply(Latest, m))
           /\ changes' = [changes EXCEPT ![c] =
                            IF RowFirst(m.op, m.id) THEN NoChange
                            ELSE MovedTo(@, "row")]
    /\ mailbox' = Tail(mailbox)
    /\ UNCHANGED <<rows, authors, visible, writer, cache, lock, searchers, pages,
                   countVars, seen, shown, disputed>>

\* Tantivy loads a commit into the readers some time after it was made.
reload ==
    /\ visible < Len(commits)
    /\ visible' = Len(commits)
    /\ UNCHANGED <<rows, authors, commits, mailbox, writer, cache, lock, searchers,
                   pages, changes, countVars, seen, shown, disputed>>

-----------------------------------------------------------------------------
(* Faults *)

Fault == faults < MaxFaults /\ faults' = faults + 1

\* A commit fails: the handler's unwrap ends the actor, the mailbox goes with
\* it and every sender's unwrap ends its request.
writer_panics ==
    /\ Fault
    /\ mailbox # <<>>
    /\ LET lost == {c \in Changes : changes[c].at = "sent"}
       IN  /\ changes' = [c \in Changes |-> IF c \in lost THEN NoChange ELSE changes[c]]
           /\ disputed' = disputed \cup {changes[c].id : c \in lost}
    /\ mailbox' = <<>>
    /\ writer' = FALSE
    /\ UNCHANGED <<rows, authors, commits, visible, cache, lock, searchers, pages,
                   changed, opened, seen, shown>>

\* A search panics (its query is cut at 64 bytes, in the middle of a letter).
searcher_panics ==
    /\ Fault
    /\ searchers > 0
    /\ searchers' = searchers - 1
    /\ UNCHANGED <<rows, authors, indexVars, cache, lock, pages, changes, changed,
                   opened, seen, shown, disputed>>

\* reindex_database: the words, not the suggestions.
Reindexed ==
    {[id |-> d, text |-> rows[d], suggesting_user |-> Nothing] :
        d \in {x \in WordOrSuggestionId : rows[x] # Nothing /\ ~IsSuggestion(x)}}

\* The process ends and TantivyClient::start runs, before any request.  When the
\* index is not there, the readers open a new one, which is empty, before the
\* words are written to it.
start ==
    /\ Fault
    /\ \/ /\ UNCHANGED commits
          /\ visible' = Len(commits)
          /\ disputed' = disputed \cup InFlight
       \/ /\ commits' = commits \o <<{}, Reindexed>>
          /\ visible' = Len(commits) + 1
          /\ disputed' = disputed \cup {d \in WordOrSuggestionId : IsSuggestion(d)}
    /\ cache' = Nothing
    /\ lock' = <<>>
    /\ mailbox' = <<>>
    /\ writer' = TRUE
    /\ searchers' = NumSearchers
    /\ pages' = [p \in Pages |-> Idle]
    /\ changes' = [c \in Changes |-> NoChange]
    /\ seen' = visible'
    /\ UNCHANGED <<rows, authors, changed, opened, shown>>

-----------------------------------------------------------------------------

\* A database of one word and one suggestion with the same number.
Init ==
    /\ LET text == CHOOSE t \in Texts : TRUE
           by == CHOOSE u \in Users : TRUE
       IN
         /\ rows = [d \in WordOrSuggestionId |-> IF Number(d) = 1 THEN text ELSE Nothing]
         /\ authors = [d \in WordOrSuggestionId |-> IF Number(d) = 1 THEN by ELSE Nothing]
         /\ commits = <<{DocumentOf([id |-> d, text |-> text, by |-> by]) :
                            d \in {Existing(1), Suggested(1)}}>>
    /\ visible = 1
    /\ cache = Nothing
    /\ lock = <<>>
    /\ mailbox = <<>>
    /\ writer = TRUE
    /\ searchers = NumSearchers
    /\ pages = [p \in Pages |-> Idle]
    /\ changes = [c \in Changes |-> NoChange]
    /\ changed = 0
    /\ opened = 0
    /\ faults = 0
    /\ seen = 1
    /\ shown = 0
    /\ disputed = {}

PageSteps(p) == read_cache(p) \/ get_all_words(p) \/ store_list(p)

ChangeSteps(c) ==
    write_row(c) \/ await_lock(c) \/ invalidate_all_words_cache(c) \/ send(c)

\* What goes on by itself, whoever asks and whatever fails.
Work ==
    \/ \E p \in Pages : PageSteps(p)
    \/ \E c \in Changes : ChangeSteps(c)
    \/ handle \/ reload

Next ==
    \/ \E p \in Pages : all_words(p)
    \/ \E c \in Changes : begin_change(c)
    \/ Work
    \/ writer_panics \/ searcher_panics \/ start

Spec == Init /\ [][Next]_vars

\* The runtime does not rest while a task or an actor can go on; nobody need ask
\* for anything.
FairSpec == Spec /\ WF_vars(Work)

-----------------------------------------------------------------------------
(* Properties *)

PageRecord ==
    [at: {"idle", "reading", "filling"}, list: {0}]
    \cup [at: {"storing"}, list: 1 .. visible]

ChangeRecord ==
    [at: {"idle", "row", "index", "invalidating", "sending", "sent"},
     op: {"none", "add", "edit", "delete"}, id: WordOrSuggestionId,
     text: Texts \cup {Nothing}, by: Users \cup {Nothing}]

\* Every variable holds what the code can put there; the writer's mailbox keeps
\* to its size, and the readers are never ahead of the writer.
TypeOK ==
    /\ rows \in [WordOrSuggestionId -> Texts \cup {Nothing}]
    /\ authors \in [WordOrSuggestionId -> Users \cup {Nothing}]
    /\ commits \in Seq(SUBSET Document)
    /\ visible \in 1 .. Len(commits)
    /\ cache \in (1 .. visible) \cup {Nothing}
    /\ lock \in Seq(Processes \X {"read", "write"})
    /\ mailbox \in Seq(Changes) /\ Len(mailbox) <= WriterMailbox
    /\ writer \in BOOLEAN
    /\ searchers \in 0 .. NumSearchers
    /\ pages \in [Pages -> PageRecord]
    /\ changes \in [Changes -> ChangeRecord]
    /\ changed \in 0 .. MaxChanges /\ opened \in 0 .. MaxPages /\ faults \in 0 .. MaxFaults
    /\ seen \in 1 .. visible
    /\ shown \in 0 .. visible
    /\ disputed \subseteq WordOrSuggestionId

\* Whoever opens the list is shown what was there when some change last
\* invalidated it, or something newer, and never less than what was shown before:
\* a page that asked the searchers before an invalidation cannot put its old list
\* back (it keeps the lock while it asks), nor can one of two pages that fill the
\* cache one after the other.
List == INSTANCE WordList WITH published <- visible, forgotten <- seen
ListAsPromised == List!Spec

\* Once nothing is being done to a word or a suggestion, the index holds it as
\* its row reads, once, and holds nothing of what was deleted, unless two
\* changes of it overlapped (their rows and their messages may be in different
\* orders) or one of them failed between its row and its message.
IndexFollowsRows ==
    \A d \in WordOrSuggestionId \ (disputed \cup InFlight) :
        LET found == {x \in Latest : x.id = d}
        IN  IF rows[d] = Nothing THEN found = {}
            ELSE Cardinality(found) = 1 /\ \A x \in found : x.text = rows[d]

\* A suggestion keeps its author when somebody else edits it: "Intentionally
\* suggesting_user is not set to excluded" (database/submit.rs), so the
\* index, too, should find it among its author's.
AuthorsKeepTheirSuggestions ==
    \A d \in WordOrSuggestionId \ (disputed \cup InFlight) :
        IsSuggestion(d) =>
            \A x \in Latest : x.id = d => x.suggesting_user = authors[d]

\* Every page that is asked for is answered or fails, and every change comes to
\* its end, even when the writer has died: the lock is always passed on, and
\* nobody holds it who waits for the writer.  (A behaviour asks for MaxPages and
\* MaxChanges at most: all are answered when it always comes to rest.)
EverybodyIsAnswered ==
    []<>(/\ \A p \in Pages : pages[p].at = "idle"
         /\ \A c \in Changes : changes[c].at = "idle")
=============================================================================
