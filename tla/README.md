# A verification development for isiXhosa.click

isiXhosa.click is an online dictionary. Anyone who signs in can suggest a new
word, a change to a word or to another suggestion, or that something be
deleted; moderators decide. The server (Rust, `src/server`) keeps the
dictionary in SQLite and a full-text index in Tantivy. This directory holds
TLA+ models of the server, the runs in which TLC checks them, and theorems
about them that TLAPS checks.

## The system and its parts

| part | state it keeps | operations | hard because |
|---|---|---|---|
| schema (`server/src/sql`) | the tables, `sqlite_sequence` | statements; `ON CONFLICT`, `ON DELETE CASCADE` | some keys are AUTOINCREMENT and some are not; cascades reach rows a handler is holding |
| submission (`submit.rs`, `edit.rs`, `database/submit.rs`) | forms in browsers; suggestion rows | render a form, `submit_suggestion`, `process_linked_words`, `process_examples`, `process_datasets`, `suggest_word_deletion` | a form is sent at any later time and more than once; no transaction; upserts that resurrect rows |
| review (`moderation.rs`, `database/suggestion.rs`, `database/deletion.rs`) | words, examples, links, attributions; suggestion rows | accept and reject a whole word, an example, a link, a dataset, a deletion | an acceptance is up to a dozen statements on a thread, others run in between; `unwrap` kills it half way |
| search index (`search.rs`) | Tantivy documents, the cached list of all words | `add_new_word`, `edit_word`, `delete_word`, `reindex_database`, search, `get_all_words_html` | database and index are changed one after the other; the cache is invalidated before the index is written |
| field merge (`database/submit.rs`, `database/suggestion.rs`) | text columns of a suggestion, NULL where unchanged | `diff`, `diff_with_sentinel`, `MaybeEdited`, accept | a field goes from a form to a NULL or a sentinel, back into a page and into a word |
| sign-in, sessions, tokens (`auth.rs`, `database/user.rs`, `user_management.rs`) | sign-ins in progress, `login_tokens`, `users` | OpenID redirect and callback, sign-up, `verify_token`, logout, lock, set role, sweep | sweeps race callbacks; logout is not awaited; a role or a lock changes under a session |
| live search (`session.rs`, `live_search.js`, `linked_word.js`) | inputs, `last_value`, the socket they share, a session with the time of its last message | query, answer, ping, heartbeat, reconnect | the socket may go between a query and its answer; its two ends notice at different times, or one never |
| connection pool (`main.rs`, r2d2) | ten connections | `get`, drop, 30 s timeout | handlers hold one connection while they ask for another |
| datasets administration (`admin.rs`) | `datasets` | upsert, delete | deleting cascades |
| export, restore, daily tasks (`export.rs`) | files, tables | export, restore, sweep of tokens | an export is of a copy SQLite's backup makes; a restore fills an empty database |
| importers (`import.rs`, `import/`) | - | one-off loads of third-party word lists | parsing; run by hand, alone |
| wordle (`wasm/wordle`) | a game in the browser | type, guess, share; which words may be guessed, the word of the day | letters that occur twice; the last guess; two lists of words made by different rules |
| service worker | two caches | install, fetch, replace | a stale cache |
| formatting, translation, templates | - | - | wording and layout, no state |

How they interact: a request handler runs its database work on a blocking
thread (`spawn_blocking_child`), through the pool; handlers share nothing but
the database, the index (messages to one writer actor that is awaited) and the
pages users hold. A page is the channel through which a moderator's decision
reaches the server: it carries ids and may be of any age.

What makes each part correct:

* submission and review: a suggestion becomes one word; nothing attached to it
  is lost or attached to the wrong word; what was deleted stays deleted; a
  moderator's decision is applied to what the page showed; a form sent back with
  its parts untouched changes none of them.
* schema: no foreign key dangles, whatever was cut short.
* search index: a document exactly for each word and each suggestion of a new
  word, as its row reads; a list of all words that is never older than one shown
  before, nor than what there was when it was last forgotten; nobody waits for
  ever.
* field merge: a suggestion can always be read, and reads back as it was typed;
  a column of a word is what the last acceptance about it said. (The code keeps
  this but for a removed mood, `is_informal` and acceptances that overlap.)
* sign-in: a session is as good as its token, the lock and the role of its
  user at the time of the request.
* pool: a handler that asks for a connection gets one.
* live search: the results shown are in the end those of the text typed; a
  session lasts as long as its page can reach it, and not much longer.
* wordle: the marks count letters, and keyboard, outcome and share text agree
  with them; the word of the day is in the dictionary of guesses.

## Modules

| module | models |
|---|---|
| `Rowid` | the key SQLite gives a row of a table without AUTOINCREMENT |
| `Schema` | the twelve tables, their keys, foreign keys and cascades |
| `Requests` | threads that issue statements; arrival, read, write, panic; statements every handler shares; the ids a link suggestion names |
| `Review` | accepting and rejecting a suggested word |
| `PartReview` | decisions about examples, links, datasets and deletions |
| `Submission` | forms, what a user may do to them, `submit_suggestion` and its three loops |
| `Decisions` | abstract: what becomes of a suggested word |
| `Moderation` | all of these together, crashes, the specification and its properties; implements `Decisions` |
| `WordFields` | the columns of a word: form, `diff`, row of a suggestion, `MaybeEdited`, word; submissions and acceptances on several threads |
| `Accounts` | the tables `users` and `login_tokens` and the statements made of them |
| `SignIn` | sign-in sessions, the callback, sign-up, tokens, visits, logout, the administrator's commands, sweeps, restarts |
| `WordList` | abstract: what whoever opens the list of all words is promised |
| `SearchIndex` | the writer and the searchers, the cached list and its lock, requests that change rows, faults and `start`; implements `WordList` |
| `LiveSearch` | the inputs of a page, its socket, sessions, timers and time |
| `Wordle` | the words of the game, the marking of a guess, the component |
| `MCModeration`, `MCSignIn`, `MCWordFields`, `MCSearchIndex`, `MCLiveSearch`, `MCWordle` | small instances for TLC |
| `ModerationProofs` | cascades; every step of `Moderation` keeps `TypeOK` and `References`; what threads, pages and tables know of ids; decisions are made once and for good |
| `ProgramProofs` | what requests have left to do brings the index in line, and accepts each part of what they accept; every step of `Moderation` is one of `Decisions`, or none |
| `EditProofs` | edits of examples stay with the words they are of; forms sent back with their parts untouched change none |
| `SignInProofs`, `WordFieldsProofs`, `SearchProofs`, `LiveSearchProofs`, `WordleProofs` | the invariants of those modules and their theorems |

`Moderation` composes `Schema`, `Requests`, `Review`, `PartReview` and
`Submission`; `SignIn` is built on `Accounts`. `WordFields` and `SearchIndex`
look at two pieces of `Moderation` more closely and leave the rest of it out:
`Moderation` has no text in its rows and its index is a set of ids that a
request writes in one step; `WordFields` has columns and no parts, `SearchIndex`
has the actors, the messages and the lock behind that one step.

### State of moderation

`db` is one record with a field for each table; a table is a set of rows, a row
a record of its ids. Columns of text are left out (`WordFields` has them). NULL is 0. `db.seq` is `sqlite_sequence`. `index` is a set of
`WordOrSuggestionId`s, the key of a Tantivy document. `forms` is what the form
pages users have open showed; it survives a crash, as browsers do.

`todo[t]` is the program of thread `t`: the statements of the handler it runs,
each with what the handler has read so far. One action of the model is one SQL
statement, or one query, or one awaited message to the index, since each of
these is atomic and nothing larger is: no handler opens a transaction. A `for`
loop over rows is a statement that holds the set of rows left; the order in
which rows come out of a query is not fixed by the code (no `ORDER BY`) and the
model takes every order.

An action is one function of the code or one query of it, and has its name:
`accept_just_word` is `SuggestedWord::accept_just_word_suggestion`, and so on;
`PROJECT.json` gives the lines. A statement that a foreign key refuses, and an
`unwrap` of a row that is not there, are `Panic` or `Refuse`: the thread dies,
what it wrote stays. `Crash` kills all threads. `abandon_deletion` is a client
that hangs up between the DELETE of a word and the message to the index: that
message is sent by the future of the request, which is dropped, not by the
blocking thread.

Six variables are history, read by no action: `claims` (the rows each running
request is about), `origin` (which suggestion a word came from), `broken` (rows
a request left half done, or a stale form brought back), `overlapped` (rows two
requests were about at the same time), `gone` (what was deleted), `pages`
(deletion suggestions a moderation page has shown; a decision picks one of
them).

`Decisions` is what a moderator and an author are promised, without tables,
threads or pages: a suggested word waits (`open`) under a number none has had,
until it is settled, once: it becomes a word that no other has become
(`became`), or it is rejected, or it was an edit. `Moderation` implements it with
`open <- Waiting` (the suggestions in the table no word has come of),
`became <- Accepted` (`origin`) and `last` the sequence of the table. So an
acceptance is one step there, that of its INSERT of the word
(`accept_just_word`); the DELETE a dozen statements later changes nothing, and
nor does any old page that is sent afterwards. Nothing is promised of what is
`lost`: suggestions that two requests were about at once, that one was cut short
on, or that the form of a suggestion no longer there inserted again. Once lost, a
suggestion stays so, and its loss disturbs no other.

### State of sign-in

`users` and `login_tokens` are the tables. `users.oidc_id` is UNIQUE, so a row
is known by the person; e-mail, names and languages are left out. A token is the
pair the cookie holds: a row id, which SQLite gives out again once the row is
gone, and a random string, which is not drawn twice: strings are numbered in
the order they are drawn, and a hash stands for its string. `in_progress` is
`IN_PROGRESS_SIGN_INS`; a sign-in's csrf token and nonce are drawn with its
session id and one number stands for all three. Time is in days for tokens; for
sign-ins only whether a sweep has seen the entry is kept, since the sweep and
the expiry both take ten minutes: an entry an earlier sweep has seen goes, any
other may go or stay (`Kept`).

`requests[t]` is what thread `t` serves: `at` is the next call it makes, the
other fields are what it has read. One action is one call that reads or changes
state another request can see, under the name of the function called: the entry
of the map is read and its lock dropped, the provider is asked, the user is
looked up, the token is written. `hang_up` is a browser that closes the
connection: a future is dropped at its next await, a statement on a blocking
thread is finished and nobody gets the answer. `cookies`, `signIns` and
`codes` are the world outside: what each browser holds, the browser each
sign-in was started in and what the provider has handed out; they, and the
database, survive `Restart`. The provider is external and modelled from what
the code relies on: it gives out codes that it takes once, for the sign-in whose
state was sent to it; it may be approved more than once, and fail before or
after it takes the code.

Two variables are history. `issued` has for each token its user and the day it
was last used. `standing[t]` is what the request of `t` has been entitled to at
some moment since it came: that its token was in the table, and each of the
permissions its user had while not locked. No action takes a decision by
them, except that `issued` numbers the random strings.

### State of the word fields

`words` and `suggestions` are the two tables, a row with six columns that stand
for all twelve, one for each way a column is treated: `english` (a text, like
`xhosa`, the tone markings, the infinitive, the note; `is_inchoative` is bound
like it), the booleans `is_plural` and `is_informal`, the required
`part_of_speech`, `noun_class` with its sentinel (`transitivity` is treated
alike), and `followed_by`, which has neither a sentinel nor a place in
`has_any_changes_in_word`. `diff`, `diff_with_sentinel`, `from_row` and
`from_row_with_sentinel` are the functions of these names; `current` is
`from_row_fetch_original` followed by `current()` on each field, the is_plural
it passes for is_informal included.

`submit_suggestion` is three actions: what it compares the form with
(`read_original`), what was suggested before (`read_suggestion`), the upsert; an
acceptance is a read, a write of every column and a DELETE. Forms survive
crashes and are sent at any time. `meant` and `agreed` are history: what was
typed in each suggestion beside the word it was compared with, and what the
suggestions accepted so far say of each column. `overlapped` and `misread` are
the words where the code is known to go wrong, and no more than those: two
acceptances that overlap each write all columns, and the second undoes the
first; is_informal is read from is_plural.

### State of the search index

`commits` is every state the index has had, `visible` the one the readers have
loaded; Tantivy reloads some time after a commit. `lock` is the queue of tokio's
`RwLock`, which is fair: its head holds it. (Readers are served one at a time
here; a reader changes nothing another could see.) A page is at the read lock,
at the write lock, or at the store of what the searchers answered; a change is
at its row, at the lock, at the message, or waits for the answer. Only the
deletion of a suggestion begins with the index. `writer_panics` is a failed
commit, whose `unwrap` ends the actor and, through the senders' `unwrap`, the
requests that wait for it; `searcher_panics` is a query that `truncate(64)` cuts
inside a letter; `start` is a restart with or without the index directory. In a
new directory the readers are opened before the words are put in, so they see an
empty index first and the words when Tantivy reloads. A text stands for
everything a document is found by. What a search makes of its query is not
modelled (see *Not modelled*).

`seen`, `shown` and `disputed` are read by properties only: the commit visible
when the cache was last invalidated, the one last listed, and the ids whose
changes overlapped or were cut short.

`WordList` is what the list is for: `published` versions, a list shown is one of
them, none older than when lists were last forgotten nor than the list shown
before. It has no cache, no lock and no actors. `SearchIndex` implements it with
`published <- visible` and `forgotten <- seen`. What it does *not* promise is
that a list has the change that had it forgotten: the cache is invalidated
before the message is sent, so a page in between fills it from before the
commit, and that list stays until the next change. The code does this.

### State of live search

A socket is a record with both of its ends: what the browser thinks
(`client`), whether the network still carries it (`link`), the session, and what
is under way in each direction. `break_link` loses what is under way and tells
neither end; the browser finds out through `onclose`, the session through a
failed send or its heartbeat, each in its own time. A page has one socket at a
time in `ws`; that the old one has been forgotten is `TypeOK`'s second half.
`search_panics` is a search that fails: both `unwrap`s of it panic the session,
which closes nothing, so the page learns of it when its next message cannot be
handed over; the query and that message are lost.

An input has what the two scripts keep of it: text, `last_value` and results
(`live_search.js`), and for one that belongs to a linked word `last_search`, the
chosen word (`last_choice`), `restore_choice`, and how many timers are still to
fire that were set when it was left (`blurs`; 100 ms each). `focus` is the input
in use and `choosing` the one whose results have the focus; a person types,
enters an input (coming back to the window enters it again), leaves it for its
results or for something else, chooses a word or leaves the results without. A
form may come with links, whose inputs show their words (`Preset`).

`tick` is five seconds. Whatever can be delivered has been delivered by then,
handled and answered, and the server's timers have fired: a handler blocked
longer than that in a send or a search is not considered. The page's own timers
have fired too while the page is looked at. Browsers hold back the timers of a
page in the background, so a ping that is due may be late by any time; `late`
says so of a session that waits for it. `unanswered` is history too.

### State of the word game

The variables are the fields of `Game`. Texts are sequences of characters; the
two rules by which words become texts are operators of their own (`dictionary`
and `targets`), since the hazard is that they differ. `unplaced_letters` is the
first loop of the marking: it removes a letter by its index, which
`removal_cursor` keeps in line with what is left. `remaining_letters` is the
second: it removes the first occurrence of what it found. Which word the seeded
generator draws is left open: a behaviour is one page load and any word among the
targets may be the day's.

### What is excused, and why

No handler locks what it reads. Two acceptances of one suggestion that overlap
can create two words; a form sent after its suggestion was decided on inserts
the suggestion again; a panic or a crash half way leaves half of the work. The
model has all of these behaviours. A property that speaks of a whole handler is
stated of the rows outside `Excused`: those no request was cut short on and no
two requests were about at once. `References`, `DeletesTheWordShown`,
`ExampleEditsStay` and `UntouchedPartsStay` excuse nothing. There is no such
property of the edits of links, because the code does not keep one (see below).
`ReadsBackAsTyped` and `AgreedColumnsStand` set apart what the code is known to
lose: a mood that was removed, `is_informal` where it is taken from `is_plural`,
and, of the second, words that two acceptances wrote to at once.

## Runs

Every run of moderation has two threads, one user, one dataset. Two
threads give every pairwise interleaving of handlers; a third request
(`MaxRequests = 3`) can find what two that overlapped, or one that crashed, have
left behind. The databases (`MCModeration`) have one row of each kind a run is
about, so that each loop body and each cascade is reached and ids of tables
meet (word 1 and suggestion 1 both exist). Threads are symmetric where no
liveness property is checked. `CHECK_DEADLOCK FALSE` everywhere: the number of
requests, changes, acts, guesses or days is bounded, so behaviours end.

| run | question | properties |
|---|---|---|
| `decisions` | every decision about a word, an example, a link, a dataset and a deletion, against one another, on a database of a word, its parts and edits of each, two of a word and a suggested one with an example and a link or a dataset, and one of two suggested words linked to each other, beside edits of the suggestions decided on | `References`, `OneWordPerSuggestion`, `IndexMatchesDb`, `NothingDeletedReturns`, `DeletesTheWordShown`, `AcceptLosesNoPart`, `DecisionsAsPromised` (refinement) |
| `edits` | every change a user can make to the parts in a form (`Edits`), from a stale page while the suggestion is accepted | `TypeOK`, `ExampleEditsStay` |
| `forms` | forms of words and of both kinds of suggestion, two open at once, sent back with parts untouched or as new words, also when the newest suggestion was rejected and its number must not come again | `IndexMatchesDb`, `UntouchedPartsStay`, `DecisionsAsPromised` (the steps of `Decisions` that `decisions` has no room for: suggestions that are new) |
| `fields` | the columns of two words of different kinds, edits of one field at a time, three requests on two threads | `TypeOK`, `NoFieldUnfilled`, `ReadsBackAsTyped`, `AgreedColumnsStand` |
| `tokens` | two people and two browsers sign up, in and out, reload callbacks and send forms as often as they like, while `logout_all` has ids given out again that requests hold | `TypeOK`, `NobodyActsAsAnother`, `OneTokenPerApproval` |
| `sessions` | locks, roles, logouts (whose DELETE may come late or never), the daily sweep and a restart between any two reads of a request; under fairness, callbacks that come late | `ServedWhileAllowed`, `SignInsAreSwept` |
| `search` | two pages, two changes, one fault: death of the writer or of the only searcher, restart with and without an index | `TypeOK`, `IndexFollowsRows`, `ListAsPromised` (refinement), `EverybodyIsAnswered` |
| `live` | a search box and the input of a linked word, empty or with a word, two sockets, two acts: typing, entering, and leaving inputs, words chosen and not chosen, links that break, searches that fail, pings that are late | `TypeOK`, `SilentSessionsEnd`, `ReachableSessionsStay`, `LastValueIsAnswered` |
| `wordle` | words of three letters, three guesses: every game on words with repeated letters, optional vowels, a hyphen, a letter of two bytes, and plurals and infinitives | `TypeOK`, `WordInDictionary`, `MarksCountLetters`, `KeyboardShowsBest`, `OutcomeFollows`, `SharedAsPlayed` |
| `token_sweep` | violation | `SweepSparesTokensInUse` |
| `author` | violation | `AuthorsKeepTheirSuggestions` |
| `informal` | violation | `NullMeansNotChanged` |

Bounds, and why they are enough:

* `MaxForms` is the number of forms shown in a behaviour: one is enough for a
  form to go stale, two (in `forms`) for two users to send different ones.
* `TokenExpiryDays` and `CookieDays` are 30 and 31 in the code; 1 and 2 keep
  their order, and three days (`MaxDays = 2`) pass both. `tokens` has two
  sign-ins and two approvals: one token is deleted and the other is given its
  id, or one approval makes two callbacks and two forms. `MaxTokens` is larger
  than the number of approvals, so it is not what keeps tokens few. `sessions`
  has one sign-in: a second thread's failing callback removes its entry and the
  first puts it back. A thread takes any number of requests one after the other.
* `fields`: `MaxTouched = 1`, since fields do not meet in the code but for
  is_informal and is_plural; three requests make a suggestion, edit it and
  accept it, or accept two edits of one word; every column has one value beside
  the absent one, the text and the part of speech have two. One word is a plural
  that is not informal, the other informal and not plural.
* `search`: mailbox 1 instead of 16 makes a full mailbox an ordinary event; one
  searcher makes its loss that of the pool; two pages can both find the cache
  empty and fill it one after the other; word 1 and suggestion 1 share a number.
* `live`: ticks of five seconds keep 10, 15 and 30 s as 2, 3 and 6. Two sockets
  are one that breaks and its replacement. Two acts are enough to enter an input
  and type, or to enter one, leave it or choose a word and come back; an input
  that comes with a word has a text to search for without typing. Leaving and
  choosing are not counted.

The violations are of what the code says of itself:

* `token_sweep`: `export.rs` is to "sweep unused login tokens", yet the UPDATE
  that would keep `last_used` current has its parameters swapped and changes no
  row, so a token in daily use is swept 30 days after its sign-in.
* `author`: "Intentionally suggesting_user is not set to excluded" keeps the
  author of a suggestion in the table whoever edits it; the document sent to the
  index at the end of the same function names the editor, so the author's own
  search stops finding the suggestion and the editor's begins to.
* `informal`: NULL in a suggestion is "not changed"; a NULL is_informal is
  filled in with is_plural, and accepting an edit of any other column of a word
  of which just one holds changes is_informal.

Behaviours met on the way that no property speaks of:

* `example_deletion_suggestions` is the one table a moderator decides by whose
  ids are given out again: three requests make a moderator delete an example
  other than the one on the page.
* A suggested edit that points an existing link at a suggested word names one
  word only; the query that lists the suggestion's links does not join the link
  being edited, and its second `iter.next().unwrap()` panics, for the moderation
  page as for the acceptance. (`LinksPopulate` ends the request there.)
* An edit that points the link of word 1 to word 2 at word 3, made on the page of
  word 2, fills one column only, and `from_row_populate_both` takes the two ends
  from the columns of the edit first and those of the link after them: it is read
  as a link of word 3 to word 1 and is shown, and attributed, to those. The query
  for existing words lists such an edit twice.
* A retargeted link keeps its old words when the edit is accepted: the
  `ON CONFLICT` clause rewrites the type only.
* The form of a suggested edit does not show the word's own datasets, so sending
  it back suggests to remove them (which is why `Parts` leaves those rows out);
  its live search may offer the word itself as the other end of a link, since it
  is told the suggestion's number.
* A mood (`followed_by`) cannot be removed, nor changed alone.
* Two logouts with one token may delete the token of whoever signs in between
  their two DELETEs, which go by a row id that is given out again. And the task
  that deletes the token of a logout panics when it gets no connection or the
  database is busy; nothing tries again, and whoever kept the cookie stays
  signed in until it expires.
* A word and a suggestion with one number are one search result, either of the
  two.
* `start` without an index directory indexes the words and forgets the
  suggestions until they are edited. A page that is opened before the readers
  reload lists no words, and that empty list stays cached until the next change.
* The cached list of all words is rendered in the language of whoever asked
  first; the socket of a page searches with the options of whichever input
  opened it.
* Leaving the input of a linked word of which none was chosen clears its results;
  coming back restores its text, and no query is sent until the text changes.
* Leaving the results of a linked word without a choice, or choosing one by
  keyboard more than 100 ms after the input was left, leaves a text in the input
  that is not the word the form will send, or has the next leave not restore it:
  the one timer that looks at the input has fired. Coming back to the window with
  the focus in such an input takes its text back to the last search.
* A search that fails panics the session and not its socket: nothing is shown to
  the page, and its next message is lost too.
* A page in the background whose timers are held back loses its session after
  30 s of silence and opens another.
* Words with characters other than letters (a hyphen, for one) become the word of
  a day and cannot be typed: `export.rs` writes every word to the list. It writes
  the list anew every night, so the order the generator draws from changes: a word
  can come twice in a cycle and another not at all.

### Fairness

`FairSpec` of `SignIn` asks weak fairness of the sweep, which is a loop that
sleeps for ten minutes.
Nothing is asked of browsers, of the provider or of the rest of a request: a
sign-in is swept though its browser never comes back.

`FairSpec` of `SearchIndex` asks weak fairness of `Work` as a whole: the runtime
does not rest while some task or actor can go on. That is less than fairness of
each task; it is enough since a behaviour has finitely many changes and pages.
`EverybodyIsAnswered` then says that whatever faults happen, nobody is left
waiting when nothing can go on any more: for the lock, for the writer's mailbox
or for a dead actor.

`FairSpec` of `LiveSearch` asks weak fairness of the page's timer (`refresh`,
`maybeOpenWs`), of the browser's socket handlers together and of the sessions'
handling of messages. Time, pings, heartbeats, the timer of an input that was
left, searches that fail, links and the person are free: a link may break at any moment and for ever, which is why `LastValueIsAnswered`
excepts a page that has used up its sockets.

`Moderation`, `WordFields` and `Wordle` have no liveness property: a handler may
always be cut short, by a crash, a panic or its client, so there is nothing
their code promises to finish.

## Proofs

`ModerationProofs` proves, for any sets of users, threads, datasets, routes and
starting databases and for any bounds:

* `TypeCorrect`: `Spec => []TypeOK`
* `ReferencesHold`: `Spec => []References`

from `DbsAssumption` (the server starts with a database in which foreign keys
hold, no id is of two rows of a table, none is past its sequence and no suggestion
is linked with itself) and `BoundsAssumption` (the bounds are numbers). `EditProofs`
needs two more: `EditsAssumption` (edits are where the forms of words put them) and
`PartsAssumption` (a part names one suggestion of a new word, or words that exist,
never an edit; a link two of them at most). TLC finds the second kept by every run
of moderation. So is the first but for edits of links that were deleted and written
again while they were decided on: a database in which such a race has left its
edit is not among those a behaviour starts from.

The inductive invariant is `TypeOK /\ References`, neither half of which is
inductive alone: a handler that reads a suggested edit of a link takes the two
words from the link being edited (`NamedWords`), so the statement it goes on to
issue is typed only if that link exists; and a write keeps foreign keys because
its row is typed. `ModerationProofs` has a lemma for each action (`...Type`)
that rests on what each kind of step does: `ReadType`, `WriteType`,
`ArriveType`, `PanicType`; the type of the statement a thread is at follows from
its operation (`AtFetched`, `AtById`, ...). For `References` writes are of
three kinds: rows come that refer to what is there (`RowsThatReferMayCome`),
rows go that nothing refers to (`LeavesMayChange`), rows go and the DELETE
cascades (`DeletesCascade`). The last rests on `CascadeRestoresForeignKeys`:
two passes, over the tables others refer to and then over the rest, are the
whole cascade. `NextRowidType` is where finiteness is needed: SQLite's plain
rowid is one more than the largest, so the table that uses it has to be finite
(`FiniteTable`).

From the same assumptions, `ModerationProofs` and `ProgramProofs` prove

* `SuggestionsBecomeOneWord`: `Spec => []OneWordPerSuggestion` (a suggestion that
  no two requests were about at once, and that none was cut short on)
* `DeletedStaysDeleted`: `Spec => []NothingDeletedReturns`
* `ShownWordIsDeleted`: `Spec => []DeletesTheWordShown`
* `IndexHoldsWords`: `Spec => []IndexMatchesDb`
* `PartsAreAccepted`: `Spec => []AcceptLosesNoPart`

None is inductive: each speaks of tables, and what a table will be is on the
threads. The inductive invariant adds `Decided`, the conjunction of

* `ThreadsKnown`: the program of a thread has one of a few shapes, and of each
  statement it has left, a row that statement will write under its old id is
  there or excused (`Secured`), and the thread is about it; so whoever deletes it
  meanwhile is about it at the same time, which excuses it. A thread that has
  read a suggestion of a new word and not written knows that no word came of it;
* `IdsPassed`: ids that were ever given out, the deleted ones included, are not
  past their sequence. With AUTOINCREMENT, an id that comes is new or excused;
* `PagesKnown`: a page shows a deletion suggestion as it always was, so an id on
  a page and an id read later name one word. `example_deletion_suggestions` has
  no AUTOINCREMENT, which is why there is no such theorem for it;
* `OriginsKnown`: a suggestion that a word came of is gone, or the thread that
  accepted it still has its deletion ahead (`WillDelete`), or it is excused.

`Lawful` is what a step is to keep of the tables; a lemma for each action shows
it lawful, and `StepDecided` that lawful steps keep `Decided`. The attempt to
prove `DeletedStaysDeleted` first failed for a reason: a request is about every
row its statement deletes, cascaded ones included, and the model had counted
only the rows it names. With three threads, one that accepts the edit of an
example could bring it back though nobody else was *about* the example, only
about its word. `Write` now claims what its cascade takes away, and the acceptance
of an edit claims what it edits (`EditedExample`, `EditedLink`).

`IndexMatchesDb` speaks of documents no request is busy with, and the other half
is what a request leaves behind when it is done. The invariant `Indexed` says,
beside `Decided`,

* of a document some request is about, that the statements the request has left
  bring it in line (`Settles`): once the last of them is done it is in the index
  exactly when its row is in the tables. `StatementSettles` is the heart: a
  statement that does to index and tables what it says can be taken off the front;
* of a statement, that its request is about the document it puts or removes, and
  that nothing left takes out again what it puts (`Foresees`). A request that
  another one disturbs is about the same row, so the row is excused
  (`StepIndexed`);
* of suggestions, that forms, requests and rows name one and the same word, or
  none, that a suggestion is an edit of, for good (`FiledOnce`). Otherwise the
  form of a suggested edit, sent back when the suggestion is gone, could bring it
  back as a suggestion of a new word that has no document, or the reverse. This
  holds because `suggestion_id` is AUTOINCREMENT and nothing writes
  `existing_word_id` but the form that says what it was.

That an unchanged submission writes no document is right only because a
submission that found nothing to compare with always counts as changed: it is a
conjunct of `Foresees`, and without it a suggestion of a new word would be found
`~changed` and not `found`.

`AcceptLosesNoPart` is about the moment before a DELETE that cascades, and about
three tables that other requests write meanwhile. The invariant `Held` says,
beside `Indexed`,

* of a thread that goes on to put a word and to delete its suggestion
  (`WillAccept`), that for each part the suggestion has, a statement that accepts
  the part or deletes its row is ahead (`Covered`). A loop takes one row a turn,
  and between the `INSERT` of the part and the `DELETE` of its suggestion the second
  of them is what is ahead (`TurnAhead`);
* of what was fetched, that it is all there is (`Complete`), so that nothing is
  left out of the loops when the word is made (`RestTakesParts`);
* of whoever is to bring a part, that it is about the suggestion the part is of
  (`Answerable`): a part that comes between the fetch and the DELETE is excused.
  For links this goes for both ends (`EndsKnown`, `NamedBy`), and a link that waits
  for its other word is handed on to a suggestion the request is about;
* of a program, that the DELETE of the suggestion comes last but for the document
  (`DropsLast`), and that the links it accepts are those of the suggestion it
  deletes (`DropsItsOwn`).

A link of a suggestion with itself would break it: accepting the link names the
word at one end and leaves the suggestion at the other, to go with it. No form
offers a suggestion itself as the other end (`LinksOthers`), since the live search
leaves out the number of the page's own word and ids of suggestions are never
given out again; so no such link comes (`LinksApart`).

Last, `ProgramProofs` proves the refinement of `Decisions` by these invariants:

* `DecisionsKept`: `Spec => DecisionsAsPromised`

That an acceptance is `Accept` of the abstract specification needs two facts
beside them. The suggestion it is of must wait, so it must be there, though the
request read it long before: `Lives` says that the suggestion of a new word a
request is going to accept is in the table or excused. It is no
conjunct of `Indexed`, and follows from how `Indexed` is kept. A request that is
at an acceptance has nothing else to say of that document (`AcceptingIsSilent`),
so index and table agree on it (`AcceptingMatches`); a step moves one of the two
at most, unless it is the one that brings a row (`Uneventful`, `Brings`,
`StepKinds`); and since the two agree after the step as they did before, neither
has lost it, or else another request was about it, which excuses it (`StepLives`).
And the word it becomes must be new: `WordsKnown` says that a word that came of a suggestion is there or
was deleted, so AUTOINCREMENT does not give its number out again (`IdsPassed`).
The step then follows for each kind: one that brings nothing settles what it
takes away (`StepSettles`), an INSERT of a suggestion is `Suggest` or finds its
old number taken (`InsertDecides`), `accept_just_word` is `Accept`, or `Settle`
for an edit (`AcceptDecides`). `TrackKept` is what all of them end in: what was
excused stays so.

`EditProofs` proves, of the same specification,

* `ExampleEditsStayFiled`: `Spec => []ExampleEditsStay`
* `UntouchedStays`: `Spec => UntouchedPartsStay`, for instances whose requests are
  pages and forms and whose users change the fields of words and not their parts

An edit of an example is a suggestion, an example and a word; that of a link a
suggestion and a link. They are told of in tables, in forms that users have open
and in what threads have yet to issue, and a form may be sent years later. The
invariant `Edited` says that all that is told of an edit anywhere is one filing
(`ExamplesFiled`, `LinksFiled`): one suggestion is of one example, one example of
one word, and none has an id that is still to be given out, so a key that is new
is told of nowhere else. `StepEdited` takes a step apart into what it adds to the
tables and what it adds to forms and statements; what it adds has to be vouched for by what was
there. For links it also says that a link a form has an id of is one of the
form's word (`LinksKnown`) and that an edit names one word at most (`NamesOne`),
unless the link is lost: three requests can delete a link, write it again between
other words and leave an edit behind. That an edit of a link is *read* as being
between the right words does not follow, and does not hold.

`UntouchedStays` rests on the invariant `Untouched`. Every form that is open
shows (`Shows`) what is in the tables now: the links and examples of its word, or
those and the datasets of its suggestion, and nothing if it is of a new word. And
every statement yet to be issued is harmless (`Harmless`): it writes a link
between the two words it is between already (`SameLink`), an example under the
word or suggestion it has (`SameExample`), or the removal of a dataset of a word
of which an edit is suggested. What a step leaves of the tables (`Leaves`) keeps
forms and statements so (`StillShown`, `StillHarmless`), so one lemma
(`StepUntouched`) does for every action; each of the others shows that its write
`Leaves` the parts alone. It is here that `PartsAssumption` is needed: a row that
names three words, or parts filed with a suggested edit, would be shown as
something they are not. A suggestion that is no longer there has no parts for its form to show
(`EditsASuggestion` keeps that from arising, for nobody accepts or rejects), and
the next number of a suggestion has none yet (`NothingOfTheNext`).

`SignInProofs` proves, for any people, browsers and threads, any pages and
commands and any bounds:

* `TypeCorrect`: `Spec => []TypeOK`
* `NobodyEverActsAsAnother`: `Spec => []NobodyActsAsAnother`
* `OnlyServedWhileAllowed`: `Spec => []ServedWhileAllowed`
* `OneTokenForEachApproval`: `Spec => []OneTokenPerApproval`

from `DaysAssumption` and `BoundsAssumption` (days and bounds are numbers, pages
and commands are those there are). The inductive invariant is `Inv`, the
conjunction of

* `TypeOK`, whose second half, `NothingDangles`, is needed for the first: a
  request that registers or makes a token refers to a sign-in, and a token to an
  account, that must be there for the next value to be typed;
* `RowsKeepUsers`: a row of `login_tokens` is of the user its string was issued
  to. Strings are never drawn again although row ids are, so a row that has the
  id and the hash of a cookie is of the cookie's user. This is where the hash
  matters, and where the proof breaks if `Verifies` looks at the id alone;
* `NobodyActsAsAnother`, which carries that fact from the read of the token to
  the page;
* `Stood`: a request past `verify_token` has had its token in the table since it
  came, one past `fetch_by_id` also the permissions. `ServedWhileAllowed` says
  this of the last step only, and is not inductive without the one before.

`StepType` sorts steps by the part of the state they change (`RequestsOK`,
`InProgressOK`, `WorldOK`, ...), with a lemma for each group of actions, so that
an action has to be looked at only for the parts it disturbs. That strings are
new (`issued` only grows) gives `UserOfStays`, on which the rest rests.

`OneTokenPerApproval` compares two numbers, and no step changes just one of
them by one: a code is redeemed long before its token is written, and a sign-up
form may be sent by two threads. The invariant `Paid` counts by matching: `Charges` are
the tokens there are, the requests on their way to one (`Paying`) and the
sign-ups nobody has completed (`SigningUp`), and some injection takes each to a
redeemed code of its own person. The request that redeems a code is a new charge
with a new code; a form takes over the charge of its sign-up, whichever comes
first; a token that of its request. Cardinality comes in once, at the end.

`WordFieldsProofs` proves all four properties of the run `fields`, for any
values, words, suggestions, threads, bounds and new words:

* `TypeCorrect`, `NoFieldIsUnfilled`
* `ReadsBack`: what was typed is read back, but for a removed mood and an
  `is_informal` taken from `is_plural`
* `AgreedColumnsAlwaysStand`: acceptances that do not overlap keep what others
  agreed on, with the same exception of `is_informal`

from `MissingAssumption` (what stands for a missing value is not a value) and
`WordsAssumption`. The heart is `ParamsKept`: whatever the form and the word it
is compared with, the columns `Params` makes of them are read back beside that
word as what was typed, but for the two fields the code loses. `IInv` carries
this (as `Kept`) from a thread that has computed its parameters to the row, to a
thread that has read the row, and to the word: `RowsKnown`, `ThreadsKnown`,
`WordsAgreed`. It is needed because `ReadsBackAsTyped` speaks of rows only, and
a row is written by a thread that computed it from a word that may have changed.

`SearchProofs` proves, for any numbers of pages and changes, any mailbox and any
bounds:

* `TypeCorrect`: `Spec => []TypeOK`
* `ListPromiseKept`: `Spec => ListAsPromised`, the refinement of `WordList`
* `IndexAlwaysFollowsRows`: `Spec => []IndexFollowsRows`

from the assumptions `SearchIndex` names. For the types the strengthening is
that the mailbox holds each sent change once (`SentOnce`), so that the writer
never handles a request that has ended. For the refinement it is `ListInv`: a
page that has asked the searchers has the lock to itself, and neither what it
was told nor what is cached is older than `seen` or `shown`. It is not enough
to say this of the cache: a list is made in one step and stored in another, and
only the lock keeps an invalidation from coming in between. The proof breaks if
`Holds` lets whoever waits in (the mutant `TakesIt`).

`IndexFollowsRows` speaks of documents nothing is being done to; the invariant
`Following` says what holds while something is. Of two requests about one
document under way it is disputed (`AloneOrDisputed`), so of the rest there is
one at most, and it accounts for the difference (`AllHalfway`): before it has
written its row the two agree (a suggestion to be deleted has left the index by
then), afterwards the row is as it asked and the index has nothing yet of what
is to be added. `IdsAreNew` is for `add`, which does not delete first: a document
is there once only because nobody had added that id before.

`LiveSearchProofs` proves, for any inputs and values, any number of sockets and
any times,

* `TypeCorrect`: `Spec => []TypeOK`
* `SilentSessionsAlwaysEnd`: `Spec => []SilentSessionsEnd`
* `ReachableSessionsAlwaysStay`: `Spec => []ReachableSessionsStay`

from `InputsAssumption`, `BoundsAssumption` and `TimesAssumption`: periods are
not zero, and there is a ping in every period of silence (10 and 30 s in the
code; the third theorem needs it, a page that pinged less would lose its
session). The invariant `SocketOK` is of one socket: what a session has heard
nothing for and the time to its next check never make more than the limit and a
period; while its page can reach it and no ping has been overdue (`late`), that
time and the time to the next ping make no more than a period of pings, or a
message is under way. `late` ends with the next message the session handles, so
the third theorem speaks of every silence anew.

`WordleProofs` proves all six properties of the run `wordle`, for any word
length, number of guesses, alphabet and words (`TypeCorrect`,
`WordAlwaysInDictionary`, `GuessesAlwaysFit`, `OutcomeAlwaysFollows`,
`MarksAlwaysCountLetters`, `KeyboardAlwaysShowsBest`, `AlwaysSharedAsPlayed`).
They rest on `SizesAssumption` (a word has letters, a game guesses) and on
`NoneAssumption` (what stands for no result is not one). That the word of the day
is in the dictionary does not say that it can be typed: some words cannot.

The marking is two loops over the letters of a guess, recursive functions in
the model. `LeastNatural` gives induction without an operator as a parameter
(the set of counterexamples has a least member), `RecursiveFunction` that a
function defined by recursion is what its equation says; with them
`MarksAreCounted` is proved by induction over the letters. The first loop removes
letters by index from a sequence that shrinks under it; its invariant is `Looked`:
what lies at `removal_cursor` is the letter of the word the loop looks at, what
lies behind follows in order, and of each letter as many are left as the word has
ahead or out of its place (`RemoveAtCounts`, `UnplacedCounts`). The second loop
removes one of a letter at a time while there are some (`RemoveFirstCounts`,
`RemainingCounts`).
The invariant `Played` says that every row of the grid is marked so, that the
keyboard is the best of all rows, and that what would be shared is what is
shown, which needs that marking again gives the same marks.

### Model-checked only

`SignInsAreSwept`, `EverybodyIsAnswered` and
`LastValueIsAnswered` are liveness, out of the prover's reach. Every other
property of the passing runs is a theorem.

## Not modelled

* What a search makes of its query: stemming, fuzzy distance and ranking, the 50
  documents it takes, the ten results at which it stops at a level, the parentheses
  it strips from the query and not from the words it compares with, the cut at 64
  bytes, and the set that keeps one of a word and a suggestion with the same
  number. Whether a duplicate is found when a word is suggested depends on all of
  these, so no property speaks of it.
* What an importer parses, formatting, translation, templates, routing and
  rendering: text in and text out, no state of their own, nothing that
  interleaves.
* The connection pool. A handler holds one of ten connections while it asks for
  another, up to five deep (`accept_whole_word_suggestion` through
  `add_user_attribution`, `fetch_full` through `fetch_alone` of the original);
  enough such handlers wait for one another until the pool's 30 s timeout
  panics them. Every thread of the models has its connections, which hides no
  state but this one; a model of the pool would need each handler's nesting.
* In sign-in: the form with a user's settings and the languages of pages, and
  the actor's own renewal of its client.
* Datasets administration (`admin.rs`): one statement a request on one table.
* The export, which copies the database with SQLite's backup and then writes
  text files from the copy, and the restore, a command line tool that fills an
  empty database while nothing else runs.
* The service worker's two caches of static files.

## Plan

1. *Done.* Moderation: `Schema`, `Requests`, `Review`, `PartReview`,
   `Submission`, `Moderation`; proofs of types and references.
2. *Done.* Word fields: `WordFields`; all its properties proved.
3. *Done.* Sign-in: `Accounts`, `SignIn`; its safety properties proved.
4. *Done.* Search index: `WordList`, `SearchIndex`; the refinement and its safety
   properties proved.
5. *Done.* Live search: `LiveSearch`; its safety properties proved.
6. *Done.* Wordle: `Wordle`; all its properties proved.
7. *Done.* Edits of examples and links, and forms sent back untouched: proved.
8. *Done.* `Decisions`, a suggestion as one step from *suggested* to *accepted* or
   *rejected*, which `Moderation` implements on rows that are not excused.
9. Left: the connection pool.
