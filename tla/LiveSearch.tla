------------------------------ MODULE LiveSearch ------------------------------
(***************************************************************************)
(* Live search: the inputs of one page (server/static/live_search.js, and  *)
(* submit/linked_word.js for those that a word is chosen with), the        *)
(* WebSocket they share and the sessions at its other end                  *)
(* (server/src/session.rs).  A socket may break at any time, and its two   *)
(* ends may notice it at different times, the server perhaps never.  Time  *)
(* goes by in ticks of five seconds.                                       *)
(***************************************************************************)
EXTENDS Naturals, SequencesExt

CONSTANTS
    Searchers,      \* the inputs of the page
    Choosers,       \* those of them that belong to a linked word
    Values,         \* what can be typed
    Linked,         \* the words of links that the form may come with
    Chosen,         \* the text of a word that is chosen from results
    Empty,          \* the empty text
    Nobody,         \* no input
    PingEvery, CheckEvery, SilenceLimit,   \* in ticks: 10 s, 15 s and 30 s
    MaxActs, MaxSockets             \* bounds on what happens in a behaviour

ASSUME InputsAssumption ==
    /\ Choosers \subseteq Searchers
    /\ Nobody \notin Searchers
    /\ {Chosen, Empty} \cap (Values \cup Linked) = {} /\ Chosen # Empty
ASSUME TimesAssumption ==
    /\ {PingEvery, CheckEvery, SilenceLimit} \subseteq Nat \ {0}
    /\ PingEvery <= SilenceLimit
ASSUME BoundsAssumption == MaxActs \in Nat /\ MaxSockets \in Nat \ {0}

VARIABLES
    focus,       \* the input that is being typed into
    choosing,    \* the input whose results have the focus
    inputs,      \* of every searcher what the two scripts keep of it
    ws,          \* the number of the page's socket, or 0
    sockets,     \* the sockets there have been
    nextPing,    \* ticks until the page pings
    acts,        \* how often something was typed or an input entered
    \* Read by properties only:
    unanswered   \* inputs whose last query, or its answer, was lost

vars == <<focus, choosing, inputs, ws, sockets, nextPing, acts, unanswered>>

Page == <<ws, nextPing, acts>>

Here == DOMAIN sockets
Running(k) == sockets[k].session = "running"
IsOpen == ws # 0 /\ sockets[ws].client = "open"

-----------------------------------------------------------------------------
(* The person at the page *)

type(s) ==
    /\ focus = s
    /\ acts < MaxActs
    /\ acts' = acts + 1
    /\ \E text \in (Values \cup {Empty}) \ {inputs[s].text} :
         inputs' = [inputs EXCEPT ![s].text = text]
    /\ UNCHANGED <<focus, choosing, ws, sockets, nextPing, unanswered>>

\* An input of a linked word gets its last search back, also when the window has
\* been left and is used again with the focus where it was ...
focus_input(s) ==
    /\ focus \in {Nobody, s}
    /\ acts < MaxActs
    /\ acts' = acts + 1
    /\ focus' = s /\ choosing' = Nobody
    /\ inputs' = [inputs EXCEPT ![s].text = IF s \in Choosers THEN inputs[s].last_search ELSE @]
    /\ UNCHANGED <<ws, sockets, nextPing, unanswered>>

\* ... and when it is left for something else, or for its results, it is looked
\* at a moment later.
Left(s) == IF s \in Choosers THEN [inputs EXCEPT ![s].blurs = @ + 1] ELSE inputs

blur_input(s) ==
    /\ focus = s
    /\ focus' = Nobody
    /\ inputs' = Left(s)
    /\ UNCHANGED <<choosing, Page, sockets, unanswered>>

focus_results(s) ==
    /\ s \in Choosers /\ focus = s /\ inputs[s].hits # Empty
    /\ focus' = Nobody /\ choosing' = s
    /\ inputs' = Left(s)
    /\ UNCHANGED <<Page, sockets, unanswered>>

\* The click on a result
choose_word(s) ==
    /\ choosing = s
    /\ choosing' = Nobody
    /\ inputs' = [inputs EXCEPT ![s] =
          [@ EXCEPT !.last_search = inputs[s].text, !.last_choice = Chosen,
                    !.restore_choice = FALSE, !.text = Chosen]]
    /\ UNCHANGED <<focus, Page, sockets, unanswered>>

\* Nothing looks at the input when its results are left.
leave_results(s) ==
    /\ choosing = s
    /\ choosing' = Nobody
    /\ UNCHANGED <<focus, inputs, Page, sockets, unanswered>>

-----------------------------------------------------------------------------
(* The page's timers *)

\* 100 ms after an input of a linked word was left: unless it or its results
\* have the focus again, it shows the word chosen before; if one has just been
\* chosen, it shows that already.
Restored(i) ==
    IF i.restore_choice
    THEN [i EXCEPT !.last_search = i.text, !.text = i.last_choice]
    ELSE [i EXCEPT !.restore_choice = TRUE]

after_blur(s) ==
    /\ inputs[s].blurs > 0
    /\ LET i == [inputs[s] EXCEPT !.blurs = @ - 1]
       IN  inputs' = [inputs EXCEPT ![s] = IF s \in {focus, choosing} THEN i ELSE Restored(i)]
    /\ UNCHANGED <<focus, choosing, Page, sockets, unanswered>>

NewSocket ==
    [client |-> "opening", link |-> TRUE, session |-> "none", up |-> <<>>, down |-> <<>>,
     silent |-> 0, check |-> CheckEvery, late |-> FALSE]

\* Faulty: a socket that is still being opened does not count.
NoneIsOpen == ~IsOpen

NoSocket == ws = 0

maybeOpenWs ==
    /\ NoSocket
    /\ Len(sockets) < MaxSockets
    /\ sockets' = Append(sockets, NewSocket)
    /\ ws' = Len(sockets) + 1
    /\ UNCHANGED <<focus, choosing, inputs, nextPing, acts, unanswered>>

Ping == [from |-> Nobody, text |-> Empty]

\* refresh sends a query only for the input in use.
Asks(s) == focus = s /\ inputs[s].last_value # inputs[s].text

Query(s) == [from |-> s, text |-> inputs[s].text]

Refreshed(s) ==
    LET i == IF Asks(s) THEN [inputs[s] EXCEPT !.last_value = inputs[s].text]
             ELSE inputs[s]
    IN  IF i.text = Empty THEN [i EXCEPT !.hits = Empty] ELSE i

\* What is sent on a socket that has broken is lost; so are the results of an
\* input that is emptied while it is not in use, and which no query will bring
\* back as long as last_value reads as it did.
NowUnanswered ==
    LET asking == {s \in Searchers : Asks(s)}
        emptied == {s \in Searchers : /\ focus # s /\ inputs[s].text = Empty
                                      /\ inputs[s].last_value # Empty}
    IN  (unanswered \ asking) \cup emptied
        \cup (IF sockets[ws].link THEN {} ELSE asking)

\* Results that are cleared lose the focus.
ResultsCleared(s) == choosing' = IF choosing = s THEN Nobody ELSE choosing

\* The timer of 250 ms, when the socket is there.
refresh ==
    /\ IsOpen
    /\ inputs' = [s \in Searchers |-> Refreshed(s)]
    /\ sockets' = IF sockets[ws].link /\ \E s \in Searchers : Asks(s)
                  THEN [sockets EXCEPT ![ws].up = Append(@, Query(focus))]
                  ELSE sockets
    /\ unanswered' = NowUnanswered
    /\ IF choosing # Nobody /\ inputs[choosing].text = Empty
       THEN ResultsCleared(choosing) ELSE UNCHANGED choosing
    /\ UNCHANGED <<focus, Page>>

ping ==
    /\ nextPing = 0
    /\ nextPing' = PingEvery
    /\ sockets' = IF IsOpen /\ sockets[ws].link
                  THEN [sockets EXCEPT ![ws].up = Append(@, Ping)] ELSE sockets
    /\ UNCHANGED <<focus, choosing, inputs, ws, acts, unanswered>>

-----------------------------------------------------------------------------
(* The socket, as the page sees it *)

Opened(k) ==
    [sockets[k] EXCEPT !.client = "open", !.session = "running", !.up = <<Ping>>]

onopen(k) ==
    /\ sockets[k].client = "opening" /\ sockets[k].link
    /\ sockets' = [sockets EXCEPT ![k] = Opened(k)]
    /\ UNCHANGED <<focus, choosing, inputs, Page, unanswered>>

onmessage(k) ==
    /\ sockets[k].client = "open" /\ sockets[k].down # <<>>
    /\ LET reply == Head(sockets[k].down)
       IN  /\ inputs' = [inputs EXCEPT ![reply.from].hits = reply.text]
           /\ ResultsCleared(reply.from)
    /\ sockets' = [sockets EXCEPT ![k].down = Tail(@)]
    /\ UNCHANGED <<focus, Page, unanswered>>

\* A session that stops closes its socket.  That of one that has panicked is
\* dropped when the next message cannot be handed over to it.
Abandoned(k) ==
    \/ sockets[k].session = "stopped"
    \/ sockets[k].session = "panicked" /\ sockets[k].up # <<>>

LostWith(k) == {m.from : m \in ToSet(sockets[k].up \o sockets[k].down)} \ {Nobody}

Cut(k) ==
    [sockets[k] EXCEPT !.link = FALSE, !.up = <<>>, !.down = <<>>, !.late = FALSE]

\* onerror and onclose, which browsers call one right after the other.
onclose(k) ==
    /\ sockets[k].client # "closed"
    /\ \/ ~sockets[k].link
       \/ Abandoned(k) /\ sockets[k].down = <<>>
    /\ sockets' = [sockets EXCEPT ![k] = [Cut(k) EXCEPT !.client = "closed"]]
    /\ ws' = 0
    /\ unanswered' = unanswered \cup LostWith(k)
    /\ UNCHANGED <<focus, choosing, inputs, nextPing, acts>>

\* The network loses what was under way.
break_link(k) ==
    /\ sockets[k].link
    /\ sockets' = [sockets EXCEPT ![k] = Cut(k)]
    /\ unanswered' = unanswered \cup LostWith(k)
    /\ UNCHANGED <<focus, choosing, inputs, Page>>

-----------------------------------------------------------------------------
(* LiveSearchSession, which handles one message after the other *)

\* Faulty: the query that came last is answered first.
TakeNewest(up) == <<up[Len(up)], SubSeq(up, 1, Len(up) - 1)>>

TakeOldest(up) == <<Head(up), Tail(up)>>

\* Faulty: only what is searched for counts as a sign of life.
HeardOfQueries(k, message) == IF message.text = Empty THEN sockets[k].silent ELSE 0

HeardOf(k, message) == 0

handle_message(k) ==
    /\ Running(k) /\ sockets[k].up # <<>>
    /\ LET taken == TakeOldest(sockets[k].up)
           message == taken[1]
       IN  sockets' = [sockets EXCEPT ![k] =
              [sockets[k] EXCEPT
                  !.up = taken[2],
                  !.silent = HeardOf(k, message), !.late = FALSE,
                  !.down = IF message.text = Empty THEN @ ELSE Append(@, message)]]
    /\ UNCHANGED <<focus, choosing, inputs, Page, unanswered>>

\* Faulty: the time of the last message is not looked at.
NeverSilent(k) == FALSE

TooSilent(k) == sockets[k].silent > SilenceLimit

\* What the session kept goes with it.
Ended(k, how) ==
    [sockets[k] EXCEPT !.session = how, !.silent = 0, !.check = CheckEvery]

\* The search fails: no searcher, or a query that is cut inside a character.  A
\* panic closes nothing, and the mailbox is lost.
search_panics(k) ==
    /\ Running(k) /\ sockets[k].up # <<>> /\ Head(sockets[k].up).text # Empty
    /\ sockets' = [sockets EXCEPT ![k] = [Ended(k, "panicked") EXCEPT !.up = Tail(@)]]
    /\ unanswered' = unanswered \cup {Head(sockets[k].up).from}
    /\ UNCHANGED <<focus, choosing, inputs, Page>>

\* Handler<Heartbeat>
heartbeat(k) ==
    /\ Running(k) /\ sockets[k].check = 0
    /\ sockets' = [sockets EXCEPT
          ![k] = IF TooSilent(k) THEN Ended(k, "stopped") ELSE [@ EXCEPT !.check = CheckEvery]]
    /\ UNCHANGED <<focus, choosing, inputs, Page, unanswered>>

\* The stream ends with an error, or an answer cannot be sent.
session_ends(k) ==
    /\ Running(k) /\ ~sockets[k].link
    /\ sockets' = [sockets EXCEPT ![k] = Ended(k, "stopped")]
    /\ UNCHANGED <<focus, choosing, inputs, Page, unanswered>>

-----------------------------------------------------------------------------

\* The timers of a page that is looked at fire when they are due.
Prompt ==
    /\ nextPing > 0
    /\ IsOpen => \A s \in Searchers : Refreshed(s) = inputs[s]
    /\ \A s \in Searchers : inputs[s].blurs = 0

Overdue(k) == sockets[k].late \/ (sockets[k].link /\ nextPing = 0)

\* Five seconds.  The server's timers fire when they are due, and a message that
\* gets through at all gets through, is handled and answered in less.  Browsers
\* hold the timers of a page in the background back: its ping may be late by any
\* time.
tick ==
    /\ Prompt \/ nextPing = 0
    /\ nextPing' = IF nextPing = 0 THEN 0 ELSE nextPing - 1
    /\ \A k \in Here : /\ sockets[k].up = <<>> /\ sockets[k].down = <<>>
                       /\ Running(k) => sockets[k].check > 0
    /\ sockets' = [k \in Here |->
          IF Running(k)
          THEN [sockets[k] EXCEPT !.silent = @ + 1, !.check = @ - 1, !.late = Overdue(k)]
          ELSE sockets[k]]
    /\ UNCHANGED <<focus, choosing, inputs, ws, acts, unanswered>>

Blank == [text |-> Empty, last_value |-> Empty, last_search |-> Empty, last_choice |-> Empty,
          restore_choice |-> TRUE, blurs |-> 0, hits |-> Empty]

\* A link that the form comes with: a word found by its text.
Preset(text) == [Blank EXCEPT !.text = Chosen, !.last_search = text, !.last_choice = Chosen]

Init ==
    /\ focus = Nobody /\ choosing = Nobody
    /\ inputs \in [Searchers -> {Blank} \cup {Preset(text) : text \in Linked}]
    /\ \A s \in Searchers \ Choosers : inputs[s] = Blank
    /\ ws = 1
    /\ sockets = <<NewSocket>>
    /\ nextPing = PingEvery
    /\ acts = 0
    /\ unanswered = {}

Next ==
    \/ \E s \in Searchers :
         \/ type(s) \/ focus_input(s) \/ blur_input(s)
         \/ focus_results(s) \/ choose_word(s) \/ leave_results(s) \/ after_blur(s)
    \/ maybeOpenWs \/ refresh \/ ping
    \/ \E k \in Here :
         \/ onopen(k) \/ onmessage(k) \/ onclose(k) \/ break_link(k)
         \/ handle_message(k) \/ search_panics(k) \/ heartbeat(k) \/ session_ends(k)
    \/ tick

Spec == Init /\ [][Next]_vars

\* The page's timers go on, the browser calls its handlers, sockets open and
\* sessions handle what they are sent.  Nobody need type or stay, links need not
\* break, and time need not go by.
FairSpec ==
    /\ Spec
    /\ WF_vars(maybeOpenWs) /\ WF_vars(refresh)
    /\ WF_vars(\E k \in Here : onopen(k) \/ onmessage(k) \/ onclose(k))
    /\ WF_vars(\E k \in Here : handle_message(k))

-----------------------------------------------------------------------------
(* Properties *)

Texts == Values \cup Linked \cup {Chosen, Empty}

Input == [text: Texts, last_value: Texts, last_search: Texts, last_choice: Texts,
          restore_choice: BOOLEAN, blurs: Nat, hits: Texts]
Message == [from: Searchers \cup {Nobody}, text: Texts]
Answer == [from: Searchers, text: Texts \ {Empty}]
Socket == [client: {"opening", "open", "closed"}, link: BOOLEAN,
           session: {"none", "running", "stopped", "panicked"}, up: Seq(Message), down: Seq(Answer),
           silent: Nat, check: 0 .. CheckEvery, late: BOOLEAN]

\* Every variable holds what the code can put there; the page's socket is its
\* newest one, and no other is still open on its side.
TypeOK ==
    /\ focus \in Searchers \cup {Nobody} /\ choosing \in Choosers \cup {Nobody}
    /\ inputs \in [Searchers -> Input]
    /\ sockets \in Seq(Socket) /\ Len(sockets) <= MaxSockets
    /\ ws \in {0, Len(sockets)}
    /\ \A k \in Here : sockets[k].client # "closed" => k = ws
    /\ nextPing \in 0 .. PingEvery
    /\ unanswered \subseteq Searchers

\* A session whose page is gone, or cut off, is ended within 45 seconds.
SilentSessionsEnd ==
    \A k \in Here : Running(k) => sockets[k].silent <= SilenceLimit + CheckEvery

\* A session that its page can still reach is ended for being silent only if a
\* ping has been overdue since it last heard of the page: one comes every ten
\* seconds, even if nothing is searched for, while the page's timers are not held
\* back.
ReachableSessionsStay ==
    \A k \in Here : sockets[k].session = "stopped" => ~sockets[k].link \/ sockets[k].late

\* The input in use comes to show the results of what it holds, or none when it
\* is empty, except when its query was lost with its socket or its results were
\* cleared while it was not in use: then nothing sends the query again
\* (refresh compares with last_value, which is set when a query is sent).
LastValueIsAnswered ==
    \A s \in Searchers :
        []<>(\/ focus # s
             \/ inputs[s].hits = inputs[s].text
             \/ s \in unanswered /\ inputs[s].text # Empty
             \/ ws = 0 /\ Len(sockets) = MaxSockets)
=============================================================================
