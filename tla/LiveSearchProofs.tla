--------------------------- MODULE LiveSearchProofs ---------------------------
(***************************************************************************)
(* The pages and the sessions of live search, for any inputs, any number of *)
(* sockets and any times with a ping due in every period of silence.       *)
(***************************************************************************)
EXTENDS LiveSearch, TLAPS

\* A page sends queries of its inputs, and pings, which are empty.
Sent == [from: Searchers, text: Texts] \cup {Ping}

\* A socket is opened before it has a session; the time a session has heard
\* nothing and the time until it looks at that are together never more than the
\* limit and one period; and while its page can reach it and no ping is late, it has
\* heard the last ping, or that ping is under way.
SocketOK(x, untilPing) ==
    /\ x \in Socket
    /\ x.up \in Seq(Sent)
    /\ x.client = "opening" => x.session = "none"
    /\ x.session = "none" => x.silent = 0 /\ x.check = CheckEvery
    /\ x.session = "running" => x.silent + x.check <= SilenceLimit + CheckEvery
    /\ x.session = "running" /\ x.link => x.client = "open"
    /\ x.session = "running" /\ x.link /\ ~x.late =>
          /\ x.silent <= PingEvery
          /\ x.up = <<>> => x.silent + untilPing <= PingEvery
    /\ x.session = "stopped" /\ x.link => x.late

IInv == TypeOK /\ \A k \in Here : SocketOK(sockets[k], nextPing)

-----------------------------------------------------------------------------
(* What becomes of one socket *)

LEMMA Times ==
    /\ PingEvery \in Nat \ {0} /\ CheckEvery \in Nat \ {0} /\ SilenceLimit \in Nat \ {0}
    /\ PingEvery <= SilenceLimit
BY TimesAssumption

LEMMA SentType == Sent \subseteq Message /\ Ping \in Sent
BY DEF Sent, Message, Ping, Texts

LEMMA NewSocketOK ==
    ASSUME NEW untilPing
    PROVE  SocketOK(NewSocket, untilPing) /\ NewSocket.client = "opening"
<1>1. PICK x : x = NewSocket
  OBVIOUS
<1>2. /\ x.client = "opening" /\ x.link = TRUE /\ x.session = "none"
      /\ x.up = <<>> /\ x.down = <<>> /\ x.silent = 0 /\ x.check = CheckEvery
      /\ x.late = FALSE /\ x \in Socket
  BY <1>1, Times DEF NewSocket, Socket
<1>3. QED
  BY <1>1, <1>2 DEF SocketOK

\* onopen
LEMMA OpenedOK ==
    ASSUME NEW x, NEW untilPing, SocketOK(x, untilPing), x.client = "opening",
           NEW y, y = [x EXCEPT !.client = "open", !.session = "running", !.up = <<Ping>>]
    PROVE  SocketOK(y, untilPing)
<1>1. <<Ping>> \in Seq(Sent) /\ <<Ping>> \in Seq(Message) /\ <<Ping>> # <<>>
  BY SentType
<1>2. /\ y \in Socket /\ y.client = "open" /\ y.session = "running" /\ y.up = <<Ping>>
      /\ y.link = x.link /\ y.silent = x.silent /\ y.check = x.check
      /\ y.late = x.late
  BY <1>1 DEF SocketOK, Socket
<1>3. x.silent = 0 /\ x.check = CheckEvery
  BY DEF SocketOK
<1>4. QED
  BY <1>1, <1>2, <1>3, Times DEF SocketOK

\* A message is sent up.
LEMMA SentOK ==
    ASSUME NEW x, NEW untilPing, SocketOK(x, untilPing), NEW m \in Sent,
           NEW nextDue,
           NEW y, y = [x EXCEPT !.up = Append(@, m)]
    PROVE  SocketOK(y, nextDue)
<1>1. Append(x.up, m) \in Seq(Sent) /\ Append(x.up, m) # <<>>
  BY DEF SocketOK
<1>2. Append(x.up, m) \in Seq(Message)
  BY SentType DEF SocketOK, Socket
<1>3. /\ y \in Socket /\ y.up = Append(x.up, m) /\ y.client = x.client
      /\ y.session = x.session /\ y.link = x.link /\ y.silent = x.silent
      /\ y.check = x.check /\ y.late = x.late
  BY <1>2 DEF SocketOK, Socket
<1>4. QED
  BY <1>1, <1>3 DEF SocketOK

\* onmessage
LEMMA ReceivedOK ==
    ASSUME NEW x, NEW untilPing, SocketOK(x, untilPing), x.down # <<>>,
           NEW y, y = [x EXCEPT !.down = Tail(@)]
    PROVE  SocketOK(y, untilPing) /\ y.client = x.client
<1>1. Tail(x.down) \in Seq(Answer)
  BY DEF SocketOK, Socket
<1>2. /\ y \in Socket /\ y.up = x.up /\ y.client = x.client
      /\ y.session = x.session /\ y.link = x.link /\ y.silent = x.silent
      /\ y.check = x.check /\ y.late = x.late
  BY <1>1 DEF SocketOK, Socket
<1>3. QED
  BY <1>2 DEF SocketOK

\* break_link, and onclose
LEMMA CutOK ==
    ASSUME NEW x \in Socket, NEW untilPing, SocketOK(x, untilPing),
           NEW client \in {"open", "opening", "closed"}, client \in {x.client, "closed"},
           NEW y, y = [x EXCEPT !.client = client, !.link = FALSE, !.up = <<>>,
                                !.down = <<>>, !.late = FALSE]
    PROVE  SocketOK(y, untilPing) /\ y.client = client
<1>1. <<>> \in Seq(Answer) /\ <<>> \in Seq(Sent) /\ <<>> \in Seq(Message)
  OBVIOUS
<1>2. PICK none \in Seq(Message) : none = <<>>
  BY <1>1
<1>3. none \in Seq(Answer) /\ none \in Seq(Sent)
  BY <1>2
<1>4. y = [x EXCEPT !.client = client, !.link = FALSE, !.up = none, !.down = none,
                    !.late = FALSE]
  BY <1>2
<1>5. /\ y \in Socket /\ y.up = none /\ y.client = client
      /\ y.session = x.session /\ y.link = FALSE /\ y.silent = x.silent
      /\ y.check = x.check /\ y.late = FALSE
  BY <1>3, <1>4 DEF Socket
<1>6. QED
  BY <1>3, <1>5 DEF SocketOK

\* handle_message: whatever it is, it has been heard.
Handled(x) ==
    [x EXCEPT !.up = Tail(x.up), !.silent = 0, !.late = FALSE,
              !.down = IF Head(x.up).text = Empty THEN @ ELSE Append(@, Head(x.up))]

LEMMA HandledOK ==
    ASSUME NEW x \in Socket, NEW untilPing \in 0 .. PingEvery, SocketOK(x, untilPing),
           x.session = "running", x.up # <<>>, NEW y, y = Handled(x)
    PROVE  SocketOK(y, untilPing) /\ y.client = x.client
<1>1. Tail(x.up) \in Seq(Sent) /\ Head(x.up) \in Sent
  BY DEF SocketOK
<1>2. PICK up \in Seq(Message) : up = Tail(x.up) /\ up \in Seq(Sent)
  <2>1. Tail(x.up) \in Seq(Message)
    BY DEF Socket
  <2>2. QED
    BY <1>1, <2>1
<1>3. PICK down \in Seq(Answer) : down = IF Head(x.up).text = Empty THEN x.down
                                         ELSE Append(x.down, Head(x.up))
  <2>1. Head(x.up).text # Empty => Head(x.up) \in Answer
    BY <1>1 DEF Sent, Ping, Answer, Texts
  <2>2. x.down \in Seq(Answer)
    BY DEF Socket
  <2>3. Head(x.up).text # Empty => Append(x.down, Head(x.up)) \in Seq(Answer)
    BY <2>1, <2>2
  <2>4. QED
    BY <2>2, <2>3
<1>4. PICK zero \in Nat : zero = 0
  OBVIOUS
<1>5. y = [x EXCEPT !.up = up, !.silent = zero, !.late = FALSE, !.down = down]
  BY <1>2, <1>3, <1>4 DEF Handled
<1>6. /\ y \in Socket /\ y.up = up /\ y.client = x.client
      /\ y.session = x.session /\ y.link = x.link /\ y.silent = zero
      /\ y.check = x.check /\ y.late = FALSE
  BY <1>5 DEF Socket
<1>7. x.check <= CheckEvery /\ x.check \in Nat
  BY Times DEF Socket
<1>8. x.client # "opening" /\ (x.link => x.client = "open")
  BY DEF SocketOK
<1>9. QED
  BY <1>2, <1>4, <1>6, <1>7, <1>8, Times DEF SocketOK

\* The fields that the heartbeat of a session and a tick write.
LEMMA CheckSet ==
    ASSUME NEW T, NEW S, S = [client: {"opening", "open", "closed"}, link: BOOLEAN,
                            session: {"none", "running", "stopped", "panicked"},
                            up: Seq(Message), down: Seq(Answer), silent: Nat, check: T,
                            late: BOOLEAN],
           NEW x \in S, NEW c \in T,
           NEW y, y = [x EXCEPT !.check = c]
    PROVE  /\ y \in S /\ y.up = x.up /\ y.client = x.client /\ y.link = x.link
           /\ y.session = x.session /\ y.silent = x.silent /\ y.check = c
           /\ y.late = x.late
OBVIOUS

LEMMA SilentCheckSet ==
    ASSUME NEW T, NEW S, S = [client: {"opening", "open", "closed"}, link: BOOLEAN,
                            session: {"none", "running", "stopped", "panicked"},
                            up: Seq(Message), down: Seq(Answer), silent: Nat, check: T,
                            late: BOOLEAN],
           NEW x \in S, NEW n \in Nat, NEW c \in T, NEW late \in BOOLEAN,
           NEW y, y = [x EXCEPT !.silent = n, !.check = c, !.late = late]
    PROVE  /\ y \in S /\ y.up = x.up /\ y.client = x.client /\ y.session = x.session
           /\ y.link = x.link /\ y.silent = n /\ y.check = c /\ y.late = late
OBVIOUS

Waited(x, n, c, late) == [x EXCEPT !.silent = n, !.check = c, !.late = late]

LEMMA WaitedIsSocket ==
    ASSUME NEW x \in Socket, NEW n \in Nat, NEW c \in 0 .. CheckEvery, NEW late \in BOOLEAN,
           NEW y, y = Waited(x, n, c, late)
    PROVE  /\ y \in Socket /\ y.up = x.up /\ y.client = x.client /\ y.session = x.session
           /\ y.link = x.link /\ y.silent = n /\ y.check = c /\ y.late = late
<1>1. PICK T : T = (0 .. CheckEvery)
  OBVIOUS
<1>2. c \in T
  BY <1>1
<1>3. Socket = [client: {"opening", "open", "closed"}, link: BOOLEAN,
                session: {"none", "running", "stopped", "panicked"},
                up: Seq(Message), down: Seq(Answer), silent: Nat, check: T,
                late: BOOLEAN]
  BY <1>1 DEF Socket
<1>4. QED
  BY <1>2, <1>3, SilentCheckSet DEF Waited

\* session_ends, the heartbeat of a session that has heard nothing, and
\* search_panics
EndedAs(x, how, up) ==
    [x EXCEPT !.session = how, !.silent = 0, !.check = CheckEvery, !.up = up]

LEMMA EndedOK ==
    ASSUME NEW x \in Socket, NEW untilPing, SocketOK(x, untilPing), x.session = "running",
           NEW how \in {"stopped", "panicked"}, how = "stopped" /\ x.link => x.late,
           NEW up, up \in Seq(Message), up \in Seq(Sent),
           NEW y, y = EndedAs(x, how, up)
    PROVE  SocketOK(y, untilPing) /\ y.client = x.client
<1>1. CheckEvery \in 0 .. CheckEvery
  BY Times
<1>2. /\ y \in Socket /\ y.up = up /\ y.client = x.client
      /\ y.session = how /\ y.link = x.link /\ y.late = x.late
  <2>1. PICK zero \in Nat : zero = 0
    OBVIOUS
  <2>2. y = [x EXCEPT !.session = how, !.silent = zero, !.check = CheckEvery, !.up = up]
    BY <2>1 DEF EndedAs
  <2>3. PICK T : T = (0 .. CheckEvery)
    OBVIOUS
  <2>4. CheckEvery \in T
    BY <1>1, <2>3
  <2>5. Socket = [client: {"opening", "open", "closed"}, link: BOOLEAN,
                  session: {"none", "running", "stopped", "panicked"},
                  up: Seq(Message), down: Seq(Answer), silent: Nat, check: T,
                  late: BOOLEAN]
    BY <2>3 DEF Socket
  <2>6. QED
    BY <2>2, <2>4, <2>5
<1>3. x.client # "opening"
  BY DEF SocketOK
<1>4. QED
  BY <1>2, <1>3 DEF SocketOK

\* The heartbeat of a session that goes on.
LEMMA CheckedOK ==
    ASSUME NEW x \in Socket, NEW untilPing, SocketOK(x, untilPing), x.session = "running",
           x.silent <= SilenceLimit,
           NEW y, y = [x EXCEPT !.check = CheckEvery]
    PROVE  SocketOK(y, untilPing) /\ y.client = x.client
<1>1. /\ y \in Socket /\ y.up = x.up /\ y.client = x.client /\ y.session = x.session
      /\ y.link = x.link /\ y.silent = x.silent /\ y.check = CheckEvery
      /\ y.late = x.late
  <2>1. CheckEvery \in 0 .. CheckEvery
    BY Times
  <2>2. QED
    BY <2>1, CheckSet DEF Socket
<1>2. x.silent \in Nat
  BY DEF Socket
<1>3. QED
  BY <1>1, <1>2, Times DEF SocketOK

\* tick: the time until the next ping is less by one, or that ping is late.
Ticked(x, late) == [x EXCEPT !.silent = @ + 1, !.check = @ - 1, !.late = late]

LEMMA TickedOK ==
    ASSUME NEW x \in Socket, NEW untilPing \in 0 .. PingEvery, SocketOK(x, untilPing),
           x.session = "running", x.check > 0, x.up = <<>>,
           NEW late \in BOOLEAN, ~late => ~x.late /\ (x.link => untilPing > 0),
           NEW left \in 0 .. PingEvery, untilPing > 0 => left = untilPing - 1,
           NEW y, y = Ticked(x, late)
    PROVE  SocketOK(y, left) /\ y.client = x.client
<1>1. x.silent \in Nat /\ x.check \in 1 .. CheckEvery
  BY Times DEF Socket
<1>2. PICK n \in Nat : n = x.silent + 1
  BY <1>1
<1>3. PICK c \in 0 .. CheckEvery : c = x.check - 1
  BY <1>1, Times
<1>4. y = Waited(x, n, c, late)
  <2>1. PICK z : z = [x EXCEPT !.silent = n]
    OBVIOUS
  <2>2. z.check = x.check
    BY <2>1 DEF Socket
  <2>3. QED
    BY <1>2, <1>3, <2>1, <2>2 DEF Ticked, Waited
<1>5. /\ y \in Socket /\ y.up = x.up /\ y.client = x.client /\ y.session = x.session
      /\ y.link = x.link /\ y.silent = n /\ y.check = c /\ y.late = late
  BY <1>4, WaitedIsSocket
<1>6. x.silent + x.check <= SilenceLimit + CheckEvery
  BY DEF SocketOK
<1>7. n + c <= SilenceLimit + CheckEvery
  BY <1>1, <1>2, <1>3, <1>6, Times
<1>8. x.client # "opening" /\ x.up \in Seq(Sent) /\ (x.link => x.client = "open")
  BY DEF SocketOK
<1>9. x.link /\ ~late => untilPing > 0 /\ x.silent + untilPing <= PingEvery
  BY DEF SocketOK
<1>10. x.link /\ ~late => n <= PingEvery /\ n + left <= PingEvery
  BY <1>1, <1>2, <1>9, Times
<1>11. QED
  BY <1>5, <1>7, <1>8, <1>10 DEF SocketOK

\* Of a session that nobody waits for, or that does not run, the ping is none of
\* its business.
LEMMA PingedOK ==
    ASSUME NEW x, NEW untilPing, SocketOK(x, untilPing), NEW nextDue,
           x.session # "running" \/ ~x.link \/ x.up # <<>>
    PROVE  SocketOK(x, nextDue)
BY DEF SocketOK

-----------------------------------------------------------------------------
(* The sockets of a page *)

LEMMA SocketsType ==
    ASSUME IInv
    PROVE  /\ sockets \in Seq(Socket) /\ Len(sockets) \in Nat /\ Here = 1 .. Len(sockets)
           /\ nextPing \in 0 .. PingEvery
           /\ \A k \in Here : sockets[k] \in Socket /\ SocketOK(sockets[k], nextPing)
BY DEF IInv, TypeOK, Here

LEMMA OneReplaced ==
    ASSUME NEW s \in Seq(Socket), NEW k \in DOMAIN s, NEW y \in Socket, NEW t,
           t = [s EXCEPT ![k] = y]
    PROVE  /\ t \in Seq(Socket) /\ Len(t) = Len(s) /\ DOMAIN t = DOMAIN s
           /\ t[k] = y /\ \A j \in DOMAIN s : j # k => t[j] = s[j]
OBVIOUS

FocusType == focus \in Searchers \cup {Nobody} /\ choosing \in Choosers \cup {Nobody}

\* Another step of one socket than its end.
LEMMA OneSocketStep ==
    ASSUME IInv, NEW k \in Here, NEW y, SocketOK(y, nextPing),
           y.client = sockets[k].client \/ y.client = "closed" \/ k = ws,
           sockets' = [sockets EXCEPT ![k] = y],
           inputs' \in [Searchers -> Input], unanswered' \subseteq Searchers,
           FocusType', UNCHANGED Page
    PROVE  IInv'
<1>1. PICK t : t = sockets'
  OBVIOUS
<1>2. y \in Socket
  BY DEF SocketOK
<1>3. /\ t \in Seq(Socket) /\ Len(t) = Len(sockets) /\ DOMAIN t = DOMAIN sockets
      /\ t[k] = y /\ \A j \in DOMAIN sockets : j # k => t[j] = sockets[j]
  BY <1>1, <1>2, SocketsType, OneReplaced DEF Here
<1>4. \A j \in Here' : SocketOK(sockets'[j], nextPing')
  BY <1>1, <1>3, SocketsType DEF Here, Page
<1>5. \A j \in Here' : sockets'[j].client # "closed" => j = ws'
  BY <1>1, <1>3 DEF IInv, TypeOK, Here, Page
<1>6. QED
  BY <1>1, <1>3, <1>4, <1>5 DEF IInv, TypeOK, Page, FocusType

LEMMA InputsType ==
    ASSUME IInv
    PROVE  /\ inputs \in [Searchers -> Input] /\ unanswered \subseteq Searchers /\ FocusType
           /\ \A s \in Searchers : inputs[s] \in Input
BY DEF IInv, TypeOK, FocusType

\* Steps at the page: the sockets are as they were.
LEMMA PageStep ==
    ASSUME IInv, inputs' \in [Searchers -> Input], FocusType',
           unanswered' \subseteq Searchers,
           UNCHANGED <<ws, sockets, nextPing>>
    PROVE  IInv'
BY DEF IInv, TypeOK, Here, FocusType

\* One input is written to.
LEMMA OneInput ==
    ASSUME IInv, NEW s \in Searchers, NEW i \in Input,
           inputs' = [inputs EXCEPT ![s] = i]
    PROVE  inputs' \in [Searchers -> Input]
BY InputsType

LEMMA TypeKeeps ==
    ASSUME IInv, NEW s \in Searchers, type(s)
    PROVE  IInv'
<1>1. PICK text \in Texts : inputs' = [inputs EXCEPT ![s].text = text]
  BY DEF type, Texts
<1>2. [inputs[s] EXCEPT !.text = text] \in Input
  BY InputsType DEF Input
<1>3. inputs' \in [Searchers -> Input]
  BY <1>1, <1>2, OneInput
<1>4. QED
  BY <1>3, InputsType, PageStep DEF type, FocusType

LEMMA FocusKeeps ==
    ASSUME IInv, NEW s \in Searchers, focus_input(s)
    PROVE  IInv'
<1>1. PICK text : text = IF s \in Choosers THEN inputs[s].last_search ELSE inputs[s].text
  OBVIOUS
<1>2. text \in Texts /\ inputs' = [inputs EXCEPT ![s].text = text]
  BY <1>1, InputsType DEF focus_input, Input
<1>3. [inputs[s] EXCEPT !.text = text] \in Input
  BY <1>2, InputsType DEF Input
<1>4. inputs' \in [Searchers -> Input]
  BY <1>2, <1>3, OneInput
<1>5. QED
  BY <1>4, InputsType, PageStep DEF focus_input, FocusType

LEMMA LeftType ==
    ASSUME IInv, NEW s \in Searchers
    PROVE  Left(s) \in [Searchers -> Input]
<1>1. PICK n \in Nat : n = inputs[s].blurs + 1
  BY InputsType DEF Input
<1>2. PICK i : i = [inputs[s] EXCEPT !.blurs = n]
  OBVIOUS
<1>3. i \in Input
  BY <1>2, InputsType DEF Input
<1>4. [inputs EXCEPT ![s].blurs = @ + 1] = [inputs EXCEPT ![s] = i]
  BY <1>1, <1>2, InputsType
<1>5. QED
  BY <1>3, <1>4, InputsType DEF Left

LEMMA BlurKeeps ==
    ASSUME IInv, NEW s \in Searchers, blur_input(s) \/ focus_results(s)
    PROVE  IInv'
BY LeftType, InputsType, PageStep DEF blur_input, focus_results, FocusType, Page

LEMMA ChooseKeeps ==
    ASSUME IInv, NEW s \in Searchers, choose_word(s)
    PROVE  IInv'
<1>1. PICK word \in Texts : word = Chosen
  BY DEF Texts
<1>2. PICK i : i = [inputs[s] EXCEPT !.last_search = inputs[s].text, !.last_choice = word,
                                     !.restore_choice = FALSE, !.text = word]
  OBVIOUS
<1>3. i \in Input
  BY <1>2, InputsType DEF Input
<1>4. inputs' = [inputs EXCEPT ![s] = i]
  BY <1>1, <1>2, InputsType DEF choose_word
<1>5. QED
  BY <1>3, <1>4, OneInput, InputsType, PageStep DEF choose_word, FocusType, Page

LEMMA LeaveKeeps ==
    ASSUME IInv, NEW s \in Searchers, leave_results(s)
    PROVE  IInv'
BY InputsType, PageStep DEF leave_results, FocusType, Page

LEMMA RestoredType ==
    ASSUME NEW i \in Input
    PROVE  Restored(i) \in Input
<1>1. CASE i.restore_choice
  BY <1>1 DEF Restored, Input
<1>2. CASE ~i.restore_choice
  BY <1>2 DEF Restored, Input
<1>3. QED
  BY <1>1, <1>2

LEMMA AfterBlurKeeps ==
    ASSUME IInv, NEW s \in Searchers, after_blur(s)
    PROVE  IInv'
<1>1. PICK n \in Nat : n = inputs[s].blurs - 1
  BY InputsType DEF Input, after_blur
<1>2. PICK i : i = [inputs[s] EXCEPT !.blurs = n]
  OBVIOUS
<1>3. i \in Input
  BY <1>2, InputsType DEF Input
<1>4. i = [inputs[s] EXCEPT !.blurs = @ - 1]
  BY <1>1, <1>2
<1>5. PICK j : j = IF s \in {focus, choosing} THEN i ELSE Restored(i)
  OBVIOUS
<1>6. j \in Input
  BY <1>3, <1>5, RestoredType
<1>7. inputs' = [inputs EXCEPT ![s] = j]
  BY <1>4, <1>5 DEF after_blur
<1>8. QED
  BY <1>6, <1>7, OneInput, InputsType, PageStep DEF after_blur, FocusType, Page

LEMMA OpenWsKeeps ==
    ASSUME IInv, maybeOpenWs
    PROVE  IInv'
<1>1. PICK t : t = sockets'
  OBVIOUS
<1>2. PICK x : x = NewSocket
  OBVIOUS
<1>3. x \in Socket /\ SocketOK(x, nextPing)
  BY <1>2, NewSocketOK DEF SocketOK
<1>4. t = Append(sockets, x)
  BY <1>1, <1>2 DEF maybeOpenWs
<1>5. /\ t \in Seq(Socket) /\ Len(t) = Len(sockets) + 1 /\ DOMAIN t = 1 .. Len(t)
      /\ t[Len(t)] = x /\ \A j \in Here : t[j] = sockets[j]
      /\ \A j \in DOMAIN t : j \in Here \/ j = Len(t)
  BY <1>3, <1>4, SocketsType
<1>6. \A j \in Here : sockets[j].client = "closed"
  BY SocketsType DEF IInv, TypeOK, maybeOpenWs, NoSocket
<1>7. ws' = Len(t) /\ nextPing' = nextPing
  BY <1>5 DEF maybeOpenWs
<1>8. \A j \in Here' : SocketOK(sockets'[j], nextPing')
  BY <1>1, <1>3, <1>5, <1>7, SocketsType DEF Here
<1>9. \A j \in Here' : sockets'[j].client # "closed" => j = ws'
  BY <1>1, <1>5, <1>6, <1>7 DEF Here
<1>10. Len(sockets') <= MaxSockets
  BY <1>1, <1>5, SocketsType, BoundsAssumption DEF maybeOpenWs
<1>11. QED
  BY <1>1, <1>5, <1>7, <1>8, <1>9, <1>10 DEF IInv, TypeOK, maybeOpenWs

LEMMA OpenIsHere ==
    ASSUME IInv, IsOpen
    PROVE  ws \in Here
BY SocketsType DEF IInv, TypeOK, IsOpen

LEMMA RefreshedType ==
    ASSUME IInv, NEW s \in Searchers
    PROVE  Refreshed(s) \in Input
<1>1. PICK i : i = IF Asks(s) THEN [inputs[s] EXCEPT !.last_value = inputs[s].text]
                   ELSE inputs[s]
  OBVIOUS
<1>2. i \in Input
  BY <1>1, InputsType DEF Input
<1>3. PICK none \in Texts : none = Empty
  BY DEF Texts
<1>4. [i EXCEPT !.hits = none] \in Input
  BY <1>2, <1>3 DEF Input
<1>5. QED
  BY <1>1, <1>2, <1>3, <1>4 DEF Refreshed

LEMMA RefreshKeeps ==
    ASSUME IInv, refresh
    PROVE  IInv'
<1>1. inputs' \in [Searchers -> Input]
  BY RefreshedType DEF refresh
<1>2. unanswered' \subseteq Searchers /\ FocusType'
  BY InputsType DEF refresh, NowUnanswered, ResultsCleared, FocusType
<1>3. CASE UNCHANGED sockets
  BY <1>1, <1>2, <1>3, PageStep DEF refresh, Page
<1>4. CASE /\ \E s \in Searchers : Asks(s)
           /\ sockets' = [sockets EXCEPT ![ws].up = Append(@, Query(focus))]
  <2>1. ws \in Here
    BY OpenIsHere DEF refresh
  <2>2. focus \in Searchers
    BY <1>4 DEF Asks
  <2>3. PICK m : m = Query(focus)
    OBVIOUS
  <2>4. m \in Sent
    BY <2>2, <2>3, InputsType DEF Query, Sent, Input
  <2>5. PICK y : y = [sockets[ws] EXCEPT !.up = Append(@, m)]
    OBVIOUS
  <2>6. SocketOK(y, nextPing)
    BY <2>1, <2>4, <2>5, SocketsType, SentOK
  <2>7. sockets' = [sockets EXCEPT ![ws] = y]
    BY <1>4, <2>3, <2>5
  <2>8. UNCHANGED Page
    BY DEF refresh
  <2>9. QED
    BY <1>1, <1>2, <2>1, <2>6, <2>7, <2>8, OneSocketStep
<1>5. QED
  BY <1>3, <1>4 DEF refresh

\* A ping is due: the one socket of the page that its session can still be
\* reached by gets it.
LEMMA PingKeeps ==
    ASSUME IInv, ping
    PROVE  IInv'
<1>1. /\ nextPing = 0 /\ nextPing' = PingEvery
      /\ UNCHANGED <<focus, choosing, inputs, ws, acts, unanswered>>
  BY DEF ping
<1>2. ASSUME NEW k \in Here, sockets[k].session = "running", sockets[k].link
      PROVE  k = ws /\ IsOpen
  <2>1. sockets[k].client = "open"
    BY <1>2, SocketsType DEF SocketOK
  <2>2. k = ws /\ k # 0
    BY <1>2, <2>1, SocketsType DEF IInv, TypeOK
  <2>3. QED
    BY <2>1, <2>2 DEF IsOpen
<1>3. CASE IsOpen /\ sockets[ws].link
  <2>1. ws \in Here
    BY <1>3, OpenIsHere
  <2>2. PICK m : m = Ping
    OBVIOUS
  <2>3. PICK y : y = [sockets[ws] EXCEPT !.up = Append(@, m)]
    OBVIOUS
  <2>4. PICK t : t = sockets'
    OBVIOUS
  <2>5. t = [sockets EXCEPT ![ws] = y]
    BY <1>3, <2>2, <2>3, <2>4 DEF ping
  <2>6. SocketOK(y, PingEvery) /\ y.client = sockets[ws].client
    <3>1. m \in Sent
      BY <2>2, SentType
    <3>2. SocketOK(y, PingEvery)
      BY <2>1, <2>3, <3>1, SocketsType, SentOK
    <3>3. y.client = sockets[ws].client
      BY <2>1, <2>3, SocketsType DEF Socket
    <3>4. QED
      BY <3>2, <3>3
  <2>7. y \in Socket
    BY <2>6 DEF SocketOK
  <2>8. /\ t \in Seq(Socket) /\ Len(t) = Len(sockets) /\ DOMAIN t = DOMAIN sockets
        /\ t[ws] = y /\ \A j \in DOMAIN sockets : j # ws => t[j] = sockets[j]
    BY <2>1, <2>5, <2>7, SocketsType, OneReplaced DEF Here
  <2>9. ASSUME NEW j \in Here
        PROVE  SocketOK(t[j], PingEvery)
    <3>1. CASE j = ws
      BY <2>6, <2>8, <3>1
    <3>2. CASE j # ws
      <4>1. PICK x : x = sockets[j]
        OBVIOUS
      <4>2. SocketOK(x, nextPing) /\ (x.session # "running" \/ ~x.link)
        BY <1>2, <2>9, <3>2, <4>1, SocketsType
      <4>3. SocketOK(x, PingEvery)
        BY <4>2, PingedOK
      <4>4. QED
        BY <2>8, <3>2, <4>1, <4>3 DEF Here
    <3>3. QED
      BY <3>1, <3>2
  <2>10. \A j \in Here : t[j].client # "closed" => j = ws
    BY <2>6, <2>8 DEF IInv, TypeOK, Here
  <2>11. PingEvery \in 0 .. PingEvery
    BY Times
  <2>12. QED
    BY <1>1, <2>4, <2>8, <2>9, <2>10, <2>11 DEF IInv, TypeOK, Here
<1>4. CASE ~(IsOpen /\ sockets[ws].link)
  <2>1. sockets' = sockets
    BY <1>4 DEF ping
  <2>2. ASSUME NEW j \in Here
        PROVE  SocketOK(sockets[j], PingEvery)
    <3>1. PICK x : x = sockets[j]
      OBVIOUS
    <3>2. SocketOK(x, nextPing) /\ (x.session # "running" \/ ~x.link)
      BY <1>2, <1>4, <2>2, <3>1, SocketsType
    <3>3. QED
      BY <3>1, <3>2, PingedOK
  <2>3. PingEvery \in 0 .. PingEvery
    BY Times
  <2>4. QED
    BY <1>1, <2>1, <2>2, <2>3 DEF IInv, TypeOK, Here
<1>5. QED
  BY <1>3, <1>4

LEMMA OnOpenKeeps ==
    ASSUME IInv, NEW k \in Here, onopen(k)
    PROVE  IInv'
<1>1. PICK x : x = sockets[k]
  OBVIOUS
<1>2. PICK y : y = Opened(k)
  OBVIOUS
<1>3. y = [x EXCEPT !.client = "open", !.session = "running", !.up = <<Ping>>]
  BY <1>1, <1>2 DEF Opened
<1>4. SocketOK(x, nextPing) /\ x.client = "opening"
  BY <1>1, SocketsType DEF onopen
<1>5. SocketOK(y, nextPing)
  BY <1>3, <1>4, OpenedOK
<1>6. k = ws
  BY <1>1, <1>4 DEF IInv, TypeOK
<1>7. QED
  BY <1>2, <1>5, <1>6, InputsType, OneSocketStep DEF onopen, FocusType

LEMMA OnMessageKeeps ==
    ASSUME IInv, NEW k \in Here, onmessage(k)
    PROVE  IInv'
<1>1. PICK x : x = sockets[k]
  OBVIOUS
<1>2. SocketOK(x, nextPing) /\ x \in Socket /\ x.down # <<>>
  BY <1>1, SocketsType DEF onmessage
<1>3. PICK reply : reply = Head(x.down)
  OBVIOUS
<1>4. reply.from \in Searchers /\ reply.text \in Texts
  <2>1. reply \in Answer
    BY <1>2, <1>3 DEF Socket
  <2>2. QED
    BY <2>1 DEF Answer, Texts
<1>5. [inputs[reply.from] EXCEPT !.hits = reply.text] \in Input
  BY <1>4, InputsType DEF Input
<1>6. inputs' \in [Searchers -> Input]
  BY <1>1, <1>3, <1>4, <1>5, InputsType DEF onmessage
<1>7. PICK y : y = [x EXCEPT !.down = Tail(@)]
  OBVIOUS
<1>8. SocketOK(y, nextPing) /\ y.client = x.client
  BY <1>2, <1>7, ReceivedOK
<1>9. sockets' = [sockets EXCEPT ![k] = y] /\ UNCHANGED <<Page, unanswered>>
  BY <1>1, <1>7 DEF onmessage
<1>10. FocusType' /\ unanswered' \subseteq Searchers
  BY InputsType DEF onmessage, ResultsCleared, FocusType
<1>11. QED
  BY <1>1, <1>6, <1>8, <1>9, <1>10, OneSocketStep

LEMMA LostWithType ==
    ASSUME IInv, NEW k \in Here
    PROVE  LostWith(k) \subseteq Searchers
<1>1. PICK x \in Socket : x = sockets[k]
  BY SocketsType
<1>2. PICK both : both = x.up \o x.down
  OBVIOUS
<1>3. both \in Seq(Message)
  <2>1. x.up \in Seq(Message) /\ x.down \in Seq(Message)
    <3>1. Answer \subseteq Message
      BY DEF Answer, Message
    <3>2. QED
      BY <3>1 DEF Socket
  <2>2. QED
    BY <1>2, <2>1
<1>4. \A m \in ToSet(both) : m.from \in Searchers \cup {Nobody}
  <2>1. \A i \in DOMAIN both : both[i] \in Message
    BY <1>3
  <2>2. \A m \in Message : m.from \in Searchers \cup {Nobody}
    BY DEF Message
  <2>3. QED
    BY <2>1, <2>2 DEF ToSet
<1>5. LostWith(k) = {m.from : m \in ToSet(both)} \ {Nobody}
  BY <1>1, <1>2 DEF LostWith
<1>6. QED
  BY <1>4, <1>5

LEMMA OnCloseKeeps ==
    ASSUME IInv, NEW k \in Here, onclose(k)
    PROVE  IInv'
<1>1. PICK x \in Socket : x = sockets[k]
  BY SocketsType
<1>2. PICK y : y = [x EXCEPT !.client = "closed", !.link = FALSE, !.up = <<>>,
                             !.down = <<>>, !.late = FALSE]
  OBVIOUS
<1>3. SocketOK(y, nextPing) /\ y.client = "closed"
  <2>1. PICK client \in {"open", "opening", "closed"} : client = "closed"
    OBVIOUS
  <2>2. y = [x EXCEPT !.client = client, !.link = FALSE, !.up = <<>>,
                      !.down = <<>>, !.late = FALSE]
    BY <1>2, <2>1
  <2>3. SocketOK(x, nextPing) /\ client \in {x.client, "closed"}
    BY <1>1, <2>1, SocketsType
  <2>4. SocketOK(y, nextPing) /\ y.client = client
    BY <2>2, <2>3, CutOK
  <2>5. QED
    BY <2>1, <2>4
<1>4. PICK t : t = sockets'
  OBVIOUS
<1>5. t = [sockets EXCEPT ![k] = y]
  <2>1. [Cut(k) EXCEPT !.client = "closed"] = y
    BY <1>1, <1>2 DEF Cut, Socket
  <2>2. QED
    BY <1>4, <2>1 DEF onclose
<1>6. /\ t \in Seq(Socket) /\ Len(t) = Len(sockets) /\ DOMAIN t = DOMAIN sockets
      /\ t[k] = y /\ \A j \in DOMAIN sockets : j # k => t[j] = sockets[j]
  BY <1>3, <1>5, SocketsType, OneReplaced DEF Here, SocketOK
<1>7. \A j \in Here : t[j].client = "closed"
  BY <1>3, <1>6 DEF IInv, TypeOK, onclose, Here
<1>8. \A j \in Here : SocketOK(t[j], nextPing)
  BY <1>3, <1>6, SocketsType DEF Here
<1>9. ws' = 0 /\ UNCHANGED <<focus, choosing, inputs, nextPing, acts>>
  BY DEF onclose
<1>10. unanswered' \subseteq Searchers
  BY LostWithType, InputsType DEF onclose
<1>11. QED
  BY <1>4, <1>6, <1>7, <1>8, <1>9, <1>10 DEF IInv, TypeOK, Here

LEMMA BreakKeeps ==
    ASSUME IInv, NEW k \in Here, break_link(k)
    PROVE  IInv'
<1>1. PICK x \in Socket : x = sockets[k]
  BY SocketsType
<1>2. PICK client \in {"open", "opening", "closed"} : client = x.client
  BY DEF Socket
<1>3. PICK y : y = [x EXCEPT !.client = client, !.link = FALSE, !.up = <<>>,
                             !.down = <<>>, !.late = FALSE]
  OBVIOUS
<1>4. SocketOK(y, nextPing) /\ y.client = x.client
  <2>1. SocketOK(x, nextPing) /\ client \in {x.client, "closed"}
    BY <1>1, <1>2, SocketsType
  <2>2. SocketOK(y, nextPing) /\ y.client = client
    BY <1>3, <2>1, CutOK
  <2>3. QED
    BY <1>2, <2>2
<1>5. Cut(k) = y
  BY <1>1, <1>2, <1>3 DEF Cut, Socket
<1>6. sockets' = [sockets EXCEPT ![k] = y] /\ UNCHANGED <<focus, choosing, inputs, Page>>
  BY <1>5 DEF break_link
<1>7. unanswered' \subseteq Searchers
  BY LostWithType, InputsType DEF break_link
<1>8. QED
  BY <1>1, <1>4, <1>6, <1>7, InputsType, OneSocketStep DEF FocusType

LEMMA HandleKeeps ==
    ASSUME IInv, NEW k \in Here, handle_message(k)
    PROVE  IInv'
<1>1. PICK x \in Socket : x = sockets[k]
  BY SocketsType
<1>2. PICK untilPing \in 0 .. PingEvery : untilPing = nextPing
  BY SocketsType
<1>3. PICK y : y = Handled(x)
  OBVIOUS
<1>4. SocketOK(x, untilPing) /\ x.session = "running" /\ x.up # <<>>
  BY <1>1, <1>2, SocketsType DEF handle_message, Running
<1>5. SocketOK(y, untilPing) /\ y.client = x.client
  BY <1>3, <1>4, HandledOK
<1>6. /\ sockets' = [sockets EXCEPT ![k] = y]
      /\ UNCHANGED <<focus, choosing, inputs, Page, unanswered>>
  BY <1>1, <1>3 DEF handle_message, TakeOldest, HeardOf, Handled
<1>7. QED
  BY <1>1, <1>2, <1>5, <1>6, InputsType, OneSocketStep DEF FocusType

\* What a session stops for: its page cannot reach it, whichever of the two
\* notices, or has been late; a page that can, and is not, would have been heard.
LEMMA EndKeeps ==
    ASSUME IInv, NEW k \in Here, Running(k), sockets[k].link => sockets[k].late,
           sockets' = [sockets EXCEPT ![k] = Ended(k, "stopped")],
           UNCHANGED <<focus, choosing, inputs, Page, unanswered>>
    PROVE  IInv'
<1>1. PICK x \in Socket : x = sockets[k]
  BY SocketsType
<1>2. PICK y : y = EndedAs(x, "stopped", x.up)
  OBVIOUS
<1>3. SocketOK(x, nextPing) /\ x.session = "running" /\ (x.link => x.late)
  BY <1>1, SocketsType DEF Running
<1>4. x.up \in Seq(Message) /\ x.up \in Seq(Sent)
  BY <1>3 DEF Socket, SocketOK
<1>5. SocketOK(y, nextPing) /\ y.client = x.client
  BY <1>2, <1>3, <1>4, EndedOK
<1>6. y = Ended(k, "stopped")
  BY <1>1, <1>2 DEF Ended, EndedAs, Socket
<1>7. sockets' = [sockets EXCEPT ![k] = y]
  BY <1>6
<1>8. QED
  BY <1>1, <1>5, <1>7, InputsType, OneSocketStep DEF FocusType

LEMMA PanicKeeps ==
    ASSUME IInv, NEW k \in Here, search_panics(k)
    PROVE  IInv'
<1>1. PICK x \in Socket : x = sockets[k]
  BY SocketsType
<1>2. SocketOK(x, nextPing) /\ x.session = "running" /\ x.up # <<>>
  BY <1>1, SocketsType DEF search_panics, Running
<1>3. PICK y : y = EndedAs(x, "panicked", Tail(x.up))
  OBVIOUS
<1>4. Tail(x.up) \in Seq(Message) /\ Tail(x.up) \in Seq(Sent) /\ Head(x.up) \in Sent
  BY <1>2 DEF Socket, SocketOK
<1>5. SocketOK(y, nextPing) /\ y.client = x.client
  <2>1. PICK how \in {"stopped", "panicked"} : how = "panicked"
    OBVIOUS
  <2>2. PICK up \in Seq(Message) : up = Tail(x.up) /\ up \in Seq(Sent)
    BY <1>4
  <2>3. y = EndedAs(x, how, up)
    BY <1>3, <2>1, <2>2
  <2>4. how = "stopped" /\ x.link => x.late
    BY <2>1
  <2>5. QED
    BY <1>2, <2>2, <2>3, <2>4, EndedOK
<1>6. y = [Ended(k, "panicked") EXCEPT !.up = Tail(@)]
  BY <1>1, <1>3 DEF Ended, EndedAs, Socket
<1>7. sockets' = [sockets EXCEPT ![k] = y]
  BY <1>6 DEF search_panics
<1>8. Head(x.up).from \in Searchers
  <2>1. Head(x.up).text # Empty
    BY <1>1 DEF search_panics
  <2>2. QED
    BY <1>4, <2>1 DEF Sent, Ping
<1>9. QED
  BY <1>1, <1>5, <1>7, <1>8, InputsType, OneSocketStep DEF search_panics, FocusType

LEMMA HeartbeatKeeps ==
    ASSUME IInv, NEW k \in Here, heartbeat(k)
    PROVE  IInv'
<1>1. PICK x \in Socket : x = sockets[k]
  BY SocketsType
<1>2. SocketOK(x, nextPing) /\ x.session = "running" /\ x.silent \in Nat
  BY <1>1, SocketsType DEF heartbeat, Running, Socket
<1>3. UNCHANGED <<focus, choosing, inputs, Page, unanswered>>
  BY DEF heartbeat
<1>4. CASE TooSilent(k)
  <2>1. x.link /\ ~x.late => x.silent <= PingEvery
    BY <1>2 DEF SocketOK
  <2>2. x.link => x.late
    BY <1>1, <1>2, <1>4, <2>1, Times DEF TooSilent
  <2>3. sockets' = [sockets EXCEPT ![k] = Ended(k, "stopped")]
    BY <1>4 DEF heartbeat
  <2>4. QED
    BY <1>1, <1>3, <2>2, <2>3, EndKeeps DEF heartbeat
<1>5. CASE ~TooSilent(k)
  <2>1. x.silent <= SilenceLimit
    BY <1>1, <1>2, <1>5, Times DEF TooSilent
  <2>2. PICK y : y = [x EXCEPT !.check = CheckEvery]
    OBVIOUS
  <2>3. SocketOK(y, nextPing) /\ y.client = x.client
    BY <1>2, <2>1, <2>2, CheckedOK
  <2>4. sockets' = [sockets EXCEPT ![k] = y]
    BY <1>1, <1>5, <2>2 DEF heartbeat
  <2>5. QED
    BY <1>1, <1>3, <2>3, <2>4, InputsType, OneSocketStep DEF FocusType
<1>6. QED
  BY <1>4, <1>5

LEMMA SessionEndsKeeps ==
    ASSUME IInv, NEW k \in Here, session_ends(k)
    PROVE  IInv'
BY EndKeeps DEF session_ends

\* Five seconds: a session is not due to look at the time, and the page not to
\* ping, or it is late.
LEMMA TickKeeps ==
    ASSUME IInv, tick
    PROVE  IInv'
<1>1. PICK untilPing \in 0 .. PingEvery : untilPing = nextPing
  BY SocketsType
<1>2. PICK left \in 0 .. PingEvery :
         left = nextPing' /\ (untilPing > 0 => left = untilPing - 1)
  <2>1. nextPing' = IF untilPing = 0 THEN 0 ELSE untilPing - 1
    BY <1>1 DEF tick
  <2>2. CASE untilPing = 0
    BY <2>1, <2>2, Times
  <2>3. CASE untilPing > 0
    <3>1. untilPing - 1 \in 0 .. PingEvery /\ nextPing' = untilPing - 1
      BY <2>1, <2>3, Times
    <3>2. QED
      BY <3>1
  <2>4. QED
    BY <2>2, <2>3, Times
<1>3. PICK t : t = sockets'
  OBVIOUS
<1>4. \A j \in Here :
         t[j] = IF Running(j) THEN Ticked(sockets[j], Overdue(j)) ELSE sockets[j]
  BY <1>3 DEF tick, Ticked
<1>5. ASSUME NEW j \in Here
      PROVE  SocketOK(t[j], left) /\ t[j].client = sockets[j].client
  <2>1. PICK x \in Socket : x = sockets[j]
    BY <1>5, SocketsType
  <2>2. SocketOK(x, nextPing) /\ x.up = <<>>
    BY <1>5, <2>1, SocketsType DEF tick
  <2>3. CASE Running(j)
    <3>1. x.session = "running" /\ x.check > 0
      BY <1>5, <2>1, <2>3 DEF tick, Running
    <3>2. PICK late \in BOOLEAN :
             late = Overdue(j) /\ (~late => ~x.late /\ (x.link => untilPing > 0))
      <4>1. Overdue(j) \in BOOLEAN
        BY DEF Overdue
      <4>2. ~Overdue(j) => ~x.late /\ (x.link => untilPing > 0)
        BY <1>1, <2>1, Times DEF Overdue
      <4>3. QED
        BY <4>1, <4>2
    <3>3. PICK y : y = Ticked(x, late)
      OBVIOUS
    <3>4. SocketOK(x, untilPing)
      BY <1>1, <2>2
    <3>5. SocketOK(y, left) /\ y.client = x.client
      BY <1>2, <2>2, <3>1, <3>2, <3>3, <3>4, TickedOK
    <3>6. t[j] = y
      BY <1>4, <1>5, <2>1, <2>3, <3>2, <3>3
    <3>7. QED
      BY <2>1, <3>5, <3>6
  <2>4. CASE ~Running(j)
    <3>1. t[j] = x /\ x.session # "running"
      BY <1>4, <1>5, <2>1, <2>4 DEF Running
    <3>2. SocketOK(x, left)
      BY <2>2, <3>1, PingedOK
    <3>3. QED
      BY <2>1, <3>1, <3>2
  <2>5. QED
    BY <2>3, <2>4
<1>6. /\ t \in Seq(Socket) /\ Len(t) = Len(sockets) /\ DOMAIN t = Here
  <2>1. \A j \in 1 .. Len(sockets) : t[j] \in Socket
    BY <1>5, SocketsType DEF SocketOK
  <2>2. t = [j \in 1 .. Len(sockets) |-> t[j]] /\ DOMAIN t = 1 .. Len(sockets)
    BY <1>3, SocketsType DEF tick
  <2>3. QED
    BY <2>1, <2>2, SocketsType
<1>7. \A j \in Here : t[j].client # "closed" => j = ws
  BY <1>5 DEF IInv, TypeOK
<1>8. nextPing' \in 0 .. PingEvery
  BY <1>2
<1>9. UNCHANGED <<focus, choosing, inputs, ws, unanswered>>
  BY DEF tick
<1>10. QED
  BY <1>2, <1>3, <1>5, <1>6, <1>7, <1>8, <1>9 DEF IInv, TypeOK, Here

LEMMA InitHolds == Init => IInv
<1> SUFFICES ASSUME Init PROVE IInv
  OBVIOUS
<1>1. PICK x : x = NewSocket
  OBVIOUS
<1>2. SocketOK(x, PingEvery) /\ x \in Socket
  BY <1>1, NewSocketOK DEF SocketOK
<1>3. /\ sockets = <<x>> /\ ws = 1 /\ nextPing = PingEvery
      /\ focus = Nobody /\ choosing = Nobody /\ unanswered = {}
  BY <1>1 DEF Init
<1>4. sockets \in Seq(Socket) /\ Len(sockets) = 1 /\ Here = {1} /\ sockets[1] = x
  BY <1>2, <1>3 DEF Here
<1>5. inputs \in [Searchers -> Input]
  <2>1. Empty \in Texts /\ Chosen \in Texts /\ Linked \subseteq Texts
    BY DEF Texts
  <2>2. Blank \in Input
    BY <2>1 DEF Blank, Input
  <2>3. ASSUME NEW text \in Linked
        PROVE  Preset(text) \in Input
    BY <2>1, <2>2 DEF Preset, Input
  <2>4. QED
    BY <2>2, <2>3 DEF Init
<1>6. 1 <= MaxSockets
  BY BoundsAssumption
<1>7. TypeOK
  BY <1>3, <1>4, <1>5, <1>6, Times DEF TypeOK
<1>8. QED
  BY <1>2, <1>3, <1>4, <1>7 DEF IInv

LEMMA NextKeeps == IInv /\ [Next]_vars => IInv'
<1> SUFFICES ASSUME IInv, [Next]_vars PROVE IInv'
  OBVIOUS
<1>1. CASE UNCHANGED vars
  BY <1>1, InputsType, PageStep DEF vars, FocusType
<1>2. CASE \E s \in Searchers :
              \/ type(s) \/ focus_input(s) \/ blur_input(s)
              \/ focus_results(s) \/ choose_word(s) \/ leave_results(s) \/ after_blur(s)
  BY <1>2, TypeKeeps, FocusKeeps, BlurKeeps, ChooseKeeps, LeaveKeeps, AfterBlurKeeps
<1>3. CASE maybeOpenWs \/ refresh \/ ping
  BY <1>3, OpenWsKeeps, RefreshKeeps, PingKeeps
<1>4. CASE \E k \in Here : onopen(k) \/ onmessage(k) \/ onclose(k) \/ break_link(k)
  BY <1>4, OnOpenKeeps, OnMessageKeeps, OnCloseKeeps, BreakKeeps
<1>5. CASE \E k \in Here :
              handle_message(k) \/ search_panics(k) \/ heartbeat(k) \/ session_ends(k)
  BY <1>5, HandleKeeps, PanicKeeps, HeartbeatKeeps, SessionEndsKeeps
<1>6. CASE tick
  BY <1>6, TickKeeps
<1>7. QED
  BY <1>1, <1>2, <1>3, <1>4, <1>5, <1>6 DEF Next

\* The inductive invariant.
THEOREM SocketsKept == Spec => []IInv
<1> QED
  BY InitHolds, NextKeeps, PTL DEF Spec

\* The state of live search has its types; the page's socket is the newest, and
\* no older one is open on its side.
THEOREM TypeCorrect == Spec => []TypeOK
<1>1. IInv => TypeOK
  BY DEF IInv
<1> QED
  BY <1>1, SocketsKept, PTL

\* A session that runs has heard from its page within the limit and one period
\* of the heartbeat.
THEOREM SilentSessionsAlwaysEnd == Spec => []SilentSessionsEnd
<1>1. IInv => SilentSessionsEnd
  <2> SUFFICES ASSUME IInv, NEW k \in Here, Running(k)
               PROVE  sockets[k].silent <= SilenceLimit + CheckEvery
    BY DEF SilentSessionsEnd
  <2>1. PICK x \in Socket : x = sockets[k]
    BY SocketsType
  <2>2. x.silent + x.check <= SilenceLimit + CheckEvery
    BY <2>1, SocketsType DEF SocketOK, Running
  <2>3. x.silent \in Nat /\ x.check \in Nat
    BY Times DEF Socket
  <2>4. QED
    BY <2>1, <2>2, <2>3, Times
<1> QED
  BY <1>1, SocketsKept, PTL

\* A session that is stopped while its page can reach it has missed a ping that
\* was overdue, whatever the periods, as long as a ping is due in every time of
\* silence that is allowed.
THEOREM ReachableSessionsAlwaysStay == Spec => []ReachableSessionsStay
<1>1. IInv => ReachableSessionsStay
  BY SocketsType DEF ReachableSessionsStay, SocketOK
<1> QED
  BY <1>1, SocketsKept, PTL
=============================================================================
