------------------------------- MODULE Wordle -------------------------------
(***************************************************************************)
(* The word game in the browser (wasm/wordle/src/lib.rs): which words may  *)
(* be guessed and which are the word of a day, how a guess is marked, and  *)
(* the game as the messages of its component change it.  Nothing is stored *)
(* between page loads: a load is an initial state.                         *)
(***************************************************************************)
EXTENDS Integers, SequencesExt

CONSTANTS WordLength,   \* WORD_LENGTH
          Guesses,      \* GUESSES
          Letters,      \* what can be typed
          Others,       \* other ASCII characters of words
          NonAscii,     \* characters of two bytes
          None,         \* Option::None
          Records       \* the rows of wordle_words.csv, trimmed

ASSUME SizesAssumption == WordLength \in Nat \ {0} /\ Guesses \in Nat \ {0}

Ascii == Letters \cup Others

\* WORD_LENGTH ASCII characters, and so as many bytes.
Texts == [1 .. WordLength -> Ascii]

Results == {"Incorrect", "WrongPlace", "Correct"}
Rank == [Incorrect |-> 0, WrongPlace |-> 1, Correct |-> 2]

ASSUME NoneAssumption == None \notin Results \cup [1 .. WordLength -> Results]

-----------------------------------------------------------------------------
(* The words of the game.  Letters stand for both their cases. *)

\* An optional vowel is one character here.
Cleaned(text) ==
    LET kept == SelectSeq(text, LAMBDA c : c # "?")
    IN  [i \in 1 .. Len(kept) |-> IF kept[i] = "(i)" THEN "i" ELSE kept[i]]

Bytes(text) == Len(text) + Cardinality({i \in 1 .. Len(text) : text[i] \in NonAscii})

\* Faulty: the infinitive comes first.
InfinitiveFirst(text, infinitive) ==
    IF Bytes(infinitive) = WordLength THEN infinitive ELSE Cleaned(text)

WordFirst(text, infinitive) ==
    IF Bytes(Cleaned(text)) = WordLength THEN Cleaned(text) ELSE infinitive

process(text, infinitive) == {WordFirst(text, infinitive)} \cap Texts

dictionary == UNION {process(r.xhosa, r.infinitive) : r \in Records}

\* Targets exclude infinitives and plurals, and every text is one target.
targets == UNION {process(r.xhosa, << >>) : r \in {r \in Records : ~r.is_plural}}

-----------------------------------------------------------------------------
VARIABLES
    word,
    guesses,       \* a guess has marks once it was evaluated
    state,
    keyboard,      \* the state of the keys
    modal_open,
    copied         \* what was shared last

vars == <<word, guesses, state, keyboard, modal_open, copied>>

Guess == [letters: Seq(Letters), marks: Seq(Results)]
EmptyGuess == [letters |-> << >>, marks |-> << >>]

current_guess == guesses[Len(guesses)]

\* Faulty: the letter that goes is always the first.
without_cursor(target, text) ==
    LET left[i \in 0 .. WordLength] ==
            IF i = 0 THEN target
            ELSE IF target[i] = text[i] THEN Tail(left[i - 1])
            ELSE left[i - 1]
    IN  left[WordLength]

\* The first loop takes the letters out that are in their place, by their index.
\* removal_cursor, counted from 1, is where the letter it looks at is by then.
unplaced_letters(target, text) ==
    LET left[i \in 0 .. WordLength] ==
            IF i = 0 THEN [letters |-> target, removal_cursor |-> 1]
            ELSE IF target[i] = text[i]
                 THEN [left[i - 1] EXCEPT !.letters = RemoveAt(@, left[i - 1].removal_cursor)]
            ELSE [left[i - 1] EXCEPT !.removal_cursor = @ + 1]
    IN  left[WordLength].letters

\* The second takes out what the other letters find, the first of its kind each
\* time: what remains after the letters up to i.
remaining_letters(target, text) ==
    LET left[i \in 0 .. WordLength] ==
            IF i = 0 THEN unplaced_letters(target, text)
            ELSE IF target[i] = text[i] THEN left[i - 1]
            ELSE RemoveFirst(left[i - 1], text[i])
    IN  left

marks(target, text) ==
    LET left == remaining_letters(target, text)
    IN  [i \in 1 .. WordLength |->
            IF target[i] = text[i] THEN "Correct"
            ELSE IF Contains(left[i - 1], text[i]) THEN "WrongPlace"
            ELSE "Incorrect"]

\* None for what is not in the dictionary.
evaluate_guess(text) == IF text \in dictionary THEN marks(word, text) ELSE None

\* Faulty: the last result of a letter counts.
always_better(old, new) == TRUE

better(old, new) == old = None \/ Rank[old] < Rank[new]

\* A key after the letters of a guess with this result, one after the other.
KeyAfter(key, text, result) ==
    LET after[i \in 0 .. WordLength] ==
            IF i = 0 THEN keyboard[key]
            ELSE IF text[i] = key /\ better(after[i - 1], result[i]) THEN result[i]
            ELSE after[i - 1]
    IN  after[WordLength]

-----------------------------------------------------------------------------
create ==
    /\ word \in targets
    /\ guesses = <<EmptyGuess>>
    /\ state = "Continue"
    /\ keyboard = [key \in Letters |-> None]
    /\ modal_open = FALSE
    /\ copied = None

WithCurrent(letters) == [guesses EXCEPT ![Len(guesses)].letters = letters]

type_letter ==
    /\ state = "Continue" /\ Len(current_guess.letters) < WordLength
    /\ \E key \in Letters : guesses' = WithCurrent(Append(current_guess.letters, key))
    /\ UNCHANGED <<word, state, keyboard, modal_open, copied>>

backspace ==
    /\ state = "Continue" /\ current_guess.letters # << >>
    /\ guesses' = WithCurrent(SubSeq(current_guess.letters, 1, Len(current_guess.letters) - 1))
    /\ UNCHANGED <<word, state, keyboard, modal_open, copied>>

\* Faulty: there is always one guess more.
one_guess_more(count) == count > Guesses

\* Faulty: the last guess but one is the last.
one_guess_less(count) == count + 1 >= Guesses

no_guess_left(count) == count = Guesses

\* Enter: update and guess.
guess ==
    /\ state = "Continue" /\ Len(current_guess.letters) = WordLength
    /\ LET text == current_guess.letters
           result == evaluate_guess(text)
           evaluated == [guesses EXCEPT ![Len(guesses)].marks = result]
           won == \A i \in 1 .. WordLength : result[i] = "Correct"
           lost == ~won /\ no_guess_left(Len(guesses))
       IN  /\ result # None
           /\ keyboard' = [key \in Letters |-> KeyAfter(key, text, result)]
           /\ state' = IF won THEN "Won" ELSE IF lost THEN "Lost" ELSE "Continue"
           /\ guesses' = IF won \/ lost THEN evaluated ELSE Append(evaluated, EmptyGuess)
           /\ modal_open' = (won \/ lost)
    /\ UNCHANGED <<word, copied>>

close_modal ==
    /\ modal_open
    /\ modal_open' = FALSE
    /\ UNCHANGED <<word, guesses, state, keyboard, copied>>

\* Faulty: a game that took all guesses is lost.
score_by_guesses == IF Len(guesses) < Guesses THEN Len(guesses) ELSE 0

\* 0 stands for the X of a game that is lost.
score == IF state = "Won" THEN Len(guesses) ELSE 0

\* The text that is shared marks every guess again.
share ==
    /\ modal_open
    /\ LET result(g) == evaluate_guess(guesses[g].letters)
           rows[g \in 0 .. Len(guesses)] ==
               IF g = 0 THEN << >>
               ELSE IF result(g) = None THEN rows[g - 1]
               ELSE Append(rows[g - 1], result(g))
       IN  copied' = [score |-> score, rows |-> rows[Len(guesses)]]
    /\ UNCHANGED <<word, guesses, state, keyboard, modal_open>>

Next == type_letter \/ backspace \/ guess \/ close_modal \/ share

Spec == create /\ [][Next]_vars

-----------------------------------------------------------------------------
(* Properties *)

\* There is always a guess to type in (last().unwrap()), never more than fit
\* into their array (push), and none with more letters than a row has room for.
GuessesFit ==
    /\ guesses \in Seq(Guess) /\ Len(guesses) \in 1 .. Guesses
    /\ \A g \in 1 .. Len(guesses) : Len(guesses[g].letters) <= WordLength

TypeOK ==
    /\ word \in targets
    /\ GuessesFit
    /\ state \in {"Continue", "Won", "Lost"}
    /\ keyboard \in [Letters -> Results \cup {None}]
    /\ modal_open \in BOOLEAN

\* The word is among those that may be guessed, though these are made of other
\* columns: an infinitive that fits does not take its place.  (This is not that
\* its characters can be typed: the list has words with others.)
WordInDictionary == word \in dictionary

Evaluated == {g \in 1 .. Len(guesses) : guesses[g].marks # << >>}

\* Of a letter, as many are marked as the word has of it, those in their place
\* before all others and the others from the left: remaining_letters loses
\* neither too many nor too few when a letter comes twice in word or guess.
MarksCountLetters ==
    \A g \in Evaluated :
        LET text == guesses[g].letters
            misplaced == {i \in 1 .. WordLength : text[i] # word[i]}
            Before(i) == {j \in misplaced : j < i /\ text[j] = text[i]}
            Wanted(i) == {j \in misplaced : word[j] = text[i]}
        IN  \A i \in 1 .. WordLength :
                guesses[g].marks[i] =
                    IF i \notin misplaced THEN "Correct"
                    ELSE IF Cardinality(Before(i)) < Cardinality(Wanted(i)) THEN "WrongPlace"
                    ELSE "Incorrect"

\* A key shows the best result its letter had in any guess, however the guesses
\* and the letters in them follow each other.
KeyboardShowsBest ==
    \A key \in Letters :
        LET had == UNION {{guesses[g].marks[i] : i \in {j \in 1 .. WordLength : guesses[g].letters[j] = key}}
                            : g \in Evaluated}
        IN  IF had = {} THEN keyboard[key] = None
            ELSE keyboard[key] \in had /\ \A r \in had : Rank[r] <= Rank[keyboard[key]]

\* The game is won by the word and by nothing else, lost when no guess is left,
\* and only the guess that is being typed is without marks.
OutcomeFollows ==
    /\ \A g \in 1 .. Len(guesses) :
          (guesses[g].letters = word /\ g \in Evaluated) <=> (state = "Won" /\ g = Len(guesses))
    /\ state = "Lost" => Len(guesses) = Guesses
    /\ \A g \in 1 .. Len(guesses) :
          g \in Evaluated <=> (state = "Continue" => g < Len(guesses))

\* What is shared is what the board showed, with the score of the game.
SharedAsPlayed ==
    copied # None =>
        /\ state # "Continue"
        /\ copied.rows = [g \in 1 .. Len(guesses) |-> guesses[g].marks]
        /\ copied.score = IF guesses[Len(guesses)].letters = word THEN Len(guesses) ELSE 0
=============================================================================
