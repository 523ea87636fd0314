---------------------------- MODULE WordleProofs ----------------------------
(***************************************************************************)
(* The word game for every length of words, number of guesses, alphabet    *)
(* and list of words.                                                      *)
(***************************************************************************)
EXTENDS Wordle, WellFoundedInduction, FiniteSetTheorems, TLAPS

-----------------------------------------------------------------------------
(* Induction and recursion on numbers *)

\* The initial segments 0 .. n of the elements n are well founded by inclusion.
LEMMA LeastNatural ==
    ASSUME NEW T \in SUBSET Nat, T # {}
    PROVE  \E m \in T : \A n \in T : m <= n
  <1> DEFINE Initial == {0 .. n : n \in T}
             R == StrictSubsetOrdering(Nat)
             S == FiniteSubsetsOf(Nat)
  <1>1. IsWellFoundedOn(R, S)
    <2> DEFINE N == Nat
    <2>1. IsWellFoundedOn(StrictSubsetOrdering(N), FiniteSubsetsOf(N))
      <3> HIDE DEF N
      <3> QED BY FS_StrictSubsetOrderingWellFounded
    <2> QED BY <2>1
  <1>2. Initial \subseteq S /\ Initial # {}
    <2>1. \A n \in T : (0 .. n) \subseteq Nat /\ IsFiniteSet(0 .. n) BY FS_Interval
    <2>2. \A n \in T : (0 .. n) \in S BY <2>1, Zenon DEF FiniteSubsetsOf
    <2> QED BY <2>2
  <1>3. \E x \in Initial : \A y \in Initial : ~ (<<y, x>> \in R)
    <2> HIDE DEF Initial, R, S
    <2> QED BY <1>1, <1>2, WFMin
  <1>4. PICK m \in T : \A n \in T : ~ (<<0 .. n, 0 .. m>> \in R)
    BY <1>3
  <1>5. \A n \in T : n < m => <<0 .. n, 0 .. m>> \in R
    <2> SUFFICES ASSUME NEW n \in T, n < m PROVE <<0 .. n, 0 .. m>> \in R
      OBVIOUS
    <2>1. 0 .. n \subseteq 0 .. m /\ m \in 0 .. m /\ m \notin 0 .. n OBVIOUS
    <2>2. (0 .. n) \in S /\ (0 .. m) \in S BY <1>2
    <2> QED BY <2>1, <2>2 DEF StrictSubsetOrdering, FiniteSubsetsOf
  <1>6. \A n \in T : ~ (n < m) BY <1>4, <1>5
  <1> HIDE DEF Initial, R, S
  <1>7. \A n \in T : m <= n BY <1>6
  <1> QED BY <1>7

\* Induction as a fact about a set: no operator is its parameter.
LEMMA Induction ==
    ASSUME NEW n \in Nat, NEW S, 0 \in S, \A i \in 1 .. n : i - 1 \in S => i \in S
    PROVE  0 .. n \subseteq S
  <1> DEFINE T == (0 .. n) \ S
  <1> SUFFICES ASSUME T # {} PROVE FALSE OBVIOUS
  <1>1. PICK m \in T : \A k \in T : m <= k
    <2>1. T \in SUBSET Nat OBVIOUS
    <2> HIDE DEF T
    <2> QED BY <2>1, LeastNatural
  <1>2. m \in 1 .. n /\ m - 1 \in 0 .. n /\ m - 1 \notin T BY <1>1
  <1> QED BY <1>2
\* f holds what n steps make of a, one after the other.
Iterates(f, n, A, a, step) ==
    /\ f \in [0 .. n -> A]
    /\ f[0] = a
    /\ \A i \in 1 .. n : f[i] = step[i][f[i - 1]]

\* A function that a recursive definition asks for exists.
LEMMA RecursiveFunction ==
    ASSUME NEW n \in Nat, NEW A, NEW a \in A, NEW step \in [1 .. n -> [A -> A]]
    PROVE  \E f : Iterates(f, n, A, a, step)
  <1> DEFINE Defined(f, k) == f[0] = a /\ \A i \in 1 .. k : f[i] = step[i][f[i - 1]]
             S == {k \in 0 .. n : \E f \in [0 .. k -> A] : Defined(f, k)}
  <1>1. 0 \in S
    <2>1. PICK f : f = [i \in 0 .. 0 |-> a] OBVIOUS
    <2>2. f \in [0 .. 0 -> A] /\ Defined(f, 0) BY <2>1
    <2> QED BY <2>2
  <1>2. ASSUME NEW k \in 1 .. n, k - 1 \in S PROVE k \in S
    <2>1. PICK f \in [0 .. k - 1 -> A] : Defined(f, k - 1) BY <1>2
    <2>2. PICK v : v = step[k][f[k - 1]] OBVIOUS
    <2>3. v \in A BY <2>2
    <2>4. PICK g : g = [i \in 0 .. k |-> IF i = k THEN v ELSE f[i]] OBVIOUS
    <2>5. g \in [0 .. k -> A] BY <2>3, <2>4
    <2>6. g[k] = v /\ \A i \in 0 .. k - 1 : g[i] = f[i] BY <2>4
    <2>7. g[0] = a BY <2>1, <2>6
    <2>8. ASSUME NEW i \in 1 .. k PROVE g[i] = step[i][g[i - 1]]
      <3>1. g[i - 1] = f[i - 1] BY <2>6
      <3>2. CASE i = k BY <2>2, <2>6, <3>1, <3>2
      <3>3. CASE i # k
        <4>1. i \in 1 .. k - 1 BY <3>3
        <4> QED BY <2>1, <2>6, <3>1, <4>1
      <3> QED BY <3>2, <3>3
    <2>9. Defined(g, k) BY <2>7, <2>8
    <2> HIDE DEF Defined
    <2> QED BY <2>5, <2>9
  <1>3. n \in S
    <2> HIDE DEF S
    <2>1. 0 .. n \subseteq S BY <1>1, <1>2, Induction
    <2> QED BY <2>1
  <1> QED BY <1>3 DEF Iterates

-----------------------------------------------------------------------------
LEMMA WordsAreTexts == targets \subseteq Texts /\ dictionary \subseteq Texts
  BY DEF targets, dictionary, process

LEMMA MarksType ==
    ASSUME word \in Texts, NEW text
    PROVE  /\ marks(word, text) \in [1 .. WordLength -> Results]
           /\ \A i \in 1 .. WordLength : marks(word, text)[i] = "Correct" <=> word[i] = text[i]
  BY DEF marks, Results

LEMMA TextsAreEqual ==
    ASSUME NEW v \in Texts, NEW w \in Seq(Letters), Len(w) = WordLength,
           \A i \in 1 .. WordLength : v[i] = w[i]
    PROVE  w = v
  BY DEF Texts

LEMMA MarksAreMarks ==
    ASSUME NEW m \in [1 .. WordLength -> Results]
    PROVE  m \in Seq(Results) /\ Len(m) = WordLength /\ m # << >>
  BY SizesAssumption

\* The inductive invariant: it needs neither the keyboard nor the modal.
Board ==
    /\ word \in Texts
    /\ state \in {"Continue", "Won", "Lost"}
    /\ GuessesFit
    /\ OutcomeFollows

LEMMA CreateFits == create => Board
  <1> SUFFICES ASSUME create PROVE Board
    OBVIOUS
  <1>1. word \in Texts BY WordsAreTexts DEF create
  <1>2. guesses = <<EmptyGuess>> /\ state = "Continue" BY DEF create
  <1>3. EmptyGuess \in Guess /\ EmptyGuess.letters = << >> /\ EmptyGuess.marks = << >>
    BY DEF EmptyGuess, Guess
  <1>4. GuessesFit BY <1>2, <1>3, SizesAssumption DEF GuessesFit
  <1>5. OutcomeFollows BY <1>2, <1>3 DEF OutcomeFollows, Evaluated
  <1> QED BY <1>1, <1>2, <1>4, <1>5 DEF Board

\* The current guess while the game goes on.
LEMMA CurrentGuess ==
    ASSUME Board
    PROVE  /\ Len(guesses) \in 1 .. Guesses
           /\ guesses[Len(guesses)] \in Guess
           /\ current_guess.letters \in Seq(Letters)
           /\ state = "Continue" => current_guess.marks = << >>
  <1>1. guesses \in Seq(Guess) /\ Len(guesses) \in 1 .. Guesses
    BY DEF Board, GuessesFit
  <1>2. guesses[Len(guesses)] \in Guess BY <1>1, SizesAssumption
  <1>3. state = "Continue" => Len(guesses) \notin Evaluated
    BY <1>1, SizesAssumption DEF Board, OutcomeFollows
  <1> QED BY <1>1, <1>2, <1>3, SizesAssumption DEF Evaluated, current_guess, Guess

\* Typing changes the letters of the current guess alone.
LEMMA TypingFits ==
    ASSUME Board, state = "Continue", NEW letters \in Seq(Letters), Len(letters) <= WordLength,
           guesses' = WithCurrent(letters), UNCHANGED <<word, state>>
    PROVE  Board'
  <1>1. PICK last : last = Len(guesses) OBVIOUS
  <1>2. last \in 1 .. Guesses /\ last \in 1 .. Len(guesses) BY <1>1, CurrentGuess
  <1>3. PICK g : g = [guesses[last] EXCEPT !.letters = letters] OBVIOUS
  <1>4. guesses[last] \in Guess /\ guesses[last].marks = << >>
    BY <1>1, CurrentGuess DEF current_guess
  <1>5. g \in Guess /\ g.letters = letters /\ g.marks = << >>
    BY <1>3, <1>4 DEF Guess
  <1>6. guesses' = [guesses EXCEPT ![last] = g] BY <1>1, <1>3 DEF WithCurrent
  <1>7. guesses \in Seq(Guess) BY DEF Board, GuessesFit
  <1>8. /\ guesses' \in Seq(Guess) /\ Len(guesses') = Len(guesses)
        /\ guesses'[last] = g
        /\ \A i \in 1 .. Len(guesses) : i # last => guesses'[i] = guesses[i]
    BY <1>2, <1>5, <1>6, <1>7
  <1>9. GuessesFit'
    BY <1>2, <1>5, <1>8 DEF Board, GuessesFit
  <1>10. OutcomeFollows'
    BY <1>1, <1>2, <1>4, <1>5, <1>8 DEF Board, OutcomeFollows, Evaluated
  <1> QED BY <1>9, <1>10 DEF Board

LEMMA GuessFits == ASSUME Board, guess PROVE Board'
  <1>1. PICK last : last = Len(guesses) OBVIOUS
  <1>2. PICK text \in Seq(Letters) : text = current_guess.letters BY CurrentGuess
  <1>3. PICK result : result = evaluate_guess(text) OBVIOUS
  <1>4. PICK g : g = [guesses[last] EXCEPT !.marks = result] OBVIOUS
  <1>5. PICK evaluated : evaluated = [guesses EXCEPT ![last] = g] OBVIOUS
  <1>6. PICK won \in BOOLEAN : won <=> \A i \in 1 .. WordLength : result[i] = "Correct"
    OBVIOUS
  <1>7. PICK lost \in BOOLEAN : lost <=> (~won /\ last = Guesses)
    OBVIOUS
  <1>8. /\ state = "Continue" /\ Len(text) = WordLength /\ result # None
        /\ state' = IF won THEN "Won" ELSE IF lost THEN "Lost" ELSE "Continue"
        /\ guesses' = IF won \/ lost THEN evaluated ELSE Append(evaluated, EmptyGuess)
        /\ word' = word
    BY <1>1, <1>2, <1>3, <1>4, <1>5, <1>6, <1>7 DEF guess, no_guess_left
  <1>9. last \in 1 .. Guesses /\ last \in 1 .. Len(guesses) BY <1>1, CurrentGuess
  <1>10. result = marks(word, text) BY <1>3, <1>8 DEF evaluate_guess
  <1>11. /\ result \in Seq(Results) /\ result # << >>
         /\ \A i \in 1 .. WordLength : result[i] = "Correct" <=> word[i] = text[i]
    BY <1>10, MarksType, MarksAreMarks DEF Board
  <1>12. won <=> text = word
    BY <1>6, <1>8, <1>11, TextsAreEqual DEF Board
  <1>13. guesses[last] \in Guess /\ guesses[last].letters = text
    BY <1>1, <1>2, CurrentGuess DEF current_guess
  <1>14. g \in Guess /\ g.letters = text /\ g.marks = result
    BY <1>4, <1>11, <1>13 DEF Guess
  <1>15. guesses \in Seq(Guess) BY DEF Board, GuessesFit
  <1>16. /\ evaluated \in Seq(Guess) /\ Len(evaluated) = last
         /\ evaluated[last] = g
         /\ \A i \in 1 .. last : i # last => evaluated[i] = guesses[i]
    BY <1>1, <1>5, <1>9, <1>14, <1>15
  <1>17. \A i \in 1 .. last - 1 : guesses[i].marks # << >> /\ guesses[i].letters # word
    BY <1>1, <1>8, <1>9 DEF Board, OutcomeFollows, Evaluated
  <1>18. \A i \in 1 .. last - 1 : evaluated[i].marks # << >> /\ evaluated[i].letters # word
    BY <1>9, <1>16, <1>17
  <1>19. \A i \in 1 .. Len(guesses) : Len(guesses[i].letters) <= WordLength
    BY DEF Board, GuessesFit
  <1>20. \A i \in 1 .. last : Len(evaluated[i].letters) <= WordLength
    BY <1>1, <1>8, <1>14, <1>16, <1>19, SizesAssumption
  <1>21. CASE won \/ lost
    <2>1. guesses' = evaluated /\ state' # "Continue" BY <1>8, <1>21
    <2>2. GuessesFit' BY <1>9, <1>16, <1>20, <2>1 DEF GuessesFit
    <2>3. OutcomeFollows'
      <3>1. state' = "Won" <=> text = word BY <1>8, <1>12, <1>21
      <3>2. state' = "Lost" => last = Guesses BY <1>7, <1>8
      <3>3. \A i \in 1 .. last : guesses'[i].marks # << >>
        BY <1>9, <1>11, <1>14, <1>16, <1>18, <2>1
      <3>4. \A i \in 1 .. last : guesses'[i].letters = word <=> (state' = "Won" /\ i = last)
        <4> SUFFICES ASSUME NEW i \in 1 .. last
                     PROVE  guesses'[i].letters = word <=> (state' = "Won" /\ i = last)
          OBVIOUS
        <4>1. CASE i = last BY <1>14, <1>16, <2>1, <3>1, <4>1
        <4>2. CASE i # last
          <5>1. i \in 1 .. last - 1 BY <1>9, <4>2
          <5> QED BY <1>18, <2>1, <4>2, <5>1
        <4> QED BY <4>1, <4>2
      <3> QED BY <1>8, <1>16, <2>1, <3>2, <3>3, <3>4 DEF OutcomeFollows, Evaluated
    <2> QED BY <1>8, <2>2, <2>3 DEF Board
  <1>22. CASE ~won /\ ~lost
    <2>1. guesses' = Append(evaluated, EmptyGuess) /\ state' = "Continue" BY <1>8, <1>22
    <2>2. last + 1 \in 1 .. Guesses
      <3>1. last # Guesses BY <1>7, <1>22
      <3> QED BY <1>9, <3>1, SizesAssumption
    <2>3. EmptyGuess \in Guess /\ EmptyGuess.letters = << >> /\ EmptyGuess.marks = << >>
      BY DEF EmptyGuess, Guess
    <2>4. /\ guesses' \in Seq(Guess) /\ Len(guesses') = last + 1
          /\ guesses'[last + 1] = EmptyGuess
          /\ \A i \in 1 .. last : guesses'[i] = evaluated[i]
      BY <1>9, <1>16, <2>1, <2>3
    <2>5. GuessesFit'
      <3>1. \A i \in 1 .. last + 1 : Len(guesses'[i].letters) <= WordLength
        <4> SUFFICES ASSUME NEW i \in 1 .. last + 1 PROVE Len(guesses'[i].letters) <= WordLength
          OBVIOUS
        <4>1. CASE i = last + 1 BY <2>3, <2>4, <4>1, SizesAssumption
        <4>2. CASE i # last + 1
          <5>1. i \in 1 .. last BY <1>9, <4>2
          <5> QED BY <1>20, <2>4, <5>1
        <4> QED BY <4>1, <4>2
      <3> QED BY <2>2, <2>4, <3>1 DEF GuessesFit
    <2>6. OutcomeFollows'
      <3>1. \A i \in 1 .. last : guesses'[i].marks # << >> /\ guesses'[i].letters # word
        <4> SUFFICES ASSUME NEW i \in 1 .. last
                     PROVE  guesses'[i].marks # << >> /\ guesses'[i].letters # word
          OBVIOUS
        <4>1. CASE i = last BY <1>11, <1>12, <1>14, <1>16, <1>22, <2>4, <4>1
        <4>2. CASE i # last
          <5>1. i \in 1 .. last - 1 BY <1>9, <4>2
          <5> QED BY <1>18, <2>4, <5>1
        <4> QED BY <4>1, <4>2
      <3> QED BY <1>8, <1>9, <2>1, <2>3, <2>4, <3>1 DEF OutcomeFollows, Evaluated
    <2> QED BY <1>8, <2>1, <2>5, <2>6 DEF Board
  <1> QED BY <1>21, <1>22

LEMMA StepFits == Board /\ [Next]_vars => Board'
  <1> SUFFICES ASSUME Board, [Next]_vars PROVE Board'
    OBVIOUS
  <1>1. CASE type_letter
    <2>1. PICK key \in Letters : guesses' = WithCurrent(Append(current_guess.letters, key))
      BY <1>1 DEF type_letter
    <2>2. PICK letters : letters = Append(current_guess.letters, key) OBVIOUS
    <2>3. letters \in Seq(Letters) /\ Len(letters) <= WordLength
      BY <1>1, <2>2, CurrentGuess, SizesAssumption DEF type_letter
    <2> QED BY <1>1, <2>1, <2>2, <2>3, TypingFits DEF type_letter
  <1>2. CASE backspace
    <2>1. PICK letters : letters = SubSeq(current_guess.letters, 1, Len(current_guess.letters) - 1)
      OBVIOUS
    <2>2. current_guess.letters \in Seq(Letters) /\ Len(current_guess.letters) <= WordLength
      BY CurrentGuess DEF Board, GuessesFit, current_guess
    <2>3. Len(current_guess.letters) \in 1 .. WordLength
      BY <1>2, <2>2, SizesAssumption DEF backspace
    <2>4. letters \in Seq(Letters) /\ Len(letters) <= WordLength
      BY <2>1, <2>2, <2>3, SizesAssumption
    <2> QED BY <1>2, <2>1, <2>4, TypingFits DEF backspace
  <1>3. CASE guess BY <1>3, GuessFits
  <1>4. CASE close_modal \/ share \/ UNCHANGED vars
    BY <1>4 DEF close_modal, share, vars, Board, GuessesFit, OutcomeFollows, Evaluated
  <1> QED BY <1>1, <1>2, <1>3, <1>4 DEF Next

LEMMA AlwaysABoard == Spec => []Board
  BY CreateFits, StepFits, PTL DEF Spec

\* There is always a guess to type in, and guesses never outgrow their array.
THEOREM GuessesAlwaysFit == Spec => []GuessesFit
  <1>1. Board => GuessesFit BY DEF Board
  <1> QED BY <1>1, AlwaysABoard, PTL

\* The game is won by the word alone, and lost only when no guess is left.
THEOREM OutcomeAlwaysFollows == Spec => []OutcomeFollows
  <1>1. Board => OutcomeFollows BY DEF Board
  <1> QED BY <1>1, AlwaysABoard, PTL

-----------------------------------------------------------------------------
(* The word of the day is in the dictionary *)

LEMMA TargetsAreInTheDictionary == targets \subseteq dictionary
  <1> SUFFICES ASSUME NEW r \in Records, NEW w \in process(r.xhosa, << >>)
               PROVE  w \in dictionary
    BY DEF targets
  <1>1. << >> \notin Texts BY SizesAssumption DEF Texts
  <1>2. Bytes(Cleaned(r.xhosa)) = WordLength
    BY <1>1 DEF process, WordFirst
  <1>3. process(r.xhosa, r.infinitive) = process(r.xhosa, << >>)
    BY <1>2 DEF process, WordFirst
  <1> QED BY <1>3 DEF dictionary

-----------------------------------------------------------------------------
(* The keyboard *)

\* What a key shows: the best of the results its letter had.
IsBest(shown, had) ==
    IF had = {} THEN shown = None
    ELSE shown \in had /\ \A r \in had : Rank[r] <= Rank[shown]

LEMMA RankType == Rank \in [Results -> Nat]
  BY DEF Rank, Results

\* One result more.
LEMMA BestOfOneMore ==
    ASSUME NEW had \in SUBSET Results, NEW shown, IsBest(shown, had), NEW r \in Results
    PROVE  IsBest(IF better(shown, r) THEN r ELSE shown, had \cup {r})
  <1>1. None \notin Results BY NoneAssumption
  <1>2. CASE had = {}
    <2>1. shown = None BY <1>2 DEF IsBest
    <2> QED BY <1>2, <2>1, RankType DEF IsBest, better
  <1>3. CASE had # {}
    <2>1. shown \in had /\ shown # None /\ \A x \in had : Rank[x] <= Rank[shown]
      BY <1>1, <1>3 DEF IsBest
    <2>2. Rank[shown] \in Nat /\ Rank[r] \in Nat /\ \A x \in had : Rank[x] \in Nat
      BY <2>1, RankType
    <2>3. CASE Rank[shown] < Rank[r]
      <3>1. \A x \in had : Rank[x] <= Rank[r] BY <2>1, <2>2, <2>3
      <3> QED BY <2>1, <2>2, <2>3, <3>1 DEF IsBest, better
    <2>4. CASE ~ (Rank[shown] < Rank[r])
      <3>1. Rank[r] <= Rank[shown] BY <2>2, <2>4
      <3> QED BY <2>1, <2>4, <3>1 DEF IsBest, better
    <2> QED BY <2>3, <2>4
  <1> QED BY <1>2, <1>3

\* What the definition of KeyAfter asks of the function in it.
Unfolds(after, key, text, result) ==
    /\ after[0] = keyboard[key]
    /\ \A i \in 1 .. WordLength :
          after[i] = IF text[i] = key /\ better(after[i - 1], result[i])
                     THEN result[i] ELSE after[i - 1]
    /\ KeyAfter(key, text, result) = after[WordLength]

LEMMA KeyAfterUnfolds ==
    ASSUME NEW key, NEW text, NEW result \in [1 .. WordLength -> Results]
    PROVE  \E after : Unfolds(after, key, text, result)
  <1> DEFINE K == keyboard[key]
             R == Results \cup {K}
             OneMore(i, r) == IF text[i] = key /\ better(r, result[i]) THEN result[i] ELSE r
             step == [i \in 1 .. WordLength |-> [r \in R |-> OneMore(i, r)]]
             Unfolded(f) == f = [i \in 0 .. WordLength |->
                                    IF i = 0 THEN keyboard[key]
                                    ELSE IF text[i] = key /\ better(f[i - 1], result[i]) THEN result[i]
                                    ELSE f[i - 1]]
             after == CHOOSE f : Unfolded(f)
  <1>1. step \in [1 .. WordLength -> [R -> R]] OBVIOUS
  <1>2. WordLength \in Nat /\ K \in R BY SizesAssumption
  <1>3. PICK f : Iterates(f, WordLength, R, K, step)
    <2> HIDE DEF step, R, K
    <2> QED BY <1>1, <1>2, RecursiveFunction
  <1>4. \A i \in 1 .. WordLength : f[i] = OneMore(i, f[i - 1])
    <2> SUFFICES ASSUME NEW i \in 1 .. WordLength PROVE f[i] = OneMore(i, f[i - 1])
      OBVIOUS
    <2>1. i - 1 \in 0 .. WordLength BY <1>2
    <2>2. f[i - 1] \in R
      <3> HIDE DEF R, step
      <3> QED BY <1>3, <2>1 DEF Iterates
    <2>3. f[i] = step[i][f[i - 1]]
      <3> HIDE DEF R, step
      <3> QED BY <1>3 DEF Iterates
    <2> QED BY <2>2, <2>3
  <1>5. Unfolded(f) BY <1>3, <1>4 DEF Iterates
  <1>6. Unfolded(after)
    <2> HIDE DEF Unfolded
    <2> QED BY <1>5
  <1>7. KeyAfter(key, text, result) = after[WordLength] BY DEF KeyAfter
  <1> HIDE DEF after
  <1>8. after[0] = K BY <1>2, <1>6
  <1>9. \A i \in 1 .. WordLength : after[i] = OneMore(i, after[i - 1]) BY <1>2, <1>6
  <1> QED BY <1>7, <1>8, <1>9 DEF Unfolds

\* The results a letter had in a guess.
HadIn(letters, result, key) == {result[i] : i \in {j \in 1 .. WordLength : letters[j] = key}}

\* The letters of a guess, one after the other, leave the best result there.
LEMMA KeyAfterIsBest ==
    ASSUME NEW key, NEW text, NEW result \in [1 .. WordLength -> Results],
           NEW had \in SUBSET Results, IsBest(keyboard[key], had)
    PROVE  IsBest(KeyAfter(key, text, result), had \cup HadIn(text, result, key))
  <1> DEFINE UpTo(n) == had \cup {result[i] : i \in {j \in 1 .. n : text[j] = key}}
  <1>2. PICK after : Unfolds(after, key, text, result)
    BY KeyAfterUnfolds
  <1> DEFINE S == {n \in 0 .. WordLength : IsBest(after[n], UpTo(n))}
  <1>3. 0 \in S
    <2>1. UpTo(0) = had OBVIOUS
    <2> HIDE DEF UpTo
    <2> QED BY <1>2, <2>1, SizesAssumption DEF Unfolds
  <1>4. ASSUME NEW n \in 1 .. WordLength, n - 1 \in S PROVE n \in S
    <2>1. IsBest(after[n - 1], UpTo(n - 1)) BY <1>4
    <2>2. UpTo(n - 1) \in SUBSET Results BY SizesAssumption
    <2>3. result[n] \in Results OBVIOUS
    <2>4. CASE text[n] = key
      <3>1. UpTo(n) = UpTo(n - 1) \cup {result[n]} BY <2>4, SizesAssumption
      <3>2. after[n] = IF better(after[n - 1], result[n]) THEN result[n] ELSE after[n - 1]
        BY <1>2, <2>4 DEF Unfolds
      <3>3. PICK best, r, U : best = after[n - 1] /\ r = result[n] /\ U = UpTo(n - 1)
        OBVIOUS
      <3>4. U \in SUBSET Results /\ IsBest(best, U) /\ r \in Results
        BY <2>1, <2>2, <2>3, <3>3
      <3>5. IsBest(IF better(best, r) THEN r ELSE best, U \cup {r})
        BY <3>4, BestOfOneMore
      <3>6. IsBest(after[n], UpTo(n))
        <4> HIDE DEF UpTo
        <4> QED BY <3>1, <3>2, <3>3, <3>5
      <3> HIDE DEF UpTo
      <3> QED BY <3>6, SizesAssumption
    <2>5. CASE text[n] # key
      <3>1. UpTo(n) = UpTo(n - 1) BY <2>5, SizesAssumption
      <3>2. after[n] = after[n - 1] BY <1>2, <2>5 DEF Unfolds
      <3> HIDE DEF UpTo
      <3> QED BY <2>1, <3>1, <3>2, SizesAssumption
    <2> QED BY <2>4, <2>5
  <1>5. WordLength \in S
    <2> HIDE DEF S
    <2>1. 0 .. WordLength \subseteq S BY <1>3, <1>4, SizesAssumption, Induction
    <2> QED BY <2>1, SizesAssumption
  <1> QED BY <1>2, <1>5 DEF Unfolds, HadIn

-----------------------------------------------------------------------------
(* The marks of a guess *)

Misplaced(target, text) == {i \in 1 .. WordLength : target[i] # text[i]}

\* How many misplaced letters c the word has, and the guess among its first n.
WantedIn(target, text, c) == {j \in Misplaced(target, text) : target[j] = c}
AskedIn(target, text, c, n) == {j \in Misplaced(target, text) : j <= n /\ text[j] = c}

LEMMA CountsAreNumbers ==
    ASSUME NEW target, NEW text, NEW c, NEW n
    PROVE  /\ IsFiniteSet(WantedIn(target, text, c))
           /\ IsFiniteSet(AskedIn(target, text, c, n))
           /\ Cardinality(WantedIn(target, text, c)) \in Nat
           /\ Cardinality(AskedIn(target, text, c, n)) \in Nat
  <1>1. IsFiniteSet(1 .. WordLength) BY SizesAssumption, FS_Interval
  <1>2. /\ WantedIn(target, text, c) \in SUBSET (1 .. WordLength)
        /\ AskedIn(target, text, c, n) \in SUBSET (1 .. WordLength)
    BY DEF WantedIn, AskedIn, Misplaced
  <1>3. IsFiniteSet(WantedIn(target, text, c)) /\ IsFiniteSet(AskedIn(target, text, c, n))
    BY <1>1, <1>2, FS_Subset
  <1> QED BY <1>3, FS_CardinalityType

\* How often a letter is in a sequence.
At(s, c) == {j \in 1 .. Len(s) : s[j] = c}
Count(s, c) == Cardinality(At(s, c))

LEMMA CountType ==
    ASSUME NEW A, NEW s \in Seq(A), NEW c
    PROVE  /\ IsFiniteSet(At(s, c)) /\ Count(s, c) \in Nat
           /\ Count(s, c) > 0 <=> At(s, c) # {}
  <1>1. IsFiniteSet(1 .. Len(s)) BY FS_Interval
  <1>2. At(s, c) \in SUBSET (1 .. Len(s)) BY DEF At
  <1>3. IsFiniteSet(At(s, c)) BY <1>1, <1>2, FS_Subset
  <1>4. Count(s, c) \in Nat BY <1>3, FS_CardinalityType DEF Count
  <1>5. Count(s, c) = 0 <=> At(s, c) = {} BY <1>3, FS_EmptySet DEF Count
  <1> QED BY <1>3, <1>4, <1>5

\* Removing by index takes one of the letter that is there, and moves what is
\* behind it up.
LEMMA RemoveAtCounts ==
    ASSUME NEW A, NEW s \in Seq(A), NEW k \in 1 .. Len(s), NEW r, r = RemoveAt(s, k)
    PROVE  /\ r \in Seq(A) /\ Len(r) = Len(s) - 1
           /\ \A j \in 1 .. Len(r) : r[j] = IF j < k THEN s[j] ELSE s[j + 1]
           /\ \A c : Count(r, c) = IF c = s[k] THEN Count(s, c) - 1 ELSE Count(s, c)
  <1>1. PICK u, v : u = SubSeq(s, 1, k - 1) /\ v = SubSeq(s, k + 1, Len(s)) OBVIOUS
  <1>2. /\ u \in Seq(A) /\ Len(u) = k - 1
        /\ \A j \in 1 .. k - 1 : u[j] = s[j]
    BY <1>1
  <1>3. /\ v \in Seq(A) /\ Len(v) = Len(s) - k
        /\ \A j \in 1 .. Len(s) - k : v[j] = s[k + j]
    BY <1>1
  <1>4. r = u \o v BY <1>1 DEF RemoveAt
  <1>5. r \in Seq(A) /\ Len(r) = Len(s) - 1 BY <1>2, <1>3, <1>4
  <1>6. ASSUME NEW j \in 1 .. Len(r) PROVE r[j] = IF j < k THEN s[j] ELSE s[j + 1]
    <2>1. CASE j < k
      <3>1. j \in 1 .. Len(u) /\ r[j] = u[j] BY <1>2, <1>3, <1>4, <1>5, <2>1
      <3> QED BY <1>2, <2>1, <3>1
    <2>2. CASE ~ (j < k)
      <3>1. PICK i : i = j - (k - 1) OBVIOUS
      <3>2. i \in 1 .. Len(s) - k /\ k + i = j + 1 BY <1>5, <2>2, <3>1
      <3>3. r[j] = v[i] BY <1>2, <1>3, <1>4, <1>5, <2>2, <3>1
      <3> QED BY <1>3, <2>2, <3>2, <3>3
    <2> QED BY <2>1, <2>2
  <1>7. ASSUME NEW c PROVE Cardinality(At(r, c)) = Cardinality(At(s, c) \ {k})
    <2> DEFINE Shift == [j \in At(r, c) |-> IF j < k THEN j ELSE j + 1]
               T == At(s, c) \ {k}
    <2>1. ASSUME NEW j \in At(r, c) PROVE Shift[j] \in T
      <3>1. j \in 1 .. Len(r) /\ r[j] = c BY DEF At
      <3> QED BY <1>5, <1>6, <3>1 DEF At
    <2>2. ASSUME NEW i \in T PROVE \E j \in At(r, c) : Shift[j] = i
      <3>1. i \in 1 .. Len(s) /\ s[i] = c /\ i # k BY DEF At
      <3>2. CASE i < k
        <4>1. i \in 1 .. Len(r) /\ r[i] = c BY <1>5, <1>6, <3>1, <3>2
        <4>2. i \in At(r, c) BY <4>1 DEF At
        <4> QED BY <3>2, <4>2
      <3>3. CASE ~ (i < k)
        <4>1. i - 1 \in 1 .. Len(r) /\ ~ (i - 1 < k) /\ (i - 1) + 1 = i
          BY <1>5, <3>1, <3>3
        <4>2. r[i - 1] = c BY <1>6, <3>1, <4>1
        <4>3. i - 1 \in At(r, c) BY <4>1, <4>2 DEF At
        <4> QED BY <4>1, <4>3
      <3> QED BY <3>2, <3>3
    <2>3. \A i, j \in At(r, c) : Shift[i] = Shift[j] => i = j
      BY DEF At
    <2>4. Shift \in [At(r, c) -> T] BY <2>1
    <2>5. Shift \in Bijection(At(r, c), T)
      BY <2>2, <2>3, <2>4 DEF Bijection, Injection, Surjection, IsInjective
    <2>6. IsFiniteSet(At(r, c)) BY <1>5, CountType
    <2> HIDE DEF Shift, T
    <2>7. ExistsBijection(At(r, c), T) BY <2>5 DEF ExistsBijection
    <2>8. Cardinality(At(r, c)) = Cardinality(T) BY <2>6, <2>7, FS_Bijection
    <2> QED BY <2>8 DEF T
  <1>8. ASSUME NEW c PROVE Count(r, c) = IF c = s[k] THEN Count(s, c) - 1 ELSE Count(s, c)
    <2>1. CASE c = s[k]
      <3>1. k \in At(s, c) /\ IsFiniteSet(At(s, c)) BY <2>1, CountType DEF At
      <3> QED BY <1>7, <2>1, <3>1, FS_RemoveElement DEF Count
    <2>2. CASE c # s[k]
      <3>1. At(s, c) \ {k} = At(s, c) BY <2>2 DEF At
      <3> QED BY <1>7, <2>2, <3>1 DEF Count
    <2> QED BY <2>1, <2>2
  <1> QED BY <1>5, <1>6, <1>8

\* Removing the first of its kind takes one of it, if there is one.
LEMMA RemoveFirstCounts ==
    ASSUME NEW A, NEW s \in Seq(A), NEW e
    PROVE  /\ RemoveFirst(s, e) \in Seq(A)
           /\ \A c : Count(RemoveFirst(s, e), c) =
                        IF c = e /\ Count(s, c) > 0 THEN Count(s, c) - 1 ELSE Count(s, c)
           /\ Contains(s, e) <=> Count(s, e) > 0
  <1>1. Contains(s, e) <=> At(s, e) # {} BY DEF Contains, At
  <1>2. Count(s, e) > 0 <=> At(s, e) # {} BY CountType
  <1>3. CASE At(s, e) = {}
    <2>1. ~ \E i \in 1 .. Len(s) : s[i] = e BY <1>3 DEF At
    <2>2. RemoveFirst(s, e) = s BY <2>1 DEF RemoveFirst
    <2> QED BY <1>1, <1>2, <1>3, <2>2
  <1>4. CASE At(s, e) # {}
    <2>1. PICK k : k = Min(At(s, e)) OBVIOUS
    <2>2. k \in At(s, e)
      <3>1. At(s, e) \in SUBSET Nat BY DEF At
      <3>2. \E m \in At(s, e) : \A n \in At(s, e) : m <= n BY <1>4, <3>1, LeastNatural
      <3> QED BY <2>1, <3>2 DEF Min
    <2>3. k \in 1 .. Len(s) /\ s[k] = e BY <2>2 DEF At
    <2>4. SelectInSeq(s, LAMBDA v : v = e) = k
      BY <1>4, <2>1 DEF SelectInSeq, At
    <2>5. RemoveFirst(s, e) = RemoveAt(s, k) BY <2>3, <2>4 DEF RemoveFirst
    <2>6. PICK r : r = RemoveAt(s, k) OBVIOUS
    <2>7. /\ r \in Seq(A)
          /\ \A c : Count(r, c) = IF c = s[k] THEN Count(s, c) - 1 ELSE Count(s, c)
      BY <2>3, <2>6, RemoveAtCounts
    <2>8. \A c : Count(r, c) = IF c = e /\ Count(s, c) > 0 THEN Count(s, c) - 1 ELSE Count(s, c)
      BY <1>2, <1>4, <2>3, <2>7
    <2> QED BY <1>1, <1>2, <1>4, <2>5, <2>6, <2>7, <2>8
  <1> QED BY <1>3, <1>4

\* What the first loop does with a letter of the guess.
Unplace(target, text, i, l) ==
    IF target[i] = text[i] THEN [l EXCEPT !.letters = RemoveAt(@, l.removal_cursor)]
    ELSE [l EXCEPT !.removal_cursor = @ + 1]

\* The letters of the word that are still there once it has looked at n of the
\* guess: those it has yet to look at, and those that are not in their place.
Ahead(target, text, c, n) ==
    {j \in 1 .. WordLength : target[j] = c /\ (j > n \/ j \in Misplaced(target, text))}

\* Where the loop is after n letters: the cursor is at the next letter of the word.
Looked(target, text, l, n) ==
    /\ l \in [letters : Seq(Ascii), removal_cursor : Nat \ {0}]
    /\ Len(l.letters) = (l.removal_cursor - 1) + (WordLength - n)
    /\ \A j \in n + 1 .. WordLength : l.letters[l.removal_cursor + (j - n) - 1] = target[j]
    /\ \A c : Count(l.letters, c) = Cardinality(Ahead(target, text, c, n))

LEMMA LooksAtNext ==
    ASSUME NEW target \in Texts, NEW text \in Texts, NEW n \in 1 .. WordLength, NEW l,
           Looked(target, text, l, n - 1)
    PROVE  /\ l.removal_cursor \in 1 .. Len(l.letters)
           /\ Looked(target, text, Unplace(target, text, n, l), n)
  <1> DEFINE W == WordLength
  <1>1. PICK s, k : s = l.letters /\ k = l.removal_cursor OBVIOUS
  <1>2. PICK m : m = Unplace(target, text, n, l) OBVIOUS
  <1>3. W \in Nat /\ n \in 1 .. W BY SizesAssumption
  <1>4. /\ l = [letters |-> s, removal_cursor |-> k]
        /\ s \in Seq(Ascii) /\ k \in Nat \ {0}
        /\ Len(s) = (k - 1) + (W - (n - 1))
    BY <1>1 DEF Looked
  <1>5. k \in 1 .. Len(s) BY <1>3, <1>4
  <1>6. \A j \in n .. W : s[k + (j - n)] = target[j]
    <2>1. \A j \in (n - 1) + 1 .. W : s[k + (j - (n - 1)) - 1] = target[j]
      BY <1>1 DEF Looked
    <2>2. \A j \in n .. W : j \in (n - 1) + 1 .. W /\ k + (j - (n - 1)) - 1 = k + (j - n)
      BY <1>3, <1>4
    <2> QED BY <2>1, <2>2
  <1>7. s[k] = target[n]
    <2>1. n \in n .. W /\ k + (n - n) = k BY <1>3, <1>4
    <2> QED BY <1>6, <2>1
  <1>8. \A c : Count(s, c) = Cardinality(Ahead(target, text, c, n - 1))
    BY <1>1 DEF Looked
  <1>9. CASE target[n] = text[n]
    <2>1. PICK r : r = RemoveAt(s, k) OBVIOUS
    <2>2. m = [letters |-> r, removal_cursor |-> k]
      BY <1>1, <1>2, <1>4, <1>9, <2>1 DEF Unplace
    <2>3. /\ r \in Seq(Ascii) /\ Len(r) = Len(s) - 1
          /\ \A j \in 1 .. Len(r) : r[j] = IF j < k THEN s[j] ELSE s[j + 1]
          /\ \A c : Count(r, c) = IF c = s[k] THEN Count(s, c) - 1 ELSE Count(s, c)
      <3>1. s \in Seq(Ascii) BY <1>4
      <3>2. k \in 1 .. Len(s) BY <1>5
      <3> QED BY <2>1, <3>1, <3>2, RemoveAtCounts
    <2>4. ASSUME NEW j \in n + 1 .. W PROVE r[k + (j - n) - 1] = target[j]
      <3>1. PICK i : i = k + (j - n) - 1 OBVIOUS
      <3>2. i \in 1 .. Len(r) /\ ~ (i < k) /\ i + 1 = k + (j - n) /\ j \in n .. W
        BY <1>3, <1>4, <2>3, <3>1
      <3> QED BY <1>6, <2>3, <3>1, <3>2
    <2>5. ASSUME NEW c PROVE Count(r, c) = Cardinality(Ahead(target, text, c, n))
      <3>1. PICK S : S = Ahead(target, text, c, n - 1) OBVIOUS
      <3>2. Ahead(target, text, c, n) = S \ {n}
        BY <1>3, <1>9, <3>1 DEF Ahead, Misplaced
      <3>3. IsFiniteSet(S)
        <4>1. S \in SUBSET (1 .. W) BY <3>1 DEF Ahead
        <4>2. IsFiniteSet(1 .. W) BY <1>3, FS_Interval
        <4> QED BY <4>1, <4>2, FS_Subset
      <3>4. n \in S <=> c = s[k] BY <1>3, <1>7, <3>1 DEF Ahead
      <3>5. CASE c = s[k]
        <4>1. Cardinality(S \ {n}) = Cardinality(S) - 1 BY <3>3, <3>4, <3>5, FS_RemoveElement
        <4> QED BY <1>8, <2>3, <3>1, <3>2, <3>5, <4>1
      <3>6. CASE c # s[k]
        <4>1. S \ {n} = S BY <3>4, <3>6
        <4> QED BY <1>8, <2>3, <3>1, <3>2, <3>6, <4>1
      <3> QED BY <3>5, <3>6
    <2>6. Len(r) = (k - 1) + (W - n) BY <1>3, <1>4, <2>3
    <2>7. Looked(target, text, m, n) BY <1>4, <2>2, <2>3, <2>4, <2>5, <2>6 DEF Looked
    <2> QED BY <1>1, <1>2, <1>5, <2>7
  <1>10. CASE target[n] # text[n]
    <2>1. m = [letters |-> s, removal_cursor |-> k + 1]
      BY <1>1, <1>2, <1>4, <1>10 DEF Unplace
    <2>2. ASSUME NEW j \in n + 1 .. W PROVE s[(k + 1) + (j - n) - 1] = target[j]
      <3>1. (k + 1) + (j - n) - 1 = k + (j - n) /\ j \in n .. W BY <1>3, <1>4
      <3> QED BY <1>6, <3>1
    <2>3. ASSUME NEW c PROVE Count(s, c) = Cardinality(Ahead(target, text, c, n))
      <3>1. Ahead(target, text, c, n) = Ahead(target, text, c, n - 1)
        BY <1>3, <1>10 DEF Ahead, Misplaced
      <3> QED BY <1>8, <3>1
    <2>4. Len(s) = ((k + 1) - 1) + (W - n) /\ k + 1 \in Nat \ {0} BY <1>3, <1>4
    <2>5. Looked(target, text, m, n) BY <1>4, <2>1, <2>2, <2>3, <2>4 DEF Looked
    <2> QED BY <1>1, <1>2, <1>5, <2>5
  <1> QED BY <1>9, <1>10

\* Of each letter the first loop leaves what the word has out of its place.
LEMMA UnplacedCounts ==
    ASSUME NEW target \in Texts, NEW text \in Texts
    PROVE  /\ unplaced_letters(target, text) \in Seq(Ascii)
           /\ \A c : Count(unplaced_letters(target, text), c) = Cardinality(WantedIn(target, text, c))
  <1> DEFINE A == [letters : Seq(Ascii), removal_cursor : Nat \ {0}]
             start == [letters |-> target, removal_cursor |-> 1]
             Next_(i, l) == Unplace(target, text, i, l)
             step == [i \in 1 .. WordLength |-> [l \in A |->
                        IF l.removal_cursor \in 1 .. Len(l.letters) THEN Next_(i, l) ELSE l]]
             Unfolded(f) == f = [i \in 0 .. WordLength |->
                                    IF i = 0 THEN start ELSE Next_(i, f[i - 1])]
             left == CHOOSE f : Unfolded(f)
             S(f) == {n \in 0 .. WordLength : Looked(target, text, f[n], n)}
  <1>1. WordLength \in Nat BY SizesAssumption
  <1>2. start \in A /\ Looked(target, text, start, 0)
    <2>1. target \in Seq(Ascii) /\ Len(target) = WordLength BY <1>1 DEF Texts
    <2>2. \A c : At(target, c) = Ahead(target, text, c, 0) BY <1>1, <2>1 DEF At, Ahead
    <2>3. \A c : Count(target, c) = Cardinality(Ahead(target, text, c, 0))
      BY <2>2 DEF Count
    <2>4. \A j \in 0 + 1 .. WordLength : target[1 + (j - 0) - 1] = target[j]
      <3>1. \A j \in 0 + 1 .. WordLength : 1 + (j - 0) - 1 = j BY <1>1
      <3> QED BY <3>1
    <2>5. Len(target) = (1 - 1) + (WordLength - 0) BY <1>1, <2>1
    <2> QED BY <2>1, <2>3, <2>4, <2>5 DEF Looked
  <1>3. step \in [1 .. WordLength -> [A -> A]]
    <2> SUFFICES ASSUME NEW i \in 1 .. WordLength, NEW l \in A,
                        l.removal_cursor \in 1 .. Len(l.letters)
                 PROVE  Next_(i, l) \in A
      OBVIOUS
    <2>1. RemoveAt(l.letters, l.removal_cursor) \in Seq(Ascii)
      <3>1. PICK r, k, s : r = RemoveAt(l.letters, l.removal_cursor) /\ k = l.removal_cursor
                           /\ s = l.letters
        OBVIOUS
      <3>2. s \in Seq(Ascii) /\ k \in 1 .. Len(s) /\ r = RemoveAt(s, k) BY <3>1
      <3> QED BY <3>1, <3>2, RemoveAtCounts
    <2>2. l.removal_cursor + 1 \in Nat \ {0} OBVIOUS
    <2> QED BY <2>1, <2>2 DEF Unplace
  <1>4. PICK f : Iterates(f, WordLength, A, start, step)
    <2> HIDE DEF A, start, step
    <2> QED BY <1>1, <1>2, <1>3, RecursiveFunction
  <1>5. f[0] = start /\ f = [i \in 0 .. WordLength |-> f[i]]
    <2> HIDE DEF step, A, start
    <2> QED BY <1>4 DEF Iterates
  <1>6. ASSUME NEW n \in 1 .. WordLength, n - 1 \in S(f)
        PROVE  n \in S(f) /\ f[n] = Next_(n, f[n - 1])
    <2>1. n - 1 \in 0 .. WordLength BY <1>1
    <2>2. f[n - 1] \in A
      <3> HIDE DEF A, start, step
      <3> QED BY <1>4, <2>1 DEF Iterates
    <2>3. f[n] = step[n][f[n - 1]]
      <3> HIDE DEF A, start, step
      <3> QED BY <1>4 DEF Iterates
    <2>4. PICK l : l = f[n - 1] OBVIOUS
    <2>5. Looked(target, text, l, n - 1) BY <1>6, <2>4
    <2>6. l.removal_cursor \in 1 .. Len(l.letters) /\ Looked(target, text, Next_(n, l), n)
      BY <2>5, LooksAtNext
    <2>7. f[n] = Next_(n, l)
      <3> HIDE DEF A, Next_
      <3> QED BY <2>2, <2>3, <2>4, <2>6
    <2> QED BY <2>4, <2>6, <2>7
  <1>7. 0 \in S(f) BY <1>1, <1>2, <1>5
  <1>8. 0 .. WordLength \subseteq S(f)
    <2> DEFINE T == S(f)
    <2>1. 0 \in T /\ \A n \in 1 .. WordLength : n - 1 \in T => n \in T BY <1>6, <1>7
    <2> HIDE DEF T
    <2>2. 0 .. WordLength \subseteq T BY <1>1, <2>1, Induction
    <2> QED BY <2>2 DEF T
  <1>9. Unfolded(f)
    <2>1. \A i \in 0 .. WordLength : f[i] = IF i = 0 THEN start ELSE Next_(i, f[i - 1])
      <3> SUFFICES ASSUME NEW i \in 0 .. WordLength
                   PROVE  f[i] = IF i = 0 THEN start ELSE Next_(i, f[i - 1])
        OBVIOUS
      <3>1. CASE i = 0 BY <1>5, <3>1
      <3>2. CASE i # 0
        <4>1. i \in 1 .. WordLength /\ i - 1 \in 0 .. WordLength BY <1>1, <3>2
        <4>2. i - 1 \in S(f) BY <1>8, <4>1
        <4>3. f[i] = Next_(i, f[i - 1]) BY <1>6, <4>1, <4>2
        <4> QED BY <3>2, <4>3
      <3> QED BY <3>1, <3>2
    <2> HIDE DEF start, Next_
    <2> QED BY <1>5, <2>1
  <1>10. Unfolded(left)
    <2> HIDE DEF Unfolded
    <2> QED BY <1>9
  <1>11. unplaced_letters(target, text) = left[WordLength].letters
    BY DEF unplaced_letters, Unplace
  <1> HIDE DEF left
  <1>12. left = f
    <2> DEFINE T == {n \in 0 .. WordLength : left[n] = f[n]}
    <2>1. left[0] = start /\ left = [i \in 0 .. WordLength |-> left[i]] BY <1>1, <1>10
    <2>2. 0 \in T BY <1>1, <1>5, <2>1
    <2>3. ASSUME NEW n \in 1 .. WordLength, n - 1 \in T PROVE n \in T
      <3>1. n \in 0 .. WordLength /\ n # 0 BY <1>1
      <3>2. left[n] = Next_(n, left[n - 1])
        <4> HIDE DEF start, Next_
        <4> QED BY <1>10, <3>1
      <3>3. f[n] = Next_(n, f[n - 1])
        <4> HIDE DEF start, Next_
        <4> QED BY <1>9, <3>1
      <3> QED BY <2>3, <3>1, <3>2, <3>3
    <2>4. 0 .. WordLength \subseteq T
      <3> HIDE DEF T
      <3> QED BY <1>1, <2>2, <2>3, Induction
    <2>5. \A n \in 0 .. WordLength : left[n] = f[n] BY <2>4
    <2> HIDE DEF T, start
    <2> QED BY <1>5, <2>1, <2>5
  <1>13. Looked(target, text, f[WordLength], WordLength)
    <2>1. WordLength \in S(f) BY <1>1, <1>8
    <2> QED BY <2>1
  <1>14. \A c : Ahead(target, text, c, WordLength) = WantedIn(target, text, c)
    BY <1>1 DEF Ahead, WantedIn, Misplaced
  <1> QED BY <1>11, <1>12, <1>13, <1>14 DEF Looked

\* What the definition of remaining_letters asks of the function it is.
Remains(left, target, text) ==
    /\ left = remaining_letters(target, text)
    /\ left \in [0 .. WordLength -> Seq(Ascii)]
    /\ left[0] = unplaced_letters(target, text)
    /\ \A i \in 1 .. WordLength :
          left[i] = IF target[i] = text[i] THEN left[i - 1] ELSE RemoveFirst(left[i - 1], text[i])

LEMMA RemainingUnfolds ==
    ASSUME NEW target \in Texts, NEW text \in Texts
    PROVE  \E left : Remains(left, target, text)
  <1> DEFINE A == Seq(Ascii)
             start == unplaced_letters(target, text)
             Taken(i, l) == IF target[i] = text[i] THEN l ELSE RemoveFirst(l, text[i])
             step == [i \in 1 .. WordLength |-> [l \in A |-> Taken(i, l)]]
             Unfolded(f) == f = [i \in 0 .. WordLength |->
                                    IF i = 0 THEN start ELSE Taken(i, f[i - 1])]
             left == CHOOSE f : Unfolded(f)
  <1>1. start \in A BY UnplacedCounts
  <1>2. step \in [1 .. WordLength -> [A -> A]]
    <2> SUFFICES ASSUME NEW i \in 1 .. WordLength, NEW l \in A PROVE Taken(i, l) \in A
      OBVIOUS
    <2>1. RemoveFirst(l, text[i]) \in A BY RemoveFirstCounts
    <2> QED BY <2>1
  <1>3. WordLength \in Nat BY SizesAssumption
  <1>4. PICK f : Iterates(f, WordLength, A, start, step)
    <2> HIDE DEF A, start, step
    <2> QED BY <1>1, <1>2, <1>3, RecursiveFunction
  <1>5. ASSUME NEW i \in 1 .. WordLength PROVE f[i] = Taken(i, f[i - 1])
    <2>1. i - 1 \in 0 .. WordLength BY <1>3
    <2>2. f[i - 1] \in A
      <3> HIDE DEF A, start, step
      <3> QED BY <1>4, <2>1 DEF Iterates
    <2>3. f[i] = step[i][f[i - 1]]
      <3> HIDE DEF A, start, step
      <3> QED BY <1>4 DEF Iterates
    <2> HIDE DEF A, Taken
    <2> QED BY <2>2, <2>3
  <1>6. Unfolded(f)
    <2>1. f[0] = start /\ f = [i \in 0 .. WordLength |-> f[i]]
      <3> HIDE DEF start, step, A
      <3> QED BY <1>4 DEF Iterates
    <2>2. \A i \in 0 .. WordLength : f[i] = IF i = 0 THEN start ELSE Taken(i, f[i - 1])
      <3> SUFFICES ASSUME NEW i \in 0 .. WordLength
                   PROVE  f[i] = IF i = 0 THEN start ELSE Taken(i, f[i - 1])
        OBVIOUS
      <3> HIDE DEF start, Taken, A
      <3>1. CASE i = 0 BY <2>1, <3>1
      <3>2. CASE i # 0
        <4>1. i \in 1 .. WordLength BY <1>3, <3>2
        <4>2. f[i] = Taken(i, f[i - 1]) BY <1>5, <4>1
        <4> QED BY <3>2, <4>2
      <3> QED BY <3>1, <3>2
    <2> HIDE DEF start, Taken
    <2> QED BY <2>1, <2>2
  <1>7. Unfolded(left)
    <2> HIDE DEF Unfolded
    <2> QED BY <1>6
  <1>8. left = remaining_letters(target, text) BY DEF remaining_letters
  <1> HIDE DEF left
  <1>9. left[0] = start /\ left = [i \in 0 .. WordLength |-> left[i]]
    <2> HIDE DEF start, Taken
    <2> QED BY <1>3, <1>7
  <1>10. \A i \in 1 .. WordLength : left[i] = Taken(i, left[i - 1])
    <2> HIDE DEF start, Taken
    <2> QED BY <1>3, <1>7
  <1>11. \A i \in 0 .. WordLength : left[i] \in A
    <2> DEFINE T == {n \in 0 .. WordLength : left[n] \in A}
    <2>1. 0 \in T BY <1>1, <1>3, <1>9
    <2>2. ASSUME NEW n \in 1 .. WordLength, n - 1 \in T PROVE n \in T
      <3>1. RemoveFirst(left[n - 1], text[n]) \in A BY <2>2, RemoveFirstCounts
      <3> QED BY <1>3, <1>10, <2>2, <3>1
    <2>3. 0 .. WordLength \subseteq T
      <3> HIDE DEF T
      <3> QED BY <1>3, <2>1, <2>2, Induction
    <2> QED BY <2>3
  <1>12. left \in [0 .. WordLength -> Seq(Ascii)]
    <2> HIDE DEF start, Taken
    <2> QED BY <1>9, <1>11
  <1> QED BY <1>8, <1>9, <1>10, <1>12 DEF Remains

\* The first n letters of the guess take what they ask for, as far as it goes.
LEMMA RemainingCounts ==
    ASSUME NEW target \in Texts, NEW text \in Texts, NEW left, Remains(left, target, text)
    PROVE  \A n \in 0 .. WordLength : \A c :
              Count(left[n], c) =
                    IF Cardinality(AskedIn(target, text, c, n)) < Cardinality(WantedIn(target, text, c))
                    THEN Cardinality(WantedIn(target, text, c)) - Cardinality(AskedIn(target, text, c, n))
                    ELSE 0
  <1> DEFINE Wanted(c) == Cardinality(WantedIn(target, text, c))
             Asked(c, n) == Cardinality(AskedIn(target, text, c, n))
             LeftOf(c, n) == IF Asked(c, n) < Wanted(c) THEN Wanted(c) - Asked(c, n) ELSE 0
             M == Misplaced(target, text)
             S == {n \in 0 .. WordLength : \A c : Count(left[n], c) = LeftOf(c, n)}
  <1>1. \A c, n : Wanted(c) \in Nat /\ Asked(c, n) \in Nat
    BY CountsAreNumbers
  <1>2. 0 \in S
    <2>1. \A c : AskedIn(target, text, c, 0) = {} BY SizesAssumption DEF AskedIn, Misplaced
    <2>2. \A c : Asked(c, 0) = 0 BY <2>1, FS_EmptySet
    <2>3. \A c : LeftOf(c, 0) = Wanted(c)
      <3> HIDE DEF Wanted, Asked
      <3> QED BY <1>1, <2>2
    <2>4. \A c : Count(left[0], c) = Wanted(c) BY UnplacedCounts DEF Remains
    <2> HIDE DEF LeftOf, Wanted
    <2> QED BY <2>3, <2>4, SizesAssumption
  <1>3. ASSUME NEW n \in 1 .. WordLength, n - 1 \in S PROVE n \in S
    <2>1. PICK l, d : l = left[n - 1] /\ d = text[n] OBVIOUS
    <2>2. n - 1 \in 0 .. WordLength BY SizesAssumption
    <2>3. l \in Seq(Ascii) BY <2>1, <2>2 DEF Remains
    <2>4. \A c : Count(l, c) = LeftOf(c, n - 1) BY <1>3, <2>1
    <2>5. left[n] = IF n \in M THEN RemoveFirst(l, d) ELSE l
      BY <2>1 DEF Remains, Misplaced
    <2>6. \A c : c # d \/ n \notin M => AskedIn(target, text, c, n) = AskedIn(target, text, c, n - 1)
      BY <2>1, SizesAssumption DEF AskedIn, Misplaced
    <2>7. \A c : c # d \/ n \notin M => LeftOf(c, n) = LeftOf(c, n - 1) BY <2>6
    <2>8. CASE n \in M
      <3>1. Asked(d, n) = Asked(d, n - 1) + 1
        <4>1. AskedIn(target, text, d, n) = AskedIn(target, text, d, n - 1) \cup {n}
          BY <2>1, <2>8, SizesAssumption DEF AskedIn, Misplaced
        <4>2. n \notin AskedIn(target, text, d, n - 1) BY SizesAssumption DEF AskedIn
        <4>3. IsFiniteSet(AskedIn(target, text, d, n - 1)) BY CountsAreNumbers
        <4> QED BY <4>1, <4>2, <4>3, FS_AddElement
      <3>2. \A c : Count(left[n], c) = IF c = d /\ Count(l, c) > 0 THEN Count(l, c) - 1 ELSE Count(l, c)
        BY <2>3, <2>5, <2>8, RemoveFirstCounts
      <3>3. Count(left[n], d) = LeftOf(d, n)
        <4>1. PICK k : k = Count(l, d) OBVIOUS
        <4>2. k = LeftOf(d, n - 1) BY <2>4, <4>1
        <4>3. Count(left[n], d) = IF k > 0 THEN k - 1 ELSE k BY <3>2, <4>1
        <4>4. PICK w, a, b : w = Wanted(d) /\ a = Asked(d, n - 1) /\ b = Asked(d, n) OBVIOUS
        <4>5. w \in Nat /\ a \in Nat /\ b = a + 1 BY <1>1, <3>1, <4>4
        <4>6. LeftOf(d, n - 1) = (IF a < w THEN w - a ELSE 0)
              /\ LeftOf(d, n) = (IF b < w THEN w - b ELSE 0)
          BY <4>4
        <4> HIDE DEF LeftOf
        <4> QED BY <4>2, <4>3, <4>5, <4>6
      <3>4. \A c : Count(left[n], c) = LeftOf(c, n)
        <4> HIDE DEF LeftOf
        <4> QED BY <2>4, <2>7, <3>2, <3>3
      <3> HIDE DEF LeftOf
      <3> QED BY <3>4, SizesAssumption
    <2>9. CASE n \notin M
      <3> HIDE DEF LeftOf, M
      <3>1. \A c : Count(left[n], c) = LeftOf(c, n) BY <2>4, <2>5, <2>7, <2>9
      <3> QED BY <3>1, SizesAssumption
    <2> HIDE DEF S
    <2> QED BY <2>8, <2>9
  <1>4. 0 .. WordLength \subseteq S
    <2> HIDE DEF S
    <2> QED BY <1>2, <1>3, SizesAssumption, Induction
  <1>5. \A n \in 0 .. WordLength : \A c : Count(left[n], c) = LeftOf(c, n)
    <2> HIDE DEF LeftOf
    <2> QED BY <1>4
  <1> QED BY <1>5

\* What a guess of a text should be marked: its letters in their place, and of
\* the others as many as the word has elsewhere, from the left.
Counted(target, text) ==
    [i \in 1 .. WordLength |->
        IF i \notin Misplaced(target, text) THEN "Correct"
        ELSE IF Cardinality(AskedIn(target, text, text[i], i - 1))
                  < Cardinality(WantedIn(target, text, text[i]))
        THEN "WrongPlace" ELSE "Incorrect"]

THEOREM MarksAreCounted ==
    ASSUME NEW target \in Texts, NEW text \in Texts
    PROVE  marks(target, text) = Counted(target, text)
  <1>1. PICK left : Remains(left, target, text) BY RemainingUnfolds
  <1>2. \A i \in 1 .. WordLength : i - 1 \in 0 .. WordLength /\ text[i] \in Ascii
    BY SizesAssumption DEF Texts
  <1>3. \A i \in 1 .. WordLength :
            Contains(left[i - 1], text[i]) <=>
                Cardinality(AskedIn(target, text, text[i], i - 1))
                    < Cardinality(WantedIn(target, text, text[i]))
    <2> SUFFICES ASSUME NEW i \in 1 .. WordLength
                 PROVE  Contains(left[i - 1], text[i]) <=>
                            Cardinality(AskedIn(target, text, text[i], i - 1))
                                < Cardinality(WantedIn(target, text, text[i]))
      OBVIOUS
    <2>1. PICK c, n, asked, wanted :
              /\ c = text[i] /\ n = i - 1
              /\ asked = Cardinality(AskedIn(target, text, c, n))
              /\ wanted = Cardinality(WantedIn(target, text, c))
      OBVIOUS
    <2>2. asked \in Nat /\ wanted \in Nat BY <2>1, CountsAreNumbers
    <2>3. Count(left[n], c) = IF asked < wanted THEN wanted - asked ELSE 0
      BY <1>1, <1>2, <2>1, RemainingCounts
    <2>4. left[n] \in Seq(Ascii) BY <1>1, <1>2, <2>1 DEF Remains
    <2>5. Contains(left[n], c) <=> Count(left[n], c) > 0 BY <2>4, RemoveFirstCounts
    <2> QED BY <2>1, <2>2, <2>3, <2>5
  <1>4. marks(target, text) =
            [i \in 1 .. WordLength |->
                IF target[i] = text[i] THEN "Correct"
                ELSE IF Contains(left[i - 1], text[i]) THEN "WrongPlace" ELSE "Incorrect"]
    BY <1>1 DEF marks, Remains
  <1> QED BY <1>3, <1>4 DEF Counted, Misplaced

-----------------------------------------------------------------------------
(* The whole game *)

\* Guesses were evaluated as their letters are, and the modal is for the end.
Evaluations ==
    \A g \in Evaluated :
        /\ guesses[g].letters \in dictionary
        /\ guesses[g].marks = marks(word, guesses[g].letters)

Played ==
    /\ Board
    /\ word \in targets
    /\ keyboard \in [Letters -> Results \cup {None}]
    /\ modal_open \in BOOLEAN /\ (modal_open => state # "Continue")
    /\ Evaluations
    /\ KeyboardShowsBest
    /\ SharedAsPlayed

Had(key) == UNION {HadIn(guesses[g].letters, guesses[g].marks, key) : g \in Evaluated}

LEMMA KeyboardIsBest ==
    KeyboardShowsBest <=> \A key \in Letters : IsBest(keyboard[key], Had(key))
  BY DEF KeyboardShowsBest, IsBest, Had, HadIn

LEMMA KeyboardIsBestNext ==
    KeyboardShowsBest' <=> \A key \in Letters : IsBest(keyboard'[key], Had(key)')
  BY DEF KeyboardShowsBest, IsBest, Had, HadIn

LEMMA HadType == ASSUME Played, NEW key PROVE Had(key) \in SUBSET Results
  <1> SUFFICES ASSUME NEW g \in Evaluated
               PROVE  HadIn(guesses[g].letters, guesses[g].marks, key) \subseteq Results
    BY DEF Had
  <1>1. PICK text : text = guesses[g].letters OBVIOUS
  <1>2. PICK result : result = guesses[g].marks OBVIOUS
  <1>3. result = marks(word, text) /\ word \in Texts
    BY <1>1, <1>2 DEF Played, Evaluations, Board
  <1>4. result \in [1 .. WordLength -> Results] BY <1>3, MarksType
  <1> QED BY <1>1, <1>2, <1>4 DEF HadIn

\* What is not a guess leaves the evaluated ones, and with them the keyboard.
LEMMA KeptEvaluations ==
    ASSUME Played, UNCHANGED <<word, keyboard>>, Evaluated' = Evaluated,
           \A g \in Evaluated : guesses'[g] = guesses[g]
    PROVE  Evaluations' /\ KeyboardShowsBest'
  <1>1. Evaluations' BY DEF Played, Evaluations
  <1>2. \A key : Had(key)' = Had(key) BY DEF Had
  <1>3. KeyboardShowsBest'
    BY <1>2, KeyboardIsBest, KeyboardIsBestNext DEF Played
  <1> QED BY <1>1, <1>3

LEMMA TypingKeepsEvaluations ==
    ASSUME Board, state = "Continue", NEW letters, guesses' = WithCurrent(letters)
    PROVE  /\ Evaluated' = Evaluated
           /\ \A g \in Evaluated : guesses'[g] = guesses[g]
  <1>1. PICK last : last = Len(guesses) OBVIOUS
  <1>2. last \in 1 .. Guesses /\ last \in 1 .. Len(guesses) BY <1>1, CurrentGuess
  <1>3. guesses \in Seq(Guess) BY DEF Board, GuessesFit
  <1>4. guesses[last] \in Guess /\ guesses[last].marks = << >>
    BY <1>1, CurrentGuess DEF current_guess
  <1>5. PICK g : g = [guesses[last] EXCEPT !.letters = letters] OBVIOUS
  <1>6. g.marks = << >> BY <1>4, <1>5 DEF Guess
  <1>7. guesses' = [guesses EXCEPT ![last] = g] BY <1>1, <1>5 DEF WithCurrent
  <1>8. /\ Len(guesses') = Len(guesses) /\ guesses'[last] = g
        /\ \A i \in 1 .. Len(guesses) : i # last => guesses'[i] = guesses[i]
    BY <1>2, <1>3, <1>7
  <1> QED BY <1>1, <1>4, <1>6, <1>8 DEF Evaluated

LEMMA GuessIsEvaluated ==
    ASSUME Board, guess, NEW last, last = Len(guesses), NEW text, text = current_guess.letters
    PROVE  /\ text \in dictionary /\ text \in Seq(Letters)
           /\ Evaluated' = Evaluated \cup {last}
           /\ \A g \in Evaluated : guesses'[g] = guesses[g]
           /\ last \notin Evaluated
           /\ guesses'[last].letters = text
           /\ guesses'[last].marks = marks(word, text)
           /\ keyboard' = [key \in Letters |-> KeyAfter(key, text, marks(word, text))]
           /\ state' = "Continue" <=> ~modal_open'
           /\ modal_open' \in BOOLEAN
           /\ state = "Continue" /\ UNCHANGED <<word, copied>>
  <1>1. PICK result : result = evaluate_guess(text) OBVIOUS
  <1>2. PICK g : g = [guesses[last] EXCEPT !.marks = result] OBVIOUS
  <1>3. PICK evaluated : evaluated = [guesses EXCEPT ![last] = g] OBVIOUS
  <1>4. PICK over \in BOOLEAN :
           over <=> \/ \A i \in 1 .. WordLength : result[i] = "Correct"
                    \/ no_guess_left(last)
    OBVIOUS
  <1>5. /\ state = "Continue" /\ result # None
        /\ keyboard' = [key \in Letters |-> KeyAfter(key, text, result)]
        /\ state' = "Continue" <=> ~modal_open'
        /\ modal_open' \in BOOLEAN
        /\ guesses' = IF over THEN evaluated ELSE Append(evaluated, EmptyGuess)
        /\ UNCHANGED <<word, copied>>
    BY <1>1, <1>2, <1>3, <1>4 DEF guess
  <1>6. last \in 1 .. Guesses /\ last \in 1 .. Len(guesses) BY CurrentGuess
  <1>7. result = marks(word, text) /\ text \in dictionary
    BY <1>1, <1>5 DEF evaluate_guess
  <1>8. result \in Seq(Results) /\ result # << >>
    BY <1>7, MarksType, MarksAreMarks DEF Board
  <1>9. /\ guesses[last] \in Guess /\ guesses[last].letters = text /\ text \in Seq(Letters)
        /\ guesses[last].marks = << >>
    BY <1>5, CurrentGuess DEF current_guess
  <1>10. g \in Guess /\ g.letters = text /\ g.marks = result
    BY <1>2, <1>8, <1>9 DEF Guess
  <1>11. guesses \in Seq(Guess) BY DEF Board, GuessesFit
  <1>12. /\ evaluated \in Seq(Guess) /\ Len(evaluated) = last /\ evaluated[last] = g
         /\ \A i \in 1 .. last : i # last => evaluated[i] = guesses[i]
    BY <1>3, <1>6, <1>10, <1>11
  <1>13. EmptyGuess \in Guess /\ EmptyGuess.marks = << >> BY DEF EmptyGuess, Guess
  <1>14. /\ \A i \in 1 .. last : guesses'[i] = evaluated[i]
         /\ Len(guesses') = IF over THEN last ELSE last + 1
         /\ ~over => guesses'[last + 1].marks = << >>
    <2>1. CASE over BY <1>5, <1>12, <2>1
    <2>2. CASE ~over BY <1>5, <1>6, <1>12, <1>13, <2>2
    <2> QED BY <2>1, <2>2
  <1>15. /\ guesses'[last] = g
         /\ \A i \in 1 .. last : i # last => guesses'[i] = guesses[i]
    BY <1>6, <1>12, <1>14
  <1>16. last \notin Evaluated BY <1>9 DEF Evaluated
  <1>17. Evaluated' = Evaluated \cup {last}
    <2>1. CASE over
      <3>1. Len(guesses') = last BY <1>14, <2>1
      <3> QED BY <1>6, <1>8, <1>10, <1>15, <3>1 DEF Evaluated
    <2>2. CASE ~over
      <3>1. Len(guesses') = last + 1 /\ guesses'[last + 1].marks = << >> BY <1>14, <2>2
      <3>2. \A i : i \in 1 .. last + 1 <=> i \in 1 .. last \/ i = last + 1 BY <1>6
      <3> QED BY <1>6, <1>8, <1>10, <1>15, <3>1, <3>2 DEF Evaluated
    <2> QED BY <2>1, <2>2
  <1>18. \A i \in Evaluated : guesses'[i] = guesses[i]
    BY <1>15, <1>16 DEF Evaluated
  <1> QED BY <1>5, <1>7, <1>9, <1>10, <1>15, <1>16, <1>17, <1>18

LEMMA GuessIsPlayed == ASSUME Played, guess PROVE Played'
  <1>1. PICK last : last = Len(guesses) OBVIOUS
  <1>2. PICK text : text = current_guess.letters OBVIOUS
  <1>3. PICK result : result = marks(word, text) OBVIOUS
  <1>4. /\ text \in dictionary
        /\ Evaluated' = Evaluated \cup {last}
        /\ \A g \in Evaluated : guesses'[g] = guesses[g]
        /\ last \notin Evaluated
        /\ guesses'[last].letters = text /\ guesses'[last].marks = result
        /\ keyboard' = [key \in Letters |-> KeyAfter(key, text, result)]
        /\ state' = "Continue" <=> ~modal_open'
        /\ modal_open' \in BOOLEAN
        /\ state = "Continue" /\ UNCHANGED <<word, copied>>
    BY <1>1, <1>2, <1>3, GuessIsEvaluated DEF Played
  <1>5. Board' BY GuessFits DEF Played
  <1>6. Evaluations' BY <1>3, <1>4 DEF Played, Evaluations
  <1>7. result \in [1 .. WordLength -> Results]
    BY <1>3, MarksType DEF Played, Board
  <1>8. \A key \in Letters : IsBest(keyboard'[key], Had(key)')
    <2> SUFFICES ASSUME NEW key \in Letters PROVE IsBest(keyboard'[key], Had(key)')
      OBVIOUS
    <2>1. PICK had : had = Had(key) OBVIOUS
    <2>2. had \in SUBSET Results /\ IsBest(keyboard[key], had)
      BY <2>1, HadType, KeyboardIsBest DEF Played
    <2>3. Had(key)' = had \cup HadIn(text, result, key)
      BY <1>4, <2>1 DEF Had
    <2>4. IsBest(KeyAfter(key, text, result), had \cup HadIn(text, result, key))
      BY <1>7, <2>2, KeyAfterIsBest
    <2> QED BY <1>4, <2>3, <2>4
  <1>9. KeyboardShowsBest' BY <1>8, KeyboardIsBestNext
  <1>10. keyboard' \in [Letters -> Results \cup {None}]
    <2> SUFFICES ASSUME NEW key \in Letters PROVE keyboard'[key] \in Results \cup {None}
      BY <1>4
    <2>1. PICK had : had = Had(key) OBVIOUS
    <2>2. had \in SUBSET Results /\ IsBest(keyboard[key], had)
      BY <2>1, HadType, KeyboardIsBest DEF Played
    <2>3. PICK more : more = HadIn(text, result, key) OBVIOUS
    <2>4. more \in SUBSET Results BY <1>7, <2>3 DEF HadIn
    <2>5. IsBest(KeyAfter(key, text, result), had \cup more)
      BY <1>7, <2>2, <2>3, KeyAfterIsBest
    <2> QED BY <1>4, <2>2, <2>4, <2>5 DEF IsBest
  <1>11. SharedAsPlayed'
    <2>1. copied = None BY <1>4 DEF Played, SharedAsPlayed
    <2> QED BY <1>4, <2>1 DEF SharedAsPlayed
  <1> QED BY <1>4, <1>5, <1>6, <1>9, <1>10, <1>11 DEF Played

\* Typing, which is for a game that goes on: nothing was shared as yet.
LEMMA TypingIsPlayed ==
    ASSUME Played, Board', state = "Continue", NEW letters, guesses' = WithCurrent(letters),
           UNCHANGED <<word, state, keyboard, modal_open, copied>>
    PROVE  Played'
  <1>1. Evaluations' /\ KeyboardShowsBest'
    BY TypingKeepsEvaluations, KeptEvaluations DEF Played
  <1>2. copied = None BY DEF Played, SharedAsPlayed
  <1> QED BY <1>1, <1>2 DEF Played, SharedAsPlayed

\* The text that is shared: when every guess has its marks, all of them.
LEMMA SharedRows ==
    ASSUME Played, modal_open, share
    PROVE  copied' # None => copied'.rows = [g \in 1 .. Len(guesses) |-> guesses[g].marks]
                             /\ copied'.score = score
  <1>1. PICK N \in Nat : N = Len(guesses)
    BY CurrentGuess, SizesAssumption DEF Played
  <1> DEFINE result(g) == evaluate_guess(guesses[g].letters)
             Unfolded(f) == f = [g \in 0 .. Len(guesses) |->
                                    IF g = 0 THEN << >>
                                    ELSE IF result(g) = None THEN f[g - 1]
                                    ELSE Append(f[g - 1], result(g))]
             rows == CHOOSE f : Unfolded(f)
             BoardOf(n) == [g \in 1 .. n |-> result(g)]
             board == [n \in 0 .. N |-> BoardOf(n)]
  <1>2. copied' = [score |-> score, rows |-> rows[Len(guesses)]] BY DEF share
  <1>3. ASSUME NEW g \in 1 .. N
        PROVE  result(g) = guesses[g].marks /\ result(g) \in [1 .. WordLength -> Results]
    <2>1. g \in Evaluated BY <1>1 DEF Played, Board, OutcomeFollows
    <2>2. guesses[g].letters \in dictionary /\ guesses[g].marks = marks(word, guesses[g].letters)
      BY <2>1 DEF Played, Evaluations
    <2>3. result(g) = guesses[g].marks BY <2>2 DEF evaluate_guess
    <2>4. PICK text : text = guesses[g].letters OBVIOUS
    <2>5. marks(word, text) \in [1 .. WordLength -> Results]
      BY MarksType DEF Played, Board
    <2> QED BY <2>2, <2>3, <2>4, <2>5
  <1>4. ASSUME NEW g \in 1 .. N
        PROVE  Append(BoardOf(g - 1), result(g)) = BoardOf(g)
    <2>1. \A i \in 1 .. N : result(i) \in [1 .. WordLength -> Results] BY <1>3
    <2> HIDE DEF result
    <2>2. BoardOf(g - 1) \in Seq([1 .. WordLength -> Results]) /\ Len(BoardOf(g - 1)) = g - 1
      BY <2>1
    <2> QED BY <2>1, <2>2
  <1>5. \A g \in 1 .. N : result(g) # None BY <1>3, NoneAssumption
  <1>6. Unfolded(board)
    <2>1. \A g \in 0 .. N : board[g] = IF g = 0 THEN << >> ELSE Append(board[g - 1], result(g))
      <3> SUFFICES ASSUME NEW g \in 0 .. N
                   PROVE  board[g] = IF g = 0 THEN << >> ELSE Append(board[g - 1], result(g))
        OBVIOUS
      <3> HIDE DEF result
      <3>1. CASE g = 0 BY <3>1
      <3>2. CASE g # 0
        <4>1. g \in 1 .. N /\ g - 1 \in 0 .. N BY <3>2
        <4>2. board[g] = BoardOf(g) /\ board[g - 1] = BoardOf(g - 1) BY <4>1
        <4> HIDE DEF BoardOf, board
        <4> QED BY <1>4, <3>2, <4>1, <4>2
      <3> QED BY <3>1, <3>2
    <2>2. \A g \in 0 .. N : g # 0 => result(g) # None BY <1>5
    <2>3. board = [g \in 0 .. N |-> board[g]] OBVIOUS
    <2> HIDE DEF result, board
    <2> QED BY <1>1, <2>1, <2>2, <2>3
  <1>7. Unfolded(rows)
    <2> HIDE DEF Unfolded, board
    <2> QED BY <1>6
  <1> HIDE DEF rows
  <1> DEFINE S == {n \in 0 .. N : rows[n] = BoardOf(n)}
  <1>8. 0 \in S
    <2> HIDE DEF result
    <2>1. rows[0] = << >> BY <1>1, <1>7
    <2> QED BY <2>1
  <1>9. ASSUME NEW n \in 1 .. N, n - 1 \in S PROVE n \in S
    <2>1. rows[n - 1] = BoardOf(n - 1) BY <1>9
    <2>2. rows[n] = Append(rows[n - 1], result(n))
      <3>1. n \in 0 .. N /\ n # 0 /\ result(n) # None BY <1>5
      <3> HIDE DEF result
      <3> QED BY <1>1, <1>7, <3>1
    <2>3. rows[n] = BoardOf(n)
      <3> HIDE DEF BoardOf, result
      <3> QED BY <1>4, <2>1, <2>2
    <2> HIDE DEF BoardOf
    <2> QED BY <2>3
  <1>10. rows[N] = BoardOf(N)
    <2> HIDE DEF S
    <2>1. 0 .. N \subseteq S BY <1>8, <1>9, Induction
    <2>2. N \in S BY <2>1
    <2> QED BY <2>2 DEF S
  <1>11. BoardOf(N) = [g \in 1 .. N |-> guesses[g].marks]
    <2> HIDE DEF result
    <2> QED BY <1>3
  <1> HIDE DEF BoardOf
  <1> QED BY <1>1, <1>2, <1>10, <1>11

LEMMA ShareIsPlayed == ASSUME Played, share PROVE Played'
  <1>1. modal_open /\ state # "Continue" /\ UNCHANGED <<word, guesses, state, keyboard, modal_open>>
    BY DEF share, Played
  <1>2. Board' /\ Evaluations' /\ KeyboardShowsBest'
    <2>1. Evaluated' = Evaluated BY <1>1 DEF Evaluated
    <2> QED BY <1>1, <2>1, KeptEvaluations DEF Played, Board, GuessesFit, OutcomeFollows
  <1>3. score = IF guesses[Len(guesses)].letters = word THEN Len(guesses) ELSE 0
    <2>1. Len(guesses) \in 1 .. Len(guesses) BY CurrentGuess, SizesAssumption DEF Played
    <2> QED BY <1>1, <2>1 DEF score, Played, Board, OutcomeFollows
  <1>4. SharedAsPlayed' BY <1>1, <1>3, SharedRows DEF SharedAsPlayed
  <1> QED BY <1>1, <1>2, <1>4 DEF Played

LEMMA CreateIsPlayed == create => Played
  <1> SUFFICES ASSUME create PROVE Played
    OBVIOUS
  <1>1. guesses = <<EmptyGuess>> /\ EmptyGuess.marks = << >> BY DEF create, EmptyGuess
  <1>2. Evaluated = {} BY <1>1 DEF Evaluated
  <1>3. \A key : Had(key) = {} BY <1>2 DEF Had
  <1>4. KeyboardShowsBest
    BY <1>3, KeyboardIsBest DEF create, IsBest
  <1> QED BY <1>2, <1>4, CreateFits DEF create, Played, Evaluations, SharedAsPlayed

LEMMA StepIsPlayed == Played /\ [Next]_vars => Played'
  <1> SUFFICES ASSUME Played, [Next]_vars PROVE Played'
    OBVIOUS
  <1>1. Board' BY StepFits DEF Played
  <1>2. CASE type_letter BY <1>1, <1>2, TypingIsPlayed DEF type_letter
  <1>3. CASE backspace BY <1>1, <1>3, TypingIsPlayed DEF backspace
  <1>4. CASE guess BY <1>4, GuessIsPlayed
  <1>5. CASE close_modal
    <2>1. Evaluated' = Evaluated BY <1>5 DEF close_modal, Evaluated
    <2>2. Evaluations' /\ KeyboardShowsBest'
      BY <1>5, <2>1, KeptEvaluations DEF close_modal
    <2> QED BY <1>1, <1>5, <2>2 DEF close_modal, Played, SharedAsPlayed
  <1>6. CASE share BY <1>6, ShareIsPlayed
  <1>7. CASE UNCHANGED vars
    <2>1. Evaluated' = Evaluated BY <1>7 DEF vars, Evaluated
    <2>2. Evaluations' /\ KeyboardShowsBest'
      BY <1>7, <2>1, KeptEvaluations DEF vars
    <2> QED BY <1>1, <1>7, <2>2 DEF vars, Played, SharedAsPlayed
  <1> QED BY <1>2, <1>3, <1>4, <1>5, <1>6, <1>7 DEF Next

LEMMA AlwaysPlayed == Spec => []Played
  BY CreateIsPlayed, StepIsPlayed, PTL DEF Spec

\* Every variable keeps its type, the keyboard among them.
THEOREM TypeCorrect == Spec => []TypeOK
  <1>1. Played => TypeOK BY DEF Played, Board, TypeOK
  <1> QED BY <1>1, AlwaysPlayed, PTL

\* The word of the day is one the player may guess, whatever the list of words
\* says of infinitives, brackets and question marks.
THEOREM WordAlwaysInDictionary == Spec => []WordInDictionary
  <1>1. Played => WordInDictionary BY TargetsAreInTheDictionary DEF Played, WordInDictionary
  <1> QED BY <1>1, AlwaysPlayed, PTL

\* Whatever word is guessed for whatever word: a letter is marked as often as
\* the word has it, in its place first and then from the left.
THEOREM MarksAlwaysCountLetters == Spec => []MarksCountLetters
  <1>1. Played => MarksCountLetters
    <2> SUFFICES ASSUME Played, NEW g \in Evaluated, NEW i \in 1 .. WordLength
                 PROVE  LET text == guesses[g].letters
                            misplaced == {j \in 1 .. WordLength : text[j] # word[j]}
                            Before(k) == {j \in misplaced : j < k /\ text[j] = text[k]}
                            Wanted(k) == {j \in misplaced : word[j] = text[k]}
                        IN  guesses[g].marks[i] =
                                IF i \notin misplaced THEN "Correct"
                                ELSE IF Cardinality(Before(i)) < Cardinality(Wanted(i))
                                THEN "WrongPlace" ELSE "Incorrect"
      BY DEF MarksCountLetters
    <2>1. PICK text \in Texts : text = guesses[g].letters
      BY WordsAreTexts DEF Played, Evaluations
    <2>2. guesses[g].marks = Counted(word, text)
      BY <2>1, MarksAreCounted DEF Played, Evaluations, Board
    <2> DEFINE t == guesses[g].letters
               misplaced == {j \in 1 .. WordLength : t[j] # word[j]}
               before == {j \in misplaced : j < i /\ t[j] = t[i]}
               wanted == {j \in misplaced : word[j] = t[i]}
    <2>3. misplaced = Misplaced(word, text)
      BY <2>1 DEF Misplaced
    <2>4. before = AskedIn(word, text, text[i], i - 1) /\ wanted = WantedIn(word, text, text[i])
      BY <2>1, SizesAssumption DEF AskedIn, WantedIn, Misplaced
    <2>5. guesses[g].marks[i] = IF i \notin misplaced THEN "Correct"
                                ELSE IF Cardinality(before) < Cardinality(wanted)
                                THEN "WrongPlace" ELSE "Incorrect"
      <3> HIDE DEF misplaced, before, wanted
      <3> QED BY <2>2, <2>3, <2>4 DEF Counted
    <2> QED BY <2>5
  <1> QED BY <1>1, AlwaysPlayed, PTL

\* A key shows the best its letter had, in whatever order that came.
THEOREM KeyboardAlwaysShowsBest == Spec => []KeyboardShowsBest
  <1>1. Played => KeyboardShowsBest BY DEF Played
  <1> QED BY <1>1, AlwaysPlayed, PTL

\* What is shared is the board, mark for mark, and the score of the game.
THEOREM AlwaysSharedAsPlayed == Spec => []SharedAsPlayed
  <1>1. Played => SharedAsPlayed BY DEF Played
  <1> QED BY <1>1, AlwaysPlayed, PTL
=============================================================================
