------------------------------ MODULE Decisions ------------------------------
(***************************************************************************)
(* What becomes of a suggested word, with no tables, threads or pages: it  *)
(* waits until it is decided on, once.  A suggestion of a new word becomes *)
(* one word or none; one of an edit is settled whichever way it goes.      *)
(* Suggestions that two requests are about at once, that one was cut short *)
(* on, or that an old form inserted again after the decision, are lost     *)
(* track of: nothing is promised of them.                                  *)
(***************************************************************************)
EXTENDS Naturals

VARIABLES
    last,    \* the largest number a suggestion was given
    open,    \* suggestions that wait for a decision
    became,  \* which word a suggestion became: <<word, suggestion>>
    lost     \* suggestions that were lost track of

decisionVars == <<last, open, became, lost>>

Init ==
    /\ last \in Nat
    /\ open \subseteq 1 .. last
    /\ became = {}
    /\ lost = {}

\* What is left of it when track of some is lost.
Track(waiting, words) ==
    /\ lost \subseteq lost' /\ lost' \subseteq 1 .. last'
    /\ open' = waiting \ lost'
    /\ became' = {p \in words : p[2] \notin lost'}

\* A suggestion comes under a number that none has had.
Suggest ==
    /\ last' = last + 1
    /\ Track(open \cup {last'}, became)

\* One that waits becomes a word, which no other has become.
Accept ==
    /\ UNCHANGED last
    /\ \E p \in became' :
          /\ p[2] \in open
          /\ \A q \in became : q[1] # p[1]
          /\ Track(open \ {p[2]}, became \cup {p})

\* Some are rejected, or are edits that are accepted or go with their word.
Settle ==
    /\ UNCHANGED last
    /\ \E S \in SUBSET open : Track(open \ S, became)

Next == Suggest \/ Accept \/ Settle

Spec == Init /\ [][Next]_decisionVars
=============================================================================
