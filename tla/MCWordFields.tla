---------------------------- MODULE MCWordFields ----------------------------
(* Words and values of their columns, for TLC.                              *)
EXTENDS WordFields, TLC

Symmetry == Permutations(Threads)

\* A plural noun and a conjunction.
PluralNoun ==
    [english |-> "a", is_plural |-> TRUE, is_informal |-> FALSE,
     part_of_speech |-> "noun", noun_class |-> "izi", followed_by |-> None]
InformalConjunction ==
    [english |-> "a", is_plural |-> FALSE, is_informal |-> TRUE,
     part_of_speech |-> "conjunction", noun_class |-> None, followed_by |-> "indicative"]
MCInitialWords == {PluralNoun, InformalConjunction}
MCNewWords == {[PluralNoun EXCEPT !.english = "b"], InformalConjunction}
=============================================================================
