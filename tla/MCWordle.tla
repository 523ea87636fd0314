------------------------------ MODULE MCWordle ------------------------------
(* Words of three letters, for TLC.                                         *)
EXTENDS Wordle, TLC

\* Words of three letters, and words that become words of three.
Singular(xhosa, infinitive) == [xhosa |-> xhosa, infinitive |-> infinitive, is_plural |-> FALSE]
MCRecords ==
    {Singular(w, << >>) : w \in {v \in [1 .. 3 -> {"a", "b", "i"}] : v[2] # "i"} \ {<<"a", "a", "b">>}}
    \cup {Singular(<<"a", "a", "?", "b">>, <<"b", "a", "b">>),
          Singular(<<"(i)", "b", "-">>, << >>),
          Singular(<<"b">>, <<"i", "b", "a">>),
          Singular(<<"e'", "b">>, <<"b", "b", "b">>),
          [xhosa |-> <<"i", "i", "i">>, infinitive |-> << >>, is_plural |-> TRUE]}
=============================================================================
