------------------------------- MODULE WordList -------------------------------
(***************************************************************************)
(* What whoever opens the list of all words is promised                    *)
(* (TantivyClient::get_all_words_html), with no cache, no lock and no      *)
(* actors: every list is the dictionary as it was published at some time,  *)
(* not before the last time it was forgotten, and not before the list that *)
(* somebody was shown last.                                                *)
(***************************************************************************)
EXTENDS Naturals

VARIABLES
    published,   \* the newest version of the dictionary there is to read
    forgotten,   \* the version there was when lists were last forgotten
    shown        \* the version that was shown last

listVars == <<published, forgotten, shown>>

Init ==
    /\ published = 1
    /\ forgotten = 1
    /\ shown = 0

Publish ==
    /\ published' \in Nat /\ published' > published
    /\ UNCHANGED <<forgotten, shown>>

Forget ==
    /\ forgotten' = published
    /\ UNCHANGED <<published, shown>>

Show ==
    /\ shown' \in forgotten .. published
    /\ shown' >= shown
    /\ UNCHANGED <<published, forgotten>>

\* The program is started again.
Restart ==
    /\ published' \in Nat /\ published' >= published
    /\ forgotten' = published'
    /\ UNCHANGED shown

Next == Publish \/ Forget \/ Show \/ Restart

Spec == Init /\ [][Next]_listVars
=============================================================================
