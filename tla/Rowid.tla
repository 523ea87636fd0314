------------------------------- MODULE Rowid --------------------------------
(* The key SQLite gives a row of a table whose INTEGER PRIMARY KEY is not    *)
(* AUTOINCREMENT: one more than the largest in the table now, so that the    *)
(* key of a deleted row is given out again.                                  *)
EXTENDS Naturals

NextKey(ids) ==
    CHOOSE n \in {1} \cup {i + 1 : i \in ids} : \A i \in ids : i < n
=============================================================================
