---------------------------- MODULE MCSearchIndex ----------------------------
(* A small dictionary, two pages and two changes at a time, for TLC.        *)
EXTENDS SearchIndex
=============================================================================
