---------------------------- MODULE MCLiveSearch ----------------------------
(* A page with a search box and a linked word, for TLC.                     *)
EXTENDS LiveSearch
=============================================================================
