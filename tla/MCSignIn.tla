------------------------------ MODULE MCSignIn ------------------------------
(* Small sets of people, browsers and requests for TLC.                      *)
EXTENDS SignIn, TLC

Symmetry == Permutations(Threads) \cup Permutations(Browsers) \cup Permutations(People)
=============================================================================
