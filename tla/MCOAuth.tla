------------------------------- MODULE MCOAuth -------------------------------
(***************************************************************************)
(* One account, one client of one device; every row is interchangeable.    *)
(***************************************************************************)
EXTENDS OAuth, TLC

\* Interchangeable identifiers.
MCSymmetry == Permutations(Browsers) \cup Permutations(Sessions)
              \cup Permutations(Studios) \cup Permutations(Codes)
              \cup Permutations(Pairs) \cup Permutations(Requests)
=============================================================================
