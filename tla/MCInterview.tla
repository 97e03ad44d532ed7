----------------------------- MODULE MCInterview -----------------------------
(***************************************************************************)
(* Interview for TLC.                                                      *)
(***************************************************************************)
EXTENDS Interview

\* Requests are told apart by nothing but their kind, chosen on arrival.
Symmetry == Permutations(Requests)

=============================================================================
