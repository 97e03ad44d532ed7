--------------------------- MODULE MCProjectServer ---------------------------
(***************************************************************************)
(* ProjectServer for TLC.                                                  *)
(***************************************************************************)
EXTENDS ProjectServer, TLC

\* Requests are told apart by nothing but their kind, chosen on arrival.
Symmetry == Permutations(Requests)

=============================================================================
