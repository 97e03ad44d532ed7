----------------------------- MODULE MCFrontDoor -----------------------------
(***************************************************************************)
(* FrontDoor for TLC: two browsers, two requests, one account.             *)
(***************************************************************************)
EXTENDS FrontDoor, TLC

Symmetry == Permutations(Browsers) \cup Permutations(Requests)
=============================================================================
