------------------------------- MODULE MCMsg -------------------------------
(* Msg for TLC. Clients differ in their options only, which Init ranges     *)
(* over, so they may be permuted.                                           *)
EXTENDS Msg, TLC

ClientSymmetry == Permutations(Clients)
=============================================================================
