------------------------------ MODULE MCCsptp ------------------------------
(***************************************************************************)
(* Csptp for TLC.                                                          *)
(***************************************************************************)
EXTENDS Csptp

CONSTANTS c1, c2 \* clients
=============================================================================
