----------------------------- MODULE MCProcess -----------------------------
(***************************************************************************)
(* Process for TLC. The options an execution mentions come in groups that  *)
(* have to do with each other: the service's address and family, the log,  *)
(* and each program's step mode and numbers.                               *)
(***************************************************************************)
EXTENDS Process
=============================================================================
