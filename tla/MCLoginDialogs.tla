---------------------------- MODULE MCLoginDialogs ---------------------------
(* Instances of LoginDialogs for TLC. *)
EXTENDS LoginDialogs
===============================================================================
