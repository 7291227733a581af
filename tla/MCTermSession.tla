---------------------------- MODULE MCTermSession ----------------------------
(* Instances of TermSession for TLC. *)
EXTENDS TermSession
===============================================================================
