----------------------------- MODULE MCSession ------------------------------
(* Finite instances of Session. *)
EXTENDS Session
=============================================================================
