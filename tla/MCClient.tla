------------------------------ MODULE MCClient ------------------------------
(* Finite instances of Client. *)
EXTENDS Client
=============================================================================
