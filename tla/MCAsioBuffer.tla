---------------------------- MODULE MCAsioBuffer ----------------------------
(* Finite instances of AsioBuffer. *)
EXTENDS AsioBuffer
=============================================================================
