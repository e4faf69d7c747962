------------------------------ MODULE MCServer ------------------------------
(* A finite instance of Server: the threads of the pools by name. *)
EXTENDS Server

CONSTANTS io1, work1, work2

OneIo   == <<io1>>
TwoWork == <<work1, work2>>
=============================================================================
