--------------------------- MODULE MCWFirstRWLock ---------------------------
(* A finite instance of WFirstRWLock; its threads are model values.        *)
EXTENDS WFirstRWLock
=============================================================================
