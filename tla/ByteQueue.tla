----------------------------- MODULE ByteQueue ------------------------------
(***************************************************************************)
(* What a buffer between a socket and its handlers promises: the bytes     *)
(* leave it as they came, in that order, each once.  The producer counts   *)
(* through 1..Values, so that a lost, repeated or displaced byte shows.    *)
(* AsioBuffer implements it.                                               *)
(***************************************************************************)
EXTENDS Integers, Sequences

CONSTANTS Values,    \* a byte is one of 1..Values
          MaxLen     \* the most bytes that one operation moves

VARIABLES bytes,     \* the bytes inside, oldest first
          next       \* what the producer has counted to, less one

vars == <<bytes, next>>

Init == bytes = <<>> /\ next = 0

Put(n) ==
    /\ bytes' = bytes \o [i \in 1..n |-> ((next + i - 1) % Values) + 1]
    /\ next' = (next + n) % Values

Get(n) ==
    /\ n <= Len(bytes)
    /\ bytes' = SubSeq(bytes, n + 1, Len(bytes))
    /\ UNCHANGED next

Next == \E n \in 0..MaxLen : Put(n) \/ Get(n)

Spec == Init /\ [][Next]_vars
=============================================================================
