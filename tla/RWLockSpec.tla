----------------------------- MODULE RWLockSpec -----------------------------
(***************************************************************************)
(* What a lock named "wfirst" (writers first) promises to its callers:     *)
(* shared readers, one exclusive writer, and no reader admitted while a    *)
(* writer is in or wants in.  It says nothing of mutexes, counters or      *)
(* condition variables.  WFirstRWLock is shown to implement it.            *)
(***************************************************************************)

CONSTANT Threads

VARIABLES readers,   \* the threads inside a read section
          writers,   \* the threads inside a write section
          wanting    \* the threads that asked for a write section

vars == <<readers, writers, wanting>>

Outside(t) == t \notin readers \cup writers \cup wanting

Init == readers = {} /\ writers = {} /\ wanting = {}

EnterRead(t) ==
    /\ Outside(t)
    /\ writers = {} /\ wanting = {}
    /\ readers' = readers \cup {t}
    /\ UNCHANGED <<writers, wanting>>

LeaveRead(t) ==
    /\ t \in readers
    /\ readers' = readers \ {t}
    /\ UNCHANGED <<writers, wanting>>

WantWrite(t) ==
    /\ Outside(t)
    /\ wanting' = wanting \cup {t}
    /\ UNCHANGED <<readers, writers>>

EnterWrite(t) ==
    /\ t \in wanting \/ Outside(t)
    /\ readers = {} /\ writers = {}
    /\ writers' = {t}
    /\ wanting' = wanting \ {t}
    /\ UNCHANGED readers

LeaveWrite(t) ==
    /\ t \in writers
    /\ writers' = {}
    /\ UNCHANGED <<readers, wanting>>

Next == \E t \in Threads :
    EnterRead(t) \/ LeaveRead(t) \/ WantWrite(t) \/ EnterWrite(t) \/ LeaveWrite(t)

Spec == Init /\ [][Next]_vars
=============================================================================
