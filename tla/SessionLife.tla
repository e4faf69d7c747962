------------------------------ MODULE SessionLife ------------------------------
(***************************************************************************)
(* What a session promises to whoever keeps it, the server with its maps   *)
(* or the application with its context: a session goes one way, it is      *)
(* closed before its handlers are told of the end, they are told once, and *)
(* only then is it let go of.  Session implements this for one session,    *)
(* Server relies on it for many.                                           *)
(***************************************************************************)
VARIABLE stage

Stages == {"open", "closing", "closed", "told", "gone"}

Init == stage = "open"

(* close() was called, or an operation failed *)
Ask   == stage = "open" /\ stage' = "closing"
(* the socket is closed, but not every handler has returned *)
Shut  == stage \in {"open", "closing"} /\ stage' = "closed"
(* fire_closed, by who closes the socket or by who comes last *)
Tell  == stage \in {"closing", "closed"} /\ stage' = "told"
(* close_handler_ *)
LetGo == stage = "told" /\ stage' = "gone"

Next == Ask \/ Shut \/ Tell \/ LetGo
Spec == Init /\ [][Next]_stage
=============================================================================
