---------------------------- MODULE MCTimerWheel ----------------------------
(* A finite instance of TimerWheel. *)
EXTENDS TimerWheel
=============================================================================
