---------------------------- MODULE MCTimerWheel ----------------------------
(* Small instances of TimerWheel for TLC: wheels of three slots, a jiffy of 2. *)
EXTENDS TimerWheel
=============================================================================
