--------------------------- MODULE MCTimerManager ---------------------------
(* Instances of TimerManager for TLC: the constants are given in the cfg files. *)
EXTENDS TimerManager
=============================================================================
