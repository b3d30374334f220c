----------------------------- MODULE MCThrottle -----------------------------
(* The constants are plain numbers.                                           *)
EXTENDS Throttle
=============================================================================
