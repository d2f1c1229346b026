---------------------------- MODULE MCWakeStart ----------------------------
(* WakeStart has no constants: TLC checks it as it is.                     *)
EXTENDS WakeStart
=============================================================================
