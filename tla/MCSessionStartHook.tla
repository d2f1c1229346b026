------------------------- MODULE MCSessionStartHook -------------------------
(* The instances of SessionStartHook are given by numbers alone.           *)
EXTENDS SessionStartHook
=============================================================================
