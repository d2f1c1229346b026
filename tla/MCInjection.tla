---------------------------- MODULE MCInjection ----------------------------
(* Two wakes and three surfaces, so that one may be an alias of either, on *)
(* two devices, each spelled one way (MCCmuxOwnership has another).        *)
EXTENDS Injection

CONSTANTS w1, w2, A, B, C

MCServes == [w \in Wakes |-> IF w = w1 THEN A ELSE B]
MCDevice == [y \in TTYs |-> y]
=============================================================================
