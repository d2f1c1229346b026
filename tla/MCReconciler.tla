---------------------------- MODULE MCReconciler ----------------------------
(* The instances of Reconciler are given by numbers alone.                 *)
EXTENDS Reconciler
=============================================================================
