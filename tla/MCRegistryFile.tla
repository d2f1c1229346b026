--------------------------- MODULE MCRegistryFile ---------------------------
(* One process with two transactions and a reader, and an update of        *)
(* another process, so that every lock is contended.                       *)
EXTENDS RegistryFile, TLC

CONSTANTS p, q, p1, p2, q1, p3

MCProcOf == p1 :> p @@ p2 :> p @@ q1 :> q @@ p3 :> p
MCCall == p1 :> "transaction" @@ p2 :> "transaction" @@ q1 :> "update" @@ p3 :> "load"
=============================================================================
