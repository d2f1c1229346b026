---------------------------- MODULE WakeOutcome ----------------------------
(***************************************************************************)
(* What CLI.StartWake (internal/amq/runner.go) promises its caller about   *)
(* the one wake process it may start, and what Registration relies on:     *)
(* "ready" and "failed" are certain, anything else is "uncertain".         *)
(***************************************************************************)
VARIABLES
    process,    \* the wake process, as AMQ sees it
    outcome     \* what StartWake has returned

WOInit == process = "unborn" /\ outcome = "none"

Spawned == process = "unborn" /\ outcome = "none" /\ process' = "running"
Published == process = "running" /\ process' = "ready"
Gone == \/ process = "running" /\ process' = "failed"
        \/ process = "ready" /\ process' = "exited"

ProcessMoves == (Spawned \/ Published \/ Gone) /\ UNCHANGED outcome

(* Ready: the process has published.  Failed: it will never publish.       *)
Return ==
    /\ outcome = "none"
    /\ \/ outcome' = "ready" /\ process \in {"ready", "exited"}
       \/ outcome' = "failed" /\ process \in {"unborn", "failed"}
       \/ outcome' = "uncertain" /\ process # "unborn"
    /\ UNCHANGED process

WOSpec == WOInit /\ [][ProcessMoves \/ Return]_<<process, outcome>>
=============================================================================
