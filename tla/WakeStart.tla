----------------------------- MODULE WakeStart -----------------------------
(***************************************************************************)
(* One call of CLI.StartWake (internal/amq/runner.go): the calling         *)
(* goroutine, the goroutine that reaps the wake process, the process       *)
(* itself, the ready file they share, the timer and the context.  Any      *)
(* number of them can happen between two steps of another.                 *)
(*                                                                         *)
(* Definitions marked "Mutant" are wrong variants which no specification   *)
(* uses; they confirm that the properties notice the mistake.              *)
(***************************************************************************)
VARIABLES
    pc,         \* where the caller is
    outcome,    \* "none", or what the call returned
    processDone,\* waitForWakeReady's first result
    child,      \* external: "unborn", "running", "exited"
    published,  \* external: whether the process published readiness
    file,       \* whether the ready file exists
    reaper,     \* where the reaping goroutine is
    sawReady,   \* what the reaper saw of the ready file
    done,       \* the buffered channel: "empty", "ready", "unready", "taken"
    timedOut, cancelled,
    early       \* history: published before the wait was given up

vars == <<pc, outcome, processDone, child, published, file, reaper, sawReady,
          done, timedOut, cancelled, early>>
process == <<child, published>>
reaping == <<reaper, sawReady>>
clocks == <<timedOut, cancelled>>

TypeOK ==
    /\ pc \in {"check", "spawn", "poll", "select", "recheck", "drain", "clean", "done",
               "dead"}
    /\ outcome \in {"none", "ready", "failed", "uncertain"}
    /\ child \in {"unborn", "running", "exited"}
    /\ reaper \in {"none", "wait", "stat", "remove", "send", "done"}
    /\ done \in {"empty", "ready", "unready", "taken"}
    /\ {processDone, published, file, sawReady, timedOut, cancelled, early} \subseteq BOOLEAN

Init ==
    /\ pc = "check" /\ outcome = "none" /\ processDone = FALSE
    /\ child = "unborn" /\ published = FALSE /\ file = FALSE
    /\ reaper = "none" /\ sawReady = FALSE /\ done = "empty"
    /\ timedOut = FALSE /\ cancelled = FALSE /\ early = FALSE

Return(o) == pc' = "done" /\ outcome' = o

-----------------------------------------------------------------------------
(* The caller.                                                             *)

(* The request and baseline checks, and the preparation of the ready path. *)
Check ==
    /\ pc = "check"
    /\ \/ pc' = "spawn" /\ UNCHANGED outcome
       \/ Return("failed")
    /\ UNCHANGED <<processDone, process, file, reaping, done, clocks, early>>

Spawn ==
    /\ pc = "spawn"
    /\ ~cancelled
    /\ pc' = "poll"
    /\ child' = "running"
    /\ reaper' = "wait"
    /\ UNCHANGED <<outcome, processDone, published, file, sawReady, done, clocks, early>>

SpawnFailed ==
    /\ pc = "spawn"
    /\ file' = FALSE
    /\ Return("failed")
    /\ UNCHANGED <<processDone, process, reaping, done, clocks, early>>

(* The look at the ready file at the head of waitForWakeReady's loop.      *)
Poll ==
    /\ pc = "poll"
    /\ pc' = IF file THEN "clean" ELSE "select"
    /\ UNCHANGED <<outcome, processDone, process, file, reaping, done, clocks, early>>

Tick ==
    /\ pc = "select"
    /\ pc' = "poll"
    /\ UNCHANGED <<outcome, processDone, process, file, reaping, done, clocks, early>>

(* The reaper's result arrives while the caller waits.                     *)
ReceiveDone ==
    /\ pc = "select"
    /\ done \in {"ready", "unready"}
    /\ done' = "taken"
    /\ processDone' = TRUE
    /\ pc' = IF done = "ready" \/ file THEN "clean" ELSE "recheck"
    /\ UNCHANGED <<outcome, process, file, reaping, clocks, early>>

(* Mutant: the wait has no timer of its own.                               *)
GiveUpWhenCancelled ==
    /\ pc = "select"
    /\ cancelled
    /\ pc' = "recheck"
    /\ early' = published
    /\ UNCHANGED <<outcome, processDone, process, file, reaping, done, clocks>>

(* The wait is given up: the timer fired or the context ended.             *)
GiveUp ==
    /\ pc = "select"
    /\ timedOut \/ cancelled
    /\ pc' = "recheck"
    /\ early' = published
    /\ UNCHANGED <<outcome, processDone, process, file, reaping, done, clocks>>

(* Mutant: giving up is final.                                             *)
RecheckNothing ==
    /\ pc = "recheck"
    /\ Return("failed")
    /\ UNCHANGED <<processDone, process, file, reaping, done, clocks, early>>

(* The last look at the file, after the wait ended in an error.            *)
Recheck ==
    /\ pc = "recheck"
    /\ IF file THEN Return("ready") /\ file' = FALSE
               ELSE pc' = "drain" /\ UNCHANGED <<outcome, file>>
    /\ UNCHANGED <<processDone, process, reaping, done, clocks, early>>

(* The non-blocking receive, and the decision.                             *)
Drain ==
    /\ pc = "drain"
    /\ IF processDone THEN Return("failed") /\ UNCHANGED <<processDone, done>>
       ELSE CASE done = "ready" -> Return("ready") /\ done' = "taken" /\ processDone' = TRUE
              [] done = "unready" -> Return("failed") /\ done' = "taken" /\ processDone' = TRUE
              [] OTHER -> Return("uncertain") /\ UNCHANGED <<processDone, done>>
    /\ UNCHANGED <<process, file, reaping, clocks, early>>

(* Mutant: an acknowledged ready file is left behind.                      *)
CleanNothing ==
    /\ pc = "clean"
    /\ Return("ready")
    /\ UNCHANGED <<processDone, process, file, reaping, done, clocks, early>>

(* The ready file has served.                                              *)
Clean ==
    /\ pc = "clean"
    /\ file' = FALSE
    /\ Return("ready")
    /\ UNCHANGED <<processDone, process, reaping, done, clocks, early>>

-----------------------------------------------------------------------------
(* The goroutine that waits for the process, looks whether it had become   *)
(* ready, removes the file and reports.                                    *)
caller == <<pc, outcome, processDone, early>>

Wait ==
    /\ reaper = "wait" /\ child = "exited"
    /\ reaper' = "stat"
    /\ UNCHANGED <<caller, process, file, sawReady, done, clocks>>

(* Mutant: the file is removed before it is looked at.                     *)
StatLate ==
    /\ reaper = "stat"
    /\ file' = FALSE
    /\ sawReady' = FALSE
    /\ reaper' = "remove"
    /\ UNCHANGED <<caller, process, done, clocks>>

Stat ==
    /\ reaper = "stat"
    /\ sawReady' = file
    /\ reaper' = "remove"
    /\ UNCHANGED <<caller, process, file, done, clocks>>

Remove ==
    /\ reaper = "remove"
    /\ file' = FALSE
    /\ reaper' = "send"
    /\ UNCHANGED <<caller, process, sawReady, done, clocks>>

(* Mutant: the error of Wait is passed on as it is.                        *)
SendRaw ==
    /\ reaper = "send"
    /\ done' = "exited"
    /\ reaper' = "done"
    /\ UNCHANGED <<caller, process, file, sawReady, clocks>>

Send ==
    /\ reaper = "send"
    /\ done' = IF sawReady THEN "ready" ELSE "unready"
    /\ reaper' = "done"
    /\ UNCHANGED <<caller, process, file, sawReady, clocks>>

-----------------------------------------------------------------------------
(* External: the wake process, the clock and whoever cancels the context.  *)
Publish ==
    /\ child = "running" /\ ~published
    /\ published' = TRUE
    /\ file' = TRUE
    /\ UNCHANGED <<caller, child, reaping, done, clocks>>

Exit ==
    /\ child = "running"
    /\ child' = "exited"
    /\ UNCHANGED <<caller, published, file, reaping, done, clocks>>

Timeout ==
    /\ pc \in {"poll", "select"} /\ ~timedOut
    /\ timedOut' = TRUE
    /\ UNCHANGED <<caller, process, file, reaping, done, cancelled>>

Cancel ==
    /\ ~cancelled
    /\ cancelled' = TRUE
    /\ UNCHANGED <<caller, process, file, reaping, done, timedOut>>

(* The process that made the call ends, after it or in the middle, and the *)
(* reaper with it; the wake process goes on.                               *)
Die ==
    /\ pc # "dead"
    /\ pc' = "dead"
    /\ reaper' = "done"
    /\ UNCHANGED <<outcome, processDone, early, process, file, sawReady, done, clocks>>

(* Mutant: only markers whose wake is gone are old.                        *)
ScavengeExited ==
    /\ pc \in {"done", "dead"} /\ file /\ child = "exited"
    /\ file' = FALSE
    /\ UNCHANGED <<caller, process, reaping, done, clocks>>

(* A later start finds a marker that is a day old.  That a marker grows as *)
(* old while its caller waits for it is left out.                          *)
Scavenge ==
    /\ pc \in {"done", "dead"} /\ file
    /\ file' = FALSE
    /\ UNCHANGED <<caller, process, reaping, done, clocks>>

(* The reaper may go on after the call.                                    *)
Terminating == pc \in {"done", "dead"} /\ UNCHANGED vars

CallerStep ==
    \/ Check \/ Spawn \/ SpawnFailed \/ Poll \/ Tick \/ ReceiveDone \/ GiveUp
    \/ Recheck \/ Drain \/ Clean

ReaperStep == Wait \/ Stat \/ Remove \/ Send

Next ==
    \/ CallerStep \/ ReaperStep
    \/ Publish \/ Exit \/ Timeout \/ Cancel \/ Die \/ Scavenge
    \/ Terminating

Spec == Init /\ [][Next]_vars

(* The caller runs, its timer fires in the end, and a select whose timer   *)
(* has fired does not choose the ticker for ever.  Starts are made again.  *)
FairSpec ==
    /\ Spec
    /\ WF_vars(CallerStep) /\ WF_vars(ReaperStep)
    /\ WF_vars(Timeout) /\ SF_vars(GiveUp)
    /\ WF_vars(Scavenge)

-----------------------------------------------------------------------------
(* Properties.                                                             *)

Phase ==
    CASE child = "unborn" -> "unborn"
      [] child = "running" -> IF published THEN "ready" ELSE "running"
      [] child = "exited" -> IF published THEN "exited" ELSE "failed"

Contract == INSTANCE WakeOutcome WITH process <- Phase

(* A returned success means that the wake has published, a returned plain  *)
(* failure that it never will, in every race of the file, the reaper, the  *)
(* timer and the context.                                                  *)
ImplementsWakeOutcome == Contract!WOSpec

(* A call that knows how its wake ended up leaves no ready file behind,    *)
(* whoever of the caller and the reaper got to it first.  One that was     *)
(* given up or died does, if its wake becomes ready later; that file is    *)
(* gone in the end, although its wake may live on.                         *)
NoMarkerLeft == [](outcome \in {"ready", "failed"} => ~file) /\ []<>~file

(* The call returns although the wake may never publish nor exit, unless   *)
(* its process ends.                                                       *)
Returns == <>(outcome # "none" \/ pc = "dead")

(* "Readiness wins a cancellation/timeout race": a wake that had published *)
(* when the wait was given up is reported ready.  The reaper breaks it: it *)
(* removes the file before it reports.                                     *)
ReadinessWins == outcome = "uncertain" => ~early
=============================================================================
