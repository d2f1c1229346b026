----------------------------- MODULE Reconciler -----------------------------
(***************************************************************************)
(* One registry row over time: the verdicts of supervisor.Reconciler       *)
(* (internal/supervisor/supervisor.go) in the passes of `supervise`, the   *)
(* commands that write the row in between, the `gc` report, which reads it *)
(* without the lease, and a terminal and a wake that come and go.          *)
(*                                                                         *)
(* Every verdict is given while holding the lease (module Registration),   *)
(* so that it is one step here.  Times are kept relative to now: a         *)
(* deadline is the time that is left until it, and DetachedSince is the    *)
(* time that has passed since then.                                        *)
(*                                                                         *)
(* Definitions marked "Mutant" are wrong variants which no specification   *)
(* uses; they confirm that the properties notice the mistake.              *)
(***************************************************************************)
EXTENDS Integers

CONSTANTS
    BackoffBase, BackoffMax,                    \* after a failure
    DetachedBackoffBase, DetachedBackoffMax,    \* after "target not found"
    ActiveCheckInterval,
    MinDetachedAge, \* of gc
    MaxFailures,    \* bound: FailureCount saturates here
    Zero            \* the zero time

AtLeast(n, m) == IF n < m THEN m ELSE n
AtMost(n, m) == IF n > m THEN m ELSE n

(* Bound: since is not counted any further.                                *)
LongestWait == AtLeast(ActiveCheckInterval, DetachedBackoffMax)

(* MaxFailures is enough for both delays to have reached their maximum.    *)
ASSUME ReconcilerAssumption ==
    /\ {BackoffBase, BackoffMax, DetachedBackoffBase, DetachedBackoffMax,
        ActiveCheckInterval, MinDetachedAge, MaxFailures} \subseteq Nat \ {0}
    /\ BackoffMax <= DetachedBackoffMax
    /\ BackoffBase * 2 ^ (MaxFailures - 1) >= BackoffMax
    /\ DetachedBackoffBase * 2 ^ (MaxFailures - 1) >= DetachedBackoffMax
    /\ Zero \notin Int

VARIABLES
    state,          \* "attached", "active", "detached"
    failures,       \* FailureCount
    check,          \* NextHealthCheck
    backoff,        \* BackoffUntil
    age,            \* DetachedSince
    target,         \* external: "there", "gone", or "unclear"
    wake,           \* external: whether a wake comes up when one is started
    users,          \* external: whether anyone still runs commands
    gc,             \* "idle", "loaded" a row old enough, "candidate"
    spotted,        \* history: who found the target not gone since DetachedSince
    misses,         \* history: the verdicts on the row, since it was registered
                    \* or active, that were failures, of whatever kind
    since           \* history: the time since the last verdict on the row

row == <<state, failures, check, backoff, age>>
env == <<target, wake, users>>
verdicts == <<misses, since>>
vars == <<row, env, gc, spotted, verdicts>>

Left(max) == {Zero} \cup 0 .. max

TypeOK ==
    /\ state \in {"attached", "active", "detached"}
    /\ failures \in 0 .. MaxFailures
    /\ check \in Left(ActiveCheckInterval)
    /\ backoff \in Left(DetachedBackoffMax)
    /\ age \in Left(MinDetachedAge)
    /\ target \in {"there", "gone", "unclear"}
    /\ wake \in {"ready", "failing"}
    /\ users \in BOOLEAN
    /\ gc \in {"idle", "loaded", "candidate"}
    /\ spotted \subseteq {"pass", "reattach", "gc"}
    /\ misses \in 0 .. MaxFailures
    /\ since \in 0 .. LongestWait

(* The row that register saves: attached, everything else zero.            *)
Fresh ==
    /\ state' = "attached"
    /\ failures' = 0
    /\ check' = Zero /\ backoff' = Zero /\ age' = Zero

Init ==
    /\ state = "attached" /\ failures = 0
    /\ check = Zero /\ backoff = Zero /\ age = Zero
    /\ target = "there" /\ wake \in {"ready", "failing"}
    /\ users = TRUE
    /\ gc = "idle" /\ spotted = {}
    /\ misses = 0 /\ since = 0

-----------------------------------------------------------------------------
(* Delays.                                                                 *)

(* Mutant: the jittered delay is not cut off.                              *)
JitterUncut(delay, max) == (delay - delay \div 5) .. (delay + delay \div 5)

(* Mutant: the window is the delay, not a fifth of it.                     *)
JitterWide(delay, max) == {AtMost(AtLeast(d, 0), max) : d \in 0 .. 2 * delay}

(* The delays that jitter may return for delay.                            *)
Jitter(delay, max) ==
    {AtMost(AtLeast(d, 0), max) :
        d \in (delay - delay \div 5) .. (delay + delay \div 5)}

(* base, doubled with every failure after the first, and never above max,  *)
(* where it is not jittered any more.                                      *)
ExponentialBackoff(n, base, max) ==
    LET delay == base * 2 ^ (n - 1)
    IN IF delay > max \/ (n > 1 /\ delay = max) THEN {max}
                                                ELSE Jitter(delay, max)

FailureBackoff(n) == ExponentialBackoff(n, BackoffBase, BackoffMax)
DetachedBackoff(n) ==
    ExponentialBackoff(n, DetachedBackoffBase, DetachedBackoffMax)

-----------------------------------------------------------------------------
(* Verdicts on the row, reached after n failures in a row.                 *)

(* Mutant: a failure is retried as slowly as a missing target.             *)
MarkBackoffSlow(n) ==
    /\ state' = "attached"
    /\ failures' = AtMost(n + 1, MaxFailures)
    /\ backoff' \in DetachedBackoff(failures')
    /\ check' = Zero
    /\ age' = Zero

MarkBackoff(n) ==
    /\ state' = "attached"
    /\ failures' = AtMost(n + 1, MaxFailures)
    /\ backoff' \in FailureBackoff(failures')
    /\ check' = Zero
    /\ age' = Zero

(* Mutant: the detached delays begin with the shortest.                    *)
MarkDetachedAnew(n) ==
    /\ state' = "detached"
    /\ failures' = IF state = "detached" THEN AtMost(n + 1, MaxFailures) ELSE 1
    /\ backoff' \in DetachedBackoff(failures')
    /\ check' = Zero
    /\ age' = IF age = Zero THEN 0 ELSE age

MarkDetached(n) ==
    /\ state' = "detached"
    /\ failures' = AtMost(n + 1, MaxFailures)
    /\ backoff' \in DetachedBackoff(failures')
    /\ check' = Zero
    /\ age' = IF age = Zero THEN 0 ELSE age

MarkActive ==
    /\ state' = "active"
    /\ failures' = 0
    /\ check' = ActiveCheckInterval
    /\ backoff' = Zero
    /\ age' = Zero

(* The histories of a verdict that follows on n failures.                  *)
Counts(n) ==
    /\ misses' = IF state' = "active" THEN 0 ELSE AtMost(n + 1, MaxFailures)
    /\ since' = 0

(* What a probe that finds the target as it is makes known to `who`; only  *)
(* what happens since DetachedSince is kept.                               *)
Sees(who) ==
    spotted' = IF Zero \in {age, age'} THEN {}
               ELSE IF target = "gone" THEN spotted ELSE spotted \cup {who}

-----------------------------------------------------------------------------
(* Supervisor passes.                                                      *)

Waits(deadline) == deadline # Zero /\ deadline > 0

(* Mutant: a detached row waits for a reattach.                            *)
DueAttached == state # "detached" /\ ~Waits(check) /\ ~Waits(backoff)

(* checkLocalReadiness lets the row through.                               *)
Due == ~Waits(check) /\ ~Waits(backoff)

(* checkLocalReadiness finds the target gone.                              *)
PassGone ==
    /\ Due
    /\ target = "gone"
    /\ MarkDetached(failures)

(* The probe fails otherwise, or an ownership conflict stands in for it.   *)
PassUnclear ==
    /\ Due
    /\ target = "unclear"
    /\ MarkBackoff(failures)

(* ensureWake.                                                             *)
PassEnsures ==
    /\ Due
    /\ target = "there"
    /\ \/ wake = "ready" /\ MarkActive
       \/ wake = "failing" /\ MarkBackoff(failures)

(* A pass whose verdict is on file.                                        *)
Pass ==
    /\ PassGone \/ PassUnclear \/ PassEnsures
    /\ Sees("pass")
    /\ Counts(misses)
    /\ UNCHANGED <<env, gc>>

(* A pass that has looked at the target and leaves the row as it was: it   *)
(* is cancelled before the verdict, while it waits for the wake, or its    *)
(* process ends or fails to save before the verdict is on file.            *)
PassLost ==
    /\ Due
    /\ UNCHANGED <<row, env, gc, verdicts>>
    /\ Sees("pass")

-----------------------------------------------------------------------------
(* Commands on the row's own target.                                       *)

(* attach and reattach: the fresh row and the first verdict on it, which   *)
(* is missing with --no-start, after a crash and when saving it failed.    *)
Register ==
    /\ users
    /\ target = "there"
    /\ \/ wake = "ready" /\ MarkActive /\ Counts(0)
       \/ MarkBackoff(0) /\ Counts(0)
       \/ Fresh /\ misses' = 0 /\ since' = 0
    /\ Sees("reattach")
    /\ UNCHANGED <<env, gc>>

(* reattach to this or to another target, which probes this one and ends   *)
(* in a definite failure: the row it had replaced is put back as it was.   *)
ReattachFails ==
    /\ users
    /\ wake = "failing" \/ target = "unclear"
    /\ UNCHANGED <<row, env, gc, verdicts>>
    /\ Sees("reattach")

-----------------------------------------------------------------------------
(* gc.  It does not take the lease: passes and commands come in between.   *)

(* The row has been detached for MinDetachedAge when gc reads it.          *)
GCLoad ==
    /\ gc = "idle"
    /\ state = "detached" /\ age # Zero /\ age >= MinDetachedAge
    /\ gc' = "loaded"
    /\ UNCHANGED <<row, env, spotted, verdicts>>

GCProbe ==
    /\ gc = "loaded"
    /\ gc' = IF target = "gone" THEN "candidate" ELSE "idle"
    /\ spotted' = IF target = "gone" THEN spotted ELSE spotted \cup {"gc"}
    /\ UNCHANGED <<row, env, verdicts>>

GCReport ==
    /\ gc = "candidate"
    /\ gc' = "idle"
    /\ UNCHANGED <<row, env, spotted, verdicts>>

-----------------------------------------------------------------------------
(* External: time, the terminal and AMQ.                                   *)

Elapse(left) == IF Waits(left) THEN left - 1 ELSE left

Tick ==
    /\ check' = Elapse(check)
    /\ backoff' = Elapse(backoff)
    /\ age' = IF age = Zero THEN Zero ELSE AtMost(age + 1, MinDetachedAge)
    /\ since' = AtMost(since + 1, LongestWait)
    /\ UNCHANGED <<state, failures, env, gc, spotted, misses>>

TargetChanges ==
    /\ target' \in {"there", "gone", "unclear"} \ {target}
    /\ UNCHANGED <<row, wake, users, gc, spotted, verdicts>>

WakeChanges ==
    /\ wake' \in {"ready", "failing"} \ {wake}
    /\ UNCHANGED <<row, target, users, gc, spotted, verdicts>>

UsersLeave ==
    /\ users
    /\ users' = FALSE
    /\ UNCHANGED <<row, target, wake, gc, spotted, verdicts>>

-----------------------------------------------------------------------------
Command == Register \/ ReattachFails

GC == GCLoad \/ GCProbe \/ GCReport

Environment == Tick \/ TargetChanges \/ WakeChanges \/ UsersLeave

Next == Pass \/ PassLost \/ Command \/ GC \/ Environment

Spec == Init /\ [][Next]_vars

(* Time passes, and the daemon makes a pass every interval, not all of     *)
(* which are lost.  Nothing is assumed of the users, the terminal or AMQ.  *)
FairSpec == Spec /\ WF_vars(Tick) /\ WF_vars(Pass)

-----------------------------------------------------------------------------
(* Properties.                                                             *)

(* However many failures there were, and whatever the jitter, no row waits *)
(* longer than the maximum for its state until the supervisor looks again. *)
RetriedInTime ==
    /\ state = "attached" /\ backoff # Zero => backoff <= BackoffMax
    /\ state = "detached" => backoff <= DetachedBackoffMax

(* What n failures in a row double a delay to.                             *)
Doubled(n, base, max) == AtMost(base * 2 ^ (n - 1), max)

(* Nor does a pass look earlier than it should, whatever the jitter, the   *)
(* passes that were lost and the times at which they ran: a healthy row is *)
(* checked at most once every ActiveCheckInterval, and after n failures in *)
(* a row, of whatever kind, the delay is the base of the present kind,     *)
(* doubled n - 1 times, less a fifth for the jitter.                       *)
NotRetriedEarly ==
    Due =>
        /\ state = "active" => since >= ActiveCheckInterval
        /\ state = "attached" /\ misses > 0 =>
              5 * since >= 4 * Doubled(misses, BackoffBase, BackoffMax)
        /\ state = "detached" =>
              5 * since >= 4 * Doubled(misses, DetachedBackoffBase, DetachedBackoffMax)

(* Once the terminal and AMQ stay as they are and the users are done, the  *)
(* row comes to the state that describes them and stays there: a terminal  *)
(* that is back gets its wake, one that is gone is detached, and an answer *)
(* that stays unclear never leaves the row detached, whatever users do.    *)
Converges ==
    /\ <>[](target = "there" /\ wake = "ready" /\ ~users) => <>[](state = "active")
    /\ <>[](target = "gone" /\ ~users) => <>[](state = "detached")
    /\ <>[](target = "unclear") => <>[](state = "attached")

(* gc "requires 24 hours of continuously proven detachment": for the row   *)
(* of a candidate nobody has found the target not gone since DetachedSince.*)
(* gc's own probe, a reattach that fails and a pass that is lost break it: *)
(* what they see is not recorded in the row.                               *)
DetachmentContinuous ==
    [][gc = "loaded" /\ gc' = "candidate" => spotted = {}]_vars
=============================================================================
