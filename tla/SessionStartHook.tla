-------------------------- MODULE SessionStartHook --------------------------
(***************************************************************************)
(* hooks/amq-keepalive-session-start.sh: the wrapper that runs when an     *)
(* agent's session starts.  It reads the host's input, reattaches the      *)
(* session, verifies the wake with `amq who`, and answers "{}" or a        *)
(* warning, all within one deadline that run_bounded's watchdog keeps.     *)
(*                                                                         *)
(* The clock counts milliseconds in steps of Step; the script's own steps  *)
(* and the watchdog's take no time.  SECONDS is the difference of whole    *)
(* seconds of the clock, as bash computes it.  The commands that the       *)
(* script runs may take any time, or for ever, unless said otherwise.      *)
(*                                                                         *)
(* Definitions marked "Mutant" are wrong variants which no specification   *)
(* uses; they confirm that the properties notice the mistake.              *)
(***************************************************************************)
EXTENDS Integers

CONSTANTS
    Step,           \* the grain of the clock, in milliseconds
    Timeouts,       \* TIMEOUT_SECONDS, normalised
    StdinTimeouts,  \* STDIN_TIMEOUT_SECONDS, normalised
    WakeTimeouts    \* WAKE_TIMEOUT_MILLISECONDS; 0 is unset or invalid

ASSUME HookAssumption ==
    /\ Step \in 1 .. 1000 /\ 1000 % Step = 0
    /\ Timeouts \subseteq Nat \ {0}
    /\ StdinTimeouts \subseteq Nat \ {0}
    /\ WakeTimeouts \subseteq Nat

VARIABLES
    now,            \* the clock
    began,          \* when the script set SECONDS=0
    timeout, stdin, wake,   \* the three timeouts it runs with
    surface,        \* whether there is a cmux surface to notify
    prompt,         \* external: whether the lease is free for reattach
    pc,             \* where the script is
    job,            \* what run_bounded runs: "work" or "notify"
    budget,         \* and for how many seconds
    cmd,            \* where the command is
    status,         \* its exit status
    result,         \* the content of work_result_path
    dog,            \* where the watchdog is
    dogBegan,       \* when it set its own SECONDS=0
    marker,         \* the content of its marker file
    output,         \* what the script has printed: "nothing", a "warning", or
                    \* "quiet", which is the empty object
    verified        \* history: `amq who` has shown the live notifier

inputs == <<began, timeout, stdin, wake, surface, prompt>>
run == <<job, budget>>
command == <<cmd, status, result, verified>>
watchdog == <<dog, dogBegan, marker>>
vars == <<now, inputs, pc, run, command, watchdog, output>>

NoFile == "absent"

TypeOK ==
    /\ now \in Nat /\ began \in Nat /\ dogBegan \in Nat
    /\ timeout \in Timeouts /\ stdin \in StdinTimeouts /\ wake \in WakeTimeouts
    /\ surface \in BOOLEAN /\ prompt \in BOOLEAN /\ verified \in BOOLEAN
    /\ pc \in {"config", "read", "work", "wait", "stop", "look", "conclude",
               "fail", "emit", "done"}
    /\ job \in {"work", "notify"}
    /\ budget \in 0 .. timeout + 1
    /\ cmd \in {"none", "reattach", "who", "return", "notify", "ended"}
    /\ status \in {0, 1, 20, 21, 22, 124, 125, 137, 143}
    /\ result \in {NoFile, "empty", "reattach", "who_failed", "ack_missing", "ok"}
    /\ dog \in {"none", "watch", "check", "mark", "term", "kill", "gone"}
    /\ marker \in {NoFile, "pending", "timeout"}
    /\ output \in {"nothing", "quiet", "warning"}

Init ==
    /\ now \in {t \in 0 .. 999 : t % Step = 0}
    /\ began = now /\ dogBegan = now
    /\ timeout \in Timeouts /\ stdin \in StdinTimeouts /\ wake \in WakeTimeouts
    /\ surface \in BOOLEAN /\ prompt \in BOOLEAN
    /\ pc = "config" /\ job = "work" /\ budget = 0
    /\ cmd = "none" /\ status = 0 /\ result = NoFile
    /\ dog = "none" /\ marker = NoFile
    /\ output = "nothing" /\ verified = FALSE

-----------------------------------------------------------------------------
(* Budgets.                                                                *)

Smaller(m, n) == IF m < n THEN m ELSE n
Larger(m, n) == IF m < n THEN n ELSE m

SECONDS(start) == now \div 1000 - start \div 1000

Remaining == Larger(timeout - SECONDS(began), 0)

StdinBudget == Smaller(stdin, Larger(timeout - 2, 0))

(* Mutant: the time kept for stdin is added to the work.                   *)
WorkBudgetSum == timeout + StdinBudget

WorkBudget == timeout - StdinBudget

WorkMilliseconds == WorkBudget * 1000

(* Half a second below the work budget, for the verification; the branches *)
(* for budgets below half a second are never taken.                        *)
DefaultWakeTimeout == WorkMilliseconds - 500

WakeTimeout ==
    IF wake = 0 \/ wake >= WorkMilliseconds THEN DefaultWakeTimeout ELSE wake

(* Mutant: the watchdog has no grace.                                      *)
NoGrace == WorkBudget

WatchdogBudget == WorkBudget + 1

-----------------------------------------------------------------------------
(* The script.                                                             *)

Answer(text) == pc' = "done" /\ output' = text

(* Disabled, or no launch of AMQ's, is quiet; a launch without baseline,   *)
(* identity or binaries is warned of.                                      *)
Configure ==
    /\ pc = "config"
    /\ \/ Answer("quiet")
       \/ pc' \in {"fail", "read"} /\ UNCHANGED output
    /\ UNCHANGED <<now, inputs, run, command, watchdog>>

(* A line of input arrives, or read -t gives up; then the two temporary    *)
(* files are made.                                                         *)
ReadInput ==
    /\ pc = "read"
    /\ \/ pc' = "work" /\ result' = "empty"
       \/ pc' = "fail" /\ UNCHANGED result
    /\ UNCHANGED <<now, inputs, run, cmd, status, verified, watchdog, output>>

(* run_bounded up to its wait; without a marker file nothing is run.       *)
RunBounded(j, seconds, first) ==
    /\ job' = j
    /\ budget' = seconds
    /\ \/ /\ cmd' = first /\ dog' = "watch" /\ marker' = "pending"
          /\ dogBegan' = now
          /\ pc' = "wait"
          /\ UNCHANGED status
       \/ /\ status' = 125
          /\ pc' = IF j = "work" THEN "conclude" ELSE "emit"
          /\ UNCHANGED <<cmd, watchdog>>
    /\ UNCHANGED <<now, inputs, result, verified, output>>

Work == pc = "work" /\ RunBounded("work", WatchdogBudget, "reattach")

Wait ==
    /\ pc = "wait"
    /\ cmd = "ended"
    /\ pc' = "stop"
    /\ UNCHANGED <<now, inputs, run, command, watchdog, output>>

(* The watchdog is killed, wherever it is, and waited for.                 *)
StopWatchdog ==
    /\ pc = "stop"
    /\ dog' = "gone"
    /\ pc' = "look"
    /\ UNCHANGED <<now, inputs, run, command, dogBegan, marker, output>>

(* Mutant: run_bounded tells a timeout from no timeout, and nothing else.  *)
LookAtMarkerOnly ==
    /\ pc = "look"
    /\ status' = IF marker = "timeout" THEN 124 ELSE 0
    /\ marker' = NoFile
    /\ pc' = IF job = "work" THEN "conclude" ELSE "emit"
    /\ UNCHANGED <<now, inputs, run, cmd, result, verified, dog, dogBegan, output>>

Look ==
    /\ pc = "look"
    /\ status' = IF marker = "timeout" THEN 124 ELSE status
    /\ marker' = NoFile
    /\ pc' = IF job = "work" THEN "conclude" ELSE "emit"
    /\ UNCHANGED <<now, inputs, run, cmd, result, verified, dog, dogBegan, output>>

Conclude ==
    /\ pc = "conclude"
    /\ result' = NoFile
    /\ IF status = 0 THEN Answer("quiet")
                     ELSE pc' = "fail" /\ UNCHANGED output
    /\ UNCHANGED <<now, inputs, run, cmd, status, verified, watchdog>>

(* Mutant: the notification gets the whole timeout again.                  *)
NotifyAfresh ==
    /\ pc = "fail"
    /\ surface /\ Remaining > 0
    /\ RunBounded("notify", timeout, "notify")

(* fail_visible: cmux is told if it can be and there is time left, ...     *)
Notify ==
    /\ pc = "fail"
    /\ surface /\ Remaining > 0
    /\ RunBounded("notify", Remaining, "notify")

SkipNotify ==
    /\ pc = "fail"
    /\ pc' = "emit"     \* no surface, no cmux binary or no time
    /\ UNCHANGED <<now, inputs, run, command, watchdog, output>>

(* ... and the host in any case.                                           *)
EmitWarning ==
    /\ pc = "emit"
    /\ Answer("warning")
    /\ UNCHANGED <<now, inputs, run, command, watchdog>>

-----------------------------------------------------------------------------
(* reattach_and_verify, and cmux notify.                                   *)

Return(code, text) ==
    /\ result' = text
    /\ status' = code
    /\ cmd' = "return"

Reattach ==
    /\ cmd = "reattach"
    /\ \/ cmd' = "who" /\ UNCHANGED <<status, result>>
       \/ Return(20, "reattach")
    /\ UNCHANGED <<now, inputs, pc, run, verified, watchdog, output>>

Who ==
    /\ cmd = "who"
    /\ \/ Return(0, "ok") /\ verified' = TRUE
       \/ Return(21, "who_failed") /\ UNCHANGED verified
       \/ Return(22, "ack_missing") /\ UNCHANGED verified
    /\ UNCHANGED <<now, inputs, pc, run, watchdog, output>>

Ends(code) == cmd' = "ended" /\ status' = code

CommandEnds ==
    /\ \/ cmd = "return" /\ Ends(status)
       \/ cmd = "notify" /\ (Ends(0) \/ Ends(1))
    /\ UNCHANGED <<now, inputs, pc, run, result, verified, watchdog, output>>

-----------------------------------------------------------------------------
(* The watchdog.                                                           *)

Expired == SECONDS(dogBegan) >= budget

DogGoes(stage) == dog' = stage /\ UNCHANGED <<now, inputs, pc, run, dogBegan, output>>

Watch ==
    /\ dog = "watch"
    /\ Expired \/ cmd = "ended"
    /\ DogGoes("check")
    /\ UNCHANGED <<command, marker>>

(* A command that ended after the watchdog's last look at it still has its *)
(* process until the script's wait returns.                                *)
CheckAlive ==
    /\ dog = "check"
    /\ \/ cmd = "ended" /\ DogGoes("gone")
       \/ cmd # "ended" /\ DogGoes("mark")
       \/ pc = "wait" /\ Expired /\ DogGoes("mark")
    /\ UNCHANGED <<command, marker>>

(* Mutant: the command is killed before the marker is written.             *)
MarkTimeoutLate ==
    /\ dog = "mark"
    /\ UNCHANGED <<result, verified>>
    /\ IF cmd = "ended" THEN marker' = "timeout" /\ DogGoes("term") /\ UNCHANGED <<cmd, status>>
                        ELSE Ends(143) /\ DogGoes("mark") /\ UNCHANGED marker

MarkTimeout ==
    /\ dog = "mark"
    /\ marker' = "timeout"
    /\ DogGoes("term")
    /\ UNCHANGED command

(* The shell function dies of TERM, and cmux as a rule; what the function  *)
(* was running is sent TERM as well, and ends by itself.                   *)
Term ==
    /\ dog = "term"
    /\ DogGoes("kill")
    /\ \/ cmd # "ended" /\ Ends(143)
       \/ cmd \in {"notify", "ended"} /\ UNCHANGED <<cmd, status>>
    /\ UNCHANGED <<result, verified, marker>>

(* Mutant: there is no KILL after the TERM.                                *)
KillNothing ==
    /\ dog = "kill"
    /\ DogGoes("gone")
    /\ UNCHANGED <<command, marker>>

Kill ==
    /\ dog = "kill"
    /\ DogGoes("gone")
    /\ IF cmd = "ended" THEN UNCHANGED <<cmd, status>> ELSE Ends(137)
    /\ UNCHANGED <<result, verified, marker>>

-----------------------------------------------------------------------------
(* Time passes while the script waits and nobody has anything to do.  A    *)
(* reattach that gets the lease at once takes its readiness timeout at     *)
(* most.                                                                   *)
Tick ==
    /\ \/ pc = "read" /\ now - began < StdinBudget * 1000
       \/ pc = "wait" /\ cmd # "ended" /\ dog = "watch" /\ ~Expired
    /\ now' = now + Step
    /\ cmd = "reattach" /\ prompt => now' - dogBegan <= WakeTimeout
    /\ UNCHANGED <<inputs, pc, run, command, watchdog, output>>

Terminating == pc = "done" /\ UNCHANGED vars

ScriptStep ==
    \/ Configure \/ ReadInput \/ Work \/ Wait \/ StopWatchdog \/ Look
    \/ Conclude \/ Notify \/ SkipNotify \/ EmitWarning

CommandStep == Reattach \/ Who \/ CommandEnds

DogStep == Watch \/ CheckAlive \/ MarkTimeout \/ Term \/ Kill

Next == ScriptStep \/ CommandStep \/ DogStep \/ Tick \/ Terminating

Spec == Init /\ [][Next]_vars

(* The script is scheduled, and so is its watchdog.  Of the commands only  *)
(* what Tick says is assumed: a prompt reattach ends.                      *)
FairSpec ==
    /\ Spec
    /\ WF_vars(ScriptStep) /\ WF_vars(DogStep) /\ WF_vars(Tick)
    /\ WF_vars(prompt /\ Reattach)

-----------------------------------------------------------------------------
(* Properties.                                                             *)

(* A launch that should have a wake stays quiet only if reattach succeeded *)
(* and `amq who` then showed the exact live notifier, whatever was killed, *)
(* timed out or failed in between; everything else is warned of.           *)
OkMeansVerified == output = "quiet" /\ cmd # "none" => verified

(* Input, work and notification share one deadline: one second after it    *)
(* the script has answered, although each part has a watchdog of its own.  *)
EndsInTime == now - began <= (timeout + 1) * 1000

(* A reattach that need not wait for the lease is never killed while it    *)
(* waits for readiness: it can report the outcome, and the registry is not *)
(* left to the next supervisor pass.                                       *)
ReadinessWaitFits ==
    ~(prompt /\ job = "work" /\ cmd = "reattach" /\ dog = "term")

(* When the watchdog has killed a command, run_bounded says so and does    *)
(* not pass on the status of the killed process.                           *)
KilledMeansTimedOut == pc \in {"conclude", "emit"} => status \notin {137, 143}

(* The script answers, although its commands may hang.                     *)
Answers == <>(output # "nothing")

=============================================================================
