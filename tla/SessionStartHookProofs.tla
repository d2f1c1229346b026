------------------------ MODULE SessionStartHookProofs ------------------------
(***************************************************************************)
(* The safety properties of SessionStartHook, for all timeouts and any     *)
(* grain of the clock that divides a second.                               *)
(***************************************************************************)
EXTENDS SessionStartHook, TLAPS

(* What is used of the assumption, apart from the grain.                   *)
LEMMA TimeoutsAreNatural ==
    /\ Timeouts \subseteq Nat \ {0}
    /\ StdinTimeouts \subseteq Nat \ {0}
    /\ WakeTimeouts \subseteq Nat
BY HookAssumption DEF HookAssumption

(* A second is a whole number of steps of the clock.                       *)
LEMMA GrainDividesSecond ==
    /\ Step \in Nat /\ Step > 0
    /\ 1000 \div Step \in Nat
    /\ 1000 = (1000 \div Step) * Step
BY HookAssumption DEF HookAssumption

-----------------------------------------------------------------------------
(* The clock only shows multiples of its grain.                            *)
OnGrid(t) == \E k \in Nat : t = k * Step

(* Times that the clock's step divides are on its grid,                    *)
LEMMA ClockStartsOnGrid ==
    ASSUME NEW t \in Nat, t % Step = 0
    PROVE  OnGrid(t)
<1>1. t \div Step \in Nat /\ t = (t \div Step) * Step
  BY GrainDividesSecond
<1> QED BY <1>1 DEF OnGrid

(* and so are whole seconds                                                *)
LEMMA SecondsAreOnGrid ==
    ASSUME NEW n \in Nat
    PROVE  OnGrid(n * 1000)
<1> DEFINE m == 1000 \div Step
<1>1. m \in Nat /\ 1000 = m * Step /\ Step \in Nat
  BY GrainDividesSecond
<1> HIDE DEF m
<1>2. n * m \in Nat /\ n * (m * Step) = (n * m) * Step
  BY <1>1
<1>3. n * 1000 = (n * m) * Step
  BY <1>1, <1>2
<1> QED BY <1>2, <1>3 DEF OnGrid

(* and the sums of such times.                                             *)
LEMMA SumsAreOnGrid ==
    ASSUME NEW t, NEW u, OnGrid(t), OnGrid(u)
    PROVE  OnGrid(t + u)
<1>1. PICK j \in Nat : t = j * Step
  BY DEF OnGrid
<1>2. PICK k \in Nat : u = k * Step
  BY DEF OnGrid
<1>3. t + u = (j + k) * Step /\ j + k \in Nat
  BY <1>1, <1>2, GrainDividesSecond
<1> QED BY <1>3 DEF OnGrid

(* A step of the clock does not pass a time it has not reached yet.        *)
LEMMA TickReaches ==
    ASSUME NEW t, NEW u, OnGrid(t), OnGrid(u), t < u
    PROVE  t + Step <= u /\ OnGrid(t + Step)
<1>1. PICK j \in Nat : t = j * Step
  BY DEF OnGrid
<1>2. PICK k \in Nat : u = k * Step
  BY DEF OnGrid
<1>3. j < k
  BY <1>1, <1>2, GrainDividesSecond
<1>4. (j + 1) * Step <= k * Step /\ (j + 1) * Step = j * Step + Step
  BY <1>3, GrainDividesSecond
<1>5. t + Step <= u /\ t + Step = (j + 1) * Step /\ j + 1 \in Nat
  BY <1>1, <1>2, <1>4
<1> QED BY <1>5 DEF OnGrid

(* What SECONDS leaves out of a time.                                      *)
LEMMA WholeSeconds ==
    ASSUME NEW t \in Nat
    PROVE  /\ t \div 1000 \in Nat
           /\ 1000 * (t \div 1000) <= t
           /\ t < 1000 * (t \div 1000) + 1000
OBVIOUS

(* The budgets: stdin and work share the timeout, and a wake is given less *)
(* than the work.                                                          *)
LEMMA Budgets ==
    ASSUME timeout \in Timeouts, stdin \in StdinTimeouts, wake \in WakeTimeouts
    PROVE  /\ timeout \in Nat /\ timeout > 0
           /\ StdinBudget \in Nat /\ WorkBudget \in Nat \ {0}
           /\ StdinBudget + WorkBudget = timeout
           /\ WatchdogBudget = WorkBudget + 1
           /\ WakeTimeout \in Nat /\ WakeTimeout < WorkBudget * 1000
<1>1. timeout \in Nat \ {0} /\ stdin \in Nat \ {0} /\ wake \in Nat
  BY TimeoutsAreNatural
<1>2. StdinBudget \in 0 .. timeout - 1
  BY <1>1 DEF StdinBudget, Smaller, Larger
<1>3. WorkBudget \in Nat \ {0} /\ StdinBudget + WorkBudget = timeout
  BY <1>1, <1>2 DEF WorkBudget
<1>4. WakeTimeout \in Nat /\ WakeTimeout < WorkBudget * 1000
  BY <1>1, <1>3 DEF WakeTimeout, DefaultWakeTimeout, WorkMilliseconds
<1> QED BY <1>1, <1>2, <1>3, <1>4 DEF WatchdogBudget

-----------------------------------------------------------------------------
(* The inductive invariant.                                                *)

GridInv == OnGrid(now) /\ OnGrid(began) /\ OnGrid(dogBegan)

(* The end of what the watchdog allows, and that it lies within one second *)
(* of the deadline: the work gets what stdin leaves, the notification what *)
(* is left by then.                                                        *)
DogEnds == 1000 * (dogBegan \div 1000 + budget)

ClockInv ==
    /\ pc = "config" => now = began
    /\ pc \in {"read", "work"} => now - began <= StdinBudget * 1000
    /\ pc = "wait" => now <= DogEnds /\ DogEnds - began <= (timeout + 1) * 1000
    /\ began <= now /\ now - began <= (timeout + 1) * 1000

(* Commands and watchdogs run only while the script waits for them.        *)
StageInv ==
    /\ pc \in {"config", "read", "work"} => cmd = "none" /\ job = "work"
    /\ pc \notin {"wait", "stop", "look"} =>
           cmd \in {"none", "ended"} /\ dog \in {"none", "gone"}
    /\ pc \in {"wait", "stop", "look"} => cmd # "none"
    /\ pc \in {"stop", "look"} => cmd = "ended"
    /\ pc = "look" => dog = "gone"
    /\ pc = "conclude" => job = "work"
    /\ cmd \in {"reattach", "who", "return"} => job = "work"
    /\ cmd = "notify" => job = "notify"
    /\ output # "nothing" => pc = "done"

(* A reattach whose time is up is on its way to being killed, and one that *)
(* need not wait for the lease is still within its readiness timeout.      *)
ReattachInv ==
    cmd = "reattach" =>
        /\ budget = WatchdogBudget
        /\ dog \in {"watch", "check", "mark", "term"}
        /\ dog # "watch" => Expired
        /\ prompt => now - dogBegan <= WakeTimeout

(* The marker is written before anything is killed.                        *)
KillInv ==
    /\ dog \in {"term", "kill"} => marker = "timeout"
    /\ status \in {137, 143} => pc \in {"wait", "stop", "look"} /\ marker = "timeout"

(* What a status of zero stands for.                                       *)
OkInv ==
    /\ cmd \in {"return", "ended"} /\ job = "work" /\ status = 0 => verified
    /\ cmd = "none" /\ pc = "conclude" => status # 0
    /\ OkMeansVerified

HookInv ==
    TypeOK /\ GridInv /\ ClockInv /\ StageInv /\ ReattachInv /\ KillInv /\ OkInv

-----------------------------------------------------------------------------
(* A hook that has just started satisfies the invariant.                   *)
LEMMA HookInvInit == Init => HookInv
<1> SUFFICES ASSUME Init PROVE HookInv
    OBVIOUS
<1>1. TypeOK
  <2>1. now \in Nat /\ timeout \in Nat
    BY TimeoutsAreNatural DEF Init
  <2>2. budget \in 0 .. timeout + 1
    BY <2>1 DEF Init
  <2> QED BY <2>1, <2>2 DEF Init, TypeOK, NoFile
<1>2. GridInv
  <2>1. now \in Nat /\ now % Step = 0 /\ began = now /\ dogBegan = now
    BY DEF Init
  <2> QED BY <2>1, ClockStartsOnGrid DEF GridInv
<1>3. ClockInv
  <2>1. /\ now = began /\ began \in Nat /\ pc = "config"
        /\ timeout \in Nat
    BY <1>1, TimeoutsAreNatural DEF Init, TypeOK
  <2> QED BY <2>1 DEF ClockInv
<1>4. StageInv /\ ReattachInv /\ KillInv /\ OkInv
  BY DEF Init, StageInv, ReattachInv, KillInv, OkInv, OkMeansVerified
<1> QED BY <1>1, <1>2, <1>3, <1>4 DEF HookInv

(* The deadline of a watchdog that starts now.                             *)
LEMMA WorkFits ==
    ASSUME TypeOK, now - began <= StdinBudget * 1000, began <= now
    PROVE  /\ now <= 1000 * (now \div 1000 + WatchdogBudget)
           /\ 1000 * (now \div 1000 + WatchdogBudget) - began <= (timeout + 1) * 1000
<1>1. now \in Nat /\ began \in Nat
  BY DEF TypeOK
<1>2. /\ timeout \in Nat /\ StdinBudget \in Nat /\ WorkBudget \in Nat
      /\ StdinBudget + WorkBudget = timeout
      /\ WatchdogBudget = WorkBudget + 1
  BY Budgets DEF TypeOK
<1>3. /\ now \div 1000 \in Nat
      /\ 1000 * (now \div 1000) <= now
      /\ now < 1000 * (now \div 1000) + 1000
  BY <1>1, WholeSeconds
<1> QED BY <1>1, <1>2, <1>3

(* What is left for a notification ends at the deadline, which is at most  *)
(* a second late.                                                          *)
LEMMA NotifyFits ==
    ASSUME TypeOK, Remaining > 0, began <= now
    PROVE  /\ Remaining \in 0 .. timeout
           /\ now <= 1000 * (now \div 1000 + Remaining)
           /\ 1000 * (now \div 1000 + Remaining) - began <= (timeout + 1) * 1000
<1>1. now \in Nat /\ began \in Nat /\ timeout \in Nat
  BY Budgets DEF TypeOK
<1>2. /\ now \div 1000 \in Nat
      /\ 1000 * (now \div 1000) <= now
      /\ now < 1000 * (now \div 1000) + 1000
  BY <1>1, WholeSeconds
<1>3. /\ began \div 1000 \in Nat
      /\ 1000 * (began \div 1000) <= began
      /\ began < 1000 * (began \div 1000) + 1000
  BY <1>1, WholeSeconds
<1>4. Remaining = timeout - (now \div 1000 - began \div 1000)
  BY <1>1, <1>2, <1>3 DEF Remaining, Larger, SECONDS
<1> QED BY <1>1, <1>2, <1>3, <1>4

(* What a step that starts no watchdog leaves as it is.                    *)
LEMMA FixedBudgets ==
    ASSUME UNCHANGED inputs
    PROVE  /\ StdinBudget' = StdinBudget /\ WatchdogBudget' = WatchdogBudget
           /\ WakeTimeout' = WakeTimeout
BY DEF inputs, StdinBudget, WatchdogBudget, WakeTimeout, DefaultWakeTimeout,
       WorkMilliseconds, WorkBudget

(* Steps that take no time and start nothing leave the deadlines where     *)
(* they are.                                                               *)
LEMMA FixedDeadlines ==
    ASSUME GridInv, UNCHANGED <<now, inputs, run, dogBegan>>
    PROVE  Expired' = Expired /\ DogEnds' = DogEnds /\ GridInv'
BY DEF inputs, run, Expired, SECONDS, DogEnds, GridInv, OnGrid

(* The steps of the script other than those that run a command.            *)
LEMMA ScriptKeepsHookInv ==
    ASSUME HookInv,
           \/ Configure \/ ReadInput \/ Wait \/ StopWatchdog \/ Look
           \/ Conclude \/ SkipNotify \/ EmitWarning
    PROVE  HookInv'
<1> USE DEF HookInv
<1>1. UNCHANGED <<now, inputs, run, dogBegan>>
  BY DEF Configure, ReadInput, Wait, StopWatchdog, Look, Conclude, SkipNotify, EmitWarning,
         watchdog
<1>2. /\ StdinBudget' = StdinBudget /\ WatchdogBudget' = WatchdogBudget
      /\ WakeTimeout' = WakeTimeout
      /\ Expired' = Expired /\ DogEnds' = DogEnds /\ GridInv'
  BY <1>1, FixedBudgets, FixedDeadlines
<1> USE DEF inputs, run, command, watchdog, Answer
<1>3. TypeOK'
  BY <1>1 DEF Configure, ReadInput, Wait, StopWatchdog, Look, Conclude, SkipNotify,
              EmitWarning, TypeOK
<1>4. ClockInv'
  <2>1. CASE Configure
    <3>1. now = began /\ now \in Nat /\ StdinBudget \in Nat
      BY <2>1, Budgets DEF Configure, ClockInv, TypeOK
    <3>2. now - began <= StdinBudget * 1000
      BY <3>1
    <3> QED BY <1>1, <1>2, <2>1, <3>2 DEF Configure, ClockInv
  <2>2. CASE ~Configure
    BY <1>1, <1>2, <2>2 DEF ReadInput, Wait, StopWatchdog, Look, Conclude, SkipNotify,
                            EmitWarning, ClockInv
  <2> QED BY <2>1, <2>2
<1>5. StageInv'
  BY <1>1 DEF Configure, ReadInput, Wait, StopWatchdog, Look, Conclude, SkipNotify,
              EmitWarning, StageInv
<1>6. ReattachInv'
  BY <1>1, <1>2 DEF Configure, ReadInput, Wait, StopWatchdog, Look, Conclude, SkipNotify,
                    EmitWarning, ReattachInv, StageInv
<1>7. KillInv'
  BY <1>1 DEF Configure, ReadInput, Wait, StopWatchdog, Look, Conclude, SkipNotify,
              EmitWarning, KillInv, StageInv, TypeOK
<1>8. OkInv'
  BY <1>1 DEF Configure, ReadInput, Wait, StopWatchdog, Look, Conclude, SkipNotify,
              EmitWarning, OkInv, OkMeansVerified, StageInv, TypeOK
<1> QED BY <1>2, <1>3, <1>4, <1>5, <1>6, <1>7, <1>8

(* The steps of a command and of the watchdog.                             *)
LEMMA RunsKeepHookInv ==
    ASSUME HookInv, CommandStep \/ DogStep
    PROVE  HookInv'
<1> USE DEF HookInv, CommandStep, DogStep, DogGoes
<1>1. UNCHANGED <<now, inputs, run, dogBegan, pc, output>>
  BY DEF Reattach, Who, CommandEnds, Watch, CheckAlive, MarkTimeout, Term, Kill, watchdog
<1>2. /\ StdinBudget' = StdinBudget /\ WatchdogBudget' = WatchdogBudget
      /\ WakeTimeout' = WakeTimeout
      /\ Expired' = Expired /\ DogEnds' = DogEnds /\ GridInv'
  BY <1>1, FixedBudgets, FixedDeadlines
<1> USE DEF inputs, run, command, watchdog, Return, Ends
<1>3. TypeOK'
  <2>1. CASE CommandStep
    <3>1. /\ UNCHANGED watchdog
          /\ cmd' \in {"who", "return", "ended"}
          /\ status' \in {status, 0, 1, 20, 21, 22}
          /\ result' \in {result, "reattach", "who_failed", "ack_missing", "ok"}
          /\ verified' = verified \/ verified' = TRUE
      BY <2>1 DEF Reattach, Who, CommandEnds
    <3>2. verified' \in BOOLEAN
      BY <3>1 DEF TypeOK
    <3>3. /\ cmd' \in {"none", "reattach", "who", "return", "notify", "ended"}
          /\ status' \in {0, 1, 20, 21, 22, 124, 125, 137, 143}
          /\ result' \in {NoFile, "empty", "reattach", "who_failed", "ack_missing", "ok"}
      BY <3>1 DEF TypeOK
    <3> QED BY <1>1, <3>1, <3>2, <3>3 DEF TypeOK
  <2>2. CASE DogStep
    <3>1. /\ dog' \in {"check", "gone", "mark", "term", "kill"}
          /\ marker' \in {marker, "timeout"}
          /\ cmd' \in {cmd, "ended"} /\ status' \in {status, 137, 143}
          /\ UNCHANGED <<result, verified>>
      BY <2>2 DEF Watch, CheckAlive, MarkTimeout, Term, Kill
    <3> QED BY <1>1, <3>1 DEF TypeOK
  <2> QED BY <2>1, <2>2
<1>4. ClockInv'
  BY <1>1, <1>2 DEF ClockInv
<1>5. StageInv'
  BY <1>1 DEF Reattach, Who, CommandEnds, Watch, CheckAlive, MarkTimeout, Term, Kill, StageInv
<1>6. ReattachInv'
  BY <1>1, <1>2 DEF Reattach, Who, CommandEnds, Watch, CheckAlive, MarkTimeout, Term, Kill,
                    ReattachInv, StageInv
<1>7. KillInv'
  BY <1>1 DEF Reattach, Who, CommandEnds, Watch, CheckAlive, MarkTimeout, Term, Kill,
              KillInv, StageInv, TypeOK
<1>8. OkInv'
  BY <1>1 DEF Reattach, Who, CommandEnds, Watch, CheckAlive, MarkTimeout, Term, Kill,
              OkInv, OkMeansVerified, StageInv
<1> QED BY <1>2, <1>3, <1>4, <1>5, <1>6, <1>7, <1>8

(* A watchdog is started, for the work or for the notification.            *)
LEMMA StartsKeepHookInv ==
    ASSUME HookInv, Work \/ Notify
    PROVE  HookInv'
<1> USE DEF HookInv
<1>1. UNCHANGED <<now, inputs, result, verified, output>>
  BY DEF Work, Notify, RunBounded
<1>2. /\ StdinBudget' = StdinBudget /\ WatchdogBudget' = WatchdogBudget
      /\ WakeTimeout' = WakeTimeout
  BY <1>1, FixedBudgets
<1>3. PICK seconds \in 0 .. timeout + 1 :
          /\ now <= 1000 * (now \div 1000 + seconds)
          /\ 1000 * (now \div 1000 + seconds) - began <= (timeout + 1) * 1000
          /\ \/ Work /\ seconds = WatchdogBudget
                /\ RunBounded("work", seconds, "reattach")
             \/ Notify /\ RunBounded("notify", seconds, "notify")
  <2>1. CASE Work
    <3>1. WatchdogBudget \in 0 .. timeout + 1
      BY Budgets DEF TypeOK
    <3>2. now - began <= StdinBudget * 1000 /\ began <= now
      BY <2>1 DEF Work, ClockInv
    <3> QED BY <2>1, <3>1, <3>2, WorkFits DEF Work
  <2>2. CASE Notify
    <3>1. Remaining > 0 /\ RunBounded("notify", Remaining, "notify")
      BY <2>2 DEF Notify
    <3>2. began <= now /\ timeout \in Nat
      BY Budgets DEF ClockInv, TypeOK
    <3>3. Remaining \in 0 .. timeout + 1
      BY <3>1, <3>2, NotifyFits
    <3> QED BY <2>2, <3>1, <3>2, <3>3, NotifyFits
  <2> QED BY <2>1, <2>2
<1> USE DEF inputs, run, command, watchdog, RunBounded, Work, Notify
<1>4. TypeOK'
  BY <1>1, <1>3 DEF TypeOK
<1>5. GridInv'
  <2>1. dogBegan' \in {now, dogBegan} /\ now' = now /\ began' = began
    BY <1>1, <1>3
  <2> QED BY <2>1 DEF GridInv, OnGrid
<1>6. ClockInv'
  BY <1>1, <1>2, <1>3 DEF ClockInv, DogEnds
<1>7. StageInv'
  BY <1>1, <1>3 DEF StageInv
<1>8. ReattachInv'
  <2>1. CASE cmd' = "reattach"
    <3>1. /\ dog' = "watch" /\ dogBegan' = now /\ now' = now
          /\ budget' = WatchdogBudget
      BY <1>1, <1>3, <2>1 DEF StageInv
    <3>2. now \in Nat /\ WakeTimeout \in Nat
      BY Budgets DEF TypeOK
    <3>3. budget' = WatchdogBudget' /\ now' - dogBegan' <= WakeTimeout'
      BY <1>2, <3>1, <3>2
    <3> QED BY <3>1, <3>3 DEF ReattachInv
  <2> QED BY <2>1 DEF ReattachInv
<1>9. KillInv'
  BY <1>1, <1>3 DEF KillInv, StageInv
<1>10. OkInv'
  BY <1>1, <1>3 DEF OkInv, OkMeansVerified, StageInv
<1> QED BY <1>4, <1>5, <1>6, <1>7, <1>8, <1>9, <1>10

(* The clock goes on while stdin is read, or while a command has neither   *)
(* ended nor used up its time.                                             *)
LEMMA TickKeepsHookInv ==
    ASSUME HookInv, Tick
    PROVE  HookInv'
<1> USE DEF HookInv
<1>1. /\ UNCHANGED <<inputs, run, pc, command, watchdog, output>>
      /\ now' = now + Step
  BY DEF Tick
<1>2. /\ StdinBudget' = StdinBudget /\ WatchdogBudget' = WatchdogBudget
      /\ WakeTimeout' = WakeTimeout /\ DogEnds' = DogEnds
  BY <1>1, FixedBudgets DEF run, watchdog, DogEnds
<1>3. /\ now \in Nat /\ began \in Nat /\ dogBegan \in Nat /\ timeout \in Nat
      /\ budget \in Nat /\ Step \in Nat /\ StdinBudget \in Nat
      /\ StdinBudget <= timeout /\ DogEnds \in Nat /\ now' \in Nat
  BY <1>1, Budgets, GrainDividesSecond, WholeSeconds DEF TypeOK, DogEnds
<1>4. ASSUME pc = "read" \/ pc = "wait",
             OnGrid(now'),
             pc = "read" => now' - began <= StdinBudget * 1000,
             pc = "wait" => dog = "watch" /\ now' <= DogEnds,
             now' - began <= (timeout + 1) * 1000
      PROVE  HookInv'
  <2> USE DEF inputs, run, command, watchdog
  <2>1. TypeOK'
    BY <1>1, <1>3 DEF TypeOK
  <2>2. GridInv'
    BY <1>1, <1>4 DEF GridInv, OnGrid
  <2>3. ClockInv'
    <3>1. began <= now'
      BY <1>1, <1>3 DEF ClockInv
    <3> QED BY <1>1, <1>2, <1>4, <3>1 DEF ClockInv
  <2>4. ReattachInv'
    <3>1. dog' = "watch" \/ cmd' # "reattach"
      BY <1>1, <1>4 DEF StageInv
    <3>2. cmd' = "reattach" => budget' = WatchdogBudget'
      BY <1>1, <1>2 DEF ReattachInv
    <3>3. cmd' = "reattach" /\ prompt' => now' - dogBegan' <= WakeTimeout'
      BY <1>1, <1>2 DEF Tick
    <3> QED BY <3>1, <3>2, <3>3 DEF ReattachInv
  <2>5. StageInv' /\ KillInv' /\ OkInv'
    BY <1>1 DEF StageInv, KillInv, OkInv, OkMeansVerified
  <2> QED BY <2>1, <2>2, <2>3, <2>4, <2>5
<1>5. CASE pc = "read"
  <2>1. now < began + StdinBudget * 1000
    BY <1>3, <1>5 DEF Tick
  <2>2. OnGrid(began + StdinBudget * 1000)
    BY <1>3, SecondsAreOnGrid, SumsAreOnGrid DEF GridInv
  <2>3. OnGrid(now')
    BY <1>1, <2>1, <2>2, TickReaches DEF GridInv
  <2>4. now' <= began + StdinBudget * 1000
    BY <1>1, <2>1, <2>2, TickReaches DEF GridInv
  <2>5. now' - began <= StdinBudget * 1000 /\ now' - began <= (timeout + 1) * 1000
    <3>1. PICK next \in Nat : next = now' /\ next <= began + StdinBudget * 1000
      BY <1>3, <2>4
    <3>2. began \in Nat /\ timeout \in Nat /\ StdinBudget \in 0 .. timeout
      BY <1>3
    <3>3. next - began <= StdinBudget * 1000 /\ next - began <= (timeout + 1) * 1000
      <4>1. next <= began + StdinBudget * 1000
        BY <3>1
      <4> QED BY <3>2, <4>1
    <3> QED BY <3>1, <3>3
  <2> QED BY <1>4, <1>5, <2>3, <2>5
<1>6. CASE pc = "wait"
  <2>1. dog = "watch" /\ now \div 1000 - dogBegan \div 1000 < budget
    <3>1. dog = "watch" /\ ~(now \div 1000 - dogBegan \div 1000 >= budget)
      BY <1>6 DEF Tick, Expired, SECONDS
    <3> QED BY <1>3, <3>1, WholeSeconds
  <2>2. now < DogEnds
    <3>1. /\ now \div 1000 \in Nat /\ dogBegan \div 1000 \in Nat
          /\ now < 1000 * (now \div 1000) + 1000
      BY <1>3, WholeSeconds
    <3> QED BY <1>3, <2>1, <3>1 DEF DogEnds
  <2>3. OnGrid(DogEnds)
    <3>1. dogBegan \div 1000 + budget \in Nat
      BY <1>3, WholeSeconds
    <3>2. DogEnds = (dogBegan \div 1000 + budget) * 1000
      BY <3>1 DEF DogEnds
    <3> QED BY <3>1, <3>2, SecondsAreOnGrid
  <2>4. now' <= DogEnds /\ OnGrid(now')
    BY <1>1, <2>2, <2>3, TickReaches DEF GridInv
  <2>5. now' - began <= (timeout + 1) * 1000
    <3>1. PICK next \in Nat : next = now' /\ next <= DogEnds
      BY <1>3, <2>4
    <3>2. DogEnds - began <= (timeout + 1) * 1000
      BY <1>6 DEF ClockInv
    <3>3. DogEnds \in Nat /\ began \in Nat /\ timeout \in Nat
      BY <1>3
    <3>4. next - began <= (timeout + 1) * 1000
      <4>1. next <= DogEnds
        BY <3>1
      <4> QED BY <3>2, <3>3, <4>1
    <3> QED BY <3>1, <3>4
  <2> QED BY <1>4, <1>6, <2>1, <2>4, <2>5
<1> QED BY <1>5, <1>6 DEF Tick

(* Every step keeps the invariant: of the script, its commands, the        *)
(* watchdog and time.                                                      *)
LEMMA HookInvNext == HookInv /\ [Next]_vars => HookInv'
<1> SUFFICES ASSUME HookInv, [Next]_vars PROVE HookInv'
    OBVIOUS
<1>1. ASSUME UNCHANGED vars PROVE HookInv'
  <2>1. UNCHANGED <<now, inputs, run, dogBegan>>
    BY <1>1 DEF vars, watchdog
  <2>2. /\ StdinBudget' = StdinBudget /\ WatchdogBudget' = WatchdogBudget
        /\ WakeTimeout' = WakeTimeout
        /\ Expired' = Expired /\ DogEnds' = DogEnds /\ GridInv'
    BY <2>1, FixedBudgets, FixedDeadlines DEF HookInv
  <2> QED BY <1>1, <2>2 DEF vars, inputs, run, command, watchdog, HookInv, TypeOK, ClockInv,
                           StageInv, ReattachInv, KillInv, OkInv, OkMeansVerified
<1> QED BY <1>1, ScriptKeepsHookInv, RunsKeepHookInv, StartsKeepHookInv, TickKeepsHookInv
        DEF Next, ScriptStep, Terminating

(* It holds in every reachable state.                                      *)
LEMMA HookInvHolds == Spec => []HookInv
BY HookInvInit, HookInvNext, PTL DEF Spec

-----------------------------------------------------------------------------
(* Every variable of the wrapper stays in its type.                        *)
THEOREM HookTypeCorrect == Spec => []TypeOK
<1>1. HookInv => TypeOK
  BY DEF HookInv
<1> QED BY <1>1, HookInvHolds, PTL

(* Whatever TIMEOUT_SECONDS and STDIN_TIMEOUT_SECONDS are, and however     *)
(* long the input, the commands and the notification take, the script is   *)
(* done within one second of its deadline.                                 *)
THEOREM HooksEndInTime == Spec => []EndsInTime
<1>1. HookInv => EndsInTime
  BY DEF HookInv, ClockInv, EndsInTime
<1> QED BY <1>1, HookInvHolds, PTL

(* A reattach that gets the lease at once is not killed while it waits for *)
(* readiness, for all timeouts, the given and the default ones.            *)
THEOREM ReadinessWaitsFit == Spec => []ReadinessWaitFits
<1>1. HookInv => ReadinessWaitFits
  <2> SUFFICES ASSUME HookInv, prompt, cmd = "reattach", dog = "term" PROVE FALSE
    BY DEF ReadinessWaitFits
  <2> USE DEF HookInv
  <2>1. /\ now \div 1000 - dogBegan \div 1000 >= WorkBudget + 1
        /\ now - dogBegan <= WakeTimeout
    BY Budgets DEF ReattachInv, Expired, SECONDS, TypeOK
  <2>2. /\ now \in Nat /\ dogBegan \in Nat
        /\ WorkBudget \in Nat /\ WakeTimeout \in Nat /\ WakeTimeout < WorkBudget * 1000
    BY Budgets DEF TypeOK
  <2>3. /\ now \div 1000 \in Nat /\ 1000 * (now \div 1000) <= now
        /\ dogBegan \div 1000 \in Nat /\ dogBegan < 1000 * (dogBegan \div 1000) + 1000
    BY <2>2, WholeSeconds
  <2> QED BY <2>1, <2>2, <2>3
<1> QED BY <1>1, HookInvHolds, PTL

(* The hook is quiet about a launch that should have a wake only if `amq   *)
(* who` has shown the live notifier.                                       *)
THEOREM QuietMeansVerified == Spec => []OkMeansVerified
<1>1. HookInv => OkMeansVerified
  BY DEF HookInv, OkInv
<1> QED BY <1>1, HookInvHolds, PTL

(* The status of a killed command never gets past run_bounded.             *)
THEOREM KillsAreTimeouts == Spec => []KilledMeansTimedOut
<1>1. HookInv => KilledMeansTimedOut
  BY DEF HookInv, KillInv, KilledMeansTimedOut
<1> QED BY <1>1, HookInvHolds, PTL
=============================================================================
