# amq-keepalive: a specification in TLA+

amq-keepalive keeps the wakes of AMQ agents attached to the terminals the agents
live in. A *registry* file says which terminal each agent's wake injects into;
commands (`attach`, `reattach`, `forget`) change it, a long-running `supervise`
compares it with the terminals and starts wakes, and `amq wake` processes, which
the tool spawns and never signals, do the injection. This directory specifies
the parts of it whose correctness depends on the order in which things happen.

All paths below are relative to the repository; `app.go` is
`internal/app/app.go`, `store.go` is `internal/registry/store.go`, `runner.go` is
`internal/amq/runner.go`, `supervisor.go` and `cmux.go` likewise.

## 1. Inventory

| component | state it keeps | operations | talks to |
|---|---|---|---|
| registry rows (`store.go`) | one row per (root, agent, adapter, target): state, counters, deadlines | `Upsert`, `ReplaceSessionAdapter`, `RestoreSessionAdapterIfUnchanged`, `UpdateEntry(ies)`, `Forget(Many)`, `CheckTargetAvailable` | called by every command |
| registry file and locks (`store.go`, `flock_unix.go`) | the JSON file, its temporary files, `registry.lock`, the registration lease (flock and in-process semaphore), a mutex | `Load`, `saveUnlocked`, `withLock`, `WithRegistrationLockContext` | other processes, through the file system |
| registration (`app.go`) | the reservation it made, the rows it displaced | `attach`, `reattach`, `--no-start`, `--retire-detached`, `forget` | registry, adapter, wake start |
| supervisor (`app.go`, `supervisor.go`) | the snapshot of a pass; per row the state, `FailureCount`, `BackoffUntil`, `NextHealthCheck`, `DetachedSince` | one pass per interval: probe, ensure the wake, back off, detach, save by compare-and-swap | registry, adapter, wake start |
| wake start (`runner.go`) | ready file, child, reaper goroutine, timer, context | `StartWake` | `amq wake` |
| cmux adapter (`cmux.go`) | an inventory of one `system.tree` | `Inventory`, `Probe`, `NormalizeTarget`, `OwnershipKey`, `PhysicalIdentityKey`, `Inject` | the `cmux` command |
| ghostty and file adapters | none | `Discover`, `Probe`, `Inject` | AppleScript, a file |
| `gc`, `doctor`, `retire-session` (`app.go`) | none: reports (`--apply` is refused) | | registry, adapters |
| SessionStart hook (`hooks/`) | a shared deadline, watchdog and result files | reattach, verify with `amq who`, warn | the tool, `amq`, `cmux` |
| hook installer (`internal/hookinstall/`) | the script, Claude Code's and Codex's configuration, their backups | `install-hook` | files that users and agents write, too |
| launchd installer (`internal/launchd/`) | the plist | `install-launchd`, `uninstall` | `launchctl` |

What makes it hard:

* **Processes interleave.** Commands and passes are separate processes; a
  transaction reads, spawns, waits for seconds and writes.
* **Children outlive their parents.** A wake whose readiness was not seen in time
  may still become ready. Nobody may kill it, so the registry must remember it.
* **Partial failure.** A save can fail before or after its rename; a process can
  die anywhere; a wait can be cancelled.
* **Absence is not ignorance.** Only a proven absence may detach a row; a tree
  that cannot be read, or two surfaces on one tty, must fail closed.
* **No locks.** Configuration files, plists and the input lines of terminals are
  changed in several steps while users, agents and other programs use them.
* **Old data.** Registries from before targets were normalised hold two rows for
  one terminal.

What makes each component correct: a transaction excludes the others and leaves
one of its promised outcomes (`SessionRegistry`); a terminal has one owner; a
wake is started only for a row in the registry that owns its target, is never
orphaned by a rollback, and a row is active only after readiness; a start reports
success or failure only when it is certain (`WakeOutcome`); an acknowledged
update survives; every row is retried in time and converges; detachment means
what `gc` takes it to mean; an injection submits its own text and no other wake's;
and an installation loses nothing of the user's, and does what it reports.

## 2. Modules

```
WakeOutcome     <-- implemented by --  WakeStart
SessionRegistry <-- implemented by --  Registration -- extends --> RegistryStore
                                                                        ^
                                                  CmuxOwnership -- extends
                                                        |
                            Injection -- extends --> CmuxInventory
Reconciler (one row over time)          RegistryFile (the file and the locks)
SessionStartHook (the script that calls the commands)
Installers -- extends --> HookInstall, LaunchAgent
```

`RegistryStore` - the operations of `store.go` on rows, as pure operators. The
registry is a function from row identities to a row's status or `NoRow`. `EntryID`
hashes root, agent, adapter and target; the model's identity is a pair of a session
(root and agent) and a target (adapter and target as stored). Two rows *collide* when
their targets have one normal form (`canonicalStoredTarget`).

`SessionRegistry` (abstract) - one step for each outcome a command promises:
reserve, mark ready, roll back, reinstate, forget, one pass.

`Registration` - the core. Every process runs the steps between which others can
see a difference: take the lease, check, reserve (one save), start the wake, wait
for it, record or restore (one save), release. The children (`TakeWakeLock`,
`PublishReady`, `AcceptExisting`, `FailToStart`, `Exit`) are the environment.
Actions and code: `Request` to `Reserve` are `registerWithOptions` up to the save
of the reservation; `StartWake` spawns; `WakeReady`, `WakeFailed`, `WakeUncertain`
are the three results of `StartWake` as `resolveRegistrationReadinessFailure`
tells them apart; `Restore` and `Record` end a registration; `Load`, `Take`,
`Defer`, `Judge`, `EnsureWake`, `Commit` are `superviseOnce`. A crash drops the lease
(the kernel drops the flock) and leaves child and reservation. A save may fail
before or after the rename.

`WakeOutcome` (abstract) and `WakeStart` - one `StartWake`. The caller's poll loop,
`waitForWakeReady`'s select, the second look after a timeout and the reaper's
wait, stat, remove and send are separate steps; the process may end at any of them
(`Die`), and a later start clears old ready files away (`Scavenge`). The contract: *success* only if
readiness was published, *failure* only if the process is gone and it never was,
*uncertain* otherwise.

`Reconciler` - one row through time: passes, commands, failures, `gc`, with a
clock. `Pass` is one whose verdict is saved; `PassLost` has looked at the target and leaves the row
as it was, because it was cancelled before a verdict or its verdict was not saved. Delays are computed as `exponentialBackoff` and `jitter` do, from maxima that
are constants.

`RegistryFile` - the semaphore and the flock of the lease, the mutex and the flock
of each operation, the save step by step, and what survives a crash or a power
loss (the rename is durable once the directory is synced).

`CmuxInventory` - from a `system.tree` to an inventory: which surfaces are live, on which
device, and whether they are alone there. `CmuxOwnership` - what registration and
passes conclude from it. `RegistryStore` supplies the collisions of stored
targets.

`Injection` - `amq-keepalive inject` with the cmux and the Ghostty adapter. `Prove` is
the fresh inventory (for Ghostty, the count of terminals with the id), `Type` the text,
`Press` the Enter, `GiveUp` each error return, the cancelled settle delay included. Between
them surfaces appear and disappear (`Rearrange`) and the user submits or deletes the
line (`UserTakes`). `Type` and `Press` may have their effect and report an error. That
each wake has a surface of its own is what `SpawnOwned` and `EnsuredAlone` establish, and
that its injections do not overlap is AMQ's doing; both are assumptions here.

`HookInstall` - `install-hook`. `WriteScript`, `Load`, `Backup`, `Replace` are
`writeExecutableIfChanged`, `loadJSONObject`, `backupIfExists` and `writeFileAtomic`; `Installed`
is what `installClaudeHook` and `installCodexHook` make of a document. A document is the
registrations of the script in it (timeout in the command, timeout of the host, the user's
additions to the command) and the rest, of which the model tells apart whether Codex's
installer overwrites it: what stands where the list of the first entry's hooks should be.
A host timeout and a `statusMessage` that are not this tool's are one thing, `None`.

`LaunchAgent` - `install-launchd` and `uninstall`. `Check`, `WritePlist`, `Bootout`, `Bootstrap`,
`Kickstart`, `RemovePlist` are the calls in `Install` and `Uninstall`; launchd is a map from
labels to the settings of the loaded agent.

`Installers` - the two, for one run of TLC. They share no state, so that a behaviour is one
of either and not an interleaving of both.

`SessionStartHook` - `hooks/amq-keepalive-session-start.sh` with a clock. The script,
the command it waits for and the watchdog are three processes; `Work` and `Notify` are
its two calls of `run_bounded`, whose wait, kill of the watchdog and look at the marker
are `Wait`, `StopWatchdog`, `Look`; `Watch` to `Kill` are the watchdog's lines. The budgets
are the script's integer arithmetic. `SECONDS` is the difference of whole seconds of
the clock, as bash computes it. A command that is killed here is a `Crash` or
`CancelAwait` in `Registration`. The script's own steps take no time.

The proofs (section 5) have modules of their own: `RegistrationProofs`, `RegistryFileProofs`,
`ReconcilerProofs`, `WakeStartProofs`, `CmuxOwnershipProofs`, `InjectionProofs`,
`SessionStartHookProofs` and `InstallersProofs`.

Each `MC` module gives the constants values for TLC. Definitions marked *Mutant*
are wrong variants of the definition after them: no specification uses them, and
each property is broken by at least one.

## 3. Runs

| run | question | bounds |
|---|---|---|
| `registration` | do concurrent commands, a pass and late children keep the registry right, and implement `SessionRegistry`? | 2 commands, 1 supervisor, 2 sessions, 2 targets, 2 wake slots, 1 fault |
| `registration_legacy` | the same with `forget` and `supervise --once`, also from registries with collisions; and is a reservation that nobody waits for judged in the end? | as above with 1 wake slot, initial registries with two rows for one terminal and without; fairness |
| `wake_start` | does `StartWake` keep its contract in every race and return? | none: one call is finite |
| `wake_race` | *violated*: readiness wins a timeout race | |
| `reconciler` | deadlines, ages, convergence of one row | delays in small numbers, in the order of the code's; `FailureCount` capped at 3, where both delays have reached their maximum |
| `gc_continuity` | *violated*: a gc candidate was never seen present | as above |
| `registry_file` | lost updates, durability, blocked readers, deadlock of the locks | 2 processes, 4 calls, one of each fault |
| `cmux_ownership` | is exactly the unambiguous accepted, ensured, detached? | every tree of up to 3 listed surfaces, read or unreadable; an empty registry and two legacy ones, grown by commands |
| `session_start_hook` | does the hook answer in time and truthfully, whatever hangs or is killed when? | timeouts of 1 to 4 s, a clock in half seconds, started at either half |
| `injection` | whose text is submitted, and is what was reported delivered gone from the line? | 2 wakes with 2 injections each, 3 surfaces on 2 ttys, cmux and Ghostty |
| `installers` | does any overlap or failure of installations lose an edit or a foreign plist, or make a report untrue? | `install-hook`: 2 runs by 2 processes, 2 timeouts, 2 edits, 2 seconds, 4 pairs of configurations; `install-launchd` and `uninstall`: 2 runs after every state that earlier ones may have left, 2 labels, 2 paths, 2 settings |

Why these bounds are enough to be interesting. A collision takes two sessions and
one terminal; a displaced row takes a session with two adapters; a lost row takes
two commands and one child; the supervisor adds a third party. One fault is
enough to separate every pair of neighbouring steps, and the results of a fault do
not depend on an earlier one. `StartWake` is called once per transaction, and its
states are finite without a bound. A tree of three surfaces has a pair
that shares a device and a bystander, which is what `AcceptedExactly` is about.
Timeouts of 1 to 4 seconds cover no, a cut and a full budget for stdin, and half
seconds tell a SECONDS that is exact from one that is ahead. Two injections of each
wake let one that was given up leave text for the next, of its own wake or the other's.
Two runs of an installer are one after another or overlap, and the state they start from
stands for any number of earlier ones; one second on the clock lets two backups fall
into the same second or not. One of the two labels is changed by XML's escapes.

Symmetry: commands and wake slots are interchangeable in every safety run of
`Registration`, and sessions too where the registry starts empty; the run that
checks liveness uses no symmetry. Operators, installers, paths and settings of `installers` are
interchangeable, too. `registry_file` does not check deadlock, because its
calls are made once and the system then really stops; that nobody is stuck before is
`EveryoneFinishes`. Every other run checks deadlock.

What the runs say, property by property:

* `SnapshotStable`: the rows a pass judged are the ones it replaces, because transactions
  never overlap (`LeaseExclusion`, which section 5 proves).
* `TargetHasOneOwner`: no sequence of commands, crashes and rollbacks gives a
  terminal to two sessions, if the registry began without such a pair.
* `ReservationHeld`, `WakeNeverOrphaned`: a reservation stays until it is decided;
  a rollback happens only when no child that may become ready is left.
* `WakeKeepsItsRow`: a wake that runs or may still come up has the very row it was
  started for, until a later reservation of its session or a `forget` takes it
  (`replaced` remembers whose row was taken). No crash, failed save, timeout or
  rollback does.
* `ActiveWasReady`, `SpawnOwned`: active rows had a ready wake; a wake is only
  spawned for a saved row whose terminal no other row claims.
* `ReservationJudged` (liveness): a supervisor gives every left-over reservation a
  verdict.
* `NoMarkerLeft`, `Returns`, `ImplementsWakeOutcome`: the ready file is gone after a
  certain outcome, and in the end after any; the call returns; the outcome is certain where it
  says so.
* `RetriedInTime`, `NotRetriedEarly`, `Converges`: no deadline is beyond the documented
  maximum (jitter included); no pass acts on a row earlier than its failures of both kinds
  ask for, less the fifth that jitter may take, or than an active row's check interval;
  when the terminal stays, the row follows it.
* `AckedUpdatesSurvive`, `ReadersNotBlocked`, `EveryoneFinishes`: an acknowledged update is
  in the file, also after a power loss; a reader never waits for a wake; nobody waits
  for ever.
* `EnsuredAlone`, `DetachedAbsent`, `AcceptedExactly`: a wake is ensured only for a
  surface alone on its device; rows are detached only when proven absent;
  registration refuses exactly the ambiguous ones.

* `OkMeansVerified`, `KilledMeansTimedOut`: the hook is quiet only after a verified wake,
  and does not mistake a killed command for one that failed by itself.
  `EndsInTime`, `Answers`: it answers within one second of its deadline although its
  parts have watchdogs of their own and may hang. `ReadinessWaitFits`: a reattach
  that need not wait for the lease is not killed while it waits for readiness.
* `LinesUnmixed`: texts of two wakes never become one submission, unless surfaces were
  rearranged after one of them had proven its target. `DeliveredWhole`: who presses Enter
  submits its own text, behind nothing that was reported delivered.
* `EditsRecoverable`: what was ever saved in a configuration is in it or in a backup, with
  the exceptions its comment names: an edit between the backup and the replacement, and
  a backup of the same second. `ReportedInstalled`: an installation that was not disturbed has
  done what it reports, and the host waits for longer than the script may take.
* `ForeignPlistKept`: a plist that is not the tool's is never replaced or removed, unless
  it appeared after the check. `AgentAsReported`: an undisturbed command has done what it
  reports, whatever plists and agents it found.

Two statements of the documentation do not hold, and a run shows each:

1. *Readiness wins a cancellation/timeout race* (`runner.go:186`). Not between the
   reaper's removal of the ready file and its report (`ReadinessWins`). The outcome
   is then uncertain, which the callers handle.
2. *24 hours of continuously proven detachment* (`README.md:148`). Only a pass whose verdict
   is saved resets `detached_since`. `gc` itself, a failed reattach, a pass that is
   cancelled after its probe (`supervisor.go:130-132`) or one that fails to save
   (`app.go:564`) may have seen the target present (`DetachmentContinuous`).

That there is no window which could leave a live wake unregistered (`app.go:261`,
`README.md:103`) does hold, as `WakeKeepsItsRow`. It is not said of a wake whose
reattach gave up waiting and whose reservation a second reattach replaced before the
wake came up: that wake runs without a row of its own, but its session has one
(`WakeNeverOrphaned`).

Three more observations come without a run. The hook's "fixed one-second grace"
(`README.md:174`) is anything up to a second, because bash's SECONDS counts changes of the
wall clock's second; `EndsInTime` and `ReadinessWaitFits` hold nevertheless. `uninstall` reports
`"unloaded": true` (`app.go:1132`) although the error of `bootout` is ignored (`launchd.go:177`):
`AgentAsReported` excepts the agents launchd kept. And a plist whose label XML escapes is not
recognised by the command that wrote it (`launchd.go:259`), which then refuses to replace or remove it.

## 4. Fairness

Safety needs none. `registration_legacy` assumes that a command that was issued and a
supervisor that runs go on (weak fairness of their steps; the timer of `StartWake`
ends every wait). Weak fairness is enough for the lease although its holder
changes, because commands are one-shot: after the last of them only supervisors
want it. It is not assumed that commands are issued or that a wake does anything.
`wake_start` assumes that the caller and the reaper run, that the timer fires, and
that a `select` with a fired timer does not choose the ticker for ever (Go chooses
at random: strong fairness of `GiveUp`). The wake is not assumed to do anything.
`Scavenge` assumes that wakes are started again some day.
`reconciler` assumes that time passes and that passes happen, not all of which are lost; users, terminal and AMQ
are free, and `Converges` is a statement about the runs in which they come to rest.
`registry_file` assumes that every call goes on, except that the body of a
transaction, which waits for a wake, may take for ever. `session_start_hook` assumes
that script and watchdog are scheduled and time passes, and that a reattach that
gets the lease at once ends within its readiness timeout; other commands may hang.

## 5. Proofs

Every safety property and every action property that a passing run checks is a theorem
here, for all values of the constants, and so are both refinements. Each rests on an
inductive invariant, which says what is true between the steps that the property does
not mention, and on the assumption about the constants that its module states. What is
left to TLC is at the end of the section.

### Registration

For all values of the constants that meet the assumption `RegistrationAssumption`
(any number of commands, supervisors, sessions, adapters, targets and wakes) TLAPS
checks, in `RegistrationProofs`:

* `TypeCorrect`, `TransactionsExclude`, `SnapshotsAreStable`, `ReservationsAreHeld`;
* `TargetsHaveOneOwner`, which also assumes `CleanStart`: the initial registries have
  no collision;
* `RegistrationImplementsSessionRegistry`: the step simulation.

`SnapshotStable` and `ReservationHeld` are not inductive. The inductive invariant is
`TypeInv` (types), `StageOK` (a process that is inside holds the lease, and its locals fit
its stage), `WakeIDOK` (a wake slot in use has an entry) and
`TransactionInv`, which relates the rows on file to the
locals: before the reservation nothing is changed (`PendingOK`), after it the file is the
reserved registry (`HeldOK`), during a pass it is the snapshot (`PassOK`), and
before the last save the rows to be written are those of a promised outcome
(`RecordOK`). It says what the holder of the lease may assume of the file, and it
is preserved because everyone else is outside. The proof goes by actions;
those of the children touch none of these variables. `OwnerInv` adds that what a
rollback would restore is free of collisions as well. The module begins with
the facts about the row operations: what they leave, remove and keep free of
collisions.

Four theorems concern the wakes, each on top of `TransactionInv`:

* `SpawnsAreOwned`. Between reservation and start nobody else can claim the candidate's
  terminal (`StartOwned`), because the check was made under the same lease. A pass looks
  for other claimants itself, so that collisions from old registries do no harm and `CleanStart` is
  not needed.
* `ActiveRowsWereReady`. `ReadyInv` demands that not only the file but every set of rows that
  may be written back (the snapshot, the judged rows) is vouched for, and that a process
  that waits learns of its own candidate (`AwaitsItsWake`).
* `WakesKeepTheirSession`, which assumes `NobodyForgets`: `forget` removes a row whatever its
  wake does, as it is documented to. Before a start is decided, every other wake of the session
  that may come up has a row among those that a rollback brings back (`RollbackOK`).
* `WakesKeepTheirRows`, with or without `forget`: before a start is decided, the row which a rollback
  would drop is no other wake's, unless an earlier command had taken it from that wake (`DropOK`); and
  when it is dropped, the wake that it was made for is certain to have failed.

### The registry file

`RegistryFileProofs` proves `AckedUpdatesAreDurable`. `FileInv` says that whoever works on the
file holds the flock (`SaveInv`), so that what a thread has read still has every
acknowledged update when it writes; that what is renamed was synced; and that everything a
power loss may leave has the acknowledged updates, which is why an update is acknowledged
only after the directory is synced. The assumption `FileAssumption` includes that a set of updates is
never mistaken for a torn or a missing file.

`TransactionsAreSerial` is what `Registration` takes as given: at most one thread of all processes
is inside a transaction. No cancellation, crash or release of another thread drops the flock under a
transaction that goes on. `LockInv` reads off from every thread's place whether it has semaphore and
flock; `FileTypeCorrect` follows from both invariants.

### One row over time

`ReconcilerProofs` proves `RowsAreRetriedInTime` and `RowsAreNotRetriedEarly` for all delays and any
cap on the counted failures. `DelaysAreBounded` says that a delay with its jitter is at most the
maximum whatever the power of two before it, because `exponentialBackoff` and `jitter` cut it off,
and `DelaysAreNotCutShort` that cuts and jitter take no more than a fifth.
The invariant `RowInv` adds which deadlines a state may have (`DeadlinesFitState`): a row that
returns from *detached* must not keep the deadline of a detached one, which may be longer. And it
adds (`DelaysAreKept`) that what is left of a delay and the time since the last verdict make up the
delay which the failures ask for, whoever looked in between, and that the row counts all failures in a
row, of either kind (`misses`).

### cmux: ownership and injection

The properties of `CmuxOwnership` speak of everything a tree lists; the code decides by one
device of each surface and by the set of owners of that device. `CmuxOwnershipProofs` shows that
the two agree in every readable tree (`AloneOnDeviceMeans` and the lemmas around it), which gives
`EnsuredAreAlone`, `DetachedAreAbsent` and `AcceptedAreExact`. `CmuxAssumption` has it that a
surface is its own canonical form.

`InjectionProofs` proves `SubmissionsAreUnmixed`. A target is not proven again before the text
and the Enter. `LineInv` says what holds instead: an undisturbed injection's target is as it was
proven (`PendingInv`), and so is that of every undisturbed text left on a line, also when its
injection was given up (`WaitingInv`). Two proven targets do not share a device
(`SharedDevice`), so what one Enter submits is of one wake.

`DeliveriesAreWhole` needs to know in addition which attempts are used up (`UsedInv`: what is on a
line was begun and will not be typed again; what was delivered was begun and is over) and that the line of an undisturbed
attempt ends with its text until it presses Enter (`EnterInv`), although injections of
the same wake may have left theirs before it. `InjectionAssumption` has it that no two wakes serve one
surface.

### One start

`WakeStartProofs` proves `WakeTypeCorrect` and `WakeStartImplementsOutcome`. `WakeStart` has no
constants and `wake_start` already checks it completely; the proof says why it holds. A
returned failure must mean that readiness was never published, although the reaper removes
the file that would show it. The inductive invariant `WakeInv` therefore follows a published
readiness as long as the caller may still decide (`ReadinessKept`): it is in the file until
the reaper has looked, then in what the reaper saw, then in its result. `CallerInv` and
`ReaperInv` say who may be where: a caller that has taken the result and was not told of
readiness knows that there was none.

`MarkersAreTaken` is the safety half of `NoMarkerLeft`: after a certain outcome there is no ready
file, because caller and reaper each remove what they have seen, and the wake publishes once
(`MarkerInv`).

### The SessionStart hook

`SessionStartHookProofs` takes any timeouts and any grain of the clock that divides a second. It proves
`HooksEndInTime`, `ReadinessWaitsFit`, `QuietMeansVerified` and `KillsAreTimeouts`, which no finite run can
say of all timeouts. Time only advances to the next multiple of the grain, so that a deadline
is never jumped over; therefore all times are on its grid (`GridInv`), and what is pending is not yet over
(`ClockInv`). The rest of `HookInv` says how the budgets and places of script, command and watchdog
fit (`StageInv`), how much of a prompt reattach's budget is left while it waits for readiness
(`ReattachInv`), that a killed command has its marker or a watchdog about to write it
(`KillInv`), and what is behind a quiet answer (`OkInv`). The arithmetic is in `Budgets`
and `NotifyFits`: SECONDS, which counts whole seconds, is at most one ahead of the time passed.

### The installers

`InstallersProofs` proves each installer's promises of its own specification (`HookSpec`,
`LaunchSpec`) and, in `InstallersAreIndependent`, that the composition which the run checks
implements both, so that they hold of it as well.

`install-hook`, for any number of processes, files, edits and timeouts (`HookInstallAssumption`: a
document is never mistaken for a missing or a broken file):

* `EditsAreRecoverable`. The inductive part of `HookInv` is `RecoverInv`: what a process is going to
  write has come from a file whose content is on file, in a backup or excepted, and what it is going to
  replace has its backup. That others write the same file or the same
  backup in between is covered by `NothingLost`, which every step satisfies: no content that is kept,
  in a backup or as an exception, is lost.
* `InstallationsAreAsReported`. What was done for one agent must stay in effect while the installation
  goes on with the next (`DoneInv`). `InstallingIsEffective` is the fact about
  `installClaudeHook` and `installCodexHook` it rests on: whatever registrations they find, duplicates,
  wrong timeouts and none included, they leave at least one, each with the requested timeout and a host that
  waits for longer; they change nothing that is already so, and bring in nothing that was not there.

`install-launchd` and `uninstall`, for any number of overlapping commands and from every state of
plists and agents (`LaunchAgentAssumption`: labels, paths and settings are any sets, a plist of this
tool is never mistaken for none or a foreign one):

* `AgentsAreAsReported`: what an undisturbed command reports is so;
* `ForeignPlistsAreKept`.

The inductive invariant `LaunchInv` says, step by step, what a command that nobody disturbed
may rely on (`InstallInv`, `UninstallInv`): between check and change the plist may be changed,
after the change it is the command's, after bootstrap or bootout the agent is too. Other
processes either leave it alone or end the calm of the command.

### Only model-checked

Liveness under fairness, which the prover does not handle: `ReservationJudged`, `Returns`, the second
half of `NoMarkerLeft`, `Converges`, `ReadersNotBlocked`, `EveryoneFinishes`, `Answers`. That the systems do
not stop half-way (deadlock), because ENABLED is out of reach, too. And what does not hold: the
counterexamples of `wake_race` and `gc_continuity` are TLC's.

Two theorems need more than the assumptions of the modules: `TargetsHaveOneOwner` a registry that
began without collisions, such as an empty one; and
`WakesKeepTheirSession` that nobody runs `forget`. The runs `registration` and `registration_legacy` show
what happens with and without.

## 6. Not modelled

* `doctor`, `retire-session`: read-only reports. Flag parsing, discovery, output.
* The probes of the Ghostty and file adapters: their verdict is an input. The file adapter's
  injection is one write.
* The text of payloads, file modes, JSON; what the user types into a terminal; the names of
  temporary files, which `CreateTemp` makes fresh.
* A ready file that grows a day old while its start still waits for it. Starts on one registry
  follow each other under the lease, so that `Scavenge` meets the files of earlier ones only.
* A tree that changes between the reading and the start of a wake, in `CmuxOwnership`: its
  answers are about the tree that was read. What may change later is in `Injection`, where every
  injection proves its target again.
* `install-hook --dry-run`, which writes nothing, and a power loss during an installation,
  whose directories are not synced.
* In the hook: a process number used again between the watchdog's look and its
  signal, and the tools the killed shell function had started, which are sent
  TERM and end by themselves.

## 7. Plan

Done first: `RegistryStore`, `Registration` and its abstraction, because every
promise of the README about recovery rests on them; then `WakeStart` (whose contract
`Registration` uses), `Reconciler`, `RegistryFile`, `CmuxOwnership`, `SessionStartHook`; the
proofs about `Registration`; then `Injection` and the two installers, and the other proofs.

Then the proofs about all other modules: the deadlines of `Reconciler` and of the hook for every delay and
timeout, both installers, whole deliveries, the serial transactions of `RegistryFile`.

Next: that an acknowledged row of `Registration` is what `RegistryFile` keeps, as a refinement between
the two (an update of the file for a save of the registry); and that a wait for `StartWake` in `Registration`
has the outcomes of `WakeOutcome`, which now are related by name only.
