---------------------------- MODULE Registration ----------------------------
(***************************************************************************)
(* The registration transaction of amq-keepalive: attach, reattach (with   *)
(* and without --retire-detached), forget and the supervisor pass, run by  *)
(* concurrent processes which share the registry file and its registration *)
(* lease (internal/app/app.go), start AMQ wake processes they never signal *)
(* (internal/amq/runner.go), and may fail to save, be cancelled or crash   *)
(* between any two steps.                                                  *)
(*                                                                         *)
(* A client is one run of the command line: it carries out one command and *)
(* is done.  A daemon is `supervise`: it makes one pass after another.     *)
(*                                                                         *)
(* Definitions marked "Mutant" are wrong variants of the definition that   *)
(* follows them.  No specification uses them; they serve to confirm that   *)
(* the properties at the end notice the mistake.                           *)
(***************************************************************************)
EXTENDS RegistryStore, Naturals

CONSTANTS
    Clients,    \* command-line processes
    Daemons,    \* supervisor processes
    ClientOps,  \* the commands the clients may run
    Inventoried,\* the targets whose adapter lists an inventory
    Wakes,      \* slots for spawned AMQ wake processes
    InitRegs,   \* the registries the system may start from
    MaxFaults,  \* bound on crashes, cancellations and failed saves
    NoProc, NoID, NoWake

Procs == Clients \cup Daemons

(* "reserved" is an attached entry without deadlines, as register writes   *)
(* it; "backoff" is an attached entry that has a BackoffUntil.             *)
Status == {"reserved", "backoff", "active", "detached"}

Registry == [ID -> Status \cup {NoRow}]

Register == {"attach", "reattach", "recover"}
Replacing == {"reattach", "recover"}
Op == Register \cup {"forget", "supervise"}

Stage == {"waiting", "begin", "reserve", "start", "await", "restore",
          "record", "pass", "done", "idle"}

WakePhase == {"idle", "starting", "locked", "live", "exited", "failed"}

ASSUME RegistrationAssumption ==
    /\ Clients \cap Daemons = {}
    /\ NoProc \notin Procs
    /\ NoID \notin ID
    /\ NoWake \notin Wakes
    /\ NoRow \notin Status
    /\ ClientOps \subseteq Op
    /\ InitRegs \subseteq Registry
    /\ MaxFaults \in Nat

VARIABLES
    reg,        \* the registry file
    lease,      \* the holder of the registration lease
    pc,         \* where each process is
    op,         \* the command each process runs
    cand,       \* the entry it works on: next, or the row of the pass
    saved,      \* the rows ReplaceSessionAdapter removed, or Load's snapshot
    after,      \* the rows as the transaction means to leave them
    todo,       \* the rows the pass has not reached
    wake,       \* the wake process StartWake waits for
    phase,      \* external: where each wake process is
    wakeID,     \* external: the entry each wake process serves
    published,  \* history: the entries a wake published readiness for
    replaced,   \* history: the wakes whose row a later command took away
    faults      \* counts crashes, cancellations and failed saves

locals == <<op, cand, saved, after, todo, wake>>
wakes == <<phase, wakeID, published, replaced>>
vars == <<reg, lease, pc, locals, wakes, faults>>

TypeOK ==
    /\ reg \in Registry
    /\ lease \in Procs \cup {NoProc}
    /\ pc \in [Procs -> Stage]
    /\ op \in [Procs -> Op]
    /\ cand \in [Procs -> ID \cup {NoID}]
    /\ saved \in [Procs -> Registry]
    /\ after \in [Procs -> Registry]
    /\ todo \in [Procs -> SUBSET ID]
    /\ wake \in [Procs -> Wakes \cup {NoWake}]
    /\ phase \in [Wakes -> WakePhase]
    /\ wakeID \in [Wakes -> ID \cup {NoID}]
    /\ published \subseteq ID
    /\ replaced \subseteq Wakes
    /\ faults \in 0 .. MaxFaults

Init ==
    /\ reg \in InitRegs
    /\ lease = NoProc
    /\ pc = [p \in Procs |-> "idle"]
    /\ op = [p \in Procs |-> "supervise"]
    /\ cand = [p \in Procs |-> NoID]
    /\ saved = [p \in Procs |-> EmptyRegistry]
    /\ after = [p \in Procs |-> EmptyRegistry]
    /\ todo = [p \in Procs |-> {}]
    /\ wake = [p \in Procs |-> NoWake]
    /\ phase = [k \in Wakes |-> "idle"]
    /\ wakeID = [k \in Wakes |-> NoID]
    /\ published = {i \in ID : reg[i] = "active"}
    /\ replaced = {}
    /\ faults = 0

-----------------------------------------------------------------------------
(* Pieces of the steps.                                                    *)

Fault == faults < MaxFaults /\ faults' = faults + 1

NoFault == UNCHANGED faults

(* saveUnlocked: an error before the rename leaves the old file, one after *)
(* it (chmod, directory fsync) the new file, and both return an error.     *)
SaveOK(rows) == reg' = rows /\ NoFault
SaveFailed(rows) == reg' \in {reg, rows} /\ Fault

Goto(p, stage) == pc' = [pc EXCEPT ![p] = stage]

(* The deferred flockRelease; the locals die with the transaction.         *)
Leave(p) ==
    /\ pc' = [pc EXCEPT ![p] = IF p \in Daemons THEN "idle" ELSE "done"]
    /\ op' = [op EXCEPT ![p] = "supervise"]
    /\ cand' = [cand EXCEPT ![p] = NoID]
    /\ saved' = [saved EXCEPT ![p] = EmptyRegistry]
    /\ after' = [after EXCEPT ![p] = EmptyRegistry]
    /\ todo' = [todo EXCEPT ![p] = {}]
    /\ wake' = [wake EXCEPT ![p] = NoWake]

Release(p) == Leave(p) /\ lease' = NoProc

(* cmd.Start: from here on nobody signals the process.                     *)
Spawn(p, i, k) ==
    /\ phase[k] = "idle"
    /\ phase' = [phase EXCEPT ![k] = "starting"]
    /\ wakeID' = [wakeID EXCEPT ![k] = i]
    /\ wake' = [wake EXCEPT ![p] = k]
    /\ UNCHANGED <<published, replaced>>

(* The history of the rows that wakes were started for: a reservation and  *)
(* a forget may take them away, and a rollback puts them back.             *)
TakesRows ==
    /\ replaced' = replaced \cup
           {k \in Wakes : /\ phase[k] # "idle"
                          /\ reg[wakeID[k]] # NoRow /\ reg'[wakeID[k]] = NoRow}
    /\ UNCHANGED <<phase, wakeID, published>>

PutsRowsBack ==
    /\ replaced' = {k \in replaced : reg'[wakeID[k]] = NoRow}
    /\ UNCHANGED <<phase, wakeID, published>>

-----------------------------------------------------------------------------
(* Lease.                                                                  *)

(* A process asks for the lease, to run command o on entry i.              *)
Request(p, o, i) ==
    /\ pc[p] = "idle"
    /\ o \in IF p \in Daemons THEN {"supervise"} ELSE ClientOps
    /\ (o = "supervise") <=> (i = NoID)
    /\ o \in Register => Canon[i[2]] = i[2]
    /\ Goto(p, "waiting")
    /\ op' = [op EXCEPT ![p] = o]
    /\ cand' = [cand EXCEPT ![p] = i]
    /\ UNCHANGED <<reg, lease, saved, after, todo, wake, wakes, faults>>

(* Mutant: the lease is not exclusive.                                     *)
AcquireHeld(p) ==
    /\ pc[p] = "waiting"
    /\ lease' = p
    /\ Goto(p, "begin")
    /\ UNCHANGED <<reg, locals, wakes, faults>>

Acquire(p) ==
    /\ pc[p] = "waiting"
    /\ lease = NoProc
    /\ lease' = p
    /\ Goto(p, "begin")
    /\ UNCHANGED <<reg, locals, wakes, faults>>

(* The context ends while the process polls for the lease.                 *)
CancelWait(p) ==
    /\ pc[p] = "waiting"
    /\ Leave(p)
    /\ Fault
    /\ UNCHANGED <<reg, lease, wakes>>

(* The kernel drops the lease with the process; its wake lives on.         *)
Crash(p) ==
    /\ pc[p] \notin {"idle", "done"}
    /\ Leave(p)
    /\ lease' = IF lease = p THEN NoProc ELSE lease
    /\ Fault
    /\ UNCHANGED <<reg, wakes>>

-----------------------------------------------------------------------------
(* attach and reattach: registerWithOptions.                               *)

(* The inventory, physical-ownership or target check fails.                *)
Refuse(p) ==
    /\ pc[p] = "begin"
    /\ op[p] \in Register
    /\ Release(p)
    /\ UNCHANGED <<reg, wakes, faults>>

Preflight(p) ==
    /\ pc[p] = "begin"
    /\ op[p] \in Register
    /\ op[p] \in Replacing => ConflictingTargetOwners(reg, cand[p], TRUE) = {}
    /\ Goto(p, "reserve")
    /\ UNCHANGED <<reg, lease, locals, wakes, faults>>

(* Mutant: the store relies on the caller's preflight.                     *)
AvailableUnchecked(p) == op[p] \in Register

(* The check that Upsert and ReplaceSessionAdapter repeat before saving.   *)
Available(p) ==
    ConflictingTargetOwners(reg, cand[p], op[p] \in Replacing) = {}

(* Mutant: prepareEntry leaves the state of a new entry empty.             *)
ReservationStateless(p) == Upsert(reg, cand[p], "")

Reservation(p) ==
    IF op[p] \in Replacing THEN ReplaceSessionAdapter(reg, cand[p], "reserved")
                           ELSE Upsert(reg, cand[p], "reserved")

Reserve(p) ==
    /\ pc[p] = "reserve"
    /\ Available(p)
    /\ SaveOK(Reservation(p))
    /\ Goto(p, "start")
    /\ saved' = [saved EXCEPT ![p] = Removed(reg, cand[p])]
    /\ TakesRows
    /\ UNCHANGED <<lease, op, cand, after, todo, wake>>

(* --no-start.                                                             *)
ReserveOnly(p) ==
    /\ pc[p] = "reserve"
    /\ Available(p)
    /\ SaveOK(Reservation(p))
    /\ Release(p)
    /\ TakesRows

ReserveFailed(p) ==
    /\ pc[p] = "reserve"
    /\ \/ ~Available(p) /\ UNCHANGED <<reg, faults>>
       \/ Available(p) /\ SaveFailed(Reservation(p))
    /\ Release(p)
    /\ TakesRows

(* recoverDetachedRegistration refuses a session that had several rows.    *)
MayStart(p) ==
    op[p] = "recover" => \A i, j \in Present(saved[p]) : i = j

StartWake(p, k) ==
    /\ pc[p] = "start"
    /\ MayStart(p)
    /\ Spawn(p, cand[p], k)
    /\ Goto(p, "await")
    /\ UNCHANGED <<reg, lease, op, cand, saved, after, todo, faults>>

(* A verdict on the candidate: reattach gives the reservation up unless    *)
(* the wake's readiness is certain, attach records whatever it is.         *)
Conclude(p, status) ==
    /\ after' = [after EXCEPT ![p] = [EmptyRegistry EXCEPT ![cand[p]] = status]]
    /\ Goto(p, IF op[p] \in Replacing /\ status # "active" THEN "restore"
                                                            ELSE "record")

(* No wake was started: the target is gone, its probe or the start failed, *)
(* recovery refused, or the context had ended.                             *)
NotStarted(p) ==
    /\ pc[p] = "start"
    /\ \/ Conclude(p, "backoff") /\ NoFault
       \/ cand[p][2] \notin Inventoried /\ Conclude(p, "detached") /\ NoFault
       \/ Conclude(p, "reserved") /\ Fault
    /\ UNCHANGED <<reg, lease, op, cand, saved, todo, wake, wakes>>

-----------------------------------------------------------------------------
(* Waiting for readiness; the outcomes of StartWake.                       *)

(* What a verdict does next: registration concludes, a pass goes on.       *)
Verdict(p, status) ==
    /\ wake' = [wake EXCEPT ![p] = NoWake]
    /\ IF op[p] = "supervise"
       THEN /\ after' = [after EXCEPT ![p][cand[p]] = status]
            /\ Goto(p, "pass")
       ELSE Conclude(p, status)

Awaits(p, phases) == pc[p] = "await" /\ phase[wake[p]] \in phases

(* Mutant: any exit of the process is taken for readiness.                 *)
WakeReadyOnExit(p) ==
    /\ Awaits(p, {"live", "exited", "failed"})
    /\ Verdict(p, "active")
    /\ UNCHANGED <<reg, lease, op, cand, saved, todo, wakes, faults>>

WakeReady(p) ==
    /\ Awaits(p, {"live", "exited"})
    /\ Verdict(p, "active")
    /\ UNCHANGED <<reg, lease, op, cand, saved, todo, wakes, faults>>

(* The process is known to have exited without becoming ready.             *)
WakeFailed(p) ==
    /\ Awaits(p, {"failed"})
    /\ Verdict(p, "backoff")
    /\ UNCHANGED <<reg, lease, op, cand, saved, todo, wakes, faults>>

(* Mutant: a timeout rolls the reservation back.                           *)
WakeUncertainRollsBack(p) ==
    /\ pc[p] = "await"
    /\ Verdict(p, "backoff")
    /\ UNCHANGED <<reg, lease, op, cand, saved, todo, wakes, faults>>

(* ErrWakeReadinessUncertain after the timeout: the reservation stays, and *)
(* the row is put into backoff.  The process may be in any phase: it comes *)
(* up or exits between the last look at it and the return.                 *)
WakeUncertain(p) ==
    /\ pc[p] = "await"
    /\ wake' = [wake EXCEPT ![p] = NoWake]
    /\ after' = [after EXCEPT ![p] =
                    [(IF op[p] = "supervise" THEN after[p] ELSE EmptyRegistry)
                        EXCEPT ![cand[p]] = "backoff"]]
    /\ Goto(p, IF op[p] = "supervise" THEN "pass" ELSE "record")
    /\ UNCHANGED <<reg, lease, op, cand, saved, todo, wakes, faults>>

(* The context ends while StartWake waits.  The row keeps its state, and a *)
(* pass defers every row it has not reached.                               *)
CancelAwait(p) ==
    /\ pc[p] = "await"
    /\ Fault
    /\ \/ /\ op[p] \in Replacing
          /\ phase[wake[p]] = "failed"
          /\ Goto(p, "restore")
          /\ wake' = [wake EXCEPT ![p] = NoWake]
          /\ UNCHANGED <<lease, op, cand, saved, after, todo>>
       \/ op[p] \in Register /\ Release(p)
       \/ /\ op[p] = "supervise"
          /\ Goto(p, "pass")
          /\ todo' = [todo EXCEPT ![p] = {}]
          /\ wake' = [wake EXCEPT ![p] = NoWake]
          /\ UNCHANGED <<lease, op, cand, saved, after>>
    /\ UNCHANGED <<reg, wakes>>

-----------------------------------------------------------------------------
(* The end of a registration.                                              *)

Restored(p) == RestoreSessionAdapter(reg, cand[p], saved[p])

(* Mutant: the rollback drops the reservation only.                        *)
RestoreNothing(p) ==
    /\ pc[p] = "restore"
    /\ SaveOK(Forget(reg, cand[p]))
    /\ Release(p)
    /\ PutsRowsBack

(* resolveRegistrationReadinessFailure after a definite failure.           *)
Restore(p) ==
    /\ pc[p] = "restore"
    /\ IF Unchanged(reg, cand[p], "reserved")
       THEN SaveOK(Restored(p)) \/ SaveFailed(Restored(p))
       ELSE UNCHANGED <<reg, faults>>
    /\ Release(p)
    /\ PutsRowsBack

(* UpdateEntry; it fails when the entry is gone.                           *)
Recorded(p) == UpdateEntry(reg, cand[p], after[p][cand[p]])

Record(p) ==
    /\ pc[p] = "record"
    /\ IF reg[cand[p]] # NoRow
       THEN SaveOK(Recorded(p)) \/ SaveFailed(Recorded(p))
       ELSE UNCHANGED <<reg, faults>>
    /\ Release(p)
    /\ UNCHANGED wakes

(* Mutant: forget removes the session, not the entry.                      *)
ForgetSession(p) ==
    /\ pc[p] = "begin"
    /\ op[p] = "forget"
    /\ SaveOK([i \in ID |-> IF SameSession(i, cand[p]) THEN NoRow ELSE reg[i]])
    /\ Release(p)
    /\ TakesRows

ForgetEntry(p) ==
    /\ pc[p] = "begin"
    /\ op[p] = "forget"
    /\ IF reg[cand[p]] # NoRow
       THEN \/ SaveOK(Forget(reg, cand[p]))
            \/ SaveFailed(Forget(reg, cand[p]))
       ELSE UNCHANGED <<reg, faults>>
    /\ Release(p)
    /\ TakesRows

-----------------------------------------------------------------------------
(* The supervisor pass: superviseOnce and Reconcile.                       *)

Load(p) ==
    /\ pc[p] = "begin"
    /\ op[p] = "supervise"
    /\ saved' = [saved EXCEPT ![p] = reg]
    /\ after' = [after EXCEPT ![p] = reg]
    /\ todo' = [todo EXCEPT ![p] = Present(reg)]
    /\ Goto(p, "pass")
    /\ UNCHANGED <<reg, lease, op, cand, wake, wakes, faults>>

(* Mutant: the pass compares targets as they are stored.                   *)
ConflictedAsStored(p, i) ==
    \E j \in Present(saved[p]) : i # j /\ i[2] = j[2]

(* targetOwnershipConflicts: every claimant of a shared target.            *)
Conflicted(p, i) == \E j \in Present(saved[p]) : Collide(i, j)

Take(p, i) ==
    /\ pc[p] = "pass"
    /\ i \in todo[p]
    /\ todo' = [todo EXCEPT ![p] = @ \ {i}]

(* Mutant: a reservation is given the deadline of an active row.           *)
DeferAny(p, i) ==
    /\ Take(p, i)
    /\ UNCHANGED <<reg, lease, pc, op, cand, saved, after, wake, wakes, faults>>

(* The row's deadline has not passed; a reservation has no deadline.       *)
Defer(p, i) ==
    /\ Take(p, i)
    /\ saved[p][i] # "reserved"
    /\ UNCHANGED <<reg, lease, pc, op, cand, saved, after, wake, wakes, faults>>

(* The pass finds the target gone, or cannot tell: a conflict, a failed    *)
(* probe or a wake that could not be spawned.                              *)
Judge(p, i, status) ==
    /\ Take(p, i)
    /\ \/ status = "backoff"
       \/ status = "detached" /\ ~Conflicted(p, i)
    /\ after' = [after EXCEPT ![p][i] = status]
    /\ UNCHANGED <<reg, lease, pc, op, cand, saved, wake, wakes, faults>>

EnsureWake(p, i, k) ==
    /\ Take(p, i)
    /\ ~Conflicted(p, i)
    /\ Spawn(p, i, k)
    /\ cand' = [cand EXCEPT ![p] = i]
    /\ Goto(p, "await")
    /\ UNCHANGED <<reg, lease, op, saved, after, faults>>

(* The context ends between two rows: the rest is deferred.                *)
CancelPass(p) ==
    /\ pc[p] = "pass"
    /\ todo[p] # {}
    /\ todo' = [todo EXCEPT ![p] = {}]
    /\ Fault
    /\ UNCHANGED <<reg, lease, pc, op, cand, saved, after, wake, wakes>>

Committed(p) == UpdateEntries(reg, saved[p], after[p])

Commit(p) ==
    /\ pc[p] = "pass"
    /\ todo[p] = {}
    /\ SaveOK(Committed(p)) \/ (Committed(p) # reg /\ SaveFailed(Committed(p)))
    /\ Release(p)
    /\ UNCHANGED wakes

-----------------------------------------------------------------------------
(* External: `amq wake`, as the code relies on it.  A wake takes the one   *)
(* wake lock of its (root, agent), publishes its ready file and stays; it  *)
(* accepts a live wake with its own target by publishing and exiting.      *)

Awaited(k) == \E p \in Procs : wake[p] = k

WakeStep(k, from, to) ==
    /\ phase[k] \in from
    /\ phase' = [phase EXCEPT ![k] = to]
    /\ UNCHANGED <<reg, lease, pc, locals, faults>>

HoldsLock(j) == phase[j] \in {"locked", "live"}

TakeWakeLock(k) ==
    /\ WakeStep(k, {"starting"}, "locked")
    /\ \A j \in Wakes : HoldsLock(j) => ~SameSession(wakeID[j], wakeID[k])
    /\ UNCHANGED <<wakeID, published, replaced>>

PublishReady(k) ==
    /\ WakeStep(k, {"locked"}, "live")
    /\ published' = published \cup {wakeID[k]}
    /\ UNCHANGED <<wakeID, replaced>>

AcceptExisting(k) ==
    /\ \E j \in Wakes : phase[j] = "live" /\ wakeID[j] = wakeID[k]
    /\ WakeStep(k, {"starting"}, "exited")
    /\ published' = published \cup {wakeID[k]}
    /\ UNCHANGED <<wakeID, replaced>>

FailToStart(k) ==
    /\ WakeStep(k, {"starting", "locked"}, "failed")
    /\ UNCHANGED <<wakeID, published, replaced>>

(* A live wake may exit at any time.                                       *)
Exit(k) ==
    /\ WakeStep(k, {"live"}, "exited")
    /\ UNCHANGED <<wakeID, published, replaced>>

(* The slot of a process that is gone and that nobody waits for.           *)
Reap(k) ==
    /\ ~Awaited(k)
    /\ WakeStep(k, {"exited", "failed"}, "idle")
    /\ wakeID' = [wakeID EXCEPT ![k] = NoID]
    /\ replaced' = replaced \ {k}
    /\ UNCHANGED published

-----------------------------------------------------------------------------
LeaseStep(p) ==
    \/ \E o \in Op, i \in ID \cup {NoID} : Request(p, o, i)
    \/ Acquire(p)

RegisterStep(p) ==
    \/ Refuse(p) \/ Preflight(p)
    \/ Reserve(p) \/ ReserveOnly(p) \/ ReserveFailed(p)
    \/ \E k \in Wakes : StartWake(p, k)
    \/ NotStarted(p)
    \/ Restore(p) \/ Record(p) \/ ForgetEntry(p)

AwaitStep(p) ==
    \/ WakeReady(p) \/ WakeFailed(p) \/ WakeUncertain(p) \/ CancelAwait(p)

PassStep(p) ==
    \/ Load(p)
    \/ \E i \in ID : \/ Defer(p, i)
                     \/ \E status \in Status : Judge(p, i, status)
                     \/ \E k \in Wakes : EnsureWake(p, i, k)
    \/ CancelPass(p) \/ Commit(p)

ProcStep(p) == LeaseStep(p) \/ RegisterStep(p) \/ AwaitStep(p) \/ PassStep(p)

ProcFault(p) == CancelWait(p) \/ Crash(p)

AMQStep(k) ==
    \/ TakeWakeLock(k) \/ PublishReady(k) \/ AcceptExisting(k)
    \/ FailToStart(k) \/ Exit(k) \/ Reap(k)

Next ==
    \/ \E p \in Procs : ProcStep(p) \/ ProcFault(p)
    \/ \E k \in Wakes : AMQStep(k)

Spec == Init /\ [][Next]_vars

-----------------------------------------------------------------------------
(* Properties.                                                             *)

InTransaction == Stage \ {"waiting", "done", "idle"}

(* A process is inside the transaction exactly while it holds the lease:   *)
(* registrations, forget and passes never overlap, whoever crashes.        *)
LeaseExclusion == \A p \in Procs : pc[p] \in InTransaction <=> lease = p

(* Two rows never claim one target, if none did when the system started:   *)
(* "a normalized (adapter, target) can have only one registry owner", also *)
(* when a failed reattach puts the rows it had removed back.               *)
TargetHasOneOwner == SoleOwner(reg)

(* When a wake is spawned its entry is in the registry and is the only one *)
(* that claims its target: a legacy collision fails closed for everyone.   *)
SpawnOwned ==
    [][\A k \in Wakes : phase[k] = "idle" /\ phase'[k] = "starting" =>
          /\ reg[wakeID'[k]] # NoRow
          /\ ConflictingTargetOwners(reg, wakeID'[k], FALSE) = {}]_vars

(* From the save of a reattach's reservation to the end of its transaction *)
(* the reservation is the session's only row and nobody has changed it, so *)
(* that the rollback is never refused and the verdict never misses.        *)
ReservationHeld ==
    \A p \in Procs :
        pc[p] \in {"start", "await", "restore", "record"} /\ op[p] \in Replacing
            => Unchanged(reg, cand[p], "reserved")

(* The registry is what the pass loaded until the pass commits, so that no *)
(* compare-and-swap is skipped and no verdict is given on a stale row.     *)
SnapshotStable ==
    \A p \in Procs :
        pc[p] \in {"pass", "await"} /\ op[p] = "supervise" => reg = saved[p]

(* A row is marked active only when a wake has published readiness for     *)
(* exactly that entry; a timeout or a failure never counts as readiness.   *)
ActiveWasReady == \A i \in ID : reg[i] = "active" => i \in published

(* The session of a wake that runs, or may still come up, has a row for a  *)
(* later pass to work on, whichever process crashed or gave up waiting:    *)
(* "the durable registry reservation lets a later pass converge".  Holds   *)
(* as long as no row is forgotten by hand.                                 *)
WakeNeverOrphaned ==
    \A k \in Wakes : phase[k] \in {"starting", "locked", "live"} =>
        \E i \in Present(reg) : SameSession(i, wakeID[k])

(* It has even its own row, which a crash, a failed save, a timeout or a   *)
(* rollback never takes away: there is "no post-readiness commit window    *)
(* which could leave a live wake unregistered".  Only a later reservation  *)
(* of its session, or a forget, does.                                      *)
WakeKeepsItsRow ==
    \A k \in Wakes \ replaced :
        phase[k] \in {"starting", "locked", "live"} => reg[wakeID[k]] # NoRow

(* While a reattach has not learnt whether its wake is ready, the registry *)
(* counts as still holding the rows that the reattach would put back.      *)
Undecided(p) == pc[p] \in {"start", "await", "restore"} /\ op[p] \in Replacing

Rows ==
    IF \E p \in Procs : Undecided(p)
    THEN Restored(CHOOSE p \in Procs : Undecided(p))
    ELSE reg

Abstract == INSTANCE SessionRegistry
                WITH rows <- Rows, Fresh <- "reserved",
                     MayForget <- "forget" \in ClientOps

(* A reattach replaces its session's rows by the candidate in one instant, *)
(* or leaves them all as they were; verdicts change no ownership, and only *)
(* forget takes a session's last row away.                                 *)
ImplementsSessionRegistry == Abstract!SRSpec

(* A reservation is not left behind: while a supervisor keeps running,     *)
(* each is eventually given a verdict, replaced or removed.                *)
ReservationJudged ==
    \A i \in ID : reg[i] = "reserved" ~> reg[i] # "reserved"

-----------------------------------------------------------------------------
(* Fairness.  A command that was started goes on to its end, and a daemon  *)
(* makes pass after pass.  Nothing is assumed of the wakes, and weak       *)
(* fairness is enough for the lease: clients are one-shot, so that after   *)
(* the last of them only daemons compete for it.                           *)
FairSpec ==
    /\ Spec
    /\ \A p \in Daemons : WF_vars(ProcStep(p))
    /\ \A p \in Clients : WF_vars(pc[p] # "idle" /\ ProcStep(p))
=============================================================================
