---------------------------- MODULE RegistryFile ----------------------------
(***************************************************************************)
(* How internal/registry/store.go reads and writes the registry file: the  *)
(* registration lease (a semaphore in the process and a flock between      *)
(* processes), the store lock (a mutex and a second flock) and the         *)
(* replacement of the file by a temporary one, with failing writes,        *)
(* cancelled waits, crashing processes and power loss at any step.  What   *)
(* the updates do to the entries is the matter of RegistryStore.           *)
(*                                                                         *)
(* A thread makes one call: "load" (Store.Load), "update" (one mutation of *)
(* Store) or "transaction" (a mutation under the registration lease, after *)
(* as long as the wake takes).                                             *)
(*                                                                         *)
(* Definitions marked "Mutant" are wrong variants which no specification   *)
(* uses; they confirm that the properties notice the mistake.              *)
(***************************************************************************)
EXTENDS Naturals

CONSTANTS
    Threads,    \* the calls
    Procs,      \* the processes
    ProcOf,     \* the process of each thread
    Call,       \* what each thread does
    MaxFaults,  \* bound on failures, cancellations and crashes
    Nobody,     \* a lock without holder
    Torn,       \* a file that holds no registry
    NoFile      \* a temporary file that does not exist

ASSUME FileAssumption ==
    /\ ProcOf \in [Threads -> Procs]
    /\ Call \in [Threads -> {"load", "update", "transaction"}]
    /\ MaxFaults \in Nat
    /\ Nobody \notin Threads
    /\ Torn # NoFile
    /\ \A content \in SUBSET Threads : content \notin {Torn, NoFile}

VARIABLES
    pc,     \* where each thread is
    token,  \* the registration semaphore of each process
    lease,  \* holder of the flock on registry.json.registration.lock
    mutex,  \* holder of each process' store mutex
    flock,  \* holder of the flock on registry.json.lock
    image,  \* what each thread has read: the updates that are in it
    tmp,    \* the temporary file of each thread
    synced, \* whether it has been synced
    file,   \* registry.json: the updates that are in it
    disk,   \* what registry.json may be after a power loss
    acked,  \* history: the updates that returned without error
    faults

locks == <<token, lease, mutex, flock>>
storage == <<tmp, synced, file, disk>>
vars == <<pc, locks, image, storage, acked, faults>>

InStore == {"flock", "read", "write", "sync", "rename", "syncdir", "unlock", "failed"}
Ended == {"done", "dead"}

TypeOK ==
    /\ pc \in [Threads -> {"idle", "token", "lease", "body", "mutex", "leave"}
                             \cup InStore \cup Ended]
    /\ token \in [Procs -> 0 .. 1]
    /\ {lease, flock} \subseteq Threads \cup {Nobody}
    /\ mutex \in [Procs -> Threads \cup {Nobody}]
    /\ image \in [Threads -> SUBSET Threads]
    /\ tmp \in [Threads -> (SUBSET Threads) \cup {NoFile}]
    /\ synced \in [Threads -> BOOLEAN]
    /\ file \in (SUBSET Threads) \cup {Torn}
    /\ disk \subseteq (SUBSET Threads) \cup {Torn}
    /\ acked \subseteq Threads
    /\ faults \in 0 .. MaxFaults

Init ==
    /\ pc = [t \in Threads |-> "idle"]
    /\ token = [p \in Procs |-> 1]
    /\ lease = Nobody /\ flock = Nobody
    /\ mutex = [p \in Procs |-> Nobody]
    /\ image = [t \in Threads |-> {}]
    /\ tmp = [t \in Threads |-> NoFile]
    /\ synced = [t \in Threads |-> FALSE]
    /\ file = {} /\ disk = {{}}
    /\ acked = {}
    /\ faults = 0

Fault == faults < MaxFaults /\ faults' = faults + 1
Step(t, from, to) == pc[t] = from /\ pc' = [pc EXCEPT ![t] = to]

-----------------------------------------------------------------------------
(* WithRegistrationLockContext.                                            *)

Start(t) ==
    /\ Step(t, "idle", IF Call[t] = "transaction" THEN "token" ELSE "mutex")
    /\ UNCHANGED <<locks, image, storage, acked, faults>>

TakeToken(t) ==
    /\ Step(t, "token", "lease")
    /\ token[ProcOf[t]] > 0
    /\ token' = [token EXCEPT ![ProcOf[t]] = @ - 1]
    /\ UNCHANGED <<lease, mutex, flock, image, storage, acked, faults>>

(* flockTryExclusive, at one of the polls.                                 *)
TakeLease(t) ==
    /\ Step(t, "lease", "body")
    /\ lease = Nobody
    /\ lease' = t
    /\ UNCHANGED <<token, mutex, flock, image, storage, acked, faults>>

(* Mutant: whoever gives up puts a token into the channel.                 *)
CancelReturnsToken(t) ==
    /\ Step(t, "token", "done") \/ Step(t, "lease", "done")
    /\ token' = [token EXCEPT ![ProcOf[t]] = @ + 1]
    /\ Fault
    /\ UNCHANGED <<lease, mutex, flock, image, storage, acked>>

(* Mutant: a cancelled wait keeps the token.                               *)
CancelKeepsToken(t) ==
    /\ Step(t, "token", "done") \/ Step(t, "lease", "done")
    /\ Fault
    /\ UNCHANGED <<locks, image, storage, acked>>

(* The context ends, or the lock file cannot be opened.                    *)
Cancel(t) ==
    /\ \/ Step(t, "token", "done") /\ UNCHANGED token
       \/ /\ Step(t, "lease", "done")
          /\ token' = [token EXCEPT ![ProcOf[t]] = @ + 1]
    /\ Fault
    /\ UNCHANGED <<lease, mutex, flock, image, storage, acked>>

(* The transaction has done its work and mutates the registry.             *)
Body(t) ==
    /\ Step(t, "body", "mutex")
    /\ UNCHANGED <<locks, image, storage, acked, faults>>

LeaveTransaction(t) ==
    /\ Step(t, "leave", "done")
    /\ lease' = Nobody
    /\ token' = [token EXCEPT ![ProcOf[t]] = @ + 1]
    /\ UNCHANGED <<mutex, flock, image, storage, acked, faults>>

-----------------------------------------------------------------------------
(* withLock.                                                               *)

LockMutex(t) ==
    /\ Step(t, "mutex", "flock")
    /\ mutex[ProcOf[t]] = Nobody
    /\ mutex' = [mutex EXCEPT ![ProcOf[t]] = t]
    /\ UNCHANGED <<token, lease, flock, image, storage, acked, faults>>

(* Mutant: the store is locked within the process only.                    *)
LockFileShared(t) ==
    /\ Step(t, "flock", "read")
    /\ flock' = t
    /\ UNCHANGED <<token, lease, mutex, image, storage, acked, faults>>

(* Mutant: nobody may use the store while a registration runs.             *)
LockFileUnleased(t) ==
    /\ Step(t, "flock", "read")
    /\ flock = Nobody
    /\ lease \in {Nobody, t}
    /\ flock' = t
    /\ UNCHANGED <<token, lease, mutex, image, storage, acked, faults>>

LockFile(t) ==
    /\ Step(t, "flock", "read")
    /\ flock = Nobody
    /\ flock' = t
    /\ UNCHANGED <<token, lease, mutex, image, storage, acked, faults>>

After(t) == IF Call[t] = "transaction" THEN "leave" ELSE "done"

(* The deferred unlocks, with and without an error to return.              *)
Unlock(t) ==
    /\ Step(t, "unlock", After(t)) \/ Step(t, "failed", After(t))
    /\ flock' = Nobody
    /\ mutex' = [mutex EXCEPT ![ProcOf[t]] = Nobody]
    /\ acked' = IF pc[t] = "unlock" /\ Call[t] # "load" THEN acked \cup {t}
                                                        ELSE acked
    /\ UNCHANGED <<token, lease, image, storage, faults>>

-----------------------------------------------------------------------------
(* loadUnlocked and saveUnlocked.                                          *)

Read(t) ==
    /\ Step(t, "read", IF file = Torn THEN "failed"
                       ELSE IF Call[t] = "load" THEN "unlock" ELSE "write")
    /\ image' = [image EXCEPT ![t] = IF file = Torn THEN {} ELSE file]
    /\ UNCHANGED <<locks, storage, acked, faults>>

(* The temporary file is created and encoded into ...                      *)
Write(t) ==
    /\ Step(t, "write", "sync")
    /\ tmp' = [tmp EXCEPT ![t] = image[t] \cup {t}]
    /\ UNCHANGED <<locks, image, synced, file, disk, acked, faults>>

(* Mutant: the data is left to the operating system to write back.         *)
SyncLater(t) ==
    /\ Step(t, "sync", "rename")
    /\ UNCHANGED <<locks, image, storage, acked, faults>>

(* ... synced ...                                                          *)
Sync(t) ==
    /\ Step(t, "sync", "rename")
    /\ synced' = [synced EXCEPT ![t] = TRUE]
    /\ UNCHANGED <<locks, image, tmp, file, disk, acked, faults>>

(* ... and renamed.  A power loss may or may not undo the rename; data     *)
(* that was not synced may be lost.                                        *)
Rename(t) ==
    /\ Step(t, "rename", "syncdir")
    /\ file' = tmp[t]
    /\ disk' = disk \cup {IF synced[t] THEN tmp[t] ELSE Torn}
    /\ tmp' = [tmp EXCEPT ![t] = NoFile]
    /\ UNCHANGED <<locks, image, synced, acked, faults>>

(* Mutant: the directory is not synced.                                    *)
SyncDirLater(t) ==
    /\ Step(t, "syncdir", "unlock")
    /\ UNCHANGED <<locks, image, storage, acked, faults>>

SyncDir(t) ==
    /\ Step(t, "syncdir", "unlock")
    /\ disk' = {IF synced[t] THEN file ELSE Torn}
    /\ UNCHANGED <<locks, image, tmp, synced, file, acked, faults>>

(* A step of the save fails, before the rename or (chmod, sync) after it.  *)
SaveFails(t) ==
    /\ pc[t] \in {"write", "sync", "rename", "syncdir"}
    /\ pc' = [pc EXCEPT ![t] = "failed"]
    /\ tmp' = [tmp EXCEPT ![t] = NoFile]
    /\ Fault
    /\ UNCHANGED <<locks, image, synced, file, disk, acked>>

-----------------------------------------------------------------------------
(* External: processes die, and the power goes.                            *)

Dies(ts) ==
    /\ pc' = [t \in Threads |-> IF t \in ts /\ pc[t] \notin {"idle", "done"}
                                THEN "dead" ELSE pc[t]]
    /\ lease' = IF lease \in ts THEN Nobody ELSE lease
    /\ flock' = IF flock \in ts THEN Nobody ELSE flock
    /\ token' = [p \in Procs |-> IF \E t \in ts : ProcOf[t] = p THEN 1 ELSE token[p]]
    /\ mutex' = [p \in Procs |-> IF mutex[p] \in ts THEN Nobody ELSE mutex[p]]

Crash(p) ==
    /\ \E t \in Threads : ProcOf[t] = p /\ pc[t] \notin {"idle", "done", "dead"}
    /\ Dies({t \in Threads : ProcOf[t] = p})
    /\ Fault
    /\ UNCHANGED <<image, storage, acked>>

PowerLoss ==
    /\ Dies(Threads)
    /\ file' \in disk
    /\ disk' = {file'}
    /\ Fault
    /\ UNCHANGED <<image, tmp, synced, acked>>

-----------------------------------------------------------------------------
StoreStep(t) ==
    \/ LockMutex(t) \/ LockFile(t) \/ Read(t) \/ Write(t) \/ Sync(t)
    \/ Rename(t) \/ SyncDir(t) \/ SaveFails(t) \/ Unlock(t)

LeaseStep(t) == TakeToken(t) \/ TakeLease(t) \/ LeaveTransaction(t)

Next ==
    \/ \E t \in Threads :
          Start(t) \/ LeaseStep(t) \/ Cancel(t) \/ Body(t) \/ StoreStep(t)
    \/ \E p \in Procs : Crash(p)
    \/ PowerLoss

Spec == Init /\ [][Next]_vars

(* Every call that was made goes on, except that a transaction's body may  *)
(* take for ever.  The calls are finitely many, so that weak fairness is   *)
(* enough for the locks.                                                   *)
FairSpec == Spec /\ \A t \in Threads : WF_vars(StoreStep(t) \/ LeaseStep(t))

-----------------------------------------------------------------------------
(* Properties.                                                             *)

(* No update is lost to another one, and none that was acknowledged to a   *)
(* power loss; a reader never finds half a file, whatever dies or fails.   *)
AckedUpdatesSurvive ==
    \A content \in disk \cup {file} : content # Torn /\ acked \subseteq content

(* The lease serialises the transactions "without blocking ordinary        *)
(* registry readers": a Load returns even if a wake never gets ready.      *)
ReadersNotBlocked ==
    \A t \in Threads :
        Call[t] = "load" /\ pc[t] = "mutex" ~> pc[t] \in Ended

(* The two levels of locks never leave anyone waiting for ever, whoever    *)
(* gave up or died before, unless some transaction's body takes for ever.  *)
EveryoneFinishes ==
    (\A t \in Threads : []<>(pc[t] # "body")) =>
        \A t \in Threads : pc[t] # "idle" ~> pc[t] \in Ended
=============================================================================
