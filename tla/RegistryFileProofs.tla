-------------------------- MODULE RegistryFileProofs --------------------------
(***************************************************************************)
(* AckedUpdatesSurvive, for any number of processes, threads, failures,    *)
(* crashes and power losses.  The argument is that whoever works on the    *)
(* file holds the flock, so that what it has read stays what the file has, *)
(* and that nothing is renamed that was not synced.  The second part is    *)
(* about the registration lease: who holds the token of its process, and   *)
(* the flock, is told from where it is, whatever was cancelled or died.    *)
(***************************************************************************)
EXTENDS RegistryFile, TLAPS

USE FileAssumption

Inside(t) ==
    pc[t] \in {"read", "write", "sync", "rename", "syncdir", "unlock", "failed"}

Sets == SUBSET Threads

TypeInv ==
    /\ DOMAIN pc = Threads
    /\ image \in [Threads -> Sets]
    /\ tmp \in [Threads -> Sets \cup {NoFile}]
    /\ synced \in [Threads -> BOOLEAN]
    /\ acked \subseteq Threads
    /\ file \in Sets /\ disk \subseteq Sets

(* What may become the file again has every acknowledged update.           *)
Durable == \A content \in disk \cup {file} : acked \subseteq content

(* What a thread relies on between the steps of its save.                  *)
SaveInv(t) ==
    /\ Inside(t) => flock = t
    /\ pc[t] = "write" => acked \subseteq image[t]
    /\ pc[t] \in {"sync", "rename"} =>
           tmp[t] \in Sets /\ acked \cup {t} \subseteq tmp[t]
    /\ pc[t] \in {"rename", "syncdir"} => synced[t]
    /\ pc[t] = "syncdir" => t \in file
    /\ pc[t] = "unlock" /\ Call[t] # "load" =>
           \A content \in disk \cup {file} : t \in content

FileInv == TypeInv /\ Durable /\ \A t \in Threads : SaveInv(t)

-----------------------------------------------------------------------------
(* The registry starts empty.                                              *)
LEMMA FileInvInit == Init => FileInv
BY DEF Init, FileInv, TypeInv, Durable, SaveInv, Inside, Sets

(* A thread that is outside, before and after a step, has nothing to rely  *)
(* on.                                                                     *)
LEMMA OutsideNothingSaved ==
    ASSUME NEW t \in Threads, ~Inside(t)
    PROVE  SaveInv(t)
BY DEF SaveInv, Inside

(* The holder of the flock can do nothing to others, which are outside.    *)
LEMMA OthersOutside ==
    ASSUME FileInv, NEW t \in Threads, flock = t, NEW u \in Threads, u # t,
           pc'[u] = pc[u]
    PROVE  SaveInv(u)'
BY DEF FileInv, SaveInv, Inside

(* A step that touches neither the files nor the flock.                    *)
LEMMA BystandersKeepFileInv ==
    ASSUME FileInv, NEW t \in Threads, DOMAIN pc' = Threads,
           \A u \in Threads : u # t => pc'[u] = pc[u],
           ~Inside(t)', flock' = flock, UNCHANGED <<image, storage, acked>>
    PROVE  FileInv'
BY DEF FileInv, TypeInv, Durable, SaveInv, Inside, storage

(* The death of threads: the dead work on nothing, the others keep what    *)
(* they hold.                                                              *)
LEMMA CrashKeepsFileInv ==
    ASSUME FileInv, NEW p \in Procs, Crash(p)
    PROVE  FileInv'
BY DEF Crash, Dies, FileInv, TypeInv, Durable, SaveInv, Inside, storage

(* Whatever the power leaves is durable.                                   *)
LEMMA PowerLossKeepsFileInv ==
    ASSUME FileInv, PowerLoss
    PROVE  FileInv'
<1>1. \A t \in Threads : ~Inside(t)'
  BY DEF PowerLoss, Dies, FileInv, TypeInv, Inside
<1>2. TypeInv' /\ Durable'
  BY DEF PowerLoss, Dies, FileInv, TypeInv, Durable
<1> QED BY <1>1, <1>2 DEF FileInv, SaveInv, Inside

(* The steps of withLock, loadUnlocked and saveUnlocked.                   *)
LEMMA StoreKeepsFileInv ==
    ASSUME FileInv, NEW t \in Threads, StoreStep(t)
    PROVE  FileInv'
<1> USE DEF Step, Inside, Sets
<1>1. ASSUME LockMutex(t) PROVE FileInv'
  BY <1>1, BystandersKeepFileInv DEF LockMutex, FileInv, TypeInv
<1>2. ASSUME LockFile(t) PROVE FileInv'
  BY <1>2 DEF LockFile, FileInv, TypeInv, Durable, SaveInv, storage
<1>3. ASSUME Inside(t), \A u \in Threads : u # t => pc'[u] = pc[u],
             TypeInv', Durable', SaveInv(t)'
      PROVE  FileInv'
  <2>1. flock = t
    BY <1>3 DEF FileInv, SaveInv
  <2> QED BY <1>3, <2>1, OthersOutside DEF FileInv
<1>4. ASSUME Read(t) PROVE FileInv'
  <2>1. TypeInv' /\ Durable' /\ SaveInv(t)'
    BY <1>4 DEF Read, FileInv, TypeInv, Durable, SaveInv, locks, storage
  <2> QED BY <1>3, <1>4, <2>1 DEF Read, FileInv, TypeInv
<1>5. ASSUME Write(t) PROVE FileInv'
  <2>1. TypeInv' /\ Durable' /\ SaveInv(t)'
    BY <1>5 DEF Write, FileInv, TypeInv, Durable, SaveInv, locks
  <2> QED BY <1>3, <1>5, <2>1 DEF Write, FileInv, TypeInv
<1>6. ASSUME Sync(t) PROVE FileInv'
  <2>1. TypeInv' /\ Durable' /\ SaveInv(t)'
    BY <1>6 DEF Sync, FileInv, TypeInv, Durable, SaveInv, locks
  <2> QED BY <1>3, <1>6, <2>1 DEF Sync, FileInv, TypeInv
<1>7. ASSUME Rename(t) PROVE FileInv'
  <2>1. TypeInv' /\ Durable' /\ SaveInv(t)'
    BY <1>7 DEF Rename, FileInv, TypeInv, Durable, SaveInv, locks
  <2> QED BY <1>3, <1>7, <2>1 DEF Rename, FileInv, TypeInv
<1>8. ASSUME SyncDir(t) PROVE FileInv'
  <2>1. TypeInv' /\ Durable' /\ SaveInv(t)'
    BY <1>8 DEF SyncDir, FileInv, TypeInv, Durable, SaveInv, locks
  <2> QED BY <1>3, <1>8, <2>1 DEF SyncDir, FileInv, TypeInv
<1>9. ASSUME SaveFails(t) PROVE FileInv'
  <2>1. TypeInv' /\ Durable' /\ SaveInv(t)'
    BY <1>9 DEF SaveFails, FileInv, TypeInv, Durable, SaveInv, locks
  <2> QED BY <1>3, <1>9, <2>1 DEF SaveFails, FileInv, TypeInv
<1>10. ASSUME Unlock(t) PROVE FileInv'
  <2>1. TypeInv' /\ Durable' /\ SaveInv(t)'
    BY <1>10 DEF Unlock, After, FileInv, TypeInv, Durable, SaveInv, storage
  <2> QED BY <1>3, <1>10, <2>1 DEF Unlock, After, FileInv, TypeInv
<1> QED
  BY <1>1, <1>2, <1>4, <1>5, <1>6, <1>7, <1>8, <1>9, <1>10 DEF StoreStep

(* Every step keeps the invariant.                                         *)
LEMMA FileInvNext == FileInv /\ [Next]_vars => FileInv'
<1> SUFFICES ASSUME FileInv, [Next]_vars PROVE FileInv'
    OBVIOUS
<1>1. ASSUME NEW t \in Threads, Start(t) \/ LeaseStep(t) \/ Cancel(t) \/ Body(t)
      PROVE  FileInv'
  BY <1>1, BystandersKeepFileInv
     DEF Start, LeaseStep, TakeToken, TakeLease, LeaveTransaction, Cancel, Body, Step,
         Inside, FileInv, TypeInv, locks
<1>2. CASE UNCHANGED vars
  BY <1>2 DEF vars, locks, storage, FileInv, TypeInv, Durable, SaveInv, Inside
<1> QED
  BY <1>1, <1>2, StoreKeepsFileInv, CrashKeepsFileInv, PowerLossKeepsFileInv DEF Next

(* Once it has returned without error, an update is in the file and in     *)
(* whatever a power loss may leave of it, and the file is never half       *)
(* written.                                                                *)
THEOREM AckedUpdatesAreDurable == Spec => []AckedUpdatesSurvive
<1>1. FileInv => AckedUpdatesSurvive
  BY DEF FileInv, TypeInv, Durable, AckedUpdatesSurvive, Sets
<1> QED BY <1>1, FileInvInit, FileInvNext, PTL DEF Spec

-----------------------------------------------------------------------------
(* The registration lease.                                                 *)

(* A transaction with the token of its process, and one with the lease.    *)
HasToken(t) == Call[t] = "transaction" /\ pc[t] \notin {"idle", "token", "done", "dead"}
HasLease(t) == HasToken(t) /\ pc[t] # "lease"

LockTypes ==
    /\ pc \in [Threads -> {"idle", "token", "lease", "body", "mutex", "leave"}
                             \cup InStore \cup Ended]
    /\ token \in [Procs -> 0 .. 1]
    /\ lease \in Threads \cup {Nobody} /\ flock \in Threads \cup {Nobody}
    /\ mutex \in [Procs -> Threads \cup {Nobody}]
    /\ faults \in 0 .. MaxFaults

LeaseInv(t) ==
    /\ pc[t] \in {"token", "lease", "body", "leave"} => Call[t] = "transaction"
    /\ HasToken(t) =>
          /\ token[ProcOf[t]] = 0
          /\ \A u \in Threads : HasToken(u) /\ ProcOf[u] = ProcOf[t] => u = t
    /\ HasLease(t) => lease = t

LockInv == LockTypes /\ \A t \in Threads : LeaseInv(t)

(* WithRegistrationLock "serializes the complete attach/reattach           *)
(* transaction".                                                           *)
TransactionsSerial == \A t, u \in Threads : HasLease(t) /\ HasLease(u) => t = u

(* Nobody has a token or the lease at first.                               *)
LEMMA LockInvInit == Init => LockInv
BY DEF Init, LockInv, LockTypes, LeaseInv, HasToken, HasLease

(* Steps that neither take nor give back a token or the lease.             *)
LEMMA BystandersKeepLockInv ==
    ASSUME LockInv, LockTypes', NEW t \in Threads, UNCHANGED <<token, lease>>,
           \A u \in Threads : u # t => pc'[u] = pc[u],
           HasToken(t)' <=> HasToken(t), HasLease(t)' <=> HasLease(t),
           pc'[t] \in {"token", "lease", "body", "leave"} => Call[t] = "transaction"
    PROVE  LockInv'
BY DEF LockInv, LeaseInv, HasToken, HasLease

(* Who takes a token finds the only one of its process, and who gives one  *)
(* back had it.                                                            *)
LEMMA LockInvNext == LockInv /\ [Next]_vars => LockInv'
<1> SUFFICES ASSUME LockInv, [Next]_vars PROVE LockInv'
    OBVIOUS
<1> USE DEF LockInv, Step, InStore, Ended
<1>1. ASSUME NEW t \in Threads, Start(t) PROVE LockInv'
  <2>1. LockTypes'
    BY <1>1 DEF Start, LockTypes, locks
  <2> QED BY <1>1, <2>1, BystandersKeepLockInv
             DEF Start, LockTypes, LeaseInv, HasToken, HasLease, locks
<1>2. ASSUME NEW t \in Threads, TakeToken(t) PROVE LockInv'
  <2>1. token[ProcOf[t]] = 1 /\ token'[ProcOf[t]] = 0
    BY <1>2 DEF TakeToken, LockTypes
  <2>2. LockTypes'
    BY <1>2, <2>1 DEF TakeToken, LockTypes
  <2>3. ASSUME NEW u \in Threads PROVE LeaseInv(u)'
    BY <1>2, <2>1 DEF TakeToken, LockTypes, LeaseInv, HasToken, HasLease
  <2> QED BY <2>2, <2>3
<1>3. ASSUME NEW t \in Threads, TakeLease(t) PROVE LockInv'
  BY <1>3 DEF TakeLease, LockTypes, LeaseInv, HasToken, HasLease
<1>4. ASSUME NEW t \in Threads, LeaveTransaction(t) PROVE LockInv'
  <2>1. HasToken(t) /\ HasLease(t) /\ token[ProcOf[t]] = 0
    BY <1>4 DEF LeaveTransaction, LeaseInv, HasToken, HasLease
  <2>2. LockTypes'
    BY <1>4, <2>1 DEF LeaveTransaction, LockTypes
  <2>3. ASSUME NEW u \in Threads PROVE LeaseInv(u)'
    BY <1>4, <2>1 DEF LeaveTransaction, LockTypes, LeaseInv, HasToken, HasLease
  <2> QED BY <2>2, <2>3
<1>5. ASSUME NEW t \in Threads, Cancel(t) PROVE LockInv'
  <2>0. faults' \in 0 .. MaxFaults
    BY <1>5 DEF Cancel, Fault, LockTypes
  <2>1. CASE pc[t] = "token"
    <3>1. LockTypes'
      BY <1>5, <2>0, <2>1 DEF Cancel, LockTypes
    <3> QED BY <1>5, <2>1, <3>1, BystandersKeepLockInv
               DEF Cancel, LockTypes, HasToken, HasLease
  <2>2. CASE pc[t] = "lease"
    <3>1. HasToken(t) /\ token[ProcOf[t]] = 0
      BY <2>2 DEF LeaseInv, HasToken
    <3>2. LockTypes'
      BY <1>5, <2>0, <2>2, <3>1 DEF Cancel, LockTypes
    <3>3. ASSUME NEW u \in Threads PROVE LeaseInv(u)'
      BY <1>5, <2>2, <3>1 DEF Cancel, LockTypes, LeaseInv, HasToken, HasLease
    <3> QED BY <3>2, <3>3
  <2> QED BY <1>5, <2>1, <2>2 DEF Cancel
<1>6. ASSUME NEW t \in Threads, Body(t) PROVE LockInv'
  <2>1. LockTypes'
    BY <1>6 DEF Body, LockTypes, locks
  <2> QED BY <1>6, <2>1, BystandersKeepLockInv
             DEF Body, LockTypes, LeaseInv, HasToken, HasLease, locks
<1>7. ASSUME NEW t \in Threads, StoreStep(t) PROVE LockInv'
  <2>1. CASE SaveFails(t)
    <3>1. LockTypes'
      BY <2>1 DEF SaveFails, Fault, LockTypes, locks
    <3> QED BY <2>1, <3>1, BystandersKeepLockInv
               DEF SaveFails, LockTypes, HasToken, HasLease, locks
  <2>2. CASE Unlock(t)
    <3>1. LockTypes'
      BY <2>2 DEF Unlock, After, LockTypes
    <3> QED BY <2>2, <3>1, BystandersKeepLockInv
               DEF Unlock, After, LockTypes, HasToken, HasLease
  <2>3. CASE LockMutex(t) \/ LockFile(t)
    <3>1. LockTypes'
      BY <2>3 DEF LockMutex, LockFile, LockTypes
    <3> QED BY <2>3, <3>1, BystandersKeepLockInv
               DEF LockMutex, LockFile, LockTypes, HasToken, HasLease
  <2>4. CASE Read(t) \/ Write(t) \/ Sync(t) \/ Rename(t) \/ SyncDir(t)
    <3>1. LockTypes'
      BY <2>4 DEF Read, Write, Sync, Rename, SyncDir, LockTypes, locks
    <3> QED BY <2>4, <3>1, BystandersKeepLockInv
               DEF Read, Write, Sync, Rename, SyncDir, LockTypes, HasToken, HasLease, locks
  <2> QED BY <1>7, <2>1, <2>2, <2>3, <2>4 DEF StoreStep
<1>8. ASSUME NEW p \in Procs, Crash(p) PROVE LockInv'
  <2>1. LockTypes'
    BY <1>8 DEF Crash, Dies, Fault, LockTypes
  <2>2. ASSUME NEW u \in Threads PROVE LeaseInv(u)'
    BY <1>8 DEF Crash, Dies, LockTypes, LeaseInv, HasToken, HasLease
  <2> QED BY <2>1, <2>2
<1>9. CASE PowerLoss
  <2>1. LockTypes'
    BY <1>9 DEF PowerLoss, Dies, Fault, LockTypes
  <2>2. ASSUME NEW u \in Threads PROVE LeaseInv(u)'
    BY <1>9 DEF PowerLoss, Dies, LockTypes, LeaseInv, HasToken, HasLease
  <2> QED BY <2>1, <2>2
<1>10. CASE UNCHANGED vars
  BY <1>10 DEF vars, locks, LockTypes, LeaseInv, HasToken, HasLease
<1> QED
  BY <1>1, <1>2, <1>3, <1>4, <1>5, <1>6, <1>7, <1>8, <1>9, <1>10 DEF Next, LeaseStep

(* At most one transaction works under the lease, in whichever process,    *)
(* and whoever gave up waiting for it or died with it.                     *)
THEOREM TransactionsAreSerial == Spec => []TransactionsSerial
<1>1. LockInv => TransactionsSerial
  BY DEF LockInv, LeaseInv, TransactionsSerial
<1> QED BY <1>1, LockInvInit, LockInvNext, PTL DEF Spec

(* Every variable stays in its type: no token is ever created.             *)
THEOREM FileTypeCorrect == Spec => []TypeOK
<1>1. FileInv /\ LockInv => TypeOK
  BY DEF FileInv, TypeInv, Sets, LockInv, LockTypes, TypeOK
<1> QED BY <1>1, FileInvInit, FileInvNext, LockInvInit, LockInvNext, PTL DEF Spec
=============================================================================
