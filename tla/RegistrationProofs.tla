------------------------ MODULE RegistrationProofs ------------------------
(***************************************************************************)
(* Theorems about Registration, for any number of sessions, targets,       *)
(* processes and wakes, and any bound on the faults.  The first part is    *)
(* about the mutations of the registry, for any set Row of rows; the       *)
(* second about the processes, what each may rely on and what it promises  *)
(* (the owner of a target, the session registry that is implemented); the  *)
(* third about the wakes: which rows a wake is started for, which rows     *)
(* become active, and which rows a wake that may still come up keeps.      *)
(***************************************************************************)
EXTENDS Registration, TLAPS

-----------------------------------------------------------------------------
(* What the mutations of the registry preserve.                            *)

(* Every mutation leaves a registry.                                       *)
LEMMA MutationsAreTyped ==
    ASSUME NEW Row,
           NEW rows \in [ID -> Row \cup {NoRow}],
           NEW other \in [ID -> Row \cup {NoRow}],
           NEW third \in [ID -> Row \cup {NoRow}],
           NEW c,
           NEW row \in Row \cup {NoRow}
    PROVE  /\ EmptyRegistry \in [ID -> Row \cup {NoRow}]
           /\ Upsert(rows, c, row) \in [ID -> Row \cup {NoRow}]
           /\ Removed(rows, c) \in [ID -> Row \cup {NoRow}]
           /\ ReplaceSessionAdapter(rows, c, row) \in [ID -> Row \cup {NoRow}]
           /\ RestoreSessionAdapter(rows, c, other) \in [ID -> Row \cup {NoRow}]
           /\ UpdateEntry(rows, c, row) \in [ID -> Row \cup {NoRow}]
           /\ UpdateEntries(rows, other, third) \in [ID -> Row \cup {NoRow}]
           /\ Forget(rows, c) \in [ID -> Row \cup {NoRow}]
  BY DEF EmptyRegistry, Upsert, Removed, ReplaceSessionAdapter,
         RestoreSessionAdapter, UpdateEntry, UpdateEntries, Forget

(* Rolling a reservation back yields the registry it was made in.          *)
LEMMA RestoreUndoesReplace ==
    ASSUME NEW Row,
           NEW rows \in [ID -> Row \cup {NoRow}],
           NEW c \in ID,
           NEW row \in Row
    PROVE  RestoreSessionAdapter(ReplaceSessionAdapter(rows, c, row), c,
                                 Removed(rows, c)) = rows
<1> DEFINE next == ReplaceSessionAdapter(rows, c, row)
           back == RestoreSessionAdapter(next, c, Removed(rows, c))
<1>1. ASSUME NEW i \in ID
      PROVE  back[i] = rows[i]
  <2>1. CASE i = c
    BY <1>1, <2>1 DEF Removed, ReplaceSessionAdapter, RestoreSessionAdapter, SameSession
  <2>2. CASE i # c /\ SameSession(i, c)
    BY <1>1, <2>2 DEF Removed, ReplaceSessionAdapter, RestoreSessionAdapter
  <2>3. CASE i # c /\ ~SameSession(i, c)
    BY <1>1, <2>3 DEF Removed, ReplaceSessionAdapter, RestoreSessionAdapter
  <2> QED BY <2>1, <2>2, <2>3
<1>2. back = [i \in ID |-> back[i]]
  BY DEF RestoreSessionAdapter
<1>3. rows = [i \in ID |-> rows[i]]
  OBVIOUS
<1> QED BY <1>1, <1>2, <1>3

(* A row belongs to its own session.                                       *)
LEMMA SameSessionIsReflexive == \A c \in ID : SameSession(c, c)
  BY DEF SameSession

(* A candidate that nobody else claims can enter without a collision,      *)
(* beside its session's rows or in their place.                            *)
LEMMA UpsertKeepsSoleOwner ==
    ASSUME NEW Row, NoRow \notin Row,
           NEW rows \in [ID -> Row \cup {NoRow}],
           NEW c \in ID,
           NEW row \in Row,
           SoleOwner(rows),
           ConflictingTargetOwners(rows, c, FALSE) = {}
    PROVE  SoleOwner(Upsert(rows, c, row))
  BY DEF SoleOwner, Upsert, Present, Collide, ConflictingTargetOwners

(* The same when the candidate replaces all rows of its session.           *)
LEMMA ReplaceKeepsSoleOwner ==
    ASSUME NEW Row, NoRow \notin Row,
           NEW rows \in [ID -> Row \cup {NoRow}],
           NEW c \in ID,
           NEW row \in Row,
           SoleOwner(rows),
           ConflictingTargetOwners(rows, c, TRUE) = {}
    PROVE  SoleOwner(ReplaceSessionAdapter(rows, c, row))
<1> DEFINE next == ReplaceSessionAdapter(rows, c, row)
<1> SUFFICES ASSUME NEW i \in Present(next), NEW j \in Present(next)
             PROVE  ~Collide(i, j)
  BY DEF SoleOwner
<1>1. \A k \in Present(next) :
          k # c => k \in Present(rows) /\ ~SameSession(k, c)
  BY DEF Present, ReplaceSessionAdapter
<1>2. \A k \in Present(rows) : ~SameSession(k, c) => ~Collide(c, k)
  <2> SUFFICES ASSUME NEW k \in Present(rows), ~SameSession(k, c), Collide(c, k)
               PROVE  FALSE
    OBVIOUS
  <2>1. k \in ConflictingTargetOwners(rows, c, TRUE)
    BY DEF ConflictingTargetOwners, SameSession, Collide
  <2> QED BY <2>1
<1> HIDE DEF next
<1>3. CASE i # c /\ j # c
  BY <1>1, <1>3 DEF SoleOwner
<1>4. CASE i = c \/ j = c
  BY <1>1, <1>2, <1>4 DEF Collide
<1> QED BY <1>3, <1>4

(* A registry with no more rows has no more collisions.                    *)
LEMMA FewerRowsKeepSoleOwner ==
    ASSUME NEW rows, NEW next,
           Present(next) \subseteq Present(rows),
           SoleOwner(rows)
    PROVE  SoleOwner(next)
  BY DEF SoleOwner

(* Verdicts and forget add no row.                                         *)
LEMMA UpdatesAddNoRow ==
    ASSUME NEW Row, NoRow \notin Row,
           NEW rows \in [ID -> Row \cup {NoRow}],
           NEW before \in [ID -> Row \cup {NoRow}],
           NEW next \in [ID -> Row \cup {NoRow}],
           NEW c \in ID,
           NEW row \in Row \cup {NoRow}
    PROVE  /\ rows[c] # NoRow => Present(UpdateEntry(rows, c, row)) \subseteq Present(rows)
           /\ Present(UpdateEntries(rows, before, next)) \subseteq Present(rows)
           /\ Present(Forget(rows, c)) \subseteq Present(rows)
  BY DEF Present, UpdateEntry, UpdateEntries, Forget

-----------------------------------------------------------------------------
(* The processes.                                                          *)

USE RegistrationAssumption DEF Procs

(* What each stage knows about the process that is in it.                  *)
StageOK ==
    \A p \in Procs :
        /\ op[p] \in Register \cup {"forget"} => cand[p] \in ID
        /\ op[p] = "forget" => "forget" \in ClientOps
        /\ pc[p] \in {"reserve", "start", "restore", "record"} => op[p] \in Register
        /\ pc[p] = "restore" => op[p] \in Replacing
        /\ pc[p] = "pass" => op[p] = "supervise"
        /\ pc[p] = "await" => /\ op[p] \in Register \cup {"supervise"}
                              /\ cand[p] \in ID
                              /\ wake[p] \in Wakes

(* Only a slot in use has an entry.                                        *)
WakeIDOK == \A k \in Wakes : phase[k] # "idle" => wakeID[k] \in ID

TypeInv == TypeOK /\ StageOK /\ WakeIDOK

(* The operations on rows lead from registries to registries.              *)
LEMMA RegistriesAreTyped ==
    ASSUME NEW rows \in Registry, NEW other \in Registry, NEW third \in Registry,
           NEW c, NEW row \in Status \cup {NoRow}
    PROVE  /\ EmptyRegistry \in Registry
           /\ Upsert(rows, c, row) \in Registry
           /\ Removed(rows, c) \in Registry
           /\ ReplaceSessionAdapter(rows, c, row) \in Registry
           /\ RestoreSessionAdapter(rows, c, other) \in Registry
           /\ UpdateEntry(rows, c, row) \in Registry
           /\ UpdateEntries(rows, other, third) \in Registry
           /\ Forget(rows, c) \in Registry
  BY MutationsAreTyped DEF Registry

(* Leaving a transaction resets the locals to values of their types.       *)
LEMMA LeaveIsTyped ==
    ASSUME TypeInv, NEW p \in Procs, Leave(p)
    PROVE  /\ pc' \in [Procs -> Stage]
           /\ op' \in [Procs -> Op]
           /\ cand' \in [Procs -> ID \cup {NoID}]
           /\ saved' \in [Procs -> Registry]
           /\ after' \in [Procs -> Registry]
           /\ todo' \in [Procs -> SUBSET ID]
           /\ wake' \in [Procs -> Wakes \cup {NoWake}]
           /\ StageOK'
<1>1. EmptyRegistry \in Registry
  BY DEF EmptyRegistry, Registry
<1> QED
  BY <1>1 DEF TypeInv, WakeIDOK, TypeOK, StageOK, Leave, Stage, Op, Register, Replacing

(* A save leaves a registry on file, whether it succeeds or fails.         *)
LEMMA SavesAreTyped ==
    ASSUME TypeInv, NEW rows \in Registry, SaveOK(rows) \/ SaveFailed(rows)
    PROVE  reg' \in Registry /\ faults' \in 0 .. MaxFaults
  BY DEF TypeInv, WakeIDOK, TypeOK, SaveOK, SaveFailed, Fault, NoFault

(* The registries the saves of p write.                                    *)
LEMMA SavedRegistriesAreTyped ==
    ASSUME TypeInv, NEW p \in Procs
    PROVE  /\ Reservation(p) \in Registry
           /\ Removed(reg, cand[p]) \in Registry
           /\ Restored(p) \in Registry
           /\ pc[p] = "record" => Recorded(p) \in Registry
           /\ Forget(reg, cand[p]) \in Registry
           /\ Committed(p) \in Registry
<1>1. /\ reg \in Registry
      /\ saved[p] \in Registry
      /\ after[p] \in Registry
      /\ "reserved" \in Status \cup {NoRow}
      /\ NoRow \in Status \cup {NoRow}
  BY DEF TypeInv, WakeIDOK, TypeOK, Status
<1>2. pc[p] = "record" => after[p][cand[p]] \in Status \cup {NoRow}
  BY <1>1 DEF TypeInv, StageOK, Registry, Register
<1>3. Reservation(p) \in Registry
  BY <1>1, RegistriesAreTyped DEF Reservation
<1>4. pc[p] = "record" => Recorded(p) \in Registry
  BY <1>1, <1>2, RegistriesAreTyped DEF Recorded
<1>5. Restored(p) \in Registry /\ Committed(p) \in Registry
  BY <1>1, RegistriesAreTyped DEF Restored, Committed
<1> QED
  BY <1>1, <1>3, <1>4, <1>5, RegistriesAreTyped

(* A decided start goes on to restore or to record, and to restore only    *)
(* when it replaced rows.                                                  *)
LEMMA ConcludeIsTyped ==
    ASSUME TypeInv, NEW p \in Procs, NEW status \in Status, Conclude(p, status),
           op[p] \in Register, pc[p] \in {"start", "await"}
    PROVE  /\ pc' \in [Procs -> Stage]
           /\ after' \in [Procs -> Registry]
           /\ pc'[p] = "restore" => op[p] \in Replacing
           /\ pc'[p] \in {"restore", "record"}
           /\ \A q \in Procs \ {p} : pc'[q] = pc[q]
<1>1. [EmptyRegistry EXCEPT ![cand[p]] = status] \in Registry
  BY DEF EmptyRegistry, Registry
<1> QED
  BY <1>1 DEF TypeInv, WakeIDOK, TypeOK, Conclude, Goto, Stage

(* The initial states are typed.                                           *)
LEMMA TypeInvInitially == Init => TypeInv
<1>1. EmptyRegistry \in Registry
  BY DEF EmptyRegistry, Registry
<1> QED
  BY <1>1 DEF Init, TypeInv, WakeIDOK, TypeOK, StageOK, Stage, Op, Register, Replacing,
              WakePhase, Status

(* Every step keeps the types.                                             *)
LEMMA TypeInvIsInductive == TypeInv /\ [Next]_vars => TypeInv'
<1> SUFFICES ASSUME TypeInv, [Next]_vars PROVE TypeInv'
  OBVIOUS
<1>1. ASSUME NEW p \in Procs, NEW o \in Op, NEW i \in ID \cup {NoID},
             Request(p, o, i)
      PROVE  TypeInv'
  BY <1>1 DEF TypeInv, WakeIDOK, TypeOK, StageOK, Request, Goto, Stage, Op, Register,
              Replacing, wakes
<1>2. ASSUME NEW p \in Procs, Acquire(p) PROVE TypeInv'
  BY <1>2 DEF TypeInv, WakeIDOK, TypeOK, StageOK, Acquire, Goto, Stage, wakes, locals
<1>3. ASSUME NEW p \in Procs, CancelWait(p) PROVE TypeInv'
  BY <1>3, LeaveIsTyped DEF TypeInv, WakeIDOK, TypeOK, CancelWait, Fault, wakes
<1>4. ASSUME NEW p \in Procs, Crash(p) PROVE TypeInv'
  BY <1>4, LeaveIsTyped DEF TypeInv, WakeIDOK, TypeOK, Crash, Fault, wakes
<1>5. ASSUME NEW p \in Procs, Refuse(p) PROVE TypeInv'
  BY <1>5, LeaveIsTyped DEF TypeInv, WakeIDOK, TypeOK, Refuse, Release, wakes
<1>6. ASSUME NEW p \in Procs, Preflight(p) PROVE TypeInv'
  BY <1>6 DEF TypeInv, WakeIDOK, TypeOK, StageOK, Preflight, Goto, Stage, wakes, locals
<1>7. ASSUME NEW p \in Procs, Reserve(p) PROVE TypeInv'
  BY <1>7, SavedRegistriesAreTyped, SavesAreTyped
     DEF TypeInv, WakeIDOK, TypeOK, StageOK, Reserve, Goto, Stage, TakesRows
<1>8. ASSUME NEW p \in Procs, ReserveOnly(p) PROVE TypeInv'
  BY <1>8, SavedRegistriesAreTyped, SavesAreTyped, LeaveIsTyped
     DEF TypeInv, WakeIDOK, TypeOK, ReserveOnly, Release, TakesRows, wakes
<1>9. ASSUME NEW p \in Procs, ReserveFailed(p) PROVE TypeInv'
  BY <1>9, SavedRegistriesAreTyped, SavesAreTyped, LeaveIsTyped
     DEF TypeInv, WakeIDOK, TypeOK, ReserveFailed, Release, TakesRows, wakes
<1>10. ASSUME NEW p \in Procs, NEW k \in Wakes, StartWake(p, k) PROVE TypeInv'
  BY <1>10 DEF TypeInv, WakeIDOK, TypeOK, StageOK, StartWake, Spawn, Goto, Stage, WakePhase
<1>11. ASSUME NEW p \in Procs, NotStarted(p) PROVE TypeInv'
  <2>1. PICK status \in Status : Conclude(p, status)
    BY <1>11 DEF NotStarted, Status
  <2>2. op[p] \in Register
    BY <1>11 DEF NotStarted, TypeInv, StageOK
  <2> QED
    BY <1>11, <2>1, <2>2, ConcludeIsTyped
       DEF TypeInv, WakeIDOK, TypeOK, StageOK, NotStarted, Fault, NoFault, wakes
<1>12. ASSUME NEW p \in Procs, NEW status \in Status, Verdict(p, status),
              pc[p] = "await",
              UNCHANGED <<reg, lease, op, cand, saved, todo, wakes, faults>>
       PROVE  TypeInv'
  <2>1. CASE op[p] = "supervise"
    <3>1. cand[p] \in ID
      BY <1>12 DEF TypeInv, StageOK
    <3>2. after' \in [Procs -> Registry]
      <4>1. [after[p] EXCEPT ![cand[p]] = status] \in Registry
        BY DEF TypeInv, WakeIDOK, TypeOK, Registry
      <4>2. after' = [after EXCEPT ![p] = [after[p] EXCEPT ![cand[p]] = status]]
        BY <1>12, <2>1 DEF Verdict
      <4> QED BY <4>1, <4>2 DEF TypeInv, WakeIDOK, TypeOK
    <3> QED
      BY <1>12, <2>1, <3>2
         DEF TypeInv, WakeIDOK, TypeOK, StageOK, Verdict, Goto, Stage, wakes, Register
  <2>2. CASE op[p] # "supervise"
    <3>1. op[p] \in Register
      BY <1>12, <2>2 DEF TypeInv, StageOK
    <3> QED
      BY <1>12, <2>2, <3>1, ConcludeIsTyped
         DEF TypeInv, WakeIDOK, TypeOK, StageOK, Verdict, wakes
  <2> QED BY <2>1, <2>2
<1>13. ASSUME NEW p \in Procs, WakeReady(p) PROVE TypeInv'
  BY <1>12, <1>13 DEF WakeReady, Awaits, Status
<1>14. ASSUME NEW p \in Procs, WakeFailed(p) PROVE TypeInv'
  BY <1>12, <1>14 DEF WakeFailed, Awaits, Status
<1>15. ASSUME NEW p \in Procs, WakeUncertain(p) PROVE TypeInv'
  <2>1. [(IF op[p] = "supervise" THEN after[p] ELSE EmptyRegistry)
             EXCEPT ![cand[p]] = "backoff"] \in Registry
    BY DEF TypeInv, WakeIDOK, TypeOK, Registry, EmptyRegistry, Status
  <2> QED
    BY <1>15, <2>1
       DEF TypeInv, WakeIDOK, TypeOK, StageOK, WakeUncertain, Awaits, Goto, Stage, wakes, Register
<1>16. ASSUME NEW p \in Procs, CancelAwait(p) PROVE TypeInv'
  <2>1. CASE op[p] \in Register /\ Release(p)
    BY <1>16, <2>1, LeaveIsTyped
       DEF TypeInv, WakeIDOK, TypeOK, CancelAwait, Release, Fault, wakes
  <2>2. CASE ~(op[p] \in Register /\ Release(p))
    BY <1>16, <2>2
       DEF TypeInv, WakeIDOK, TypeOK, StageOK, CancelAwait, Awaits, Goto, Stage, Fault,
           Register, Replacing, wakes
  <2> QED BY <2>1, <2>2
<1>17. ASSUME NEW p \in Procs, Restore(p) PROVE TypeInv'
  BY <1>17, SavedRegistriesAreTyped, SavesAreTyped, LeaveIsTyped
     DEF TypeInv, WakeIDOK, TypeOK, Restore, Release, PutsRowsBack, wakes
<1>18. ASSUME NEW p \in Procs, Record(p) PROVE TypeInv'
  BY <1>18, SavedRegistriesAreTyped, SavesAreTyped, LeaveIsTyped
     DEF TypeInv, WakeIDOK, TypeOK, Record, Release, wakes
<1>19. ASSUME NEW p \in Procs, ForgetEntry(p) PROVE TypeInv'
  BY <1>19, SavedRegistriesAreTyped, SavesAreTyped, LeaveIsTyped
     DEF TypeInv, WakeIDOK, TypeOK, ForgetEntry, Release, TakesRows, wakes
<1>20. ASSUME NEW p \in Procs, Load(p) PROVE TypeInv'
  BY <1>20 DEF TypeInv, WakeIDOK, TypeOK, StageOK, Load, Present, Goto, Stage, wakes
<1>21. ASSUME NEW p \in Procs, NEW i \in ID, Defer(p, i) PROVE TypeInv'
  BY <1>21 DEF TypeInv, WakeIDOK, TypeOK, StageOK, Defer, Take, wakes
<1>22. ASSUME NEW p \in Procs, NEW i \in ID, NEW status \in Status,
              Judge(p, i, status)
       PROVE  TypeInv'
  BY <1>22 DEF TypeInv, WakeIDOK, TypeOK, StageOK, Judge, Take, wakes, Registry
<1>23. ASSUME NEW p \in Procs, NEW i \in ID, NEW k \in Wakes, EnsureWake(p, i, k)
       PROVE  TypeInv'
  BY <1>23 DEF TypeInv, WakeIDOK, TypeOK, StageOK, EnsureWake, Take, Spawn, Goto, Stage,
               WakePhase, Register
<1>24. ASSUME NEW p \in Procs, CancelPass(p) PROVE TypeInv'
  BY <1>24 DEF TypeInv, WakeIDOK, TypeOK, StageOK, CancelPass, Fault, wakes
<1>25. ASSUME NEW p \in Procs, Commit(p) PROVE TypeInv'
  BY <1>25, SavedRegistriesAreTyped, SavesAreTyped, LeaveIsTyped
     DEF TypeInv, WakeIDOK, TypeOK, Commit, Release, wakes
<1>26. ASSUME NEW k \in Wakes, AMQStep(k) PROVE TypeInv'
  <2>1. PICK from \in SUBSET WakePhase, to \in WakePhase : WakeStep(k, from, to)
    <3>1. CASE TakeWakeLock(k)
      BY <3>1 DEF TakeWakeLock, WakePhase
    <3>2. CASE PublishReady(k)
      BY <3>2 DEF PublishReady, WakePhase
    <3>3. CASE AcceptExisting(k)
      BY <3>3 DEF AcceptExisting, WakePhase
    <3>4. CASE FailToStart(k)
      BY <3>4 DEF FailToStart, WakePhase
    <3>5. CASE Exit(k)
      BY <3>5 DEF Exit, WakePhase
    <3>6. CASE Reap(k)
      BY <3>6 DEF Reap, WakePhase
    <3> QED
      BY <1>26, <3>1, <3>2, <3>3, <3>4, <3>5, <3>6 DEF AMQStep
  <2>2. wakeID' \in [Wakes -> ID \cup {NoID}]
    BY <1>26 DEF TypeInv, TypeOK, WakeIDOK, WakeStep, AMQStep, TakeWakeLock, PublishReady,
                 AcceptExisting, FailToStart, Exit, Reap
  <2>3. published' \subseteq ID /\ replaced' \subseteq Wakes
    BY <1>26 DEF TypeInv, TypeOK, WakeIDOK, WakeStep, AMQStep, TakeWakeLock, PublishReady,
                 AcceptExisting, FailToStart, Exit, Reap
  <2>4. WakeIDOK'
    BY <1>26 DEF TypeInv, TypeOK, WakeIDOK, WakeStep, AMQStep, TakeWakeLock,
                 PublishReady, AcceptExisting, FailToStart, Exit, Reap
  <2> QED
    BY <2>1, <2>2, <2>3, <2>4 DEF TypeInv, TypeOK, StageOK, WakeStep, locals
<1>27. CASE UNCHANGED vars
  BY <1>27 DEF TypeInv, WakeIDOK, TypeOK, StageOK, vars, locals, wakes
<1> QED
  BY <1>1, <1>2, <1>3, <1>4, <1>5, <1>6, <1>7, <1>8, <1>9, <1>10, <1>11, <1>13,
     <1>14, <1>15, <1>16, <1>17, <1>18, <1>19, <1>20, <1>21, <1>22, <1>23, <1>24,
     <1>25, <1>26, <1>27
     DEF Next, ProcStep, ProcFault, LeaseStep, RegisterStep, AwaitStep, PassStep

(* The variables of Registration always have their types.                  *)
THEOREM TypeCorrect == Spec => []TypeOK
<1>1. TypeInv => TypeOK
  BY DEF TypeInv
<1> QED
  BY <1>1, TypeInvInitially, TypeInvIsInductive, PTL DEF Spec

-----------------------------------------------------------------------------
(* The transaction.  A reattach whose outcome is not recorded yet:         *)
Pending(p) ==
    pc[p] \in {"start", "await", "restore", "record"} /\ op[p] \in Replacing

(* The registry is what the reattach made of the rows it would put back,   *)
(* and nobody else claims its target.                                      *)
PendingOK(p) ==
    Pending(p) =>
        /\ reg = ReplaceSessionAdapter(Restored(p), cand[p], "reserved")
        /\ ConflictingTargetOwners(Restored(p), cand[p], TRUE) = {}

HeldOK(p) ==
    pc[p] \in {"start", "await", "restore", "record"} /\ op[p] \in Register =>
        reg[cand[p]] = "reserved"

PassOK(p) ==
    pc[p] \in {"pass", "await"} /\ op[p] = "supervise" =>
        /\ reg = saved[p]
        /\ Present(after[p]) = Present(saved[p])
        /\ \A i \in ID : after[p][i] = "reserved" => saved[p][i] = "reserved"
        /\ todo[p] \subseteq Present(saved[p])
        /\ pc[p] = "await" => cand[p] \in Present(saved[p])

RecordOK(p) == pc[p] = "record" => after[p][cand[p]] \in Status

HolderOK(p) == PendingOK(p) /\ HeldOK(p) /\ PassOK(p) /\ RecordOK(p)

TransactionInv ==
    /\ TypeInv
    /\ LeaseExclusion
    /\ \A p \in Procs : HolderOK(p)

(* The pieces of the state that process q works on.                        *)
SameLocals(q) ==
    /\ pc'[q] = pc[q]
    /\ op'[q] = op[q]
    /\ cand'[q] = cand[q]
    /\ saved'[q] = saved[q]
    /\ after'[q] = after[q]
    /\ todo'[q] = todo[q]

(* A step of one process leaves the locals of the others alone.            *)
LEMMA StepsAreLocal ==
    ASSUME TypeInv, NEW p \in Procs, NEW q \in Procs, q # p,
           ProcStep(p) \/ ProcFault(p)
    PROVE  SameLocals(q)
<1> USE DEF TypeInv, TypeOK, SameLocals
<1>1. CASE LeaseStep(p)
  BY <1>1 DEF LeaseStep, Request, Acquire, Goto, locals
<1>2. ASSUME Leave(p) PROVE SameLocals(q)
  BY <1>2 DEF Leave
<1>3. ASSUME NEW status, Conclude(p, status)
      PROVE  pc'[q] = pc[q] /\ after'[q] = after[q]
  BY <1>3 DEF Conclude, Goto
<1>4. CASE NotStarted(p)
  BY <1>3, <1>4 DEF NotStarted
<1>5. ASSUME NEW k \in Wakes, StartWake(p, k) PROVE SameLocals(q)
  BY <1>5 DEF StartWake, Goto
<1>6. CASE RegisterStep(p)
  BY <1>2, <1>4, <1>5, <1>6
     DEF RegisterStep, Refuse, Preflight, Reserve, ReserveOnly, ReserveFailed,
         Restore, Record, ForgetEntry, Release, Goto, locals
<1>7. ASSUME NEW status, Verdict(p, status)
      PROVE  pc'[q] = pc[q] /\ after'[q] = after[q]
  BY <1>3, <1>7 DEF Verdict, Goto
<1>8. CASE AwaitStep(p)
  <2>1. CASE CancelAwait(p)
    BY <1>2, <2>1 DEF CancelAwait, Release, Goto
  <2>2. CASE WakeUncertain(p)
    BY <2>2 DEF WakeUncertain, Goto
  <2> QED
    BY <1>7, <1>8, <2>1, <2>2 DEF AwaitStep, WakeReady, WakeFailed
<1>9. CASE PassStep(p)
  <2>1. ASSUME NEW i \in ID, NEW k \in Wakes, EnsureWake(p, i, k)
        PROVE  SameLocals(q)
    BY <2>1 DEF EnsureWake, Take, Goto
  <2>2. ASSUME NEW i \in ID, NEW status \in Status, Judge(p, i, status)
        PROVE  SameLocals(q)
    BY <2>2 DEF Judge, Take
  <2>3. ASSUME NEW i \in ID, Defer(p, i) PROVE SameLocals(q)
    BY <2>3 DEF Defer, Take
  <2>4. CASE Load(p)
    BY <2>4 DEF Load, Goto
  <2>5. CASE CancelPass(p)
    BY <2>5 DEF CancelPass
  <2>6. CASE Commit(p)
    BY <1>2, <2>6 DEF Commit, Release
  <2> QED
    BY <1>9, <2>1, <2>2, <2>3, <2>4, <2>5, <2>6 DEF PassStep
<1>10. CASE ProcFault(p)
  BY <1>2, <1>10 DEF ProcFault, CancelWait, Crash
<1> QED
  BY <1>1, <1>6, <1>8, <1>9, <1>10 DEF ProcStep

(* Only the holder of the lease changes the registry or gives the lease    *)
(* away, and whoever gets into the transaction has the lease.              *)
LEMMA LeaseIsExclusive ==
    ASSUME TypeInv, LeaseExclusion, NEW p \in Procs, ProcStep(p) \/ ProcFault(p)
    PROVE  /\ LeaseExclusion'
           /\ reg' # reg => lease = p
<1> USE DEF TypeInv, TypeOK, LeaseExclusion, InTransaction, Stage
<1>1. CASE LeaseStep(p)
  BY <1>1 DEF LeaseStep, Request, Acquire, Goto, locals
<1>2. ASSUME Release(p), lease = p PROVE LeaseExclusion'
  BY <1>2 DEF Release, Leave
<1>3. ASSUME NEW stage \in InTransaction, Goto(p, stage), lease = p, UNCHANGED lease
      PROVE  LeaseExclusion'
  BY <1>3 DEF Goto
<1>4. CASE NotStarted(p)
  BY <1>3, <1>4 DEF NotStarted, Conclude
<1>5. ASSUME NEW k \in Wakes, StartWake(p, k) PROVE LeaseExclusion' /\ reg' = reg /\ lease = p
  BY <1>3, <1>5 DEF StartWake
<1>6. CASE RegisterStep(p)
  BY <1>2, <1>3, <1>4, <1>5, <1>6
     DEF RegisterStep, Refuse, Preflight, Reserve, ReserveOnly, ReserveFailed,
         Restore, Record, ForgetEntry, NotStarted
<1>7. ASSUME NEW status, Verdict(p, status), lease = p, UNCHANGED lease
      PROVE  LeaseExclusion'
  BY <1>3, <1>7 DEF Verdict, Conclude
<1>8. CASE AwaitStep(p)
  <2>1. lease = p /\ reg' = reg
    BY <1>8 DEF AwaitStep, WakeReady, WakeFailed, WakeUncertain, CancelAwait, Awaits
  <2>2. CASE CancelAwait(p)
    BY <1>2, <1>3, <2>1, <2>2 DEF CancelAwait
  <2>3. CASE WakeUncertain(p)
    BY <1>3, <2>1, <2>3 DEF WakeUncertain
  <2> QED
    BY <1>7, <1>8, <2>1, <2>2, <2>3 DEF AwaitStep, WakeReady, WakeFailed
<1>9. CASE PassStep(p)
  <2>1. lease = p
    BY <1>9 DEF PassStep, Load, Defer, Judge, EnsureWake, Take, CancelPass, Commit
  <2>2. CASE Commit(p)
    BY <1>2, <2>1, <2>2 DEF Commit
  <2>3. ASSUME NEW i \in ID, NEW k \in Wakes, EnsureWake(p, i, k)
        PROVE  LeaseExclusion'
    BY <1>3, <2>1, <2>3 DEF EnsureWake
  <2>4. CASE Load(p)
    BY <1>3, <2>1, <2>4 DEF Load
  <2>5. ASSUME NEW i \in ID, Defer(p, i) \/ \E status \in Status : Judge(p, i, status)
        PROVE  LeaseExclusion'
    BY <2>5 DEF Defer, Judge
  <2>6. CASE CancelPass(p)
    BY <2>6 DEF CancelPass
  <2> QED
    BY <1>9, <2>1, <2>2, <2>3, <2>4, <2>5, <2>6 DEF PassStep
<1>10. CASE ProcFault(p)
  BY <1>10 DEF ProcFault, CancelWait, Crash, Leave
<1> QED
  BY <1>1, <1>6, <1>8, <1>9, <1>10 DEF ProcStep

(* Nobody is inside a transaction in the beginning.                        *)
LEMMA TransactionInvInitially == Init => TransactionInv
<1> SUFFICES ASSUME Init PROVE TransactionInv
  OBVIOUS
<1>1. TypeInv
  BY TypeInvInitially
<1>2. LeaseExclusion
  BY DEF Init, LeaseExclusion, InTransaction
<1>3. ASSUME NEW p \in Procs PROVE HolderOK(p)
  BY <1>3 DEF Init, HolderOK, PendingOK, Pending, HeldOK, PassOK, RecordOK
<1> QED
  BY <1>1, <1>2, <1>3 DEF TransactionInv

(* A process keeps what it knows while its locals and the registry stay.   *)
LEMMA HolderOKIsStable ==
    ASSUME NEW q \in Procs, HolderOK(q), SameLocals(q), UNCHANGED reg
    PROVE  HolderOK(q)'
<1>1. Restored(q)' = Restored(q)
  BY DEF Restored, SameLocals
<1> QED
  BY <1>1 DEF HolderOK, PendingOK, Pending, HeldOK, PassOK, RecordOK, SameLocals

(* Outside the transaction there is nothing to know.                       *)
LEMMA OutsideNothingHeld ==
    ASSUME NEW q \in Procs, pc[q] \notin {"start", "await", "restore", "record", "pass"}
    PROVE  HolderOK(q)
  BY DEF HolderOK, PendingOK, Pending, HeldOK, PassOK, RecordOK

(* Who has left owes nothing to the file.                                  *)
LEMMA LeaveEndsTransaction ==
    ASSUME TypeInv, NEW p \in Procs, Leave(p)
    PROVE  HolderOK(p)'
<1>1. pc'[p] \in {"idle", "done"}
  BY DEF TypeInv, TypeOK, Leave
<1> QED
  BY <1>1 DEF HolderOK, PendingOK, Pending, HeldOK, PassOK, RecordOK

(* The saves of a reattach make a registry that can be rolled back.        *)
LEMMA ReserveEstablishes ==
    ASSUME TransactionInv, NEW p \in Procs, Reserve(p)
    PROVE  HolderOK(p)'
<1> USE DEF TransactionInv, TypeInv
<1>1. /\ pc'[p] = "start" /\ op'[p] = op[p] /\ cand'[p] = cand[p]
      /\ saved'[p] = Removed(reg, cand[p])
      /\ reg' = Reservation(p)
      /\ op[p] \in Register /\ cand[p] \in ID
      /\ Available(p)
  BY DEF Reserve, Goto, SaveOK, TypeOK, StageOK
<1>2. reg'[cand[p]] = "reserved"
  <2>1. CASE op[p] \in Replacing
    BY <1>1, <2>1 DEF Reservation, ReplaceSessionAdapter
  <2>2. CASE op[p] \notin Replacing
    BY <1>1, <2>2 DEF Reservation, Upsert, TypeOK, Registry
  <2> QED BY <2>1, <2>2
<1>3. ASSUME op[p] \in Replacing PROVE PendingOK(p)'
  <2>1. reg' = ReplaceSessionAdapter(reg, cand[p], "reserved")
    BY <1>1, <1>3 DEF Reservation
  <2>2. Restored(p)' = RestoreSessionAdapter(reg', cand[p], Removed(reg, cand[p]))
    BY <1>1 DEF Restored
  <2>3. Restored(p)' = reg
    <3>1. reg \in [ID -> Status \cup {NoRow}] /\ "reserved" \in Status
      BY DEF TypeOK, Registry, Status
    <3>2. RestoreSessionAdapter(ReplaceSessionAdapter(reg, cand[p], "reserved"),
                                cand[p], Removed(reg, cand[p])) = reg
      BY <1>1, <3>1, RestoreUndoesReplace
    <3> QED
      BY <2>1, <2>2, <3>2
  <2>4. ConflictingTargetOwners(reg, cand[p], TRUE) = {}
    BY <1>1, <1>3 DEF Available
  <2> QED
    BY <1>1, <2>1, <2>3, <2>4 DEF PendingOK
<1>4. op[p] # "supervise" /\ (op[p] \in Replacing \/ ~Pending(p)')
  BY <1>1 DEF Register, Pending
<1> QED
  BY <1>1, <1>2, <1>3, <1>4 DEF HolderOK, PendingOK, HeldOK, PassOK, RecordOK

(* A verdict leads to a stage in which the same facts are wanted.          *)
LEMMA ConcludeKeepsHolderOK ==
    ASSUME TransactionInv, NEW p \in Procs, NEW status \in Status,
           Conclude(p, status), pc[p] \in {"start", "await"}, op[p] \in Register,
           UNCHANGED <<reg, op, cand, saved>>
    PROVE  HolderOK(p)'
<1> USE DEF TransactionInv, TypeInv
<1>1. /\ pc'[p] \in {"restore", "record"}
      /\ after'[p][cand[p]] = status
      /\ cand[p] \in ID
  BY DEF Conclude, Goto, TypeOK, StageOK, EmptyRegistry
<1>2. Restored(p)' = Restored(p)
  BY DEF Restored
<1>3. op[p] # "supervise"
  BY DEF Register
<1> QED
  BY <1>1, <1>2, <1>3 DEF HolderOK, PendingOK, Pending, HeldOK, PassOK, RecordOK

(* The steps of a registration up to its start keep what its holder may    *)
(* assume.                                                                 *)
LEMMA RegisterKeepsHolderOK ==
    ASSUME TransactionInv, NEW p \in Procs, RegisterStep(p)
    PROVE  HolderOK(p)'
<1> USE DEF TransactionInv
<1>1. CASE Leave(p)
  BY <1>1, LeaveEndsTransaction
<1>2. CASE Preflight(p)
  BY <1>2 DEF Preflight, Goto, HolderOK, PendingOK, Pending, HeldOK, PassOK,
              RecordOK, TypeInv, TypeOK
<1>3. CASE Reserve(p)
  BY <1>3, ReserveEstablishes
<1>4. ASSUME NEW k \in Wakes, StartWake(p, k) PROVE HolderOK(p)'
  <2>1. op[p] \in Register /\ op[p] # "supervise"
    BY <1>4 DEF StartWake, TypeInv, StageOK, Register
  <2>2. Restored(p)' = Restored(p)
    BY <1>4 DEF StartWake, Restored
  <2> QED
    BY <1>4, <2>1, <2>2 DEF StartWake, Goto, HolderOK, PendingOK, Pending, HeldOK,
                       PassOK, RecordOK, TypeInv, TypeOK
<1>5. CASE NotStarted(p)
  <2>1. PICK status \in Status : Conclude(p, status)
    BY <1>5 DEF NotStarted, Status
  <2> QED
    BY <1>5, <2>1, ConcludeKeepsHolderOK DEF NotStarted, TypeInv, StageOK
<1> QED
  BY <1>1, <1>2, <1>3, <1>4, <1>5
     DEF RegisterStep, Refuse, ReserveOnly, ReserveFailed, Restore, Record,
         ForgetEntry, Release

(* So do the steps that await the wake, of a command or of a pass.         *)
LEMMA AwaitKeepsHolderOK ==
    ASSUME TransactionInv, NEW p \in Procs, AwaitStep(p)
    PROVE  HolderOK(p)'
<1> USE DEF TransactionInv
<1>1. /\ pc[p] = "await"
      /\ UNCHANGED reg
      /\ op[p] \in Register \cup {"supervise"}
      /\ cand[p] \in ID
  BY DEF AwaitStep, WakeReady, WakeFailed, WakeUncertain, CancelAwait, Awaits,
         TypeInv, StageOK
<1>2. ASSUME NEW status \in {"active", "backoff"},
             op[p] = "supervise",
             after'[p] = [after[p] EXCEPT ![cand[p]] = status],
             pc'[p] = "pass",
             UNCHANGED <<op, cand, saved, todo>>
      PROVE  HolderOK(p)'
  <2>1. after[p] \in Registry /\ saved[p] \in Registry /\ status \in Status /\ status # "reserved"
    BY <1>2 DEF TypeInv, TypeOK, Status
  <2>2. cand[p] \in Present(saved[p]) /\ Present(after[p]) = Present(saved[p])
    BY <1>1, <1>2 DEF HolderOK, PassOK
  <2>3. Present(after'[p]) = Present(saved[p])
    BY <1>2, <2>1, <2>2 DEF Present, Registry
  <2>4. \A i \in ID : after'[p][i] = "reserved" => saved[p][i] = "reserved"
    BY <1>1, <1>2, <2>1 DEF HolderOK, PassOK, Registry
  <2> QED
    BY <1>1, <1>2, <2>3, <2>4
       DEF HolderOK, PendingOK, Pending, HeldOK, PassOK, RecordOK, Register, Replacing
<1>3. ASSUME NEW status \in {"active", "backoff"}, Verdict(p, status),
             UNCHANGED <<op, cand, saved, todo>>
      PROVE  HolderOK(p)'
  <2>1. CASE op[p] = "supervise"
    BY <1>2, <1>3, <2>1 DEF Verdict, Goto, TypeInv, TypeOK
  <2>2. CASE op[p] # "supervise"
    BY <1>1, <1>3, <2>2, ConcludeKeepsHolderOK DEF Verdict, Status
  <2> QED BY <2>1, <2>2
<1>4. CASE WakeReady(p) \/ WakeFailed(p)
  BY <1>3, <1>4 DEF WakeReady, WakeFailed
<1>5. CASE WakeUncertain(p)
  <2>1. CASE op[p] = "supervise"
    BY <1>2, <1>5, <2>1 DEF WakeUncertain, Goto, TypeInv, TypeOK
  <2>2. CASE op[p] # "supervise"
    <3>1. after'[p][cand[p]] = "backoff" /\ pc'[p] = "record"
      BY <1>1, <1>5, <2>2 DEF WakeUncertain, Goto, TypeInv, TypeOK, EmptyRegistry
    <3>2. Restored(p)' = Restored(p)
      BY <1>5 DEF WakeUncertain, Restored
    <3> QED
      BY <1>1, <1>5, <2>2, <3>1, <3>2
         DEF WakeUncertain, HolderOK, PendingOK, Pending, HeldOK, PassOK, RecordOK,
             Status
  <2> QED BY <2>1, <2>2
<1>6. CASE CancelAwait(p)
  <2>1. CASE Release(p)
    BY <2>1, LeaveEndsTransaction DEF Release
  <2>2. CASE op[p] \in Replacing /\ pc'[p] = "restore" /\ UNCHANGED <<op, cand, saved, after, todo>>
    <3>1. Restored(p)' = Restored(p)
      BY <1>1, <2>2 DEF Restored
    <3> QED
      BY <1>1, <2>2, <3>1
         DEF HolderOK, PendingOK, Pending, HeldOK, PassOK, RecordOK, Register, Replacing
  <2>3. CASE /\ op[p] = "supervise" /\ pc'[p] = "pass" /\ todo'[p] = {}
             /\ UNCHANGED <<op, cand, saved, after>>
    BY <1>1, <2>3
       DEF HolderOK, PendingOK, Pending, HeldOK, PassOK, RecordOK, Register, Replacing
  <2> QED
    BY <1>6, <2>1, <2>2, <2>3 DEF CancelAwait, Goto, TypeInv, TypeOK
<1> QED
  BY <1>4, <1>5, <1>6 DEF AwaitStep

(* So do the steps of a pass.                                              *)
LEMMA PassKeepsHolderOK ==
    ASSUME TransactionInv, NEW p \in Procs, PassStep(p)
    PROVE  HolderOK(p)'
<1> USE DEF TransactionInv
<1>1. CASE Commit(p)
  BY <1>1, LeaveEndsTransaction DEF Commit, Release
<1>2. CASE Load(p)
  BY <1>2 DEF Load, Goto, HolderOK, PendingOK, Pending, HeldOK, PassOK, RecordOK,
              TypeInv, TypeOK, Register, Replacing
<1>3. ASSUME ~Commit(p), ~Load(p)
      PROVE  /\ pc[p] = "pass" /\ op[p] = "supervise"
             /\ UNCHANGED <<reg, op, saved>>
             /\ after[p] \in Registry /\ saved[p] \in Registry
  BY <1>3 DEF PassStep, Defer, Judge, EnsureWake, Take, CancelPass, TypeInv, TypeOK,
              StageOK
<1>4. ASSUME NEW i \in ID, NEW status \in Status, Judge(p, i, status)
      PROVE  HolderOK(p)'
  <2>1. /\ pc[p] = "pass" /\ op[p] = "supervise" /\ i \in todo[p]
        /\ status \in {"backoff", "detached"}
        /\ UNCHANGED <<pc, op, cand, saved, reg>>
        /\ todo'[p] \subseteq todo[p]
        /\ after'[p] = [after[p] EXCEPT ![i] = status]
        /\ after[p] \in Registry /\ saved[p] \in Registry
    BY <1>4 DEF Judge, Take, TypeInv, TypeOK, StageOK
  <2>2. i \in Present(after[p]) /\ Present(after[p]) = Present(saved[p])
    BY <2>1 DEF HolderOK, PassOK
  <2>3. Present(after'[p]) = Present(after[p])
    BY <2>1, <2>2 DEF Present, Registry, Status
  <2>4. \A j \in ID : after'[p][j] = "reserved" => saved[p][j] = "reserved"
    BY <2>1 DEF HolderOK, PassOK, Registry
  <2> QED
    BY <2>1, <2>2, <2>3, <2>4
       DEF HolderOK, PendingOK, Pending, HeldOK, PassOK, RecordOK, Register
<1>5. ASSUME NEW i \in ID, NEW k \in Wakes, EnsureWake(p, i, k)
      PROVE  HolderOK(p)'
  <2>1. /\ pc[p] = "pass" /\ op[p] = "supervise" /\ i \in todo[p]
        /\ UNCHANGED <<op, saved, reg, after>>
        /\ todo'[p] \subseteq todo[p]
        /\ pc'[p] = "await" /\ cand'[p] = i
    BY <1>5 DEF EnsureWake, Take, Goto, TypeInv, TypeOK, StageOK
  <2> QED
    BY <2>1 DEF HolderOK, PendingOK, Pending, HeldOK, PassOK, RecordOK, Register, Replacing
<1>6. ASSUME NEW i \in ID, Defer(p, i) PROVE HolderOK(p)'
  <2>1. /\ pc[p] = "pass" /\ op[p] = "supervise"
        /\ UNCHANGED <<pc, op, cand, saved, reg, after>>
        /\ todo'[p] \subseteq todo[p]
    BY <1>6 DEF Defer, Take, TypeInv, TypeOK, StageOK
  <2> QED
    BY <2>1 DEF HolderOK, PendingOK, Pending, HeldOK, PassOK, RecordOK
<1>7. CASE CancelPass(p)
  <2>1. /\ pc[p] = "pass" /\ op[p] = "supervise"
        /\ UNCHANGED <<pc, op, cand, saved, reg, after>>
        /\ todo'[p] = {}
    BY <1>7 DEF CancelPass, TypeInv, TypeOK, StageOK
  <2> QED
    BY <2>1 DEF HolderOK, PendingOK, Pending, HeldOK, PassOK, RecordOK
<1> QED
  BY <1>1, <1>2, <1>4, <1>5, <1>6, <1>7 DEF PassStep

(* Every step keeps the invariant: of the holder by the lemmas above, of   *)
(* all others because they are outside.                                    *)
LEMMA TransactionInvIsInductive == TransactionInv /\ [Next]_vars => TransactionInv'
<1> SUFFICES ASSUME TransactionInv, [Next]_vars PROVE TransactionInv'
  OBVIOUS
<1>1. TypeInv'
  BY TypeInvIsInductive DEF TransactionInv
<1>2. CASE UNCHANGED <<reg, lease, pc, op, cand, saved, after, todo>>
  <2>1. LeaseExclusion'
    BY <1>2 DEF TransactionInv, LeaseExclusion
  <2>2. ASSUME NEW q \in Procs PROVE HolderOK(q)'
    BY <1>2, HolderOKIsStable DEF TransactionInv, SameLocals
  <2> QED BY <1>1, <2>1, <2>2 DEF TransactionInv
<1>3. ASSUME NEW p \in Procs, ProcStep(p) \/ ProcFault(p)
      PROVE  TransactionInv'
  <2>1. LeaseExclusion' /\ (reg' # reg => lease = p)
    BY <1>3, LeaseIsExclusive DEF TransactionInv
  <2>2. HolderOK(p)'
    <3>1. CASE LeaseStep(p)
      BY <3>1 DEF LeaseStep, Request, Acquire, Goto, HolderOK, PendingOK, Pending,
                  HeldOK, PassOK, RecordOK, TransactionInv, TypeInv, TypeOK
    <3>2. CASE ProcFault(p)
      BY <3>2, LeaveEndsTransaction DEF ProcFault, CancelWait, Crash, TransactionInv
    <3> QED
      BY <1>3, <3>1, <3>2, RegisterKeepsHolderOK, AwaitKeepsHolderOK, PassKeepsHolderOK
         DEF ProcStep
  <2>3. ASSUME NEW q \in Procs, q # p PROVE HolderOK(q)'
    <3>1. SameLocals(q)
      BY <1>3, <2>3, StepsAreLocal DEF TransactionInv
    <3>2. CASE reg' = reg
      BY <3>1, <3>2, HolderOKIsStable DEF TransactionInv
    <3>3. CASE reg' # reg
      <4>1. pc[q] \notin InTransaction
        BY <2>1, <2>3, <3>3 DEF TransactionInv, LeaseExclusion
      <4>2. pc'[q] \notin {"start", "await", "restore", "record", "pass"}
        BY <3>1, <4>1 DEF SameLocals, InTransaction, Stage
      <4> QED
        BY <4>2 DEF HolderOK, PendingOK, Pending, HeldOK, PassOK, RecordOK
    <3> QED BY <3>2, <3>3
  <2> QED BY <1>1, <2>1, <2>2, <2>3 DEF TransactionInv
<1>4. ASSUME NEW k \in Wakes, AMQStep(k)
      PROVE  UNCHANGED <<reg, lease, pc, op, cand, saved, after, todo>>
  BY <1>4 DEF AMQStep, TakeWakeLock, PublishReady, AcceptExisting, FailToStart, Exit,
              Reap, WakeStep, locals
<1>5. CASE UNCHANGED vars
  BY <1>2, <1>5 DEF vars, locals
<1> QED
  BY <1>2, <1>3, <1>4, <1>5 DEF Next

(* The invariant holds in every reachable state.                           *)
LEMMA TransactionInvHolds == Spec => []TransactionInv
  BY TransactionInvInitially, TransactionInvIsInductive, PTL DEF Spec

(* The transactions of different processes never overlap, whatever the     *)
(* interleaving of their crashes, cancellations and steps.                 *)
THEOREM TransactionsExclude == Spec => []LeaseExclusion
<1>1. TransactionInv => LeaseExclusion
  BY DEF TransactionInv
<1> QED
  BY <1>1, TransactionInvHolds, PTL

(* No process can invalidate the snapshot a supervisor pass works on, so   *)
(* the compare-and-swap at its end skips nothing.                          *)
THEOREM SnapshotsAreStable == Spec => []SnapshotStable
<1>1. TransactionInv => SnapshotStable
  BY DEF TransactionInv, HolderOK, PassOK, SnapshotStable
<1> QED
  BY <1>1, TransactionInvHolds, PTL

(* A reattach's reservation is its session's only row, unchanged, until    *)
(* the reattach itself confirms or withdraws it.                           *)
THEOREM ReservationsAreHeld == Spec => []ReservationHeld
<1>1. TransactionInv => ReservationHeld
  <2> SUFFICES ASSUME TransactionInv, NEW p \in Procs, Pending(p)
               PROVE  Unchanged(reg, cand[p], "reserved")
    BY DEF ReservationHeld, Pending
  <2>1. /\ cand[p] \in ID
        /\ reg = ReplaceSessionAdapter(Restored(p), cand[p], "reserved")
        /\ reg[cand[p]] = "reserved"
    BY DEF TransactionInv, HolderOK, PendingOK, HeldOK, Pending, TypeInv, StageOK,
           Replacing, Register
  <2>2. \A i \in ID : SameSession(i, cand[p]) /\ i # cand[p] => reg[i] = NoRow
    BY <2>1 DEF ReplaceSessionAdapter
  <2> QED
    BY <2>1, <2>2 DEF Unchanged, Present
<1> QED
  BY <1>1, TransactionInvHolds, PTL

-----------------------------------------------------------------------------
(* Ownership, for a system that starts without collisions.                 *)
CleanStart == \A rows \in InitRegs : SoleOwner(rows)

OwnerInv ==
    /\ SoleOwner(reg)
    /\ \A p \in Procs : Pending(p) => SoleOwner(Restored(p))

(* A reattach's rollback is fixed when it reserves, and stays what it is.  *)
LEMMA RollbackIsFixed ==
    ASSUME TransactionInv, NEW p \in Procs, ProcStep(p) \/ ProcFault(p), Pending(p)'
    PROVE  \/ Reserve(p) /\ op[p] \in Replacing /\ Restored(p)' = reg
           \/ Pending(p) /\ Restored(p)' = Restored(p) /\ reg' = reg
<1> USE DEF TransactionInv
<1>1. ASSUME Leave(p) PROVE FALSE
  BY <1>1 DEF Leave, Pending, TypeInv, TypeOK, Replacing
<1>2. ASSUME Pending(p), UNCHANGED <<reg, cand, saved>>
      PROVE  Pending(p) /\ Restored(p)' = Restored(p) /\ reg' = reg
  BY <1>2 DEF Restored
<1>3. CASE LeaseStep(p)
  BY <1>3 DEF LeaseStep, Request, Acquire, Goto, Pending, TypeInv, TypeOK, locals
<1>4. CASE RegisterStep(p)
  <2>1. CASE Reserve(p)
    <3>1. /\ op[p] \in Replacing /\ cand[p] \in ID
          /\ reg' = Reservation(p)
          /\ saved'[p] = Removed(reg, cand[p]) /\ cand' = cand
      BY <2>1 DEF Reserve, SaveOK, Pending, TypeInv, TypeOK, StageOK
    <3>2. reg \in [ID -> Status \cup {NoRow}] /\ "reserved" \in Status
      BY DEF TypeInv, TypeOK, Registry, Status
    <3>3. Restored(p)' = RestoreSessionAdapter(reg', cand[p], Removed(reg, cand[p]))
      BY <3>1 DEF Restored
    <3>4. reg' = ReplaceSessionAdapter(reg, cand[p], "reserved")
      BY <3>1 DEF Reservation
    <3>5. Restored(p)' = reg
      BY <3>1, <3>2, <3>3, <3>4, RestoreUndoesReplace
    <3> QED BY <2>1, <3>1, <3>5
  <2>2. ASSUME NEW k \in Wakes, StartWake(p, k)
        PROVE  Pending(p) /\ UNCHANGED <<reg, cand, saved>>
    BY <2>2 DEF StartWake, Pending
  <2>3. CASE NotStarted(p)
    <3>1. Pending(p) /\ UNCHANGED <<reg, cand, saved>>
      BY <2>3 DEF NotStarted, Pending
    <3> QED BY <1>2, <3>1
  <2>4. CASE Preflight(p)
    BY <2>4 DEF Preflight, Goto, Pending, TypeInv, TypeOK
  <2> QED
    BY <1>1, <1>2, <1>4, <2>1, <2>2, <2>3, <2>4
       DEF RegisterStep, Refuse, ReserveOnly, ReserveFailed, Restore, Record,
           ForgetEntry, Release
<1>5. CASE AwaitStep(p)
  <2>1. CASE Release(p)
    BY <1>1, <2>1 DEF Release
  <2>2. CASE ~Release(p)
    <3>1. pc[p] = "await" /\ UNCHANGED <<reg, cand, saved, op>>
      BY <1>5, <2>2 DEF AwaitStep, WakeReady, WakeFailed, WakeUncertain, CancelAwait, Awaits
    <3>2. Pending(p)
      BY <3>1 DEF Pending
    <3> QED BY <1>2, <3>1, <3>2
  <2> QED BY <2>1, <2>2
<1>6. CASE PassStep(p)
  <2>1. op[p] = "supervise"
    BY <1>6 DEF PassStep, Load, Defer, Judge, EnsureWake, Take, CancelPass, Commit,
                TypeInv, StageOK
  <2>2. op'[p] = "supervise"
    BY <1>6, <2>1 DEF PassStep, Load, Defer, Judge, EnsureWake, CancelPass, Commit,
                Release, Leave, TypeInv, TypeOK
  <2> QED BY <2>2 DEF Pending, Replacing
<1>7. CASE ProcFault(p)
  BY <1>1, <1>7 DEF ProcFault, CancelWait, Crash
<1> QED
  BY <1>3, <1>4, <1>5, <1>6, <1>7 DEF ProcStep

(* Every registry a transaction saves is free of collisions.               *)
LEMMA OwnerInvIsInductive ==
    ASSUME TransactionInv, OwnerInv, [Next]_vars
    PROVE  OwnerInv'
<1> USE DEF TransactionInv
<1>1. ASSUME NEW rows, SoleOwner(rows), SaveOK(rows) \/ SaveFailed(rows)
      PROVE  SoleOwner(reg)'
  BY <1>1 DEF SaveOK, SaveFailed, OwnerInv
<1>2. ASSUME NEW p \in Procs, pc[p] = "reserve", Available(p)
      PROVE  SoleOwner(Reservation(p))
  <2>1. /\ cand[p] \in ID
        /\ reg \in [ID -> Status \cup {NoRow}]
        /\ "reserved" \in Status
        /\ NoRow \notin Status
        /\ SoleOwner(reg)
    BY <1>2 DEF TypeInv, TypeOK, StageOK, Registry, Status, OwnerInv
  <2>2. CASE op[p] \in Replacing
    <3>1. ConflictingTargetOwners(reg, cand[p], TRUE) = {}
      BY <1>2, <2>2 DEF Available
    <3> QED
      BY <2>1, <2>2, <3>1, ReplaceKeepsSoleOwner DEF Reservation
  <2>3. CASE op[p] \notin Replacing
    <3>1. ConflictingTargetOwners(reg, cand[p], FALSE) = {}
      <4>1. (op[p] \in Replacing) = FALSE
        BY <2>3
      <4> QED BY <1>2, <4>1 DEF Available
    <3> QED
      BY <2>1, <2>3, <3>1, UpsertKeepsSoleOwner DEF Reservation
  <2> QED BY <2>2, <2>3
<1>3. ASSUME NEW p \in Procs, ProcStep(p) \/ ProcFault(p), reg' # reg
      PROVE  SoleOwner(reg)'
  <2>1. CASE Reserve(p) \/ ReserveOnly(p) \/ ReserveFailed(p)
    <3>1. /\ pc[p] = "reserve" /\ Available(p)
          /\ SaveOK(Reservation(p)) \/ SaveFailed(Reservation(p))
      BY <1>3, <2>1 DEF Reserve, ReserveOnly, ReserveFailed
    <3> QED BY <1>1, <1>2, <3>1
  <2>2. CASE Restore(p)
    <3>1. /\ pc[p] = "restore"
          /\ SaveOK(Restored(p)) \/ SaveFailed(Restored(p))
      BY <1>3, <2>2 DEF Restore
    <3>2. SoleOwner(Restored(p))
      BY <3>1 DEF OwnerInv, Pending, TypeInv, StageOK
    <3> QED BY <1>1, <3>1, <3>2
  <2>3. ASSUME NEW rows, Present(rows) \subseteq Present(reg),
               SaveOK(rows) \/ SaveFailed(rows)
        PROVE  SoleOwner(reg)'
    <3>1. SoleOwner(rows)
      BY <2>3, FewerRowsKeepSoleOwner DEF OwnerInv
    <3> QED BY <1>1, <2>3, <3>1
  <2>4. CASE Record(p)
    <3>1. /\ pc[p] = "record" /\ reg[cand[p]] # NoRow
          /\ SaveOK(Recorded(p)) \/ SaveFailed(Recorded(p))
      BY <1>3, <2>4 DEF Record
    <3>2. Present(Recorded(p)) \subseteq Present(reg)
      BY <3>1 DEF Recorded, UpdateEntry, Present, TypeInv, TypeOK, Registry
    <3> QED BY <2>3, <3>1, <3>2
  <2>5. CASE ForgetEntry(p)
    <3>1. SaveOK(Forget(reg, cand[p])) \/ SaveFailed(Forget(reg, cand[p]))
      BY <1>3, <2>5 DEF ForgetEntry
    <3>2. Present(Forget(reg, cand[p])) \subseteq Present(reg)
      BY DEF Forget, Present, TypeInv, TypeOK, Registry
    <3> QED BY <2>3, <3>1, <3>2
  <2>6. CASE Commit(p)
    <3>1. /\ SaveOK(Committed(p)) \/ SaveFailed(Committed(p))
          /\ pc[p] = "pass" /\ op[p] = "supervise"
      BY <2>6 DEF Commit, TypeInv, StageOK
    <3>2. reg = saved[p] /\ Present(after[p]) = Present(saved[p])
      BY <3>1 DEF HolderOK, PassOK
    <3>3. Present(Committed(p)) \subseteq Present(reg)
      BY <3>2 DEF Committed, UpdateEntries, Present
    <3> QED BY <2>3, <3>1, <3>3
  <2> QED
    BY <1>3, <2>1, <2>2, <2>4, <2>5, <2>6
       DEF ProcStep, ProcFault, LeaseStep, Request, Acquire, CancelWait, Crash,
           RegisterStep, Refuse, Preflight, StartWake, NotStarted,
           AwaitStep, WakeReady, WakeFailed, WakeUncertain, CancelAwait,
           PassStep, Load, Defer, Judge, EnsureWake, CancelPass
<1>4. ASSUME NEW p \in Procs, ProcStep(p) \/ ProcFault(p)
      PROVE  SoleOwner(reg)'
  BY <1>3, <1>4 DEF OwnerInv
<1>5. ASSUME NEW p \in Procs, ProcStep(p) \/ ProcFault(p),
             NEW q \in Procs, Pending(q)'
      PROVE  SoleOwner(Restored(q))'
  <2>1. CASE q = p
    BY <1>5, <2>1, RollbackIsFixed DEF OwnerInv
  <2>2. CASE q # p
    <3>1. SameLocals(q)
      BY <1>5, <2>2, StepsAreLocal
    <3>2. Pending(q)
      BY <1>5, <3>1 DEF Pending, SameLocals
    <3>3. lease = q
      BY <3>2 DEF Pending, LeaseExclusion, InTransaction, Stage
    <3>4. reg' = reg
      BY <1>5, <2>2, <3>3, LeaseIsExclusive
    <3>5. Restored(q)' = Restored(q)
      BY <3>1, <3>4 DEF Restored, SameLocals
    <3> QED BY <3>2, <3>5 DEF OwnerInv
  <2> QED BY <2>1, <2>2
<1>6. ASSUME UNCHANGED <<reg, pc, op, cand, saved>> PROVE OwnerInv'
  BY <1>6 DEF OwnerInv, Pending, Restored
<1>7. ASSUME NEW k \in Wakes, AMQStep(k) PROVE UNCHANGED <<reg, pc, op, cand, saved>>
  BY <1>7 DEF AMQStep, TakeWakeLock, PublishReady, AcceptExisting, FailToStart, Exit,
              Reap, WakeStep, locals
<1>8. CASE UNCHANGED vars
  BY <1>6, <1>8 DEF vars, locals
<1> QED
  BY <1>4, <1>5, <1>6, <1>7, <1>8 DEF Next, OwnerInv

(* A target never gets a second owner, neither by a registration nor by    *)
(* the rollback of one, in a system that starts without collisions.        *)
THEOREM TargetsHaveOneOwner ==
    ASSUME CleanStart
    PROVE  Spec => []TargetHasOneOwner
<1>1. Init => OwnerInv
  BY DEF Init, OwnerInv, CleanStart, Pending
<1>2. TransactionInv /\ OwnerInv /\ [Next]_vars => OwnerInv'
  BY OwnerInvIsInductive
<1>3. OwnerInv => TargetHasOneOwner
  BY DEF OwnerInv, TargetHasOneOwner
<1> QED
  BY <1>1, <1>2, <1>3, TransactionInvHolds, PTL DEF Spec

-----------------------------------------------------------------------------
(* Refinement.  The instance has its own copies of the store's operators.  *)
LEMMA AbstractOperators ==
    ASSUME NEW rows, NEW c, NEW row
    PROVE  /\ Abstract!ID = ID
           /\ Abstract!Present(rows) = Present(rows)
           /\ Abstract!Upsert(rows, c, row) = Upsert(rows, c, row)
           /\ Abstract!Forget(rows, c) = Forget(rows, c)
           /\ Abstract!ReplaceSessionAdapter(rows, c, row)
                  = ReplaceSessionAdapter(rows, c, row)
           /\ Abstract!ConflictingTargetOwners(rows, c, TRUE)
                  = ConflictingTargetOwners(rows, c, TRUE)
           /\ Abstract!ConflictingTargetOwners(rows, c, FALSE)
                  = ConflictingTargetOwners(rows, c, FALSE)
<1> USE DEF Abstract!ID, ID, Abstract!Present, Present, Abstract!SameSession, SameSession
<1>1. Abstract!ID = ID /\ Abstract!Present(rows) = Present(rows)
  OBVIOUS
<1>2. /\ Abstract!Upsert(rows, c, row) = Upsert(rows, c, row)
      /\ Abstract!Forget(rows, c) = Forget(rows, c)
  BY DEF Abstract!Upsert, Upsert, Abstract!Forget, Forget
<1>3. Abstract!ReplaceSessionAdapter(rows, c, row) = ReplaceSessionAdapter(rows, c, row)
  BY DEF Abstract!ReplaceSessionAdapter, ReplaceSessionAdapter
<1>4. /\ Abstract!ConflictingTargetOwners(rows, c, TRUE)
             = ConflictingTargetOwners(rows, c, TRUE)
      /\ Abstract!ConflictingTargetOwners(rows, c, FALSE)
             = ConflictingTargetOwners(rows, c, FALSE)
  BY DEF Abstract!ConflictingTargetOwners, ConflictingTargetOwners,
         Abstract!Collide, Collide
<1> QED BY <1>1, <1>2, <1>3, <1>4

(* At most one reattach is undecided, and it decides what the rows are.    *)
LEMMA RowsAre ==
    ASSUME TransactionInv
    PROVE  /\ \A p \in Procs : Undecided(p) => lease = p /\ Rows = Restored(p)
           /\ (\A p \in Procs : ~Undecided(p)) => Rows = reg
<1>1. \A p \in Procs : Undecided(p) => lease = p
  BY DEF TransactionInv, LeaseExclusion, Undecided, InTransaction, Stage
<1>2. ASSUME NEW p \in Procs, Undecided(p) PROVE Rows = Restored(p)
  <2>1. (CHOOSE q \in Procs : Undecided(q)) = p
    BY <1>1, <1>2
  <2> QED BY <1>2, <2>1 DEF Rows
<1>3. ASSUME \A p \in Procs : ~Undecided(p) PROVE Rows = reg
  BY <1>3 DEF Rows
<1> QED BY <1>1, <1>2, <1>3

(* The same of the state after a step.                                     *)
LEMMA RowsWillBe ==
    ASSUME TransactionInv'
    PROVE  /\ \A p \in Procs : Undecided(p)' => lease' = p /\ Rows' = Restored(p)'
           /\ (\A p \in Procs : ~Undecided(p)') => Rows' = reg'
<1>1. \A p \in Procs : Undecided(p)' => lease' = p
  BY DEF TransactionInv, LeaseExclusion, Undecided, InTransaction, Stage
<1>2. ASSUME NEW p \in Procs, Undecided(p)' PROVE Rows' = Restored(p)'
  <2>1. (CHOOSE q \in Procs : Undecided(q)') = p
    BY <1>1, <1>2
  <2> QED BY <1>2, <2>1 DEF Rows, Restored, Undecided
<1>3. ASSUME \A p \in Procs : ~Undecided(p)' PROVE Rows' = reg'
  BY <1>3 DEF Rows
<1> QED BY <1>1, <1>2, <1>3

(* Verdicts are given on rows that are there.                              *)
LEMMA RecordAssesses ==
    ASSUME TransactionInv, NEW p \in Procs, Record(p), Rows = reg, Rows' = reg'
    PROVE  [Abstract!SRNext]_Rows
<1>1. /\ pc[p] = "record" /\ op[p] \in Register /\ cand[p] \in ID
      /\ reg \in Registry /\ reg' \in Registry
      /\ reg[cand[p]] = "reserved" /\ after[p][cand[p]] \in Status
  <2>1. TypeInv'
    BY TypeInvIsInductive DEF TransactionInv, Next, ProcStep, RegisterStep
  <2> QED
    BY <2>1 DEF Record, TransactionInv, HolderOK, HeldOK, RecordOK, TypeInv, TypeOK,
                StageOK
<1>2. reg' = reg \/ reg' = Recorded(p)
  BY DEF Record, SaveOK, SaveFailed
<1>3. CASE reg' = Recorded(p)
  <2>1. reg' = [reg EXCEPT ![cand[p]] = after[p][cand[p]]]
    BY <1>3 DEF Recorded, UpdateEntry
  <2>2. Present(reg') = Present(reg)
    BY <1>1, <2>1 DEF Present, Registry, Status
  <2>3. \A i \in ID : reg'[i] = "reserved" => reg[i] = "reserved"
    BY <1>1, <2>1 DEF Registry
  <2>4. Abstract!Assess
    BY <1>1, <2>2, <2>3, AbstractOperators DEF Abstract!Assess, Registry
  <2> QED BY <2>4 DEF Abstract!SRNext
<1> QED BY <1>2, <1>3

(* The save of a pass is the abstract assessment of the rows on file, or   *)
(* leaves them.                                                            *)
LEMMA CommitAssesses ==
    ASSUME TransactionInv, NEW p \in Procs, Commit(p), Rows = reg, Rows' = reg'
    PROVE  [Abstract!SRNext]_Rows
<1>1. /\ reg = saved[p]
      /\ Present(after[p]) = Present(saved[p])
      /\ \A i \in ID : after[p][i] = "reserved" => saved[p][i] = "reserved"
      /\ reg \in Registry /\ after[p] \in Registry
  BY DEF Commit, TransactionInv, HolderOK, PassOK, TypeInv, TypeOK, StageOK
<1>2. reg' = reg \/ reg' = Committed(p)
  BY DEF Commit, SaveOK, SaveFailed
<1>3. CASE reg' = Committed(p)
  <2>1. reg' = [i \in ID |-> IF reg[i] # NoRow THEN after[p][i] ELSE reg[i]]
    BY <1>1, <1>3 DEF Committed, UpdateEntries
  <2>2. reg' \in Registry
    BY <1>1, <2>1 DEF Registry
  <2>3. Present(reg') = Present(reg)
    BY <1>1, <2>1 DEF Present
  <2>4. \A i \in ID : reg'[i] = "reserved" => reg[i] = "reserved"
    BY <1>1, <2>1
  <2>5. Abstract!Assess
    BY <2>2, <2>3, <2>4, AbstractOperators DEF Abstract!Assess, Registry
  <2> QED BY <2>5 DEF Abstract!SRNext
<1> QED BY <1>2, <1>3

(* Saving a reservation outright: an addition or a claim.                  *)
LEMMA ReservationTakesEffect ==
    ASSUME TransactionInv, NEW p \in Procs, pc[p] = "reserve", Available(p),
           reg' = Reservation(p), Rows = reg, Rows' = reg'
    PROVE  Abstract!SRNext
<1>1. cand[p] \in ID /\ cand[p] \in Abstract!ID
  BY AbstractOperators DEF TransactionInv, TypeInv, StageOK
<1>2. CASE op[p] \in Replacing
  <2>1. ConflictingTargetOwners(reg, cand[p], TRUE) = {}
    BY <1>2 DEF Available
  <2>2. Abstract!Claim(cand[p])
    BY <1>2, <2>1, AbstractOperators DEF Abstract!Claim, Reservation
  <2> QED BY <1>1, <2>2 DEF Abstract!SRNext
<1>3. CASE op[p] \notin Replacing
  <2>1. ConflictingTargetOwners(reg, cand[p], FALSE) = {}
    <3>1. (op[p] \in Replacing) = FALSE
      BY <1>3
    <3> QED BY <3>1 DEF Available
  <2>2. Abstract!Add(cand[p])
    BY <1>3, <2>1, AbstractOperators DEF Abstract!Add, Reservation
  <2> QED BY <1>1, <2>2 DEF Abstract!SRNext
<1> QED BY <1>2, <1>3

(* An undecided reattach that ends without its rollback has claimed.       *)
LEMMA DecisionClaims ==
    ASSUME TransactionInv, NEW p \in Procs, Undecided(p), Rows' = reg
    PROVE  [Abstract!SRNext]_Rows
<1>1. Pending(p) /\ Rows = Restored(p) /\ cand[p] \in ID
  BY RowsAre DEF Undecided, Pending, TransactionInv, TypeInv, StageOK, Replacing, Register
<1>2. /\ Rows' = ReplaceSessionAdapter(Rows, cand[p], "reserved")
      /\ ConflictingTargetOwners(Rows, cand[p], TRUE) = {}
  BY <1>1 DEF TransactionInv, HolderOK, PendingOK
<1>3. Abstract!Claim(cand[p])
  BY <1>2, AbstractOperators DEF Abstract!Claim
<1> QED BY <1>1, <1>3, AbstractOperators DEF Abstract!SRNext

(* Only these steps change the registry.                                   *)
LEMMA RegistryChanges ==
    ASSUME NEW p \in Procs, ProcStep(p) \/ ProcFault(p), reg' # reg
    PROVE  \/ /\ Reserve(p) \/ ReserveOnly(p) \/ ReserveFailed(p)
              /\ pc[p] = "reserve" /\ Available(p) /\ reg' = Reservation(p)
           \/ Restore(p) /\ reg' = Restored(p)
           \/ Record(p)
           \/ ForgetEntry(p) /\ reg[cand[p]] # NoRow /\ reg' = Forget(reg, cand[p])
           \/ Commit(p)
<1> USE DEF SaveOK, SaveFailed
<1>1. CASE LeaseStep(p) \/ AwaitStep(p) \/ ProcFault(p)
  BY <1>1 DEF LeaseStep, Request, Acquire, AwaitStep, WakeReady, WakeFailed,
              WakeUncertain, CancelAwait, ProcFault, CancelWait, Crash
<1>2. CASE RegisterStep(p)
  BY <1>2 DEF RegisterStep, Refuse, Preflight, Reserve, ReserveOnly, ReserveFailed,
              StartWake, NotStarted, Restore, ForgetEntry
<1>3. CASE PassStep(p)
  BY <1>3 DEF PassStep, Load, Defer, Judge, EnsureWake, CancelPass
<1> QED BY <1>1, <1>2, <1>3 DEF ProcStep

(* Every step of a process, a fault included, is an abstract step or a     *)
(* stutter.                                                                *)
LEMMA StepRefines ==
    ASSUME TransactionInv, NEW p \in Procs, ProcStep(p) \/ ProcFault(p)
    PROVE  [Abstract!SRNext]_Rows
<1>1. TransactionInv'
  BY TransactionInvIsInductive DEF Next
<1>2. ASSUME NEW q \in Procs, q # p, Undecided(q) \/ Undecided(q)'
      PROVE  UNCHANGED Rows
  <2>1. SameLocals(q)
    BY <1>2, StepsAreLocal DEF TransactionInv
  <2>2. Undecided(q) /\ Undecided(q)'
    BY <1>2, <2>1 DEF Undecided, SameLocals
  <2>3. lease = q /\ Rows = Restored(q) /\ Rows' = Restored(q)'
    BY <1>1, <2>2, RowsAre, RowsWillBe
  <2>4. reg' = reg
    BY <1>2, <2>3, LeaseIsExclusive DEF TransactionInv
  <2> QED
    BY <2>1, <2>3, <2>4 DEF SameLocals, Restored
<1> SUFFICES ASSUME \A q \in Procs \ {p} : ~Undecided(q) /\ ~Undecided(q)'
             PROVE  [Abstract!SRNext]_Rows
  BY <1>2
<1>3. ASSUME ~Undecided(p) PROVE Rows = reg
  BY <1>3, RowsAre
<1>4. ASSUME ~Undecided(p)' PROVE Rows' = reg'
  BY <1>1, <1>4, RowsWillBe
<1>5. CASE Undecided(p)'
  <2>1. Rows' = Restored(p)' /\ Pending(p)' /\ pc'[p] # "record"
    BY <1>1, <1>5, RowsWillBe DEF Undecided, Pending
  <2>2. CASE Reserve(p) /\ Restored(p)' = reg
    BY <1>3, <2>1, <2>2 DEF Reserve, Undecided
  <2>3. CASE Pending(p) /\ Restored(p)' = Restored(p) /\ reg' = reg
    <3>1. CASE Undecided(p)
      BY <2>1, <2>3, <3>1, RowsAre
    <3>2. CASE ~Undecided(p)
      <4>1. pc[p] = "record"
        BY <2>3, <3>2 DEF Pending, Undecided
      <4>2. Record(p) \/ Crash(p)
        BY <4>1 DEF ProcStep, LeaseStep, Request, Acquire, RegisterStep, Refuse,
             Preflight, Reserve, ReserveOnly, ReserveFailed, StartWake, NotStarted,
             Restore, ForgetEntry, AwaitStep, WakeReady, WakeFailed, WakeUncertain,
             CancelAwait, Awaits, PassStep, Load, Defer, Judge, EnsureWake, Take,
             CancelPass, Commit, ProcFault, CancelWait
      <4>3. pc'[p] \in {"idle", "done"}
        BY <4>2 DEF Record, Crash, Release, Leave, TransactionInv, TypeInv, TypeOK
      <4> QED BY <2>1, <4>3 DEF Pending
    <3> QED BY <3>1, <3>2
  <2> QED BY <2>1, <2>2, <2>3, RollbackIsFixed
<1>6. CASE ~Undecided(p)' /\ Undecided(p)
  <2>1. Rows' = reg' /\ Rows = Restored(p)
    BY <1>4, <1>6, RowsAre
  <2>2. CASE reg' = reg
    BY <1>6, <2>1, <2>2, DecisionClaims
  <2>3. CASE reg' # reg
    <3>1. reg' = Restored(p)
      BY <1>6, <2>3, RegistryChanges
         DEF Undecided, Record, ForgetEntry, Commit, TransactionInv, TypeInv, StageOK,
             Replacing
    <3> QED BY <2>1, <3>1
  <2> QED BY <2>2, <2>3
<1>7. CASE ~Undecided(p)' /\ ~Undecided(p) /\ reg' # reg
  <2>1. Rows' = reg' /\ Rows = reg
    BY <1>3, <1>4, <1>7
  <2>2. CASE pc[p] = "reserve" /\ Available(p) /\ reg' = Reservation(p)
    BY <2>1, <2>2, ReservationTakesEffect
  <2>3. CASE Record(p)
    BY <2>1, <2>3, RecordAssesses
  <2>4. CASE Commit(p)
    BY <2>1, <2>4, CommitAssesses
  <2>5. CASE ForgetEntry(p) /\ reg[cand[p]] # NoRow /\ reg' = Forget(reg, cand[p])
    <3>1. cand[p] \in ID /\ "forget" \in ClientOps
      BY <2>5 DEF ForgetEntry, TransactionInv, TypeInv, StageOK
    <3>2. Abstract!Drop(cand[p])
      BY <2>1, <2>5, <3>1, AbstractOperators DEF Abstract!Drop
    <3> QED BY <3>1, <3>2, AbstractOperators DEF Abstract!SRNext
  <2>6. ~Restore(p)
    BY <1>7 DEF Restore, Undecided, TransactionInv, TypeInv, StageOK
  <2> QED
    BY <1>7, <2>2, <2>3, <2>4, <2>5, <2>6, RegistryChanges
<1>8. CASE ~Undecided(p)' /\ ~Undecided(p) /\ reg' = reg
  BY <1>3, <1>4, <1>8
<1> QED BY <1>5, <1>6, <1>7, <1>8

(* The registration commands, with all their steps, failures and crashes,  *)
(* implement a registry on which each command acts at once or not at all.  *)
THEOREM RegistrationImplementsSessionRegistry == Spec => ImplementsSessionRegistry
<1>1. Init => Abstract!SRInit
  <2> SUFFICES ASSUME Init PROVE Rows \in InitRegs
    BY DEF Abstract!SRInit
  <2>1. \A p \in Procs : ~Undecided(p)
    BY DEF Init, Undecided
  <2> QED BY <2>1 DEF Rows, Init
<1>2. TransactionInv /\ [Next]_vars => [Abstract!SRNext]_Rows
  <2> SUFFICES ASSUME TransactionInv, [Next]_vars PROVE [Abstract!SRNext]_Rows
    OBVIOUS
  <2>1. ASSUME UNCHANGED <<reg, pc, op, cand, saved>> PROVE UNCHANGED Rows
    BY <2>1 DEF Rows, Undecided, Restored
  <2>2. ASSUME NEW k \in Wakes, AMQStep(k) PROVE UNCHANGED <<reg, pc, op, cand, saved>>
    BY <2>2 DEF AMQStep, TakeWakeLock, PublishReady, AcceptExisting, FailToStart,
                Exit, Reap, WakeStep, locals
  <2>3. CASE UNCHANGED vars
    BY <2>1, <2>3 DEF vars, locals
  <2> QED BY <2>1, <2>2, <2>3, StepRefines DEF Next
<1> QED
  BY <1>1, <1>2, TransactionInvHolds, PTL
     DEF Spec, ImplementsSessionRegistry, Abstract!SRSpec

-----------------------------------------------------------------------------
(* The wakes.                                                              *)

(* Between reservation and start nobody else claims the candidate's target. *)
StartOwned ==
    \A p \in Procs :
        pc[p] = "start" => ConflictingTargetOwners(reg, cand[p], FALSE) = {}

(* What the check found free is free in the registry that is saved.        *)
LEMMA ReservationIsAlone ==
    ASSUME TransactionInv, NEW p \in Procs, pc[p] = "reserve", Available(p)
    PROVE  ConflictingTargetOwners(Reservation(p), cand[p], FALSE) = {}
<1>1. cand[p] \in ID /\ reg \in Registry
  BY DEF TransactionInv, TypeInv, StageOK, TypeOK
<1>2. SUFFICES ASSUME NEW j \in Present(Reservation(p)), Collide(cand[p], j)
               PROVE  FALSE
  BY DEF ConflictingTargetOwners
<1>3. CASE op[p] \in Replacing
  <2>1. j \in Present(reg) /\ ~SameSession(cand[p], j)
    BY <1>1, <1>2, <1>3 DEF Reservation, ReplaceSessionAdapter, Present, Collide, SameSession
  <2>2. ConflictingTargetOwners(reg, cand[p], TRUE) = {}
    BY <1>3 DEF Available
  <2> QED BY <1>2, <2>1, <2>2 DEF ConflictingTargetOwners
<1>4. CASE op[p] \notin Replacing
  <2>1. j \in Present(reg)
    BY <1>1, <1>2, <1>4 DEF Reservation, Upsert, Present, Collide, Registry
  <2>2. ConflictingTargetOwners(reg, cand[p], FALSE) = {}
    <3>1. (op[p] \in Replacing) = FALSE
      BY <1>4
    <3> QED BY <3>1 DEF Available
  <2> QED BY <1>2, <2>1, <2>2 DEF ConflictingTargetOwners
<1> QED BY <1>3, <1>4

(* While a process is inside, a step of another leaves the registry and    *)
(* what the process works on alone, and is outside before and after it or  *)
(* only asks for the lease.                                                *)
LEMMA InsideUndisturbed ==
    ASSUME TransactionInv, NEW p \in Procs, NEW q \in Procs, q # p,
           ProcStep(p) \/ ProcFault(p), pc'[q] \in InTransaction
    PROVE  /\ SameLocals(q) /\ pc[q] \in InTransaction /\ lease = q
           /\ reg' = reg
           /\ pc[p] \notin InTransaction
<1>1. SameLocals(q)
  BY StepsAreLocal DEF TransactionInv
<1>2. pc[q] \in InTransaction /\ lease = q
  BY <1>1 DEF SameLocals, TransactionInv, LeaseExclusion
<1>3. lease # p
  BY <1>2
<1>4. reg' = reg
  BY <1>3, LeaseIsExclusive DEF TransactionInv
<1> QED BY <1>1, <1>2, <1>3, <1>4 DEF TransactionInv, LeaseExclusion

(* Every step keeps that the candidates of pending starts are alone.       *)
LEMMA StartOwnedIsInductive ==
    ASSUME TransactionInv, StartOwned, [Next]_vars
    PROVE  StartOwned'
<1>1. ASSUME NEW p \in Procs, ProcStep(p) \/ ProcFault(p),
             NEW q \in Procs, pc'[q] = "start"
      PROVE  ConflictingTargetOwners(reg', cand'[q], FALSE) = {}
  <2>1. CASE q # p
    BY <1>1, <2>1, InsideUndisturbed DEF StartOwned, SameLocals, InTransaction, Stage
  <2>2. CASE q = p
    <3>1. ASSUME Leave(p) PROVE FALSE
      BY <1>1, <2>2, <3>1 DEF Leave, TransactionInv, TypeInv, TypeOK
    <3>2. Reserve(p)
      <4>1. CASE LeaseStep(p)
        BY <1>1, <2>2, <4>1 DEF LeaseStep, Request, Acquire, Goto, TransactionInv, TypeInv, TypeOK
      <4>2. CASE RegisterStep(p)
        BY <1>1, <2>2, <3>1, <4>2
           DEF RegisterStep, Refuse, Preflight, ReserveOnly, ReserveFailed, StartWake,
               NotStarted, Conclude, Restore, Record, ForgetEntry, Release, Goto,
               TransactionInv, TypeInv, TypeOK
      <4>3. CASE AwaitStep(p)
        BY <1>1, <2>2, <3>1, <4>3
           DEF AwaitStep, WakeReady, WakeFailed, WakeUncertain, CancelAwait, Verdict, Awaits,
               Conclude, Release, Goto, TransactionInv, TypeInv, TypeOK
      <4>4. CASE PassStep(p)
        BY <1>1, <2>2, <3>1, <4>4
           DEF PassStep, Load, Defer, Judge, EnsureWake, Take, CancelPass, Commit, Release,
               Goto, TransactionInv, TypeInv, TypeOK
      <4>5. CASE ProcFault(p)
        BY <3>1, <4>5 DEF ProcFault, CancelWait, Crash
      <4> QED BY <1>1, <4>1, <4>2, <4>3, <4>4, <4>5 DEF ProcStep
    <3> QED BY <2>2, <3>2, ReservationIsAlone DEF Reserve, SaveOK
  <2> QED BY <2>1, <2>2
<1>2. ASSUME NEW k \in Wakes, AMQStep(k) PROVE UNCHANGED <<reg, pc, cand>>
  BY <1>2 DEF AMQStep, TakeWakeLock, PublishReady, AcceptExisting, FailToStart, Exit,
              Reap, WakeStep, locals
<1>3. CASE UNCHANGED <<reg, pc, cand>>
  BY <1>3 DEF StartOwned
<1> QED BY <1>1, <1>2, <1>3 DEF Next, vars, locals, StartOwned

(* A wake is only ever started for a row in the registry whose target no   *)
(* other row claims, by registrations and passes alike and whatever        *)
(* collisions the registry began with.                                     *)
THEOREM SpawnsAreOwned == Spec => SpawnOwned
<1>1. Init => StartOwned
  BY DEF Init, StartOwned
<1>2. TransactionInv /\ StartOwned /\ [Next]_vars =>
        [\A k \in Wakes : phase[k] = "idle" /\ phase'[k] = "starting" =>
            /\ reg[wakeID'[k]] # NoRow
            /\ ConflictingTargetOwners(reg, wakeID'[k], FALSE) = {}]_vars
  <2> SUFFICES ASSUME TransactionInv, StartOwned, Next,
                      NEW k \in Wakes, phase[k] = "idle", phase'[k] = "starting"
               PROVE  /\ reg[wakeID'[k]] # NoRow
                      /\ ConflictingTargetOwners(reg, wakeID'[k], FALSE) = {}
    OBVIOUS
  <2>1. ASSUME NEW p \in Procs, StartWake(p, k)
        PROVE  reg[wakeID'[k]] # NoRow /\ ConflictingTargetOwners(reg, wakeID'[k], FALSE) = {}
    <3>1. wakeID'[k] = cand[p] /\ pc[p] = "start" /\ op[p] \in Register
      BY <2>1 DEF StartWake, Spawn, TransactionInv, TypeInv, TypeOK, StageOK
    <3>2. reg[cand[p]] = "reserved"
      BY <3>1 DEF TransactionInv, HolderOK, HeldOK
    <3> QED BY <3>1, <3>2 DEF StartOwned, Status
  <2>2. ASSUME NEW p \in Procs, NEW i \in ID, EnsureWake(p, i, k)
        PROVE  reg[wakeID'[k]] # NoRow /\ ConflictingTargetOwners(reg, wakeID'[k], FALSE) = {}
    <3>1. /\ wakeID'[k] = i /\ pc[p] = "pass" /\ op[p] = "supervise"
          /\ i \in todo[p] /\ ~Conflicted(p, i)
      BY <2>2 DEF EnsureWake, Take, Spawn, TransactionInv, TypeInv, TypeOK, StageOK
    <3>2. reg = saved[p] /\ i \in Present(saved[p])
      BY <3>1 DEF TransactionInv, HolderOK, PassOK
    <3> QED BY <3>1, <3>2 DEF Conflicted, ConflictingTargetOwners, Present
  <2>3. ASSUME NEW p \in Procs, ProcStep(p) \/ ProcFault(p)
        PROVE  \/ \E j \in Wakes : StartWake(p, j)
               \/ \E i \in ID, j \in Wakes : EnsureWake(p, i, j)
    BY <2>3 DEF ProcStep, ProcFault, LeaseStep, Request, Acquire, CancelWait, Crash,
                RegisterStep, Refuse, Preflight, Reserve, ReserveOnly, ReserveFailed,
                NotStarted, Restore, Record, ForgetEntry, AwaitStep, WakeReady, WakeFailed,
                WakeUncertain, CancelAwait, PassStep, Load, Defer, Judge, CancelPass, Commit,
                TakesRows, PutsRowsBack, wakes
  <2>4. ASSUME NEW j \in Wakes, AMQStep(j) PROVE FALSE
    BY <2>4 DEF AMQStep, TakeWakeLock, PublishReady, AcceptExisting, FailToStart, Exit,
                Reap, WakeStep, TransactionInv, TypeInv, TypeOK
  <2>5. ASSUME NEW p \in Procs, NEW i \in ID, NEW j \in Wakes,
               StartWake(p, j) \/ EnsureWake(p, i, j)
        PROVE  j = k
    BY <2>5 DEF StartWake, EnsureWake, Spawn, TransactionInv, TypeInv, TypeOK
  <2>6. ASSUME NEW p \in Procs, NEW j \in Wakes, StartWake(p, j) PROVE j = k
    BY <2>6 DEF StartWake, Spawn, TransactionInv, TypeInv, TypeOK
  <2> QED BY <2>1, <2>2, <2>3, <2>4, <2>5, <2>6 DEF Next
<1> QED
  BY <1>1, <1>2, TransactionInvHolds, StartOwnedIsInductive, PTL DEF Spec, SpawnOwned
-----------------------------------------------------------------------------
(* Active means that a wake has published readiness: so it is in every     *)
(* registry a process may write, and a process that waits for its wake     *)
(* learns about its own candidate.                                         *)
Vouched(rows) == \A i \in ID : rows[i] = "active" => i \in published

AwaitsItsWake(p) ==
    pc[p] = "await" => phase[wake[p]] # "idle" /\ wakeID[wake[p]] = cand[p]

ReadyInv ==
    /\ Vouched(reg)
    /\ \A p \in Procs : Vouched(saved[p]) /\ Vouched(after[p]) /\ AwaitsItsWake(p)
    /\ \A k \in Wakes : phase[k] \in {"live", "exited"} => wakeID[k] \in published

(* The operations on rows bring in no row that nobody vouches for.         *)
LEMMA MutationsKeepVouched ==
    ASSUME NEW rows \in Registry, NEW other \in Registry, NEW third \in Registry,
           NEW c \in ID, NEW row \in Status \cup {NoRow},
           Vouched(rows), Vouched(other), Vouched(third), row = "active" => c \in published
    PROVE  /\ Vouched(EmptyRegistry)
           /\ Vouched(Upsert(rows, c, row))
           /\ Vouched(Removed(rows, c))
           /\ Vouched(ReplaceSessionAdapter(rows, c, row))
           /\ Vouched(RestoreSessionAdapter(rows, c, other))
           /\ Vouched(UpdateEntry(rows, c, row))
           /\ Vouched(UpdateEntries(rows, other, third))
           /\ Vouched(Forget(rows, c))
<1>1. NoRow # "active"
  BY DEF Status
<1> USE <1>1 DEF Vouched, Registry
<1>2. Vouched(EmptyRegistry)
  BY DEF EmptyRegistry
<1>3. Vouched(Upsert(rows, c, row)) /\ Vouched(UpdateEntry(rows, c, row))
  BY DEF Upsert, UpdateEntry
<1>4. Vouched(Removed(rows, c)) /\ Vouched(Forget(rows, c))
  BY DEF Removed, Forget
<1>5. Vouched(ReplaceSessionAdapter(rows, c, row))
  BY DEF ReplaceSessionAdapter
<1>6. Vouched(RestoreSessionAdapter(rows, c, other))
  BY DEF RestoreSessionAdapter
<1>7. Vouched(UpdateEntries(rows, other, third))
  BY DEF UpdateEntries
<1> QED BY <1>2, <1>3, <1>4, <1>5, <1>6, <1>7

(* The saves of a process write only rows it may vouch for.                *)
LEMMA SavesAreVouched ==
    ASSUME TransactionInv, ReadyInv, NEW p \in Procs, ProcStep(p) \/ ProcFault(p)
    PROVE  \A i \in ID : reg'[i] = "active" => i \in published
<1> USE DEF TransactionInv, TypeInv
<1>1. ASSUME NEW rows, Vouched(rows), SaveOK(rows) \/ SaveFailed(rows)
      PROVE  \A i \in ID : reg'[i] = "active" => i \in published
  BY <1>1 DEF SaveOK, SaveFailed, ReadyInv, Vouched
<1>2. /\ reg \in Registry /\ saved[p] \in Registry /\ after[p] \in Registry
      /\ Vouched(reg) /\ Vouched(saved[p]) /\ Vouched(after[p])
      /\ "reserved" \in Status \cup {NoRow}
  BY DEF TypeOK, ReadyInv, Status
<1>3. CASE Reserve(p) \/ ReserveOnly(p) \/ (ReserveFailed(p) /\ Available(p))
  <2>1. /\ cand[p] \in ID
        /\ SaveOK(Reservation(p)) \/ SaveFailed(Reservation(p))
    BY <1>3 DEF Reserve, ReserveOnly, ReserveFailed, StageOK
  <2>2. Vouched(Reservation(p))
    BY <1>2, <2>1, MutationsKeepVouched DEF Reservation
  <2> QED BY <1>1, <2>1, <2>2
<1>4. CASE Restore(p) /\ Unchanged(reg, cand[p], "reserved")
  <2>1. cand[p] \in ID /\ (SaveOK(Restored(p)) \/ SaveFailed(Restored(p)))
    BY <1>4 DEF Restore, StageOK
  <2>2. Vouched(Restored(p))
    BY <1>2, <2>1, MutationsKeepVouched DEF Restored
  <2> QED BY <1>1, <2>1, <2>2
<1>5. CASE Record(p) /\ reg[cand[p]] # NoRow
  <2>1. /\ cand[p] \in ID /\ after[p][cand[p]] \in Status
        /\ SaveOK(Recorded(p)) \/ SaveFailed(Recorded(p))
    BY <1>5 DEF Record, StageOK, HolderOK, RecordOK
  <2>2. after[p][cand[p]] = "active" => cand[p] \in published
    BY <1>2, <2>1 DEF Vouched
  <2>3. Vouched(Recorded(p))
    BY <1>2, <2>1, <2>2, MutationsKeepVouched DEF Recorded
  <2> QED BY <1>1, <2>1, <2>3
<1>6. CASE ForgetEntry(p) /\ reg[cand[p]] # NoRow
  <2>1. cand[p] \in ID /\ (SaveOK(Forget(reg, cand[p])) \/ SaveFailed(Forget(reg, cand[p])))
    BY <1>6 DEF ForgetEntry, StageOK
  <2>2. Vouched(Forget(reg, cand[p]))
    BY <1>2, <2>1 DEF Vouched, Forget, Registry, Status
  <2> QED BY <1>1, <2>1, <2>2
<1>7. CASE Commit(p)
  <2>1. SaveOK(Committed(p)) \/ SaveFailed(Committed(p))
    BY <1>7 DEF Commit
  <2>2. Vouched(Committed(p))
    BY <1>2 DEF Committed, UpdateEntries, Vouched
  <2> QED BY <1>1, <2>1, <2>2
<1>8. ASSUME reg' = reg PROVE \A i \in ID : reg'[i] = "active" => i \in published
  BY <1>8, <1>2 DEF Vouched
<1> QED
  BY <1>3, <1>4, <1>5, <1>6, <1>7, <1>8
     DEF ProcStep, ProcFault, LeaseStep, Request, Acquire, CancelWait, Crash,
         RegisterStep, Refuse, Preflight, ReserveFailed, StartWake, NotStarted, Restore,
         Record, ForgetEntry, AwaitStep, WakeReady, WakeFailed, WakeUncertain, CancelAwait,
         PassStep, Load, Defer, Judge, EnsureWake, CancelPass

(* Of the wakes a process changes at most the idle slot it spawns in.      *)
LEMMA StepsKeepWakes ==
    ASSUME TypeInv, NEW p \in Procs, ProcStep(p) \/ ProcFault(p)
    PROVE  /\ published' = published
           /\ \A q \in Procs : q # p => wake'[q] = wake[q]
           /\ \A k \in Wakes :
                 \/ phase'[k] = phase[k] /\ wakeID'[k] = wakeID[k]
                 \/ /\ phase[k] = "idle" /\ phase'[k] = "starting"
                    /\ pc'[p] = "await" /\ wake'[p] = k /\ wakeID'[k] = cand'[p]
<1> USE DEF TypeInv, TypeOK
<1>1. ASSUME NEW k \in Wakes, StartWake(p, k) \/ \E i \in ID : EnsureWake(p, i, k)
      PROVE  /\ published' = published
             /\ \A q \in Procs : q # p => wake'[q] = wake[q]
             /\ \A j \in Wakes : j # k => phase'[j] = phase[j] /\ wakeID'[j] = wakeID[j]
             /\ phase[k] = "idle" /\ phase'[k] = "starting"
             /\ pc'[p] = "await" /\ wake'[p] = k /\ wakeID'[k] = cand'[p]
  BY <1>1 DEF StartWake, EnsureWake, Spawn, Goto
<1>2. CASE \E k \in Wakes : StartWake(p, k) \/ \E i \in ID : EnsureWake(p, i, k)
  BY <1>1, <1>2
<1>3. CASE ~\E k \in Wakes : StartWake(p, k) \/ \E i \in ID : EnsureWake(p, i, k)
  <2>1. UNCHANGED <<phase, wakeID, published>>
    BY <1>3 DEF ProcStep, ProcFault, LeaseStep, Request, Acquire, CancelWait, Crash,
         RegisterStep, Refuse, Preflight, Reserve, ReserveOnly, ReserveFailed, NotStarted,
         Restore, Record, ForgetEntry, AwaitStep, WakeReady, WakeFailed, WakeUncertain,
         CancelAwait, PassStep, Load, Defer, Judge, CancelPass, Commit,
         TakesRows, PutsRowsBack, wakes
  <2>2. \A q \in Procs : q # p => wake'[q] = wake[q]
    BY <1>3 DEF ProcStep, ProcFault, LeaseStep, Request, Acquire, CancelWait, Crash,
         RegisterStep, Refuse, Preflight, Reserve, ReserveOnly, ReserveFailed, NotStarted,
         Restore, Record, ForgetEntry, AwaitStep, WakeReady, WakeFailed, WakeUncertain,
         CancelAwait, PassStep, Load, Defer, Judge, CancelPass, Commit, Release, Leave,
         Verdict, locals
  <2> QED BY <2>1, <2>2 DEF wakes
<1> QED BY <1>2, <1>3

(* What a process concludes in its locals it may vouch for.                *)
LEMMA LocalsAreVouched ==
    ASSUME TransactionInv, ReadyInv, NEW p \in Procs, ProcStep(p) \/ ProcFault(p)
    PROVE  \A i \in ID : saved'[p][i] = "active" \/ after'[p][i] = "active" => i \in published
<1> DEFINE Goal == \A i \in ID :
               saved'[p][i] = "active" \/ after'[p][i] = "active" => i \in published
<1> SUFFICES Goal
  OBVIOUS
<1> USE DEF TransactionInv, TypeInv
<1>1. /\ reg \in Registry /\ saved[p] \in Registry /\ after[p] \in Registry
      /\ Vouched(reg) /\ Vouched(saved[p]) /\ Vouched(after[p])
  BY DEF TypeOK, ReadyInv
<1>2. ASSUME Leave(p) PROVE Goal
  BY <1>2 DEF Leave, EmptyRegistry, Status, TypeOK
<1>3. CASE saved'[p] = saved[p] /\ after'[p] = after[p]
  BY <1>1, <1>3 DEF Vouched
<1>4. CASE Reserve(p)
  <2>1. saved'[p] = Removed(reg, cand[p]) /\ after'[p] = after[p]
    BY <1>4 DEF Reserve, TypeOK
  <2> QED BY <1>1, <2>1 DEF Removed, Vouched, Status
<1>5. CASE Load(p)
  BY <1>1, <1>5 DEF Load, TypeOK, Vouched
<1>6. ASSUME NEW status, status = "active" => cand[p] \in published, saved'[p] = saved[p],
             \/ after'[p] = [after[p] EXCEPT ![cand[p]] = status]
             \/ after'[p] = [EmptyRegistry EXCEPT ![cand[p]] = status]
      PROVE  Goal
  <2>1. \A i \in ID : EmptyRegistry[i] # "active"
    BY DEF EmptyRegistry, Status
  <2>2. DOMAIN EmptyRegistry = ID
    BY DEF EmptyRegistry
  <2> QED BY <1>1, <1>6, <2>1, <2>2 DEF Vouched, Registry
<1>7. CASE NotStarted(p)
  <2>1. PICK status \in {"backoff", "detached", "reserved"} : Conclude(p, status)
    BY <1>7 DEF NotStarted
  <2>2. saved'[p] = saved[p] /\ after'[p] = [EmptyRegistry EXCEPT ![cand[p]] = status]
    BY <1>7, <2>1 DEF NotStarted, Conclude, TypeOK
  <2> QED BY <1>6, <2>1, <2>2
<1>8. CASE WakeReady(p)
  <2>1. wake[p] \in Wakes /\ cand[p] \in published
    BY <1>8 DEF WakeReady, Awaits, StageOK, ReadyInv, AwaitsItsWake
  <2>2. /\ saved'[p] = saved[p]
        /\ \/ after'[p] = [after[p] EXCEPT ![cand[p]] = "active"]
           \/ after'[p] = [EmptyRegistry EXCEPT ![cand[p]] = "active"]
    BY <1>8 DEF WakeReady, Verdict, Conclude, TypeOK
  <2> QED BY <1>6, <2>1, <2>2
<1>9. CASE WakeFailed(p)
  <2>1. /\ saved'[p] = saved[p]
        /\ \/ after'[p] = [after[p] EXCEPT ![cand[p]] = "backoff"]
           \/ after'[p] = [EmptyRegistry EXCEPT ![cand[p]] = "backoff"]
    BY <1>9 DEF WakeFailed, Verdict, Conclude, TypeOK
  <2>2. "backoff" # "active"
    OBVIOUS
  <2> QED BY <1>6, <2>1, <2>2
<1>10. CASE WakeUncertain(p)
  <2>1. /\ saved'[p] = saved[p]
        /\ \/ after'[p] = [after[p] EXCEPT ![cand[p]] = "backoff"]
           \/ after'[p] = [EmptyRegistry EXCEPT ![cand[p]] = "backoff"]
    BY <1>10 DEF WakeUncertain, TypeOK
  <2>2. "backoff" # "active"
    OBVIOUS
  <2> QED BY <1>6, <2>1, <2>2
<1>11. ASSUME NEW i \in ID, NEW status \in Status, Judge(p, i, status) PROVE Goal
  <2>1. /\ saved'[p] = saved[p] /\ status # "active"
        /\ after'[p] = [after[p] EXCEPT ![i] = status]
    BY <1>11 DEF Judge, TypeOK
  <2> QED BY <1>1, <2>1 DEF Vouched, Registry
<1>12. CASE CancelAwait(p)
  BY <1>2, <1>3, <1>12 DEF CancelAwait, Release
<1>13. CASE LeaseStep(p) \/ Preflight(p)
  BY <1>3, <1>13 DEF LeaseStep, Request, Acquire, Preflight, locals
<1>14. ASSUME NEW k \in Wakes, StartWake(p, k) \/ \E i \in ID : EnsureWake(p, i, k)
       PROVE  Goal
  BY <1>3, <1>14 DEF StartWake, EnsureWake
<1>15. ASSUME NEW i \in ID, Defer(p, i) PROVE Goal
  BY <1>3, <1>15 DEF Defer
<1>16. CASE CancelPass(p)
  BY <1>3, <1>16 DEF CancelPass
<1> HIDE DEF Goal
<1>17. CASE RegisterStep(p)
  BY <1>2, <1>4, <1>7, <1>13, <1>14, <1>17
     DEF RegisterStep, Refuse, ReserveOnly, ReserveFailed, Restore, Record, ForgetEntry,
         Release
<1>18. CASE AwaitStep(p)
  BY <1>8, <1>9, <1>10, <1>12, <1>18 DEF AwaitStep
<1>19. CASE PassStep(p)
  BY <1>2, <1>5, <1>11, <1>14, <1>15, <1>16, <1>19 DEF PassStep, Commit, Release
<1>20. CASE ProcFault(p)
  BY <1>2, <1>20 DEF ProcFault, CancelWait, Crash
<1> QED BY <1>13, <1>17, <1>18, <1>19, <1>20 DEF ProcStep

(* Every step keeps the invariant of ready wakes.                          *)
LEMMA ReadyInvIsInductive ==
    ASSUME TransactionInv, ReadyInv, [Next]_vars
    PROVE  ReadyInv'
<1>1. TypeInv /\ TypeInv'
  BY TypeInvIsInductive DEF TransactionInv
<1>2. ASSUME NEW p \in Procs, ProcStep(p) \/ ProcFault(p)
      PROVE  ReadyInv'
  <2>1. published' = published
    BY <1>1, <1>2, StepsKeepWakes
  <2>2. Vouched(reg)'
    BY <1>2, <2>1, SavesAreVouched DEF Vouched
  <2>3. ASSUME NEW q \in Procs PROVE (Vouched(saved[q]) /\ Vouched(after[q]))'
    <3>1. CASE q = p
      BY <1>2, <2>1, <3>1, LocalsAreVouched DEF Vouched
    <3>2. CASE q # p
      BY <1>1, <1>2, <2>1, <3>2, StepsAreLocal DEF SameLocals, ReadyInv, Vouched
    <3> QED BY <3>1, <3>2
  <2>4. ASSUME NEW q \in Procs, pc'[q] = "await"
        PROVE  phase'[wake'[q]] # "idle" /\ wakeID'[wake'[q]] = cand'[q]
    <3>1. wake'[q] \in Wakes
      BY <1>1, <2>4 DEF TypeInv, StageOK
    <3>2. CASE q # p
      <4>1. pc[q] = "await" /\ cand'[q] = cand[q] /\ wake'[q] = wake[q]
        BY <1>1, <1>2, <2>4, <3>2, StepsAreLocal, StepsKeepWakes DEF SameLocals
      <4>2. phase[wake[q]] # "idle" /\ wakeID[wake[q]] = cand[q]
        BY <4>1 DEF ReadyInv, AwaitsItsWake
      <4> QED BY <1>1, <1>2, <3>1, <4>1, <4>2, StepsKeepWakes
    <3>3. CASE q = p
      <4>1. PICK k \in Wakes : StartWake(p, k) \/ \E i \in ID : EnsureWake(p, i, k)
        <5>1. ASSUME Leave(p) PROVE FALSE
          BY <1>1, <2>4, <3>3, <5>1 DEF Leave, TypeInv, TypeOK
        <5>2. CASE LeaseStep(p) \/ ProcFault(p)
          BY <1>1, <2>4, <3>3, <5>1, <5>2
             DEF LeaseStep, Request, Acquire, ProcFault, CancelWait, Crash, Goto, TypeInv,
                 TypeOK
        <5>3. CASE RegisterStep(p)
          BY <1>1, <2>4, <3>3, <5>1, <5>3
             DEF RegisterStep, Refuse, Preflight, Reserve, ReserveOnly, ReserveFailed,
                 NotStarted, Conclude, Restore, Record, ForgetEntry, Release, Goto, TypeInv,
                 TypeOK
        <5>4. CASE AwaitStep(p)
          BY <1>1, <2>4, <3>3, <5>1, <5>4
             DEF AwaitStep, WakeReady, WakeFailed, WakeUncertain, CancelAwait, Verdict,
                 Conclude, Release, Goto, Awaits, TypeInv, TypeOK
        <5>5. CASE PassStep(p)
          BY <1>1, <2>4, <3>3, <5>1, <5>5
             DEF PassStep, Load, Defer, Judge, Take, CancelPass, Commit, Release, Goto,
                 TypeInv, TypeOK
        <5> QED BY <1>2, <5>2, <5>3, <5>4, <5>5 DEF ProcStep
      <4>2. wake'[p] = k /\ phase'[k] = "starting" /\ wakeID'[k] = cand'[p]
        BY <1>1, <4>1 DEF StartWake, EnsureWake, Spawn, TypeInv, TypeOK
      <4> QED BY <3>3, <4>2
    <3> QED BY <3>2, <3>3
  <2>5. ASSUME NEW k \in Wakes, phase'[k] \in {"live", "exited"} PROVE wakeID'[k] \in published
    <3>1. phase'[k] = phase[k] /\ wakeID'[k] = wakeID[k]
      BY <1>1, <1>2, <2>5, StepsKeepWakes
    <3> QED BY <2>5, <3>1 DEF ReadyInv
  <2> QED BY <2>1, <2>2, <2>3, <2>4, <2>5 DEF ReadyInv, AwaitsItsWake
<1>3. ASSUME NEW k \in Wakes, AMQStep(k) PROVE ReadyInv'
  <2>1. /\ UNCHANGED <<reg, pc, cand, saved, after, wake>>
        /\ published \subseteq published'
        /\ \A j \in Wakes : j # k => phase'[j] = phase[j] /\ wakeID'[j] = wakeID[j]
    BY <1>1, <1>3 DEF AMQStep, TakeWakeLock, PublishReady, AcceptExisting, FailToStart, Exit,
              Reap, WakeStep, locals, TypeInv, TypeOK
  <2>2. phase'[k] \in {"live", "exited"} => wakeID'[k] \in published'
    BY <1>1, <1>3 DEF AMQStep, TakeWakeLock, PublishReady, AcceptExisting, FailToStart, Exit,
              Reap, WakeStep, TypeInv, TypeOK, ReadyInv
  <2>3. Awaited(k) => phase'[k] # "idle" /\ wakeID'[k] = wakeID[k]
    BY <1>1, <1>3 DEF AMQStep, TakeWakeLock, PublishReady, AcceptExisting, FailToStart, Exit,
              Reap, WakeStep, TypeInv, TypeOK
  <2>4. ASSUME NEW q \in Procs PROVE AwaitsItsWake(q)'
    BY <1>1, <2>1, <2>3 DEF ReadyInv, AwaitsItsWake, Awaited, TypeInv, StageOK
  <2>5. Vouched(reg)' /\ \A q \in Procs : (Vouched(saved[q]) /\ Vouched(after[q]))'
    BY <2>1 DEF ReadyInv, Vouched
  <2>6. \A j \in Wakes : phase'[j] \in {"live", "exited"} => wakeID'[j] \in published'
    BY <2>1, <2>2 DEF ReadyInv
  <2> QED BY <2>4, <2>5, <2>6 DEF ReadyInv
<1>4. CASE UNCHANGED vars
  BY <1>4 DEF vars, locals, wakes, ReadyInv, Vouched, AwaitsItsWake
<1> QED BY <1>2, <1>3, <1>4 DEF Next

(* It holds in every reachable state.                                      *)
LEMMA ReadyInvHolds == Spec => []ReadyInv
<1>1. Init => ReadyInv
  BY DEF Init, ReadyInv, Vouched, AwaitsItsWake, EmptyRegistry, Status
<1>2. TransactionInv /\ ReadyInv /\ [Next]_vars => ReadyInv'
  BY ReadyInvIsInductive
<1> QED BY <1>1, <1>2, TransactionInvHolds, PTL DEF Spec

(* A row is active only when a wake has published readiness for exactly    *)
(* that row: no timeout, failure or other entry's wake is taken for it,    *)
(* and no rollback or commit brings an older mistake back.                 *)
THEOREM ActiveRowsWereReady == Spec => []ActiveWasReady
<1>1. ReadyInv => ActiveWasReady
  BY DEF ReadyInv, Vouched, ActiveWasReady
<1> QED BY <1>1, ReadyInvHolds, PTL

-----------------------------------------------------------------------------
(* A system in which nobody forgets rows by hand.  The rollback of a       *)
(* reattach may take its session's only row away; what makes that safe is  *)
(* known from the reservation on: other wakes of the session that may come *)
(* up have a row among those that would come back.                         *)
NobodyForgets == "forget" \notin ClientOps

MayComeUp(k) == phase[k] \in {"starting", "locked", "live"}

RollbackOK(p) ==
    Undecided(p) =>
        \A k \in Wakes :
            MayComeUp(k) /\ SameSession(wakeID[k], cand[p]) =>
                \/ pc[p] = "await" /\ k = wake[p]
                \/ \E i \in Present(saved[p]) : SameSession(i, wakeID[k])

KeptInv == WakeNeverOrphaned /\ \A p \in Procs : RollbackOK(p)

(* While a registration or a pass goes on, the sessions keep their rows,   *)
(* and a rollback happens only where RollbackOK allows it.                 *)
LEMMA SavesKeepSessions ==
    ASSUME NobodyForgets, TransactionInv, KeptInv, NEW p \in Procs,
           ProcStep(p) \/ ProcFault(p),
           NEW k \in Wakes, MayComeUp(k)
    PROVE  \E i \in Present(reg') : SameSession(i, wakeID[k])
<1> DEFINE Kept(rows) == \E i \in Present(rows) : SameSession(i, wakeID[k])
<1> USE DEF TransactionInv, TypeInv
<1>1. Kept(reg) /\ reg \in Registry /\ NoRow \notin Status
  BY DEF KeptInv, WakeNeverOrphaned, MayComeUp, TypeOK
<1>2. PICK i \in Present(reg) : SameSession(i, wakeID[k])
  BY <1>1
<1>3. ASSUME NEW rows, Kept(rows), SaveOK(rows) \/ SaveFailed(rows)
      PROVE  Kept(reg')
  BY <1>1, <1>3 DEF SaveOK, SaveFailed
<1>4. CASE Reserve(p) \/ ReserveOnly(p) \/ (ReserveFailed(p) /\ Available(p))
  <2>1. /\ cand[p] \in ID
        /\ SaveOK(Reservation(p)) \/ SaveFailed(Reservation(p))
    BY <1>4 DEF Reserve, ReserveOnly, ReserveFailed, StageOK
  <2>2. cand[p] \in Present(Reservation(p))
    BY <1>1, <2>1 DEF Reservation, ReplaceSessionAdapter, Upsert, Present, Registry, Status
  <2>3. CASE SameSession(i, cand[p])
    BY <1>2, <1>3, <2>1, <2>2, <2>3 DEF SameSession
  <2>4. CASE ~SameSession(i, cand[p])
    <3>1. i \in Present(Reservation(p))
      BY <1>1, <2>1, <2>4
         DEF Reservation, ReplaceSessionAdapter, Upsert, Present, Registry, SameSession
    <3> QED BY <1>2, <1>3, <2>1, <3>1
  <2> QED BY <2>3, <2>4
<1>5. CASE Restore(p) /\ Unchanged(reg, cand[p], "reserved")
  <2>1. /\ cand[p] \in ID /\ pc[p] = "restore" /\ op[p] \in Replacing
        /\ SaveOK(Restored(p)) \/ SaveFailed(Restored(p))
    BY <1>5 DEF Restore, StageOK
  <2>2. Present(saved[p]) \subseteq Present(Restored(p))
    BY DEF Restored, RestoreSessionAdapter, Present
  <2>3. CASE i = cand[p]
    <3>1. \E j \in Present(saved[p]) : SameSession(j, wakeID[k])
      BY <1>2, <2>1, <2>3 DEF KeptInv, RollbackOK, Undecided, SameSession
    <3> QED BY <1>3, <2>1, <2>2, <3>1
  <2>4. CASE i # cand[p]
    <3>1. i \in Present(Restored(p))
      BY <1>2, <2>4 DEF Restored, RestoreSessionAdapter, Present
    <3> QED BY <1>2, <1>3, <2>1, <3>1
  <2> QED BY <2>3, <2>4
<1>6. CASE Record(p) /\ reg[cand[p]] # NoRow
  <2>1. /\ cand[p] \in ID /\ after[p][cand[p]] \in Status
        /\ SaveOK(Recorded(p)) \/ SaveFailed(Recorded(p))
    BY <1>6 DEF Record, StageOK, HolderOK, RecordOK
  <2>2. i \in Present(Recorded(p))
    BY <1>1, <1>2, <2>1 DEF Recorded, UpdateEntry, Present, Registry
  <2> QED BY <1>2, <1>3, <2>1, <2>2
<1>7. CASE Commit(p)
  <2>1. /\ pc[p] = "pass" /\ op[p] = "supervise"
        /\ SaveOK(Committed(p)) \/ SaveFailed(Committed(p))
    BY <1>7 DEF Commit, StageOK
  <2>2. reg = saved[p] /\ Present(after[p]) = Present(saved[p])
    BY <2>1 DEF HolderOK, PassOK
  <2>3. i \in Present(Committed(p))
    BY <1>2, <2>2 DEF Committed, UpdateEntries, Present
  <2> QED BY <1>2, <1>3, <2>1, <2>3
<1>8. ASSUME ForgetEntry(p) PROVE FALSE
  BY <1>8 DEF ForgetEntry, StageOK, NobodyForgets
<1>9. ASSUME reg' = reg PROVE Kept(reg')
  BY <1>1, <1>9
<1> QED
  BY <1>4, <1>5, <1>6, <1>7, <1>8, <1>9
     DEF ProcStep, ProcFault, LeaseStep, Request, Acquire, CancelWait, Crash,
         RegisterStep, Refuse, Preflight, ReserveFailed, StartWake, NotStarted, Restore,
         Record, AwaitStep, WakeReady, WakeFailed, WakeUncertain, CancelAwait,
         PassStep, Load, Defer, Judge, EnsureWake, CancelPass

(* A wake is started for a row that is in the registry.                    *)
LEMMA SpawnsHaveRows ==
    ASSUME TransactionInv, NEW p \in Procs, ProcStep(p) \/ ProcFault(p),
           NEW k \in Wakes, phase[k] = "idle", phase'[k] = "starting"
    PROVE  wakeID'[k] \in Present(reg')
<1> USE DEF TransactionInv, TypeInv
<1>1. \/ \E j \in Wakes : StartWake(p, j)
      \/ \E i \in ID, j \in Wakes : EnsureWake(p, i, j)
  BY DEF ProcStep, ProcFault, LeaseStep, Request, Acquire, CancelWait, Crash,
         RegisterStep, Refuse, Preflight, Reserve, ReserveOnly, ReserveFailed,
         NotStarted, Restore, Record, ForgetEntry, AwaitStep, WakeReady, WakeFailed,
         WakeUncertain, CancelAwait, PassStep, Load, Defer, Judge, CancelPass, Commit,
         TakesRows, PutsRowsBack, wakes
<1>2. ASSUME NEW j \in Wakes, StartWake(p, j) PROVE wakeID'[k] \in Present(reg')
  <2>1. /\ wakeID'[k] = cand[p] /\ reg' = reg /\ cand[p] \in ID
        /\ pc[p] = "start" /\ op[p] \in Register
    BY <1>2 DEF StartWake, Spawn, TypeOK, StageOK
  <2> QED BY <2>1 DEF HolderOK, HeldOK, Present, Status
<1>3. ASSUME NEW i \in ID, NEW j \in Wakes, EnsureWake(p, i, j)
      PROVE  wakeID'[k] \in Present(reg')
  <2>1. /\ wakeID'[k] = i /\ reg' = reg /\ i \in todo[p]
        /\ pc[p] = "pass" /\ op[p] = "supervise"
    BY <1>3 DEF EnsureWake, Take, Spawn, TypeOK, StageOK
  <2> QED BY <2>1 DEF HolderOK, PassOK
<1> QED BY <1>1, <1>2, <1>3

(* Once it has reserved, a reattach stays undecided in these steps only.   *)
LEMMA DecisionsComeAfter ==
    ASSUME TransactionInv, NEW p \in Procs, ProcStep(p) \/ ProcFault(p),
           Undecided(p)', ~Reserve(p)
    PROVE  \/ \E k \in Wakes : StartWake(p, k)
           \/ NotStarted(p) \/ WakeFailed(p) \/ CancelAwait(p)
<1> USE DEF TransactionInv, TypeInv
<1>1. ASSUME Leave(p) PROVE FALSE
  BY <1>1 DEF Leave, Undecided, TypeOK, Replacing
<1>2. CASE LeaseStep(p) \/ ProcFault(p)
  BY <1>1, <1>2
     DEF LeaseStep, Request, Acquire, ProcFault, CancelWait, Crash, Goto, Undecided, TypeOK
<1>3. CASE RegisterStep(p)
  BY <1>1, <1>3
     DEF RegisterStep, Refuse, Preflight, ReserveOnly, ReserveFailed, Restore, Record,
         ForgetEntry, Release, Goto, Undecided, TypeOK
<1>4. CASE AwaitStep(p)
  BY <1>1, <1>4
     DEF AwaitStep, WakeReady, WakeUncertain, Verdict, Conclude, Goto, Undecided, TypeOK
<1>5. CASE PassStep(p)
  BY <1>1, <1>5
     DEF PassStep, Load, Defer, Judge, EnsureWake, Take, CancelPass, Commit, Release, Goto,
         Undecided, TypeOK, StageOK, Replacing
<1> QED BY <1>2, <1>3, <1>4, <1>5 DEF ProcStep

(* RollbackOK begins with the reservation and lasts to the decision.       *)
LEMMA RollbackStaysOK ==
    ASSUME TransactionInv, KeptInv, NEW p \in Procs, ProcStep(p) \/ ProcFault(p),
           Undecided(p)'
    PROVE  RollbackOK(p)'
<1> USE DEF TransactionInv, TypeInv
<1>1. CASE Reserve(p) /\ op[p] \in Replacing
  <2>1. /\ cand'[p] = cand[p] /\ saved'[p] = Removed(reg, cand[p])
        /\ phase' = phase /\ wakeID' = wakeID
    BY <1>1 DEF Reserve, TypeOK, TakesRows
  <2>2. ASSUME NEW k \in Wakes, MayComeUp(k), SameSession(wakeID[k], cand[p])
        PROVE  \E i \in Present(saved'[p]) : SameSession(i, wakeID[k])
    <3>1. PICK i \in Present(reg) : SameSession(i, wakeID[k])
      BY <2>2 DEF KeptInv, WakeNeverOrphaned, MayComeUp
    <3>2. i \in Present(saved'[p])
      BY <2>1, <2>2, <3>1 DEF Removed, Present, SameSession
    <3> QED BY <3>1, <3>2
  <2> QED BY <2>1, <2>2 DEF RollbackOK, MayComeUp
<1>2. CASE ~Reserve(p)
  <2>1. \/ \E k \in Wakes : StartWake(p, k)
        \/ NotStarted(p) \/ WakeFailed(p) \/ CancelAwait(p)
    BY <1>2, DecisionsComeAfter
  <2>2. ASSUME NEW k \in Wakes, StartWake(p, k) PROVE RollbackOK(p)'
    <3>1. /\ Undecided(p) /\ pc[p] = "start" /\ pc'[p] = "await" /\ wake'[p] = k
          /\ cand' = cand /\ saved' = saved
          /\ \A j \in Wakes : j # k => phase'[j] = phase[j] /\ wakeID'[j] = wakeID[j]
      BY <2>2 DEF StartWake, Spawn, Goto, Undecided, TypeOK
    <3> QED BY <3>1 DEF KeptInv, RollbackOK, MayComeUp
  <2>3. CASE NotStarted(p)
    <3>1. /\ Undecided(p) /\ pc[p] = "start" /\ cand' = cand /\ saved' = saved
          /\ phase' = phase /\ wakeID' = wakeID
      BY <2>3 DEF NotStarted, Undecided, wakes
    <3> QED BY <3>1 DEF KeptInv, RollbackOK, MayComeUp
  <2>4. CASE WakeFailed(p) \/ CancelAwait(p)
    <3>1. /\ Undecided(p) /\ pc[p] = "await" /\ cand' = cand /\ saved' = saved
          /\ phase' = phase /\ wakeID' = wakeID /\ phase[wake[p]] = "failed"
      BY <2>4
         DEF WakeFailed, CancelAwait, Awaits, Verdict, Conclude, Release, Leave, Goto,
             Undecided, wakes, Replacing, TypeOK
    <3> QED BY <3>1 DEF KeptInv, RollbackOK, MayComeUp
  <2> QED BY <2>1, <2>2, <2>3, <2>4
<1>3. Reserve(p) => op[p] \in Replacing
  BY DEF Reserve, Undecided
<1> QED BY <1>1, <1>2, <1>3

(* Without forget, every step keeps a row for each wake that may come up.  *)
LEMMA KeptInvIsInductive ==
    ASSUME NobodyForgets, TransactionInv, KeptInv, [Next]_vars
    PROVE  KeptInv'
<1>1. ASSUME NEW p \in Procs, ProcStep(p) \/ ProcFault(p)
      PROVE  KeptInv'
  <2>1. ASSUME NEW k \in Wakes, MayComeUp(k)'
        PROVE  \E i \in Present(reg') : SameSession(i, wakeID'[k])
    <3>1. CASE phase'[k] = phase[k] /\ wakeID'[k] = wakeID[k]
      BY <1>1, <2>1, <3>1, SavesKeepSessions DEF MayComeUp
    <3>2. CASE phase[k] = "idle" /\ phase'[k] = "starting"
      BY <1>1, <3>2, SpawnsHaveRows DEF SameSession
    <3> QED BY <1>1, <3>1, <3>2, StepsKeepWakes DEF TransactionInv
  <2>2. ASSUME NEW q \in Procs, Undecided(q)' PROVE RollbackOK(q)'
    <3>1. CASE q = p
      BY <1>1, <2>2, <3>1, RollbackStaysOK
    <3>2. CASE q # p
      <4>1. pc'[q] \in InTransaction
        BY <2>2 DEF Undecided, InTransaction, Stage
      <4>2. SameLocals(q) /\ pc[p] \notin InTransaction
        BY <1>1, <3>2, <4>1, InsideUndisturbed
      <4>3. wake'[q] = wake[q]
        BY <1>1, <3>2, StepsKeepWakes DEF TransactionInv
      <4>4. \A k \in Wakes : phase'[k] = phase[k] /\ wakeID'[k] = wakeID[k]
        <5>1. pc'[p] # "await"
          BY <1>1, <3>2, <4>1, LeaseIsExclusive
             DEF TransactionInv, LeaseExclusion, InTransaction, Stage
        <5> QED BY <1>1, <5>1, StepsKeepWakes DEF TransactionInv
      <4> QED BY <4>2, <4>3, <4>4 DEF SameLocals, KeptInv, RollbackOK, Undecided, MayComeUp
    <3> QED BY <3>1, <3>2
  <2>3. \A q \in Procs : RollbackOK(q)'
    BY <2>2 DEF RollbackOK
  <2> QED BY <2>1, <2>3 DEF KeptInv, WakeNeverOrphaned, MayComeUp
<1>2. ASSUME NEW k \in Wakes, AMQStep(k) PROVE KeptInv'
  <2>1. /\ UNCHANGED <<reg, pc, op, cand, saved, wake>>
        /\ \A j \in Wakes : MayComeUp(j)' => MayComeUp(j) /\ wakeID'[j] = wakeID[j]
    BY <1>2 DEF AMQStep, TakeWakeLock, PublishReady, AcceptExisting, FailToStart, Exit,
              Reap, WakeStep, locals, MayComeUp, TransactionInv, TypeInv, TypeOK
  <2>2. WakeNeverOrphaned'
    BY <2>1 DEF KeptInv, WakeNeverOrphaned, MayComeUp
  <2>3. ASSUME NEW q \in Procs PROVE RollbackOK(q)'
    BY <2>1 DEF KeptInv, RollbackOK, Undecided
  <2> QED BY <2>2, <2>3 DEF KeptInv
<1>3. CASE UNCHANGED vars
  BY <1>3 DEF vars, locals, wakes, KeptInv, WakeNeverOrphaned, RollbackOK, Undecided, MayComeUp
<1> QED BY <1>1, <1>2, <1>3 DEF Next

(* As long as no row is forgotten by hand, no crash, cancellation, timeout *)
(* or rollback leaves a wake that runs, or may still come up, without a    *)
(* row of its session.                                                     *)
THEOREM WakesKeepTheirSession ==
    ASSUME NobodyForgets
    PROVE  Spec => []WakeNeverOrphaned
<1>1. Init => KeptInv
  BY DEF Init, KeptInv, WakeNeverOrphaned, RollbackOK, Undecided
<1>2. TransactionInv /\ KeptInv /\ [Next]_vars => KeptInv'
  BY KeptInvIsInductive
<1>3. KeptInv => WakeNeverOrphaned
  BY DEF KeptInv
<1> QED BY <1>1, <1>2, <1>3, TransactionInvHolds, PTL DEF Spec

-----------------------------------------------------------------------------
(* With or without forget, a wake keeps its own row.  What makes that safe *)
(* is again known from the reservation on: the row of a wake that may come *)
(* up is not the one that a rollback would drop, except for the wake that  *)
(* the reattach itself waits for, whose failure is certain by then.        *)
DropOK(p) ==
    Undecided(p) =>
        \A k \in Wakes \ replaced :
            MayComeUp(k) /\ wakeID[k] = cand[p] =>
                \/ pc[p] = "await" /\ k = wake[p]
                \/ saved[p][cand[p]] # NoRow

OwnRowInv == WakeKeepsItsRow /\ \A p \in Procs : DropOK(p)

(* The history follows the reservations, rollbacks and forgets; the other  *)
(* steps take no row away.                                                 *)
LEMMA HistoryFollowsRows ==
    ASSUME TransactionInv, NEW p \in Procs, ProcStep(p) \/ ProcFault(p)
    PROVE  \/ TakesRows /\ pc[p] \in InTransaction
           \/ Restore(p) /\ PutsRowsBack /\ pc[p] \in InTransaction
           \/ replaced' = replaced /\ Present(reg) \subseteq Present(reg')
<1> USE DEF TransactionInv, TypeInv
<1>1. reg \in Registry /\ NoRow \notin Status
  BY DEF TypeOK
<1>2. CASE Reserve(p) \/ ReserveOnly(p) \/ ReserveFailed(p) \/ ForgetEntry(p)
  BY <1>2 DEF Reserve, ReserveOnly, ReserveFailed, ForgetEntry, InTransaction, Stage
<1>3. CASE Restore(p)
  BY <1>3 DEF Restore, InTransaction, Stage
<1>4. CASE Record(p) /\ reg[cand[p]] # NoRow
  <2>1. /\ cand[p] \in ID /\ after[p][cand[p]] \in Status /\ replaced' = replaced
        /\ SaveOK(Recorded(p)) \/ SaveFailed(Recorded(p))
    BY <1>4 DEF Record, StageOK, HolderOK, RecordOK, wakes
  <2>2. Present(reg) \subseteq Present(Recorded(p))
    BY <1>1, <2>1 DEF Recorded, UpdateEntry, Present, Registry
  <2> QED BY <2>1, <2>2 DEF SaveOK, SaveFailed
<1>5. CASE Commit(p)
  <2>1. /\ pc[p] = "pass" /\ op[p] = "supervise" /\ replaced' = replaced
        /\ SaveOK(Committed(p)) \/ SaveFailed(Committed(p))
    BY <1>5 DEF Commit, StageOK, wakes
  <2>2. reg = saved[p] /\ Present(after[p]) = Present(saved[p])
    BY <2>1 DEF HolderOK, PassOK
  <2>3. Present(reg) \subseteq Present(Committed(p))
    BY <2>2 DEF Committed, UpdateEntries, Present
  <2> QED BY <2>1, <2>3 DEF SaveOK, SaveFailed
<1>6. CASE reg' = reg /\ replaced' = replaced
  BY <1>6
<1> QED
  BY <1>2, <1>3, <1>4, <1>5, <1>6
     DEF ProcStep, ProcFault, LeaseStep, Request, Acquire, CancelWait, Crash, RegisterStep,
         Refuse, Preflight, StartWake, NotStarted, Spawn, Record, AwaitStep, WakeReady,
         WakeFailed, WakeUncertain, CancelAwait, PassStep, Load, Defer, Judge, EnsureWake,
         CancelPass, wakes

(* A step keeps the row of a wake that may come up, unless the history     *)
(* says afterwards that the step, or an earlier one, took it.              *)
LEMMA SavesKeepOwnRows ==
    ASSUME TransactionInv, OwnRowInv, NEW p \in Procs, ProcStep(p) \/ ProcFault(p),
           NEW k \in Wakes \ replaced', MayComeUp(k)
    PROVE  reg'[wakeID[k]] # NoRow
<1> USE DEF TransactionInv, TypeInv
<1>1. reg \in Registry /\ NoRow \notin Status /\ wakeID[k] \in ID /\ phase[k] # "idle"
  BY DEF TypeOK, WakeIDOK, MayComeUp
<1>2. k \notin replaced => reg[wakeID[k]] # NoRow
  BY DEF OwnRowInv, WakeKeepsItsRow, MayComeUp
<1>3. CASE TakesRows
  BY <1>1, <1>2, <1>3 DEF TakesRows
<1>4. CASE Restore(p) /\ PutsRowsBack
  <2>1. CASE k \in replaced
    BY <1>4, <2>1 DEF PutsRowsBack
  <2>2. CASE k \notin replaced
    <3>1. Undecided(p) /\ pc[p] = "restore"
      BY <1>4 DEF Restore, StageOK, Undecided
    <3>2. wakeID[k] = cand[p] => saved[p][cand[p]] # NoRow
      BY <2>2, <3>1 DEF OwnRowInv, DropOK
    <3>3. Restored(p)[wakeID[k]] # NoRow
      BY <1>1, <1>2, <2>2, <3>2 DEF Restored, RestoreSessionAdapter
    <3> QED BY <1>2, <1>4, <2>2, <3>3 DEF Restore, SaveOK, SaveFailed
  <2> QED BY <2>1, <2>2
<1>5. CASE replaced' = replaced /\ Present(reg) \subseteq Present(reg')
  BY <1>1, <1>2, <1>5 DEF Present
<1> QED BY <1>3, <1>4, <1>5, HistoryFollowsRows

(* DropOK begins with the reservation and lasts to the decision.           *)
LEMMA DropStaysOK ==
    ASSUME TransactionInv, OwnRowInv, NEW p \in Procs, ProcStep(p) \/ ProcFault(p),
           Undecided(p)'
    PROVE  DropOK(p)'
<1> USE DEF TransactionInv, TypeInv
<1>1. CASE Reserve(p) /\ op[p] \in Replacing
  <2>1. /\ cand'[p] = cand[p] /\ saved'[p] = Removed(reg, cand[p])
        /\ cand[p] \in ID /\ phase' = phase /\ wakeID' = wakeID
        /\ replaced \subseteq replaced'
    BY <1>1 DEF Reserve, TypeOK, StageOK, TakesRows
  <2>2. ASSUME NEW k \in Wakes \ replaced', MayComeUp(k), wakeID[k] = cand[p]
        PROVE  saved'[p][cand[p]] # NoRow
    <3>1. reg[cand[p]] # NoRow
      BY <2>1, <2>2 DEF OwnRowInv, WakeKeepsItsRow, MayComeUp
    <3> QED BY <2>1, <3>1 DEF Removed, SameSession
  <2> QED BY <2>1, <2>2 DEF DropOK, MayComeUp
<1>2. CASE ~Reserve(p)
  <2>1. \/ \E k \in Wakes : StartWake(p, k)
        \/ NotStarted(p) \/ WakeFailed(p) \/ CancelAwait(p)
    BY <1>2, DecisionsComeAfter
  <2>2. ASSUME NEW k \in Wakes, StartWake(p, k) PROVE DropOK(p)'
    <3>1. /\ Undecided(p) /\ pc[p] = "start" /\ pc'[p] = "await" /\ wake'[p] = k
          /\ cand' = cand /\ saved' = saved /\ replaced' = replaced
          /\ \A j \in Wakes : j # k => phase'[j] = phase[j] /\ wakeID'[j] = wakeID[j]
      BY <2>2 DEF StartWake, Spawn, Goto, Undecided, TypeOK
    <3> QED BY <3>1 DEF OwnRowInv, DropOK, MayComeUp
  <2>3. CASE NotStarted(p)
    <3>1. /\ Undecided(p) /\ pc[p] = "start" /\ cand' = cand /\ saved' = saved
          /\ phase' = phase /\ wakeID' = wakeID /\ replaced' = replaced
      BY <2>3 DEF NotStarted, Undecided, wakes
    <3> QED BY <3>1 DEF OwnRowInv, DropOK, MayComeUp
  <2>4. CASE WakeFailed(p) \/ CancelAwait(p)
    <3>1. /\ Undecided(p) /\ pc[p] = "await" /\ cand' = cand /\ saved' = saved
          /\ phase' = phase /\ wakeID' = wakeID /\ phase[wake[p]] = "failed"
          /\ replaced' = replaced
      BY <2>4
         DEF WakeFailed, CancelAwait, Awaits, Verdict, Conclude, Release, Leave, Goto,
             Undecided, wakes, Replacing, TypeOK
    <3> QED BY <3>1 DEF OwnRowInv, DropOK, MayComeUp
  <2> QED BY <2>1, <2>2, <2>3, <2>4
<1>3. Reserve(p) => op[p] \in Replacing
  BY DEF Reserve, Undecided
<1> QED BY <1>1, <1>2, <1>3

(* Every step keeps the rows of the wakes that may come up.                *)
LEMMA OwnRowInvIsInductive ==
    ASSUME TransactionInv, OwnRowInv, [Next]_vars
    PROVE  OwnRowInv'
<1>1. ASSUME NEW p \in Procs, ProcStep(p) \/ ProcFault(p)
      PROVE  OwnRowInv'
  <2>1. ASSUME NEW k \in Wakes \ replaced', MayComeUp(k)'
        PROVE  reg'[wakeID'[k]] # NoRow
    <3>1. CASE phase'[k] = phase[k] /\ wakeID'[k] = wakeID[k]
      BY <1>1, <2>1, <3>1, SavesKeepOwnRows DEF MayComeUp
    <3>2. CASE phase[k] = "idle" /\ phase'[k] = "starting"
      BY <1>1, <3>2, SpawnsHaveRows DEF Present
    <3> QED BY <1>1, <3>1, <3>2, StepsKeepWakes DEF TransactionInv
  <2>2. ASSUME NEW q \in Procs, Undecided(q)' PROVE DropOK(q)'
    <3>1. CASE q = p
      BY <1>1, <2>2, <3>1, DropStaysOK
    <3>2. CASE q # p
      <4>1. pc'[q] \in InTransaction
        BY <2>2 DEF Undecided, InTransaction, Stage
      <4>2. SameLocals(q) /\ pc[p] \notin InTransaction
        BY <1>1, <3>2, <4>1, InsideUndisturbed
      <4>3. wake'[q] = wake[q] /\ replaced' = replaced
        BY <1>1, <3>2, <4>2, StepsKeepWakes, HistoryFollowsRows DEF TransactionInv
      <4>4. \A k \in Wakes : phase'[k] = phase[k] /\ wakeID'[k] = wakeID[k]
        <5>1. pc'[p] # "await"
          BY <1>1, <3>2, <4>1, LeaseIsExclusive
             DEF TransactionInv, LeaseExclusion, InTransaction, Stage
        <5> QED BY <1>1, <5>1, StepsKeepWakes DEF TransactionInv
      <4> QED BY <4>2, <4>3, <4>4 DEF SameLocals, OwnRowInv, DropOK, Undecided, MayComeUp
    <3> QED BY <3>1, <3>2
  <2>3. \A q \in Procs : DropOK(q)'
    BY <2>2 DEF DropOK
  <2> QED BY <2>1, <2>3 DEF OwnRowInv, WakeKeepsItsRow, MayComeUp
<1>2. ASSUME NEW k \in Wakes, AMQStep(k) PROVE OwnRowInv'
  <2>1. /\ UNCHANGED <<reg, pc, op, cand, saved, wake>>
        /\ \A j \in Wakes : MayComeUp(j)' => MayComeUp(j) /\ wakeID'[j] = wakeID[j]
        /\ \A j \in Wakes \ replaced' : MayComeUp(j)' => j \notin replaced
    BY <1>2 DEF AMQStep, TakeWakeLock, PublishReady, AcceptExisting, FailToStart, Exit,
              Reap, WakeStep, locals, MayComeUp, TransactionInv, TypeInv, TypeOK
  <2>2. WakeKeepsItsRow'
    BY <2>1 DEF OwnRowInv, WakeKeepsItsRow, MayComeUp
  <2>3. ASSUME NEW q \in Procs PROVE DropOK(q)'
    BY <2>1 DEF OwnRowInv, DropOK, Undecided
  <2> QED BY <2>2, <2>3 DEF OwnRowInv
<1>3. CASE UNCHANGED vars
  BY <1>3 DEF vars, locals, wakes, OwnRowInv, WakeKeepsItsRow, DropOK, Undecided, MayComeUp
<1> QED BY <1>1, <1>2, <1>3 DEF Next

(* Whatever crashes, fails to save, times out or is rolled back, a wake    *)
(* that runs or may still come up keeps the row it was started for, unless *)
(* a later reservation of its session or a forget took the row away.       *)
THEOREM WakesKeepTheirRows == Spec => []WakeKeepsItsRow
<1>1. Init => OwnRowInv
  BY DEF Init, OwnRowInv, WakeKeepsItsRow, DropOK, Undecided
<1>2. TransactionInv /\ OwnRowInv /\ [Next]_vars => OwnRowInv'
  BY OwnRowInvIsInductive
<1>3. OwnRowInv => WakeKeepsItsRow
  BY DEF OwnRowInv
<1> QED BY <1>1, <1>2, <1>3, TransactionInvHolds, PTL DEF Spec
=============================================================================
