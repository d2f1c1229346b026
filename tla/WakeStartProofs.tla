--------------------------- MODULE WakeStartProofs ---------------------------
(***************************************************************************)
(* WakeStart implements WakeOutcome: what StartWake returns is certain     *)
(* where it says so.  The argument is that, while the caller may still     *)
(* decide, a published readiness is never lost: it is in the file, in what *)
(* the reaper saw of the file, or in the reaper's result.  Nor is the file *)
(* left behind by a call that knows how its wake ended up, because nobody  *)
(* writes it twice.                                                        *)
(***************************************************************************)
EXTENDS WakeStart, TLAPS

Undecided == {"poll", "select", "recheck", "drain"}

(* Where the caller is and what it knows.                                  *)
CallerInv ==
    /\ pc = "done" <=> outcome # "none" /\ pc # "dead"
    /\ pc \in {"check", "spawn"} => child = "unborn"
    /\ pc \in Undecided \cup {"clean"} => child # "unborn"
    /\ pc = "clean" => published
    /\ pc \in {"check", "spawn", "poll", "select"} => ~processDone
    /\ pc \in {"poll", "select"} => done # "taken"
    /\ processDone /\ pc \in {"recheck", "drain"} => child = "exited" /\ ~published
    /\ pc \in Undecided /\ done = "taken" => processDone

(* Where the wake process and its reaper are.                              *)
ReaperInv ==
    /\ child = "unborn" => ~published /\ reaper \in {"none", "done"} /\ done = "empty"
    /\ file => published
    /\ pc \in Undecided /\ reaper \in {"none", "done"} => done # "empty"
    /\ reaper \in {"stat", "remove", "send"} \/ done # "empty" => child = "exited"
    /\ done # "empty" => reaper = "done"
    /\ sawReady \/ done = "ready" => published

(* While the caller is undecided nothing has hidden readiness from it.     *)
ReadinessKept ==
    pc \in Undecided /\ published =>
        /\ reaper \in {"wait", "stat"} => file
        /\ reaper \in {"remove", "send"} => sawReady
        /\ reaper = "done" => done = "ready"

WakeInv == TypeOK /\ CallerInv /\ ReaperInv /\ ReadinessKept

-----------------------------------------------------------------------------
(* Before the call there is nothing to lose.                               *)
LEMMA WakeInvInit == Init => WakeInv
BY DEF Init, WakeInv, TypeOK, CallerInv, ReaperInv, ReadinessKept, Undecided

(* Every step of the caller keeps the invariant.                           *)
LEMMA CallerKeepsWakeInv == WakeInv /\ CallerStep => WakeInv'
<1> SUFFICES ASSUME WakeInv, CallerStep PROVE WakeInv'
    OBVIOUS
<1> USE DEF WakeInv, TypeOK, CallerInv, ReaperInv, ReadinessKept, Undecided, Return,
            process, reaping, clocks
<1>1. CASE Check BY <1>1 DEF Check
<1>2. CASE Spawn
  <2>1. TypeOK' BY <1>2 DEF Spawn
  <2>2. CallerInv' BY <1>2 DEF Spawn
  <2>3. ReaperInv' BY <1>2 DEF Spawn
  <2>4. ReadinessKept' BY <1>2 DEF Spawn
  <2> QED BY <2>1, <2>2, <2>3, <2>4
<1>3. CASE SpawnFailed BY <1>3 DEF SpawnFailed
<1>4. CASE Poll BY <1>4 DEF Poll
<1>5. CASE Tick BY <1>5 DEF Tick
<1>6. CASE ReceiveDone
  <2>1. TypeOK' BY <1>6 DEF ReceiveDone
  <2>2. CallerInv' BY <1>6 DEF ReceiveDone
  <2>3. ReaperInv' BY <1>6 DEF ReceiveDone
  <2>4. ReadinessKept' BY <1>6 DEF ReceiveDone
  <2> QED BY <2>1, <2>2, <2>3, <2>4
<1>7. CASE GiveUp BY <1>7 DEF GiveUp
<1>8. CASE Recheck BY <1>8 DEF Recheck
<1>9. CASE Drain BY <1>9 DEF Drain
<1>10. CASE Clean BY <1>10 DEF Clean
<1> QED
  BY <1>1, <1>2, <1>3, <1>4, <1>5, <1>6, <1>7, <1>8, <1>9, <1>10 DEF CallerStep

(* Every step of the reaper, the wake and the environment does.            *)
LEMMA OthersKeepWakeInv == WakeInv /\ [Next]_vars => WakeInv'
<1> SUFFICES ASSUME WakeInv, [Next]_vars PROVE WakeInv'
    OBVIOUS
<1>0. CASE CallerStep BY <1>0, CallerKeepsWakeInv
<1> USE DEF WakeInv, TypeOK, CallerInv, ReaperInv, ReadinessKept, Undecided, caller,
            process, reaping, clocks
<1>1. CASE Wait BY <1>1 DEF Wait
<1>2. CASE Stat BY <1>2 DEF Stat
<1>3. CASE Remove BY <1>3 DEF Remove
<1>4. CASE Send BY <1>4 DEF Send
<1>5. CASE Publish BY <1>5 DEF Publish
<1>6. CASE Exit BY <1>6 DEF Exit
<1>7. CASE Timeout BY <1>7 DEF Timeout
<1>8. CASE Cancel BY <1>8 DEF Cancel
<1>9. CASE Die BY <1>9 DEF Die
<1>10. CASE Scavenge BY <1>10 DEF Scavenge
<1>11. CASE UNCHANGED vars BY <1>11 DEF vars
<1> QED
  BY <1>0, <1>1, <1>2, <1>3, <1>4, <1>5, <1>6, <1>7, <1>8, <1>9, <1>10, <1>11
     DEF Next, ReaperStep, Terminating

(* The invariant of StartWake.                                             *)
LEMMA WakeInvariant == Spec => []WakeInv
BY WakeInvInit, OthersKeepWakeInv, PTL DEF Spec

(* Every variable stays in its type.                                       *)
THEOREM WakeTypeCorrect == Spec => []TypeOK
BY WakeInvariant, PTL DEF WakeInv

-----------------------------------------------------------------------------
(* A step of the caller is a return of the contract, or is not seen.       *)
LEMMA CallerImplements ==
    WakeInv /\ CallerStep =>
        Contract!ProcessMoves \/ Contract!Return \/ UNCHANGED <<Phase, outcome>>
<1> SUFFICES ASSUME WakeInv, CallerStep
             PROVE  Contract!ProcessMoves \/ Contract!Return \/ UNCHANGED <<Phase, outcome>>
    OBVIOUS
<1> USE DEF WakeInv, TypeOK, CallerInv, ReaperInv, ReadinessKept, Undecided, Return,
            process, reaping, clocks, Phase, Contract!Return
<1>1. CASE Check BY <1>1 DEF Check
<1>2. CASE Spawn BY <1>2 DEF Spawn, Contract!ProcessMoves, Contract!Spawned
<1>3. CASE SpawnFailed BY <1>3 DEF SpawnFailed
<1>4. CASE Poll \/ Tick \/ ReceiveDone \/ GiveUp
  BY <1>4 DEF Poll, Tick, ReceiveDone, GiveUp
<1>5. CASE Recheck BY <1>5 DEF Recheck
<1>6. CASE Drain
  <2>1. CASE processDone BY <1>6, <2>1 DEF Drain
  <2>2. CASE ~processDone /\ done = "ready" BY <1>6, <2>2 DEF Drain
  <2>3. CASE ~processDone /\ done = "unready" BY <1>6, <2>3 DEF Drain
  <2>4. CASE ~processDone /\ done \notin {"ready", "unready"} BY <1>6, <2>4 DEF Drain
  <2> QED BY <2>1, <2>2, <2>3, <2>4
<1>7. CASE Clean BY <1>7 DEF Clean
<1> QED BY <1>1, <1>2, <1>3, <1>4, <1>5, <1>6, <1>7 DEF CallerStep

(* In every race of the file, the reaper, the timer and the context, a     *)
(* returned success means that the wake has published, and a returned      *)
(* plain failure that it never will.                                       *)
THEOREM WakeStartImplementsOutcome == Spec => ImplementsWakeOutcome
<1>1. Init => Contract!WOInit
  BY DEF Init, Contract!WOInit, Phase
<1>2. WakeInv /\ [Next]_vars =>
        [Contract!ProcessMoves \/ Contract!Return]_<<Phase, outcome>>
  <2> SUFFICES ASSUME WakeInv, [Next]_vars
               PROVE  Contract!ProcessMoves \/ Contract!Return
                         \/ UNCHANGED <<Phase, outcome>>
      OBVIOUS
  <2>1. UNCHANGED process => UNCHANGED Phase
    BY DEF process, Phase
  <2>2. CASE CallerStep BY <2>2, CallerImplements
  <2>3. CASE Publish
    BY <2>3 DEF Publish, caller, Phase, Contract!ProcessMoves, Contract!Published
  <2>4. CASE Exit
    BY <2>4 DEF Exit, caller, Phase, Contract!ProcessMoves, Contract!Gone
  <2>5. CASE ReaperStep
    BY <2>5, <2>1 DEF ReaperStep, Wait, Stat, Remove, Send, caller, process
  <2>6. CASE Timeout \/ Cancel \/ Die \/ Scavenge
    BY <2>6, <2>1 DEF Timeout, Cancel, Die, Scavenge, caller, process
  <2>7. CASE UNCHANGED vars
    BY <2>7, <2>1 DEF vars, process
  <2> QED BY <2>2, <2>3, <2>4, <2>5, <2>6, <2>7 DEF Next, Terminating
<1> QED BY <1>1, <1>2, WakeInvariant, PTL DEF Spec, ImplementsWakeOutcome, Contract!WOSpec

-----------------------------------------------------------------------------
(* What a returned result says of the wake, for good, and when the reaper  *)
(* has removed the file.                                                   *)
MarkerInv ==
    /\ outcome = "ready" => published /\ ~file
    /\ outcome = "failed" => ~published /\ child # "running"
    /\ reaper = "send" \/ done # "empty" => ~file

(* A wake that could still publish has no certain result yet.              *)
LEMMA MarkerInvNext == WakeInv /\ MarkerInv /\ [Next]_vars => MarkerInv'
<1> SUFFICES ASSUME WakeInv, MarkerInv, [Next]_vars PROVE MarkerInv'
    OBVIOUS
<1> USE DEF WakeInv, TypeOK, CallerInv, ReaperInv, ReadinessKept, Undecided, MarkerInv,
            Return, caller, process, reaping, clocks
<1>1. CASE Check \/ Spawn \/ SpawnFailed
  BY <1>1 DEF Check, Spawn, SpawnFailed
<1>2. CASE Poll \/ Tick \/ GiveUp
  BY <1>2 DEF Poll, Tick, GiveUp
<1>3. CASE ReceiveDone BY <1>3 DEF ReceiveDone
<1>4. CASE Recheck BY <1>4 DEF Recheck
<1>5. CASE Drain
  <2>1. CASE processDone BY <1>5, <2>1 DEF Drain
  <2>2. CASE ~processDone /\ done = "ready" BY <1>5, <2>2 DEF Drain
  <2>3. CASE ~processDone /\ done = "unready" BY <1>5, <2>3 DEF Drain
  <2>4. CASE ~processDone /\ done \notin {"ready", "unready"} BY <1>5, <2>4 DEF Drain
  <2> QED BY <2>1, <2>2, <2>3, <2>4
<1>6. CASE Clean BY <1>6 DEF Clean
<1>7. CASE ReaperStep BY <1>7 DEF ReaperStep, Wait, Stat, Remove, Send
<1>8. CASE Publish \/ Exit BY <1>8 DEF Publish, Exit
<1>9. CASE Timeout \/ Cancel \/ Die \/ Scavenge
  BY <1>9 DEF Timeout, Cancel, Die, Scavenge
<1>10. CASE UNCHANGED vars BY <1>10 DEF vars
<1> QED
  BY <1>1, <1>2, <1>3, <1>4, <1>5, <1>6, <1>7, <1>8, <1>9, <1>10
     DEF Next, CallerStep, Terminating

(* The first half of NoMarkerLeft.                                         *)
MarkerTaken == outcome \in {"ready", "failed"} => ~file

(* A call that returned a certain result has left no ready file, and no    *)
(* wake will write one.                                                    *)
THEOREM MarkersAreTaken == Spec => []MarkerTaken
<1>1. Init => MarkerInv
  BY DEF Init, MarkerInv
<1>2. WakeInv /\ MarkerInv => MarkerTaken
  BY DEF WakeInv, ReaperInv, MarkerInv, MarkerTaken
<1> QED BY <1>1, <1>2, WakeInvariant, MarkerInvNext, PTL DEF Spec
=============================================================================
