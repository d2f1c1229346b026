--------------------------- MODULE ReconcilerProofs ---------------------------
(***************************************************************************)
(* The safety properties of Reconciler, for all delays and any cap on the  *)
(* failures that are counted.                                              *)
(***************************************************************************)
EXTENDS Reconciler, TLAPS

USE ReconcilerAssumption

-----------------------------------------------------------------------------
(* Whatever the failures, the base and the jitter, a delay is at most the  *)
(* maximum.  The doubled delay is known to be an integer and no more; that *)
(* is enough, because of the two cuts in Jitter.                           *)
LEMMA DelaysAreBounded ==
    ASSUME NEW n \in 1 .. MaxFailures, NEW base \in Nat, NEW max \in Nat
    PROVE  ExponentialBackoff(n, base, max) \subseteq 0 .. max
<1>1. base * 2 ^ (n - 1) \in Int
  <2>1. n - 1 \in Nat
    OBVIOUS
  <2>2. 2 ^ (n - 1) \in Int
    BY <2>1
  <2> QED BY <2>2
<1>2. ASSUME NEW delay \in Int PROVE Jitter(delay, max) \subseteq 0 .. max
  BY <1>2 DEF Jitter, AtMost, AtLeast
<1> QED BY <1>1, <1>2 DEF ExponentialBackoff

(* Nor do the jitter and the cuts take more than a fifth of what the       *)
(* failures have doubled the base to.                                      *)
LEMMA DelaysAreNotCutShort ==
    ASSUME NEW n \in 1 .. MaxFailures, NEW base \in Nat, NEW max \in Nat
    PROVE  /\ Doubled(n, base, max) \in Int /\ Doubled(n, base, max) <= max
           /\ \A d \in ExponentialBackoff(n, base, max) :
                 5 * d >= 4 * Doubled(n, base, max)
<1>1. base * 2 ^ (n - 1) \in Int
  <2>1. n - 1 \in Nat
    OBVIOUS
  <2>2. 2 ^ (n - 1) \in Int
    BY <2>1
  <2> QED BY <2>2
<1>2. ASSUME NEW delay \in Int, NEW d \in Jitter(delay, max)
      PROVE  5 * d >= 4 * AtMost(delay, max)
  BY DEF Jitter, AtMost, AtLeast
<1>3. 5 * max >= 4 * AtMost(base * 2 ^ (n - 1), max)
  BY <1>1 DEF AtMost
<1>4. Doubled(n, base, max) \in Int /\ Doubled(n, base, max) <= max
  BY <1>1 DEF Doubled, AtMost
<1>5. ASSUME NEW d \in ExponentialBackoff(n, base, max)
      PROVE  5 * d >= 4 * Doubled(n, base, max)
  <2>1. d = max \/ d \in Jitter(base * 2 ^ (n - 1), max)
    BY DEF ExponentialBackoff
  <2> QED BY <1>1, <1>2, <1>3, <2>1 DEF Doubled
<1> QED BY <1>4, <1>5

(* The count after one more failure.                                       *)
LEMMA FailuresAreCounted ==
    ASSUME NEW n \in 0 .. MaxFailures
    PROVE  AtMost(n + 1, MaxFailures) \in 1 .. MaxFailures
BY DEF AtMost

-----------------------------------------------------------------------------
(* A detached row has a deadline and the time since when it is detached;   *)
(* an attached one waits for no longer than a failure may delay it.        *)
DeadlinesFitState ==
    /\ state = "detached" => backoff # Zero /\ age # Zero
    /\ state # "detached" => age = Zero
    /\ state = "attached" /\ backoff # Zero => backoff <= BackoffMax

(* What is left of a delay and the time since the last verdict make up the *)
(* delay that the failures ask for, and the row counts the failures of     *)
(* either kind.                                                            *)
DelaysAreKept ==
    /\ misses = failures
    /\ state = "active" => check # Zero /\ check + since >= ActiveCheckInterval
    /\ state = "attached" /\ failures > 0 =>
          /\ backoff # Zero
          /\ 5 * (backoff + since) >= 4 * Doubled(failures, BackoffBase, BackoffMax)
    /\ state = "detached" =>
          /\ failures > 0
          /\ 5 * (backoff + since)
                >= 4 * Doubled(failures, DetachedBackoffBase, DetachedBackoffMax)

RowInv == TypeOK /\ DeadlinesFitState /\ DelaysAreKept

(* A registered row starts without deadlines, age and failures.            *)
LEMMA RowInvInit == Init => RowInv
<1>1. LongestWait \in Nat
  BY DEF LongestWait, AtLeast
<1> QED
  BY <1>1 DEF Init, RowInv, TypeOK, Left, DeadlinesFitState, DelaysAreKept

(* The verdicts, on any row, n failures after it was registered or active, *)
(* and with them the histories.                                            *)
LEMMA MarkBackoffFits ==
    ASSUME NEW n \in 0 .. MaxFailures, MarkBackoff(n), Counts(n)
    PROVE  /\ state' = "attached" /\ age' = Zero /\ check' = Zero
           /\ failures' \in 1 .. MaxFailures
           /\ backoff' \in 0 .. BackoffMax
           /\ misses' = failures' /\ since' = 0
           /\ 5 * backoff' >= 4 * Doubled(failures', BackoffBase, BackoffMax)
<1>1. failures' \in 1 .. MaxFailures
  BY FailuresAreCounted DEF MarkBackoff
<1>2. ExponentialBackoff(failures', BackoffBase, BackoffMax) \subseteq 0 .. BackoffMax
  BY <1>1, DelaysAreBounded
<1>3. \A d \in ExponentialBackoff(failures', BackoffBase, BackoffMax) :
          5 * d >= 4 * Doubled(failures', BackoffBase, BackoffMax)
  BY <1>1, DelaysAreNotCutShort
<1> QED BY <1>1, <1>2, <1>3 DEF MarkBackoff, FailureBackoff, Counts

(* A proven absence detaches the row, counts and delays the next check.    *)
LEMMA MarkDetachedFits ==
    ASSUME TypeOK, NEW n \in 0 .. MaxFailures, MarkDetached(n), Counts(n)
    PROVE  /\ state' = "detached" /\ check' = Zero
           /\ age' \in 0 .. MinDetachedAge
           /\ failures' \in 1 .. MaxFailures
           /\ backoff' \in 0 .. DetachedBackoffMax
           /\ misses' = failures' /\ since' = 0
           /\ 5 * backoff'
                >= 4 * Doubled(failures', DetachedBackoffBase, DetachedBackoffMax)
<1>1. failures' \in 1 .. MaxFailures
  BY FailuresAreCounted DEF MarkDetached
<1>2. ExponentialBackoff(failures', DetachedBackoffBase, DetachedBackoffMax)
          \subseteq 0 .. DetachedBackoffMax
  BY <1>1, DelaysAreBounded
<1>3. \A d \in ExponentialBackoff(failures', DetachedBackoffBase, DetachedBackoffMax) :
          5 * d >= 4 * Doubled(failures', DetachedBackoffBase, DetachedBackoffMax)
  BY <1>1, DelaysAreNotCutShort
<1>4. age' \in 0 .. MinDetachedAge
  BY DEF MarkDetached, TypeOK, Left
<1> QED BY <1>1, <1>2, <1>3, <1>4 DEF MarkDetached, DetachedBackoff, Counts

(* Time takes from what is left of a delay what it adds to the time since  *)
(* the verdict, until that is no longer counted: it is then as long as the *)
(* longest delay.                                                          *)
LEMMA TimeIsNotLost ==
    ASSUME NEW left \in Nat, NEW passed \in 0 .. LongestWait,
           NEW delay \in Int, delay <= LongestWait, 5 * (left + passed) >= 4 * delay
    PROVE  5 * (Elapse(left) + AtMost(passed + 1, LongestWait)) >= 4 * delay
<1>1. LongestWait \in Nat /\ left # Zero
  BY DEF LongestWait, AtLeast
<1> QED BY <1>1 DEF Elapse, Waits, AtMost

(* Every step keeps the invariant: passes, commands, gc and time.          *)
LEMMA RowInvNext == RowInv /\ [Next]_vars => RowInv'
<1> SUFFICES ASSUME RowInv, [Next]_vars PROVE RowInv'
    OBVIOUS
<1> USE DEF RowInv
<1> DEFINE Fits == /\ DeadlinesFitState /\ DelaysAreKept
                   /\ state \in {"attached", "active", "detached"}
                   /\ failures \in 0 .. MaxFailures
                   /\ check \in Left(ActiveCheckInterval)
                   /\ backoff \in Left(DetachedBackoffMax)
                   /\ age \in Left(MinDetachedAge)
                   /\ misses \in 0 .. MaxFailures
                   /\ since \in 0 .. LongestWait
<1>0. /\ LongestWait \in Nat
      /\ ActiveCheckInterval <= LongestWait /\ DetachedBackoffMax <= LongestWait
  BY DEF LongestWait, AtLeast
<1>1. ASSUME NEW n \in 0 .. MaxFailures, MarkBackoff(n), Counts(n) PROVE Fits'
  BY <1>0, <1>1, MarkBackoffFits DEF DeadlinesFitState, DelaysAreKept, Left
<1>2. ASSUME NEW n \in 0 .. MaxFailures, MarkDetached(n), Counts(n) PROVE Fits'
  BY <1>0, <1>2, MarkDetachedFits DEF DeadlinesFitState, DelaysAreKept, Left
<1>3. ASSUME \/ MarkActive /\ \E n \in 0 .. MaxFailures : Counts(n)
             \/ Fresh /\ misses' = 0 /\ since' = 0
      PROVE  Fits'
  BY <1>0, <1>3 DEF MarkActive, Fresh, Counts, DeadlinesFitState, DelaysAreKept, Left
<1>4. ASSUME UNCHANGED <<row, verdicts>> PROVE Fits'
  BY <1>4 DEF row, verdicts, TypeOK, DeadlinesFitState, DelaysAreKept, Left
<1>5. failures = misses /\ misses \in 0 .. MaxFailures /\ 0 \in 0 .. MaxFailures
  BY DEF TypeOK, DelaysAreKept
<1>6. CASE Pass
  <2>1. Fits'
    BY <1>1, <1>2, <1>3, <1>5, <1>6 DEF Pass, PassGone, PassUnclear, PassEnsures
  <2>2. UNCHANGED <<env, gc>> /\ spotted' \subseteq spotted \cup {"pass"}
    BY <1>6 DEF Pass, Sees
  <2> QED BY <2>1, <2>2 DEF TypeOK, env
<1>7. CASE PassLost
  <2>1. Fits'
    BY <1>4, <1>7 DEF PassLost
  <2>2. UNCHANGED <<env, gc>> /\ spotted' \subseteq spotted \cup {"pass"}
    BY <1>7 DEF PassLost, Sees
  <2> QED BY <2>1, <2>2 DEF TypeOK, env
<1>8. CASE Command
  <2>1. Fits'
    BY <1>1, <1>3, <1>4, <1>5, <1>8 DEF Command, Register, ReattachFails
  <2>2. UNCHANGED <<env, gc>> /\ spotted' \subseteq spotted \cup {"reattach"}
    BY <1>8 DEF Command, Register, ReattachFails, Sees
  <2> QED BY <2>1, <2>2 DEF TypeOK, env
<1>9. CASE GC
  <2>1. Fits'
    BY <1>4, <1>9 DEF GC, GCLoad, GCProbe, GCReport
  <2>2. /\ UNCHANGED env /\ spotted' \subseteq spotted \cup {"gc"}
        /\ gc' \in {"idle", "loaded", "candidate"}
    BY <1>9 DEF GC, GCLoad, GCProbe, GCReport
  <2> QED BY <2>1, <2>2 DEF TypeOK, env
<1>10. CASE Tick
  <2>1. TypeOK' /\ DeadlinesFitState'
    BY <1>0, <1>10 DEF Tick, TypeOK, DeadlinesFitState, Elapse, Waits, Left, AtMost, env
  <2>2. misses' = failures' /\ state' = state /\ failures' = failures
    BY <1>10 DEF Tick, DelaysAreKept
  <2>3. ASSUME state = "active"
        PROVE  check' # Zero /\ check' + since' >= ActiveCheckInterval
    BY <1>0, <1>10, <2>3 DEF Tick, DelaysAreKept, TypeOK, Left, Elapse, Waits, AtMost
  <2>4. ASSUME NEW base \in Nat, NEW max \in Nat, max <= DetachedBackoffMax,
               failures > 0, backoff # Zero,
               5 * (backoff + since) >= 4 * Doubled(failures, base, max)
        PROVE  /\ backoff' # Zero
               /\ 5 * (backoff' + since') >= 4 * Doubled(failures, base, max)
    <3>1. failures \in 1 .. MaxFailures /\ backoff \in Nat /\ since \in 0 .. LongestWait
      BY <2>4 DEF TypeOK, Left
    <3>2. Doubled(failures, base, max) \in Int /\ Doubled(failures, base, max) <= LongestWait
      BY <1>0, <2>4, <3>1, DelaysAreNotCutShort
    <3>3. 5 * (Elapse(backoff) + AtMost(since + 1, LongestWait))
              >= 4 * Doubled(failures, base, max)
      BY <2>4, <3>1, <3>2, TimeIsNotLost
    <3>4. Elapse(backoff) # Zero
      BY <3>1 DEF Elapse, Waits
    <3> QED BY <1>10, <3>3, <3>4 DEF Tick
  <2>5. state = "attached" /\ failures > 0 =>
          /\ backoff' # Zero
          /\ 5 * (backoff' + since') >= 4 * Doubled(failures, BackoffBase, BackoffMax)
    BY <2>4 DEF DelaysAreKept
  <2>6. state = "detached" =>
          /\ failures > 0
          /\ 5 * (backoff' + since')
                >= 4 * Doubled(failures, DetachedBackoffBase, DetachedBackoffMax)
    BY <2>4 DEF DelaysAreKept, DeadlinesFitState
  <2> QED BY <2>1, <2>2, <2>3, <2>5, <2>6 DEF DelaysAreKept
<1>11. CASE TargetChanges \/ WakeChanges \/ UsersLeave
  <2>1. Fits'
    BY <1>4, <1>11 DEF TargetChanges, WakeChanges, UsersLeave
  <2> QED
    BY <1>11, <2>1 DEF TargetChanges, WakeChanges, UsersLeave, TypeOK
<1>12. CASE UNCHANGED vars
  <2>1. Fits'
    BY <1>4, <1>12 DEF vars
  <2> QED BY <1>12, <2>1 DEF vars, env, TypeOK
<1> QED
  BY <1>6, <1>7, <1>8, <1>9, <1>10, <1>11, <1>12 DEF Next, Environment

(* It holds in every reachable state.                                      *)
LEMMA RowInvHolds == Spec => []RowInv
BY RowInvInit, RowInvNext, PTL DEF Spec

-----------------------------------------------------------------------------
(* Every variable of a row's history stays in its type.                    *)
THEOREM RowTypeCorrect == Spec => []TypeOK
<1>1. RowInv => TypeOK
  BY DEF RowInv
<1> QED BY <1>1, RowInvHolds, PTL

(* However often a row has failed, whatever the configured delays and      *)
(* whatever jitter made of them, it waits no longer than the maximum for   *)
(* its state until the supervisor looks again.                             *)
THEOREM RowsAreRetriedInTime == Spec => []RetriedInTime
<1>1. RowInv => RetriedInTime
  BY DEF RowInv, TypeOK, Left, DeadlinesFitState, RetriedInTime
<1> QED BY <1>1, RowInvHolds, PTL

(* Nor does a pass look before it should: for all delays, whatever jitter  *)
(* made of them, whichever passes were lost and however failures of both   *)
(* kinds followed on each other, a row on which a pass may act has waited  *)
(* for the delay its failures ask for, less a fifth.                       *)
THEOREM RowsAreNotRetriedEarly == Spec => []NotRetriedEarly
<1>1. RowInv => NotRetriedEarly
  <2> SUFFICES ASSUME RowInv, Due PROVE NotRetriedEarly
      BY DEF NotRetriedEarly
  <2>1. (check = Zero \/ check = 0) /\ (backoff = Zero \/ backoff = 0)
    BY DEF RowInv, TypeOK, Left, Due, Waits
  <2>2. state = "active" => since >= ActiveCheckInterval
    BY <2>1 DEF RowInv, TypeOK, DelaysAreKept
  <2>3. state = "attached" /\ misses > 0 =>
          5 * since >= 4 * Doubled(misses, BackoffBase, BackoffMax)
    BY <2>1 DEF RowInv, TypeOK, DelaysAreKept
  <2>4. state = "detached" =>
          5 * since >= 4 * Doubled(misses, DetachedBackoffBase, DetachedBackoffMax)
    BY <2>1 DEF RowInv, TypeOK, DelaysAreKept, DeadlinesFitState
  <2> QED BY <2>2, <2>3, <2>4 DEF NotRetriedEarly
<1> QED BY <1>1, RowInvHolds, PTL
=============================================================================
