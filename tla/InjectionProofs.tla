--------------------------- MODULE InjectionProofs ---------------------------
(***************************************************************************)
(* LinesUnmixed and DeliveredWhole, for any number of wakes, surfaces,     *)
(* devices and attempts.  The proof of a target is not repeated before the *)
(* text and the Enter; what an injection may rely on is that its target is *)
(* as it was proven unless it was disturbed, and so may every text that    *)
(* waits on a line.  Then nobody else types on its only device, and the    *)
(* line ends with its text until it presses Enter.                         *)
(***************************************************************************)
EXTENDS Injection, FiniteSetTheorems, TLAPS

USE InventoryAssumption, InjectionAssumption

(* The target of a wake is still what Prove found.                         *)
Steady(w) ==
    /\ \A d, e \in DevicesOf(Serves[w]) : d = e
    /\ adapter = "cmux" => Readable /\ AloneOnDevice(Serves[w])

TTYsOf(s) == {y \in TTYs : <<s, y>> \in tree}

TypeInv ==
    /\ tree \subseteq Surfaces \X TTYs
    /\ \A s \in Surfaces : IsFiniteSet(TTYsOf(s))
    /\ adapter \in Adapters
    /\ DOMAIN pc = Wakes
    /\ attempt \in [Wakes -> Nat]
    /\ input \in [Devices -> Seq(Wakes \X Nat)]

(* Ghostty's terminals have devices of their own.                          *)
GhosttyInv ==
    adapter = "ghostty" =>
        \A e, f \in tree : Device[e[2]] = Device[f[2]] => e = f

PendingInv ==
    \A w \in Wakes : pc[w] # "idle" /\ Current(w) \notin disturbed => Steady(w)

WaitingInv ==
    \A d \in Devices : \A x \in Range(input[d]) :
        x \notin disturbed => Steady(x[1]) /\ d \in DevicesOf(Serves[x[1]])

LineInv == TypeInv /\ GhosttyInv /\ PendingInv /\ WaitingInv /\ LinesUnmixed

-----------------------------------------------------------------------------
(* At first no line holds anything.                                        *)
LEMMA LineInvInit == Init => LineInv
<1> SUFFICES ASSUME Init PROVE LineInv
    OBVIOUS
<1>1. \A s \in Surfaces : IsFiniteSet(TTYsOf(s))
  <2>1. \A s \in Surfaces : TTYsOf(s) = {}
    BY DEF Init, TTYsOf
  <2> QED BY <2>1, FS_EmptySet
<1> QED BY <1>1 DEF Init, LineInv, TypeInv, GhosttyInv, PendingInv, WaitingInv, LinesUnmixed,
                    Nothing, Range

(* What is proven has one device, and for cmux has it alone.               *)
LEMMA ProvenIsSteady ==
    ASSUME TypeInv, NEW w \in Wakes, Proven(Serves[w])
    PROVE  Steady(w)
<1>1. Serves[w] \in Surfaces
  OBVIOUS
<1>2. ASSUME NEW d \in DevicesOf(Serves[w]), NEW e \in DevicesOf(Serves[w]) PROVE d = e
  <2>1. PICK x \in TTYs, y \in TTYs :
            /\ <<Serves[w], x>> \in tree /\ d = Device[x]
            /\ <<Serves[w], y>> \in tree /\ e = Device[y]
    BY <1>2 DEF DevicesOf
  <2>2. CASE adapter = "cmux"
    <3>1. /\ <<Serves[w], x>>[1] = <<Serves[w], y>>[1]
          /\ <<Serves[w], x>>[2] = x /\ <<Serves[w], y>>[2] = y
      OBVIOUS
    <3> QED BY <2>1, <2>2, <3>1 DEF Proven, Readable
  <2>3. CASE adapter # "cmux"
    <3>1. IsFiniteSet(TTYsOf(Serves[w])) /\ Cardinality(TTYsOf(Serves[w])) = 1
      BY <1>1, <2>3 DEF Proven, OneTerminal, TTYsOf, TypeInv
    <3>2. PICK z : TTYsOf(Serves[w]) = {z}
      BY <3>1, FS_Singleton
    <3>3. x \in TTYsOf(Serves[w]) /\ y \in TTYsOf(Serves[w])
      BY <2>1 DEF TTYsOf
    <3> QED BY <2>1, <3>2, <3>3
  <2> QED BY <2>2, <2>3
<1> QED BY <1>2 DEF Steady, Proven

(* What a line holds after a text was typed.                               *)
LEMMA RangeOfAppend ==
    ASSUME NEW S, NEW s \in Seq(S), NEW x \in S
    PROVE  Append(s, x) \in Seq(S) /\ Range(Append(s, x)) = Range(s) \cup {x}
<1>1. Append(s, x) \in Seq(S) /\ DOMAIN Append(s, x) = 1 .. Len(s) + 1
      /\ Append(s, x)[Len(s) + 1] = x
      /\ \A i \in 1 .. Len(s) : Append(s, x)[i] = s[i]
  OBVIOUS
<1>2. DOMAIN s = 1 .. Len(s) /\ Len(s) \in Nat
  OBVIOUS
<1> QED BY <1>1, <1>2 DEF Range

(* No wake shares the device of a proven target.                           *)
LEMMA SharedDevice ==
    ASSUME TypeInv, GhosttyInv, NEW v \in Wakes, NEW w \in Wakes, Steady(w),
           NEW d, d \in DevicesOf(Serves[v]), d \in DevicesOf(Serves[w])
    PROVE  v = w
<1>1. PICK x \in TTYs : <<Serves[v], x>> \in tree /\ Device[x] = d
  BY DEF DevicesOf
<1>2. PICK y \in TTYs : <<Serves[w], y>> \in tree /\ Device[y] = d
  BY DEF DevicesOf
<1>3. Serves[v] = Serves[w]
  <2>1. CASE adapter = "ghostty"
    <3>1. <<Serves[v], x>>[2] = x /\ <<Serves[w], y>>[2] = y
      OBVIOUS
    <3>2. <<Serves[v], x>> = <<Serves[w], y>>
      BY <1>1, <1>2, <2>1, <3>1 DEF GhosttyInv
    <3> QED BY <3>2
  <2>2. CASE adapter = "cmux"
    <3>1. ASSUME NEW s, NEW z \in TTYs, <<s, z>> \in tree, Device[z] = d
          PROVE  Live(s) /\ DeviceOf(s) = d
      <4>1. Live(s)
        BY <3>1 DEF Live
      <4>2. PICK u \in TTYs : <<s, u>> \in tree /\ DeviceOf(s) = Device[u]
        BY <4>1 DEF Live, DeviceOf
      <4>3. <<s, u>>[1] = <<s, z>>[1] /\ <<s, u>>[2] = u /\ <<s, z>>[2] = z
        OBVIOUS
      <4>4. u = z \/ Device[u] = Device[z]
        BY <2>2, <3>1, <4>2, <4>3 DEF Steady, Readable
      <4> QED BY <3>1, <4>1, <4>2, <4>4
    <3>2. /\ Live(Serves[v]) /\ DeviceOf(Serves[v]) = d
          /\ Live(Serves[w]) /\ DeviceOf(Serves[w]) = d
      BY <1>1, <1>2, <3>1
    <3>3. Serves[v] \in Owners(d) /\ Serves[w] \in Owners(d)
      BY <3>2 DEF Owners
    <3>4. Owners(d) = {Serves[w]}
      BY <2>2, <3>2 DEF Steady, AloneOnDevice
    <3> QED BY <3>3, <3>4
  <2> QED BY <2>1, <2>2 DEF TypeInv
<1> QED BY <1>3 DEF IsInjective

(* What waits for an Enter.                                                *)
LEMMA LinesAreTyped ==
    ASSUME TypeInv, NEW d \in Devices, NEW x \in Range(input[d])
    PROVE  x \in Wakes \X Nat
<1>1. input[d] \in Seq(Wakes \X Nat)
  BY DEF TypeInv
<1>2. PICK i \in DOMAIN input[d] : x = input[d][i]
  BY DEF Range
<1> QED BY <1>1, <1>2

(* Enter: the line holds texts of one wake, unless one was disturbed.      *)
LEMMA PressUnmixed ==
    ASSUME LineInv, NEW w \in Wakes, Press(w)
    PROVE  LinesUnmixed'
<1>1. PICK d \in DevicesOf(Serves[w]) :
          /\ last'.by = {Current(w)} /\ last'.text = input[d]
          /\ disturbed' = disturbed
  BY DEF Press
<1>2. d \in Devices
  <2>1. PICK y \in TTYs : d = Device[y]
    BY DEF DevicesOf
  <2> QED BY <2>1 DEF Devices, Range
<1>3. SUFFICES ASSUME Undisturbed({Current(w)} \cup Range(input[d]))
               PROVE  \A x, y \in {Current(w)} \cup Range(input[d]) : x[1] = y[1]
  BY <1>1 DEF LinesUnmixed, Undisturbed
<1>4. Steady(w) /\ Current(w)[1] = w
  BY <1>3 DEF LineInv, PendingInv, Press, Undisturbed, Current
<1>5. ASSUME NEW x \in Range(input[d]) PROVE x[1] = w
  <2>1. x[1] \in Wakes
    BY <1>2, <1>5, LinesAreTyped DEF LineInv
  <2>2. d \in DevicesOf(Serves[x[1]])
    BY <1>2, <1>3, <1>5 DEF LineInv, WaitingInv, Undisturbed
  <2> QED BY <1>1, <1>4, <2>1, <2>2, SharedDevice DEF LineInv
<1> QED BY <1>4, <1>5

(* Every step of an injection keeps the invariant of the lines.            *)
LEMMA InjectKeepsLineInv ==
    ASSUME LineInv, NEW w \in Wakes, Inject(w)
    PROVE  LineInv'
<1> USE DEF LineInv
<1>1. tree' = tree /\ adapter' = adapter /\ disturbed' = disturbed
  BY DEF Inject, Prove, Type, Press, GiveUp
<1>2. /\ \A v \in Wakes : Steady(v)' = Steady(v)
      /\ \A s : DevicesOf(s)' = DevicesOf(s)
      /\ GhosttyInv' /\ \A s : TTYsOf(s)' = TTYsOf(s)
  BY <1>1 DEF Steady, Readable, AloneOnDevice, HasDevice, Owners, Live, DeviceOf, DevicesOf,
              GhosttyInv, TTYsOf
<1>3. ASSUME last' = Nothing PROVE LinesUnmixed'
  BY <1>3 DEF LinesUnmixed, Nothing, Range
<1>4. ASSUME NEW d \in DevicesOf(Serves[w]) PROVE d \in Devices
  BY <1>4 DEF DevicesOf, Devices, Range
<1>5. ASSUME NEW v \in Wakes, attempt' = attempt PROVE Current(v)' = Current(v)
  BY <1>5 DEF Current
<1>6. CASE Prove(w)
  <2>1. TypeInv'
    BY <1>1, <1>2, <1>6 DEF Prove, Goto, TypeInv
  <2>2. PendingInv'
    <3> SUFFICES ASSUME NEW v \in Wakes, pc'[v] # "idle", Current(v)' \notin disturbed
                 PROVE  Steady(v)
      BY <1>1, <1>2 DEF PendingInv
    <3>1. CASE v = w
      BY <1>6, <3>1, ProvenIsSteady DEF Prove, TypeInv, Goto
    <3>2. CASE v # w
      BY <1>6, <3>2 DEF Prove, Goto, TypeInv, Current, PendingInv
    <3> QED BY <3>1, <3>2
  <2>3. WaitingInv'
    <3>1. input' = input
      BY <1>6 DEF Prove
    <3> QED BY <1>1, <1>2, <3>1, LinesAreTyped DEF WaitingInv
  <2> QED BY <1>2, <1>3, <1>6, <2>1, <2>2, <2>3 DEF Prove
<1>7. CASE Type(w)
  <2>1. PICK d \in DevicesOf(Serves[w]) :
            input' = [input EXCEPT ![d] = Append(@, Current(w))]
    BY <1>7 DEF Type
  <2>2. d \in Devices /\ input[d] \in Seq(Wakes \X Nat) /\ Current(w) \in Wakes \X Nat
    BY <1>4 DEF TypeInv, Current
  <2>3. /\ input'[d] \in Seq(Wakes \X Nat)
        /\ Range(input'[d]) = Range(input[d]) \cup {Current(w)}
        /\ \A e \in Devices : e # d => input'[e] = input[e]
    <3>1. input'[d] = Append(input[d], Current(w))
      BY <2>1, <2>2 DEF TypeInv
    <3>2. \A e \in Devices : e # d => input'[e] = input[e]
      BY <2>1 DEF TypeInv
    <3>3. /\ Append(input[d], Current(w)) \in Seq(Wakes \X Nat)
          /\ Range(Append(input[d], Current(w))) = Range(input[d]) \cup {Current(w)}
      BY <2>2, RangeOfAppend
    <3> QED BY <3>1, <3>2, <3>3
  <2>4. TypeInv'
    BY <1>1, <1>2, <1>7, <2>1, <2>2, <2>3 DEF Type, Goto, TypeInv
  <2>5. PendingInv'
    BY <1>1, <1>2, <1>5, <1>7 DEF Type, Goto, TypeInv, PendingInv
  <2>6. WaitingInv'
    <3> SUFFICES ASSUME NEW e \in Devices, NEW x \in Range(input'[e]), x \notin disturbed
                 PROVE  /\ Steady(x[1])' /\ e \in DevicesOf(Serves[x[1]])'
      BY <1>1 DEF WaitingInv
    <3>1. CASE x \in Range(input[e])
      BY <1>2, <3>1, LinesAreTyped DEF WaitingInv
    <3>2. CASE x \notin Range(input[e])
      <4>1. e = d /\ x = Current(w) /\ x[1] = w
        BY <2>3, <3>2 DEF Current
      <4>2. Steady(w)
        BY <1>7, <4>1 DEF Type, PendingInv
      <4> QED BY <1>2, <4>1, <4>2
    <3> QED BY <3>1, <3>2
  <2> QED BY <1>2, <1>3, <1>7, <2>4, <2>5, <2>6 DEF Type
<1>8. CASE Press(w)
  <2>1. PICK d \in DevicesOf(Serves[w]) : input' = [input EXCEPT ![d] = <<>>]
    BY <1>8 DEF Press
  <2>2. d \in Devices
    BY <1>4
  <2>3. TypeInv'
    <3>1. <<>> \in Seq(Wakes \X Nat)
      OBVIOUS
    <3>2. input' \in [Devices -> Seq(Wakes \X Nat)]
      BY <2>1, <2>2, <3>1 DEF TypeInv
    <3> QED BY <1>1, <1>2, <1>8, <3>2 DEF Press, Goto, TypeInv
  <2>4. PendingInv'
    BY <1>1, <1>2, <1>5, <1>8 DEF Press, Goto, TypeInv, PendingInv
  <2>5. WaitingInv'
    <3>1. \A e \in Devices : Range(input'[e]) \subseteq Range(input[e])
      BY <2>1, <2>2 DEF TypeInv, Range
    <3> QED BY <1>1, <1>2, <3>1, LinesAreTyped DEF WaitingInv
  <2> QED BY <1>2, <1>8, <2>3, <2>4, <2>5, PressUnmixed
<1>9. CASE GiveUp(w)
  <2>1. TypeInv' /\ PendingInv'
    BY <1>1, <1>2, <1>5, <1>9 DEF GiveUp, Goto, TypeInv, PendingInv
  <2>2. WaitingInv'
    <3>1. input' = input
      BY <1>9 DEF GiveUp
    <3> QED BY <1>1, <1>2, <3>1, LinesAreTyped DEF WaitingInv
  <2> QED BY <1>2, <1>3, <1>9, <2>1, <2>2 DEF GiveUp
<1> QED BY <1>6, <1>7, <1>8, <1>9 DEF Inject

(* Everything that is under way counts as disturbed.                       *)
LEMMA RearrangeKeepsLineInv ==
    ASSUME LineInv, Rearrange
    PROVE  LineInv'
<1> USE DEF LineInv
<1>1. /\ \A d \in Devices : input'[d] = input[d] \/ input'[d] = <<>>
      /\ DOMAIN input' = Devices /\ input' = [d \in Devices |-> input'[d]]
  BY DEF Rearrange
<1>2. TypeInv'
  <2>1. tree' \subseteq Surfaces \X TTYs
    BY DEF Rearrange, TypeInv
  <2>2. input' \in [Devices -> Seq(Wakes \X Nat)]
    <3>1. <<>> \in Seq(Wakes \X Nat)
      OBVIOUS
    <3>2. \A d \in Devices : input'[d] \in Seq(Wakes \X Nat)
      BY <1>1, <3>1 DEF TypeInv
    <3> QED BY <1>1, <3>2
  <2>3. ASSUME NEW s \in Surfaces PROVE IsFiniteSet(TTYsOf(s)')
    <3>1. PICK t \in Surfaces, y \in TTYs :
              tree' = tree \cup {<<t, y>>} \/ tree' = tree \ {<<t, y>>}
      BY DEF Rearrange
    <3>2. \/ TTYsOf(s)' = TTYsOf(s) \/ TTYsOf(s)' = TTYsOf(s) \cup {y}
          \/ TTYsOf(s)' = TTYsOf(s) \ {y}
      BY <3>1 DEF TTYsOf
    <3>3. IsFiniteSet(TTYsOf(s))
      BY DEF TypeInv
    <3> QED BY <3>2, <3>3, FS_AddElement, FS_RemoveElement
  <2> QED BY <2>1, <2>2, <2>3 DEF Rearrange, TypeInv
<1>3. GhosttyInv'
  <2> SUFFICES ASSUME adapter = "ghostty", NEW e \in tree', NEW f \in tree',
                      Device[e[2]] = Device[f[2]]
               PROVE  e = f
    BY DEF GhosttyInv, Rearrange
  <2>1. PICK s \in Surfaces, y \in TTYs :
            \/ /\ \A g \in tree : Device[g[2]] # Device[y]
               /\ tree' = tree \cup {<<s, y>>}
            \/ tree' = tree \ {<<s, y>>}
    BY DEF Rearrange
  <2>2. <<s, y>>[2] = y
    OBVIOUS
  <2> QED BY <2>1, <2>2 DEF GhosttyInv
<1>4. PendingInv'
  BY DEF Rearrange, Pending, PendingInv, Current
<1>5. WaitingInv'
  <2>1. ASSUME NEW d \in Devices, NEW x \in Range(input'[d]) PROVE x \in disturbed'
    <3>1. x \in Range(input[d])
      BY <1>1, <2>1 DEF Range
    <3> QED BY <3>1 DEF Rearrange, Waiting
  <2> QED BY <2>1 DEF WaitingInv
<1>6. LinesUnmixed'
  BY DEF Rearrange, LinesUnmixed, Nothing, Range
<1> QED BY <1>2, <1>3, <1>4, <1>5, <1>6

(* Every step keeps the invariant.                                         *)
LEMMA LineInvNext == LineInv /\ [Next]_vars => LineInv'
<1> SUFFICES ASSUME LineInv, [Next]_vars PROVE LineInv'
    OBVIOUS
<1> USE DEF LineInv
<1>1. ASSUME UNCHANGED <<tree, adapter>>
      PROVE  /\ \A v : Steady(v)' = Steady(v)
             /\ \A s : DevicesOf(s)' = DevicesOf(s)
             /\ GhosttyInv' /\ \A s : TTYsOf(s)' = TTYsOf(s)
  BY <1>1 DEF Steady, Readable, AloneOnDevice, HasDevice, Owners, Live, DeviceOf, DevicesOf,
              GhosttyInv, TTYsOf
<1>2. ASSUME NEW d \in Devices, UserTakes(d) PROVE LineInv'
  <2>1. /\ input' = [input EXCEPT ![d] = <<>>] /\ last' = Nothing
        /\ disturbed \subseteq disturbed'
        /\ UNCHANGED <<tree, adapter, pc, attempt>>
    BY <1>2 DEF UserTakes
  <2>2. TypeInv' /\ PendingInv'
    BY <1>1, <2>1 DEF TypeInv, PendingInv, Current
  <2>3. \A e \in Devices : Range(input'[e]) \subseteq Range(input[e])
    BY <2>1 DEF TypeInv, Range
  <2>4. WaitingInv'
    BY <1>1, <2>1, <2>3 DEF WaitingInv
  <2>5. LinesUnmixed'
    BY <2>1 DEF LinesUnmixed, Nothing, Range
  <2> QED BY <1>1, <2>1, <2>2, <2>4, <2>5
<1>3. CASE UNCHANGED vars
  BY <1>1, <1>3 DEF vars, TypeInv, PendingInv, WaitingInv, LinesUnmixed, Undisturbed, Current
<1> QED BY <1>2, <1>3, InjectKeepsLineInv, RearrangeKeepsLineInv DEF Next

(* Texts of two wakes never become one submission, unless the terminals    *)
(* were rearranged, or the user took the line, after a target was proven.  *)
THEOREM SubmissionsAreUnmixed == Spec => []LinesUnmixed
<1>1. LineInv => LinesUnmixed
  BY DEF LineInv
<1> QED BY <1>1, LineInvInit, LineInvNext, PTL DEF Spec

-----------------------------------------------------------------------------
(* DeliveredWhole.  No attempt is typed twice, and the line of an attempt  *)
(* that has typed its text ends with it until Enter is pressed.            *)

AttemptTypes ==
    /\ pc \in [Wakes -> {"idle", "proven", "typed"}]
    /\ attempt \in [Wakes -> 0 .. MaxAttempts]
    /\ \A w \in Wakes : pc[w] # "idle" => attempt[w] >= 1
    /\ \A d \in Devices : Range(input[d]) \subseteq Attempts /\ IsInjective(input[d])
    /\ last.by \subseteq Attempts /\ Range(last.text) \subseteq Attempts
    /\ delivered \subseteq Attempts /\ disturbed \subseteq Attempts

UsedInv ==
    /\ \A d \in Devices : \A x \in Range(input[d]) :
          x[2] <= attempt[x[1]] /\ (pc[x[1]] = "proven" => x # Current(x[1]))
    /\ \A x \in delivered :
          x[2] <= attempt[x[1]] /\ (pc[x[1]] # "idle" => x # Current(x[1]))

EnterInv ==
    \A w \in Wakes : pc[w] = "typed" /\ Current(w) \notin disturbed =>
        \A d \in DevicesOf(Serves[w]) : input[d] # <<>> /\ Last(input[d]) = Current(w)

WholeInv == AttemptTypes /\ UsedInv /\ EnterInv /\ DeliveredWhole

-----------------------------------------------------------------------------
(* The end of a line, after a text was typed and at any time.              *)
LEMMA EndOfAppend ==
    ASSUME NEW S, NEW s \in Seq(S), NEW x \in S, IsInjective(s), x \notin Range(s)
    PROVE  /\ Append(s, x) # <<>> /\ Last(Append(s, x)) = x
           /\ IsInjective(Append(s, x))
<1>1. DOMAIN s = 1 .. Len(s) /\ Len(s) \in Nat
  OBVIOUS
<1>2. /\ DOMAIN Append(s, x) = 1 .. Len(s) + 1 /\ Len(Append(s, x)) = Len(s) + 1
      /\ Append(s, x)[Len(s) + 1] = x
      /\ \A i \in 1 .. Len(s) : Append(s, x)[i] = s[i]
  OBVIOUS
<1>3. Append(s, x) # <<>>
  BY <1>1, <1>2
<1> QED BY <1>1, <1>2, <1>3 DEF Last, IsInjective, Range

(* The last element of a sequence without repetitions is not among the     *)
(* ones before it.                                                         *)
LEMMA EndOfLine ==
    ASSUME NEW S, NEW s \in Seq(S), IsInjective(s), s # <<>>
    PROVE  Last(s) \in Range(s) /\ Range(Front(s)) \subseteq Range(s) \ {Last(s)}
<1>1. DOMAIN s = 1 .. Len(s) /\ Len(s) \in Nat
  OBVIOUS
<1>2. Len(s) >= 1
  BY <1>1
<1>3. /\ DOMAIN Front(s) = 1 .. Len(s) - 1
      /\ \A i \in 1 .. Len(s) - 1 : Front(s)[i] = s[i]
  BY <1>1, <1>2 DEF Front
<1> QED BY <1>1, <1>2, <1>3 DEF Last, IsInjective, Range

(* An attempt that is under way is one.                                    *)
LEMMA CurrentIsAttempt ==
    ASSUME AttemptTypes, NEW w \in Wakes
    PROVE  /\ Current(w)[1] = w /\ Current(w)[2] = attempt[w]
           /\ pc[w] # "idle" => Current(w) \in Attempts
BY DEF AttemptTypes, Current, Attempts

(* The parts of an attempt.                                                *)
LEMMA AttemptFields ==
    ASSUME NEW x \in Attempts
    PROVE  x[1] \in Wakes /\ x[2] \in 1 .. MaxAttempts /\ x = <<x[1], x[2]>>
BY DEF Attempts

(* Nothing was attempted at first.                                         *)
LEMMA WholeInvInit == Init => WholeInv
BY DEF Init, WholeInv, AttemptTypes, UsedInv, EnterInv, DeliveredWhole, Nothing, Range,
       IsInjective, Waiting

(* A new attempt is none that was typed or delivered.                      *)
LEMMA ProveKeepsWholeInv ==
    ASSUME LineInv, WholeInv, NEW w \in Wakes, Prove(w)
    PROVE  WholeInv'
<1>1. /\ pc[w] = "idle" /\ attempt[w] < MaxAttempts
      /\ attempt' = [attempt EXCEPT ![w] = @ + 1]
      /\ pc' = [pc EXCEPT ![w] = "proven"] \/ pc' = pc
      /\ last' = Nothing
      /\ UNCHANGED <<tree, adapter, input, delivered, disturbed>>
  BY DEF Prove, Goto
<1>2. /\ attempt'[w] = attempt[w] + 1 /\ attempt[w] \in Nat
      /\ \A v \in Wakes : v # w => attempt'[v] = attempt[v] /\ pc'[v] = pc[v]
  BY <1>1 DEF WholeInv, AttemptTypes
<1>3. AttemptTypes'
  BY <1>1 DEF WholeInv, AttemptTypes, Nothing, Range
<1>4. ASSUME NEW x \in Attempts, x[2] <= attempt[x[1]],
             x[1] # w => (pc[x[1]] = "proven" => x # Current(x[1]))
      PROVE  x[2] <= attempt'[x[1]] /\ (pc'[x[1]] = "proven" => x # Current(x[1])')
  BY <1>2, <1>4, AttemptFields DEF Current
<1>5. ASSUME NEW x \in Attempts, x[2] <= attempt[x[1]],
             x[1] # w => (pc[x[1]] # "idle" => x # Current(x[1]))
      PROVE  x[2] <= attempt'[x[1]] /\ (pc'[x[1]] # "idle" => x # Current(x[1])')
  BY <1>2, <1>5, AttemptFields DEF Current
<1>6. UsedInv'
  BY <1>1, <1>4, <1>5 DEF WholeInv, AttemptTypes, UsedInv
<1>7. EnterInv'
  BY <1>1, <1>2 DEF WholeInv, AttemptTypes, EnterInv, Current, DevicesOf
<1>8. DeliveredWhole'
  BY <1>1 DEF WholeInv, DeliveredWhole, Nothing, Waiting
<1> QED BY <1>3, <1>6, <1>7, <1>8 DEF WholeInv

(* A text is typed behind all others, on the only device of its target,    *)
(* where no other wake presses Enter.                                      *)
LEMMA TypeKeepsWholeInv ==
    ASSUME LineInv, WholeInv, NEW w \in Wakes, Type(w)
    PROVE  WholeInv'
<1>1. PICK d \in DevicesOf(Serves[w]) :
          input' = [input EXCEPT ![d] = Append(@, Current(w))]
  BY DEF Type
<1>2. /\ pc[w] = "proven" /\ last' = Nothing
      /\ pc' = [pc EXCEPT ![w] = "typed"] \/ pc' = [pc EXCEPT ![w] = "idle"]
      /\ UNCHANGED <<tree, adapter, attempt, delivered, disturbed>>
  BY DEF Type, Goto
<1>3. d \in Devices /\ input[d] \in Seq(Wakes \X Nat)
  <2>1. d \in Devices
    BY DEF DevicesOf, Devices, Range
  <2> QED BY <2>1 DEF LineInv, TypeInv
<1>4. /\ Current(w) \in Attempts /\ Current(w) \in Wakes \X Nat
      /\ Current(w) \notin Range(input[d]) /\ Current(w) \notin delivered
  <2>1. Current(w) \in Attempts /\ Current(w)[1] = w
    BY <1>2, CurrentIsAttempt DEF WholeInv
  <2> QED BY <1>2, <1>3, <2>1 DEF WholeInv, UsedInv, Attempts
<1>5. /\ input'[d] = Append(input[d], Current(w))
      /\ \A e \in Devices : e # d => input'[e] = input[e]
  BY <1>1, <1>3 DEF LineInv, TypeInv
<1>6. /\ Range(input'[d]) = Range(input[d]) \cup {Current(w)}
      /\ input'[d] # <<>> /\ Last(input'[d]) = Current(w) /\ IsInjective(input'[d])
  <2>1. IsInjective(input[d])
    BY <1>3 DEF WholeInv, AttemptTypes
  <2>2. Range(Append(input[d], Current(w))) = Range(input[d]) \cup {Current(w)}
    BY <1>3, <1>4, RangeOfAppend
  <2>3. /\ Append(input[d], Current(w)) # <<>>
        /\ Last(Append(input[d], Current(w))) = Current(w)
        /\ IsInjective(Append(input[d], Current(w)))
    BY <1>3, <1>4, <2>1, EndOfAppend
  <2> QED BY <1>5, <2>2, <2>3
<1>7. AttemptTypes'
  <2>1. \A e \in Devices : Range(input'[e]) \subseteq Attempts /\ IsInjective(input'[e])
    BY <1>4, <1>5, <1>6 DEF WholeInv, AttemptTypes
  <2>2. last'.by \subseteq Attempts /\ Range(last'.text) \subseteq Attempts
    BY <1>2 DEF Nothing, Range
  <2> QED BY <1>2, <2>1, <2>2 DEF WholeInv, AttemptTypes
<1>8. \A v \in Wakes : Current(v)' = Current(v) /\ DevicesOf(Serves[v])' = DevicesOf(Serves[v])
  BY <1>2 DEF Current, DevicesOf
<1>9. UsedInv'
  <2>1. ASSUME NEW e \in Devices, NEW x \in Range(input'[e])
        PROVE  x[2] <= attempt'[x[1]] /\ (pc'[x[1]] = "proven" => x # Current(x[1])')
    <3>1. x \in Attempts
      BY <1>7, <2>1 DEF AttemptTypes
    <3>2. CASE x = Current(w)
      BY <1>2, <3>1, <3>2, CurrentIsAttempt, AttemptFields DEF WholeInv, AttemptTypes
    <3>3. CASE x # Current(w)
      <4>1. x \in Range(input[e])
        BY <1>5, <1>6, <3>3
      <4> QED BY <1>2, <1>8, <3>1, <4>1, AttemptFields DEF WholeInv, AttemptTypes, UsedInv
    <3> QED BY <3>2, <3>3
  <2>2. ASSUME NEW x \in delivered
        PROVE  x[2] <= attempt'[x[1]] /\ (pc'[x[1]] # "idle" => x # Current(x[1])')
    <3>1. x \in Attempts
      BY DEF WholeInv, AttemptTypes
    <3> QED BY <1>2, <1>8, <3>1, AttemptFields DEF WholeInv, AttemptTypes, UsedInv
  <2> QED BY <1>2, <2>1, <2>2 DEF UsedInv
<1>10. EnterInv'
  <2> SUFFICES ASSUME NEW v \in Wakes, pc'[v] = "typed", Current(v) \notin disturbed,
                      NEW e \in DevicesOf(Serves[v])
               PROVE  input'[e] # <<>> /\ Last(input'[e]) = Current(v)
    BY <1>2, <1>8 DEF EnterInv
  <2>1. pc[v] # "idle" /\ Steady(v)
    BY <1>2 DEF LineInv, PendingInv, WholeInv, AttemptTypes
  <2>2. e \in Devices
    BY DEF DevicesOf, Devices, Range
  <2>3. CASE v = w
    BY <1>6, <2>1, <2>3 DEF Steady
  <2>4. CASE v # w
    <3>1. e # d
      BY <1>1, <2>1, <2>4, SharedDevice DEF LineInv
    <3> QED BY <1>2, <1>5, <2>2, <2>4, <3>1 DEF WholeInv, AttemptTypes, EnterInv
  <2> QED BY <2>3, <2>4
<1>11. DeliveredWhole'
  <2>1. Waiting' \subseteq Waiting \cup {Current(w)}
    BY <1>5, <1>6 DEF Waiting
  <2> QED BY <1>2, <1>4, <2>1 DEF WholeInv, DeliveredWhole, Nothing
<1> QED BY <1>7, <1>9, <1>10, <1>11 DEF WholeInv

(* Enter submits a line that ends with the text of the attempt, behind     *)
(* what is not delivered, and leaves the text waiting nowhere.             *)
LEMMA PressKeepsWholeInv ==
    ASSUME LineInv, WholeInv, NEW w \in Wakes, Press(w)
    PROVE  WholeInv'
<1>1. PICK d \in DevicesOf(Serves[w]), ok \in BOOLEAN :
          /\ last' = [by |-> {Current(w)}, text |-> input[d], ok |-> ok]
          /\ input' = [input EXCEPT ![d] = <<>>]
          /\ delivered' = IF ok THEN delivered \cup {Current(w)} ELSE delivered
  BY DEF Press
<1>2. /\ pc[w] = "typed" /\ pc' = [pc EXCEPT ![w] = "idle"]
      /\ UNCHANGED <<tree, adapter, attempt, disturbed>>
      /\ last'.by = {Current(w)} /\ last'.text = input[d]
      /\ delivered' \subseteq delivered \cup {Current(w)}
  BY <1>1 DEF Press, Goto
<1>3. d \in Devices /\ input[d] \in Seq(Wakes \X Nat)
  <2>1. d \in Devices
    BY DEF DevicesOf, Devices, Range
  <2> QED BY <2>1 DEF LineInv, TypeInv
<1>4. /\ input'[d] = <<>> /\ Range(input'[d]) = {}
      /\ \A e \in Devices : e # d => input'[e] = input[e]
  BY <1>1, <1>3 DEF LineInv, TypeInv, Range
<1>5. Current(w) \in Attempts /\ Current(w)[1] = w /\ Current(w)[2] = attempt[w]
  BY <1>2, CurrentIsAttempt DEF WholeInv
<1>6. Current(w) \notin disturbed => Steady(w)
  BY <1>2 DEF LineInv, PendingInv
<1>7. AttemptTypes'
  <2>1. \A e \in Devices : Range(input'[e]) \subseteq Attempts /\ IsInjective(input'[e])
    BY <1>4 DEF WholeInv, AttemptTypes, IsInjective
  <2>2. last'.by \subseteq Attempts /\ Range(last'.text) \subseteq Attempts
    BY <1>2, <1>3, <1>5 DEF WholeInv, AttemptTypes
  <2> QED BY <1>2, <1>5, <2>1, <2>2 DEF WholeInv, AttemptTypes
<1>8. \A v \in Wakes : Current(v)' = Current(v) /\ DevicesOf(Serves[v])' = DevicesOf(Serves[v])
  BY <1>2 DEF Current, DevicesOf
<1>9. UsedInv'
  <2>1. ASSUME NEW e \in Devices, NEW x \in Range(input'[e])
        PROVE  x[2] <= attempt'[x[1]] /\ (pc'[x[1]] = "proven" => x # Current(x[1])')
    <3>1. x \in Range(input[e]) /\ x \in Attempts
      BY <1>4, <1>7, <2>1 DEF AttemptTypes
    <3> QED BY <1>2, <1>8, <3>1, AttemptFields DEF WholeInv, AttemptTypes, UsedInv
  <2>2. ASSUME NEW x \in delivered'
        PROVE  x[2] <= attempt'[x[1]] /\ (pc'[x[1]] # "idle" => x # Current(x[1])')
    <3>1. x \in Attempts
      BY <1>7 DEF AttemptTypes
    <3>2. CASE x = Current(w)
      BY <1>2, <1>5, <3>2, AttemptFields DEF WholeInv, AttemptTypes, Attempts
    <3>3. CASE x # Current(w)
      BY <1>2, <1>8, <3>1, <3>3, AttemptFields DEF WholeInv, AttemptTypes, UsedInv
    <3> QED BY <3>2, <3>3
  <2> QED BY <2>1, <2>2 DEF UsedInv
<1>10. EnterInv'
  <2> SUFFICES ASSUME NEW v \in Wakes, pc'[v] = "typed", Current(v) \notin disturbed,
                      NEW e \in DevicesOf(Serves[v])
               PROVE  input'[e] # <<>> /\ Last(input'[e]) = Current(v)
    BY <1>2, <1>8 DEF EnterInv
  <2>1. v # w /\ pc[v] = "typed" /\ Steady(v)
    BY <1>2 DEF LineInv, PendingInv, WholeInv, AttemptTypes
  <2>2. e \in Devices
    BY DEF DevicesOf, Devices, Range
  <2>3. e # d
    BY <1>1, <2>1, SharedDevice DEF LineInv
  <2> QED BY <1>4, <2>1, <2>2, <2>3 DEF WholeInv, EnterInv
<1>11. DeliveredWhole'
  <2>1. ASSUME Current(w) \notin disturbed
        PROVE  /\ input[d] # <<>> /\ Last(input[d]) = Current(w)
               /\ Range(input[d]) \cap disturbed = {} =>
                      Range(Front(input[d])) \cap delivered' = {}
    <3>1. input[d] # <<>> /\ Last(input[d]) = Current(w)
      BY <1>1, <1>2, <2>1 DEF WholeInv, EnterInv
    <3>2. Range(Front(input[d])) \subseteq Range(input[d]) \ {Current(w)}
      <4>1. IsInjective(input[d])
        BY <1>3 DEF WholeInv, AttemptTypes
      <4> QED BY <1>3, <3>1, <4>1, EndOfLine
    <3>3. Range(input[d]) \cap delivered \subseteq disturbed
      BY <1>3 DEF WholeInv, DeliveredWhole, Waiting
    <3> QED BY <1>2, <3>1, <3>2, <3>3
  <2>2. ASSUME NEW e \in Devices, NEW x \in Range(input'[e]), x \in delivered'
        PROVE  x \in disturbed
    <3>1. e # d /\ x \in Range(input[e])
      BY <1>4, <2>2
    <3>2. CASE x \in delivered
      BY <3>1, <3>2 DEF WholeInv, DeliveredWhole, Waiting
    <3>3. CASE x = Current(w)
      <4> SUFFICES ASSUME x \notin disturbed PROVE FALSE
        OBVIOUS
      <4>1. e \in DevicesOf(Serves[w])
        BY <1>5, <3>1, <3>3 DEF LineInv, WaitingInv
      <4> QED BY <1>1, <1>6, <3>1, <3>3, <4>1 DEF Steady
    <3> QED BY <1>2, <2>2, <3>2, <3>3
  <2> QED BY <1>2, <2>1, <2>2 DEF DeliveredWhole, Undisturbed, Waiting
<1> QED BY <1>7, <1>9, <1>10, <1>11 DEF WholeInv

(* Giving up leaves the text where it is; its attempt is over.             *)
LEMMA GiveUpKeepsWholeInv ==
    ASSUME LineInv, WholeInv, NEW w \in Wakes, GiveUp(w)
    PROVE  WholeInv'
<1>1. /\ pc' = [pc EXCEPT ![w] = "idle"] /\ last' = Nothing
      /\ UNCHANGED <<tree, adapter, attempt, input, delivered, disturbed>>
  BY DEF GiveUp, Goto
<1>2. AttemptTypes'
  BY <1>1 DEF WholeInv, AttemptTypes, Nothing, Range
<1>3. UsedInv'
  <2>1. \A v \in Wakes : Current(v)' = Current(v) /\ pc'[v] \in {pc[v], "idle"}
    BY <1>1 DEF Current, WholeInv, AttemptTypes
  <2>2. \A x \in Attempts : x[1] \in Wakes
    BY AttemptFields
  <2> QED BY <1>1, <2>1, <2>2 DEF WholeInv, AttemptTypes, UsedInv
<1>4. EnterInv'
  BY <1>1 DEF WholeInv, AttemptTypes, EnterInv, Current, DevicesOf
<1>5. DeliveredWhole'
  BY <1>1 DEF WholeInv, DeliveredWhole, Nothing, Waiting
<1> QED BY <1>2, <1>3, <1>4, <1>5 DEF WholeInv

(* Lines that are emptied, with all attempts disturbed whose text or whose *)
(* Enter that concerns.                                                    *)
LEMMA EmptiedKeepsWholeInv ==
    ASSUME LineInv, WholeInv, UNCHANGED <<pc, attempt, delivered>>, last' = Nothing,
           \A d \in Devices : input'[d] = input[d] \/ input'[d] = <<>>,
           disturbed' \subseteq Attempts, EnterInv',
           \A d \in Devices : Range(input'[d]) \cap delivered \subseteq disturbed'
    PROVE  WholeInv'
<1>1. \A d \in Devices : Range(input'[d]) \subseteq Range(input[d]) /\ IsInjective(input'[d])
  BY DEF WholeInv, AttemptTypes, Range, IsInjective
<1>2. AttemptTypes'
  BY <1>1 DEF WholeInv, AttemptTypes, Nothing, Range
<1>3. UsedInv'
  BY <1>1 DEF WholeInv, UsedInv, Current
<1>4. DeliveredWhole'
  BY DEF DeliveredWhole, Nothing, Waiting
<1> QED BY <1>2, <1>3, <1>4 DEF WholeInv

(* Every step keeps the invariant.                                         *)
LEMMA WholeInvNext == LineInv /\ WholeInv /\ [Next]_vars => WholeInv'
<1> SUFFICES ASSUME LineInv, WholeInv, [Next]_vars PROVE WholeInv'
    OBVIOUS
<1>1. CASE Rearrange
  <2>1. /\ UNCHANGED <<pc, attempt, delivered>> /\ last' = Nothing
        /\ \A d \in Devices : input'[d] = input[d] \/ input'[d] = <<>>
        /\ disturbed' = Pending \cup Waiting
    BY <1>1 DEF Rearrange
  <2>2. Pending \subseteq Attempts /\ Waiting \subseteq Attempts
    BY CurrentIsAttempt DEF WholeInv, AttemptTypes, Pending, Waiting
  <2>3. EnterInv'
    <3>1. \A w \in Wakes : pc'[w] = "typed" => Current(w)' \in disturbed'
      BY <2>1 DEF Pending, Current
    <3> QED BY <3>1 DEF EnterInv
  <2>4. \A d \in Devices : Range(input'[d]) \subseteq disturbed'
    BY <2>1 DEF Waiting, Range
  <2> QED BY <2>1, <2>2, <2>3, <2>4, EmptiedKeepsWholeInv
<1>2. ASSUME NEW d \in Devices, UserTakes(d) PROVE WholeInv'
  <2>1. /\ UNCHANGED <<tree, adapter, pc, attempt, delivered>> /\ last' = Nothing
        /\ input' = [input EXCEPT ![d] = <<>>]
        /\ disturbed' = disturbed \cup Range(input[d])
    BY <1>2 DEF UserTakes
  <2>2. /\ input'[d] = <<>> /\ Range(input'[d]) = {}
        /\ \A e \in Devices : e # d => input'[e] = input[e]
    BY <2>1 DEF LineInv, TypeInv, Range
  <2>3. disturbed' \subseteq Attempts
    BY <2>1 DEF WholeInv, AttemptTypes
  <2>4. EnterInv'
    <3> SUFFICES ASSUME NEW w \in Wakes, pc[w] = "typed", Current(w) \notin disturbed',
                        NEW e \in DevicesOf(Serves[w])
                 PROVE  input'[e] # <<>> /\ Last(input'[e]) = Current(w)
      BY <2>1 DEF EnterInv, Current, DevicesOf
    <3>1. input[e] # <<>> /\ Last(input[e]) = Current(w)
      BY <2>1 DEF WholeInv, EnterInv
    <3>2. e \in Devices
      BY DEF DevicesOf, Devices, Range
    <3>3. input[e] \in Seq(Wakes \X Nat) /\ IsInjective(input[e])
      BY <3>2 DEF LineInv, TypeInv, WholeInv, AttemptTypes
    <3>4. Current(w) \in Range(input[e])
      BY <3>1, <3>3, EndOfLine
    <3>5. e # d
      BY <2>1, <3>4
    <3> QED BY <2>2, <3>1, <3>2, <3>5
  <2>5. \A e \in Devices : Range(input'[e]) \cap delivered \subseteq disturbed'
    BY <2>1, <2>2 DEF WholeInv, DeliveredWhole, Waiting
  <2> QED BY <2>1, <2>2, <2>3, <2>4, <2>5, EmptiedKeepsWholeInv
<1>3. CASE UNCHANGED vars
  <2>1. AttemptTypes'
    BY <1>3 DEF vars, WholeInv, AttemptTypes
  <2>2. UsedInv' /\ EnterInv'
    BY <1>3 DEF vars, WholeInv, UsedInv, EnterInv, Current, DevicesOf
  <2>3. DeliveredWhole'
    BY <1>3 DEF vars, WholeInv, DeliveredWhole, Undisturbed, Waiting
  <2> QED BY <2>1, <2>2, <2>3 DEF WholeInv
<1> QED
  BY <1>1, <1>2, <1>3, ProveKeepsWholeInv, TypeKeepsWholeInv, PressKeepsWholeInv,
     GiveUpKeepsWholeInv DEF Next, Inject

(* Both invariants hold of every behaviour.                                *)
LEMMA InjectionInvariant == Spec => [](LineInv /\ WholeInv)
<1>1. Init => LineInv /\ WholeInv
  BY LineInvInit, WholeInvInit
<1>2. LineInv /\ WholeInv /\ [Next]_vars => (LineInv /\ WholeInv)'
  BY LineInvNext, WholeInvNext
<1> QED BY <1>1, <1>2, PTL DEF Spec

(* Enter submits the wake's own text, whole and at the end of the line,    *)
(* behind nothing that was reported to be delivered; and what was reported *)
(* to be delivered waits nowhere to be submitted again.                    *)
THEOREM DeliveriesAreWhole == Spec => []DeliveredWhole
<1>1. WholeInv => DeliveredWhole
  BY DEF WholeInv
<1> QED BY <1>1, InjectionInvariant, PTL

(* Every variable stays in its type: no text is on a line twice.           *)
THEOREM InjectionTypeCorrect == Spec => []TypeOK
<1>1. LineInv /\ WholeInv => TypeOK
  BY DEF LineInv, TypeInv, WholeInv, AttemptTypes, TypeOK
<1> QED BY <1>1, InjectionInvariant, PTL
=============================================================================
