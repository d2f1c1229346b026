------------------------- MODULE CmuxOwnershipProofs -------------------------
(***************************************************************************)
(* EnsuredAlone, DetachedAbsent and AcceptedExactly, for any number of     *)
(* sessions, targets, surfaces and devices and any tree.  The properties   *)
(* speak of what the tree lists; the code decides by the device that it    *)
(* found first for each surface and by the owners of that device.  A       *)
(* readable tree makes the two agree.                                      *)
(***************************************************************************)
EXTENDS CmuxOwnership, TLAPS

USE CanonAssumption, InventoryAssumption, CmuxAssumption

Listed == tree \subseteq Surfaces \X TTYs

-----------------------------------------------------------------------------
(* What the inventory of a readable tree says of a surface.                *)
LEMMA DeviceOfLive ==
    ASSUME NEW s, Live(s)
    PROVE  \E y \in TTYs : <<s, y>> \in tree /\ DeviceOf(s) = Device[y]
BY DEF Live, DeviceOf

(* In a readable tree a live surface has exactly one device.               *)
LEMMA OneDevice ==
    ASSUME Readable, NEW s, Live(s)
    PROVE  DevicesOf(s) = {DeviceOf(s)} /\ DeviceOf(s) \in TTYs \cup {NoTTY}
<1>1. PICK y \in TTYs : <<s, y>> \in tree /\ DeviceOf(s) = Device[y]
  BY DeviceOfLive
<1>2. ASSUME NEW x \in TTYs, <<s, x>> \in tree PROVE Device[x] = Device[y]
  <2>1. <<s, x>>[1] = <<s, y>>[1] /\ <<s, x>>[2] = x /\ <<s, y>>[2] = y
    OBVIOUS
  <2> QED BY <1>1, <1>2, <2>1 DEF Readable
<1> QED BY <1>1, <1>2 DEF DevicesOf

(* What is not live has none.                                              *)
LEMMA NoDevice ==
    ASSUME NEW s
    PROVE  ~Live(s) <=> DevicesOf(s) = {}
<1>1. ASSUME Live(s) PROVE DevicesOf(s) # {}
  <2>1. PICK y \in TTYs : <<s, y>> \in tree
    BY <1>1 DEF Live
  <2>2. Device[y] \in DevicesOf(s)
    BY <2>1 DEF DevicesOf
  <2> QED BY <2>2
<1>2. ASSUME ~Live(s) PROVE DevicesOf(s) = {}
  BY <1>2 DEF Live, DevicesOf
<1> QED BY <1>1, <1>2

(* OwnershipKey of a readable tree: the surface has a device, and no other *)
(* surface is listed on it.                                                *)
LEMMA AloneOnDeviceMeans ==
    ASSUME Readable, Listed, NEW s \in Surfaces
    PROVE  AloneOnDevice(s) <=>
               /\ DevicesOf(s) # {} /\ NoTTY \notin DevicesOf(s)
               /\ \A r \in Surfaces \ {s} : DevicesOf(r) \cap DevicesOf(s) = {}
<1>1. CASE ~Live(s)
  BY <1>1, NoDevice DEF AloneOnDevice, HasDevice
<1>2. CASE Live(s)
  <2>1. DevicesOf(s) = {DeviceOf(s)}
    BY <1>2, OneDevice
  <2>2. \A r \in Surfaces : Live(r) /\ DeviceOf(r) = DeviceOf(s) <=>
                            DevicesOf(r) \cap DevicesOf(s) # {}
    BY <2>1, OneDevice, NoDevice
  <2> QED BY <1>2, <2>1, <2>2 DEF AloneOnDevice, HasDevice, Owners
<1> QED BY <1>1, <1>2

(* The surface of a well-formed target is one of the surfaces.             *)
LEMMA SurfacesAre ==
    ASSUME NEW i \in ID, i[2] \in Wellformed
    PROVE  SurfaceOf(i) \in Surfaces
BY DEF SurfaceOf

-----------------------------------------------------------------------------
(* The body of checkPhysicalTargetAvailable's loop, for two surfaces.      *)
LEMMA ClearMeansNotInTheWay ==
    ASSUME Readable, Listed, NEW c \in ID, NEW j \in ID, Owned(c),
           SurfaceOf(j) # SurfaceOf(c)
    PROVE  ClearOf(j, c) <=> ~InTheWay(j, c)
<1>1. Live(SurfaceOf(c)) /\ DevicesOf(SurfaceOf(c)) = {DeviceOf(SurfaceOf(c))}
  BY OneDevice DEF Owned, AloneOnDevice, HasDevice
<1>2. CASE j[2] \notin Wellformed
  BY <1>2 DEF ClearOf, InTheWay, Owned, Missing, HasIdentity
<1>3. CASE j[2] \in Wellformed /\ ~Live(SurfaceOf(j))
  <2>1. DevicesOf(SurfaceOf(j)) = {}
    BY <1>3, NoDevice
  <2>2. Missing(j) /\ ~Owned(j)
    BY <1>3 DEF Missing, Owned, AloneOnDevice, HasDevice
  <2> QED BY <1>3, <2>1, <2>2 DEF ClearOf, InTheWay
<1>4. CASE j[2] \in Wellformed /\ Live(SurfaceOf(j))
  <2>1. DevicesOf(SurfaceOf(j)) = {DeviceOf(SurfaceOf(j))}
    BY <1>4, OneDevice
  <2>2. ~Missing(j)
    BY <1>4 DEF Missing
  <2>3. InTheWay(j, c) <=> \/ DeviceOf(SurfaceOf(j)) = NoTTY
                           \/ DeviceOf(SurfaceOf(j)) = DeviceOf(SurfaceOf(c))
    BY <1>1, <1>4, <2>1 DEF InTheWay
  <2>4. CASE Owned(j)
    BY <2>3, <2>4 DEF ClearOf, Owned, AloneOnDevice, HasDevice
  <2>5. CASE ~Owned(j)
    BY <1>4, <2>2, <2>3, <2>5 DEF ClearOf, HasIdentity, HasDevice
  <2> QED BY <2>4, <2>5
<1> QED BY <1>2, <1>3, <1>4

(* The two agree on every well-formed target of a readable tree.           *)
LEMMA AloneMeansOwned ==
    ASSUME Readable, Listed, NEW c \in ID, c[2] \in Wellformed
    PROVE  Owned(c) <=> Alone(c)
BY AloneOnDeviceMeans, SurfacesAre DEF Owned, Alone

-----------------------------------------------------------------------------
Registry == [ID -> {"row", NoRow}]

OwnershipInv ==
    /\ Listed /\ reg \in Registry
    /\ EnsuredAlone /\ DetachedAbsent /\ AcceptedExactly

(* An accepted entry: nobody of the registry that it enters is in the way. *)
LEMMA AcceptedIsClear ==
    ASSUME Listed, reg \in Registry, NEW c \in ID, NEW replace \in BOOLEAN,
           c[2] \in Surfaces, Available(c, replace)
    PROVE  /\ Alone(c) /\ Owned(c)
           /\ \A j \in Present(reg) \ {c} :
                 (replace /\ SameSession(j, c)) \/ ~InTheWay(j, c)
<1>1. Readable /\ Owned(c) /\ c[2] \in Wellformed
  BY DEF Available, PhysicallyAvailable
<1>2. ASSUME NEW j \in Present(reg) \ {c}, ~(replace /\ SameSession(j, c))
      PROVE  ~InTheWay(j, c)
  <2>1. j \in ID /\ ClearOf(j, c)
    BY <1>2 DEF Available, PhysicallyAvailable, Present
  <2>2. SurfaceOf(j) # SurfaceOf(c)
    <3>1. j \notin ConflictingTargetOwners(reg, c, replace)
      BY DEF Available
    <3> QED BY <1>2, <3>1 DEF ConflictingTargetOwners, Collide, SurfaceOf, SameSession
  <2> QED BY <1>1, <2>1, <2>2, ClearMeansNotInTheWay
<1> QED BY <1>1, <1>2, AloneMeansOwned

(* Registration refuses a surface that is alone only because of another    *)
(* row.                                                                    *)
LEMMA RefusedIsInTheWay ==
    ASSUME Listed, reg \in Registry, NEW c \in ID, NEW replace \in BOOLEAN,
           c[2] \in Surfaces, ~Available(c, replace), Readable, Alone(c)
    PROVE  \E j \in Present(reg) \ {c} : InTheWay(j, c)
<1>1. Owned(c)
  BY AloneMeansOwned
<1>2. CASE ConflictingTargetOwners(reg, c, replace) # {}
  BY <1>2 DEF ConflictingTargetOwners, Collide, InTheWay, SurfaceOf
<1>3. CASE ~PhysicallyAvailable(c, replace)
  <2>1. PICK j \in Present(reg) \ {c} : ~ClearOf(j, c)
    BY <1>1, <1>3 DEF PhysicallyAvailable
  <2>2. j \in ID
    BY <2>1 DEF Present
  <2>3. CASE SurfaceOf(j) = SurfaceOf(c)
    BY <2>1, <2>3 DEF InTheWay
  <2>4. CASE SurfaceOf(j) # SurfaceOf(c)
    BY <1>1, <2>1, <2>2, <2>4, ClearMeansNotInTheWay
  <2> QED BY <2>3, <2>4
<1> QED BY <1>2, <1>3 DEF Available

(* A registration keeps the invariant, accepted or refused.                *)
LEMMA RegisterKeepsOwnership ==
    ASSUME OwnershipInv, NEW c \in ID, NEW replace \in BOOLEAN, Register(c, replace)
    PROVE  OwnershipInv'
<1> USE DEF OwnershipInv
<1>1. /\ tree' = tree /\ cand' = {c} /\ detached' = {} /\ c[2] \in Surfaces
      /\ Listed' /\ DetachedAbsent'
  BY DEF Register, Listed, DetachedAbsent
<1>2. /\ Alone(c)' = Alone(c) /\ Readable' = Readable
      /\ \A j : InTheWay(j, c)' = InTheWay(j, c)
      /\ \A s : DevicesOf(s)' = DevicesOf(s)
  BY <1>1 DEF Alone, InTheWay, Readable, DevicesOf, SurfaceOf
<1>3. CASE Available(c, replace)
  <2>1. /\ decision' = "accepted" /\ ensured' = {c}
        /\ reg' = IF replace THEN ReplaceSessionAdapter(reg, c, "row")
                             ELSE Upsert(reg, c, "row")
    BY <1>3 DEF Register
  <2>2. reg' \in Registry
    BY <2>1 DEF Registry, ReplaceSessionAdapter, Upsert
  <2>3. \A j \in Present(reg') \ {c} :
            j \in Present(reg) /\ ~(replace /\ SameSession(j, c))
    BY <2>1 DEF Registry, ReplaceSessionAdapter, Upsert, Present, SameSession
  <2>4. Alone(c) /\ \A j \in Present(reg') \ {c} : ~InTheWay(j, c)
    BY <1>1, <1>3, <2>3, AcceptedIsClear
  <2>5. AcceptedExactly'
    BY <1>1, <1>2, <2>1, <2>4 DEF AcceptedExactly
  <2>6. EnsuredAlone'
    <3>1. Readable /\ Live(SurfaceOf(c)) /\ SurfaceOf(c)' = SurfaceOf(c)
      BY <1>3, <1>1, AcceptedIsClear
         DEF Available, Owned, AloneOnDevice, HasDevice, SurfaceOf
    <3>2. \E y \in TTYs \cup {NoTTY} : DevicesOf(SurfaceOf(c)) = {y} /\ y # NoTTY
      BY <2>4, <3>1, OneDevice DEF Alone
    <3>3. \A j \in Present(reg') \ {c} : SurfaceOf(j) # SurfaceOf(c)
      BY <2>4 DEF InTheWay
    <3>4. \A j : SurfaceOf(j)' = SurfaceOf(j)
      BY DEF SurfaceOf
    <3> QED BY <1>2, <2>1, <2>4, <3>2, <3>3, <3>4 DEF EnsuredAlone, Alone
  <2> QED BY <1>1, <2>2, <2>5, <2>6
<1>4. CASE ~Available(c, replace)
  <2>1. decision' = "refused" /\ ensured' = {} /\ reg' = reg
    BY <1>4 DEF Register
  <2>2. ~Readable \/ ~Alone(c) \/ \E j \in Present(reg) \ {c} : InTheWay(j, c)
    BY <1>1, <1>4, RefusedIsInTheWay
  <2>3. AcceptedExactly'
    BY <1>1, <1>2, <2>1, <2>2 DEF AcceptedExactly
  <2> QED BY <1>1, <2>1, <2>3 DEF EnsuredAlone
<1> QED BY <1>3, <1>4

(* So does a pass, whichever rows are due in it.                           *)
LEMMA PassKeepsOwnership ==
    ASSUME OwnershipInv, NEW due \in SUBSET Present(reg), NEW checked \in BOOLEAN,
           Pass(due, checked)
    PROVE  OwnershipInv'
<1> USE DEF OwnershipInv
<1>1. /\ tree' = tree /\ reg' = reg /\ cand' = {}
      /\ \A i \in ensured' : i \in Present(reg) \ TargetConflicted /\ Readable /\ Owned(i)
      /\ \A i \in detached' : Readable /\ Missing(i)
  BY DEF Pass
<1>2. /\ \A s : DevicesOf(s)' = DevicesOf(s)
      /\ \A i : SurfaceOf(i)' = SurfaceOf(i)
  BY <1>1 DEF DevicesOf, SurfaceOf
<1>3. DetachedAbsent'
  BY <1>1, <1>2, NoDevice DEF DetachedAbsent, Missing
<1>4. EnsuredAlone'
  <2> SUFFICES ASSUME NEW i \in ensured'
      PROVE  /\ \E y \in TTYs \cup {NoTTY} : DevicesOf(SurfaceOf(i)) = {y} /\ y # NoTTY
             /\ \A s \in Surfaces \ {SurfaceOf(i)} :
                    DevicesOf(s) \cap DevicesOf(SurfaceOf(i)) = {}
             /\ \A j \in Present(reg) \ {i} :
                    j[2] \in Wellformed => SurfaceOf(j) # SurfaceOf(i)
    BY <1>1, <1>2 DEF EnsuredAlone
  <2>1. /\ Readable /\ i \in ID /\ i[2] \in Wellformed /\ SurfaceOf(i) \in Surfaces
        /\ AloneOnDevice(SurfaceOf(i)) /\ i \in Present(reg)
    BY <1>1, SurfacesAre DEF Owned, Present
  <2>2. \E y \in TTYs \cup {NoTTY} : DevicesOf(SurfaceOf(i)) = {y} /\ y # NoTTY
    BY <2>1, OneDevice DEF AloneOnDevice, HasDevice
  <2>3. \A s \in Surfaces \ {SurfaceOf(i)} : DevicesOf(s) \cap DevicesOf(SurfaceOf(i)) = {}
    BY <2>1, AloneOnDeviceMeans
  <2>4. \A j \in Present(reg) \ {i} : j[2] \in Wellformed => SurfaceOf(j) # SurfaceOf(i)
    BY <1>1, <2>1 DEF TargetConflicted, Collide, SurfaceOf
  <2> QED BY <2>2, <2>3, <2>4
<1>5. Listed' /\ reg' \in Registry /\ AcceptedExactly'
  BY <1>1 DEF Listed, AcceptedExactly
<1> QED BY <1>3, <1>4, <1>5

(* Every step keeps the invariant.                                         *)
LEMMA OwnershipInvNext == OwnershipInv /\ [Next]_vars => OwnershipInv'
<1> SUFFICES ASSUME OwnershipInv, [Next]_vars PROVE OwnershipInv'
    OBVIOUS
<1>1. ASSUME NEW i \in ID, ForgetEntry(i) PROVE OwnershipInv'
  BY <1>1 DEF ForgetEntry, NoDecision, Forget, Registry, Listed, OwnershipInv, EnsuredAlone,
              DetachedAbsent, AcceptedExactly
<1>2. CASE Rearrange
  BY <1>2 DEF Rearrange, NoDecision, Listed, OwnershipInv, EnsuredAlone, DetachedAbsent,
              AcceptedExactly
<1>3. CASE UNCHANGED vars
  <2>1. /\ UNCHANGED <<reg, decision, cand, ensured, detached>>
        /\ Listed' = Listed /\ Readable' = Readable
        /\ \A s : DevicesOf(s)' = DevicesOf(s)
        /\ \A i : SurfaceOf(i)' = SurfaceOf(i)
    BY <1>3 DEF vars, Listed, Readable, DevicesOf, SurfaceOf
  <2>2. /\ \A i : Alone(i)' = Alone(i)
        /\ \A i, j : InTheWay(i, j)' = InTheWay(i, j)
    BY <2>1 DEF Alone, InTheWay
  <2>3. EnsuredAlone' /\ DetachedAbsent'
    BY <2>1 DEF OwnershipInv, EnsuredAlone, DetachedAbsent
  <2>4. AcceptedExactly'
    BY <2>1, <2>2 DEF OwnershipInv, AcceptedExactly
  <2> QED BY <2>1, <2>3, <2>4 DEF OwnershipInv
<1> QED
  BY <1>1, <1>2, <1>3, RegisterKeepsOwnership, PassKeepsOwnership DEF Next

(* It holds in every reachable state.                                      *)
LEMMA OwnershipInvHolds == Spec => []OwnershipInv
<1>1. Init => OwnershipInv
  BY DEF Init, OwnershipInv, Listed, Registry, EnsuredAlone, DetachedAbsent, AcceptedExactly
<1> QED BY <1>1, OwnershipInvNext, PTL DEF Spec

(* A wake is started only for a surface that is alone on its device and    *)
(* that no other entry claims, also by a pass that skipped the check.      *)
THEOREM EnsuredAreAlone == Spec => []EnsuredAlone
<1>1. OwnershipInv => EnsuredAlone
  BY DEF OwnershipInv
<1> QED BY <1>1, OwnershipInvHolds, PTL

(* Only an entry whose surface the tree does not list is marked detached.  *)
THEOREM DetachedAreAbsent == Spec => []DetachedAbsent
<1>1. OwnershipInv => DetachedAbsent
  BY DEF OwnershipInv
<1> QED BY <1>1, OwnershipInvHolds, PTL

(* Registration accepts exactly the surfaces that are alone and have       *)
(* nobody in the way, although it looks at one device of each surface.     *)
THEOREM AcceptedAreExact == Spec => []AcceptedExactly
<1>1. OwnershipInv => AcceptedExactly
  BY DEF OwnershipInv
<1> QED BY <1>1, OwnershipInvHolds, PTL
=============================================================================
