--------------------------- MODULE CmuxOwnership ---------------------------
(***************************************************************************)
(* Who owns a cmux terminal: registration (checkPhysicalTargetAvailable)   *)
(* and the supervisor pass (targetOwnershipConflicts, Probe,               *)
(* physicalOwnershipConflicts) on the inventory of module CmuxInventory.   *)
(* Surfaces come, go, move to another TTY and get aliases between the      *)
(* decisions; each decision works on one reading of the tree, and          *)
(* registrations and passes exclude each other (module Registration).      *)
(*                                                                         *)
(* A surface is the canonical form (Canon) of the targets that name it, so *)
(* that stored targets may differ from it by the case of the UUID.         *)
(*                                                                         *)
(* Definitions marked "Mutant" are wrong variants which no specification   *)
(* uses; they confirm that the properties notice the mistake.              *)
(***************************************************************************)
EXTENDS RegistryStore, CmuxInventory

CONSTANTS
    Wellformed, \* the targets of the form cmux:surface:<uuid>
    InitRegs,   \* the registries the system may start from
    MaxListed   \* bound on the entries of a tree

ASSUME CmuxAssumption ==
    /\ Wellformed \subseteq Targets
    /\ Surfaces = {Canon[t] : t \in Wellformed}
    /\ \A s \in Surfaces : s \in Wellformed /\ Canon[s] = s
    /\ NoRow # "row"
    /\ InitRegs \subseteq [ID -> {"row", NoRow}]
    /\ MaxListed \in Nat

VARIABLES
    reg,        \* the registry file: NoRow, or "row"
    decision,   \* what was just decided: "none", "accepted", "refused", "pass"
    cand,       \* ... on which entry, if on one,
    ensured,    \* ... for which entries StartWake is called,
    detached    \* ... and which entries are marked detached

vars == <<tree, reg, decision, cand, ensured, detached>>

-----------------------------------------------------------------------------
(* The inventory's answers on an entry's target.                           *)

SurfaceOf(i) == Canon[i[2]]

HasIdentity(i) == i[2] \in Wellformed /\ HasDevice(SurfaceOf(i))

(* Mutant: every failed lookup counts as absence.                          *)
MissingUnlessIdentified(i) == ~HasIdentity(i)

Missing(i) == i[2] \in Wellformed /\ ~Live(SurfaceOf(i))

(* Mutant: any surface on the device will do.                              *)
OwnedByAny(i) == HasIdentity(i)

Owned(i) == i[2] \in Wellformed /\ AloneOnDevice(SurfaceOf(i))

-----------------------------------------------------------------------------
(* Registration.                                                           *)

(* Mutant: rows whose ownership is unclear are passed over.                *)
ClearOfIfOwned(i, c) ==
    Owned(i) => DeviceOf(SurfaceOf(i)) # DeviceOf(SurfaceOf(c))

(* The body of checkPhysicalTargetAvailable's loop: entry i, whatever the  *)
(* state of its surface, does not stand in the way of c, which is owned.   *)
ClearOf(i, c) ==
    CASE Owned(i) -> DeviceOf(SurfaceOf(i)) # DeviceOf(SurfaceOf(c))
      [] Missing(i) -> TRUE
      [] OTHER -> HasIdentity(i) /\ DeviceOf(SurfaceOf(i)) # DeviceOf(SurfaceOf(c))

PhysicallyAvailable(c, replace) ==
    /\ Owned(c)
    /\ \A i \in Present(reg) \ {c} :
          (replace /\ SameSession(i, c)) \/ ClearOf(i, c)

Available(c, replace) ==
    /\ Readable
    /\ PhysicallyAvailable(c, replace)
    /\ ConflictingTargetOwners(reg, c, replace) = {}

(* attach (replace = FALSE) or reattach of entry c.                        *)
Register(c, replace) ==
    /\ c[2] \in Surfaces
    /\ IF Available(c, replace)
       THEN /\ decision' = "accepted"
            /\ reg' = IF replace THEN ReplaceSessionAdapter(reg, c, "row")
                                 ELSE Upsert(reg, c, "row")
            /\ ensured' = {c}
       ELSE /\ decision' = "refused"
            /\ ensured' = {}
            /\ UNCHANGED reg
    /\ cand' = {c}
    /\ detached' = {}
    /\ UNCHANGED tree

-----------------------------------------------------------------------------
(* The supervisor pass.                                                    *)

(* targetOwnershipConflicts: both claimants of a normalised target.        *)
TargetConflicted ==
    {i \in Present(reg) : \E j \in Present(reg) :
        {i[2], j[2]} \subseteq Wellformed /\ Collide(i, j)}

(* physicalOwnershipConflicts *)
PhysicallyConflicted ==
    IF ~Readable THEN Present(reg)
    ELSE {i \in Present(reg) : ~Owned(i) /\ ~Missing(i)} \cup
         {i \in Present(reg) : \E j \in Present(reg) \ {i} :
             Owned(i) /\ Owned(j) /\ DeviceOf(SurfaceOf(i)) = DeviceOf(SurfaceOf(j))}

(* The pass skips the physical check if no row is due when it looks; a row *)
(* may still fall due before it is judged.                                 *)
Pass(due, checked) ==
    /\ Present(reg) # {}
    /\ LET conflicted == TargetConflicted \cup
                            (IF checked THEN PhysicallyConflicted ELSE {})
           judged == due \ conflicted
       IN /\ ensured' = {i \in judged : Readable /\ Owned(i)}
          /\ detached' = {i \in judged : Readable /\ Missing(i)}
    /\ decision' = "pass"
    /\ cand' = {}
    /\ UNCHANGED <<tree, reg>>

-----------------------------------------------------------------------------
(* External: a surface appears on a TTY, or is not listed there any more;  *)
(* and the user forgets an entry.                                          *)
NoDecision ==
    decision' = "none" /\ cand' = {} /\ ensured' = {} /\ detached' = {}

Rearrange ==
    /\ \E s \in Surfaces, y \in TTYs :
          \/ <<s, y>> \notin tree /\ tree' = tree \cup {<<s, y>>}
             /\ Cardinality(tree) < MaxListed
          \/ <<s, y>> \in tree /\ tree' = tree \ {<<s, y>>}
    /\ NoDecision
    /\ UNCHANGED reg

ForgetEntry(i) ==
    /\ reg[i] # NoRow
    /\ reg' = Forget(reg, i)
    /\ NoDecision
    /\ UNCHANGED tree

Init ==
    /\ tree = {}
    /\ reg \in InitRegs
    /\ decision = "none" /\ cand = {} /\ ensured = {} /\ detached = {}

Next ==
    \/ \E c \in ID, replace \in BOOLEAN : Register(c, replace)
    \/ \E due \in SUBSET Present(reg), checked \in BOOLEAN : Pass(due, checked)
    \/ \E i \in ID : ForgetEntry(i)
    \/ Rearrange

Spec == Init /\ [][Next]_vars

-----------------------------------------------------------------------------
(* Properties.                                                             *)

(* A wake is started only for a surface which the tree shows to be alone   *)
(* on its device, and which no other entry claims: "exactly one live       *)
(* surface UUID per canonical TTY".  This holds also for a pass which has  *)
(* skipped the physical check and finds a row due all the same.            *)
EnsuredAlone ==
    \A i \in ensured :
        /\ \E y \in TTYs \cup {NoTTY} : DevicesOf(SurfaceOf(i)) = {y} /\ y # NoTTY
        /\ \A s \in Surfaces \ {SurfaceOf(i)} :
              DevicesOf(s) \cap DevicesOf(SurfaceOf(i)) = {}
        /\ \A j \in Present(reg) \ {i} :
              j[2] \in Wellformed => SurfaceOf(j) # SurfaceOf(i)

(* An entry is marked detached only when the tree does not list its        *)
(* surface at all, and never on an unreadable tree or a broken target.     *)
DetachedAbsent ==
    \A i \in detached :
        /\ i[2] \in Wellformed
        /\ DevicesOf(SurfaceOf(i)) = {}

(* An entry that is accepted shares its device with no other entry's       *)
(* surface; one that is refused is not alone on a device itself, or there  *)
(* is an entry on its device or one whose device cannot be told.  In       *)
(* particular an ambiguity elsewhere "must not poison every future         *)
(* registration on the machine".                                           *)
InTheWay(j, c) ==
    \/ j[2] \notin Wellformed
    \/ SurfaceOf(j) = SurfaceOf(c)
    \/ NoTTY \in DevicesOf(SurfaceOf(j))
    \/ DevicesOf(SurfaceOf(j)) \cap DevicesOf(SurfaceOf(c)) # {}

Alone(c) ==
    /\ DevicesOf(SurfaceOf(c)) # {}
    /\ \A s \in Surfaces \ {SurfaceOf(c)} :
          DevicesOf(s) \cap DevicesOf(SurfaceOf(c)) = {}
    /\ NoTTY \notin DevicesOf(SurfaceOf(c))

AcceptedExactly ==
    \A c \in cand :
        /\ decision = "accepted" =>
              Alone(c) /\ \A j \in Present(reg) \ {c} : ~InTheWay(j, c)
        /\ decision = "refused" =>
              \/ ~Readable \/ ~Alone(c)
              \/ \E j \in Present(reg) \ {c} : InTheWay(j, c)
=============================================================================
