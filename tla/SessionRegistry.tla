-------------------------- MODULE SessionRegistry --------------------------
(***************************************************************************)
(* What the registration commands promise about the registry, without the  *)
(* lease, the wakes, the failures and the steps in between: every command  *)
(* takes effect at one instant or not at all.                              *)
(***************************************************************************)
EXTENDS RegistryStore

CONSTANTS
    Status,     \* the states of an entry
    Fresh,      \* the state of an entry that no verdict has been given on
    InitRegs,   \* the registries the system may start from
    MayForget   \* whether anyone runs the forget command

VARIABLE rows

SRInit == rows \in InitRegs

(* Entry i enters beside the other rows; nobody else claims its target.    *)
Add(i) ==
    /\ ConflictingTargetOwners(rows, i, FALSE) = {}
    /\ rows' = Upsert(rows, i, Fresh)

(* Entry i takes the place of all its session's rows at once.              *)
Claim(i) ==
    /\ ConflictingTargetOwners(rows, i, TRUE) = {}
    /\ rows' = ReplaceSessionAdapter(rows, i, Fresh)

(* Entries get verdicts; which entries there are does not change, and none *)
(* goes back to being fresh.                                               *)
Assess ==
    /\ rows' \in [ID -> Status \cup {NoRow}]
    /\ Present(rows') = Present(rows)
    /\ \A i \in ID : rows'[i] = Fresh => rows[i] = Fresh

Drop(i) ==
    /\ MayForget
    /\ rows[i] # NoRow
    /\ rows' = Forget(rows, i)

SRNext == Assess \/ \E i \in ID : Add(i) \/ Claim(i) \/ Drop(i)

SRSpec == SRInit /\ [][SRNext]_rows
=============================================================================
