--------------------------- MODULE RegistryStore ---------------------------
(***************************************************************************)
(* The registry file of internal/registry/store.go as a value, and the     *)
(* mutations of Store as operators on that value.                          *)
(*                                                                         *)
(* EntryID hashes (root, agent, adapter, target), so an ID is a pair of a  *)
(* session, which stands for (root, agent), and a target, which stands for *)
(* (adapter, target).  A registry is a total function from IDs to rows;    *)
(* NoRow says that the file has no entry with that ID.  The order of the   *)
(* entries is left out: sortEntries makes it a function of the IDs.        *)
(***************************************************************************)
EXTENDS FiniteSets

CONSTANTS
    Sessions,   \* the (root, agent) pairs
    Targets,    \* the (adapter, target) pairs, as they are stored
    Canon,      \* the target a stored target is compared as
    NoRow       \* stands for an absent entry

ASSUME CanonAssumption == Canon \in [Targets -> Targets]

ID == Sessions \X Targets

EmptyRegistry == [i \in ID |-> NoRow]

Present(rows) == {i \in ID : rows[i] # NoRow}

SameSession(i, j) == i[1] = j[1]

(* Two entries that claim one canonical target.                            *)
Collide(i, j) == i # j /\ Canon[i[2]] = Canon[j[2]]

(* The entries that keep entry c from claiming its target.                 *)
ConflictingTargetOwners(rows, c, ignoreSameSession) ==
    {j \in Present(rows) :
        Collide(c, j) /\ (ignoreSameSession => ~SameSession(c, j))}

Upsert(rows, c, row) == [rows EXCEPT ![c] = row]

(* What ReplaceSessionAdapter hands back for a later rollback ...          *)
Removed(rows, c) ==
    [i \in ID |-> IF SameSession(i, c) THEN rows[i] ELSE NoRow]

(* Mutant: only the row with the same ID is replaced.                      *)
ReplaceSameEntry(rows, c, row) == [rows EXCEPT ![c] = row]

(* ... and what it leaves in the file.                                     *)
ReplaceSessionAdapter(rows, c, row) ==
    [i \in ID |-> CASE i = c -> row
                    [] i # c /\ SameSession(i, c) -> NoRow
                    [] OTHER -> rows[i]]

(* The reservation is still the session's only row, and unchanged.         *)
Unchanged(rows, c, row) ==
    /\ rows[c] = row
    /\ \A i \in Present(rows) : SameSession(i, c) => i = c

RestoreSessionAdapter(rows, c, previous) ==
    [i \in ID |-> IF previous[i] # NoRow THEN previous[i]
                  ELSE IF i = c THEN NoRow ELSE rows[i]]

UpdateEntry(rows, c, row) == [rows EXCEPT ![c] = row]

(* The compare-and-swap of a supervisor pass.                              *)
UpdateEntries(rows, before, after) ==
    [i \in ID |-> IF before[i] # NoRow /\ rows[i] = before[i]
                  THEN after[i] ELSE rows[i]]

Forget(rows, c) == [rows EXCEPT ![c] = NoRow]

(* No two entries of the file claim one canonical target.                  *)
SoleOwner(rows) == \A i, j \in Present(rows) : ~Collide(i, j)
=============================================================================
