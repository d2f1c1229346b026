--------------------------- MODULE CmuxInventory ---------------------------
(***************************************************************************)
(* What internal/adapter/cmux.go makes of one `cmux rpc system.tree`: the  *)
(* devices of the surfaces that it lists, and who owns a device.  Every    *)
(* decision on a cmux target, by a registration, by a supervisor pass      *)
(* (CmuxOwnership) or before an injection (Injection), rests on it.        *)
(*                                                                         *)
(* A tree is the set of (surface, tty) pairs it lists.                     *)
(***************************************************************************)
EXTENDS Naturals, FiniteSets

CONSTANTS
    Surfaces,   \* the UUIDs of surfaces, in canonical form
    TTYs,       \* what a tree may give as the tty of a surface
    Device,     \* the device a tty names, or NoTTY
    NoTTY       \* blank, or a path that names no device

ASSUME InventoryAssumption == Device \in [TTYs -> TTYs \cup {NoTTY}]

VARIABLE tree   \* external: what system.tree lists

Live(s) == \E y \in TTYs : <<s, y>> \in tree

(* The device of a live surface; a tree that passes Readable has one.      *)
DeviceOf(s) == Device[CHOOSE y \in TTYs : <<s, y>> \in tree]

(* Inventory refuses a tree that gives one surface two identities.         *)
Readable ==
    \A a, b \in tree :
        a[1] = b[1] => \/ a[2] = b[2]
                       \/ Device[a[2]] = Device[b[2]] /\ Device[a[2]] # NoTTY

(* ttyOwners *)
Owners(device) == {s \in Surfaces : Live(s) /\ DeviceOf(s) = device}

(* physicalTTY *)
HasDevice(s) == Live(s) /\ DeviceOf(s) # NoTTY

(* OwnershipKey *)
AloneOnDevice(s) == HasDevice(s) /\ Owners(DeviceOf(s)) = {s}

(* The devices the tree gives for a surface.                               *)
DevicesOf(s) == {Device[y] : y \in {x \in TTYs : <<s, x>> \in tree}}
=============================================================================
