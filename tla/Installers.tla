----------------------------- MODULE Installers -----------------------------
(***************************************************************************)
(* The commands that set amq-keepalive up on a machine.  What install-hook *)
(* writes (HookInstall) and what install-launchd and uninstall write       *)
(* (LaunchAgent) have nothing in common, so that an interleaving of both   *)
(* shows no more than each of them: a behaviour of this module is one of   *)
(* either, while the other waits in one of its initial states.             *)
(***************************************************************************)
EXTENDS HookInstall, LaunchAgent

VARIABLE subject    \* "hook", "agent": what the behaviour is about

vars == <<hookVars, launchVars, subject>>

HookWaits == HookInit /\ file = CHOOSE f \in InitFiles : TRUE

LaunchWaits ==
    /\ LaunchInit
    /\ plist = [f \in Paths |-> NoPlist]
    /\ loaded = [l \in Labels |-> Unloaded]

Init ==
    \/ subject = "hook" /\ HookInit /\ LaunchWaits
    \/ subject = "agent" /\ LaunchInit /\ HookWaits

Next ==
    \/ subject = "hook" /\ HookNext /\ UNCHANGED <<launchVars, subject>>
    \/ subject = "agent" /\ LaunchNext /\ UNCHANGED <<hookVars, subject>>

Spec == Init /\ [][Next]_vars

-----------------------------------------------------------------------------
(* Every variable of both parts stays in its type.                         *)
TypeOK == HookTypeOK /\ LaunchTypeOK
=============================================================================
