---------------------------- MODULE LaunchAgent ----------------------------
(***************************************************************************)
(* `amq-keepalive install-launchd` and `uninstall`                         *)
(* (internal/launchd/launchd.go): a plist, and what launchd has loaded     *)
(* from it.  Commands take no lock, and any step of one may be its last.   *)
(*                                                                         *)
(* A plist of this tool is its label and the settings in it, which stand   *)
(* for paths and interval.  A label is written with XML's escapes, and     *)
(* looked for without (isOwnedPlist).  launchctl and the user are          *)
(* external: a call that reports an error may have had its effect.         *)
(*                                                                         *)
(* Definitions marked "Mutant" are wrong variants which no specification   *)
(* uses; they confirm that the properties notice the mistake.              *)
(***************************************************************************)
EXTENDS Naturals

CONSTANTS
    Operators,      \* processes that run the two commands
    Labels,
    Paths,          \* of plists: the default one of a label, or --plist
    Settings,
    Written,        \* what a label looks like in a plist
    NoPlist,        \* no file
    Foreign,        \* a plist of another program
    Unloaded,       \* launchd knows no agent of the label
    MaxCommands     \* bound on the commands that are started

ASSUME LaunchAgentAssumption ==
    /\ DOMAIN Written = Labels
    /\ {NoPlist, Foreign} \cap [label : Labels, settings : Settings] = {}
    /\ MaxCommands \in Nat

VARIABLES
    plist,      \* per path, the file
    loaded,     \* per label, the settings of the loaded agent, or Unloaded
    step,       \* per process: "idle", "check", "write", "bootout",
                \* "bootstrap", "kickstart", "remove", "done", "failed"
    command,    \* per process: its flags
    started,    \* bound: the commands that were started
    calm,       \* history: the processes that nobody has disturbed
    held        \* history: the processes whose bootout left the agent loaded

launchVars == <<plist, loaded, step, command, started, calm, held>>

Plists == [label : Labels, settings : Settings]

(* --no-load and --no-unload are launchctl = FALSE.                        *)
Commands ==
    [verb : {"install"}, label : Labels, path : Paths, launchctl : BOOLEAN,
     settings : Settings]
    \cup
    [verb : {"uninstall"}, label : Labels, path : Paths, launchctl : BOOLEAN]

(* Earlier commands may have left any of the plists and agents behind.    *)
LaunchInit ==
    /\ plist \in [Paths -> Plists \cup {NoPlist, Foreign}]
    /\ loaded \in [Labels -> Settings \cup {Unloaded}]
    /\ step = [p \in Operators |-> "idle"]
    /\ command = [p \in Operators |-> <<>>]
    /\ started = 0
    /\ calm = {} /\ held = {}

-----------------------------------------------------------------------------
At(p, s) == step[p] = s
Continue(p, s) == step' = [step EXCEPT ![p] = s]

Path(p) == command[p].path
Label(p) == command[p].label

(* p changes its plist, or the agent of label l: no longer undisturbed is  *)
(* whoever else has to do with either.                                     *)
DisturbsPath(p) == calm' = {q \in calm : q = p \/ Path(q) # Path(p)}
DisturbsLabel(p, l) == calm' = {q \in calm : q = p \/ Label(q) # l}

Owned(f, l) == f \notin {NoPlist, Foreign} /\ Written[f.label] = l

Run(p) ==
    /\ step[p] \in {"idle", "done", "failed"} /\ started < MaxCommands
    /\ \E c \in Commands : command' = [command EXCEPT ![p] = c]
    /\ started' = started + 1
    /\ calm' = calm \cup {p} /\ held' = held \ {p}
    /\ Continue(p, "check")
    /\ UNCHANGED <<plist, loaded>>

(* Mutant: only an installation looks what it replaces.                    *)
CheckInstallation(p) ==
    /\ At(p, "check")
    /\ IF command[p].verb = "uninstall"
       THEN Continue(p, IF command[p].launchctl THEN "bootout" ELSE "remove")
       ELSE Continue(p, IF plist[Path(p)] = NoPlist \/ Owned(plist[Path(p)], Label(p))
                        THEN "write" ELSE "failed")
    /\ UNCHANGED <<plist, loaded, command, started, calm, held>>

(* ensureExistingPlistOwned *)
Check(p) ==
    /\ At(p, "check")
    /\ Continue(p,
         IF plist[Path(p)] # NoPlist /\ ~Owned(plist[Path(p)], Label(p)) THEN "failed"
         ELSE IF command[p].verb = "install" THEN "write"
         ELSE IF command[p].launchctl THEN "bootout" ELSE "remove")
    /\ UNCHANGED <<plist, loaded, command, started, calm, held>>

(* writeFileAtomic; an error after the rename is the last.                 *)
WritePlist(p) ==
    /\ At(p, "write")
    /\ plist' = [plist EXCEPT ![Path(p)] =
                    [label |-> Label(p), settings |-> command[p].settings]]
    /\ DisturbsPath(p)
    /\ \/ Continue(p, IF command[p].launchctl THEN "bootout" ELSE "done")
       \/ Continue(p, "failed")
    /\ UNCHANGED <<loaded, command, started, held>>

AfterBootout(p) ==
    Continue(p, IF command[p].verb = "install" THEN "bootstrap" ELSE "remove")

(* Its error is ignored, as it reports one when there is no agent.         *)
Bootout(p) ==
    /\ At(p, "bootout")
    /\ \/ /\ loaded' = [loaded EXCEPT ![Label(p)] = Unloaded]
          /\ DisturbsLabel(p, Label(p))
          /\ UNCHANGED held
       \/ /\ loaded[Label(p)] # Unloaded
          /\ held' = held \cup {p}
          /\ UNCHANGED <<loaded, calm>>
    /\ AfterBootout(p)
    /\ UNCHANGED <<plist, command, started>>

(* launchd takes the agent's label from the file, and none that it already *)
(* has.                                                                    *)
Loadable(f) == f \notin {NoPlist, Foreign} /\ loaded[f.label] = Unloaded

(* Mutant: the error is ignored here, too.                                 *)
BootstrapLoosely(p) ==
    LET f == plist[Path(p)] IN
    /\ At(p, "bootstrap")
    /\ IF Loadable(f)
       THEN loaded' = [loaded EXCEPT ![f.label] = f.settings] /\ DisturbsLabel(p, f.label)
       ELSE UNCHANGED <<loaded, calm>>
    /\ Continue(p, "kickstart")
    /\ UNCHANGED <<plist, command, started, held>>

(* An agent of another program is loaded as well; whether it is does not   *)
(* matter to the labels of this tool.                                      *)
Bootstrap(p) ==
    LET f == plist[Path(p)] IN
    /\ At(p, "bootstrap")
    /\ \/ /\ Loadable(f)
          /\ loaded' = [loaded EXCEPT ![f.label] = f.settings]
          /\ DisturbsLabel(p, f.label)
          /\ \/ Continue(p, "kickstart")
             \/ Continue(p, "failed")
       \/ /\ f = Foreign /\ Continue(p, "kickstart")
          /\ UNCHANGED <<loaded, calm>>
    /\ UNCHANGED <<plist, command, started, held>>

(* kickstart -k restarts the agent with the settings it was loaded with.   *)
Kickstart(p) ==
    /\ At(p, "kickstart")
    /\ Continue(p, IF loaded[Label(p)] = Unloaded THEN "failed" ELSE "done")
    /\ UNCHANGED <<plist, loaded, command, started, calm, held>>

(* A file that is already gone is no error.                                *)
RemovePlist(p) ==
    /\ At(p, "remove")
    /\ plist' = [plist EXCEPT ![Path(p)] = NoPlist]
    /\ DisturbsPath(p)
    /\ Continue(p, "done")
    /\ UNCHANGED <<loaded, command, started, held>>

(* A step fails without effect, or the process dies.                       *)
Abort(p) ==
    /\ step[p] \notin {"idle", "done", "failed"}
    /\ Continue(p, "failed")
    /\ UNCHANGED <<plist, loaded, command, started, calm, held>>

-----------------------------------------------------------------------------
(* External.  Another program, or the user, puts a plist in the place of   *)
(* what is there.                                                          *)
PutForeign(f) ==
    /\ plist[f] # Foreign
    /\ plist' = [plist EXCEPT ![f] = Foreign]
    /\ calm' = {q \in calm : Path(q) # f}
    /\ UNCHANGED <<loaded, step, command, started, held>>

(* The machine restarts: commands are gone, and at login launchd loads     *)
(* what it finds.                                                          *)
Restart ==
    /\ loaded' \in {m \in [Labels -> Settings \cup {Unloaded}] :
          \A l \in Labels :
             LET ofLabel == {f \in Paths : plist[f] \in Plists /\ plist[f].label = l}
             IN  IF ofLabel = {} THEN m[l] = Unloaded
                 ELSE \E f \in ofLabel : m[l] = plist[f].settings}
    /\ step' = [p \in Operators |-> IF step[p] \in {"idle", "done"} THEN step[p]
                                    ELSE "failed"]
    /\ calm' = {} /\ held' = {}
    /\ UNCHANGED <<plist, command, started>>

LaunchStep(p) ==
    \/ Run(p) \/ Check(p) \/ WritePlist(p) \/ Bootout(p) \/ Bootstrap(p)
    \/ Kickstart(p) \/ RemovePlist(p)

LaunchNext ==
    \/ \E p \in Operators : LaunchStep(p) \/ Abort(p)
    \/ \E f \in Paths : PutForeign(f)
    \/ Restart

LaunchSpec == LaunchInit /\ [][LaunchNext]_launchVars

-----------------------------------------------------------------------------
(* Properties.                                                             *)

LaunchTypeOK ==
    /\ plist \in [Paths -> Plists \cup {NoPlist, Foreign}]
    /\ loaded \in [Labels -> Settings \cup {Unloaded}]
    /\ \A p \in Operators :
          /\ step[p] # "idle" => command[p] \in Commands
          /\ step[p] \in {"write", "bootstrap", "kickstart"} =>
                command[p].verb = "install"
          /\ step[p] = "remove" => command[p].verb = "uninstall"
    /\ calm \subseteq Operators /\ held \subseteq Operators

(* "install-launchd and uninstall refuse to overwrite or remove an         *)
(* existing plist unless it already looks like [one] with the requested    *)
(* label": a command replaces or removes such a plist only if somebody put *)
(* it there after the command had looked.                                  *)
ForeignPlistKept ==
    [][\A p \in Operators :
          (At(p, "write") \/ At(p, "remove")) /\ plist'[Path(p)] # plist[Path(p)] =>
              \/ plist[Path(p)] = NoPlist \/ Owned(plist[Path(p)], Label(p))
              \/ p \notin calm]_launchVars

(* What a command that was not disturbed reports is so, whatever earlier   *)
(* ones left behind (a plist without its agent, an agent without its       *)
(* plist, an agent with other settings): after install-launchd the agent   *)
(* runs with the requested settings and the plist will load them again;    *)
(* after uninstall both are gone, unless launchd has kept the agent in     *)
(* spite of the bootout, whose error nobody sees.                          *)
AgentAsReported ==
    \A p \in calm : At(p, "done") =>
        LET c == command[p] IN
        IF c.verb = "install"
        THEN /\ plist[c.path] = [label |-> c.label, settings |-> c.settings]
             /\ c.launchctl => loaded[c.label] = c.settings
        ELSE /\ plist[c.path] = NoPlist
             /\ c.launchctl /\ p \notin held => loaded[c.label] = Unloaded
=============================================================================
