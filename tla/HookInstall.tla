---------------------------- MODULE HookInstall ----------------------------
(***************************************************************************)
(* `amq-keepalive install-hook` (internal/hookinstall/hookinstall.go): the *)
(* SessionStart script and the registrations of it in Claude Code's and    *)
(* Codex's configuration files.  Several installations, the user and the   *)
(* agents write these files without a lock.  Every step may be the last    *)
(* one of an installation, which can then be run again.                    *)
(*                                                                         *)
(* A configuration is what its user cares about: `own` stands for content  *)
(* of any kind, `odd` for content where Codex should have the list of the  *)
(* first entry's hooks, and `hooks` are the registrations of the script,   *)
(* with the timeout in the command, the timeout given to the host (None    *)
(* for any that this tool does not write, and for another statusMessage)   *)
(* and the user's additions to the command, which a refreshed timeout      *)
(* keeps.  --dry-run writes nothing and is left out.  A file replaced by a *)
(* rename is never seen half-written, so that writeFileAtomic is one step. *)
(*                                                                         *)
(* Definitions marked "Mutant" are wrong variants which no specification   *)
(* uses; they confirm that the properties notice the mistake.              *)
(***************************************************************************)
EXTENDS Naturals, SequencesExt

CONSTANTS
    Installers,     \* processes that run install-hook
    Timeouts,       \* the values of --timeout
    Edits,          \* what the user adds to a file
    InitFiles,      \* the configuration files to start from
    NoFile,         \* there is no file, or an empty one
    Broken,         \* no JSON, or none with an array hooks.SessionStart
    None,
    MaxRuns,        \* bound on the installations
    MaxClock        \* bound on the time, in seconds

Agents == {"claude", "codex"}
Margin == 5         \* what the host is given beyond the script's timeout
Grace == 1          \* what the script takes at most beyond its timeout

Hook == [limit : Timeouts \cup {None},
         host : {t + Margin : t \in Timeouts} \cup {None},
         env : SUBSET Edits]

Documents == [own : SUBSET Edits, odd : SUBSET Edits, hooks : Seq(Hook)]

ASSUME HookInstallAssumption ==
    /\ Timeouts \subseteq Nat \ {0} /\ Timeouts # {}
    /\ None \notin Nat
    /\ \A x \in {NoFile, Broken, None} : x \notin Documents
    /\ InitFiles \subseteq [Agents -> Documents \cup {NoFile, Broken}]
    /\ MaxRuns \in Nat /\ MaxClock \in Nat

VARIABLES
    script,     \* is the installed script the one of this build?
    file,       \* per agent, its configuration
    backup,     \* per agent and second, the backup that carries it, or None
    stage,      \* per process: "idle", "script", "load", "backup", "replace",
                \* "ok", "failed"
    limit,      \* per process: --timeout
    asked,      \* per process: the agents of --agent
    todo,       \* ... which are still to be done
    doc,        \* per process: what it will write
    runs,       \* bound: the installations so far
    clock,      \* bound: the time
    alone,      \* history: the processes that have run with no change by others
    exposed     \* history: edits that no promise of a backup covers

hookVars == <<script, file, backup, stage, limit, asked, todo, doc, runs, clock,
              alone, exposed>>

EmptyDocument == [own |-> {}, odd |-> {}, hooks |-> <<>>]

Content(f) ==
    IF f \in {NoFile, Broken, None} THEN {}
    ELSE f.own \cup f.odd \cup UNION {h.env : h \in Range(f.hooks)}

HookInit ==
    /\ script = FALSE
    /\ file \in InitFiles
    /\ backup = [a \in Agents |-> [t \in 0 .. MaxClock |-> None]]
    /\ stage = [p \in Installers |-> "idle"]
    /\ limit = [p \in Installers |-> CHOOSE t \in Timeouts : TRUE]
    /\ asked = [p \in Installers |-> {}]
    /\ todo = asked
    /\ doc = [p \in Installers |-> NoFile]
    /\ runs = 0
    /\ clock = 0
    /\ alone = {} /\ exposed = {}

-----------------------------------------------------------------------------
(* installClaudeHook and installCodexHook on a loaded document.            *)

(* Mutants: the host keeps the timeout it was given first; or has no more  *)
(* time than the script.                                                   *)
ReconciledCommand(h, t) == [h EXCEPT !.limit = t]
ReconciledNoMargin(h, t) == [h EXCEPT !.limit = t, !.host = t]

(* reconcileHookCommand on one registration.                               *)
Reconciled(h, t) == [h EXCEPT !.limit = t, !.host = t + Margin]

(* A new registration goes to an entry of its own, but for Codex into the  *)
(* list of the first entry, and in the place of what is no list there.     *)
Installed(d, a, t) ==
    IF d.hooks # <<>>
    THEN [d EXCEPT !.hooks = [i \in DOMAIN d.hooks |-> Reconciled(d.hooks[i], t)]]
    ELSE [d EXCEPT !.hooks = <<[limit |-> t, host |-> t + Margin, env |-> {}]>>,
                   !.odd = IF a = "codex" THEN {} ELSE @]

-----------------------------------------------------------------------------
(* An installation.                                                        *)

Goto(p, s) == stage' = [stage EXCEPT ![p] = s]

(* Who else has run undisturbed until now is disturbed by a change of p.   *)
Changes(p) == alone' = alone \cap {p}

(* Claude Code's configuration comes first.                                *)
Agent(p) == IF "claude" \in todo[p] THEN "claude" ELSE "codex"

StartInstall(p) ==
    /\ stage[p] \in {"idle", "ok", "failed"} /\ runs < MaxRuns
    /\ \E t \in Timeouts, agents \in (SUBSET Agents) \ {{}} :
          /\ limit' = [limit EXCEPT ![p] = t]
          /\ asked' = [asked EXCEPT ![p] = agents]
          /\ todo' = [todo EXCEPT ![p] = agents]
    /\ runs' = runs + 1
    /\ Goto(p, "script")
    /\ alone' = alone \cup {p}
    /\ UNCHANGED <<script, file, backup, doc, clock, exposed>>

(* writeExecutableIfChanged *)
WriteScript(p) ==
    /\ stage[p] = "script"
    /\ script' = TRUE
    /\ IF script THEN UNCHANGED alone ELSE Changes(p)
    /\ Goto(p, "load")
    /\ UNCHANGED <<file, backup, limit, asked, todo, doc, runs, clock, exposed>>

(* The next agent, or the end.                                             *)
Finish(p) ==
    /\ todo' = [todo EXCEPT ![p] = @ \ {Agent(p)}]
    /\ Goto(p, IF todo'[p] = {} THEN "ok" ELSE "load")
    /\ doc' = [doc EXCEPT ![p] = NoFile]

Load(p) ==
    LET f == file[Agent(p)]
        d == IF f = NoFile THEN EmptyDocument ELSE f
    IN  /\ stage[p] = "load"
        /\ CASE f = Broken -> Goto(p, "failed") /\ UNCHANGED <<doc, todo>>
             [] f # Broken /\ Installed(d, Agent(p), limit[p]) = d -> Finish(p)
             [] OTHER ->
                   /\ doc' = [doc EXCEPT ![p] = Installed(d, Agent(p), limit[p])]
                   /\ Goto(p, "backup")
                   /\ UNCHANGED todo
        /\ UNCHANGED <<script, file, backup, limit, asked, runs, clock, alone, exposed>>

(* The backup of this second is written, over one of the same second.      *)
WriteBackup(a, f) ==
    /\ backup' = [backup EXCEPT ![a][clock] = f]
    /\ exposed' = exposed \cup Content(backup[a][clock])

(* Mutant: what was loaded is backed up.                                   *)
BackupAsLoaded(p) ==
    /\ stage[p] = "backup"
    /\ IF file[Agent(p)] = NoFile
       THEN UNCHANGED <<backup, exposed>>
       ELSE WriteBackup(Agent(p), [doc[p] EXCEPT !.odd = {}])
    /\ Goto(p, "replace")
    /\ UNCHANGED <<script, file, limit, asked, todo, doc, runs, clock, alone>>

(* backupIfExists reads the file once more.                                *)
Backup(p) ==
    /\ stage[p] = "backup"
    /\ IF file[Agent(p)] = NoFile
       THEN UNCHANGED <<backup, exposed>>
       ELSE WriteBackup(Agent(p), file[Agent(p)])
    /\ Goto(p, "replace")
    /\ UNCHANGED <<script, file, limit, asked, todo, doc, runs, clock, alone>>

(* The backup is left torn.                                                *)
BackupFails(p) ==
    /\ stage[p] = "backup" /\ file[Agent(p)] # NoFile
    /\ WriteBackup(Agent(p), None)
    /\ Goto(p, "failed")
    /\ UNCHANGED <<script, file, limit, asked, todo, doc, runs, clock, alone>>

(* writeFileAtomic; an error after the rename is the last.                 *)
Replace(p) ==
    /\ stage[p] = "replace"
    /\ file' = [file EXCEPT ![Agent(p)] = doc[p]]
    /\ Changes(p)
    /\ \/ Finish(p)
       \/ Goto(p, "failed") /\ UNCHANGED <<todo, doc>>
    /\ UNCHANGED <<script, backup, limit, asked, runs, clock, exposed>>

(* A step fails without effect, or the process dies.                       *)
Stop(p) ==
    /\ stage[p] \notin {"idle", "ok", "failed"}
    /\ Goto(p, "failed")
    /\ UNCHANGED <<script, file, backup, limit, asked, todo, doc, runs, clock, alone,
                   exposed>>

-----------------------------------------------------------------------------
(* External.  The user, or the agent itself, saves an edit: new content, a *)
(* registration changed by hand, or a repaired file.  It is exposed if an  *)
(* installation has made its backup and has not yet replaced the file.     *)
Edited(f, e) ==
    IF f \in {NoFile, Broken}
    THEN {[EmptyDocument EXCEPT !.own = {e}]}
    ELSE {[f EXCEPT !.own = @ \cup {e}]} \cup
         {[f EXCEPT !.hooks = [i \in DOMAIN f.hooks |->
             [limit |-> None, host |-> None, env |-> f.hooks[i].env \cup {e}]]] :
                x \in {f.hooks} \ {<<>>}}

Saved(a) == Content(file[a]) \cup UNION {Content(backup[a][t]) : t \in 0 .. MaxClock}

SaveEdit(a, e) ==
    /\ \A b \in Agents : e \notin Saved(b) \cup exposed
    /\ \E f \in Edited(file[a], e) : file' = [file EXCEPT ![a] = f]
    /\ exposed' = IF \E p \in Installers : stage[p] = "replace" /\ Agent(p) = a
                  THEN exposed \cup {e} ELSE exposed
    /\ alone' = {}
    /\ UNCHANGED <<script, backup, stage, limit, asked, todo, doc, runs, clock>>

Second ==
    /\ clock < MaxClock
    /\ clock' = clock + 1
    /\ UNCHANGED <<script, file, backup, stage, limit, asked, todo, doc, runs, alone,
                   exposed>>

InstallStep(p) ==
    StartInstall(p) \/ WriteScript(p) \/ Load(p) \/ Backup(p) \/ Replace(p)

HookNext ==
    \/ \E p \in Installers : InstallStep(p) \/ BackupFails(p) \/ Stop(p)
    \/ \E a \in Agents, e \in Edits : SaveEdit(a, e)
    \/ Second

HookSpec == HookInit /\ [][HookNext]_hookVars

-----------------------------------------------------------------------------
(* Properties.                                                             *)

HookTypeOK ==
    /\ script \in BOOLEAN
    /\ file \in [Agents -> Documents \cup {NoFile, Broken}]
    /\ backup \in [Agents -> [0 .. MaxClock -> Documents \cup {Broken, None}]]
    /\ limit \in [Installers -> Timeouts]
    /\ \A p \in Installers :
          /\ stage[p] \in {"load", "backup", "replace"} => todo[p] # {}
          /\ todo[p] \subseteq asked[p]
    /\ alone \subseteq Installers /\ exposed \subseteq Edits

(* Nothing that was ever saved in a configuration is lost: it is in the    *)
(* file or in a backup ("backs up existing config files before changing    *)
(* them"), however installations overlap, fail and are repeated.  The only *)
(* exceptions are what is saved between a backup and the replacement that  *)
(* follows it, and what only a backup of the same second held.             *)
EditsRecoverable ==
    [][\A a \in Agents : Saved(a) \subseteq Saved(a)' \cup exposed']_hookVars

(* An installation that was not disturbed and reports success has made all *)
(* that was asked for effective, whatever earlier ones left behind: the    *)
(* script is there, each registration of it has the requested timeout, and *)
(* a host that waits for longer than the script may take (EndsInTime of    *)
(* module SessionStartHook); and a second run has nothing to change.       *)
ReportedInstalled ==
    \A p \in alone : stage[p] = "ok" =>
        /\ script
        /\ \A a \in asked[p] :
              /\ file[a].hooks # <<>>
              /\ \A h \in Range(file[a].hooks) :
                    h.limit = limit[p] /\ h.host # None /\ h.host > h.limit + Grace
              /\ Installed(file[a], a, limit[p]) = file[a]

=============================================================================
