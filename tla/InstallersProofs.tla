-------------------------- MODULE InstallersProofs --------------------------
(***************************************************************************)
(* Proofs about Installers, for any number of processes, agents' files and *)
(* plists, any content and any timeouts.                                   *)
(*                                                                         *)
(* HookInstall: the promise about edits needs to know of every process     *)
(* that is about to replace a file that what is there has its backup, also *)
(* when others have replaced it in between; what an installation reports   *)
(* needs that installing is effective on whatever it finds, and that what  *)
(* is effective is what installing leaves alone.                           *)
(*                                                                         *)
(* LaunchAgent: AgentAsReported and ForeignPlistKept follow from what a    *)
(* command that nobody disturbed may rely on between its steps.            *)
(***************************************************************************)
EXTENDS Installers, TLAPS

-----------------------------------------------------------------------------
(* HookInstall: what a process has prepared and what it has done.          *)

(* Every registration has the timeout t, and a host that waits for longer. *)
Effective(f, t) ==
    /\ f \in Documents
    /\ f.hooks # <<>>
    /\ \A h \in Range(f.hooks) : h.limit = t /\ h.host = t + Margin

(* What is in a backup, or excepted from the promise of one.               *)
Backed(a) == UNION {Content(backup[a][t]) : t \in 0 .. MaxClock}
Kept(a) == Backed(a) \cup exposed

HookTypes ==
    /\ script \in BOOLEAN
    /\ file \in [Agents -> Documents \cup {NoFile, Broken}]
    /\ backup \in [Agents -> [0 .. MaxClock -> Documents \cup {Broken, None}]]
    /\ stage \in [Installers -> {"idle", "script", "load", "backup", "replace", "ok",
                                 "failed"}]
    /\ limit \in [Installers -> Timeouts]
    /\ asked \in [Installers -> SUBSET Agents]
    /\ todo \in [Installers -> SUBSET Agents]
    /\ doc \in [Installers -> Documents \cup {NoFile}]
    /\ clock \in 0 .. MaxClock
    /\ alone \subseteq Installers /\ exposed \subseteq Edits

(* What an installation has to do, and what it is going to write.          *)
ProgressInv(p) ==
    /\ todo[p] \subseteq asked[p]
    /\ stage[p] = "script" => todo[p] = asked[p] /\ asked[p] # {}
    /\ stage[p] \in {"load", "backup", "replace"} => todo[p] # {}
    /\ stage[p] = "ok" => todo[p] = {}
    /\ stage[p] \in {"load", "backup", "replace", "ok"} => script
    /\ stage[p] \in {"backup", "replace"} => Effective(doc[p], limit[p])

(* What an undisturbed one has done is still in effect.                    *)
DoneInv(p) ==
    p \in alone /\ stage[p] # "failed" =>
        \A a \in asked[p] \ todo[p] : Effective(file[a], limit[p])

(* What is about to be written was saved; what is about to be replaced has *)
(* its backup.                                                             *)
RecoverInv(p) ==
    /\ stage[p] = "backup" =>
           Content(doc[p]) \subseteq Content(file[Agent(p)]) \cup Kept(Agent(p))
    /\ stage[p] = "replace" =>
           Content(file[Agent(p)]) \cup Content(doc[p]) \subseteq Kept(Agent(p))

HookInv ==
    HookTypes /\ \A p \in Installers : ProgressInv(p) /\ DoneInv(p) /\ RecoverInv(p)

-----------------------------------------------------------------------------
(* Reconciling one registration changes no more than its two timeouts, and *)
(* none that is as requested.                                              *)
LEMMA HookFields ==
    ASSUME NEW h \in Hook, NEW t \in Timeouts
    PROVE  /\ Reconciled(h, t) \in Hook
           /\ Reconciled(h, t).limit = t /\ Reconciled(h, t).host = t + Margin
           /\ Reconciled(h, t).env = h.env
           /\ h.limit = t /\ h.host = t + Margin => Reconciled(h, t) = h
BY DEF Reconciled, Hook

(* All registrations of a document.                                        *)
ReconciledList(s, t) == [i \in DOMAIN s |-> Reconciled(s[i], t)]

(* So does reconciling all of them.                                        *)
LEMMA HookLists ==
    ASSUME NEW s \in Seq(Hook), NEW t \in Timeouts,
           NEW r, r = ReconciledList(s, t)
    PROVE  /\ r \in Seq(Hook)
           /\ s # <<>> => r # <<>>
           /\ \A h \in Range(r) : h.limit = t /\ h.host = t + Margin
           /\ \A h \in Range(r) : \E g \in Range(s) : g.env = h.env
           /\ (\A h \in Range(s) : h.limit = t /\ h.host = t + Margin) => r = s
<1>1. /\ DOMAIN s = 1 .. Len(s) /\ Len(s) \in Nat
      /\ \A i \in DOMAIN s : s[i] \in Hook
  OBVIOUS
<1>2. /\ DOMAIN r = DOMAIN s
      /\ \A i \in DOMAIN s : r[i] = Reconciled(s[i], t)
  BY DEF ReconciledList
<1>3. r \in Seq(Hook) /\ (s # <<>> => r # <<>>)
  <2>1. \A i \in DOMAIN s : Reconciled(s[i], t) \in Hook
    BY <1>1, HookFields
  <2> QED BY <1>1, <2>1 DEF ReconciledList
<1>4. \A h \in Range(r) : h.limit = t /\ h.host = t + Margin
  BY <1>1, <1>2, HookFields DEF Range
<1>5. \A h \in Range(r) : \E g \in Range(s) : g.env = h.env
  BY <1>1, <1>2, HookFields DEF Range
<1>6. ASSUME \A h \in Range(s) : h.limit = t /\ h.host = t + Margin PROVE r = s
  <2>1. \A i \in DOMAIN s : r[i] = s[i]
    BY <1>1, <1>2, <1>6, HookFields DEF Range
  <2> QED BY <1>1, <2>1 DEF ReconciledList
<1> QED BY <1>3, <1>4, <1>5, <1>6

(* The parts of a configuration, and what its content consists of.         *)
LEMMA DocumentFields ==
    ASSUME NEW d \in Documents
    PROVE  /\ d.own \in SUBSET Edits /\ d.odd \in SUBSET Edits /\ d.hooks \in Seq(Hook)
           /\ d # NoFile /\ d # Broken /\ d # None
           /\ \A x : x \in Content(d) <=>
                  x \in d.own \/ x \in d.odd \/ \E h \in Range(d.hooks) : x \in h.env
BY HookInstallAssumption DEF Documents, Content

(* What is no configuration has nothing that its user would miss.          *)
LEMMA ContentOfNone ==
    Content(NoFile) = {} /\ Content(Broken) = {} /\ Content(None) = {}
BY DEF Content

(* What takes the place of a missing file.                                 *)
LEMMA EmptyDocumentIsOne ==
    EmptyDocument \in Documents /\ Content(EmptyDocument) = {}
<1>1. EmptyDocument \in Documents
  BY DEF EmptyDocument, Documents
<1>2. EmptyDocument.own = {} /\ EmptyDocument.odd = {} /\ Range(EmptyDocument.hooks) = {}
  BY DEF EmptyDocument, Range
<1> QED BY <1>1, <1>2, DocumentFields

(* Whatever a configuration holds, installing in it makes a configuration  *)
(* in which every registration is as requested, adds nothing that its user *)
(* would miss, and changes nothing where nothing is to be done.            *)
LEMMA InstallingIsEffective ==
    ASSUME NEW d \in Documents, NEW t \in Timeouts, NEW a \in Agents
    PROVE  /\ Effective(Installed(d, a, t), t)
           /\ Content(Installed(d, a, t)) \subseteq Content(d)
           /\ Effective(d, t) => Installed(d, a, t) = d
<1> DEFINE r == ReconciledList(d.hooks, t)
           n == Installed(d, a, t)
<1>1. CASE d.hooks # <<>>
  <2>1. /\ r \in Seq(Hook) /\ r # <<>>
        /\ \A h \in Range(r) : h.limit = t /\ h.host = t + Margin
        /\ \A h \in Range(r) : \E g \in Range(d.hooks) : g.env = h.env
        /\ (\A h \in Range(d.hooks) : h.limit = t /\ h.host = t + Margin) => r = d.hooks
    BY <1>1, HookLists, DocumentFields
  <2>2. n = [d EXCEPT !.hooks = r]
    BY <1>1 DEF Installed, ReconciledList
  <2> HIDE DEF r, n
  <2>3. /\ n \in Documents /\ n.own = d.own /\ n.odd = d.odd /\ n.hooks = r
        /\ r = d.hooks => n = d
    BY <2>1, <2>2 DEF Documents
  <2> QED BY <2>1, <2>3, DocumentFields DEF Effective, n
<1>2. CASE d.hooks = <<>>
  <2> DEFINE h == [limit |-> t, host |-> t + Margin, env |-> {}]
  <2>1. h \in Hook /\ h.limit = t /\ h.host = t + Margin /\ h.env = {}
    BY DEF Hook
  <2>2. n = [d EXCEPT !.hooks = <<h>>, !.odd = IF a = "codex" THEN {} ELSE @]
    BY <1>2 DEF Installed
  <2> HIDE DEF h, n
  <2>3. <<h>> \in Seq(Hook) /\ Range(<<h>>) = {h} /\ <<h>> # <<>>
    BY <2>1 DEF Range
  <2>4. n \in Documents /\ n.own = d.own /\ n.odd \subseteq d.odd /\ n.hooks = <<h>>
    BY <2>1, <2>2, <2>3 DEF Documents
  <2>5. Effective(n, t)
    BY <2>1, <2>3, <2>4 DEF Effective
  <2>6. Content(n) \subseteq Content(d)
    <3>1. \A g \in Range(n.hooks) : g.env = {}
      BY <2>1, <2>3, <2>4
    <3> QED BY <2>4, <3>1, DocumentFields
  <2> QED BY <1>2, <2>5, <2>6 DEF Effective, n
<1> QED BY <1>1, <1>2

-----------------------------------------------------------------------------
(* All content comes from edits.                                           *)
LEMMA ContentIsEdits ==
    ASSUME NEW f \in Documents \cup {NoFile, Broken, None}
    PROVE  Content(f) \subseteq Edits
<1>1. ASSUME f \in Documents PROVE \A h \in Range(f.hooks) : h.env \subseteq Edits
  <2>1. f.hooks \in Seq(Hook)
    BY <1>1, DocumentFields
  <2>2. \A i \in DOMAIN f.hooks : f.hooks[i] \in Hook
    BY <2>1
  <2> QED BY <2>2 DEF Range, Hook
<1> QED BY <1>1, DocumentFields, ContentOfNone

(* A user's edit adds to what there is.                                    *)
LEMMA EditingKeeps ==
    ASSUME NEW f \in Documents \cup {NoFile, Broken}, NEW e \in Edits, NEW g \in Edited(f, e)
    PROVE  /\ g \in Documents
           /\ Content(f) \subseteq Content(g)
           /\ Content(g) \subseteq Content(f) \cup {e}
<1>1. CASE f \in {NoFile, Broken}
  <2>1. g = [EmptyDocument EXCEPT !.own = {e}]
    BY <1>1 DEF Edited
  <2>2. g \in Documents /\ g.own = {e} /\ g.odd = {} /\ g.hooks = <<>>
    <3>1. EmptyDocument \in Documents
      BY EmptyDocumentIsOne
    <3>2. /\ g \in Documents /\ g.own = {e}
          /\ g.odd = EmptyDocument.odd /\ g.hooks = EmptyDocument.hooks
      BY <2>1, <3>1 DEF Documents
    <3> QED BY <3>2 DEF EmptyDocument
  <2>3. Range(g.hooks) = {}
    BY <2>2 DEF Range
  <2> QED BY <1>1, <2>2, <2>3, DocumentFields, ContentOfNone
<1>2. CASE f \in Documents /\ g = [f EXCEPT !.own = @ \cup {e}]
  <2>1. g \in Documents /\ g.own = f.own \cup {e} /\ g.odd = f.odd /\ g.hooks = f.hooks
    BY <1>2 DEF Documents
  <2> QED BY <1>2, <2>1, DocumentFields
<1>3. CASE /\ f \in Documents
           /\ g = [f EXCEPT !.hooks = [i \in DOMAIN f.hooks |->
                      [limit |-> None, host |-> None, env |-> f.hooks[i].env \cup {e}]]]
           /\ f.hooks # <<>>
  <2> DEFINE r == [i \in DOMAIN f.hooks |->
                      [limit |-> None, host |-> None, env |-> f.hooks[i].env \cup {e}]]
  <2>1. /\ f.hooks \in Seq(Hook) /\ DOMAIN f.hooks = 1 .. Len(f.hooks) /\ Len(f.hooks) \in Nat
        /\ \A i \in DOMAIN f.hooks : f.hooks[i] \in Hook
    <3>1. f.hooks \in Seq(Hook)
      BY <1>3, DocumentFields
    <3> QED BY <3>1
  <2>2. \A i \in DOMAIN f.hooks :
           [limit |-> None, host |-> None, env |-> f.hooks[i].env \cup {e}] \in Hook
    BY <2>1 DEF Hook
  <2>3. r \in Seq(Hook) /\ DOMAIN r = DOMAIN f.hooks
    BY <2>1, <2>2
  <2>4. \A i \in DOMAIN f.hooks : r[i].env = f.hooks[i].env \cup {e}
    OBVIOUS
  <2> HIDE DEF r
  <2>5. g \in Documents /\ g.own = f.own /\ g.odd = f.odd /\ g.hooks = r
    BY <1>3, <2>3 DEF Documents, r
  <2>6. /\ \A h \in Range(r) : \E k \in Range(f.hooks) : h.env = k.env \cup {e}
        /\ \A k \in Range(f.hooks) : \E h \in Range(r) : h.env = k.env \cup {e}
    BY <2>3, <2>4 DEF Range
  <2>7. Content(f) \subseteq Content(g)
    <3> SUFFICES ASSUME NEW x \in Content(f) PROVE x \in g.own \/ x \in g.odd \/
                        \E h \in Range(g.hooks) : x \in h.env
      BY <2>5, DocumentFields
    <3>1. x \in f.own \/ x \in f.odd \/ \E k \in Range(f.hooks) : x \in k.env
      BY <1>3, DocumentFields
    <3> QED BY <3>1, <2>5, <2>6
  <2>8. Content(g) \subseteq Content(f) \cup {e}
    <3> SUFFICES ASSUME NEW x \in Content(g), x # e PROVE x \in f.own \/ x \in f.odd \/
                        \E h \in Range(f.hooks) : x \in h.env
      BY <1>3, DocumentFields
    <3>1. x \in g.own \/ x \in g.odd \/ \E h \in Range(g.hooks) : x \in h.env
      BY <2>5, DocumentFields
    <3> QED BY <3>1, <2>5, <2>6
  <2> QED BY <2>5, <2>7, <2>8
<1> QED BY <1>1, <1>2, <1>3 DEF Edited

(* What is kept does not depend on anything but backups and exceptions.    *)
LEMMA KeptUnchanged ==
    ASSUME UNCHANGED <<backup, exposed>>
    PROVE  \A a \in Agents : Kept(a)' = Kept(a)
BY DEF Kept, Backed

(* Writing a backup, be it over another one, takes nothing from what is    *)
(* kept.                                                                   *)
LEMMA WritingKeeps ==
    ASSUME HookTypes, NEW b \in Agents, NEW f \in Documents \cup {Broken, None},
           WriteBackup(b, f)
    PROVE  /\ backup' \in [Agents -> [0 .. MaxClock -> Documents \cup {Broken, None}]]
           /\ exposed' \subseteq Edits
           /\ \A a \in Agents : Kept(a) \subseteq Kept(a)'
           /\ Content(f) \subseteq Kept(b)'
<1>1. /\ backup' \in [Agents -> [0 .. MaxClock -> Documents \cup {Broken, None}]]
      /\ backup'[b][clock] = f
      /\ \A a \in Agents, t \in 0 .. MaxClock :
            a # b \/ t # clock => backup'[a][t] = backup[a][t]
  BY DEF HookTypes, WriteBackup
<1>2. exposed' = exposed \cup Content(backup[b][clock])
  BY DEF WriteBackup
<1>3. Content(backup[b][clock]) \subseteq Edits
  <2>1. backup[b] \in [0 .. MaxClock -> Documents \cup {Broken, None}] /\ clock \in 0 .. MaxClock
    BY DEF HookTypes
  <2>2. backup[b][clock] \in Documents \cup {NoFile, Broken, None}
    BY <2>1
  <2> QED BY <2>2, ContentIsEdits
<1>4. ASSUME NEW a \in Agents, NEW x \in Kept(a) PROVE x \in Kept(a)'
  <2>1. CASE x \in exposed
    BY <1>2, <2>1 DEF Kept
  <2>2. CASE x \notin exposed
    <3>1. PICK t \in 0 .. MaxClock : x \in Content(backup[a][t])
      BY <1>4, <2>2 DEF Kept, Backed
    <3>2. CASE a # b \/ t # clock
      BY <1>1, <3>1, <3>2 DEF Kept, Backed
    <3>3. CASE a = b /\ t = clock
      BY <1>2, <3>1, <3>3 DEF Kept
    <3> QED BY <3>2, <3>3
  <2> QED BY <2>1, <2>2
<1>5. Content(f) \subseteq Kept(b)'
  <2>1. clock \in 0 .. MaxClock
    BY DEF HookTypes
  <2> QED BY <1>1, <2>1 DEF Kept, Backed
<1> QED BY <1>1, <1>2, <1>3, <1>4, <1>5 DEF HookTypes

-----------------------------------------------------------------------------
(* What a step may never do, whoever takes it.                             *)
NothingLost ==
    \A a \in Agents :
        /\ Kept(a) \subseteq Kept(a)'
        /\ Content(file[a]) \subseteq Content(file'[a]) \cup Kept(a)'

(* Before the first installation nothing is promised of any.               *)
LEMMA HookInvInit == HookInit => HookInv
<1> SUFFICES ASSUME HookInit PROVE HookInv
    OBVIOUS
<1>1. 0 \in 0 .. MaxClock
  BY HookInstallAssumption
<1>2. HookTypes
  <2>1. (CHOOSE t \in Timeouts : TRUE) \in Timeouts
    BY HookInstallAssumption
  <2> QED BY <1>1, <2>1, HookInstallAssumption DEF HookInit, HookTypes
<1> QED BY <1>2 DEF HookInit, HookInv, ProgressInv, DoneInv, RecoverInv

(* The agent that a process works for.                                     *)
LEMMA AgentIsToDo ==
    ASSUME HookTypes, NEW p \in Installers
    PROVE  /\ Agent(p) \in Agents
           /\ todo[p] # {} => Agent(p) \in todo[p]
BY DEF HookTypes, Agent, Agents

(* Where nothing was lost, the others still have what they rely on.        *)
LEMMA OthersRecover ==
    ASSUME HookInv, NothingLost, NEW q \in Installers,
           stage'[q] = stage[q], todo'[q] = todo[q], doc'[q] = doc[q],
           \A a \in Agents : stage[q] = "replace" /\ a = Agent(q) =>
               Content(file'[a]) \subseteq Content(file[a]) \cup Kept(a)'
    PROVE  RecoverInv(q)'
<1>1. Agent(q)' = Agent(q) /\ Agent(q) \in Agents
  BY AgentIsToDo DEF Agent, HookInv
<1>2. RecoverInv(q)
  BY DEF HookInv
<1>3. /\ Kept(Agent(q)) \subseteq Kept(Agent(q))'
      /\ Content(file[Agent(q)]) \subseteq Content(file'[Agent(q)]) \cup Kept(Agent(q))'
  BY <1>1 DEF NothingLost
<1> DEFINE a == Agent(q)
<1>4. Kept(Agent(q))' = Kept(a)'
  BY <1>1 DEF Kept, Backed
<1>5. CASE stage[q] = "backup"
  BY <1>1, <1>2, <1>3, <1>4, <1>5 DEF RecoverInv
<1>6. CASE stage[q] = "replace"
  BY <1>1, <1>2, <1>3, <1>4, <1>6 DEF RecoverInv
<1> QED BY <1>5, <1>6 DEF RecoverInv

(* The steps that leave configurations and backups alone lose nothing.     *)
LEMMA NothingTouched ==
    ASSUME UNCHANGED <<file, backup, exposed>>
    PROVE  NothingLost
BY KeptUnchanged DEF NothingLost

(* A new installation gives up what an earlier one of the process has      *)
(* done.                                                                   *)
LEMMA StartInstallKeeps ==
    ASSUME HookInv, NEW p \in Installers, StartInstall(p)
    PROVE  HookInv' /\ NothingLost
<1>1. NothingLost
  BY NothingTouched DEF StartInstall
<1>2. PICK t \in Timeouts, agents \in (SUBSET Agents) \ {{}} :
          /\ limit' = [limit EXCEPT ![p] = t]
          /\ asked' = [asked EXCEPT ![p] = agents]
          /\ todo' = [todo EXCEPT ![p] = agents]
  BY DEF StartInstall
<1>3. /\ stage' = [stage EXCEPT ![p] = "script"] /\ alone' = alone \cup {p}
      /\ UNCHANGED <<script, file, backup, doc, clock, exposed>>
  BY DEF StartInstall, Goto
<1>4. HookTypes'
  BY <1>2, <1>3 DEF HookInv, HookTypes
<1>5. ASSUME NEW q \in Installers PROVE ProgressInv(q)' /\ DoneInv(q)' /\ RecoverInv(q)'
  <2>1. CASE q = p
    BY <1>2, <1>3, <2>1 DEF HookInv, HookTypes, ProgressInv, DoneInv, RecoverInv
  <2>2. CASE q # p
    <3>1. /\ stage'[q] = stage[q] /\ todo'[q] = todo[q] /\ doc'[q] = doc[q]
          /\ limit'[q] = limit[q] /\ asked'[q] = asked[q]
      BY <1>2, <1>3, <2>2 DEF HookInv, HookTypes
    <3>2. RecoverInv(q)'
      BY <1>1, <1>3, <3>1, OthersRecover
    <3> QED BY <1>3, <2>2, <3>1, <3>2 DEF HookInv, ProgressInv, DoneInv
  <2> QED BY <2>1, <2>2
<1> QED BY <1>1, <1>4, <1>5 DEF HookInv

(* The script disturbs the others only if it changes.                      *)
LEMMA WriteScriptKeeps ==
    ASSUME HookInv, NEW p \in Installers, WriteScript(p)
    PROVE  HookInv' /\ NothingLost
<1>1. NothingLost
  BY NothingTouched DEF WriteScript
<1>2. /\ stage[p] = "script" /\ stage' = [stage EXCEPT ![p] = "load"]
      /\ script' = TRUE /\ alone' \subseteq alone
      /\ UNCHANGED <<file, backup, limit, asked, todo, doc, clock, exposed>>
  BY DEF WriteScript, Goto, Changes
<1>3. HookTypes'
  BY <1>2 DEF HookInv, HookTypes
<1>4. ASSUME NEW q \in Installers PROVE ProgressInv(q)' /\ DoneInv(q)' /\ RecoverInv(q)'
  <2>1. CASE q = p
    <3>1. asked[p] # {}
      BY <1>2 DEF HookInv, ProgressInv
    <3> QED BY <1>2, <2>1, <3>1 DEF HookInv, HookTypes, ProgressInv, DoneInv, RecoverInv
  <2>2. CASE q # p
    <3>1. stage'[q] = stage[q]
      BY <1>2, <2>2 DEF HookInv, HookTypes
    <3>2. RecoverInv(q)'
      BY <1>1, <1>2, <3>1, OthersRecover
    <3> QED BY <1>2, <2>2, <3>1, <3>2 DEF HookInv, ProgressInv, DoneInv
  <2> QED BY <2>1, <2>2
<1> QED BY <1>1, <1>3, <1>4 DEF HookInv

(* The agent whose configuration is as it should be is done.               *)
LEMMA FinishedKeeps ==
    ASSUME HookInv, NothingLost, NEW p \in Installers, Finish(p),
           stage[p] \in {"load", "replace"},
           Effective(file'[Agent(p)], limit[p]),
           \A a \in Agents : a # Agent(p) => file'[a] = file[a],
           p \in alone' => p \in alone,
           UNCHANGED <<script, limit, asked>>
    PROVE  /\ stage' \in [Installers -> {"idle", "script", "load", "backup", "replace", "ok",
                                         "failed"}]
           /\ todo' \in [Installers -> SUBSET Agents]
           /\ doc' \in [Installers -> Documents \cup {NoFile}]
           /\ ProgressInv(p)' /\ DoneInv(p)' /\ RecoverInv(p)'
           /\ \A q \in Installers : q # p =>
                  stage'[q] = stage[q] /\ todo'[q] = todo[q] /\ doc'[q] = doc[q]
<1>1. /\ todo' = [todo EXCEPT ![p] = @ \ {Agent(p)}]
      /\ stage' = [stage EXCEPT ![p] = IF todo'[p] = {} THEN "ok" ELSE "load"]
      /\ doc' = [doc EXCEPT ![p] = NoFile]
  BY DEF Finish, Goto
<1>2. /\ todo'[p] = todo[p] \ {Agent(p)}
      /\ stage'[p] = IF todo'[p] = {} THEN "ok" ELSE "load"
  BY <1>1 DEF HookInv, HookTypes
<1>3. ProgressInv(p)'
  BY <1>2 DEF HookInv, ProgressInv
<1>4. DoneInv(p)'
  <2> SUFFICES ASSUME p \in alone', NEW a \in asked[p] \ todo'[p]
               PROVE  Effective(file'[a], limit[p])
    BY DEF DoneInv, Effective
  <2>1. a \in Agents
    BY DEF HookInv, HookTypes
  <2> QED BY <1>2, <2>1 DEF HookInv, DoneInv
<1>5. RecoverInv(p)'
  BY <1>2 DEF RecoverInv
<1> QED BY <1>1, <1>3, <1>4, <1>5 DEF HookInv, HookTypes

(* What is loaded is either done, or replaced by what is effective.        *)
LEMMA LoadKeeps ==
    ASSUME HookInv, NEW p \in Installers, Load(p)
    PROVE  HookInv' /\ NothingLost
<1> DEFINE f == file[Agent(p)]
           d == IF f = NoFile THEN EmptyDocument ELSE f
           n == Installed(d, Agent(p), limit[p])
<1>1. NothingLost
  BY NothingTouched DEF Load
<1>2. /\ stage[p] = "load"
      /\ UNCHANGED <<script, file, backup, limit, asked, clock, alone, exposed>>
  BY DEF Load
<1>3. /\ Agent(p) \in Agents /\ f \in Documents \cup {NoFile, Broken}
      /\ limit[p] \in Timeouts
  BY AgentIsToDo DEF HookInv, HookTypes
<1>4. f # Broken => d \in Documents /\ Content(d) = Content(f)
  BY <1>3, EmptyDocumentIsOne, ContentOfNone
<1>5. f # Broken => Effective(n, limit[p]) /\ Content(n) \subseteq Content(f)
  BY <1>3, <1>4, InstallingIsEffective
<1>6. f = NoFile /\ f # Broken => n # d
  <2> SUFFICES ASSUME f = NoFile, f # Broken, n = d PROVE FALSE
    OBVIOUS
  <2>1. n.hooks # <<>>
    BY <1>5 DEF Effective
  <2> QED BY <2>1 DEF EmptyDocument
<1>7. ASSUME NEW q \in Installers, q # p,
             stage'[q] = stage[q] /\ todo'[q] = todo[q] /\ doc'[q] = doc[q]
      PROVE  ProgressInv(q)' /\ DoneInv(q)' /\ RecoverInv(q)'
  <2>1. RecoverInv(q)'
    BY <1>1, <1>2, <1>7, OthersRecover
  <2> QED BY <1>2, <1>7, <2>1 DEF HookInv, ProgressInv, DoneInv
<1> HIDE DEF d, n
<1>8. CASE f = Broken
  <2>1. stage' = [stage EXCEPT ![p] = "failed"] /\ UNCHANGED <<doc, todo>>
    BY <1>8 DEF Load, Goto
  <2>2. HookTypes'
    BY <1>2, <2>1 DEF HookInv, HookTypes
  <2>3. ProgressInv(p)' /\ DoneInv(p)' /\ RecoverInv(p)'
    BY <1>2, <2>1 DEF HookInv, HookTypes, ProgressInv, DoneInv, RecoverInv
  <2>4. \A q \in Installers : q # p => stage'[q] = stage[q]
    BY <2>1 DEF HookInv, HookTypes
  <2> QED BY <1>1, <1>7, <2>1, <2>2, <2>3, <2>4 DEF HookInv
<1>9. CASE f # Broken /\ n = d
  <2>1. Finish(p)
    BY <1>9 DEF Load, d, n
  <2>2. d = f
    BY <1>6, <1>9 DEF d
  <2>3. Effective(file'[Agent(p)], limit[p])
    BY <1>2, <1>5, <1>9, <2>2
  <2>4. /\ stage' \in [Installers -> {"idle", "script", "load", "backup", "replace", "ok",
                                      "failed"}]
        /\ todo' \in [Installers -> SUBSET Agents]
        /\ doc' \in [Installers -> Documents \cup {NoFile}]
        /\ ProgressInv(p)' /\ DoneInv(p)' /\ RecoverInv(p)'
        /\ \A q \in Installers : q # p =>
               stage'[q] = stage[q] /\ todo'[q] = todo[q] /\ doc'[q] = doc[q]
    BY <1>1, <1>2, <2>1, <2>3, FinishedKeeps
  <2>5. HookTypes'
    BY <1>2, <2>4 DEF HookInv, HookTypes
  <2> QED BY <1>1, <1>7, <2>4, <2>5 DEF HookInv
<1>10. CASE f # Broken /\ n # d
  <2>1. /\ doc' = [doc EXCEPT ![p] = n] /\ stage' = [stage EXCEPT ![p] = "backup"]
        /\ UNCHANGED todo
    BY <1>10 DEF Load, Goto, d, n
  <2>2. n \in Documents
    BY <1>5, <1>10 DEF Effective
  <2>3. HookTypes'
    BY <1>2, <2>1, <2>2 DEF HookInv, HookTypes
  <2>4. doc'[p] = n /\ stage'[p] = "backup"
    BY <2>1 DEF HookInv, HookTypes
  <2>5. ProgressInv(p)' /\ DoneInv(p)'
    BY <1>2, <1>5, <1>10, <2>1, <2>4 DEF HookInv, ProgressInv, DoneInv
  <2>6. RecoverInv(p)'
    <3>1. Agent(p)' = Agent(p)
      BY <2>1 DEF Agent
    <3> QED BY <1>2, <1>5, <1>10, <2>4, <3>1 DEF RecoverInv
  <2>7. \A q \in Installers : q # p => stage'[q] = stage[q] /\ doc'[q] = doc[q]
    BY <2>1 DEF HookInv, HookTypes
  <2> QED BY <1>1, <1>7, <2>1, <2>3, <2>5, <2>6, <2>7 DEF HookInv
<1> QED BY <1>8, <1>9, <1>10

(* With the backup of what is there now, nothing that is written over is   *)
(* lost.                                                                   *)
LEMMA BackupKeeps ==
    ASSUME HookInv, NEW p \in Installers, Backup(p)
    PROVE  HookInv' /\ NothingLost
<1> DEFINE f == file[Agent(p)]
<1>1. /\ stage[p] = "backup" /\ stage' = [stage EXCEPT ![p] = "replace"]
      /\ UNCHANGED <<script, file, limit, asked, todo, doc, clock, alone>>
  BY DEF Backup, Goto
<1>2. /\ Agent(p) \in Agents /\ f \in Documents \cup {NoFile, Broken}
      /\ \A q \in Installers : Agent(q) \in Agents
  BY AgentIsToDo DEF HookInv, HookTypes
<1>3. /\ backup' \in [Agents -> [0 .. MaxClock -> Documents \cup {Broken, None}]]
      /\ exposed' \subseteq Edits
      /\ \A a \in Agents : Kept(a) \subseteq Kept(a)'
      /\ \A a \in Agents : a = Agent(p) => Content(f) \subseteq Kept(a)'
  <2>1. CASE f = NoFile
    <3>1. UNCHANGED <<backup, exposed>>
      BY <2>1 DEF Backup
    <3> QED BY <2>1, <3>1, KeptUnchanged, ContentOfNone DEF HookInv, HookTypes
  <2>2. CASE f # NoFile
    <3>1. WriteBackup(Agent(p), f) /\ f \in Documents \cup {Broken, None}
      BY <1>2, <2>2 DEF Backup
    <3>2. PICK b \in Agents : b = Agent(p)
      BY <1>2
    <3>3. WriteBackup(b, f)
      BY <3>1, <3>2
    <3> HIDE DEF f
    <3> QED BY <3>1, <3>2, <3>3, WritingKeeps DEF HookInv
  <2> QED BY <2>1, <2>2
<1>4. NothingLost
  BY <1>1, <1>3 DEF NothingLost
<1>5. HookTypes'
  BY <1>1, <1>3 DEF HookInv, HookTypes
<1>6. ASSUME NEW q \in Installers PROVE ProgressInv(q)' /\ DoneInv(q)' /\ RecoverInv(q)'
  <2>1. CASE q = p
    <3>1. PICK a \in Agents : a = Agent(p)
      BY <1>2
    <3>2. stage'[p] = "replace" /\ Agent(p)' = a
      BY <1>1, <3>1 DEF HookInv, HookTypes, Agent
    <3>3. /\ Content(doc[p]) \subseteq Content(f) \cup Kept(a)
          /\ Kept(a) \subseteq Kept(a)'
          /\ Content(f) \subseteq Kept(a)'
      BY <1>1, <1>3, <3>1 DEF HookInv, RecoverInv
    <3>4. Kept(Agent(p))' = Kept(a)'
      BY <3>2 DEF Kept, Backed
    <3>5. RecoverInv(p)'
      BY <1>1, <3>1, <3>2, <3>3, <3>4 DEF RecoverInv
    <3>6. ProgressInv(p)' /\ DoneInv(p)'
      BY <1>1, <3>2 DEF HookInv, ProgressInv, DoneInv
    <3> QED BY <2>1, <3>5, <3>6
  <2>2. CASE q # p
    <3>1. stage'[q] = stage[q]
      BY <1>1, <2>2 DEF HookInv, HookTypes
    <3>2. RecoverInv(q)'
      BY <1>1, <1>4, <3>1, OthersRecover
    <3> QED BY <1>1, <3>1, <3>2 DEF HookInv, ProgressInv, DoneInv
  <2> QED BY <2>1, <2>2
<1> QED BY <1>4, <1>5, <1>6 DEF HookInv

(* A torn backup costs only what the one of the same second had kept.      *)
LEMMA BackupFailsKeeps ==
    ASSUME HookInv, NEW p \in Installers, BackupFails(p)
    PROVE  HookInv' /\ NothingLost
<1>1. /\ stage[p] = "backup" /\ stage' = [stage EXCEPT ![p] = "failed"]
      /\ UNCHANGED <<script, file, limit, asked, todo, doc, clock, alone>>
  BY DEF BackupFails, Goto
<1>2. PICK b \in Agents : WriteBackup(b, None)
  BY AgentIsToDo DEF HookInv, BackupFails
<1>3. /\ backup' \in [Agents -> [0 .. MaxClock -> Documents \cup {Broken, None}]]
      /\ exposed' \subseteq Edits
      /\ \A a \in Agents : Kept(a) \subseteq Kept(a)'
  BY <1>2, WritingKeeps DEF HookInv
<1>4. NothingLost
  BY <1>1, <1>3 DEF NothingLost
<1>5. HookTypes'
  BY <1>1, <1>3 DEF HookInv, HookTypes
<1>6. ASSUME NEW q \in Installers PROVE ProgressInv(q)' /\ DoneInv(q)' /\ RecoverInv(q)'
  <2>1. CASE q = p
    BY <1>1, <2>1 DEF HookInv, HookTypes, ProgressInv, DoneInv, RecoverInv
  <2>2. CASE q # p
    <3>1. stage'[q] = stage[q]
      BY <1>1, <2>2 DEF HookInv, HookTypes
    <3>2. RecoverInv(q)'
      BY <1>1, <1>4, <3>1, OthersRecover
    <3> QED BY <1>1, <3>1, <3>2 DEF HookInv, ProgressInv, DoneInv
  <2> QED BY <2>1, <2>2
<1> QED BY <1>4, <1>5, <1>6 DEF HookInv

(* What is replaced has its backup, and what replaces it adds nothing that *)
(* others who are about to replace it would not have kept.                 *)
LEMMA ReplaceKeeps ==
    ASSUME HookInv, NEW p \in Installers, Replace(p)
    PROVE  HookInv' /\ NothingLost
<1>1. /\ stage[p] = "replace"
      /\ file' = [file EXCEPT ![Agent(p)] = doc[p]]
      /\ alone' = alone \cap {p}
      /\ UNCHANGED <<script, backup, limit, asked, clock, exposed>>
  BY DEF Replace, Changes
<1>2. Agent(p) \in Agents /\ \A q \in Installers : Agent(q) \in Agents
  BY AgentIsToDo DEF HookInv
<1>3. /\ Effective(doc[p], limit[p]) /\ doc[p] \in Documents
      /\ Content(file[Agent(p)]) \cup Content(doc[p]) \subseteq Kept(Agent(p))
  BY <1>1 DEF HookInv, ProgressInv, RecoverInv, Effective
<1>4. /\ file' \in [Agents -> Documents \cup {NoFile, Broken}]
      /\ file'[Agent(p)] = doc[p]
      /\ \A a \in Agents : a # Agent(p) => file'[a] = file[a]
  BY <1>1, <1>2, <1>3 DEF HookInv, HookTypes
<1>5. \A a \in Agents : Kept(a)' = Kept(a)
  BY <1>1, KeptUnchanged
<1>6. NothingLost
  BY <1>3, <1>4, <1>5 DEF NothingLost
<1>7. ASSUME NEW q \in Installers, q # p,
             stage'[q] = stage[q] /\ todo'[q] = todo[q] /\ doc'[q] = doc[q]
      PROVE  ProgressInv(q)' /\ DoneInv(q)' /\ RecoverInv(q)'
  <2>1. \A a \in Agents : Content(file'[a]) \subseteq Content(file[a]) \cup Kept(a)'
    BY <1>3, <1>4, <1>5
  <2>2. RecoverInv(q)'
    BY <1>6, <1>7, <2>1, OthersRecover
  <2> QED BY <1>1, <1>7, <2>2 DEF HookInv, ProgressInv, DoneInv
<1>8. CASE Finish(p)
  <2>1. /\ stage' \in [Installers -> {"idle", "script", "load", "backup", "replace", "ok",
                                      "failed"}]
        /\ todo' \in [Installers -> SUBSET Agents]
        /\ doc' \in [Installers -> Documents \cup {NoFile}]
        /\ ProgressInv(p)' /\ DoneInv(p)' /\ RecoverInv(p)'
        /\ \A q \in Installers : q # p =>
               stage'[q] = stage[q] /\ todo'[q] = todo[q] /\ doc'[q] = doc[q]
    BY <1>1, <1>3, <1>4, <1>6, <1>8, FinishedKeeps
  <2>2. HookTypes'
    BY <1>1, <1>4, <2>1 DEF HookInv, HookTypes
  <2> QED BY <1>6, <1>7, <2>1, <2>2 DEF HookInv
<1>9. CASE stage' = [stage EXCEPT ![p] = "failed"] /\ UNCHANGED <<todo, doc>>
  <2>1. HookTypes'
    BY <1>1, <1>4, <1>9 DEF HookInv, HookTypes
  <2>2. ProgressInv(p)' /\ DoneInv(p)' /\ RecoverInv(p)'
    BY <1>1, <1>9 DEF HookInv, HookTypes, ProgressInv, DoneInv, RecoverInv
  <2>3. \A q \in Installers : q # p => stage'[q] = stage[q]
    BY <1>9 DEF HookInv, HookTypes
  <2> QED BY <1>6, <1>7, <1>9, <2>1, <2>2, <2>3 DEF HookInv
<1> QED BY <1>8, <1>9 DEF Replace, Goto

(* A process that gives up promises nothing any more.                      *)
LEMMA StopKeeps ==
    ASSUME HookInv, NEW p \in Installers, Stop(p)
    PROVE  HookInv' /\ NothingLost
<1>1. NothingLost
  BY NothingTouched DEF Stop
<1>2. /\ stage[p] # "idle" /\ stage' = [stage EXCEPT ![p] = "failed"]
      /\ UNCHANGED <<script, file, backup, limit, asked, todo, doc, clock, alone, exposed>>
  BY DEF Stop, Goto
<1>3. HookTypes'
  BY <1>2 DEF HookInv, HookTypes
<1>4. ASSUME NEW q \in Installers PROVE ProgressInv(q)' /\ DoneInv(q)' /\ RecoverInv(q)'
  <2>1. CASE q = p
    BY <1>2, <2>1 DEF HookInv, HookTypes, ProgressInv, DoneInv, RecoverInv
  <2>2. CASE q # p
    <3>1. stage'[q] = stage[q]
      BY <1>2, <2>2 DEF HookInv, HookTypes
    <3>2. RecoverInv(q)'
      BY <1>1, <1>2, <3>1, OthersRecover
    <3> QED BY <1>2, <3>1, <3>2 DEF HookInv, ProgressInv, DoneInv
  <2> QED BY <2>1, <2>2
<1> QED BY <1>1, <1>3, <1>4 DEF HookInv

(* An edit between a backup and the replacement is excepted.               *)
LEMMA SaveEditKeeps ==
    ASSUME HookInv, NEW b \in Agents, NEW e \in Edits, SaveEdit(b, e)
    PROVE  HookInv' /\ NothingLost
<1>1. PICK g \in Edited(file[b], e) : file' = [file EXCEPT ![b] = g]
  BY DEF SaveEdit
<1>2. /\ UNCHANGED <<script, backup, stage, limit, asked, todo, doc, clock>>
      /\ alone' = {} /\ exposed' \subseteq exposed \cup {e} /\ exposed \subseteq exposed'
  BY DEF SaveEdit
<1>3. /\ g \in Documents
      /\ Content(file[b]) \subseteq Content(g) /\ Content(g) \subseteq Content(file[b]) \cup {e}
  <2>1. file[b] \in Documents \cup {NoFile, Broken}
    BY DEF HookInv, HookTypes
  <2> QED BY <2>1, EditingKeeps
<1>4. /\ file' \in [Agents -> Documents \cup {NoFile, Broken}] /\ file'[b] = g
      /\ \A a \in Agents : a # b => file'[a] = file[a]
  BY <1>1, <1>3 DEF HookInv, HookTypes
<1>5. \A a \in Agents : Kept(a) \subseteq Kept(a)' /\ exposed' \subseteq Kept(a)'
  BY <1>2 DEF Kept, Backed
<1>6. NothingLost
  BY <1>3, <1>4, <1>5 DEF NothingLost
<1>7. HookTypes'
  BY <1>2, <1>4 DEF HookInv, HookTypes
<1>8. ASSUME NEW q \in Installers PROVE ProgressInv(q)' /\ DoneInv(q)' /\ RecoverInv(q)'
  <2>1. ASSUME NEW a \in Agents, stage[q] = "replace", a = Agent(q)
        PROVE  Content(file'[a]) \subseteq Content(file[a]) \cup Kept(a)'
    <3>1. CASE a = b
      <4>1. e \in exposed'
        BY <2>1, <3>1 DEF SaveEdit
      <4> QED BY <1>3, <1>4, <1>5, <3>1, <4>1
    <3> QED BY <1>4, <3>1
  <2>2. RecoverInv(q)'
    BY <1>2, <1>6, <2>1, OthersRecover
  <2> QED BY <1>2, <2>2 DEF HookInv, ProgressInv, DoneInv
<1> QED BY <1>6, <1>7, <1>8 DEF HookInv

(* Time alone changes nothing.                                             *)
LEMMA WaitingKeeps ==
    ASSUME HookInv,
           UNCHANGED <<script, file, backup, stage, limit, asked, todo, doc, alone, exposed>>,
           clock' \in 0 .. MaxClock
    PROVE  HookInv' /\ NothingLost
<1>1. NothingLost
  BY NothingTouched
<1>2. HookTypes'
  BY DEF HookInv, HookTypes
<1>3. ASSUME NEW q \in Installers PROVE ProgressInv(q)' /\ DoneInv(q)' /\ RecoverInv(q)'
  <2>1. RecoverInv(q)'
    BY <1>1, OthersRecover
  <2> QED BY <2>1 DEF HookInv, ProgressInv, DoneInv
<1> QED BY <1>1, <1>2, <1>3 DEF HookInv

(* Every step keeps the invariant and loses nothing.                       *)
LEMMA HookInvNext == HookInv /\ [HookNext]_hookVars => HookInv' /\ NothingLost
<1> SUFFICES ASSUME HookInv, [HookNext]_hookVars PROVE HookInv' /\ NothingLost
    OBVIOUS
<1>1. ASSUME NEW p \in Installers, InstallStep(p) PROVE HookInv' /\ NothingLost
  BY <1>1, StartInstallKeeps, WriteScriptKeeps, LoadKeeps, BackupKeeps, ReplaceKeeps
     DEF InstallStep
<1>2. CASE Second
  <2>1. clock' \in 0 .. MaxClock
    BY <1>2, HookInstallAssumption DEF Second, HookInv, HookTypes
  <2> QED BY <1>2, <2>1, WaitingKeeps DEF Second
<1>3. CASE UNCHANGED hookVars
  <2>1. clock' \in 0 .. MaxClock
    BY <1>3 DEF hookVars, HookInv, HookTypes
  <2> QED BY <1>3, <2>1, WaitingKeeps DEF hookVars
<1> QED
  BY <1>1, <1>2, <1>3, BackupFailsKeeps, StopKeeps, SaveEditKeeps DEF HookNext

(* The invariant holds of every behaviour.                                 *)
LEMMA HookInvariant == HookSpec => []HookInv
BY HookInvInit, HookInvNext, PTL DEF HookSpec

-----------------------------------------------------------------------------
(* Whatever a file held before, and however installations overlap, fail    *)
(* and are repeated, what was saved in it stays in the file or in one of   *)
(* its backups, apart from the two named exceptions.                       *)
THEOREM EditsAreRecoverable == HookSpec => EditsRecoverable
<1>1. NothingLost => \A a \in Agents : Saved(a) \subseteq Saved(a)' \cup exposed'
  <2>1. ASSUME NothingLost, NEW a \in Agents PROVE Saved(a) \subseteq Saved(a)' \cup exposed'
    BY <2>1 DEF NothingLost, Saved, Kept, Backed
  <2> QED BY <2>1
<1>2. HookInv /\ [HookNext]_hookVars =>
          [\A a \in Agents : Saved(a) \subseteq Saved(a)' \cup exposed']_hookVars
  BY <1>1, HookInvNext
<1> QED BY <1>2, HookInvariant, PTL DEF EditsRecoverable, HookSpec

(* An undisturbed installation that reports success has made all that was  *)
(* asked for effective, from whatever files it found.                      *)
THEOREM InstallationsAreAsReported == HookSpec => []ReportedInstalled
<1>1. HookInv => ReportedInstalled
  <2> SUFFICES ASSUME HookInv, NEW p \in alone, stage[p] = "ok"
               PROVE  /\ script
                      /\ \A a \in asked[p] :
                            /\ file[a].hooks # <<>>
                            /\ \A h \in Range(file[a].hooks) :
                                  /\ h.limit = limit[p] /\ h.host # None
                                  /\ h.host > h.limit + Grace
                            /\ Installed(file[a], a, limit[p]) = file[a]
    BY DEF ReportedInstalled
  <2>1. /\ p \in Installers /\ asked[p] \subseteq Agents /\ limit[p] \in Timeouts
        /\ limit[p] \in Nat /\ script /\ todo[p] = {}
    BY HookInstallAssumption DEF HookInv, HookTypes, ProgressInv
  <2>2. ASSUME NEW a \in asked[p]
        PROVE  /\ file[a] \in Documents /\ file[a].hooks # <<>>
               /\ Effective(file[a], limit[p])
               /\ \A h \in Range(file[a].hooks) :
                     /\ h.limit = limit[p] /\ h.host = limit[p] + Margin
                     /\ h.host # None /\ h.host > h.limit + Grace
               /\ Installed(file[a], a, limit[p]) = file[a]
    <3>1. Effective(file[a], limit[p])
      BY <2>1 DEF HookInv, DoneInv
    <3>2. limit[p] + Margin \in Nat /\ limit[p] + Margin > limit[p] + Grace
      BY <2>1 DEF Margin, Grace
    <3>3. None \notin Nat
      BY HookInstallAssumption
    <3>4. /\ file[a] \in Documents /\ file[a].hooks # <<>>
          /\ \A h \in Range(file[a].hooks) : h.limit = limit[p] /\ h.host = limit[p] + Margin
      BY <3>1 DEF Effective
    <3>5. Installed(file[a], a, limit[p]) = file[a]
      BY <2>1, <3>1, <3>4, InstallingIsEffective
    <3> QED BY <3>1, <3>2, <3>3, <3>4, <3>5
  <2> QED BY <2>1, <2>2
<1> QED BY <1>1, HookInvariant, PTL

-----------------------------------------------------------------------------
(* LaunchAgent: what a command relies on.                                  *)

Mine(p) == [label |-> Label(p), settings |-> command[p].settings]
Installs(p) == command[p].verb = "install"
Uninstalls(p) == command[p].verb = "uninstall"

(* What check has found of the plist.                                      *)
MayChange(p) == plist[Path(p)] = NoPlist \/ Owned(plist[Path(p)], Label(p))

LaunchTypes ==
    /\ plist \in [Paths -> Plists \cup {NoPlist, Foreign}]
    /\ loaded \in [Labels -> Settings \cup {Unloaded}]
    /\ step \in [Operators -> {"idle", "check", "write", "bootout", "bootstrap",
                               "kickstart", "remove", "done", "failed"}]
    /\ DOMAIN command = Operators
    /\ calm \subseteq Operators /\ held \subseteq Operators

(* The flags fit the step.                                                 *)
StepInv(p) ==
    /\ step[p] # "idle" => command[p] \in Commands
    /\ step[p] \in {"write", "bootstrap", "kickstart"} => Installs(p)
    /\ step[p] = "remove" => Uninstalls(p)
    /\ step[p] \in {"bootout", "bootstrap", "kickstart"} => command[p].launchctl

InstallInv(p) ==
    Installs(p) =>
        /\ step[p] = "write" => MayChange(p)
        /\ step[p] \in {"bootout", "bootstrap", "kickstart", "done"} =>
               plist[Path(p)] = Mine(p)
        /\ step[p] \in {"kickstart", "done"} /\ command[p].launchctl =>
               loaded[Label(p)] = command[p].settings

UninstallInv(p) ==
    Uninstalls(p) =>
        /\ step[p] \in {"bootout", "remove"} => MayChange(p)
        /\ step[p] = "done" => plist[Path(p)] = NoPlist
        /\ step[p] \in {"remove", "done"} /\ command[p].launchctl /\ p \notin held =>
               loaded[Label(p)] = Unloaded

CalmInv(p) ==
    p \in calm => step[p] # "idle" /\ InstallInv(p) /\ UninstallInv(p)

LaunchInv == LaunchTypes /\ \A p \in Operators : StepInv(p) /\ CalmInv(p)

-----------------------------------------------------------------------------
(* The fields of a command.                                                *)
LEMMA CommandFields ==
    ASSUME NEW c \in Commands
    PROVE  /\ c.verb \in {"install", "uninstall"}
           /\ c.label \in Labels /\ c.path \in Paths /\ c.launchctl \in BOOLEAN
           /\ c.verb = "install" => c.settings \in Settings
BY DEF Commands

(* The commands start with nobody at work.                                 *)
LEMMA LaunchInvInit == LaunchInit => LaunchInv
BY DEF LaunchInit, LaunchInv, LaunchTypes, StepInv, CalmInv

(* A step of p keeps the invariant for p itself and for every other        *)
(* process, which is calm afterwards only if p changed nothing of its.     *)
LEMMA LaunchInvNext == LaunchInv /\ [LaunchNext]_launchVars => LaunchInv'
<1> SUFFICES ASSUME LaunchInv, [LaunchNext]_launchVars PROVE LaunchInv'
    OBVIOUS
<1> USE CommandFields
<1>1. ASSUME NEW p \in Operators, Run(p) PROVE LaunchInv'
  BY <1>1 DEF Run, LaunchInv, LaunchTypes, StepInv, CalmInv, InstallInv, UninstallInv,
              MayChange, Mine, Installs, Uninstalls, Label, Path, Owned, Continue
<1>2. ASSUME NEW p \in Operators, Check(p) PROVE LaunchInv'
  BY <1>2 DEF Check, At, LaunchInv, LaunchTypes, StepInv, CalmInv, InstallInv, UninstallInv,
              MayChange, Mine, Installs, Uninstalls, Label, Path, Owned, Continue
<1>3. ASSUME NEW p \in Operators, WritePlist(p) PROVE LaunchInv'
  BY <1>3 DEF WritePlist, At, DisturbsPath, LaunchInv, LaunchTypes, StepInv, CalmInv, InstallInv,
              UninstallInv, MayChange, Mine, Installs, Uninstalls, Label, Path, Owned,
              Continue, Plists
<1>4. ASSUME NEW p \in Operators, Bootout(p) PROVE LaunchInv'
  BY <1>4 DEF Bootout, AfterBootout, At, DisturbsLabel, LaunchInv, LaunchTypes, StepInv, CalmInv,
              InstallInv, UninstallInv, MayChange, Mine, Installs, Uninstalls, Label, Path,
              Owned, Continue
<1>5. ASSUME NEW p \in Operators, Bootstrap(p) PROVE LaunchInv'
  <2> USE DEF Bootstrap, At, Label, Path, Continue
  <2>1. command[p] \in Commands /\ Installs(p)
    BY <1>5 DEF LaunchInv, StepInv
  <2>2. LaunchTypes' /\ \A q \in Operators : StepInv(q)'
    BY <1>5 DEF LaunchInv, LaunchTypes, StepInv, Installs, Uninstalls, Loadable, DisturbsLabel,
                Plists
  <2>3. CalmInv(p)'
    <3> SUFFICES ASSUME p \in calm PROVE CalmInv(p)'
      BY <1>5 DEF CalmInv, DisturbsLabel
    <3>1. plist[Path(p)] = Mine(p) /\ Mine(p) # Foreign
      BY <1>5, <2>1, LaunchAgentAssumption DEF LaunchInv, CalmInv, InstallInv, Mine, Installs
    <3>2. /\ plist' = plist /\ command' = command
          /\ step'[p] \in {"kickstart", "failed"}
          /\ loaded'[Label(p)] = command[p].settings
      BY <1>5, <2>1, <3>1 DEF LaunchInv, LaunchTypes, Mine
    <3> QED BY <2>1, <3>1, <3>2 DEF CalmInv, InstallInv, UninstallInv, Mine, Installs, Uninstalls
  <2>4. ASSUME NEW q \in Operators, q # p PROVE CalmInv(q)'
    <3> SUFFICES ASSUME q \in calm' PROVE CalmInv(q)'
      BY DEF CalmInv
    <3>1. /\ q \in calm /\ CalmInv(q) /\ command[q] \in Commands
          /\ plist' = plist /\ command' = command /\ held' = held /\ step'[q] = step[q]
      BY <1>5, <2>4 DEF LaunchInv, LaunchTypes, StepInv, CalmInv, DisturbsLabel
    <3>2. loaded'[Label(q)] = loaded[Label(q)]
      BY <1>5, <2>4, <3>1 DEF LaunchInv, LaunchTypes, DisturbsLabel
    <3> QED BY <3>1, <3>2 DEF CalmInv, InstallInv, UninstallInv, MayChange, Mine, Installs,
                             Uninstalls, Owned
  <2> QED BY <2>2, <2>3, <2>4 DEF LaunchInv
<1>6. ASSUME NEW p \in Operators, Kickstart(p) PROVE LaunchInv'
  BY <1>6 DEF Kickstart, At, LaunchInv, LaunchTypes, StepInv, CalmInv, InstallInv, UninstallInv,
              MayChange, Mine, Installs, Uninstalls, Label, Path, Owned, Continue
<1>7. ASSUME NEW p \in Operators, RemovePlist(p) PROVE LaunchInv'
  <2> USE DEF RemovePlist, At, Label, Path, Continue
  <2>1. command[p] \in Commands /\ Uninstalls(p)
    BY <1>7 DEF LaunchInv, StepInv
  <2>2. LaunchTypes' /\ \A q \in Operators : StepInv(q)'
    BY <1>7 DEF LaunchInv, LaunchTypes, StepInv, Installs, Uninstalls, DisturbsPath
  <2>3. CalmInv(p)'
    BY <1>7, <2>1 DEF LaunchInv, LaunchTypes, CalmInv, InstallInv, UninstallInv, Installs,
                      Uninstalls, DisturbsPath
  <2>4. ASSUME NEW q \in Operators, q # p PROVE CalmInv(q)'
    <3> SUFFICES ASSUME q \in calm' PROVE CalmInv(q)'
      BY DEF CalmInv
    <3>1. /\ q \in calm /\ CalmInv(q) /\ Path(q) # Path(p)
          /\ command' = command /\ held' = held /\ loaded' = loaded /\ step'[q] = step[q]
      BY <1>7, <2>4 DEF LaunchInv, LaunchTypes, DisturbsPath
    <3>2. plist'[Path(q)] = plist[Path(q)]
      BY <1>7, <3>1, <2>1 DEF LaunchInv, LaunchTypes, StepInv, CalmInv
    <3> QED BY <3>1, <3>2 DEF CalmInv, InstallInv, UninstallInv, MayChange, Mine, Installs,
                             Uninstalls, Owned
  <2> QED BY <2>2, <2>3, <2>4 DEF LaunchInv
<1>8. ASSUME NEW p \in Operators, Abort(p) PROVE LaunchInv'
  BY <1>8 DEF Abort, LaunchInv, LaunchTypes, StepInv, CalmInv, InstallInv, UninstallInv,
              MayChange, Mine, Installs, Uninstalls, Label, Path, Owned, Continue
<1>9. ASSUME NEW f \in Paths, PutForeign(f) PROVE LaunchInv'
  BY <1>9 DEF PutForeign, LaunchInv, LaunchTypes, StepInv, CalmInv, InstallInv, UninstallInv,
              MayChange, Mine, Installs, Uninstalls, Label, Path, Owned
<1>10. CASE Restart
  BY <1>10 DEF Restart, LaunchInv, LaunchTypes, StepInv, CalmInv, Installs, Uninstalls
<1>11. CASE UNCHANGED launchVars
  BY <1>11 DEF launchVars, LaunchInv, LaunchTypes, StepInv, CalmInv, InstallInv, UninstallInv,
               MayChange, Mine, Installs, Uninstalls, Label, Path, Owned
<1> QED
  BY <1>1, <1>2, <1>3, <1>4, <1>5, <1>6, <1>7, <1>8, <1>9, <1>10, <1>11
     DEF LaunchNext, LaunchStep

(* The invariant of the commands for launchd holds of every behaviour.     *)
LEMMA LaunchInvariant == LaunchSpec => []LaunchInv
BY LaunchInvInit, LaunchInvNext, PTL DEF LaunchSpec

-----------------------------------------------------------------------------
(* What an undisturbed install-launchd or uninstall reports is so, from    *)
(* whatever plists and agents it finds, and however many others run.       *)
THEOREM AgentsAreAsReported == LaunchSpec => []AgentAsReported
<1>1. LaunchInv => AgentAsReported
  <2> SUFFICES ASSUME LaunchInv, NEW p \in calm, At(p, "done") PROVE
        IF Installs(p)
        THEN /\ plist[Path(p)] = Mine(p)
             /\ command[p].launchctl => loaded[Label(p)] = command[p].settings
        ELSE /\ plist[Path(p)] = NoPlist
             /\ command[p].launchctl /\ p \notin held => loaded[Label(p)] = Unloaded
    BY DEF AgentAsReported, Installs, Mine, Path, Label
  <2>1. command[p] \in Commands /\ InstallInv(p) /\ UninstallInv(p)
    BY DEF LaunchInv, LaunchTypes, StepInv, CalmInv, At
  <2> QED BY <2>1, CommandFields DEF InstallInv, UninstallInv, Installs, Uninstalls, At
<1> QED BY <1>1, LaunchInvariant, PTL

(* No command replaces or removes a plist that is not the tool's and the   *)
(* label's, unless it was put there after the command had looked.          *)
THEOREM ForeignPlistsAreKept == LaunchSpec => ForeignPlistKept
<1>1. LaunchInv => [\A p \in Operators :
          (At(p, "write") \/ At(p, "remove")) /\ plist'[Path(p)] # plist[Path(p)] =>
              \/ plist[Path(p)] = NoPlist \/ Owned(plist[Path(p)], Label(p))
              \/ p \notin calm]_launchVars
  BY DEF LaunchInv, StepInv, CalmInv, InstallInv, UninstallInv, MayChange, At
<1> QED BY <1>1, LaunchInvariant, PTL DEF ForeignPlistKept

-----------------------------------------------------------------------------
(* A behaviour of both installers is one of each, so that all of the above *)
(* holds of it.                                                            *)
THEOREM InstallersAreIndependent == Spec => HookSpec /\ LaunchSpec
<1>1. Init => HookInit /\ LaunchInit
  BY DEF Init, HookWaits, LaunchWaits
<1>2. [Next]_vars => [HookNext]_hookVars /\ [LaunchNext]_launchVars
  BY DEF Next, vars
<1> QED BY <1>1, <1>2, PTL DEF Spec, HookSpec, LaunchSpec

(* All variables of both stay in their types.                              *)
THEOREM InstallersTypeCorrect == Spec => []TypeOK
<1>1. HookInv => HookTypeOK
  BY DEF HookInv, HookTypes, ProgressInv, HookTypeOK
<1>2. LaunchInv => LaunchTypeOK
  BY DEF LaunchInv, LaunchTypes, StepInv, Installs, Uninstalls, LaunchTypeOK
<1> QED
  BY <1>1, <1>2, HookInvariant, LaunchInvariant, InstallersAreIndependent, PTL DEF TypeOK
=============================================================================
