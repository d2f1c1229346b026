---------------------------- MODULE MCInstallers ----------------------------
(***************************************************************************)
(* Bounds for TLC.  Two processes run each command; the configurations to  *)
(* start from are one of each kind that the code tells apart.              *)
(***************************************************************************)
EXTENDS Installers, TLC

MCLabels == {"keepalive", "a&b"}
MCWritten == [l \in MCLabels |-> IF l = "a&b" THEN "a&amp;b" ELSE l]

MCHook(t, h, e) == [limit |-> t, host |-> h, env |-> e]

Document(o, d, hs) == [own |-> o, odd |-> d, hooks |-> hs]

(* No file, or one without the script, and for Codex with an odd entry in  *)
(* the place it would take; one that is up to date, and one that is no     *)
(* JSON; a wrapper of the user's with another timeout, two registrations.  *)
MCInitFiles ==
    LET fresh   == MCHook(1, 6, {})
        foreign == MCHook(None, 6, {"was"})
        late    == MCHook(2, None, {})
    IN  {[claude |-> NoFile, codex |-> Document({}, {"was"}, <<>>)],
         [claude |-> Document({"was"}, {}, <<fresh>>), codex |-> Broken],
         [claude |-> Document({}, {}, <<foreign, late>>),
          codex |-> Document({}, {}, <<foreign>>)],
         [claude |-> Document({"was"}, {}, <<>>), codex |-> NoFile]}

MCEdits == {"was", "new"}

MCSymmetry == Permutations(Installers) \cup Permutations(Operators) \cup
              Permutations(Paths) \cup Permutations(Settings)
=============================================================================
