----------------------------- MODULE Injection -----------------------------
(***************************************************************************)
(* What wakes do to terminals: `amq-keepalive inject`, which AMQ runs for  *)
(* each message of a wake, with the cmux and the Ghostty adapter           *)
(* (internal/adapter/cmux.go, internal/adapter/ghostty.go).  An injection  *)
(* proves its target, types the text and presses Enter; the steps are      *)
(* calls of their own (for Ghostty, Apple events of one script), between   *)
(* which surfaces come and go, the user is at the keyboard, and other      *)
(* wakes inject.  A call that fails may have had its effect.  AMQ makes    *)
(* one injection of a wake at a time, and at most one wake per target is   *)
(* started (SpawnOwned of module Registration).                            *)
(*                                                                         *)
(* The payload is the attempt it belongs to.  A terminal is what its       *)
(* device has on its input line.  Text that the user types is left out.    *)
(*                                                                         *)
(* Definitions marked "Mutant" are wrong variants which no specification   *)
(* uses; they confirm that the properties notice the mistake.              *)
(***************************************************************************)
EXTENDS CmuxInventory, SequencesExt

CONSTANTS
    Adapters,       \* of "cmux", "ghostty", those to be examined
    Wakes,
    Serves,         \* the surface a wake injects into
    MaxAttempts,    \* bound on the injections of one wake
    MaxListed       \* bound on the entries of a tree

ASSUME InjectionAssumption ==
    /\ Adapters \subseteq {"cmux", "ghostty"}
    /\ Serves \in [Wakes -> Surfaces]
    /\ IsInjective(Serves)
    /\ NoTTY \notin Range(Device)
    /\ MaxAttempts \in Nat /\ MaxListed \in Nat

VARIABLES
    adapter,    \* the adapter of all terminals
    pc,         \* per wake: "idle", "proven", "typed"
    attempt,    \* per wake: the injections it has begun
    input,      \* external: per device, the attempts on its input line
    last,       \* history: what the last step submitted, and for whom
    delivered,  \* history: the attempts that were reported to succeed
    disturbed   \* history: the attempts that do not have their terminal to
                \* themselves: it changed, or the user took the line, since
                \* the target was proven

vars == <<tree, adapter, pc, attempt, input, last, delivered, disturbed>>

Devices == Range(Device)
Attempts == Wakes \X (1 .. MaxAttempts)
Nothing == [by |-> {}, text |-> <<>>, ok |-> FALSE]

TypeOK ==
    /\ tree \subseteq Surfaces \X TTYs
    /\ adapter \in Adapters
    /\ pc \in [Wakes -> {"idle", "proven", "typed"}]
    /\ attempt \in [Wakes -> 0 .. MaxAttempts]
    /\ \A d \in Devices : Range(input[d]) \subseteq Attempts /\ IsInjective(input[d])
    /\ last.by \subseteq Attempts /\ Range(last.text) \subseteq Attempts
    /\ delivered \subseteq Attempts /\ disturbed \subseteq Attempts

Current(w) == <<w, attempt[w]>>
Pending == {Current(w) : w \in {v \in Wakes : pc[v] # "idle"}}
Waiting == UNION {Range(input[d]) : d \in Devices}

Init ==
    /\ tree = {}
    /\ adapter \in Adapters
    /\ pc = [w \in Wakes |-> "idle"]
    /\ attempt = [w \in Wakes |-> 0]
    /\ input = [d \in Devices |-> <<>>]
    /\ last = Nothing
    /\ delivered = {} /\ disturbed = {}

-----------------------------------------------------------------------------
(* An injection.                                                           *)

(* Mutant: a target that exists will do.                                   *)
ProvenLive(s) == Live(s)

(* Ghostty: exactly one terminal has the id.                               *)
OneTerminal(s) == Cardinality({y \in TTYs : <<s, y>> \in tree}) = 1

(* cmux: the inventory can be read and the surface is alone on its TTY.    *)
Proven(s) ==
    IF adapter = "cmux" THEN Readable /\ AloneOnDevice(s) ELSE OneTerminal(s)

Goto(w, label) == pc' = [pc EXCEPT ![w] = label]

(* The check, which fails closed, also if the tree cannot be had.          *)
Prove(w) ==
    /\ pc[w] = "idle" /\ attempt[w] < MaxAttempts
    /\ attempt' = [attempt EXCEPT ![w] = @ + 1]
    /\ \/ Proven(Serves[w]) /\ Goto(w, "proven")
       \/ UNCHANGED pc
    /\ last' = Nothing
    /\ UNCHANGED <<tree, adapter, input, delivered, disturbed>>

(* Mutant: a call that failed is made again.                               *)
TypeRetried(w) ==
    /\ pc[w] = "proven"
    /\ \E d \in DevicesOf(Serves[w]) :
          input' = [input EXCEPT ![d] = Append(@, Current(w))]
    /\ Goto(w, "typed") \/ UNCHANGED pc
    /\ last' = Nothing
    /\ UNCHANGED <<tree, adapter, attempt, delivered, disturbed>>

(* The text reaches a device of the surface; only then, and if the call    *)
(* says so, the injection goes on.                                         *)
Type(w) ==
    /\ pc[w] = "proven"
    /\ \E d \in DevicesOf(Serves[w]) :
          input' = [input EXCEPT ![d] = Append(@, Current(w))]
    /\ Goto(w, "typed") \/ Goto(w, "idle")
    /\ last' = Nothing
    /\ UNCHANGED <<tree, adapter, attempt, delivered, disturbed>>

(* Enter submits what the line holds.                                      *)
Press(w) ==
    /\ pc[w] = "typed"
    /\ \E d \in DevicesOf(Serves[w]), ok \in BOOLEAN :
          /\ last' = [by |-> {Current(w)}, text |-> input[d], ok |-> ok]
          /\ input' = [input EXCEPT ![d] = <<>>]
          /\ delivered' = IF ok THEN delivered \cup {Current(w)} ELSE delivered
    /\ Goto(w, "idle")
    /\ UNCHANGED <<tree, adapter, attempt, disturbed>>

(* Mutant: an error of a step does not keep the next one from being taken. *)
GiveUpLate(w) ==
    /\ pc[w] # "idle"
    /\ Goto(w, IF pc[w] = "proven" THEN "typed" ELSE "idle")
    /\ last' = Nothing
    /\ UNCHANGED <<tree, adapter, attempt, input, delivered, disturbed>>

(* A call fails without effect, as it does when the surface is gone, the   *)
(* wait for the input queue to settle is cancelled, or the command dies.   *)
GiveUp(w) ==
    /\ pc[w] # "idle"
    /\ Goto(w, "idle")
    /\ last' = Nothing
    /\ UNCHANGED <<tree, adapter, attempt, input, delivered, disturbed>>

-----------------------------------------------------------------------------
(* External.  A surface appears on a TTY or is not listed there any more;  *)
(* the terminal of a device ends with its last surface.  A Ghostty         *)
(* terminal shares its TTY with no other.                                  *)
Rearrange ==
    /\ \E s \in Surfaces, y \in TTYs :
          \/ /\ <<s, y>> \notin tree /\ Cardinality(tree) < MaxListed
             /\ adapter = "ghostty" => \A e \in tree : Device[e[2]] # Device[y]
             /\ tree' = tree \cup {<<s, y>>}
          \/ <<s, y>> \in tree /\ tree' = tree \ {<<s, y>>}
    /\ input' = [d \in Devices |->
                    IF \E e \in tree' : Device[e[2]] = d THEN input[d] ELSE <<>>]
    /\ disturbed' = Pending \cup Waiting
    /\ last' = Nothing
    /\ UNCHANGED <<adapter, pc, attempt, delivered>>

(* The user submits or deletes the line.                                   *)
UserTakes(d) ==
    /\ input[d] # <<>>
    /\ input' = [input EXCEPT ![d] = <<>>]
    /\ disturbed' = disturbed \cup Range(input[d])
    /\ last' = Nothing
    /\ UNCHANGED <<tree, adapter, pc, attempt, delivered>>

Inject(w) == Prove(w) \/ Type(w) \/ Press(w) \/ GiveUp(w)

Next ==
    \/ \E w \in Wakes : Inject(w)
    \/ \E d \in Devices : UserTakes(d)
    \/ Rearrange

Spec == Init /\ [][Next]_vars

-----------------------------------------------------------------------------
(* Properties.                                                             *)

Undisturbed(attempts) == attempts \cap disturbed = {}

(* Two wakes' texts never become one submission, whatever injections are   *)
(* under way or were given up half-way, unless surfaces were rearranged    *)
(* after one of the targets was proven: "no text is sent until a fresh     *)
(* tree proves the target unambiguous".                                    *)
LinesUnmixed ==
    Undisturbed(last.by \cup Range(last.text)) =>
        \A x, y \in last.by \cup Range(last.text) : x[1] = y[1]

(* An injection that presses Enter submits its own text, at the end of the *)
(* line and behind nothing but texts of the same wake that were reported   *)
(* as errors; and what was reported to be delivered is not waiting to be   *)
(* submitted again.                                                        *)
DeliveredWhole ==
    /\ \A x \in last.by :
          Undisturbed({x}) =>
              /\ last.text # <<>> /\ Last(last.text) = x
              /\ Undisturbed(Range(last.text)) =>
                    Range(Front(last.text)) \cap delivered = {}
    /\ Waiting \cap delivered \subseteq disturbed
=============================================================================
