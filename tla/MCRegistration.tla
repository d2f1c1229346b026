--------------------------- MODULE MCRegistration ---------------------------
(* Instances of Registration for TLC.                                      *)
EXTENDS Registration, TLC

CONSTANTS s1, s2, t1, t2, T2, c1, c2, w1, w2, d1

MCCanon == [t \in Targets |-> IF t = T2 THEN t2 ELSE t]

Rows2(i, j, status) == [k \in ID |-> IF k \in {i, j} THEN status ELSE NoRow]

MCCleanRegs == {EmptyRegistry}

(* Registries written before targets were normalised: two sessions, or one *)
(* session twice, claim one target.                                        *)
MCLegacyRegs ==
    {Rows2(<<s1, t2>>, <<s2, T2>>, "active"),
     Rows2(<<s1, t2>>, <<s1, T2>>, "backoff")}

MCAnyRegs == MCLegacyRegs \cup MCCleanRegs

MCSymmetry == Permutations({c1, c2}) \cup Permutations({w1, w2})

(* From the empty registry the sessions are alike as well.                 *)
MCCleanSymmetry == MCSymmetry \cup Permutations({s1, s2})
=============================================================================
