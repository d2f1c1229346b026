-------------------------- MODULE MCCmuxOwnership --------------------------
(* Three surfaces, so that two may be aliases away from the third; one     *)
(* target that differs from a surface by case, and one that is no UUID; a  *)
(* device with two spellings, another device, and a blank tty.             *)
EXTENDS CmuxOwnership

CONSTANTS s1, s2, A, B, C, a, short, tty1, dev1, tty2, blank

MCCanon == [t \in Targets |-> IF t = a THEN A ELSE t]
MCDevice ==
    [y \in TTYs |-> CASE y = tty1 -> dev1 [] y = blank -> NoTTY [] OTHER -> y]

Rows(ids) == [i \in ID |-> IF i \in ids THEN "row" ELSE NoRow]

MCInitRegs ==
    {Rows({}), Rows({<<s1, A>>, <<s2, a>>}), Rows({<<s1, B>>, <<s2, short>>})}
=============================================================================
