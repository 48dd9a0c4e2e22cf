--------------------------- MODULE MCWindowChannel ---------------------------
(* Instances of WindowChannel for TLC. *)
EXTENDS WindowChannel, TLC

CONSTANTS s1, s2, w1, w2, p1, p2

\* The first window's channel booted under s1; the other window has none.
Boots == [w \in {w1} |-> s1]

Symmetric == Permutations(Procs)
=============================================================================
