------------------------------ MODULE MCLauncher -----------------------------
(* Instances of Launcher for TLC. *)
EXTENDS Launcher

CONSTANTS l1, l2, a1, a2, d1, d2, q1

\* The second launcher is of the newer release.
TwoReleases == [l \in Launchers |-> IF l = l2 THEN 2 ELSE 1]

\* The releases speak one wire protocol, or each its own.
OneOrTwo == {[r \in Releases |-> 1], [r \in Releases |-> r]}

\* The machine has a domain at first, and may lose it before a daemon starts.
MCInit == Init /\ domain = d1
MCSpec == MCInit /\ [][Next]_vars /\ Fairness
=============================================================================
