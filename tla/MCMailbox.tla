------------------------------ MODULE MCMailbox ------------------------------
(* Instances of Mailbox for TLC. *)
EXTENDS Mailbox, TLC

CONSTANTS a1, a2, t1, p1, p2

OneType == [a \in Agents |-> t1]

\* The agents are of one type and all subscribed, so they are interchangeable.
Symmetric == Permutations(Procs) \cup Permutations(Agents)
=============================================================================
