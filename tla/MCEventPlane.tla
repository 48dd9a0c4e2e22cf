---------------------------- MODULE MCEventPlane ----------------------------
(***************************************************************************)
(* Instances of EventPlane for TLC.                                        *)
(***************************************************************************)
EXTENDS EventPlane, TLC

CONSTANTS human, agent, system, k1

Plain == [origin |-> human, presence |-> FALSE, key |-> NoKey, big |-> FALSE]
Keyed == [origin |-> human, presence |-> FALSE, key |-> k1, big |-> FALSE]
Echo == [origin |-> agent, presence |-> FALSE, key |-> NoKey, big |-> FALSE]
Presence == [origin |-> system, presence |-> TRUE, key |-> NoKey, big |-> FALSE]
Oversize == [origin |-> human, presence |-> FALSE, key |-> NoKey, big |-> TRUE]

MCOrigins == {human, agent, system}
EventsMost == {Plain, Keyed, Echo, Presence}
EventsSome == {Plain, Oversize}
EventsPlain == {Plain}
ExcludeAgent == [c \in Consumers |-> agent]

WriterSymmetry == Permutations(Writers)
=============================================================================
