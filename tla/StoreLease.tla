----------------------------- MODULE StoreLease ------------------------------
(***************************************************************************)
(* What the daemon promises about its store: it is open before anyone uses *)
(* it, and closed only when the last user is done, or when a deadline of   *)
(* the shutdown has passed, or with the whole process.                     *)
(***************************************************************************)
CONSTANT Users

VARIABLES open, users, late

leaseVars == <<open, users, late>>

LeaseInit == open = FALSE /\ users = {} /\ late = FALSE

Open == ~ open /\ open' = TRUE /\ UNCHANGED <<users, late>>

Borrow(u) == (open \/ late) /\ users' = users \cup {u} /\ UNCHANGED <<open, late>>

Return(u) == users' = users \ {u} /\ UNCHANGED <<open, late>>

Overrun == late' = TRUE /\ UNCHANGED <<open, users>>

Close == open /\ (users = {} \/ late) /\ open' = FALSE /\ UNCHANGED <<users, late>>

\* The process ends, in order or not.
Vanish == open' = FALSE /\ users' = {} /\ late' = FALSE

LeaseNext ==
  \/ Open \/ Overrun \/ Close \/ Vanish
  \/ \E u \in Users : Borrow(u) \/ Return(u)

LeaseSpec == LeaseInit /\ [][LeaseNext]_leaseVars
=============================================================================
