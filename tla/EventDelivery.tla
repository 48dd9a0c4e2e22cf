---------------------------- MODULE EventDelivery ---------------------------
(***************************************************************************)
(* What the event plane promises, with no process, connection or cursor in *)
(* sight: one append-only, densely numbered log in which a dedup key names *)
(* one row, and consumers that are handed the rows they want oldest first. *)
(* A row may be handed over again (at-least-once); that step changes       *)
(* nothing here.                                                           *)
(***************************************************************************)
EXTENDS EventLog

CONSTANTS
  Consumers,   \* named consumers
  Exclude      \* Exclude[c]: the origin c does not observe

VARIABLES
  log,         \* the rows appended so far
  handled,     \* handled[c]: rows handed to c and accepted
  withheld     \* withheld[c]: rows the daemon decided not to hand to c

absVars == <<log, handled, withheld>>

\* The rows c is meant to see: not its own echo, not a presence flip.
Wanted(c, n) == log[n].origin # Exclude[c] /\ ~log[n].presence

AbsInit ==
  /\ log = << >>
  /\ handled = [c \in Consumers |-> {}]
  /\ withheld = [c \in Consumers |-> {}]

\* An append adds one row, numbered directly after the last one, unless its
\* key is already there.
AppendRow(e) ==
  /\ DedupHits(log, e) = {}
  /\ log' = Insert(log, NextSeq(log), e)
  /\ UNCHANGED <<handled, withheld>>

\* c accepts row n only once no earlier row it wants is outstanding.
Deliver(c, n) ==
  /\ n \in DOMAIN log /\ Wanted(c, n)
  /\ \A m \in DOMAIN log :
       m < n /\ Wanted(c, m) => m \in handled[c] \cup withheld[c]
  /\ handled' = [handled EXCEPT ![c] = @ \cup {n}]
  /\ UNCHANGED <<log, withheld>>

\* The daemon withholds a row from c.
Withhold(c, n) ==
  /\ n \in DOMAIN log /\ Wanted(c, n)
  /\ withheld' = [withheld EXCEPT ![c] = @ \cup {n}]
  /\ UNCHANGED <<log, handled>>

AbsNext ==
  \/ \E e \in Events : AppendRow(e)
  \/ \E c \in Consumers, n \in DOMAIN log : Deliver(c, n) \/ Withhold(c, n)

AbsSpec == AbsInit /\ [][AbsNext]_absVars
=============================================================================
