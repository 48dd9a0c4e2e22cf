------------------------------ MODULE EventLog ------------------------------
(***************************************************************************)
(* One subject's rows of the events table (store/events.go), as a function *)
(* from sequence numbers to events.  The table is keyed by (subject, seq)  *)
(* and every query names its subject, so subjects do not interact and one  *)
(* is enough.  The operators here are the statements the store runs; the   *)
(* transaction around them is in EventPlane.                               *)
(***************************************************************************)
EXTENDS Naturals

CONSTANTS
  Events,     \* what a caller may append: records with the fields below
  Origins,    \* who produced an event (event.Origin)
  NoKey       \* DedupKey == "", stored as NULL

(***************************************************************************)
(* An event is a record: its origin, whether it carries the configured     *)
(* presence type, its dedup key, and whether its frame is longer than the  *)
(* 4 MiB a consumer's scanner accepts.  Payload and timestamp are opaque.  *)
(***************************************************************************)
ASSUME EventsAssumption ==
  \A e \in Events : /\ DOMAIN e = {"origin", "presence", "key", "big"}
                    /\ e.origin \in Origins
                    /\ e.presence \in BOOLEAN
                    /\ e.big \in BOOLEAN

\* COALESCE(MAX(seq), 0) over the subject's rows.
LastSeq(rows) ==
  IF DOMAIN rows = {} THEN 0
  ELSE CHOOSE s \in DOMAIN rows : \A t \in DOMAIN rows : t <= s

\* Mutant of NextSeq: without the COALESCE an empty table yields NULL.
NextSeqNoCoalesce(rows) == IF DOMAIN rows = {} THEN NoKey ELSE LastSeq(rows) + 1

\* SELECT COALESCE(MAX(seq),0)+1: the sequence number the next row gets.
NextSeq(rows) == LastSeq(rows) + 1

\* SELECT seq ... WHERE dedup_key=?: the rows that already carry e's key; an
\* event without a key is never looked up.
DedupHits(rows, e) ==
  IF e.key = NoKey THEN {} ELSE {s \in DOMAIN rows : rows[s].key = e.key}

\* INSERT INTO events: the table with e at seq.
Insert(rows, seq, e) ==
  [s \in DOMAIN rows \cup {seq} |-> IF s = seq THEN e ELSE rows[s]]

\* SELECT ... WHERE seq>? AND origin<>?: the sequence numbers a stream that
\* drops one origin finds past its cursor.
EventsSince(rows, cursor, exclude) ==
  {s \in DOMAIN rows : s > cursor /\ rows[s].origin # exclude}
=============================================================================
