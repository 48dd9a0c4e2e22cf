-------------------------- MODULE EventPlaneProofs --------------------------
(***************************************************************************)
(* Proofs about EventPlane, for any number of writers, consumers, events,  *)
(* ports and faults.                                                       *)
(***************************************************************************)
EXTENDS EventPlane, TLAPS

----------------------------------------------------------------------------
(* The operators of EventLog on a dense table.                             *)

\* MAX(seq) of a table whose rows are numbered 1 .. n is n.
LEMMA LastSeqDense ==
  ASSUME NEW rows, NEW n \in Nat, DOMAIN rows = 1 .. n
  PROVE  LastSeq(rows) = n
<1>1. CASE n = 0
  BY <1>1 DEF LastSeq
<1>2. CASE n # 0
  <2>1. n \in DOMAIN rows /\ \A t \in DOMAIN rows : t <= n
    BY <1>2
  <2>2. \A s \in DOMAIN rows : (\A t \in DOMAIN rows : t <= s) => s = n
    BY <2>1
  <2>3. DOMAIN rows # {}
    BY <2>1
  <2>4. (CHOOSE s \in DOMAIN rows : \A t \in DOMAIN rows : t <= s) = n
    BY <2>1, <2>2
  <2>5. QED
    BY <2>3, <2>4 DEF LastSeq
<1>3. QED
  BY <1>1, <1>2

\* Inserting at MAX(seq)+1 keeps a dense table dense and keeps its rows.
LEMMA InsertDense ==
  ASSUME NEW rows, NEW n \in Nat, DOMAIN rows = 1 .. n, NEW e
  PROVE  LET new == Insert(rows, NextSeq(rows), e)
         IN  /\ NextSeq(rows) = n + 1
             /\ DOMAIN new = 1 .. n + 1
             /\ new[n + 1] = e
             /\ \A s \in 1 .. n : new[s] = rows[s]
<1>1. NextSeq(rows) = n + 1
  BY LastSeqDense DEF NextSeq
<1>2. (1 .. n) \cup {n + 1} = 1 .. n + 1
  OBVIOUS
<1>3. QED
  BY <1>1, <1>2 DEF Insert

----------------------------------------------------------------------------
(* Type correctness and the log.                                           *)

\* The writers' half of the inductive invariant: rows are dense, keys are
\* unique, the connection belongs to the one writer inside a transaction,
\* and what that writer read at its start still holds.
LogInv ==
  /\ \E n \in Nat : DOMAIN log = 1 .. n
  /\ \A s, t \in DOMAIN log : log[s].key = log[t].key /\ log[s].key # NoKey => s = t
  /\ \A w \in Writers : wpc[w] = "tx" <=> db = w
  /\ \A w \in Writers : wpc[w] = "tx" => /\ wev[w] \in Events
                                         /\ wseq[w] = NextSeq(log)
                                         /\ DedupHits(log, wev[w]) = {}
  /\ PublishedIsReadable

\* What a step can do to the log and the writers.
LogStep ==
  \/ \E w \in Writers, e \in Events : AppendAllocate(w, e) \/ AppendDedup(w, e)
  \/ \E w \in Writers : AppendCommit(w) \/ AppendError(w) \/ Publish(w) \/ AppendReturn(w)
  \/ DaemonStop
  \/ UNCHANGED <<log, db, wpc, wev, wseq>>

\* Every step of the system is one of those, as far as the log is concerned.
LEMMA NextIsLogStep == [Next]_vars => LogStep
<1> SUFFICES ASSUME [Next]_vars PROVE LogStep
  OBVIOUS
<1>1. CASE UNCHANGED vars
  BY <1>1 DEF vars, LogStep
<1>2. ASSUME NEW w \in Writers, WriterStep(w) PROVE LogStep
  BY <1>2 DEF WriterStep, LogStep, Signal
<1>3. ASSUME NEW c \in Consumers, StreamStep(c) PROVE LogStep
  BY <1>3 DEF StreamStep, LogStep, logVars, Subscribe, TakeSignal, Query, QueryError,
     EmitRow, FlushDone, Inject, EmitInject, ToggleMute
<1>4. ASSUME NEW c \in Consumers, ClientStep(c) PROVE LogStep
  BY <1>4 DEF ClientStep, LogStep, logVars, Start, Connect, ConnectRefused,
     ConnectAlien, Handle, HandleStop, SkipControl, HandleError, FrameTooLong,
     StreamLost, Drop, EndOfStream, Refresh, RefreshError, ClientExit
<1>5. CASE DaemonStop
  BY <1>5 DEF LogStep
<1>6. CASE DaemonStart
  BY <1>6 DEF DaemonStart, LogStep, logVars
<1>7. QED
  BY <1>1, <1>2, <1>3, <1>4, <1>5, <1>6 DEF Next

\* The log invariant is inductive, given types.
LEMMA LogInvStep == TypeOK /\ LogInv /\ LogStep => LogInv'
<1> SUFFICES ASSUME TypeOK, LogInv, LogStep PROVE LogInv'
  OBVIOUS
<1> PICK n \in Nat : DOMAIN log = 1 .. n
  BY DEF LogInv
<1>1. CASE UNCHANGED <<log, db, wpc, wev, wseq>>
  BY <1>1 DEF LogInv, PublishedIsReadable
<1>2. ASSUME NEW w \in Writers, NEW e \in Events, AppendAllocate(w, e)
      PROVE  LogInv'
  <2>1. \A v \in Writers : wpc[v] # "tx" /\ db = Free /\ (wpc'[v] = "tx" <=> v = w)
    BY <1>2, ConstantsAssumption DEF AppendAllocate, LogInv, TypeOK, WriterTypes
  <2>2. db' = w /\ wseq'[w] = NextSeq(log) /\ wev'[w] = e /\ log' = log
    BY <1>2 DEF AppendAllocate, TypeOK, WriterTypes
  <2>3. DedupHits(log, e) = {}
    BY <1>2 DEF AppendAllocate
  <2>4. PublishedIsReadable'
    BY <1>2, <2>2 DEF AppendAllocate, LogInv, TypeOK, WriterTypes, PublishedIsReadable
  <2>5. QED
    BY <2>1, <2>2, <2>3, <2>4 DEF LogInv
<1>3. ASSUME NEW w \in Writers, NEW e \in Events, AppendDedup(w, e)
      PROVE  LogInv'
  <2>1. PICK s \in DedupHits(log, e) : wseq' = [wseq EXCEPT ![w] = s]
    BY <1>3 DEF AppendDedup
  <2>2. s \in DOMAIN log /\ log[s].key = e.key
    BY <2>1 DEF DedupHits
  <2>3. \A v \in Writers : wpc[v] # "tx" /\ wpc'[v] # "tx" /\ db' # v
    BY <1>3, ConstantsAssumption DEF AppendDedup, LogInv, TypeOK, WriterTypes
  <2>4. PublishedIsReadable'
    BY <1>3, <2>1, <2>2 DEF AppendDedup, LogInv, TypeOK, WriterTypes, PublishedIsReadable
  <2>5. QED
    BY <1>3, <2>3, <2>4 DEF AppendDedup, LogInv
<1>4. ASSUME NEW w \in Writers, AppendCommit(w)
      PROVE  LogInv'
  <2>1. /\ DOMAIN log' = 1 .. n + 1
        /\ log'[n + 1] = wev[w]
        /\ \A s \in 1 .. n : log'[s] = log[s]
        /\ wseq[w] = n + 1
    BY <1>4, InsertDense DEF AppendCommit, LogInv
  <2>2. \A v \in Writers : wpc'[v] # "tx" /\ db' # v
    BY <1>4, ConstantsAssumption DEF AppendCommit, LogInv, TypeOK, WriterTypes
  <2>3. \A s, t \in DOMAIN log' :
          log'[s].key = log'[t].key /\ log'[s].key # NoKey => s = t
    <3>1. \A s \in 1 .. n : log[s].key = wev[w].key => wev[w].key = NoKey
      BY <1>4 DEF AppendCommit, LogInv, DedupHits
    <3>2. QED
      BY <2>1, <3>1 DEF LogInv
  <2>4. PublishedIsReadable'
    BY <1>4, <2>1 DEF AppendCommit, LogInv, PublishedIsReadable, TypeOK, WriterTypes
  <2>5. QED
    BY <2>1, <2>2, <2>3, <2>4 DEF LogInv
<1>5. ASSUME NEW w \in Writers, AppendError(w)
      PROVE  LogInv'
  <2>1. \A v \in Writers : wpc'[v] # "tx" /\ db' # v
    BY <1>5, ConstantsAssumption DEF AppendError, LogInv, TypeOK, WriterTypes
  <2>2. log' = log
    BY <1>5 DEF AppendError
  <2>3. PublishedIsReadable'
    BY <1>5, <2>2 DEF AppendError, LogInv, TypeOK, WriterTypes, PublishedIsReadable
  <2>4. QED
    BY <2>1, <2>2, <2>3 DEF LogInv
<1>6. ASSUME NEW w \in Writers, Publish(w)
      PROVE  LogInv'
  BY <1>6 DEF Publish, LogInv, TypeOK, WriterTypes, PublishedIsReadable
<1>7. ASSUME NEW w \in Writers, AppendReturn(w)
      PROVE  LogInv'
  BY <1>7 DEF AppendReturn, LogInv, TypeOK, WriterTypes, PublishedIsReadable
<1>8. CASE DaemonStop
  BY <1>8, ConstantsAssumption DEF DaemonStop, LogInv, TypeOK, WriterTypes, PublishedIsReadable
<1>9. QED
  BY <1>1, <1>2, <1>3, <1>4, <1>5, <1>6, <1>7, <1>8 DEF LogStep

\* A frame written by a stream is a frame.
LEMMA FrameTypes ==
  /\ \A n \in Nat : EventFrame(n) \in Frames
  /\ CaughtUpFrame \in Frames
  /\ InjectFrame \in Frames
  BY DEF EventFrame, CaughtUpFrame, InjectFrame, Frames

\* Ending streams preserves the types of the stream variables.
LEMMA StreamsEndTypes ==
  ASSUME NEW S, TypeOK, StreamsEnd(S)
  PROVE  StreamTypes'
  BY DEF StreamsEnd, TypeOK, StreamTypes

\* Types are preserved by every step, given the log invariant (which is what
\* makes MAX(seq)+1 a number).
LEMMA TypeStep == TypeOK /\ LogInv /\ [Next]_vars => TypeOK'
<1> SUFFICES ASSUME TypeOK, LogInv, [Next]_vars PROVE TypeOK'
  OBVIOUS
<1> PICK n0 \in Nat : DOMAIN log = 1 .. n0
  BY DEF LogInv
<1> USE FrameTypes, ConstantsAssumption DEF logVars, streamVars, clientVars, daemonVars, Fault
<1>0. CASE UNCHANGED vars
  BY <1>0 DEF vars, TypeOK, WriterTypes, StreamTypes, ClientTypes
<1>1. ASSUME NEW w \in Writers, WriterStep(w) PROVE TypeOK'
  <2>1. ASSUME NEW e \in Events, AppendAllocate(w, e) PROVE TypeOK'
    <3>1. NextSeq(log) \in Nat
      BY LastSeqDense DEF NextSeq
    <3>2. QED
      BY <2>1, <3>1 DEF AppendAllocate, TypeOK, WriterTypes, StreamTypes, ClientTypes
  <2>2. ASSUME NEW e \in Events, AppendDedup(w, e) PROVE TypeOK'
    <3>1. DedupHits(log, e) \subseteq Nat
      BY DEF DedupHits
    <3>2. QED
      BY <2>2, <3>1 DEF AppendDedup, TypeOK, WriterTypes, StreamTypes, ClientTypes
  <2>3. CASE AppendCommit(w)
    <3>1. /\ DOMAIN log' = 1 .. n0 + 1
          /\ log'[n0 + 1] = wev[w] /\ wev[w] \in Events
          /\ \A s \in 1 .. n0 : log'[s] = log[s]
      BY <2>3, InsertDense DEF AppendCommit, LogInv
    <3>2. DOMAIN log' \subseteq Nat /\ \A s \in DOMAIN log' : log'[s] \in Events
      <4>1. \A s \in 1 .. n0 : log[s] \in Events
        BY DEF TypeOK, WriterTypes, StreamTypes, ClientTypes
      <4>2. \A s \in 1 .. n0 + 1 : s \in 1 .. n0 \/ s = n0 + 1
        OBVIOUS
      <4>3. QED
        BY <3>1, <4>1, <4>2
    <3>3. QED
      BY <2>3, <3>2 DEF AppendCommit, TypeOK, WriterTypes, StreamTypes, ClientTypes
  <2>4. CASE AppendError(w)
    BY <2>4 DEF AppendError, TypeOK, WriterTypes, StreamTypes, ClientTypes
  <2>5. CASE Publish(w)
    BY <2>5 DEF Publish, Subscribers, TypeOK, WriterTypes, StreamTypes, ClientTypes
  <2>6. ASSUME NEW c \in Consumers, Signal(w, c) PROVE TypeOK'
    BY <2>6 DEF Signal, TypeOK, WriterTypes, StreamTypes, ClientTypes
  <2>7. CASE AppendReturn(w)
    BY <2>7 DEF AppendReturn, TypeOK, WriterTypes, StreamTypes, ClientTypes
  <2>8. QED
    BY <1>1, <2>1, <2>2, <2>3, <2>4, <2>5, <2>6, <2>7 DEF WriterStep
<1>2. ASSUME NEW c \in Consumers, StreamStep(c) PROVE TypeOK'
  <2>1. CASE Subscribe(c)
    BY <2>1 DEF Subscribe, TypeOK, WriterTypes, StreamTypes, ClientTypes
  <2>2. CASE TakeSignal(c)
    BY <2>2 DEF TakeSignal, TypeOK, WriterTypes, StreamTypes, ClientTypes
  <2>3. CASE Query(c)
    <3>1. EventsSince(log, scur[c], Exclude[c]) \subseteq Nat
      BY DEF EventsSince
    <3>2. QED
      BY <2>3, <3>1 DEF Query, TypeOK, WriterTypes, StreamTypes, ClientTypes
  <2>4. CASE QueryError(c)
    BY <2>4 DEF QueryError, TypeOK, WriterTypes, StreamTypes, ClientTypes
  <2>5. ASSUME NEW n \in srows[c], EmitRow(c, n) PROVE TypeOK'
    <3>1. n \in Nat
      BY DEF TypeOK, WriterTypes, StreamTypes, ClientTypes
    <3>2. WriterTypes'
      BY <2>5 DEF EmitRow, TypeOK, WriterTypes
    <3>3. StreamTypes'
      BY <2>5, <3>1 DEF EmitRow, TypeOK, StreamTypes
    <3>4. ClientTypes'
      BY <2>5, <3>1 DEF EmitRow, TypeOK, ClientTypes
    <3>5. QED
      BY <3>2, <3>3, <3>4 DEF TypeOK
  <2>6. CASE FlushDone(c)
    <3>1. WriterTypes' /\ StreamTypes'
      BY <2>6 DEF FlushDone, TypeOK, WriterTypes, StreamTypes
    <3>2. ClientTypes'
      BY <2>6 DEF FlushDone, TypeOK, ClientTypes
    <3>3. QED
      BY <3>1, <3>2 DEF TypeOK
  <2>7. CASE Inject(c)
    BY <2>7 DEF Inject, TypeOK, WriterTypes, StreamTypes, ClientTypes
  <2>8. CASE EmitInject(c)
    BY <2>8 DEF EmitInject, TypeOK, WriterTypes, StreamTypes, ClientTypes
  <2>9. CASE ToggleMute(c)
    BY <2>9 DEF ToggleMute, TypeOK, WriterTypes, StreamTypes, ClientTypes
  <2>10. QED
    BY <1>2, <2>1, <2>2, <2>3, <2>4, <2>5, <2>6, <2>7, <2>8, <2>9 DEF StreamStep
<1>3. ASSUME NEW c \in Consumers, ClientStep(c) PROVE TypeOK'
  <2>1. CASE Start(c)
    BY <2>1 DEF Start, TypeOK, WriterTypes, StreamTypes, ClientTypes
  <2>2. CASE Connect(c)
    BY <2>2 DEF Connect, TypeOK, WriterTypes, StreamTypes, ClientTypes
  <2>3. CASE ConnectRefused(c)
    <3>1. WriterTypes' /\ StreamTypes'
      BY <2>3 DEF ConnectRefused, TypeOK, WriterTypes, StreamTypes
    <3>2. ClientTypes'
      BY <2>3 DEF ConnectRefused, TypeOK, ClientTypes
    <3>3. QED
      BY <3>1, <3>2 DEF TypeOK
  <2>4. CASE ConnectAlien(c)
    BY <2>4 DEF ConnectAlien, TypeOK, WriterTypes, StreamTypes, ClientTypes
  <2>5. ASSUME NEW persisted \in BOOLEAN, Accept(c, persisted)
        PROVE  /\ ccur' \in [Consumers -> Nat]
               /\ disk' \in [Consumers -> Nat]
               /\ handled' \in [Consumers -> SUBSET Nat]
               /\ lagged' \in [Consumers -> BOOLEAN]
               /\ faults' \in 0 .. MaxFaults
    <3>1. wire[c] # << >> /\ wire[c] \in Seq(Frames)
      BY <2>5 DEF Accept, Deliverable, TypeOK, WriterTypes, StreamTypes, ClientTypes
    <3>2. NextCursor(c) \in Nat
      <4>1. Head(wire[c]) \in Frames
        BY <3>1
      <4>2. ccur[c] \in Nat
        BY DEF TypeOK, WriterTypes, StreamTypes, ClientTypes
      <4>3. QED
        BY <4>1, <4>2 DEF NextCursor, Frames
    <3>3. QED
      BY <2>5, <3>2 DEF Accept, TypeOK, WriterTypes, StreamTypes, ClientTypes
  <2>6. ASSUME NEW persisted \in BOOLEAN, Handle(c, persisted) PROVE TypeOK'
    <3>1. Tail(wire[c]) \in Seq(Frames)
      BY <2>6 DEF Handle, Accept, Deliverable, TypeOK, WriterTypes, StreamTypes, ClientTypes
    <3>2. QED
      BY <2>5, <2>6, <3>1 DEF Handle, TypeOK, WriterTypes, StreamTypes, ClientTypes
  <2>7. ASSUME NEW persisted \in BOOLEAN, HandleStop(c, persisted) PROVE TypeOK'
    <3>1. StreamTypes'
      BY <2>7, StreamsEndTypes DEF HandleStop
    <3>2. WriterTypes'
      BY <2>7 DEF HandleStop, TypeOK, WriterTypes
    <3>3. ClientTypes'
      BY <2>7, <2>5 DEF HandleStop, TypeOK, ClientTypes
    <3>4. QED
      BY <3>1, <3>2, <3>3 DEF TypeOK
  <2>8. CASE SkipControl(c)
    BY <2>8 DEF SkipControl, TypeOK, WriterTypes, StreamTypes, ClientTypes
  <2>9. ASSUME NEW fatal \in BOOLEAN, StreamLost(c, fatal), faults' \in 0 .. MaxFaults
        PROVE  TypeOK'
    <3>1. StreamTypes'
      BY <2>9, StreamsEndTypes DEF StreamLost
    <3>2. WriterTypes'
      BY <2>9 DEF StreamLost, TypeOK, WriterTypes
    <3>3. ClientTypes'
      BY <2>9 DEF StreamLost, TypeOK, ClientTypes
    <3>4. QED
      BY <3>1, <3>2, <3>3 DEF TypeOK
  <2>10. CASE HandleError(c)
    <3>1. faults' \in 0 .. MaxFaults
      BY <2>10 DEF HandleError, TypeOK, WriterTypes, StreamTypes, ClientTypes
    <3>2. QED
      BY <2>9, <2>10, <3>1 DEF HandleError
  <2>11. CASE FrameTooLong(c)
    BY <2>9, <2>11 DEF FrameTooLong, TypeOK, WriterTypes, StreamTypes, ClientTypes
  <2>12. CASE Drop(c)
    <3>1. faults' \in 0 .. MaxFaults
      BY <2>12 DEF Drop, TypeOK, WriterTypes, StreamTypes, ClientTypes
    <3>2. QED
      BY <2>9, <2>12, <3>1 DEF Drop
  <2>13. CASE EndOfStream(c)
    BY <2>9, <2>13 DEF EndOfStream, TypeOK, WriterTypes, StreamTypes, ClientTypes
  <2>14. CASE Refresh(c)
    BY <2>14 DEF Refresh, TypeOK, WriterTypes, StreamTypes, ClientTypes
  <2>15. CASE RefreshError(c)
    BY <2>15 DEF RefreshError, TypeOK, WriterTypes, StreamTypes, ClientTypes
  <2>16. CASE ClientExit(c)
    <3>1. StreamTypes'
      BY <2>16, StreamsEndTypes DEF ClientExit
    <3>2. WriterTypes'
      BY <2>16 DEF ClientExit, TypeOK, WriterTypes
    <3>3. ClientTypes'
      BY <2>16 DEF ClientExit, TypeOK, ClientTypes
    <3>4. QED
      BY <3>1, <3>2, <3>3 DEF TypeOK
  <2>17. QED
    BY <1>3, <2>1, <2>2, <2>3, <2>4, <2>6, <2>7, <2>8, <2>10, <2>11, <2>12, <2>13,
       <2>14, <2>15, <2>16 DEF ClientStep
<1>4. CASE DaemonStop
  <2>1. StreamTypes'
    BY <1>4, StreamsEndTypes DEF DaemonStop
  <2>2. WriterTypes'
    BY <1>4 DEF DaemonStop, TypeOK, WriterTypes
  <2>3. ClientTypes'
    BY <1>4 DEF DaemonStop, TypeOK, ClientTypes
  <2>4. QED
    BY <2>1, <2>2, <2>3 DEF TypeOK
<1>5. CASE DaemonStart
  BY <1>5 DEF DaemonStart, TypeOK, WriterTypes, StreamTypes, ClientTypes
<1>6. QED
  BY <1>0, <1>1, <1>2, <1>3, <1>4, <1>5 DEF Next

\* The initial state satisfies both.
LEMMA InitTypeLog == Init => TypeOK /\ LogInv
<1> SUFFICES ASSUME Init PROVE TypeOK /\ LogInv
  OBVIOUS
<1>1. DOMAIN log = 1 .. 0
  BY DEF Init
<1>2. TypeOK
  BY <1>1, ConstantsAssumption DEF Init, TypeOK, WriterTypes, StreamTypes, ClientTypes
<1>3. LogInv
  <2>1. \E n \in Nat : DOMAIN log = 1 .. n
    BY <1>1
  <2>2. \A s \in DOMAIN log : FALSE
    BY <1>1
  <2>3. \A w \in Writers : wpc[w] = "idle" /\ db # w
    BY ConstantsAssumption DEF Init
  <2>4. QED
    BY <2>1, <2>2, <2>3 DEF LogInv, PublishedIsReadable
<1>4. QED
  BY <1>2, <1>3

\* Types and the log invariant hold in every reachable state.
THEOREM TypesAndLog == Spec => [](TypeOK /\ LogInv)
<1>1. TypeOK /\ LogInv /\ [Next]_vars => (TypeOK /\ LogInv)'
  BY TypeStep, LogInvStep, NextIsLogStep
<1>2. QED
  BY InitTypeLog, <1>1, PTL DEF Spec

\* Type correctness of the event plane.
THEOREM TypeCorrect == Spec => []TypeOK
  BY TypesAndLog, PTL

\* The log is dense and a dedup key names one row, however many writers race,
\* fail or die inside store.AppendEvent.
THEOREM LogIsGapFree == Spec => []GapFreeLog
<1>1. LogInv => GapFreeLog
  BY LastSeqDense DEF LogInv, GapFreeLog
<1>2. QED
  BY TypesAndLog, <1>1, PTL

\* Append publishes only what is already readable.
THEOREM PublishesReadable == Spec => []PublishedIsReadable
<1>1. LogInv => PublishedIsReadable
  BY DEF LogInv
<1>2. QED
  BY TypesAndLog, <1>1, PTL

\* No step rewrites or removes a committed row.
THEOREM LogIsAppendOnly == Spec => AppendOnly
<1> DEFINE Keeps == /\ DOMAIN log \subseteq DOMAIN log'
                    /\ \A s \in DOMAIN log : log'[s] = log[s]
<1>1. LogInv /\ LogStep => Keeps
  <2> SUFFICES ASSUME LogInv, LogStep PROVE Keeps
    OBVIOUS
  <2> PICK n \in Nat : DOMAIN log = 1 .. n
    BY DEF LogInv
  <2>1. ASSUME NEW w \in Writers, AppendCommit(w) PROVE Keeps
    BY <2>1, InsertDense DEF AppendCommit, LogInv
  <2>2. CASE UNCHANGED log
    BY <2>2
  <2>3. QED
    BY <2>1, <2>2 DEF LogStep, AppendAllocate, AppendDedup, AppendError, Publish,
       AppendReturn, DaemonStop
<1>2. LogInv /\ [Next]_vars => [Keeps]_vars
  BY <1>1, NextIsLogStep
<1>3. QED
  BY TypesAndLog, <1>2, PTL DEF Spec, AppendOnly

----------------------------------------------------------------------------
(* Streams and clients.  The invariant is stated for one consumer; a step  *)
(* of another consumer leaves everything it mentions alone.                *)

\* What c's stream finds past its cursor.
Unseen(c) == EventsSince(log, scur[c], Exclude[c])

\* Position i of c's wire holds a log row.
IsRow(c, i) == wire[c][i].kind = "event"

\* Streams and frames exist only on an open connection, the rows a stream has
\* left to write are the oldest ones it has not written (no row it should
\* write lies below one of them), and cursors name rows.
Shape(c) ==
  /\ spc[c] # "none" => cpc[c] = "stream"
  /\ wire[c] # << >> => cpc[c] = "stream"
  /\ spc[c] # "emit" => srows[c] = {}
  /\ srows[c] \subseteq Unseen(c)
  /\ \A n \in srows[c], m \in Unseen(c) : m < n => m \in srows[c]
  /\ ccur[c] \in DOMAIN log \cup {0}
  /\ scur[c] \in DOMAIN log \cup {0}
  /\ \A i \in DOMAIN wire[c] : IsRow(c, i) =>
       wire[c][i].id \in DOMAIN log /\ Wanted(c, wire[c][i].id)

\* Every row c wants below a cursor is settled or, below the stream's cursor,
\* still on the wire; and a row on the wire comes after every row below it
\* that is not settled.
Cover(c) ==
  /\ \A n \in DOMAIN log :
       Wanted(c, n) /\ (n <= disk[c] \/ n <= ccur[c]) => n \in Settled(c)
  /\ spc[c] # "none" => \A n \in DOMAIN log :
       Wanted(c, n) /\ n <= scur[c] =>
         n \in Settled(c) \/ \E i \in DOMAIN wire[c] : wire[c][i] = EventFrame(n)
  /\ \A i \in DOMAIN wire[c] : IsRow(c, i) => \A m \in DOMAIN log :
       Wanted(c, m) /\ m < wire[c][i].id =>
         m \in Settled(c) \/ \E j \in 1 .. i - 1 : wire[c][j] = EventFrame(m)

\* Cursors are ordered file <= memory <= wire <= stream, rows on the wire are
\* ascending, and without a lost cursor write the file covers what was handled.
Order(c) ==
  /\ disk[c] <= ccur[c]
  /\ \A i \in DOMAIN wire[c] : IsRow(c, i) => ccur[c] < wire[c][i].id
  /\ \A i, j \in DOMAIN wire[c] :
       i < j /\ IsRow(c, i) /\ IsRow(c, j) => wire[c][i].id < wire[c][j].id
  /\ spc[c] # "none" => /\ ccur[c] <= scur[c]
                        /\ \A i \in DOMAIN wire[c] : IsRow(c, i) => wire[c][i].id <= scur[c]
  /\ ~lagged[c] => \A n \in handled[c] : n <= disk[c]

\* A committed append has yet to signal c.
Pending(c) ==
  \E w \in Writers : wpc[w] = "committed" \/ (wpc[w] = "sending" /\ c \in wto[w])

\* A subscribed stream with an empty wakeup channel holds in srows everything
\* it has not written, or a signal is on its way.
Wakeful(c) ==
  spc[c] \in {"emit", "live"} /\ ~wake[c] /\ ~qfail[c] =>
    Unseen(c) \subseteq srows[c] \/ Pending(c)

\* The whole inductive invariant.
IInv == /\ TypeOK
        /\ LogInv
        /\ \A c \in Consumers : Shape(c) /\ Cover(c) /\ Order(c) /\ Wakeful(c)

\* Everything Shape, Cover and Order say about c is unchanged.
Same(c) ==
  /\ log' = log
  /\ disk'[c] = disk[c] /\ ccur'[c] = ccur[c] /\ cpc'[c] = cpc[c]
  /\ spc'[c] = spc[c] /\ scur'[c] = scur[c] /\ srows'[c] = srows[c]
  /\ wire'[c] = wire[c]
  /\ handled'[c] = handled[c] /\ withheld'[c] = withheld[c] /\ lagged'[c] = lagged[c]

\* The parts of the invariant about one consumer.
Local(c) == Shape(c) /\ Cover(c) /\ Order(c)

\* A step that leaves a consumer alone keeps its part.
LEMMA SameKeeps ==
  ASSUME NEW c \in Consumers, Local(c), Same(c)
  PROVE  Local(c)'
<1>1. Shape(c)'
  BY DEF Local, Same, Shape, Unseen, EventsSince, IsRow, Wanted
<1>2. Cover(c)'
  BY DEF Local, Same, Cover, Settled, IsRow, Wanted
<1>3. Order(c)'
  BY DEF Local, Same, Order, IsRow
<1>4. QED
  BY <1>1, <1>2, <1>3 DEF Local

\* A step of another consumer's stream or client leaves c alone.
LEMMA OthersLeave ==
  ASSUME TypeOK, NEW c \in Consumers, NEW d \in Consumers, c # d,
         StreamStep(d) \/ ClientStep(d)
  PROVE  Same(c)
<1> USE DEF TypeOK, StreamTypes, ClientTypes, Same, logVars, streamVars, clientVars
<1>1. CASE StreamStep(d)
  BY <1>1 DEF StreamStep, Subscribe, TakeSignal, Query, QueryError,
     EmitRow, FlushDone, Inject, EmitInject, ToggleMute
<1>2. CASE ClientStep(d)
  <2>1. ASSUME NEW persisted \in BOOLEAN, Accept(d, persisted)
        PROVE  /\ disk'[c] = disk[c] /\ ccur'[c] = ccur[c]
               /\ handled'[c] = handled[c] /\ lagged'[c] = lagged[c]
    BY <2>1 DEF Accept
  <2>2. StreamsEnd({d}) => spc'[c] = spc[c] /\ scur'[c] = scur[c] /\ srows'[c] = srows[c]
    BY DEF StreamsEnd
  <2>3. ASSUME NEW persisted \in BOOLEAN, Handle(d, persisted) \/ HandleStop(d, persisted)
        PROVE  Same(c)
    BY <2>1, <2>2, <2>3 DEF Handle, HandleStop
  <2>4. ASSUME NEW fatal, StreamLost(d, fatal) PROVE Same(c)
    BY <2>2, <2>4 DEF StreamLost
  <2>5. CASE ClientExit(d)
    BY <2>2, <2>5 DEF ClientExit
  <2>6. CASE HandleError(d) \/ FrameTooLong(d) \/ Drop(d) \/ EndOfStream(d)
    BY <2>4, <2>6 DEF HandleError, FrameTooLong, Drop, EndOfStream
  <2>7. CASE Start(d) \/ Connect(d) \/ ConnectRefused(d) \/ ConnectAlien(d)
             \/ SkipControl(d) \/ Refresh(d) \/ RefreshError(d)
    BY <2>7 DEF Start, Connect, ConnectRefused, ConnectAlien, SkipControl, Refresh,
       RefreshError
  <2>8. QED
    BY <1>2, <2>3, <2>5, <2>6, <2>7 DEF ClientStep
<1>3. QED
  BY <1>1, <1>2

\* Of a writer's steps only the commit changes anything about c.
LEMMA WritersLeave ==
  ASSUME NEW c \in Consumers, NEW w \in Writers, WriterStep(w), ~AppendCommit(w)
  PROVE  Same(c)
  BY DEF WriterStep, AppendAllocate, AppendDedup, AppendError, Publish, Signal,
     AppendReturn, Same, streamVars, clientVars

\* A commit adds a row above every cursor.
LEMMA CommitKeeps ==
  ASSUME TypeOK, LogInv, NEW c \in Consumers, Local(c), NEW w \in Writers, AppendCommit(w)
  PROVE  Local(c)'
<1> PICK n \in Nat : DOMAIN log = 1 .. n
  BY DEF LogInv
<1>1. /\ DOMAIN log' = 1 .. n + 1
      /\ \A s \in 1 .. n : log'[s] = log[s]
  BY InsertDense DEF AppendCommit, LogInv
<1>2. /\ disk' = disk /\ ccur' = ccur /\ cpc' = cpc /\ spc' = spc /\ scur' = scur
      /\ srows' = srows /\ wire' = wire /\ handled' = handled /\ withheld' = withheld
      /\ lagged' = lagged
  BY DEF AppendCommit, streamVars, clientVars
<1>3. ccur[c] \in 0 .. n /\ scur[c] \in 0 .. n /\ disk[c] \in 0 .. n
  BY DEF Local, Shape, Order, TypeOK, ClientTypes
<1>4. \A s \in 1 .. n + 1 : s \in 1 .. n \/ s = n + 1
  OBVIOUS
<1>5. Shape(c)'
  <2>1. srows[c] \subseteq 1 .. n
    BY DEF Local, Shape, Unseen, EventsSince
  <2>2. Unseen(c)' \cap (1 .. n) = Unseen(c)
    BY <1>1, <1>2 DEF Unseen, EventsSince
  <2>3. Unseen(c)' \subseteq 1 .. n + 1
    BY <1>1 DEF Unseen, EventsSince
  <2>4. \A k \in srows[c], m \in Unseen(c)' : m < k => m \in srows[c]
    BY <1>4, <2>1, <2>2, <2>3 DEF Local, Shape
  <2>5. srows[c] \subseteq Unseen(c)'
    BY <2>2 DEF Local, Shape
  <2>6. QED
    BY <1>1, <1>2, <2>4, <2>5 DEF Local, Shape, IsRow, Wanted
<1>6. Cover(c)'
  <2>1. \A i \in DOMAIN wire[c] : IsRow(c, i) => wire[c][i].id \in 1 .. n
    BY DEF Local, Shape
  <2>2. \A m \in 1 .. n : Wanted(c, m)' <=> Wanted(c, m)
    BY <1>1 DEF Wanted
  <2>3. QED
    BY <1>1, <1>2, <1>3, <1>4, <2>1, <2>2 DEF Local, Cover, Settled, IsRow
<1>7. Order(c)'
  BY <1>2 DEF Local, Order, IsRow
<1>8. QED
  BY <1>5, <1>6, <1>7 DEF Local

\* With its connection gone and its wire empty, all that is left to keep is
\* what the two cursors say; every way a stream ends comes down to this.
LEMMA ClosedKeeps ==
  ASSUME NEW c \in Consumers, Local(c), TypeOK,
         log' = log, withheld'[c] = withheld[c],
         spc'[c] = "none", srows'[c] = {}, wire'[c] = << >>, scur'[c] = 0,
         disk'[c] = disk[c], ccur'[c] = ccur[c], handled'[c] = handled[c],
         lagged'[c] = lagged[c]
  PROVE  Local(c)'
<1>1. Shape(c)'
  BY DEF Local, Shape, IsRow
<1>2. Cover(c)'
  BY DEF Local, Cover, Settled, Wanted
<1>3. Order(c)'
  BY DEF Local, Order
<1>4. QED
  BY <1>1, <1>2, <1>3 DEF Local

\* The next row c's stream writes: everything c wants below it is settled or
\* already on the wire.
LEMMA EmitKeeps ==
  ASSUME TypeOK, LogInv, NEW c \in Consumers, Local(c), NEW n \in srows[c], EmitRow(c, n)
  PROVE  Local(c)'
<1> USE ConstantsAssumption
<1>1. /\ log' = log /\ disk' = disk /\ ccur' = ccur /\ cpc' = cpc /\ spc' = spc
      /\ handled' = handled /\ lagged' = lagged
  BY DEF EmitRow, logVars, clientVars
<1>2. /\ scur'[c] = n /\ srows'[c] = srows[c] \ {n}
      /\ spc[c] = "emit" /\ n \in DOMAIN log /\ n > scur[c] /\ n \in Nat
      /\ log[n].origin # Exclude[c]
      /\ \A m \in srows[c] : n <= m
  BY DEF EmitRow, TypeOK, StreamTypes, Local, Shape, Unseen, EventsSince
<1>3. wire[c] \in Seq(Frames) /\ wire'[c] \in Seq(Frames)
  BY FrameTypes, <1>2 DEF EmitRow, TypeOK, ClientTypes
<1>4. DOMAIN log \subseteq Nat /\ scur[c] \in Nat /\ ccur[c] \in Nat
  BY DEF TypeOK, WriterTypes, StreamTypes, ClientTypes
<1>5. \A m \in DOMAIN log : m < n /\ m > scur[c] => log[m].origin = Exclude[c]
  BY <1>2, <1>4 DEF Local, Shape, Unseen, EventsSince
<1>6. /\ srows'[c] \subseteq Unseen(c)'
      /\ \A k \in srows'[c], m \in Unseen(c)' : m < k => m \in srows'[c]
  BY <1>1, <1>2, <1>4 DEF Local, Shape, Unseen, EventsSince
<1>7. \A m \in DOMAIN log : Wanted(c, m)' <=> Wanted(c, m)
  BY <1>1 DEF Wanted
<1>8. \A m \in DOMAIN log : Wanted(c, m) /\ m < n =>
        m \in Settled(c) \/ \E i \in DOMAIN wire[c] : wire[c][i] = EventFrame(m)
  BY <1>2, <1>4, <1>5 DEF Local, Cover, Wanted
<1>9. CASE log[n].presence \/ muted[c]
  <2>1. wire'[c] = wire[c]
    BY <1>9 DEF EmitRow
  <2>2. /\ withheld[c] \subseteq withheld'[c]
        /\ Wanted(c, n) => n \in withheld'[c]
    BY <1>9 DEF EmitRow, TypeOK, ClientTypes, Wanted
  <2>3. Shape(c)'
    BY <1>1, <1>2, <1>6, <1>7, <2>1 DEF Local, Shape, IsRow
  <2>4. Settled(c) \subseteq Settled(c)' /\ (Wanted(c, n) => n \in Settled(c)')
    BY <1>1, <2>2 DEF Settled
  <2>5. Cover(c)'
    <3>1. \A m \in DOMAIN log : Wanted(c, m) /\ m <= n =>
            m \in Settled(c)' \/ \E i \in DOMAIN wire[c] : wire[c][i] = EventFrame(m)
      BY <1>2, <1>4, <1>8, <2>4
    <3>2. QED
      BY <1>1, <1>2, <1>7, <2>1, <2>4, <3>1 DEF Local, Cover, IsRow
  <2>6. Order(c)'
    BY <1>1, <1>2, <1>3, <1>4, <2>1 DEF Local, Order, Shape, IsRow, Frames
  <2>7. QED
    BY <2>3, <2>5, <2>6 DEF Local
<1>10. CASE ~(log[n].presence \/ muted[c])
  <2>1. wire'[c] = Append(wire[c], EventFrame(n)) /\ withheld'[c] = withheld[c]
    BY <1>10 DEF EmitRow, TypeOK, ClientTypes
  <2> DEFINE k == Len(wire[c])
  <2>2. /\ k \in Nat /\ DOMAIN wire[c] = 1 .. k /\ DOMAIN wire'[c] = 1 .. k + 1
        /\ wire'[c][k + 1] = EventFrame(n)
        /\ \A i \in 1 .. k : wire'[c][i] = wire[c][i]
        /\ \A i \in 1 .. k : wire[c][i] \in Frames
    BY <1>3, <2>1, FrameTypes, <1>2
  <2>3. /\ EventFrame(n).kind = "event" /\ EventFrame(n).id = n
        /\ \A i \in 1 .. k : wire[c][i].id \in Nat
        /\ \A i \in 1 .. k + 1 : i \in 1 .. k \/ i = k + 1
    BY <2>2 DEF EventFrame, Frames
  <2> HIDE DEF k
  <2>4. Wanted(c, n) /\ cpc[c] = "stream"
    BY <1>2, <1>10 DEF Wanted, Local, Shape
  <2>5. Shape(c)'
    BY <1>1, <1>2, <1>6, <1>7, <2>2, <2>3, <2>4 DEF Local, Shape, IsRow
  <2>6. Settled(c)' = Settled(c)
    BY <1>1, <2>1 DEF Settled
  <2>7. \A m \in DOMAIN log : Wanted(c, m) /\ m <= n =>
          m \in Settled(c) \/ \E i \in 1 .. k + 1 : wire'[c][i] = EventFrame(m)
    BY <1>2, <1>4, <1>8, <2>2
  <2>8. \A i \in 1 .. k + 1 : IsRow(c, i)' => \A m \in DOMAIN log :
          Wanted(c, m) /\ m < wire'[c][i].id =>
            m \in Settled(c) \/ \E j \in 1 .. i - 1 : wire'[c][j] = EventFrame(m)
    <3>1. ASSUME NEW i \in 1 .. k, IsRow(c, i)', NEW m \in DOMAIN log,
                 Wanted(c, m), m < wire'[c][i].id
          PROVE  m \in Settled(c) \/ \E j \in 1 .. i - 1 : wire'[c][j] = EventFrame(m)
      BY <2>2, <3>1 DEF Local, Cover, IsRow
    <3>2. ASSUME NEW m \in DOMAIN log, Wanted(c, m), m < n
          PROVE  m \in Settled(c) \/ \E j \in 1 .. (k + 1) - 1 : wire'[c][j] = EventFrame(m)
      BY <1>8, <2>2, <3>2
    <3>3. QED
      BY <2>2, <2>3, <3>1, <3>2
  <2>9. Cover(c)'
    BY <1>1, <1>2, <1>7, <2>2, <2>6, <2>7, <2>8 DEF Local, Cover
  <2>10. Order(c)'
    <3>1. \A i \in 1 .. k : IsRow(c, i) => wire[c][i].id <= scur[c] /\ wire[c][i].id < n
      BY <1>2, <1>4, <2>2, <2>3 DEF Local, Order
    <3>2. ASSUME NEW i \in 1 .. k + 1, NEW j \in 1 .. k + 1, i < j,
                 IsRow(c, i)', IsRow(c, j)'
          PROVE  wire'[c][i].id < wire'[c][j].id
      <4>1. i \in 1 .. k /\ IsRow(c, i) /\ wire'[c][i] = wire[c][i]
        BY <2>2, <3>2 DEF IsRow
      <4>2. CASE j \in 1 .. k
        <5>1. IsRow(c, j) /\ wire'[c][j] = wire[c][j]
          BY <2>2, <3>2, <4>2 DEF IsRow
        <5>2. QED
          BY <2>2, <3>2, <4>1, <4>2, <5>1 DEF Local, Order
      <4>3. CASE j = k + 1
        BY <2>2, <2>3, <3>1, <4>1, <4>3
      <4>4. QED
        BY <2>3, <4>2, <4>3
    <3>3. \A i \in 1 .. k + 1 : IsRow(c, i)' => ccur[c] < wire'[c][i].id /\ wire'[c][i].id <= n
      <4>1. ccur[c] < n /\ \A i \in 1 .. k : IsRow(c, i) => ccur[c] < wire[c][i].id
        BY <1>2, <1>4, <2>2 DEF Local, Order
      <4>2. \A i \in 1 .. k : IsRow(c, i)' <=> IsRow(c, i)
        BY <2>2 DEF IsRow
      <4>3. \A i \in 1 .. k : wire[c][i].id < n => wire[c][i].id <= n
        BY <1>2, <2>3
      <4>4. QED
        BY <1>2, <2>2, <2>3, <3>1, <4>1, <4>2, <4>3
    <3>4. ccur[c] <= n
      BY <1>2, <1>4 DEF Local, Order
    <3>5. QED
      BY <1>1, <1>2, <2>2, <3>2, <3>3, <3>4 DEF Local, Order
  <2>11. QED
    BY <2>5, <2>9, <2>10 DEF Local
<1>11. QED
  BY <1>9, <1>10

\* A control or injected frame carries no row: appending one changes nothing.
LEMMA ControlKeeps ==
  ASSUME TypeOK, NEW c \in Consumers, Local(c), NEW f \in Frames, f.kind # "event",
         wire'[c] = Append(wire[c], f), spc[c] # "none", spc'[c] # "none",
         spc'[c] # "emit" => srows[c] = {},
         log' = log, disk'[c] = disk[c], ccur'[c] = ccur[c], cpc'[c] = cpc[c],
         scur'[c] = scur[c], srows'[c] = srows[c],
         handled'[c] = handled[c], withheld'[c] = withheld[c], lagged'[c] = lagged[c]
  PROVE  Local(c)'
<1> DEFINE k == Len(wire[c])
<1>1. wire[c] \in Seq(Frames)
  BY DEF TypeOK, ClientTypes
<1>2. /\ k \in Nat /\ DOMAIN wire[c] = 1 .. k /\ DOMAIN wire'[c] = 1 .. k + 1
      /\ wire'[c][k + 1] = f
      /\ \A i \in 1 .. k : wire'[c][i] = wire[c][i]
  BY <1>1
<1> HIDE DEF k
<1>3. /\ \A i \in 1 .. k : IsRow(c, i)' <=> IsRow(c, i)
      /\ \A i \in 1 .. k + 1 : IsRow(c, i)' => i \in 1 .. k
  BY <1>2 DEF IsRow
<1>4. Shape(c)'
  BY <1>2, <1>3 DEF Local, Shape, Unseen, EventsSince, Wanted
<1>5. Cover(c)'
  <2>1. Settled(c)' = Settled(c) /\ \A m \in DOMAIN log : Wanted(c, m)' <=> Wanted(c, m)
    BY DEF Settled, Wanted
  <2>2. ASSUME NEW i \in 1 .. k, IsRow(c, i), NEW m \in DOMAIN log,
               Wanted(c, m), m < wire[c][i].id
        PROVE  m \in Settled(c) \/ \E j \in 1 .. i - 1 : wire'[c][j] = EventFrame(m)
    BY <1>2, <2>2 DEF Local, Cover
  <2>3. QED
    BY <1>2, <1>3, <2>1, <2>2 DEF Local, Cover
<1>6. Order(c)'
  BY <1>2, <1>3 DEF Local, Order
<1>7. QED
  BY <1>4, <1>5, <1>6 DEF Local

\* Reading the head of the wire: a row below which nothing is outstanding, or
\* a frame without one.  The handled row becomes settled and the cursor.
LEMMA PopKeeps ==
  ASSUME TypeOK, LogInv, NEW c \in Consumers, Local(c),
         wire[c] # << >>, wire'[c] = Tail(wire[c]),
         log' = log, cpc'[c] = cpc[c], spc'[c] = spc[c],
         scur'[c] = scur[c], srows'[c] = srows[c], withheld'[c] = withheld[c],
         ccur'[c] = NextCursor(c),
         Head(wire[c]).kind = "event" => handled'[c] = handled[c] \cup {NextCursor(c)},
         Head(wire[c]).kind # "event" => handled'[c] = handled[c],
         disk'[c] \in {disk[c], NextCursor(c)},
         \/ lagged'[c]
         \/ ~lagged[c] /\ (disk'[c] = NextCursor(c) \/ handled'[c] = handled[c])
  PROVE  Local(c)'
<1> DEFINE k == Len(wire[c])
<1>1. wire[c] \in Seq(Frames)
  BY DEF TypeOK, ClientTypes
<1>2. /\ k \in Nat /\ k >= 1 /\ DOMAIN wire[c] = 1 .. k /\ DOMAIN wire'[c] = 1 .. k - 1
      /\ \A i \in 1 .. k - 1 : wire'[c][i] = wire[c][i + 1]
      /\ Head(wire[c]) = wire[c][1]
      /\ \A i \in 1 .. k : wire[c][i] \in Frames
  BY <1>1
<1> HIDE DEF k
<1>3. \A i \in 1 .. k - 1 : i + 1 \in 1 .. k /\ (IsRow(c, i)' <=> IsRow(c, i + 1))
  BY <1>2 DEF IsRow
<1>4. /\ DOMAIN log \subseteq Nat
      /\ ccur[c] \in Nat /\ disk[c] \in Nat /\ scur[c] \in Nat /\ NextCursor(c) \in Nat
      /\ \A i \in 1 .. k : wire[c][i].id \in Nat
      /\ handled[c] \subseteq Nat
  BY <1>2 DEF TypeOK, WriterTypes, StreamTypes, ClientTypes, NextCursor, Frames
<1>5. /\ IsRow(c, 1) => NextCursor(c) = wire[c][1].id
      /\ ~IsRow(c, 1) => NextCursor(c) = ccur[c]
      /\ ccur[c] <= NextCursor(c)
  <2>1. IsRow(c, 1) => ccur[c] < wire[c][1].id
    BY <1>2 DEF Local, Order
  <2>2. 1 \in 1 .. k
    BY <1>2
  <2>3. QED
    BY <1>2, <1>4, <2>1, <2>2 DEF NextCursor, IsRow
<1>6. Shape(c)'
  <2>1. Unseen(c)' = Unseen(c)
    BY DEF Unseen, EventsSince
  <2>2. NextCursor(c) \in DOMAIN log \cup {0}
    BY <1>2, <1>5 DEF Local, Shape
  <2>3. \A i \in 1 .. k - 1 : IsRow(c, i)' =>
          wire'[c][i].id \in DOMAIN log /\ Wanted(c, wire'[c][i].id)
    BY <1>2, <1>3 DEF Local, Shape
  <2>4. cpc[c] = "stream"
    BY DEF Local, Shape
  <2>5. QED
    BY <1>2, <2>1, <2>2, <2>3, <2>4 DEF Local, Shape, Wanted
<1>7. Settled(c) \subseteq Settled(c)' /\ (IsRow(c, 1) => wire[c][1].id \in Settled(c)')
  BY <1>2, <1>5 DEF Settled, IsRow
<1>8. Cover(c)'
  <2>1. \A m \in DOMAIN log : Wanted(c, m)' <=> Wanted(c, m)
    BY DEF Wanted
  <2>2. \A m : wire[c][1] = EventFrame(m) => m \in Settled(c)'
    BY <1>7 DEF EventFrame, IsRow
  <2>3. \A m \in DOMAIN log : Wanted(c, m) /\ m <= NextCursor(c) => m \in Settled(c)'
    <3>1. CASE IsRow(c, 1)
      <4>1. \A m \in DOMAIN log : Wanted(c, m) /\ m < wire[c][1].id => m \in Settled(c)
        BY <1>2, <3>1 DEF Local, Cover
      <4>2. QED
        BY <1>4, <1>5, <1>7, <3>1, <4>1
    <3>2. CASE ~IsRow(c, 1)
      BY <1>5, <1>7, <3>2 DEF Local, Cover
    <3>3. QED
      BY <3>1, <3>2
  <2>4. \A m \in DOMAIN log :
          Wanted(c, m) /\ (m <= disk'[c] \/ m <= NextCursor(c)) => m \in Settled(c)'
    BY <1>7, <2>3 DEF Local, Cover
  <2>5. ASSUME NEW m \in DOMAIN log, NEW j \in 1 .. k, wire[c][j] = EventFrame(m)
        PROVE  m \in Settled(c)' \/ (j - 1 \in 1 .. k - 1 /\ wire'[c][j - 1] = EventFrame(m))
    <3>1. CASE j = 1
      BY <2>2, <2>5, <3>1
    <3>2. CASE j # 1
      BY <1>2, <2>5, <3>2
    <3>3. QED
      BY <3>1, <3>2
  <2>6. spc[c] # "none" => \A m \in DOMAIN log :
          Wanted(c, m) /\ m <= scur[c] =>
            m \in Settled(c)' \/ \E i \in 1 .. k - 1 : wire'[c][i] = EventFrame(m)
    BY <1>2, <1>7, <2>5 DEF Local, Cover
  <2>7. ASSUME NEW i \in 1 .. k - 1, IsRow(c, i)', NEW m \in DOMAIN log,
               Wanted(c, m), m < wire'[c][i].id
        PROVE  m \in Settled(c)' \/ \E j \in 1 .. i - 1 : wire'[c][j] = EventFrame(m)
    <3>1. /\ i + 1 \in 1 .. k /\ IsRow(c, i + 1) /\ m < wire[c][i + 1].id
      BY <1>2, <1>3, <2>7
    <3>2. m \in Settled(c) \/ \E j \in 1 .. (i + 1) - 1 : wire[c][j] = EventFrame(m)
      BY <1>2, <2>7, <3>1 DEF Local, Cover
    <3>3. ASSUME NEW j \in 1 .. (i + 1) - 1, wire[c][j] = EventFrame(m)
          PROVE  m \in Settled(c)' \/ (j - 1 \in 1 .. i - 1 /\ wire'[c][j - 1] = EventFrame(m))
      <4>1. j \in 1 .. k
        BY <1>2
      <4>2. m \in Settled(c)' \/ (j - 1 \in 1 .. k - 1 /\ wire'[c][j - 1] = EventFrame(m))
        BY <2>5, <3>3, <4>1
      <4>3. j - 1 \in 1 .. k - 1 => j - 1 \in 1 .. i - 1
        BY <1>2
      <4>4. QED
        BY <4>2, <4>3
    <3>4. QED
      BY <1>7, <3>2, <3>3
  <2>8. /\ \A n \in DOMAIN log : Wanted(c, n) /\ (n <= disk'[c] \/ n <= ccur'[c]) =>
             n \in Settled(c)'
        /\ \A i \in DOMAIN wire'[c] : IsRow(c, i)' => \A n \in DOMAIN log :
             Wanted(c, n) /\ n < wire'[c][i].id =>
               n \in Settled(c)' \/ \E j \in 1 .. i - 1 : wire'[c][j] = EventFrame(n)
    BY <1>2, <2>4, <2>7
  <2>9. QED
    BY <1>2, <2>1, <2>6, <2>8 DEF Cover
<1>9. Order(c)'
  <2>1. \A i \in 1 .. k - 1 : IsRow(c, i)' =>
          NextCursor(c) < wire'[c][i].id /\ (spc[c] # "none" => wire'[c][i].id <= scur[c])
    <3>1. ASSUME NEW i \in 1 .. k - 1, IsRow(c, i)'
          PROVE  NextCursor(c) < wire'[c][i].id /\ (spc[c] # "none" => wire'[c][i].id <= scur[c])
      <4>1. /\ i + 1 \in DOMAIN wire[c] /\ 1 \in DOMAIN wire[c] /\ 1 < i + 1
            /\ IsRow(c, i + 1) /\ wire'[c][i] = wire[c][i + 1]
        BY <1>2, <1>3, <3>1
      <4>2. /\ IsRow(c, 1) => wire[c][1].id < wire[c][i + 1].id
            /\ ccur[c] < wire[c][i + 1].id
            /\ spc[c] # "none" => wire[c][i + 1].id <= scur[c]
        BY <4>1 DEF Local, Order
      <4>3. QED
        BY <1>5, <4>1, <4>2
    <3>2. QED
      BY <3>1
  <2>2. ASSUME NEW i \in 1 .. k - 1, NEW j \in 1 .. k - 1, i < j, IsRow(c, i)', IsRow(c, j)'
        PROVE  wire'[c][i].id < wire'[c][j].id
    <3>1. /\ i + 1 \in DOMAIN wire[c] /\ j + 1 \in DOMAIN wire[c] /\ i + 1 < j + 1
          /\ IsRow(c, i + 1) /\ IsRow(c, j + 1)
          /\ wire'[c][i] = wire[c][i + 1] /\ wire'[c][j] = wire[c][j + 1]
      BY <1>2, <1>3, <2>2
    <3>2. QED
      BY <3>1 DEF Local, Order
  <2>3. disk'[c] <= NextCursor(c)
    BY <1>4, <1>5 DEF Local, Order
  <2>4. spc[c] # "none" => NextCursor(c) <= scur[c]
    BY <1>2, <1>5 DEF Local, Order
  <2>5. ~lagged'[c] => \A n \in handled'[c] : n <= disk'[c]
    <3>1. disk[c] <= disk'[c] /\ disk'[c] \in Nat
      BY <1>4, <1>5 DEF Local, Order
    <3>2. handled'[c] \subseteq handled[c] \cup {NextCursor(c)}
      OBVIOUS
    <3>3. ~lagged[c] => \A n \in handled[c] : n <= disk[c]
      BY DEF Local, Order
    <3>4. QED
      BY <1>4, <3>1, <3>2, <3>3
  <2>6. QED
    BY <1>2, <2>1, <2>2, <2>3, <2>4, <2>5 DEF Local, Order
<1>10. QED
  BY <1>6, <1>8, <1>9 DEF Local

\* c's own stream keeps what is known about c.
LEMMA StreamKeeps ==
  ASSUME TypeOK, LogInv, NEW c \in Consumers, Local(c), StreamStep(c)
  PROVE  Local(c)'
<1> USE DEF logVars, clientVars
<1>1. CASE Subscribe(c) \/ TakeSignal(c) \/ QueryError(c)
  <2>1. /\ log' = log /\ disk' = disk /\ ccur' = ccur /\ cpc' = cpc /\ scur' = scur
        /\ srows' = srows /\ wire' = wire /\ handled' = handled
        /\ withheld' = withheld /\ lagged' = lagged
        /\ srows[c] = {} /\ spc[c] # "none" /\ spc'[c] # "none"
    BY <1>1 DEF Subscribe, TakeSignal, QueryError, Local, Shape, TypeOK, StreamTypes
  <2>2. Shape(c)'
    BY <2>1 DEF Local, Shape, Unseen, EventsSince, IsRow, Wanted
  <2>3. Cover(c)'
    BY <2>1 DEF Local, Cover, Settled, IsRow, Wanted
  <2>4. Order(c)'
    BY <2>1 DEF Local, Order, IsRow
  <2>5. QED
    BY <2>2, <2>3, <2>4 DEF Local
<1>2. CASE Query(c)
  <2>1. /\ log' = log /\ disk' = disk /\ ccur' = ccur /\ cpc' = cpc /\ scur' = scur
        /\ wire' = wire /\ handled' = handled /\ withheld' = withheld /\ lagged' = lagged
        /\ srows'[c] = Unseen(c) /\ spc[c] = "query" /\ spc'[c] = "emit"
    BY <1>2 DEF Query, Unseen, TypeOK, StreamTypes
  <2>2. Shape(c)'
    BY <2>1 DEF Local, Shape, Unseen, EventsSince, IsRow, Wanted
  <2>3. Cover(c)'
    BY <2>1 DEF Local, Cover, Settled, IsRow, Wanted
  <2>4. Order(c)'
    BY <2>1 DEF Local, Order, IsRow
  <2>5. QED
    BY <2>2, <2>3, <2>4 DEF Local
<1>3. ASSUME NEW n \in srows[c], EmitRow(c, n) PROVE Local(c)'
  BY <1>3, EmitKeeps
<1>4. CASE FlushDone(c)
  <2>1. /\ log' = log /\ disk' = disk /\ ccur' = ccur /\ cpc' = cpc /\ scur' = scur
        /\ srows' = srows /\ handled' = handled /\ withheld' = withheld /\ lagged' = lagged
        /\ srows[c] = {} /\ spc[c] = "emit" /\ spc'[c] = "live"
        /\ (wire'[c] = wire[c] \/ wire'[c] = Append(wire[c], CaughtUpFrame))
    BY <1>4 DEF FlushDone, TypeOK, StreamTypes, ClientTypes
  <2>2. CASE wire'[c] = wire[c]
    <3>1. Shape(c)'
      BY <2>1, <2>2 DEF Local, Shape, Unseen, EventsSince, IsRow, Wanted
    <3>2. Cover(c)'
      BY <2>1, <2>2 DEF Local, Cover, Settled, IsRow, Wanted
    <3>3. Order(c)'
      BY <2>1, <2>2 DEF Local, Order, IsRow
    <3>4. QED
      BY <3>1, <3>2, <3>3 DEF Local
  <2>3. CASE wire'[c] = Append(wire[c], CaughtUpFrame)
    <3>1. CaughtUpFrame \in Frames /\ CaughtUpFrame.kind # "event"
      BY FrameTypes DEF CaughtUpFrame
    <3>2. QED
      BY <2>1, <2>3, <3>1, ControlKeeps
  <2>4. QED
    BY <2>1, <2>2, <2>3
<1>5. CASE EmitInject(c)
  <2>1. InjectFrame \in Frames /\ InjectFrame.kind # "event"
    BY FrameTypes DEF InjectFrame
  <2>2. /\ log' = log /\ disk' = disk /\ ccur' = ccur /\ cpc' = cpc /\ scur' = scur
        /\ srows' = srows /\ handled' = handled /\ withheld' = withheld /\ lagged' = lagged
        /\ spc' = spc /\ spc[c] = "live"
        /\ wire'[c] = Append(wire[c], InjectFrame)
    BY <1>5 DEF EmitInject, TypeOK, ClientTypes
  <2>3. srows[c] = {}
    BY <2>2 DEF Local, Shape
  <2>4. QED
    BY <2>1, <2>2, <2>3, ControlKeeps
<1>6. CASE Inject(c) \/ ToggleMute(c)
  <2>1. Same(c)
    BY <1>6 DEF Inject, ToggleMute, Same, streamVars
  <2>2. QED
    BY <2>1, SameKeeps
<1>7. QED
  BY <1>1, <1>2, <1>3, <1>4, <1>5, <1>6 DEF StreamStep

\* What accepting a frame does to c, in the form PopKeeps wants it.
LEMMA AcceptEffect ==
  ASSUME TypeOK, NEW c \in Consumers, Local(c), NEW persisted \in BOOLEAN, Accept(c, persisted)
  PROVE  /\ wire[c] # << >> /\ cpc[c] = "stream"
         /\ ccur'[c] = NextCursor(c)
         /\ Head(wire[c]).kind = "event" => handled'[c] = handled[c] \cup {NextCursor(c)}
         /\ Head(wire[c]).kind # "event" => handled'[c] = handled[c]
         /\ disk'[c] \in {disk[c], NextCursor(c)}
         /\ lagged'[c] \/ (~lagged[c] /\ disk'[c] = NextCursor(c))
<1>1. CASE persisted
  BY <1>1 DEF Accept, Deliverable, TypeOK, ClientTypes
<1>2. CASE ~persisted
  BY <1>2 DEF Accept, Deliverable, TypeOK, ClientTypes
<1>3. QED
  BY <1>1, <1>2

\* c's own client keeps what is known about c.
LEMMA ClientKeeps ==
  ASSUME TypeOK, LogInv, NEW c \in Consumers, Local(c), ClientStep(c)
  PROVE  Local(c)'
<1> USE DEF logVars, streamVars, clientVars
<1>0. StreamsEnd({c}) => spc'[c] = "none" /\ scur'[c] = 0 /\ srows'[c] = {}
  BY DEF StreamsEnd
<1>1. CASE Start(c) \/ ConnectRefused(c) \/ ConnectAlien(c) \/ Refresh(c) \/ RefreshError(c)
  <2>1. /\ log' = log /\ disk' = disk /\ spc' = spc /\ scur' = scur /\ srows' = srows
        /\ wire' = wire /\ handled' = handled /\ withheld' = withheld /\ lagged' = lagged
        /\ cpc[c] # "stream" /\ ccur'[c] \in {ccur[c], disk[c]}
    BY <1>1 DEF Start, ConnectRefused, ConnectAlien, Refresh, RefreshError, TypeOK, ClientTypes
  <2>2. spc[c] = "none" /\ wire[c] = << >> /\ srows[c] = {}
    BY <2>1 DEF Local, Shape
  <2>3. disk[c] <= ccur[c] /\ disk[c] \in Nat /\ ccur[c] \in Nat
    BY DEF Local, Order, TypeOK, ClientTypes
  <2>4. Shape(c)'
    <3>1. disk[c] \in DOMAIN log \cup {0}
      <4> PICK n \in Nat : DOMAIN log = 1 .. n
        BY DEF LogInv
      <4> QED
        BY <2>3 DEF Local, Shape
    <3>2. QED
      BY <2>1, <2>2, <3>1 DEF Local, Shape
  <2>5. Cover(c)'
    BY <2>1, <2>2 DEF Local, Cover, Settled, Wanted
  <2>6. Order(c)'
    BY <2>1, <2>2, <2>3 DEF Local, Order
  <2>7. QED
    BY <2>4, <2>5, <2>6 DEF Local
<1>2. CASE Connect(c)
  <2>1. /\ log' = log /\ disk' = disk /\ ccur' = ccur /\ srows' = srows
        /\ wire' = wire /\ handled' = handled /\ withheld' = withheld /\ lagged' = lagged
        /\ cpc[c] = "dial" /\ cpc'[c] = "stream" /\ spc'[c] = "open" /\ scur'[c] = ccur[c]
    BY <1>2 DEF Connect, TypeOK, StreamTypes, ClientTypes
  <2>2. wire[c] = << >> /\ srows[c] = {}
    BY <2>1 DEF Local, Shape
  <2>3. Shape(c)'
    BY <2>1, <2>2 DEF Local, Shape
  <2>4. Cover(c)'
    BY <2>1, <2>2 DEF Local, Cover, Settled, Wanted
  <2>5. ccur[c] <= ccur[c]
    BY DEF TypeOK, ClientTypes
  <2>6. Order(c)'
    BY <2>1, <2>2, <2>5 DEF Local, Order
  <2>7. QED
    BY <2>3, <2>4, <2>6 DEF Local
<1>3. ASSUME NEW persisted \in BOOLEAN, Handle(c, persisted) PROVE Local(c)'
  <2>1. wire'[c] = Tail(wire[c])
    BY <1>3 DEF Handle, TypeOK, ClientTypes
  <2>2. /\ log' = log /\ cpc' = cpc /\ spc' = spc /\ scur' = scur /\ srows' = srows
        /\ withheld' = withheld /\ Accept(c, persisted)
    BY <1>3 DEF Handle
  <2>3. QED
    BY <2>1, <2>2, AcceptEffect, PopKeeps
<1>4. ASSUME NEW persisted \in BOOLEAN, HandleStop(c, persisted) PROVE Local(c)'
  <2>1. /\ log' = log /\ withheld' = withheld /\ Accept(c, persisted)
        /\ spc'[c] = "none" /\ scur'[c] = 0 /\ srows'[c] = {} /\ wire'[c] = << >>
    BY <1>0, <1>4 DEF HandleStop, TypeOK, ClientTypes
  <2>2. Cover(c)' /\ Order(c)' /\ ccur'[c] \in DOMAIN log \cup {0}
    <3>1. wire[c] \in Seq(Frames) /\ wire[c] # << >>
      BY <2>1, AcceptEffect DEF TypeOK, ClientTypes
    <3>2. /\ 1 \in DOMAIN wire[c] /\ Head(wire[c]) = wire[c][1] /\ wire[c][1].id \in Nat
      <4>1. /\ 1 \in DOMAIN wire[c] /\ Head(wire[c]) = wire[c][1]
            /\ wire[c][1] \in Frames
        BY <3>1
      <4>2. QED
        BY <4>1 DEF Frames
    <3>3. /\ IsRow(c, 1) => NextCursor(c) = wire[c][1].id
          /\ ~IsRow(c, 1) => NextCursor(c) = ccur[c]
      BY <3>2 DEF NextCursor, IsRow
    <3>4. IsRow(c, 1) => \A m \in DOMAIN log :
            Wanted(c, m) /\ m < wire[c][1].id => m \in Settled(c)
      BY <3>2 DEF Local, Cover
    <3>5. ccur[c] \in Nat /\ disk[c] \in Nat /\ DOMAIN log \subseteq Nat /\ handled[c] \subseteq Nat
      BY DEF TypeOK, WriterTypes, ClientTypes
    <3>6. Settled(c) \subseteq Settled(c)' /\ (IsRow(c, 1) => NextCursor(c) \in Settled(c)')
      BY <2>1, <3>2, AcceptEffect DEF Settled, IsRow
    <3>7. \A m \in DOMAIN log : Wanted(c, m) /\ m <= NextCursor(c) => m \in Settled(c)'
      BY <3>2, <3>3, <3>4, <3>5, <3>6 DEF Local, Cover
    <3>8. Cover(c)'
      <4>1. ccur'[c] = NextCursor(c) /\ disk'[c] \in {disk[c], NextCursor(c)}
        BY <2>1, AcceptEffect
      <4>2. \A m \in DOMAIN log : Wanted(c, m) /\ m <= disk[c] => m \in Settled(c)'
        BY <3>6 DEF Local, Cover
      <4>3. \A m \in DOMAIN log : Wanted(c, m)' <=> Wanted(c, m)
        BY <2>1 DEF Wanted
      <4>4. QED
        BY <2>1, <3>7, <4>1, <4>2, <4>3 DEF Cover
    <3>9. Order(c)'
      <4>1. ccur[c] <= NextCursor(c)
        BY <3>2, <3>3, <3>5 DEF Local, Order
      <4>2. disk'[c] <= ccur'[c]
        BY <2>1, <3>2, <3>3, <3>5, <4>1, AcceptEffect DEF Local, Order
      <4>3. ~lagged'[c] => \A n \in handled'[c] : n <= disk'[c]
        <5>1. lagged'[c] \/ (~lagged[c] /\ disk'[c] = NextCursor(c))
          BY <2>1, AcceptEffect
        <5>2. handled'[c] \subseteq handled[c] \cup {NextCursor(c)}
          BY <2>1, AcceptEffect
        <5>3. ~lagged[c] => \A n \in handled[c] : n <= NextCursor(c)
          BY <3>2, <3>3, <3>5, <4>1 DEF Local, Order
        <5>4. NextCursor(c) <= NextCursor(c)
          BY <3>2, <3>3, <3>5
        <5>5. QED
          BY <5>1, <5>2, <5>3, <5>4
      <4>4. QED
        BY <2>1, <4>2, <4>3 DEF Order
    <3>10. QED
      BY <2>1, <3>2, <3>3, <3>8, <3>9, AcceptEffect DEF Local, Shape
  <2>3. Shape(c)'
    BY <2>1, <2>2 DEF Shape
  <2>4. QED
    BY <2>2, <2>3 DEF Local
<1>5. CASE SkipControl(c)
  <2>1. wire[c] # << >> /\ wire'[c] = Tail(wire[c]) /\ Head(wire[c]).kind # "event"
    BY <1>5 DEF SkipControl, TypeOK, ClientTypes
  <2>2. NextCursor(c) = ccur[c]
    BY <2>1 DEF NextCursor
  <2>3. /\ log' = log /\ cpc' = cpc /\ spc' = spc /\ scur' = scur /\ srows' = srows
        /\ withheld' = withheld /\ ccur' = ccur /\ disk' = disk /\ handled' = handled
        /\ lagged' = lagged
    BY <1>5 DEF SkipControl
  <2>4. QED
    BY <2>1, <2>2, <2>3, PopKeeps
<1>6. ASSUME NEW fatal, StreamLost(c, fatal) PROVE Local(c)'
  <2>1. /\ log' = log /\ withheld' = withheld /\ disk' = disk /\ ccur' = ccur
        /\ handled' = handled /\ lagged' = lagged /\ wire'[c] = << >>
        /\ spc'[c] = "none" /\ scur'[c] = 0 /\ srows'[c] = {}
    BY <1>0, <1>6 DEF StreamLost, TypeOK, ClientTypes
  <2>2. QED
    BY <2>1, ClosedKeeps
<1>7. CASE HandleError(c) \/ FrameTooLong(c) \/ Drop(c) \/ EndOfStream(c)
  BY <1>6, <1>7 DEF HandleError, FrameTooLong, Drop, EndOfStream
<1>8. CASE ClientExit(c)
  <2>1. /\ log' = log /\ withheld' = withheld /\ disk' = disk /\ ccur' = ccur
        /\ handled' = handled /\ lagged' = lagged /\ wire'[c] = << >>
        /\ spc'[c] = "none" /\ scur'[c] = 0 /\ srows'[c] = {}
    BY <1>0, <1>8 DEF ClientExit, TypeOK, ClientTypes
  <2>2. QED
    BY <2>1, ClosedKeeps
<1>9. QED
  BY <1>1, <1>2, <1>3, <1>4, <1>5, <1>7, <1>8 DEF ClientStep

\* When the daemon dies the streams go, but what they wrote can still be read.
LEMMA DaemonStopKeeps ==
  ASSUME NEW c \in Consumers, Local(c), DaemonStop
  PROVE  Local(c)'
<1>1. /\ log' = log /\ disk' = disk /\ ccur' = ccur /\ cpc' = cpc /\ wire' = wire
      /\ handled' = handled /\ withheld' = withheld /\ lagged' = lagged
      /\ spc'[c] = "none" /\ scur'[c] = 0 /\ srows'[c] = {}
  BY DEF DaemonStop, StreamsEnd, clientVars
<1>2. Shape(c)'
  BY <1>1 DEF Local, Shape, IsRow, Wanted
<1>3. Cover(c)'
  BY <1>1 DEF Local, Cover, Settled, IsRow, Wanted
<1>4. Order(c)'
  BY <1>1 DEF Local, Order, IsRow
<1>5. QED
  BY <1>2, <1>3, <1>4 DEF Local

\* Every step keeps what is known about every consumer.
LEMMA LocalStep ==
  ASSUME TypeOK, LogInv, NEW c \in Consumers, Local(c), [Next]_vars
  PROVE  Local(c)'
<1>1. ASSUME NEW w \in Writers, WriterStep(w) PROVE Local(c)'
  BY <1>1, CommitKeeps, WritersLeave, SameKeeps
<1>2. ASSUME NEW d \in Consumers, StreamStep(d) \/ ClientStep(d) PROVE Local(c)'
  BY <1>2, StreamKeeps, ClientKeeps, OthersLeave, SameKeeps
<1>3. CASE UNCHANGED vars \/ DaemonStart
  <2>1. Same(c)
    BY <1>3 DEF vars, DaemonStart, logVars, streamVars, clientVars, Same
  <2>2. QED
    BY <2>1, SameKeeps
<1>4. QED
  BY <1>1, <1>2, <1>3, DaemonStopKeeps DEF Next

----------------------------------------------------------------------------
(* No wakeup is lost.                                                      *)

\* Of the writers' state c's wakeup depends on, a step of a stream or client
\* changes nothing, except that an ending stream leaves every snapshot.
LEMMA PendingKept ==
  ASSUME TypeOK, NEW c \in Consumers, NEW d \in Consumers, c # d,
         StreamStep(d) \/ ClientStep(d), Pending(c)
  PROVE  Pending(c)'
<1>1. wpc' = wpc /\ (wto' = wto \/ wto' = [w \in Writers |-> wto[w] \ {d}])
  <2>1. CASE StreamStep(d)
    BY <2>1 DEF StreamStep, logVars, Subscribe, TakeSignal, Query, QueryError,
       EmitRow, FlushDone, Inject, EmitInject, ToggleMute
  <2>2. CASE ClientStep(d)
    BY <2>2 DEF ClientStep, logVars, Start, Connect, ConnectRefused, ConnectAlien,
       Handle, HandleStop, SkipControl, HandleError, FrameTooLong, StreamLost, Drop,
       EndOfStream, Refresh, RefreshError, ClientExit
  <2>3. QED
    BY <2>1, <2>2
<1>2. QED
  BY <1>1 DEF Pending

\* A step of another consumer keeps c's wakeup.
LEMMA OthersKeepWake ==
  ASSUME TypeOK, NEW c \in Consumers, NEW d \in Consumers, c # d,
         StreamStep(d) \/ ClientStep(d), Wakeful(c)
  PROVE  Wakeful(c)'
<1>1. wake'[c] = wake[c] /\ qfail'[c] = qfail[c]
  <2> USE DEF TypeOK, StreamTypes
  <2>1. CASE StreamStep(d)
    BY <2>1 DEF StreamStep, streamVars, Subscribe, TakeSignal, Query, QueryError,
       EmitRow, FlushDone, Inject, EmitInject, ToggleMute
  <2>2. CASE ClientStep(d)
    <3>1. StreamsEnd({d}) => wake'[c] = wake[c] /\ qfail'[c] = qfail[c]
      BY DEF StreamsEnd
    <3>2. StreamsEnd({d}) \/ UNCHANGED <<wake, qfail>>
      BY <2>2 DEF ClientStep, streamVars, Start, Connect, ConnectRefused, ConnectAlien,
         Handle, HandleStop, SkipControl, HandleError, FrameTooLong, StreamLost, Drop,
         EndOfStream, Refresh, RefreshError, ClientExit
    <3>3. QED
      BY <3>1, <3>2
  <2>3. QED
    BY <2>1, <2>2
<1>2. Same(c)
  BY OthersLeave
<1>3. QED
  BY <1>1, <1>2, PendingKept DEF Wakeful, Same, Unseen, EventsSince

\* c's own stream: a query reads everything, a row leaves srows as the cursor
\* passes it, and taking the signal leads to the next query.
LEMMA StreamKeepsWake ==
  ASSUME TypeOK, NEW c \in Consumers, Local(c), Wakeful(c), StreamStep(c)
  PROVE  Wakeful(c)'
<1>1. wpc' = wpc /\ wto' = wto /\ log' = log
  BY DEF StreamStep, logVars, Subscribe, TakeSignal, Query, QueryError,
     EmitRow, FlushDone, Inject, EmitInject, ToggleMute
<1>2. Pending(c)' <=> Pending(c)
  BY <1>1 DEF Pending
<1> USE <1>1, <1>2 DEF Wakeful, Unseen, TypeOK, StreamTypes
<1>3. CASE Subscribe(c) \/ TakeSignal(c)
  BY <1>3 DEF Subscribe, TakeSignal
<1>4. CASE Query(c)
  BY <1>4 DEF Query, EventsSince
<1>5. CASE QueryError(c)
  BY <1>5 DEF QueryError
<1>6. ASSUME NEW n \in srows[c], EmitRow(c, n) PROVE Wakeful(c)'
  <2>1. /\ spc'[c] = spc[c] /\ wake'[c] = wake[c] /\ qfail'[c] = qfail[c]
        /\ srows'[c] = srows[c] \ {n} /\ scur'[c] = n /\ n \in Nat
        /\ spc[c] = "emit"
    BY <1>6 DEF EmitRow
  <2>2. scur[c] < n /\ scur[c] \in Nat /\ DOMAIN log \subseteq Nat
    BY <2>1 DEF Local, Shape, EventsSince, WriterTypes
  <2>3. Unseen(c)' \subseteq Unseen(c) \ {n}
    BY <2>1, <2>2 DEF EventsSince
  <2>4. QED
    BY <2>1, <2>3
<1>7. CASE FlushDone(c)
  <2>1. /\ spc[c] = "emit" /\ scur' = scur /\ srows' = srows /\ wake' = wake /\ qfail' = qfail
    BY <1>7 DEF FlushDone
  <2>2. QED
    BY <2>1
<1>8. CASE Inject(c) \/ EmitInject(c) \/ ToggleMute(c)
  <2>1. /\ spc' = spc /\ scur' = scur /\ srows' = srows /\ wake' = wake /\ qfail' = qfail
    BY <1>8 DEF Inject, EmitInject, ToggleMute, streamVars
  <2>2. QED
    BY <2>1
<1>9. QED
  BY <1>3, <1>4, <1>5, <1>6, <1>7, <1>8 DEF StreamStep

\* c's own client either leaves the stream alone or ends it.
LEMMA ClientKeepsWake ==
  ASSUME TypeOK, NEW c \in Consumers, Wakeful(c), ClientStep(c)
  PROVE  Wakeful(c)'
<1>1. StreamsEnd({c}) => spc'[c] = "none"
  BY DEF StreamsEnd
<1>2. CASE Connect(c)
  BY <1>2 DEF Connect, Wakeful, TypeOK, StreamTypes
<1>3. ASSUME NEW persisted \in BOOLEAN, HandleStop(c, persisted) PROVE Wakeful(c)'
  BY <1>1, <1>3 DEF HandleStop, Wakeful
<1>4. CASE HandleError(c) \/ FrameTooLong(c) \/ Drop(c) \/ EndOfStream(c) \/ ClientExit(c)
  BY <1>1, <1>4 DEF HandleError, FrameTooLong, Drop, EndOfStream, StreamLost, ClientExit, Wakeful
<1>5. ASSUME UNCHANGED <<logVars, streamVars>> PROVE Wakeful(c)'
  BY <1>5 DEF logVars, streamVars, Wakeful, Unseen, EventsSince, Pending
<1>6. CASE Start(c) \/ ConnectRefused(c) \/ ConnectAlien(c) \/ SkipControl(c) \/ Refresh(c)
           \/ RefreshError(c)
  BY <1>5, <1>6 DEF Start, ConnectRefused, ConnectAlien, SkipControl, Refresh, RefreshError
<1>7. ASSUME NEW persisted \in BOOLEAN, Handle(c, persisted) PROVE Wakeful(c)'
  BY <1>5, <1>7 DEF Handle
<1>8. QED
  BY <1>2, <1>3, <1>4, <1>6, <1>7 DEF ClientStep

\* A writer owes the signal from its commit until it has sent it: Publish
\* takes its snapshot when c is already subscribed.
LEMMA WriterKeepsWake ==
  ASSUME TypeOK, NEW c \in Consumers, Wakeful(c), NEW w \in Writers, WriterStep(w)
  PROVE  Wakeful(c)'
<1> USE DEF TypeOK, WriterTypes, StreamTypes
<1>1. CASE AppendCommit(w)
  BY <1>1 DEF AppendCommit, Wakeful, Pending
<1>2. ASSUME NEW e \in Events, AppendAllocate(w, e) \/ AppendDedup(w, e) PROVE Wakeful(c)'
  <2>1. /\ UNCHANGED <<log, wto, streamVars>> /\ wpc[w] = "idle"
        /\ \A v \in Writers : v # w => wpc'[v] = wpc[v]
    BY <1>2 DEF AppendAllocate, AppendDedup
  <2>2. Pending(c) => Pending(c)'
    BY <2>1 DEF Pending
  <2>3. QED
    BY <2>1, <2>2 DEF Wakeful, Unseen, EventsSince, streamVars
<1>3. CASE AppendError(w) \/ AppendReturn(w)
  <2>1. /\ UNCHANGED <<log, wto, streamVars>>
        /\ wpc[w] = "tx" \/ (wpc[w] = "sending" /\ wto[w] = {})
        /\ \A v \in Writers : v # w => wpc'[v] = wpc[v]
    BY <1>3 DEF AppendError, AppendReturn
  <2>2. Pending(c) => Pending(c)'
    BY <2>1 DEF Pending
  <2>3. QED
    BY <2>1, <2>2 DEF Wakeful, Unseen, EventsSince, streamVars
<1>4. CASE Publish(w)
  <2>1. /\ UNCHANGED <<log, streamVars>> /\ wpc'[w] = "sending" /\ wto'[w] = Subscribers
        /\ wpc[w] = "committed"
        /\ \A v \in Writers : v # w => wpc'[v] = wpc[v] /\ wto'[v] = wto[v]
    BY <1>4 DEF Publish
  <2>2. spc[c] \in {"emit", "live"} => Pending(c)'
    BY <2>1 DEF Pending, Subscribers
  <2>3. QED
    BY <2>1, <2>2 DEF Wakeful, streamVars
<1>5. ASSUME NEW d \in Consumers, Signal(w, d) PROVE Wakeful(c)'
  <2>1. /\ UNCHANGED <<log, spc, scur, srows, qfail, wpc>>
        /\ d = c => wake'[c]
        /\ d # c => wake'[c] = wake[c]
        /\ wto' = [wto EXCEPT ![w] = @ \ {d}]
    BY <1>5 DEF Signal
  <2>2. d # c /\ Pending(c) => Pending(c)'
    BY <2>1 DEF Pending
  <2>3. QED
    BY <2>1, <2>2 DEF Wakeful, Unseen, EventsSince
<1>6. QED
  BY <1>1, <1>2, <1>3, <1>4, <1>5 DEF WriterStep

\* Every step keeps every consumer's wakeup.
LEMMA WakeStep ==
  ASSUME TypeOK, NEW c \in Consumers, Local(c), Wakeful(c), [Next]_vars
  PROVE  Wakeful(c)'
<1>1. ASSUME NEW w \in Writers, WriterStep(w) PROVE Wakeful(c)'
  BY <1>1, WriterKeepsWake
<1>2. ASSUME NEW d \in Consumers, StreamStep(d) \/ ClientStep(d) PROVE Wakeful(c)'
  BY <1>2, StreamKeepsWake, ClientKeepsWake, OthersKeepWake
<1>3. CASE UNCHANGED vars \/ DaemonStart
  BY <1>3 DEF vars, DaemonStart, logVars, streamVars, Wakeful, Unseen, EventsSince, Pending
<1>4. CASE DaemonStop
  BY <1>4 DEF DaemonStop, StreamsEnd, Wakeful
<1>5. QED
  BY <1>1, <1>2, <1>3, <1>4 DEF Next

----------------------------------------------------------------------------
(* The theorems about consumers.                                           *)

\* The invariant holds at first.
LEMMA InitIInv == Init => IInv
<1> SUFFICES ASSUME Init PROVE IInv
  OBVIOUS
<1>1. TypeOK /\ LogInv
  BY InitTypeLog
<1>2. \A s \in DOMAIN log : FALSE
  BY DEF Init
<1>3. ASSUME NEW c \in Consumers
      PROVE  Shape(c) /\ Cover(c) /\ Order(c) /\ Wakeful(c)
  <2>1. /\ disk[c] = 0 /\ ccur[c] = 0 /\ scur[c] = 0 /\ spc[c] = "none" /\ srows[c] = {}
        /\ wire[c] = << >> /\ handled[c] = {}
    BY DEF Init
  <2>2. DOMAIN wire[c] = {}
    BY <2>1
  <2>3. Shape(c)
    BY <2>1, <2>2 DEF Shape
  <2>4. Cover(c)
    BY <1>2, <2>1, <2>2 DEF Cover
  <2>5. Order(c)
    BY <2>1, <2>2 DEF Order
  <2>6. Wakeful(c)
    BY <2>1 DEF Wakeful
  <2>7. QED
    BY <2>3, <2>4, <2>5, <2>6
<1>4. QED
  BY <1>1, <1>3 DEF IInv

\* Every step keeps the invariant.
LEMMA IInvStep == IInv /\ [Next]_vars => IInv'
<1> SUFFICES ASSUME IInv, [Next]_vars PROVE IInv'
  OBVIOUS
<1>1. (TypeOK /\ LogInv)'
  BY TypeStep, LogInvStep, NextIsLogStep DEF IInv
<1>2. ASSUME NEW c \in Consumers
      PROVE  (Shape(c) /\ Cover(c) /\ Order(c) /\ Wakeful(c))'
  <2>1. Local(c)
    BY DEF IInv, Local
  <2>2. Local(c)'
    BY <2>1, LocalStep DEF IInv
  <2>3. Wakeful(c)'
    BY <2>1, WakeStep DEF IInv
  <2>4. QED
    BY <2>2, <2>3 DEF Local
<1>3. QED
  BY <1>1, <1>2 DEF IInv

\* The inductive invariant holds in every reachable state.
THEOREM Invariance == Spec => []IInv
  BY InitIInv, IInvStep, PTL DEF Spec

\* No cursor ever passes a row that was neither handled nor withheld: neither a
\* reconnect nor a restart from the cursor file skips anything.
THEOREM NothingSkipped == Spec => []NoSkip
<1>1. IInv => NoSkip
  BY DEF IInv, Cover, NoSkip
<1>2. QED
  BY Invariance, <1>1, PTL

\* A parked stream has nothing to send, or a signal is on its way.
THEOREM WakeupsNotLost == Spec => []NoLostWakeup
<1>1. IInv => NoLostWakeup
  BY DEF IInv, Wakeful, Shape, Unseen, Pending, NoLostWakeup
<1>2. QED
  BY Invariance, <1>1, PTL

\* Without a lost cursor write nothing handled is ever sent again.
THEOREM NothingRedelivered == Spec => []NoNeedlessRedelivery
<1>1. IInv => NoNeedlessRedelivery
  <2> SUFFICES ASSUME IInv, NEW c \in Consumers, ~lagged[c],
                      NEW i \in DOMAIN wire[c], IsRow(c, i), wire[c][i].id \in handled[c]
               PROVE  FALSE
    BY DEF NoNeedlessRedelivery, IsRow
  <2>1. /\ disk[c] <= ccur[c] /\ ccur[c] < wire[c][i].id /\ wire[c][i].id <= disk[c]
    BY DEF IInv, Order
  <2>2. disk[c] \in Nat /\ ccur[c] \in Nat /\ wire[c][i].id \in Nat
    BY DEF IInv, TypeOK, WriterTypes, ClientTypes, Shape
  <2>3. QED
    BY <2>1, <2>2
<1>2. QED
  BY Invariance, <1>1, PTL

\* The row at the head of c's wire: c wants it, it lies past c's cursor, and
\* every earlier row c wants is settled.
LEMMA HeadRow ==
  ASSUME IInv, NEW c \in Consumers, wire[c] # << >>
  PROVE  /\ NextCursor(c) \in Nat /\ ccur[c] <= NextCursor(c)
         /\ Head(wire[c]).kind = "event" =>
              /\ NextCursor(c) \in DOMAIN log /\ Wanted(c, NextCursor(c))
              /\ \A m \in DOMAIN log :
                   m < NextCursor(c) /\ Wanted(c, m) => m \in Settled(c)
<1>1. wire[c] \in Seq(Frames) /\ ccur[c] \in Nat
  BY DEF IInv, TypeOK, ClientTypes
<1>2. /\ 1 \in DOMAIN wire[c] /\ Head(wire[c]) = wire[c][1] /\ wire[c][1] \in Frames
  BY <1>1
<1>3. wire[c][1].id \in Nat
  BY <1>2 DEF Frames
<1>4. CASE IsRow(c, 1)
  <2>1. NextCursor(c) = wire[c][1].id
    BY <1>2, <1>4 DEF NextCursor, IsRow
  <2>2. ccur[c] < wire[c][1].id
    BY <1>2, <1>4 DEF IInv, Order
  <2>3. wire[c][1].id \in DOMAIN log /\ Wanted(c, wire[c][1].id)
    BY <1>2, <1>4 DEF IInv, Shape
  <2>4. \A m \in DOMAIN log : m < wire[c][1].id /\ Wanted(c, m) => m \in Settled(c)
    BY <1>2, <1>4 DEF IInv, Cover
  <2>5. QED
    BY <1>1, <1>3, <2>1, <2>2, <2>3, <2>4
<1>5. CASE ~IsRow(c, 1)
  BY <1>1, <1>2, <1>5 DEF NextCursor, IsRow
<1>6. QED
  BY <1>4, <1>5

\* What is done to the two cursors, the handled rows and the withheld rows of
\* every consumer by a step of the client of d.
LEMMA ClientEffect ==
  ASSUME TypeOK, NEW d \in Consumers, ClientStep(d)
  PROVE  /\ UNCHANGED <<log, withheld>>
         /\ \/ UNCHANGED <<disk, ccur, handled>>
            \/ Start(d)
            \/ \E persisted \in BOOLEAN : Accept(d, persisted)
  BY DEF ClientStep, logVars, Start, Connect, ConnectRefused, ConnectAlien, Handle,
     HandleStop, SkipControl, HandleError, FrameTooLong, StreamLost, Drop, EndOfStream,
     Refresh, RefreshError, ClientExit, clientVars

\* Nobody but a client moves a cursor or handles a row, and nobody but a stream
\* withholds one.
LEMMA OtherEffect ==
  /\ \A w \in Writers : WriterStep(w) => UNCHANGED <<disk, ccur, cpc, handled, withheld>>
  /\ \A c \in Consumers : StreamStep(c) =>
       /\ UNCHANGED <<log, disk, ccur, cpc, handled>>
       /\ UNCHANGED withheld \/ \E n \in srows[c] : EmitRow(c, n)
  /\ DaemonStop \/ DaemonStart \/ UNCHANGED vars =>
       UNCHANGED <<log, disk, ccur, cpc, handled, withheld>>
<1>1. ASSUME NEW w \in Writers, WriterStep(w)
      PROVE  UNCHANGED <<disk, ccur, cpc, handled, withheld>>
  BY <1>1 DEF WriterStep, AppendAllocate, AppendDedup, AppendCommit, AppendError, Publish,
     Signal, AppendReturn, clientVars
<1>2. ASSUME NEW c \in Consumers, StreamStep(c)
      PROVE  /\ UNCHANGED <<log, disk, ccur, cpc, handled>>
             /\ UNCHANGED withheld \/ \E n \in srows[c] : EmitRow(c, n)
  BY <1>2 DEF StreamStep, logVars, clientVars, Subscribe, TakeSignal, Query, QueryError,
     EmitRow, FlushDone, Inject, EmitInject, ToggleMute
<1>3. ASSUME DaemonStop \/ DaemonStart \/ UNCHANGED vars
      PROVE  UNCHANGED <<log, disk, ccur, cpc, handled, withheld>>
  BY <1>3 DEF DaemonStop, DaemonStart, vars, logVars, clientVars
<1>4. QED
  BY <1>1, <1>2, <1>3

\* The cursor in memory of a running consumer never goes back, whatever
\* drops, daemon swaps and failed cursor writes it lives through.
THEOREM CursorsAdvance == Spec => CursorsNeverRegress
<1> DEFINE Keeps == \A c \in Consumers :
                      cpc[c] \notin {"off", "failed"} => ccur'[c] >= ccur[c]
<1>1. IInv /\ [Next]_vars => Keeps
  <2> SUFFICES ASSUME IInv, [Next]_vars, NEW c \in Consumers
               PROVE  cpc[c] \notin {"off", "failed"} => ccur'[c] >= ccur[c]
    OBVIOUS
  <2>1. ccur[c] \in Nat
    BY DEF IInv, TypeOK, ClientTypes
  <2>2. CASE UNCHANGED ccur
    BY <2>1, <2>2
  <2>3. ASSUME NEW d \in Consumers, ClientStep(d)
        PROVE  cpc[c] \notin {"off", "failed"} => ccur'[c] >= ccur[c]
    <3>1. CASE Start(d)
      BY <2>1, <3>1 DEF Start, IInv, TypeOK, ClientTypes
    <3>2. ASSUME NEW persisted \in BOOLEAN, Accept(d, persisted)
          PROVE  ccur'[c] >= ccur[c]
      <4>1. /\ ccur'[c] = ccur[c] \/ (d = c /\ ccur'[c] = NextCursor(c))
            /\ wire[d] # << >>
        BY <3>2 DEF Accept, Deliverable, IInv, TypeOK, ClientTypes
      <4>2. QED
        BY <2>1, <4>1, HeadRow
    <3>3. QED
      BY <2>2, <2>3, <3>1, <3>2, ClientEffect DEF IInv
  <2>4. QED
    BY <2>2, <2>3, OtherEffect DEF Next
<1>2. IInv /\ [Next]_vars => [Keeps]_vars
  BY <1>1
<1>3. QED
  BY Invariance, <1>2, PTL DEF Spec, CursorsNeverRegress

\* Every step of the event plane is a step of EventDelivery or leaves what it
\* talks about unchanged.
LEMMA StepRefines == IInv /\ [Next]_vars => [Delivery!AbsNext]_(Delivery!absVars)
<1> SUFFICES ASSUME IInv, [Next]_vars
             PROVE  Delivery!AbsNext \/ UNCHANGED <<log, handled, withheld>>
  BY DEF Delivery!absVars
<1>1. ASSUME NEW w \in Writers, WriterStep(w)
      PROVE  Delivery!AbsNext \/ UNCHANGED <<log, handled, withheld>>
  <2>1. CASE AppendCommit(w)
    <3>1. /\ wev[w] \in Events /\ wseq[w] = NextSeq(log) /\ DedupHits(log, wev[w]) = {}
      BY <2>1 DEF AppendCommit, IInv, LogInv
    <3>2. Delivery!AppendRow(wev[w])
      BY <1>1, <2>1, <3>1, OtherEffect DEF AppendCommit, Delivery!AppendRow, DedupHits,
         Delivery!DedupHits, Insert, Delivery!Insert, NextSeq, Delivery!NextSeq, LastSeq,
         Delivery!LastSeq
    <3>3. QED
      BY <3>1, <3>2 DEF Delivery!AbsNext
  <2>2. CASE UNCHANGED log
    BY <1>1, <2>2, OtherEffect
  <2>3. QED
    BY <1>1, <2>1, <2>2 DEF WriterStep, AppendAllocate, AppendDedup, AppendError, Publish,
       Signal, AppendReturn
<1>2. ASSUME NEW c \in Consumers, StreamStep(c)
      PROVE  Delivery!AbsNext \/ UNCHANGED <<log, handled, withheld>>
  <2>1. ASSUME NEW n \in srows[c], EmitRow(c, n), ~UNCHANGED withheld
        PROVE  Delivery!Withhold(c, n) /\ n \in DOMAIN log
    <3>1. n \in DOMAIN log /\ log[n].origin # Exclude[c] /\ ~log[n].presence
      BY <2>1 DEF EmitRow, IInv, Shape, Unseen, EventsSince
    <3>2. QED
      BY <2>1, <3>1 DEF EmitRow, logVars, clientVars, Delivery!Withhold, Delivery!Wanted
  <2>2. QED
    BY <1>2, <2>1, OtherEffect DEF Delivery!AbsNext
<1>3. ASSUME NEW c \in Consumers, ClientStep(c)
      PROVE  Delivery!AbsNext \/ UNCHANGED <<log, handled, withheld>>
  <2>1. UNCHANGED <<log, withheld>>
    BY <1>3, ClientEffect DEF IInv
  <2>2. CASE Start(c)
    BY <2>1, <2>2 DEF Start
  <2>3. ASSUME NEW persisted \in BOOLEAN, Accept(c, persisted)
        PROVE  Delivery!AbsNext \/ UNCHANGED <<log, handled, withheld>>
    <3>1. wire[c] # << >>
      BY <2>3 DEF Accept, Deliverable
    <3>2. CASE Head(wire[c]).kind # "event"
      BY <2>1, <2>3, <3>2 DEF Accept
    <3>3. CASE Head(wire[c]).kind = "event"
      <4>1. handled' = [handled EXCEPT ![c] = @ \cup {NextCursor(c)}]
        BY <2>3, <3>3 DEF Accept
      <4>2. NextCursor(c) \in DOMAIN log /\ Delivery!Deliver(c, NextCursor(c))
        BY <2>1, <3>1, <3>3, <4>1, HeadRow DEF Delivery!Deliver, Delivery!Wanted, Wanted, Settled
      <4>3. QED
        BY <4>2 DEF Delivery!AbsNext
    <3>4. QED
      BY <3>2, <3>3
  <2>4. QED
    BY <1>3, <2>1, <2>2, <2>3, ClientEffect DEF IInv
<1>4. QED
  BY <1>1, <1>2, <1>3, OtherEffect DEF Next

\* The event plane implements EventDelivery.
THEOREM DeliveryImplemented == Spec => ImplementsDelivery
<1>1. Init => Delivery!AbsInit
  BY DEF Init, Delivery!AbsInit
<1>2. QED
  BY Invariance, StepRefines, <1>1, PTL DEF Spec, ImplementsDelivery, Delivery!AbsSpec
=============================================================================
