------------------------- MODULE WindowChannelProofs -------------------------
(***************************************************************************)
(* Proofs about SubjectResolver and WindowChannel, for any sessions,       *)
(* windows, requests and any length of the table.                          *)
(*                                                                         *)
(* The unique index is restated without cardinalities, Shape says which    *)
(* row a request has at each place, and Looked what Settle knows of the    *)
(* window's rows once it has looked at them.  Told is about the channels:  *)
(* one on a subject its window has left has the frame before it, or the    *)
(* Settle that will send it, or the history says it was missed.            *)
(***************************************************************************)
EXTENDS WindowChannel, SequenceTheorems, FiniteSetTheorems, WellFoundedInduction, TLAPS

-----------------------------------------------------------------------------
(* The invariants. *)

\* The rows are from the past, and the unique index holds.
TableInv ==
  /\ table \in Seq(Rows)
  /\ \A i \in DOMAIN table : table[i].at <= now
  /\ \A s \in Sessions : \A i, j \in Bound(s) : i = j

\* The places at which a request works on a row it has found.
WithRow == {"adopt", "rotate", "active", "close", "free", "younger", "detach", "move", "tell"}

\* Those of Settle once it has looked for the window's latest subject.
AfterLook == {"detach", "move", "tell"}

\* Which rows a request has.
Shape(r) ==
  /\ r.id \in 0 .. Len(table) /\ r.boot \in 0 .. Len(table)
  /\ r.pc \in WithRow => r.id # 0
  /\ r.pc = "rotate" => r.from = r.pid
  /\ r.pc = "detach" => r.boot # 0
  /\ r.boot # 0 => r.pid \in Windows /\ r.pc \in AfterLook

\* Every request has its rows.
Shapes == \A p \in Procs : Shape(req[p])

\* What Settle saw is still in the table, in the second it was; and if it left
\* the boot subject alone, no row of the window was younger than the session's.
Looked(r, t) ==
  r.pc \in AfterLook =>
    /\ Len(t) <= Len(table) /\ r.id <= Len(t)
    /\ \A i \in 1 .. Len(t) : t[i].at = table[i].at
    /\ r.boot = 0 /\ r.pid # NoWindow =>
         \A i \in 1 .. Len(t) : t[i].pid = r.pid /\ i # r.id => t[i].at <= t[r.id].at

\* Every Settle knows that much.
Lookeds == \A p \in Procs : Looked(req[p], seen[p])

\* The kinds of the resolver's other variables.
Kinds ==
  /\ req \in [Procs -> Requests] /\ seen \in [Procs -> Seq(Rows)]
  /\ live \subseteq Windows /\ now \in 1 .. MaxSeconds
  /\ calls \in 0 .. MaxCalls /\ faults \in 0 .. MaxFaults

\* The invariant of the resolver.
ResolverInv == TableInv /\ Kinds /\ Shapes /\ Lookeds

-----------------------------------------------------------------------------
(* The window's latest subject exists. *)

\* The order of the naturals, as a relation.
Less == {ss \in Nat \X Nat : ss[1] < ss[2]}

\* It is well-founded.
LEMMA LessIsWellFounded == IsWellFoundedOn(Less, Nat)
  BY NatLessThanWellFounded DEF OpToRel, Less

\* A set of naturals has a least one.
LEMMA LeastExists ==
  ASSUME NEW T \in SUBSET Nat, T # {} PROVE \E x \in T : \A y \in T : x <= y
  <1>1. \A x, y \in Nat : y < x => <<y, x>> \in Less
    BY DEF Less
  <1>2. \E x \in T : \A y \in T : ~ (<<y, x>> \in Less)
    BY LessIsWellFounded, WFMin
  <1>3. \A x, y \in T : ~ (y < x) => x <= y
    OBVIOUS
  <1> QED
    BY <1>1, <1>2, <1>3

\* A bounded one has a greatest.
LEMMA GreatestExists ==
  ASSUME NEW n \in Nat, NEW S \in SUBSET (0 .. n), S # {} PROVE \E x \in S : \A y \in S : y <= x
  <1> DEFINE T == {n - x : x \in S}
  <1>1. \A x \in S : n - x \in Nat
    OBVIOUS
  <1>2. T \in SUBSET Nat /\ T # {}
    BY <1>1
  <1>3. PICK t \in T : \A u \in T : t <= u
    BY <1>2, LeastExists
  <1>4. PICK x \in S : t = n - x
    OBVIOUS
  <1>5. \A y \in S : n - y \in T
    OBVIOUS
  <1>6. \A y \in S : n - x <= n - y
    BY <1>3, <1>4, <1>5
  <1> QED
    BY <1>6

\* The rows of the table.
LEMMA RowKinds ==
  ASSUME TableInv
  PROVE  /\ Len(table) \in Nat /\ DOMAIN table = 1 .. Len(table)
         /\ \A i \in 1 .. Len(table) :
              /\ table[i] \in Rows
              /\ table[i].ses \in Sessions \cup {NoSession} /\ table[i].pid \in Windows \cup {NoWindow}
              /\ table[i].at \in Nat /\ table[i].at <= now
  <1>1. table \in Seq(Rows) /\ \A i \in DOMAIN table : table[i].at <= now
    BY DEF TableInv
  <1>2. Len(table) \in Nat /\ DOMAIN table = 1 .. Len(table) /\ table \in [1 .. Len(table) -> Rows]
    BY <1>1, LenProperties
  <1>3. ASSUME NEW i \in 1 .. Len(table) PROVE table[i] \in Rows
    BY <1>2
  <1>4. ASSUME NEW r \in Rows
        PROVE  /\ r.ses \in Sessions \cup {NoSession} /\ r.pid \in Windows \cup {NoWindow}
               /\ r.at \in Nat
    BY DEF Rows
  <1> QED
    BY <1>1, <1>2, <1>3, <1>4

\* ORDER BY created_at DESC, rowid DESC LIMIT 1 finds a row if there is one.
LEMMA LatestIs ==
  ASSUME TableInv, now \in Nat, NEW w, Owned(w) # {}
  PROVE  /\ Latest(w) \in Owned(w)
         /\ \A j \in Owned(w) :
              \/ table[j].at < table[Latest(w)].at
              \/ (table[j].at = table[Latest(w)].at /\ j <= Latest(w))
  <1>0. Owned(w) \subseteq 1 .. Len(table) /\ Len(table) \in Nat
    BY RowKinds DEF Owned
  <1>1. PICK m \in {table[i].at : i \in Owned(w)} : \A i \in Owned(w) : table[i].at <= m
    <2> DEFINE S == {table[i].at : i \in Owned(w)}
    <2>1. S \in SUBSET (0 .. now) /\ S # {}
      BY <1>0, RowKinds
    <2>2. \E x \in S : \A y \in S : y <= x
      BY <2>1, GreatestExists
    <2> QED
      BY <2>2
  <1>2. PICK k \in {i \in Owned(w) : table[i].at = m} : \A i \in Owned(w) : table[i].at = m => i <= k
    <2> DEFINE S == {i \in Owned(w) : table[i].at = m}
    <2>1. S \in SUBSET (0 .. Len(table)) /\ S # {}
      BY <1>0, <1>1
    <2>2. \E x \in S : \A y \in S : y <= x
      BY <1>0, <2>1, GreatestExists
    <2> QED
      BY <2>2
  <1>3. \A j \in Owned(w) : table[j].at < table[k].at \/ (table[j].at = table[k].at /\ j <= k)
    BY <1>0, <1>1, <1>2, RowKinds
  <1>4. \E i \in Owned(w) : \A j \in Owned(w) :
          table[j].at < table[i].at \/ (table[j].at = table[i].at /\ j <= i)
    BY <1>2, <1>3
  <1> QED
    BY <1>4 DEF Latest

-----------------------------------------------------------------------------
(* The statements. *)

\* The statement wrote row i.
Written(i, s, w) ==
  /\ table' \in Seq(Rows) /\ Len(table') = Len(table)
  /\ table'[i].ses = s /\ table'[i].pid = w /\ table'[i].at = table[i].at
  /\ \A j \in 1 .. Len(table) : j # i => table'[j] = table[j]

\* The statement inserted a row.
Inserted(s, w) ==
  /\ table' \in Seq(Rows) /\ Len(table') = Len(table) + 1
  /\ \A j \in 1 .. Len(table) : table'[j] = table[j]
  /\ table'[Len(table')].ses = s /\ table'[Len(table')].pid = w /\ table'[Len(table')].at = now

\* A row is replaced.
LEMMA RowEffect ==
  ASSUME TableInv, NEW i \in 1 .. Len(table), NEW e \in Rows, e.at = table[i].at,
         table' = [table EXCEPT ![i] = e]
  PROVE  Written(i, e.ses, e.pid)
  <1>1. table \in Seq(Rows)
    BY DEF TableInv
  <1> QED
    BY <1>1, ExceptSeq DEF Written

\* An update of the session and the pid.
LEMMA WriteEffect ==
  ASSUME TableInv, NEW i \in 1 .. Len(table), NEW s \in Sessions \cup {NoSession},
         NEW w \in Windows \cup {NoWindow}, table' = [table EXCEPT ![i].ses = s, ![i].pid = w]
  PROVE  Written(i, s, w)
  <1> DEFINE e == [table[i] EXCEPT !.ses = s, !.pid = w]
  <1>1. table \in Seq(Rows) /\ table[i] \in Rows
    BY RowKinds DEF TableInv
  <1>2. e \in Rows /\ e.ses = s /\ e.pid = w /\ e.at = table[i].at
    BY <1>1 DEF Rows
  <1>3. table' = [table EXCEPT ![i] = e]
    BY RowKinds
  <1> HIDE DEF e
  <1> QED
    BY <1>2, <1>3, RowEffect

\* An update of the status.
LEMMA CloseEffect ==
  ASSUME TableInv, NEW i \in 1 .. Len(table), table' = [table EXCEPT ![i].open = FALSE]
  PROVE  Written(i, table[i].ses, table[i].pid)
  <1> DEFINE e == [table[i] EXCEPT !.open = FALSE]
  <1>1. table \in Seq(Rows) /\ table[i] \in Rows
    BY RowKinds DEF TableInv
  <1>2. e \in Rows /\ e.ses = table[i].ses /\ e.pid = table[i].pid /\ e.at = table[i].at
    BY <1>1 DEF Rows
  <1>3. table' = [table EXCEPT ![i] = e]
    BY RowKinds
  <1> HIDE DEF e
  <1> QED
    BY <1>2, <1>3, RowEffect

\* An insert.
LEMMA InsertEffect ==
  ASSUME TableInv, now \in Nat, NEW s \in Sessions \cup {NoSession}, NEW w \in Windows \cup {NoWindow},
         table' = Insert(s, w)
  PROVE  Inserted(s, w)
  <1> DEFINE e == [ses |-> s, pid |-> w, open |-> TRUE, at |-> now]
  <1>1. table \in Seq(Rows)
    BY DEF TableInv
  <1>2. e \in Rows /\ e.ses = s /\ e.pid = w /\ e.at = now
    BY DEF Rows
  <1>3. table' = Append(table, e)
    BY DEF Insert
  <1> HIDE DEF e
  <1> QED
    BY <1>1, <1>2, <1>3, AppendProperties, LenProperties DEF Inserted

-----------------------------------------------------------------------------
(* What a step does to its request. *)

\* The steps of a request.
ReqStep(p) == Arrive(p) \/ Statement(p) \/ SettleReturn(p) \/ Fail(p)

\* The request goes on to a place with what it has.
To(p, place) ==
  LET r == req[p]  s == req'[p] IN
  s.pc = place /\ s.ses = r.ses /\ s.pid = r.pid /\ s.id = r.id /\ s.from = r.from /\ s.boot = r.boot

\* The request goes on to a place with row i.
Took(p, place, i) ==
  LET r == req[p]  s == req'[p] IN
  /\ s.pc = place /\ s.ses = r.ses /\ s.pid = r.pid /\ s.boot = r.boot
  /\ s.id = i /\ s.from = table[i].pid

\* A request begins.
Begun(p) == req'[p].pc \in {"exact", "stale", "held"} /\ req'[p].id = 0 /\ req'[p].boot = 0

\* Only this request changes, and remains one.
Alone(p) == req' \in [Procs -> Requests] /\ \A q \in Procs : q # p => req'[q] = req[q]

\* Where a request can go from where it is.
Transition(p) ==
  \/ At(p, "idle") /\ Begun(p)
  \/ ~ At(p, "idle") /\ req'[p] = Idle
  \/ At(p, "exact") /\ (To(p, "window") \/ \E i \in 1 .. Len(table) : Took(p, "adopt", i))
  \/ At(p, "adopt") /\ To(p, "reread")
  \/ At(p, "window") /\ (To(p, "create") \/ \E i \in Owned(req[p].pid) : Took(p, "rotate", i))
  \/ At(p, "rotate") /\ To(p, "create")
  \/ At(p, "stale") /\ (To(p, "create") \/ \E i \in 1 .. Len(table) : Took(p, "close", i))
  \/ At(p, "close") /\ To(p, "free")
  \/ At(p, "free") /\ To(p, "create")
  \/ At(p, "held") /\ (To(p, "again") \/ \E i \in 1 .. Len(table) : Took(p, "younger", i))
  \/ At(p, "again") /\ To(p, "mine")
  \/ At(p, "mine") /\ \E i \in 1 .. Len(table) : Took(p, "active", i)
  \/ SettleYounger(p) /\ At(p, "younger") /\ (To(p, "move") \/ To(p, "tell"))
       /\ (Owned(req[p].pid) # {} => ~ Younger(Latest(req[p].pid), req[p].id))
  \/ /\ SettleYounger(p) /\ At(p, "younger") /\ Owned(req[p].pid) # {}
     /\ req'[p].pc = "detach" /\ req'[p].boot = Latest(req[p].pid)
     /\ req'[p].pid = req[p].pid /\ req'[p].id = req[p].id
  \/ At(p, "detach") /\ (To(p, "move") \/ To(p, "tell"))
  \/ At(p, "move") /\ To(p, "tell")

\* The ways a request is replaced.
LEMMA Replies == ASSUME Kinds, NEW p \in Procs, Reply(p) PROVE Alone(p) /\ req'[p] = Idle
  BY DEF Kinds, Reply, Go, Alone, Idle, Requests, Places, Ids

\* It moves on.
LEMMA Goes ==
  ASSUME Kinds, NEW p \in Procs, NEW place \in Places, Goto(p, place) PROVE Alone(p) /\ To(p, place)
  <1> DEFINE r == [req[p] EXCEPT !.pc = place]
  <1>1. req[p] \in Requests /\ req \in [Procs -> Requests]
    BY DEF Kinds
  <1>2. /\ r \in Requests /\ r.pc = place /\ r.ses = req[p].ses /\ r.pid = req[p].pid
        /\ r.id = req[p].id /\ r.from = req[p].from /\ r.boot = req[p].boot
    BY <1>1 DEF Requests
  <1>3. req' = [req EXCEPT ![p] = r]
    BY DEF Goto, Go
  <1> HIDE DEF r
  <1> QED
    BY <1>1, <1>2, <1>3 DEF Alone, To

\* It moves on with a row.
LEMMA Takes ==
  ASSUME Kinds, TableInv, NEW p \in Procs, NEW place \in Places, NEW i \in 1 .. Len(table), With(p, place, i)
  PROVE  Alone(p) /\ Took(p, place, i)
  <1> DEFINE r == [req[p] EXCEPT !.pc = place, !.id = i, !.from = table[i].pid]
  <1>1. req[p] \in Requests /\ req \in [Procs -> Requests]
    BY DEF Kinds
  <1>2. table[i].pid \in Windows \cup {NoWindow} /\ i \in Ids
    BY RowKinds DEF Ids
  <1>3. /\ r \in Requests /\ r.pc = place /\ r.ses = req[p].ses /\ r.pid = req[p].pid
        /\ r.id = i /\ r.from = table[i].pid /\ r.boot = req[p].boot
    BY <1>1, <1>2 DEF Requests
  <1>4. req' = [req EXCEPT ![p] = r]
    BY DEF With, Go
  <1> HIDE DEF r
  <1> QED
    BY <1>1, <1>3, <1>4 DEF Alone, Took

\* A request arrives.
LEMMA ArriveEffect ==
  ASSUME Kinds, NEW p \in Procs, Arrive(p) PROVE Alone(p) /\ At(p, "idle") /\ Begun(p)
  <1>1. PICK s \in Sessions \cup {NoSession}, w \in Windows \cup {NoWindow},
             place \in {"exact", "stale", "held"} : Call(p, place, s, w)
    BY DEF Arrive, Start, StartFresh, SessionRecord
  <1> DEFINE r == [Idle EXCEPT !.pc = place, !.ses = s, !.pid = w]
  <1>2. r \in Requests /\ r.pc = place /\ r.id = 0 /\ r.boot = 0
    BY DEF Idle, Requests, Places, Ids
  <1>3. At(p, "idle") /\ req' = [req EXCEPT ![p] = r]
    BY <1>1 DEF Call, Go
  <1>4. req \in [Procs -> Requests]
    BY DEF Kinds
  <1> HIDE DEF r
  <1> QED
    BY <1>2, <1>3, <1>4 DEF Alone, Begun

\* A statement moves its request along.
LEMMA StatementEffect ==
  ASSUME Kinds, TableInv, NEW p \in Procs, Statement(p) PROVE Alone(p) /\ Transition(p)
  <1>0. \A w : Owned(w) \subseteq 1 .. Len(table) /\ (Owned(w) # {} => Latest(w) \in Owned(w))
    <2>1. now \in Nat
      BY DEF Kinds
    <2> QED
      BY <2>1, LatestIs, RowKinds DEF Owned
  <1>1. \A s : Bound(s) \subseteq 1 .. Len(table)
    BY RowKinds DEF Bound
  <1>2. {"window", "reread", "create", "free", "again", "mine", "move", "tell", "adopt", "rotate",
         "close", "younger", "active"} \subseteq Places
    BY DEF Places
  <1>3. CASE StartExact(p)
    BY <1>1, <1>2, <1>3, Replies, Goes, Takes DEF StartExact, Transition, At
  <1>4. CASE StartAdopt(p) \/ StartReread(p)
    BY <1>2, <1>4, Replies, Goes DEF StartAdopt, StartReread, Transition, At
  <1>5. CASE StartWindow(p)
    BY <1>0, <1>2, <1>5, Goes, Takes DEF StartWindow, Transition, At
  <1>6. CASE StartRotate(p) \/ Create(p)
    BY <1>2, <1>6, Replies, Goes DEF StartRotate, Create, Transition, At
  <1>7. CASE FreshFind(p)
    BY <1>1, <1>2, <1>7, Goes, Takes DEF FreshFind, Transition, At
  <1>8. CASE FreshClose(p) \/ FreshDetach(p)
    BY <1>2, <1>8, Goes DEF FreshClose, FreshDetach, Transition, At
  <1>9. CASE SettleHeld(p)
    BY <1>1, <1>2, <1>9, Goes, Takes DEF SettleHeld, Transition, At
  <1>10. CASE RebindFind(p) \/ RebindWindow(p)
    BY <1>0, <1>2, <1>10, Replies, Goes, Takes DEF RebindFind, RebindWindow, Transition, At
  <1>11. CASE RebindActive(p)
    BY <1>11, Replies DEF RebindActive, Transition, At
  <1>12. CASE SettleYounger(p)
    <2>1. CASE Owned(req[p].pid) # {} /\ Younger(Latest(req[p].pid), req[p].id)
      <3> DEFINE r == [req[p] EXCEPT !.pc = "detach", !.boot = Latest(req[p].pid)]
      <3>1. req[p] \in Requests /\ req \in [Procs -> Requests]
        BY DEF Kinds
      <3>2. Latest(req[p].pid) \in Ids /\ "detach" \in Places
        BY <1>0, <2>1, RowKinds DEF Ids, Places
      <3>3. /\ r \in Requests /\ r.pc = "detach" /\ r.boot = Latest(req[p].pid)
            /\ r.pid = req[p].pid /\ r.id = req[p].id
        BY <3>1, <3>2 DEF Requests
      <3>4. At(p, "younger") /\ req' = [req EXCEPT ![p] = r]
        BY <1>12, <2>1 DEF SettleYounger, Go
      <3> HIDE DEF r
      <3>5. Alone(p) /\ req'[p] = r
        BY <3>1, <3>3, <3>4 DEF Alone
      <3> QED
        BY <1>12, <2>1, <3>3, <3>4, <3>5 DEF Transition
    <2>2. CASE ~ (Owned(req[p].pid) # {} /\ Younger(Latest(req[p].pid), req[p].id))
      <3>1. At(p, "younger") /\ Goto(p, Remains(p)) /\ Remains(p) \in {"move", "tell"}
        BY <1>12, <2>2 DEF SettleYounger, Remains
      <3>2. Alone(p) /\ (To(p, "move") \/ To(p, "tell"))
        BY <1>2, <3>1, Goes
      <3> QED
        BY <1>12, <2>2, <3>1, <3>2 DEF Transition
    <2> QED
      BY <2>1, <2>2
  <1>13. CASE SettleDetach(p)
    <2>1. At(p, "detach") /\ Goto(p, Remains(p)) /\ Remains(p) \in {"move", "tell"}
      BY <1>13 DEF SettleDetach, Remains
    <2> QED
      BY <1>2, <2>1, Goes DEF Transition
  <1>14. CASE SettleMove(p)
    BY <1>2, <1>14, Goes, Replies DEF SettleMove, Transition, At
  <1> QED
    BY <1>3, <1>4, <1>5, <1>6, <1>7, <1>8, <1>9, <1>10, <1>11, <1>12, <1>13, <1>14 DEF Statement

\* Every step moves its request along.
LEMMA ReqEffect ==
  ASSUME Kinds, TableInv, NEW p \in Procs, ReqStep(p) PROVE Alone(p) /\ Transition(p)
  <1>1. CASE SettleReturn(p) \/ Fail(p)
    BY <1>1, Replies DEF SettleReturn, Fail, Transition, At
  <1>2. CASE Arrive(p)
    BY <1>2, ArriveEffect DEF Transition
  <1> QED
    BY <1>1, <1>2, StatementEffect DEF ReqStep

\* What a step does to the table.
LEMMA TableEffect ==
  ASSUME Kinds, TableInv, Shapes, NEW p \in Procs, ReqStep(p)
  PROVE  LET r == req[p] IN
         \/ table' = table
         \/ /\ r.pc \in {"adopt", "rotate", "active", "move"} /\ r.id \in 1 .. Len(table)
            /\ Matches(r.id, r.from) /\ ~ Taken(r.id, r.ses) /\ Written(r.id, r.ses, r.pid)
            /\ r.pc = "adopt" => ~ liveWindow(r.from)
         \/ r.pc = "create" /\ Bound(r.ses) = {} /\ Inserted(r.ses, r.pid)
         \/ /\ r.pc = "close" /\ r.id \in 1 .. Len(table)
            /\ Written(r.id, table[r.id].ses, table[r.id].pid)
         \/ r.pc = "free" /\ r.id \in 1 .. Len(table) /\ Written(r.id, NoSession, NoWindow)
         \/ r.pc = "detach" /\ r.boot \in 1 .. Len(table) /\ Written(r.boot, NoSession, NoWindow)
  <1>0. /\ req[p].ses \in Sessions \cup {NoSession} /\ req[p].pid \in Windows \cup {NoWindow}
        /\ now \in Nat
    BY DEF Kinds, Requests
  <1>1. /\ req[p].pc \in WithRow => req[p].id \in 1 .. Len(table)
        /\ req[p].pc = "detach" => req[p].boot \in 1 .. Len(table)
    BY RowKinds DEF Shapes, Shape
  <1>2. CASE CasSwap(p) /\ (StartAdopt(p) \/ StartRotate(p) \/ RebindActive(p) \/ SettleMove(p))
    <2>1. req[p].pc \in {"adopt", "rotate", "active", "move"} /\ req[p].id \in 1 .. Len(table)
      BY <1>1, <1>2 DEF StartAdopt, StartRotate, RebindActive, SettleMove, At, WithRow
    <2>2. /\ Matches(req[p].id, req[p].from) /\ ~ Taken(req[p].id, req[p].ses)
          /\ Written(req[p].id, req[p].ses, req[p].pid)
      BY <1>0, <1>2, <2>1, WriteEffect DEF CasSwap
    <2>3. table' # table /\ req[p].pc = "adopt" => ~ liveWindow(req[p].from)
      BY <1>2 DEF StartAdopt, StartRotate, RebindActive, SettleMove, At
    <2> QED
      BY <2>1, <2>2, <2>3
  <1>3. CASE Create(p)
    BY <1>0, <1>3, InsertEffect DEF Create, At
  <1>4. CASE FreshClose(p)
    BY <1>1, <1>4, CloseEffect DEF FreshClose, At, WithRow
  <1>5. CASE FreshDetach(p)
    BY <1>1, <1>5, WriteEffect DEF FreshDetach, Detached, At, WithRow
  <1>6. CASE SettleDetach(p)
    BY <1>1, <1>6, WriteEffect DEF SettleDetach, Detached, At
  <1>7. CASE ~ CasSwap(p) /\ (StartAdopt(p) \/ StartRotate(p) \/ RebindActive(p) \/ SettleMove(p))
    BY <1>7 DEF StartAdopt, StartRotate, RebindActive, SettleMove, CasMiss, CasError
  <1>8. CASE Arrive(p) \/ SettleReturn(p) \/ Fail(p)
    BY <1>8 DEF Arrive, Start, StartFresh, SessionRecord, Call, SettleReturn, Fail
  <1>9. CASE \/ StartExact(p) \/ StartReread(p) \/ StartWindow(p) \/ FreshFind(p) \/ SettleHeld(p)
             \/ RebindFind(p) \/ RebindWindow(p) \/ SettleYounger(p)
    BY <1>9 DEF StartExact, StartReread, StartWindow, FreshFind, SettleHeld, RebindFind, RebindWindow,
       SettleYounger
  <1> QED
    BY <1>2, <1>3, <1>4, <1>5, <1>6, <1>7, <1>8, <1>9 DEF ReqStep, Statement

-----------------------------------------------------------------------------
(* The resolver keeps its invariant. *)

\* No step changes the second a row is from, or deletes one.
Grown ==
  /\ table' \in Seq(Rows) /\ Len(table') \in Nat /\ Len(table) <= Len(table')
  /\ \A i \in 1 .. Len(table) : table'[i].at = table[i].at

\* What a step does to the history of Settle, the clock and the bounds.
LEMMA RestEffect ==
  ASSUME Kinds, TableInv, NEW p \in Procs, ReqStep(p)
  PROVE  /\ live' = live /\ now' = now
         /\ calls' \in 0 .. MaxCalls /\ faults' \in 0 .. MaxFaults
         /\ seen' \in [Procs -> Seq(Rows)]
         /\ \A q \in Procs : q # p => seen'[q] = seen[q]
         /\ SettleYounger(p) => seen'[p] = table /\ table' = table
         /\ At(p, "detach") \/ At(p, "move") => seen'[p] = seen[p] \/ req'[p] = Idle
  <1>0. seen \in [Procs -> Seq(Rows)] /\ table \in Seq(Rows) /\ << >> \in Seq(Rows)
    BY EmptySeq DEF Kinds, TableInv
  <1> USE DEF quiet, Forget
  <1>1. live' = live /\ now' = now
    BY DEF ReqStep, Statement, Arrive, Start, StartFresh, SessionRecord, Call, SettleReturn, Fail,
       StartExact, StartAdopt, StartReread, StartWindow, StartRotate, Create, FreshFind, FreshClose,
       FreshDetach, SettleHeld, RebindFind, RebindWindow, RebindActive, SettleYounger, SettleDetach,
       SettleMove
  <1>2. (calls' = calls \/ (calls < MaxCalls /\ calls' = calls + 1))
        /\ (faults' = faults \/ (faults < MaxFaults /\ faults' = faults + 1))
    BY DEF ReqStep, Statement, Arrive, Start, StartFresh, SessionRecord, Call, SettleReturn, Fail,
       StartExact, StartAdopt, StartReread, StartWindow, StartRotate, Create, FreshFind, FreshClose,
       FreshDetach, SettleHeld, RebindFind, RebindWindow, RebindActive, SettleYounger, SettleDetach,
       SettleMove
  <1>3. calls' \in 0 .. MaxCalls /\ faults' \in 0 .. MaxFaults
    BY <1>2, ResolverAssumption DEF Kinds
  <1>4. \/ seen' = seen
        \/ seen' = [seen EXCEPT ![p] = << >>]
        \/ seen' = [seen EXCEPT ![p] = table]
    BY DEF ReqStep, Statement, Arrive, Start, StartFresh, SessionRecord, Call, SettleReturn, Fail,
       StartExact, StartAdopt, StartReread, StartWindow, StartRotate, Create, FreshFind, FreshClose,
       FreshDetach, SettleHeld, RebindFind, RebindWindow, RebindActive, SettleYounger, SettleDetach,
       SettleMove
  <1>5. seen' \in [Procs -> Seq(Rows)] /\ \A q \in Procs : q # p => seen'[q] = seen[q]
    BY <1>0, <1>4
  <1>6. SettleYounger(p) => seen'[p] = table /\ table' = table
    BY <1>0 DEF SettleYounger
  <1>7. ASSUME At(p, "detach") \/ At(p, "move") PROVE seen'[p] = seen[p] \/ req'[p] = Idle
    <2>1. SettleDetach(p) \/ SettleMove(p) \/ Fail(p)
      BY <1>7 DEF ReqStep, Statement, Arrive, Start, StartFresh, SessionRecord, Call, SettleReturn, At,
         StartExact, StartAdopt, StartReread, StartWindow, StartRotate, Create, FreshFind, FreshClose,
         FreshDetach, SettleHeld, RebindFind, RebindWindow, RebindActive, SettleYounger
    <2> QED
      BY <2>1, Replies DEF SettleDetach, SettleMove, Fail
  <1> QED
    BY <1>1, <1>3, <1>5, <1>6, <1>7

\* A statement leaves the table one.
LEMMA TableGrown ==
  ASSUME Kinds, TableInv, Shapes, NEW p \in Procs, ReqStep(p) PROVE Grown
  <1>1. table \in Seq(Rows)
    BY DEF TableInv
  <1> QED
    BY <1>1, TableEffect, RowKinds DEF Written, Inserted, Grown

\* A statement keeps the unique index.
LEMMA TableInvNext ==
  ASSUME Kinds, TableInv, Shapes, NEW p \in Procs, ReqStep(p) PROVE TableInv'
  <1> USE DEF At
  <1>0. now' = now /\ now \in Nat
    BY RestEffect DEF Kinds
  <1>1. /\ table' \in Seq(Rows) /\ DOMAIN table = 1 .. Len(table) /\ Len(table) \in Nat
        /\ Len(table') \in Nat /\ DOMAIN table' = 1 .. Len(table') /\ Len(table) <= Len(table')
    BY TableGrown, RowKinds, LenProperties DEF Grown
  <1>2. \A i \in DOMAIN table' : table'[i].at <= now'
    <2>1. \A i \in 1 .. Len(table) : table'[i].at = table[i].at /\ table[i].at <= now
      BY TableGrown, RowKinds DEF Grown
    <2>2. Len(table') = Len(table) \/ (Len(table') = Len(table) + 1 /\ table'[Len(table')].at = now)
      BY TableEffect DEF Written, Inserted
    <2>3. ASSUME NEW i \in 1 .. Len(table') PROVE table'[i].at <= now
      <3>1. i \in 1 .. Len(table) \/ (i = Len(table') /\ Len(table') # Len(table))
        <4>1. Len(table') = Len(table) \/ Len(table') = Len(table) + 1
          BY <2>2
        <4>2. Len(table) \in Nat /\ Len(table') \in Nat
          BY <1>1
        <4>3. \A m, n \in Nat : n = m \/ n = m + 1 => \A k \in 1 .. n : k \in 1 .. m \/ (k = n /\ n # m)
          OBVIOUS
        <4> QED
          BY <4>1, <4>2, <4>3
      <3>2. CASE i = Len(table') /\ Len(table') # Len(table)
        BY <1>0, <2>2, <3>2
      <3>3. CASE i \in 1 .. Len(table)
        BY <1>0, <2>1, <3>3
      <3> QED
        BY <3>1, <3>2, <3>3
    <2> QED
      BY <1>0, <1>1, <2>3
  <1>3. ASSUME NEW s \in Sessions, NEW i \in DOMAIN table', NEW j \in DOMAIN table',
               table'[i].ses = s, table'[j].ses = s
        PROVE  i = j
    <2>0. s # NoSession
      BY ResolverAssumption
    <2>1. \A m, n \in 1 .. Len(table) : table[m].ses = s /\ table[n].ses = s => m = n
      BY <1>1, <2>0 DEF TableInv, Bound
    <2>2. CASE table' = table
      BY <1>1, <1>3, <2>1, <2>2
    <2>3. ASSUME NEW m \in 1 .. Len(table), NEW w, Written(m, req[p].ses, w), ~ Taken(m, req[p].ses)
          PROVE  i = j
      <3>1. s = req[p].ses => \A n \in 1 .. Len(table) : n # m => table[n].ses # s
        BY <1>1, <2>0, <2>3 DEF Taken, Bound
      <3> QED
        BY <1>1, <1>3, <2>1, <2>3, <3>1 DEF Written
    <2>4. ASSUME Inserted(req[p].ses, req[p].pid), Bound(req[p].ses) = {} PROVE i = j
      <3>1. s = req[p].ses => \A n \in 1 .. Len(table) : table[n].ses # s
        BY <1>1, <2>0, <2>4 DEF Bound
      <3> QED
        BY <1>1, <1>3, <2>1, <2>4, <3>1 DEF Inserted
    <2>5. ASSUME NEW m \in 1 .. Len(table), NEW w,
                 Written(m, table[m].ses, w) \/ Written(m, NoSession, w) PROVE i = j
      BY <1>1, <1>3, <2>0, <2>1, <2>5 DEF Written
    <2> QED
      BY <2>2, <2>3, <2>4, <2>5, TableEffect
  <1>4. \A s \in Sessions : \A i, j \in Bound(s)' : i = j
    BY <1>3 DEF Bound
  <1> QED
    BY <1>1, <1>2, <1>4 DEF TableInv

\* A request keeps to rows that exist.
LEMMA ShapesNext ==
  ASSUME Kinds, TableInv, Shapes, NEW p \in Procs, ReqStep(p) PROVE Shapes'
  <1>0. Len(table) \in Nat /\ Len(table') \in Nat /\ Len(table) <= Len(table')
    BY TableGrown, RowKinds DEF Grown
  <1>1. Alone(p) /\ Transition(p) /\ Shape(req[p])
    BY ReqEffect DEF Shapes
  <1>2. ASSUME NEW q \in Procs, q # p PROVE Shape(req[q])'
    BY <1>0, <1>1, <1>2 DEF Alone, Shapes, Shape
  <1>3. ASSUME NEW w, Owned(w) # {}
        PROVE  /\ Owned(w) \subseteq 1 .. Len(table) /\ w # NoWindow /\ Latest(w) \in Owned(w)
               /\ \A i \in Owned(w) : table[i].pid = w
    <2>1. now \in Nat
      BY DEF Kinds
    <2>2. Latest(w) \in Owned(w)
      BY <1>3, <2>1, LatestIs
    <2> QED
      BY <1>3, <2>2, RowKinds DEF Owned
  <1>4. req[p].pid \in Windows \cup {NoWindow}
    BY DEF Kinds, Requests
  <1>5. Shape(req[p])'
    <2> USE DEF Shape, WithRow, AfterLook, At
    <2>1. CASE req'[p] = Idle
      BY <1>0, <2>1 DEF Idle
    <2>2. CASE At(p, "idle") /\ Begun(p)
      BY <1>0, <2>2 DEF Begun
    <2>3. CASE req'[p].pc = "detach"
      <3>1. /\ SettleYounger(p) /\ At(p, "younger") /\ Owned(req[p].pid) # {}
            /\ req'[p].boot = Latest(req[p].pid)
            /\ req'[p].pid = req[p].pid /\ req'[p].id = req[p].id
        BY <1>1, <2>3 DEF Transition, To, Took, Begun, Idle
      <3>2. req[p].pid \in Windows /\ Latest(req[p].pid) \in 1 .. Len(table)
        BY <1>3, <1>4, <3>1
      <3> QED
        BY <1>0, <1>1, <2>3, <3>1, <3>2
    <2>4. CASE At(p, "window") /\ \E i \in Owned(req[p].pid) : Took(p, "rotate", i)
      BY <1>0, <1>1, <1>3, <2>4 DEF Took
    <2>5. ASSUME NEW place \in Places, To(p, place),
                 \/ place \in {"window", "reread", "create", "again", "mine"}
                 \/ (place = "free" /\ At(p, "close"))
                 \/ (place \in {"move", "tell"} /\ req[p].pc \in {"younger", "detach", "move"}),
                 place \in {"move", "tell"} \/ ~ (req[p].pc \in AfterLook)
          PROVE  Shape(req[p])'
      BY <1>0, <1>1, <2>5 DEF To
    <2>6. ASSUME NEW i \in 1 .. Len(table), NEW place \in {"adopt", "close", "younger", "active"},
                 Took(p, place, i), ~ (req[p].pc \in AfterLook)
          PROVE  Shape(req[p])'
      BY <1>0, <1>1, <2>6 DEF Took
    <2>7. {"window", "reread", "create", "again", "mine", "free", "move", "tell"} \subseteq Places
      BY DEF Places
    <2> QED
      BY <1>1, <2>1, <2>2, <2>3, <2>4, <2>5, <2>6, <2>7 DEF Transition
  <1> QED
    BY <1>2, <1>5 DEF Shapes

\* A Settle keeps what it knows.
LEMMA LookedsNext ==
  ASSUME Kinds, TableInv, Shapes, Lookeds, NEW p \in Procs, ReqStep(p) PROVE Lookeds'
  <1>0. /\ Len(table) \in Nat /\ Len(table') \in Nat /\ Len(table) <= Len(table')
        /\ \A i \in 1 .. Len(table) : table'[i].at = table[i].at
    BY TableGrown, RowKinds DEF Grown
  <1>1. Alone(p) /\ Transition(p) /\ Shape(req[p])
    BY ReqEffect DEF Shapes
  <1>2. ASSUME NEW q \in Procs PROVE Len(seen[q]) \in Nat
    BY LenProperties DEF Kinds
  <1>3. ASSUME NEW q \in Procs, Looked(req[q], seen[q]), req[q].pc \in AfterLook, seen'[q] = seen[q],
               req'[q].pid = req[q].pid, req'[q].id = req[q].id, req'[q].boot = req[q].boot
        PROVE  Looked(req[q], seen[q])'
    BY <1>0, <1>2, <1>3 DEF Looked
  <1>4. ASSUME NEW q \in Procs, q # p PROVE Looked(req[q], seen[q])'
    <2>1. req'[q] = req[q] /\ seen'[q] = seen[q] /\ Looked(req[q], seen[q])
      BY <1>1, <1>4, RestEffect DEF Alone, Lookeds
    <2>2. CASE req[q].pc \in AfterLook
      BY <1>3, <2>1, <2>2
    <2>3. CASE req[q].pc \notin AfterLook
      BY <2>1, <2>3 DEF Looked
    <2> QED
      BY <2>2, <2>3
  <1>5. Looked(req[p], seen[p])'
    <2>1. CASE req'[p].pc \notin AfterLook
      BY <2>1 DEF Looked
    <2>2. CASE (At(p, "detach") \/ At(p, "move")) /\ (To(p, "move") \/ To(p, "tell"))
      <3>1. seen'[p] = seen[p] /\ Looked(req[p], seen[p])
        BY <2>2, RestEffect DEF To, Idle, Lookeds
      <3> QED
        BY <1>3, <2>2, <3>1 DEF At, AfterLook, To
    <2>3. CASE /\ SettleYounger(p) /\ At(p, "younger") /\ req'[p].id = req[p].id /\ req'[p].pid = req[p].pid
               /\ req'[p].boot = 0 => (Owned(req[p].pid) # {} => ~ Younger(Latest(req[p].pid), req[p].id))
      <3>1. seen'[p] = table /\ table' = table /\ req[p].id \in 1 .. Len(table)
        BY <1>0, <1>1, <2>3, RestEffect DEF Shape, WithRow, At
      <3>2. ASSUME req'[p].boot = 0, req[p].pid # NoWindow, NEW i \in 1 .. Len(table),
                   table[i].pid = req[p].pid, i # req[p].id
            PROVE  table[i].at <= table[req[p].id].at
        <4>1. i \in Owned(req[p].pid) /\ now \in Nat
          BY <3>2, RowKinds DEF Owned, Kinds
        <4>2. /\ Latest(req[p].pid) \in 1 .. Len(table)
              /\ table[i].at <= table[Latest(req[p].pid)].at
          BY <4>1, LatestIs, RowKinds DEF Owned
        <4>3. Latest(req[p].pid) = req[p].id \/ ~ (table[Latest(req[p].pid)].at > table[req[p].id].at)
          BY <2>3, <3>2, <4>1 DEF Younger
        <4> QED
          BY <3>1, <4>2, <4>3, RowKinds
      <3> QED
        BY <1>0, <2>3, <3>1, <3>2 DEF Looked
    <2>4. CASE req'[p].pc \in AfterLook
      <3>1. \/ (At(p, "detach") \/ At(p, "move")) /\ (To(p, "move") \/ To(p, "tell"))
            \/ SettleYounger(p) /\ At(p, "younger") /\ (To(p, "move") \/ To(p, "tell"))
                 /\ (Owned(req[p].pid) # {} => ~ Younger(Latest(req[p].pid), req[p].id))
            \/ /\ SettleYounger(p) /\ At(p, "younger") /\ Owned(req[p].pid) # {}
               /\ req'[p].boot = Latest(req[p].pid)
               /\ req'[p].pid = req[p].pid /\ req'[p].id = req[p].id
        BY <1>1, <2>4 DEF Transition, AfterLook, To, Took, Begun, Idle
      <3>2. Owned(req[p].pid) # {} => Latest(req[p].pid) # 0
        BY LatestIs, RowKinds DEF Owned, Kinds
      <3> QED
        BY <2>2, <2>3, <3>1, <3>2 DEF To
    <2> QED
      BY <2>1, <2>4
  <1> QED
    BY <1>4, <1>5 DEF Lookeds

\* The step of a request keeps the invariant.
LEMMA ReqStepInv == ASSUME ResolverInv, NEW p \in Procs, ReqStep(p) PROVE ResolverInv'
  <1>1. Kinds /\ TableInv /\ Shapes /\ Lookeds
    BY DEF ResolverInv
  <1>2. Kinds'
    BY <1>1, RestEffect, ReqEffect DEF Kinds, Alone
  <1> QED
    BY <1>1, <1>2, TableInvNext, ShapesNext, LookedsNext DEF ResolverInv

\* So do the end of a window, the clock and the channels.
LEMMA OtherStepInv ==
  ASSUME ResolverInv, (\E w \in Windows : WindowExit(w)) \/ Tick \/ UNCHANGED resolverVars
  PROVE  ResolverInv'
  <1>1. UNCHANGED <<table, req, calls, faults, seen>> /\ live' \subseteq live
    BY DEF WindowExit, Tick, resolverVars
  <1>2. now' = now \/ (now' = now + 1 /\ now < MaxSeconds)
    BY DEF WindowExit, Tick, resolverVars
  <1>3. now' \in 1 .. MaxSeconds /\ now <= now' /\ now \in Nat /\ now' \in Nat
    BY <1>2, ResolverAssumption DEF ResolverInv, Kinds
  <1>4. Kinds'
    BY <1>1, <1>3 DEF ResolverInv, Kinds
  <1>5. TableInv'
    <2>1. \A i \in DOMAIN table : table[i].at <= now'
      BY <1>3, RowKinds DEF ResolverInv
    <2> QED
      BY <1>1, <2>1 DEF ResolverInv, TableInv, Bound
  <1>6. Shapes' /\ Lookeds'
    BY <1>1 DEF ResolverInv, Shapes, Shape, Lookeds, Looked
  <1> QED
    BY <1>4, <1>5, <1>6 DEF ResolverInv

\* The invariant holds at first.
LEMMA ResolverInvInit == ASSUME ResolverInit PROVE ResolverInv
  <1>1. table = << >> /\ Len(table) = 0 /\ DOMAIN table = {} /\ table \in Seq(Rows)
    BY EmptySeq DEF ResolverInit
  <1>2. Idle \in Requests /\ Idle.id = 0 /\ Idle.boot = 0 /\ Idle.pc = "idle"
    BY DEF Idle, Requests, Places, Ids
  <1>3. Kinds
    BY <1>1, <1>2, ResolverAssumption DEF ResolverInit, Kinds
  <1>4. TableInv
    BY <1>1 DEF TableInv, Bound
  <1>5. Shapes /\ Lookeds
    BY <1>1, <1>2 DEF ResolverInit, Shapes, Shape, Lookeds, Looked, WithRow, AfterLook
  <1> QED
    BY <1>3, <1>4, <1>5 DEF ResolverInv

-----------------------------------------------------------------------------
(* The channels. *)

\* A Settle of w will report subject i.
Teller(w, i) ==
  \E p \in Procs : req[p].pid = w /\ req[p].boot = i /\ req[p].pc \in {"move", "tell"}

\* The channel of w is on a row.
OnRow(w) == chan[w].pc \in {"dial", "open"} => chan[w].sub \in DOMAIN table

\* The channel of w on a subject its window left is told, will be, or was missed.
Told(w) ==
  chan[w].pc \in {"dial", "open"} /\ chan[w].sub \in left[w] =>
    \/ chan[w].sub \in missed[w]
    \/ chan[w].pc = "open" /\ chan[w].q = "moved"
    \/ Teller(w, chan[w].sub)

\* The kinds of the channels' variables.
ChannelKinds ==
  /\ chan \in [Channeled -> Channels]
  /\ left \in [Windows -> SUBSET (DOMAIN table)]
  /\ missed \in [Windows -> SUBSET (DOMAIN table)]
  /\ proven \subseteq Channeled

\* The invariant of the channels: what a window left is detached.
ChannelInv ==
  /\ ChannelKinds
  /\ \A w \in Windows : \A i \in left[w] : IsDetached(table, i)
  /\ \A w \in Channeled : OnRow(w) /\ Told(w)

\* The inductive invariant.
Inv == ResolverInv /\ ChannelInv

\* The steps of the channel of w.
ChannelStep(w) ==
  \/ HandleResolve(w) \/ Attach(w) \/ Drop(w) \/ ReceiveProbe(w)
  \/ ReceiveMoved(w) \/ ChannelState(w) \/ ChannelAck(w)

\* Only the channel of w changes, to this.
Put(w, pc, i, q) ==
  /\ chan' \in [Channeled -> Channels]
  /\ \A v \in Channeled : v # w => chan'[v] = chan[v]
  /\ chan'[w].pc = pc /\ chan'[w].sub = i /\ chan'[w].q = q

\* A channel becomes another.
LEMMA Becomes ==
  ASSUME ChannelKinds, NEW w \in Channeled, NEW c \in Channels, Become(w, c)
  PROVE  Put(w, c.pc, c.sub, c.q)
  BY DEF ChannelKinds, Become, Put

\* It goes on with its subject.
LEMMA BecomesAt ==
  ASSUME ChannelKinds, NEW w \in Channeled, NEW pc \in {"pid", "open"},
         Become(w, [chan[w] EXCEPT !.pc = pc])
  PROVE  Put(w, pc, chan[w].sub, chan[w].q)
  <1> DEFINE c == [chan[w] EXCEPT !.pc = pc]
  <1>1. c \in Channels /\ c.pc = pc /\ c.sub = chan[w].sub /\ c.q = chan[w].q
    BY DEF ChannelKinds, Channels
  <1>2. Become(w, c)
    OBVIOUS
  <1> HIDE DEF c
  <1> QED
    BY <1>1, <1>2, Becomes

\* Its queue is filled or emptied.
LEMMA BecomesQueued ==
  ASSUME ChannelKinds, NEW w \in Channeled, NEW q \in {"empty", "probe", "moved"},
         Become(w, [chan[w] EXCEPT !.q = q])
  PROVE  Put(w, chan[w].pc, chan[w].sub, q)
  <1> DEFINE c == [chan[w] EXCEPT !.q = q]
  <1>1. c \in Channels /\ c.pc = chan[w].pc /\ c.sub = chan[w].sub /\ c.q = q
    BY DEF ChannelKinds, Channels
  <1>2. Become(w, c)
    OBVIOUS
  <1> HIDE DEF c
  <1> QED
    BY <1>1, <1>2, Becomes

\* It dials a subject.
LEMMA Dials ==
  ASSUME ChannelKinds, NEW w \in Channeled, NEW i \in Ids, Dial(w, i) PROVE Put(w, "dial", i, "empty")
  <1> DEFINE c == [pc |-> "dial", sub |-> i, q |-> "empty"]
  <1>1. c \in Channels /\ c.pc = "dial" /\ c.sub = i /\ c.q = "empty"
    BY DEF Channels
  <1>2. Become(w, c)
    BY DEF Dial
  <1> HIDE DEF c
  <1> QED
    BY <1>1, <1>2, Becomes

\* It polls.
LEMMA Polls ==
  ASSUME ChannelKinds, NEW w \in Channeled, Become(w, Polling) PROVE Put(w, "poll", 0, "empty")
  <1>1. Polling \in Channels /\ Polling.pc = "poll" /\ Polling.sub = 0 /\ Polling.q = "empty"
    BY DEF Channels, Polling, Ids
  <1> QED
    BY <1>1, Becomes

\* A channel's frame is missed.
LEMMA Misses ==
  ASSUME ChannelKinds, NEW w \in Windows, NEW i \in DOMAIN table, Miss(w, i)
  PROVE  /\ missed' \in [Windows -> SUBSET (DOMAIN table)] /\ i \in missed'[w]
         /\ \A v \in Windows : missed[v] \subseteq missed'[v]
  BY DEF ChannelKinds, Miss

\* What the step of a channel leaves alone, and where the channel is after it.
LEMMA ChannelEffect ==
  ASSUME Inv, NEW w \in Channeled, ChannelStep(w)
  PROVE  /\ UNCHANGED resolverVars /\ left' = left /\ proven' \subseteq Channeled
         /\ chan' \in [Channeled -> Channels]
         /\ missed' \in [Windows -> SUBSET (DOMAIN table)]
         /\ \A v \in Windows : missed[v] \subseteq missed'[v]
         /\ \A v \in Channeled : v # w => chan'[v] = chan[v]
         /\ \/ chan'[w].pc \notin {"dial", "open"}
            \/ chan'[w].pc = "dial" /\ chan'[w].sub \in Bound(BootSession[w]) \cup Owned(w)
            \/ /\ chan[w].pc \in {"dial", "open"} /\ chan'[w].pc \in {"dial", "open"}
               /\ chan'[w].sub = chan[w].sub
               /\ chan[w].q = "moved" /\ chan[w].pc = "open" =>
                    chan'[w] = chan[w] \/ chan[w].sub \in missed'[w]
  <1>0. /\ ChannelKinds /\ OnRow(w) /\ w \in Windows
        /\ missed \in [Windows -> SUBSET (DOMAIN table)] /\ proven \subseteq Channeled
    BY ChannelAssumption DEF Inv, ChannelInv, ChannelKinds, Channeled
  <1>1. chan[w] \in Channels
    BY <1>0 DEF ChannelKinds
  <1>2. DOMAIN table = 1 .. Len(table) /\ Len(table) \in Nat /\ now \in Nat
    BY RowKinds DEF Inv, ResolverInv, Kinds
  <1>3. CASE FindExact(w)
    <2>1. ASSUME NEW i \in Bound(BootSession[w]), Dial(w, i)
          PROVE  Put(w, "dial", i, "empty")
      <3>1. i \in Ids
        BY <1>2 DEF Bound, Ids
      <3> QED
        BY <1>0, <2>1, <3>1, Dials
    <2>2. Become(w, [chan[w] EXCEPT !.pc = "pid"]) => Put(w, "pid", chan[w].sub, chan[w].q)
      BY <1>0, BecomesAt
    <2> QED
      BY <1>0, <1>3, <2>1, <2>2 DEF FindExact, Put
  <1>4. CASE FindWindow(w)
    <2>1. UNCHANGED <<resolverVars, left, missed, proven>>
      BY <1>4 DEF FindWindow
    <2>2. CASE Owned(w) = {}
      BY <1>0, <1>4, <2>1, <2>2, Polls DEF FindWindow, Put
    <2>3. CASE Owned(w) # {}
      <3>1. Latest(w) \in Owned(w)
        BY <1>2, <2>3, LatestIs DEF Inv, ResolverInv
      <3>2. Latest(w) \in Ids
        BY <1>2, <3>1 DEF Owned, Ids
      <3>3. Put(w, "dial", Latest(w), "empty")
        BY <1>0, <1>4, <2>3, <3>2, Dials DEF FindWindow
      <3> QED
        BY <1>0, <2>1, <3>1, <3>3 DEF Put
    <2> QED
      BY <2>2, <2>3
  <1>5. CASE Attach(w)
    <2>1. chan[w].pc = "dial" /\ UNCHANGED <<resolverVars, left, missed, proven>>
      BY <1>5 DEF Attach
    <2>2. Put(w, "open", chan[w].sub, chan[w].q)
      BY <1>0, <1>5, BecomesAt DEF Attach
    <2> QED
      BY <1>0, <2>1, <2>2 DEF Put
  <1>6. CASE Drop(w)
    <2>1. chan[w].pc = "open" /\ chan[w].sub \in Ids /\ chan[w].sub \in DOMAIN table
      BY <1>0, <1>1, <1>6 DEF Drop, OnRow, Channels
    <2>2. Put(w, "dial", chan[w].sub, "empty")
      BY <1>0, <1>6, <2>1, Dials DEF Drop
    <2>3. /\ missed' \in [Windows -> SUBSET (DOMAIN table)]
          /\ \A v \in Windows : missed[v] \subseteq missed'[v]
          /\ chan[w].q = "moved" => chan[w].sub \in missed'[w]
      BY <1>0, <1>6, <2>1, Misses DEF Drop
    <2>4. UNCHANGED <<resolverVars, left, proven>>
      BY <1>6 DEF Drop
    <2> QED
      BY <1>0, <2>1, <2>2, <2>3, <2>4 DEF Put
  <1>7. CASE ReceiveProbe(w) \/ ChannelState(w)
    <2>1. /\ chan[w].pc = "open" /\ chan[w].q \in {"probe", "empty"}
          /\ UNCHANGED <<resolverVars, left, missed, proven>>
      BY <1>7 DEF ReceiveProbe, ChannelState
    <2>2. Put(w, chan[w].pc, chan[w].sub, "empty") \/ Put(w, chan[w].pc, chan[w].sub, "probe")
      BY <1>0, <1>7, BecomesQueued DEF ReceiveProbe, ChannelState
    <2> QED
      BY <1>0, <2>1, <2>2 DEF Put
  <1>8. CASE ReceiveMoved(w)
    BY <1>0, <1>8, Polls DEF ReceiveMoved, Put
  <1>9. CASE ChannelAck(w)
    BY <1>0, <1>1, <1>9 DEF ChannelAck, ChannelKinds, Channels
  <1> QED
    BY <1>3, <1>4, <1>5, <1>6, <1>7, <1>8, <1>9 DEF ChannelStep, HandleResolve

\* A channel dials only a subject somebody has, and one it is told to leave it
\* leaves, or the frame is missed.
LEMMA ChannelStepInv == ASSUME Inv, NEW w \in Channeled, ChannelStep(w) PROVE ChannelInv'
  <1>0. /\ ChannelKinds /\ w \in Windows /\ BootSession[w] \in Sessions /\ Channeled \subseteq Windows
        /\ \A v \in Windows : \A i \in left[v] : IsDetached(table, i)
        /\ \A v \in Channeled : OnRow(v) /\ Told(v)
    BY ChannelAssumption DEF Inv, ChannelInv, Channeled
  <1>1. UNCHANGED <<table, req>> /\ left' = left
    BY ChannelEffect DEF resolverVars
  <1>2. ChannelKinds'
    BY <1>0, <1>1, ChannelEffect DEF ChannelKinds
  <1>3. \A v \in Windows : \A i \in left'[v] : IsDetached(table', i)
    BY <1>0, <1>1
  <1>4. \A v, i : Teller(v, i)' <=> Teller(v, i)
    BY <1>1 DEF Teller
  <1>5. ASSUME NEW v \in Channeled, v # w PROVE OnRow(v)' /\ Told(v)'
    <2>1. chan'[v] = chan[v] /\ missed[v] \subseteq missed'[v] /\ OnRow(v) /\ Told(v)
      BY <1>0, <1>5, ChannelEffect
    <2> QED
      BY <1>1, <1>4, <2>1 DEF OnRow, Told
  <1>6. OnRow(w)' /\ Told(w)'
    <2>1. CASE chan'[w].pc \notin {"dial", "open"}
      BY <2>1 DEF OnRow, Told
    <2>2. CASE chan'[w].pc = "dial" /\ chan'[w].sub \in Bound(BootSession[w]) \cup Owned(w)
      <3>1. chan'[w].sub \in DOMAIN table /\ ~ IsDetached(table, chan'[w].sub)
        BY <1>0, <2>2, ResolverAssumption DEF Bound, Owned, IsDetached
      <3>2. chan'[w].sub \notin left'[w]
        BY <1>0, <1>1, <3>1
      <3> QED
        BY <1>1, <3>1, <3>2 DEF OnRow, Told
    <2>3. CASE /\ chan[w].pc \in {"dial", "open"} /\ chan'[w].pc \in {"dial", "open"}
               /\ chan'[w].sub = chan[w].sub
               /\ chan[w].q = "moved" /\ chan[w].pc = "open" =>
                    chan'[w] = chan[w] \/ chan[w].sub \in missed'[w]
      <3>1. OnRow(w) /\ Told(w) /\ missed[w] \subseteq missed'[w]
        BY <1>0, ChannelEffect
      <3>2. OnRow(w)'
        BY <1>1, <2>3, <3>1 DEF OnRow
      <3>3. Told(w)'
        BY <1>1, <1>4, <2>3, <3>1 DEF Told
      <3> QED
        BY <3>2, <3>3
    <2> QED
      BY <2>1, <2>2, <2>3, ChannelEffect
  <1> QED
    BY <1>2, <1>3, <1>5, <1>6 DEF ChannelInv

\* A statement of a Settle on its way to report the boot subject.
LEMMA TellerStep ==
  ASSUME Inv, NEW p \in Procs, Statement(p) \/ Fail(p)
  PROVE  /\ ~ At(p, "tell")
         /\ At(p, "move") => To(p, "tell") \/ req'[p].pc = "idle"
         /\ At(p, "detach") /\ table' # table => To(p, "move") \/ To(p, "tell")
  <1>0. Kinds /\ TableInv
    BY DEF Inv, ResolverInv
  <1>1. Transition(p)
    BY <1>0, ReqEffect DEF ReqStep
  <1>2. ~ At(p, "tell")
    BY DEF Statement, Fail, At, StartExact, StartAdopt, StartReread, StartWindow, StartRotate, Create,
       FreshFind, FreshClose, FreshDetach, SettleHeld, RebindFind, RebindWindow, RebindActive,
       SettleYounger, SettleDetach, SettleMove
  <1>3. At(p, "move") => To(p, "tell") \/ req'[p].pc = "idle"
    BY <1>1 DEF Transition, At, Idle
  <1>4. ASSUME At(p, "detach"), table' # table PROVE To(p, "move") \/ To(p, "tell")
    <2>1. SettleDetach(p)
      BY <1>4 DEF Statement, Fail, At, StartExact, StartAdopt, StartReread, StartWindow, StartRotate,
         Create, FreshFind, FreshClose, FreshDetach, SettleHeld, RebindFind, RebindWindow,
         RebindActive, SettleYounger, SettleMove
    <2>2. Goto(p, Remains(p)) /\ Remains(p) \in {"move", "tell"} /\ {"move", "tell"} \subseteq Places
      BY <2>1 DEF SettleDetach, Remains, Places
    <2> QED
      BY <1>0, <2>2, Goes
  <1> QED
    BY <1>2, <1>3, <1>4

\* A subject is left with a Settle to report it; a Settle that fails before it
\* does leaves it missed.
LEMMA RequestStepInv == ASSUME Inv, NEW p \in Procs, RequestStep(p) PROVE ChannelInv'
  <1> DEFINE leaves == IF At(p, "detach") /\ table' # table THEN {req[p].boot} ELSE {}
             loses == IF At(p, "move") /\ req'[p].pc = "idle" THEN {req[p].boot} \ {0} ELSE {}
  <1>0. /\ ChannelKinds /\ Channeled \subseteq Windows /\ Kinds /\ TableInv /\ Shapes
        /\ \A w \in Channeled : OnRow(w) /\ Told(w)
    BY ChannelAssumption DEF Inv, ChannelInv, ResolverInv, Channeled
  <1>1. (Statement(p) \/ Fail(p)) /\ ReqStep(p) /\ chan' = chan /\ proven' = proven
    BY DEF RequestStep, ReqStep
  <1>2. /\ left' = [w \in Windows |->
             {i \in left[w] \cup (IF w = req[p].pid THEN leaves ELSE {}) : IsDetached(table', i)}]
        /\ missed' = [w \in Windows |->
             {i \in missed[w] \cup (IF w = req[p].pid THEN loses ELSE {}) : IsDetached(table', i)}]
    BY DEF RequestStep
  <1>3. /\ DOMAIN table = 1 .. Len(table) /\ DOMAIN table' = 1 .. Len(table')
        /\ DOMAIN table \subseteq DOMAIN table'
    BY <1>0, <1>1, TableGrown, RowKinds, LenProperties DEF Grown
  <1>4. leaves \subseteq DOMAIN table /\ loses \subseteq DOMAIN table
    <2>1. Shape(req[p])
      BY <1>0 DEF Shapes
    <2> QED
      BY <1>0, <1>3, <2>1, RowKinds DEF Shape, At
  <1> HIDE DEF leaves, loses
  <1>5. ASSUME NEW w \in Windows
        PROVE  /\ left[w] \subseteq DOMAIN table /\ missed[w] \subseteq DOMAIN table
               /\ left'[w] \subseteq DOMAIN table' /\ missed'[w] \subseteq DOMAIN table'
               /\ \A i \in left'[w] : IsDetached(table', i)
               /\ \A i \in left'[w] : i \in left[w] \/ (w = req[p].pid /\ i \in leaves)
               /\ \A i \in missed[w] : IsDetached(table', i) => i \in missed'[w]
               /\ w = req[p].pid => \A i \in loses : IsDetached(table', i) => i \in missed'[w]
    BY <1>0, <1>2, <1>3, <1>4 DEF ChannelKinds
  <1>6. ChannelKinds'
    BY <1>0, <1>1, <1>2, <1>5 DEF ChannelKinds
  <1>7. Alone(p)
    BY <1>0, <1>1, ReqEffect
  <1>8. ASSUME NEW w \in Channeled PROVE OnRow(w)'
    BY <1>0, <1>1, <1>3, <1>8 DEF OnRow
  <1>9. ASSUME NEW w \in Channeled PROVE Told(w)'
    <2> DEFINE i == chan[w].sub
    <2>0. w \in Windows /\ Told(w)
      BY <1>0
    <2>1. SUFFICES ASSUME chan[w].pc \in {"dial", "open"}, i \in left'[w],
                          ~ (chan[w].pc = "open" /\ chan[w].q = "moved")
                   PROVE  i \in missed'[w] \/ Teller(w, i)'
      BY <1>1 DEF Told
    <2>2. IsDetached(table', i) /\ i \in DOMAIN table
      BY <1>4, <1>5, <2>0, <2>1
    <2>3. CASE w = req[p].pid /\ i \in leaves
      <3>1. At(p, "detach") /\ table' # table /\ i = req[p].boot
        BY <2>3 DEF leaves
      <3>2. To(p, "move") \/ To(p, "tell")
        BY <1>1, <3>1, TellerStep
      <3> QED
        BY <1>1, <2>3, <3>1, <3>2 DEF To, Teller
    <2>4. CASE i \in left[w]
      <3>1. i \in missed[w] \/ Teller(w, i)
        BY <2>0, <2>1, <2>4 DEF Told
      <3>2. CASE i \in missed[w]
        BY <1>5, <2>0, <2>2, <3>2
      <3>3. ASSUME NEW q \in Procs, req[q].pid = w, req[q].boot = i, req[q].pc \in {"move", "tell"}
            PROVE  i \in missed'[w] \/ Teller(w, i)'
        <4>1. CASE q # p
          BY <1>1, <1>7, <3>3, <4>1 DEF Alone, Teller
        <4>2. CASE q = p
          <5>1. At(p, "move") /\ (To(p, "tell") \/ req'[p].pc = "idle")
            BY <1>1, <3>3, <4>2, TellerStep DEF At
          <5>2. CASE To(p, "tell")
            BY <1>1, <3>3, <4>2, <5>2 DEF To, Teller
          <5>3. CASE req'[p].pc = "idle"
            <6>1. i # 0
              BY <1>0, <1>3, <2>2, RowKinds
            <6>2. i \in loses
              BY <3>3, <4>2, <5>1, <5>3, <6>1 DEF loses
            <6> QED
              BY <1>5, <2>0, <2>2, <3>3, <4>2, <6>2
          <5> QED
            BY <5>1, <5>2, <5>3
        <4> QED
          BY <4>1, <4>2
      <3> QED
        BY <3>1, <3>2, <3>3 DEF Teller
    <2> QED
      BY <1>5, <2>0, <2>1, <2>3, <2>4
  <1> QED
    BY <1>5, <1>6, <1>8, <1>9 DEF ChannelInv

\* The return of Settle puts the frame before the stream, or it is missed.
LEMMA TellInv == ASSUME Inv, NEW p \in Procs, Tell(p) PROVE ChannelInv'
  <1>0. /\ ChannelKinds /\ Channeled \subseteq Windows /\ Kinds /\ TableInv /\ Shape(req[p])
        /\ \A w \in Windows : \A i \in left[w] : IsDetached(table, i)
        /\ \A w \in Channeled : OnRow(w) /\ Told(w)
    BY ChannelAssumption DEF Inv, ChannelInv, ResolverInv, Channeled, Shapes
  <1>1. table' = table /\ left' = left /\ proven' = proven /\ Alone(p) /\ At(p, "tell")
    BY <1>0, Replies DEF Tell, SettleReturn
  <1>2. DOMAIN table = 1 .. Len(table)
    BY <1>0, RowKinds
  <1>3. ASSUME NEW w \in Channeled, Teller(w, chan[w].sub), ~ (w = req[p].pid /\ chan[w].sub = req[p].boot)
        PROVE  Teller(w, chan[w].sub)' \/ chan'[w] # chan[w]
    BY <1>1, <1>3 DEF Teller, Alone
  <1>4. CASE req[p].boot = 0
    <2>1. chan' = chan /\ missed' = missed
      BY <1>4 DEF Tell
    <2>2. ASSUME NEW w \in Channeled PROVE OnRow(w)' /\ Told(w)'
      <3>1. OnRow(w)'
        BY <1>0, <1>1, <2>1 DEF OnRow
      <3>2. chan[w].pc \in {"dial", "open"} => chan[w].sub # req[p].boot
        BY <1>0, <1>2, <1>4, RowKinds DEF OnRow
      <3>3. Told(w)'
        BY <1>0, <1>1, <1>3, <2>1, <3>2 DEF Told
      <3> QED
        BY <3>1, <3>3
    <2>3. ChannelKinds'
      BY <1>0, <1>1, <2>1 DEF ChannelKinds
    <2> QED
      BY <1>0, <1>1, <2>2, <2>3 DEF ChannelInv
  <1>5. CASE req[p].boot # 0
    <2>0. req[p].pid \in Windows /\ req[p].boot \in DOMAIN table /\ InjectEvent(req[p].pid, req[p].boot)
      BY <1>0, <1>2, <1>5, RowKinds DEF Shape, Tell
    <2>1. CASE Streams(req[p].pid, req[p].boot) /\ chan[req[p].pid].q = "empty"
      <3> DEFINE u == req[p].pid
      <3>1. u \in Channeled /\ chan[u].pc = "open" /\ chan[u].sub = req[p].boot /\ missed' = missed
        BY <2>0, <2>1 DEF InjectEvent, Streams
      <3>2. Put(u, chan[u].pc, chan[u].sub, "moved")
        BY <1>0, <2>0, <2>1, <3>1, BecomesQueued DEF InjectEvent
      <3>3. ASSUME NEW w \in Channeled PROVE OnRow(w)' /\ Told(w)'
        <4>1. CASE w = u
          BY <1>0, <1>1, <3>1, <3>2, <4>1 DEF Put, OnRow, Told
        <4>2. CASE w # u
          BY <1>0, <1>1, <1>3, <3>1, <3>2, <4>2 DEF Put, OnRow, Told
        <4> QED
          BY <4>1, <4>2
      <3>4. ChannelKinds'
        BY <1>0, <1>1, <3>1, <3>2 DEF ChannelKinds, Put
      <3> QED
        BY <1>0, <1>1, <3>3, <3>4 DEF ChannelInv
    <2>2. CASE ~ (Streams(req[p].pid, req[p].boot) /\ chan[req[p].pid].q = "empty")
      <3>1. chan' = chan /\ Miss(req[p].pid, req[p].boot)
        BY <2>0, <2>2 DEF InjectEvent
      <3>2. /\ missed' \in [Windows -> SUBSET (DOMAIN table)] /\ req[p].boot \in missed'[req[p].pid]
            /\ \A v \in Windows : missed[v] \subseteq missed'[v]
        BY <1>0, <2>0, <3>1, Misses
      <3>3. ASSUME NEW w \in Channeled PROVE OnRow(w)' /\ Told(w)'
        <4>1. OnRow(w)'
          BY <1>0, <1>1, <3>1 DEF OnRow
        <4>2. Told(w)'
          BY <1>0, <1>1, <1>3, <3>1, <3>2 DEF Told
        <4> QED
          BY <4>1, <4>2
      <3>4. ChannelKinds'
        BY <1>0, <1>1, <3>1, <3>2 DEF ChannelKinds
      <3> QED
        BY <1>0, <1>1, <3>3, <3>4 DEF ChannelInv
    <2> QED
      BY <2>1, <2>2
  <1> QED
    BY <1>4, <1>5

\* A request that arrives reports nothing yet.
LEMMA ArriveInv == ASSUME Inv, NEW p \in Procs, Arrive(p), UNCHANGED channelVars PROVE ChannelInv'
  <1>1. Alone(p) /\ At(p, "idle")
    BY ArriveEffect DEF Inv, ResolverInv
  <1>2. table' = table /\ chan' = chan /\ left' = left /\ missed' = missed /\ proven' = proven
    BY DEF channelVars, Arrive, Start, StartFresh, SessionRecord, Call
  <1>3. ASSUME NEW w, NEW i, Teller(w, i) PROVE Teller(w, i)'
    BY <1>1, <1>3 DEF Teller, Alone, At
  <1>4. \A w \in Channeled : OnRow(w)' /\ Told(w)'
    BY <1>2, <1>3 DEF Inv, ChannelInv, OnRow, Told
  <1> QED
    BY <1>2, <1>4 DEF Inv, ChannelInv, ChannelKinds

\* A window that ends takes its channel along.
LEMMA ExitInv == ASSUME Inv, NEW u \in Windows, Exit(u) PROVE ChannelInv'
  <1> DEFINE gone == [Polling EXCEPT !.pc = "gone"]
  <1>1. gone \in Channels /\ gone.pc = "gone"
    BY DEF Channels, Polling, Ids
  <1>2. /\ table' = table /\ req' = req /\ left' = left /\ missed' = missed /\ proven' = proven
        /\ chan' = [c \in Channeled |-> IF c = u THEN gone ELSE chan[c]]
    BY DEF Exit, WindowExit
  <1> HIDE DEF gone
  <1>3. ASSUME NEW w \in Channeled PROVE OnRow(w)' /\ Told(w)'
    BY <1>1, <1>2 DEF Inv, ChannelInv, OnRow, Told, Teller
  <1>4. ChannelKinds'
    BY <1>1, <1>2 DEF Inv, ChannelInv, ChannelKinds
  <1> QED
    BY <1>2, <1>3, <1>4 DEF Inv, ChannelInv

\* The steps of the system.
LEMMA StepCases ==
  ASSUME [Next]_vars
  PROVE  \/ UNCHANGED <<resolverVars, channelVars>>
         \/ \E p \in Procs : (Arrive(p) /\ UNCHANGED channelVars) \/ RequestStep(p) \/ Tell(p)
         \/ \E w \in Channeled : ChannelStep(w)
         \/ \E w \in Windows : Exit(w)
         \/ (Tick /\ UNCHANGED channelVars)
  BY DEF Next, vars, ChannelStep, resolverVars, channelVars

\* Seen from the resolver they are these.
LEMMA ResolverCases ==
  ASSUME Inv, [Next]_vars
  PROVE  \/ \E p \in Procs : ReqStep(p)
         \/ (\E w \in Windows : WindowExit(w)) \/ Tick \/ UNCHANGED resolverVars
  BY StepCases, ChannelEffect DEF ReqStep, RequestStep, Tell, Exit

\* The invariant is kept.
LEMMA InvNext == ASSUME Inv, [Next]_vars PROVE Inv'
  <1>1. ResolverInv'
    BY ResolverCases, ReqStepInv, OtherStepInv DEF Inv
  <1>2. ASSUME UNCHANGED channelVars, UNCHANGED <<table, req>> PROVE ChannelInv'
    <2>1. chan' = chan /\ left' = left /\ missed' = missed /\ proven' = proven /\ table' = table /\ req' = req
      BY <1>2 DEF channelVars
    <2>2. ASSUME NEW w \in Channeled PROVE OnRow(w)' /\ Told(w)'
      BY <2>1 DEF Inv, ChannelInv, OnRow, Told, Teller
    <2> QED
      BY <2>1, <2>2 DEF Inv, ChannelInv, ChannelKinds
  <1>3. ChannelInv'
    <2>1. CASE UNCHANGED <<resolverVars, channelVars>> \/ (Tick /\ UNCHANGED channelVars)
      BY <1>2, <2>1 DEF Tick, resolverVars
    <2>2. CASE \E p \in Procs : (Arrive(p) /\ UNCHANGED channelVars) \/ RequestStep(p) \/ Tell(p)
      BY <2>2, ArriveInv, RequestStepInv, TellInv
    <2>3. CASE (\E w \in Channeled : ChannelStep(w)) \/ (\E w \in Windows : Exit(w))
      BY <2>3, ChannelStepInv, ExitInv
    <2> QED
      BY <2>1, <2>2, <2>3, StepCases
  <1> QED
    BY <1>1, <1>3 DEF Inv

\* The invariant holds at first.
LEMMA InvInit == ASSUME Init PROVE Inv
  <1>1. ResolverInv
    BY ResolverInvInit DEF Init
  <1>2. Polling \in Channels /\ Polling.pc = "poll"
    BY DEF Channels, Polling, Ids
  <1>3. ChannelInv
    BY <1>2 DEF Init, ChannelInv, ChannelKinds, OnRow, Told
  <1> QED
    BY <1>1, <1>3 DEF Inv

-----------------------------------------------------------------------------
(* Theorems. *)

\* The inductive invariant holds in every behaviour of the resolver and the
\* channels.
THEOREM WindowChannelInv == Spec => []Inv
  <1>1. Inv /\ [][Next]_vars => []Inv
    BY InvNext, PTL
  <1> QED
    BY InvInit, <1>1, PTL DEF Spec

\* The unique index as a cardinality.
LEMMA BoundOnce == ASSUME TableInv, NEW s \in Sessions PROVE Cardinality(Bound(s)) <= 1
  <1>1. CASE Bound(s) = {}
    BY <1>1, FS_EmptySet
  <1>2. ASSUME NEW i \in Bound(s) PROVE Cardinality(Bound(s)) <= 1
    <2>1. Bound(s) = {i}
      BY <1>2 DEF TableInv
    <2>2. Cardinality({i}) = 1
      BY FS_Singleton
    <2> QED
      BY <2>1, <2>2
  <1> QED
    BY <1>1, <1>2

\* TypeOK always holds: two rows never share a session of the scope, and every
\* request works on rows that exist, however the statements of concurrent
\* starts, fresh starts and Settles interleave (subject/resolver.go,
\* store/subjectstore.go).
THEOREM WindowChannelTypeOK == Spec => []TypeOK
  <1>1. ASSUME Inv PROVE TypeOK
    <2>1. Kinds /\ TableInv /\ Shapes /\ ChannelKinds
      BY <1>1 DEF Inv, ResolverInv, ChannelInv
    <2>2. \A s \in Sessions : Cardinality(Bound(s)) <= 1
      BY <2>1, BoundOnce
    <2>3. \A p \in Procs : {req[p].id, req[p].boot} \subseteq 0 .. Len(table)
      BY <2>1 DEF Shapes, Shape
    <2>4. ResolverTypeOK
      BY <2>1, <2>2, <2>3 DEF Kinds, TableInv, ResolverTypeOK
    <2> QED
      BY <2>1, <2>4 DEF ChannelKinds, TypeOK
  <1> QED
    BY WindowChannelInv, <1>1, PTL

\* StrandedOnlyIfMissed always holds: a channel stays on the subject its window
\* left only if handleSessionRecord's frame missed its stream, or Settle failed
\* between detaching the subject and returning it (daemon/handlers.go).
THEOREM StrandedIsMissed == Spec => []StrandedOnlyIfMissed
  <1>1. Inv => StrandedOnlyIfMissed
    BY DEF Inv, ChannelInv, Told, Teller, StrandedOnlyIfMissed, Stranded
  <1> QED
    BY WindowChannelInv, <1>1, PTL

\* A step changes its request.
LEMMA StepMoves == ASSUME Kinds, TableInv, NEW p \in Procs, ReqStep(p) PROVE Stepped(p)
  <1>1. Transition(p)
    BY ReqEffect
  <1>2. req'[p].pc # req[p].pc
    BY <1>1 DEF Transition, To, Took, Begun, At, Idle
  <1> QED
    BY <1>2 DEF Stepped

\* OwnerNotRobbed holds of every step: no start takes the subject of a live
\* window for another, whatever happened between its liveness check and its
\* compare-and-set (subject/resolver.go, Start).
THEOREM LiveOwnerKeepsSubject == Spec => OwnerNotRobbed
  <1> DEFINE A == \A i \in DOMAIN table :
                    /\ table[i].pid \in live
                    /\ table'[i].pid \notin {table[i].pid, NoWindow}
                    => \E p \in Procs : Stepped(p) /\ req[p].pc \in Settling
  <1>1. ASSUME Inv, [Next]_vars PROVE [A]_resolverVars
    <2>0. Kinds /\ TableInv /\ Shapes
      BY <1>1 DEF Inv, ResolverInv
    <2>1. CASE \E w \in Windows : WindowExit(w)
      BY <2>1 DEF WindowExit
    <2>2. CASE Tick
      BY <2>2 DEF Tick
    <2>3. ASSUME NEW p \in Procs, ReqStep(p), NEW i \in DOMAIN table, table[i].pid \in live,
                 table'[i].pid \notin {table[i].pid, NoWindow}
          PROVE  Stepped(p) /\ req[p].pc \in Settling
      <3>1. Shape(req[p]) /\ Stepped(p) /\ i \in 1 .. Len(table)
        BY <2>0, <2>3, StepMoves, RowKinds DEF Shapes
      <3>2. table' # table /\ table'[i] # table[i]
        BY <2>3
      <3>3. /\ req[p].pc \in {"adopt", "rotate", "active", "move"} /\ i = req[p].id
            /\ table[i].pid = req[p].from /\ table'[i].pid = req[p].pid
            /\ req[p].pc = "adopt" => req[p].from \notin live
        BY <2>0, <2>3, <3>1, <3>2, TableEffect DEF Written, Inserted, Matches, liveWindow
      <3> QED
        BY <2>3, <3>1, <3>3 DEF Shape, Settling
    <2> QED
      BY <1>1, <2>1, <2>2, <2>3, ResolverCases
  <1> QED
    BY WindowChannelInv, <1>1, PTL DEF Spec, OwnerNotRobbed

\* DetachIsFinal holds of every step: only a request that read the row without
\* an owner binds a detached subject again (store/subjectstore.go, Rebind and
\* Detach).
THEOREM DetachedStaysDetached == Spec => DetachIsFinal
  <1> DEFINE A == \A i \in DOMAIN table :
                    IsDetached(table, i) /\ ~ IsDetached(table', i)
                    => \E p \in Procs : Stepped(p) /\ req[p].from = NoWindow
  <1>1. ASSUME Inv, [Next]_vars PROVE [A]_resolverVars
    <2>0. Kinds /\ TableInv /\ Shapes
      BY <1>1 DEF Inv, ResolverInv
    <2>1. CASE \E w \in Windows : WindowExit(w)
      BY <2>1 DEF WindowExit
    <2>2. CASE Tick
      BY <2>2 DEF Tick
    <2>3. ASSUME NEW p \in Procs, ReqStep(p), NEW i \in DOMAIN table, IsDetached(table, i),
                 ~ IsDetached(table', i)
          PROVE  Stepped(p) /\ req[p].from = NoWindow
      <3>1. Stepped(p) /\ i \in 1 .. Len(table)
        BY <2>0, <2>3, StepMoves, RowKinds
      <3>2. i = req[p].id /\ table[i].pid = req[p].from
        BY <2>0, <2>3, <3>1, TableEffect DEF Written, Inserted, Matches, IsDetached
      <3> QED
        BY <2>3, <3>1, <3>2 DEF IsDetached
    <2> QED
      BY <1>1, <2>1, <2>2, <2>3, ResolverCases
  <1> QED
    BY WindowChannelInv, <1>1, PTL DEF Spec, DetachIsFinal

\* SettleUnifies holds of every step: after a Settle nobody interfered with the
\* session's row is the one the window's lookup finds (subject/resolver.go,
\* Settle).
THEOREM SettleLeavesOneSubject == Spec => SettleUnifies
  <1>1. ASSUME Inv, NEW p \in Procs, NEW w, w = req[p].pid, At(p, "tell"), w # NoWindow,
               Len(seen[p]) = Len(table),
               \A i \in DOMAIN table \ {req[p].id, req[p].boot} : table[i].pid = seen[p][i].pid,
               table[req[p].id].pid = w,
               req[p].boot # 0 =>
                 /\ {i \in DOMAIN seen[p] : seen[p][i].pid = w} \ {req[p].id} = {req[p].boot}
                 /\ IsDetached(table, req[p].boot),
               \A i \in {j \in DOMAIN seen[p] : seen[p][j].pid = w} \ {req[p].id} :
                 table[i].at # table[req[p].id].at
        PROVE  Latest(w) = req[p].id
    <2> DEFINE h == req[p].id  k == Latest(w)
    <2>0. Kinds /\ TableInv /\ Shape(req[p]) /\ Looked(req[p], seen[p])
      BY <1>1 DEF Inv, ResolverInv, Shapes, Lookeds
    <2>1. DOMAIN table = 1 .. Len(table) /\ Len(table) \in Nat /\ now \in Nat
      BY <2>0, RowKinds DEF Kinds
    <2>2. h \in Owned(w)
      BY <1>1, <2>0, <2>1 DEF Owned, Shape, WithRow, At
    <2>3. k \in Owned(w) /\ (table[h].at < table[k].at \/ (table[h].at = table[k].at /\ h <= k))
      BY <2>0, <2>1, <2>2, LatestIs
    <2>4. SUFFICES ASSUME k # h PROVE FALSE
      OBVIOUS
    <2>5. DOMAIN seen[p] = DOMAIN table
      <3>1. seen[p] \in Seq(Rows)
        BY <2>0 DEF Kinds
      <3> QED
        BY <1>1, <2>1, <3>1, LenProperties
    <2>6. k # req[p].boot
      BY <1>1, <2>1, <2>3 DEF Owned, IsDetached
    <2>7. k \in {i \in DOMAIN seen[p] : seen[p][i].pid = w} \ {h}
      BY <1>1, <2>3, <2>4, <2>5, <2>6 DEF Owned
    <2>8. req[p].boot = 0 /\ table[k].at # table[h].at
      BY <1>1, <2>6, <2>7
    <2>9. seen[p][k].at <= seen[p][h].at /\ seen[p][k].at = table[k].at /\ seen[p][h].at = table[h].at
      BY <1>1, <2>0, <2>1, <2>2, <2>4, <2>5, <2>7, <2>8 DEF Looked, AfterLook, At, Owned
    <2>10. table[k].at \in Nat /\ table[h].at \in Nat
      BY <2>0, <2>1, <2>2, <2>3, RowKinds DEF Owned
    <2> QED
      BY <2>3, <2>8, <2>9, <2>10
  <1> DEFINE A == \A p \in Procs :
       LET h == req[p].id
           w == req[p].pid
           b == req[p].boot
           others == {i \in DOMAIN seen[p] : seen[p][i].pid = w} \ {h}
       IN /\ At(p, "tell") /\ Stepped(p)
          /\ w # NoWindow
          /\ Len(seen[p]) = Len(table)
          /\ \A i \in DOMAIN table \ {h, b} : table[i].pid = seen[p][i].pid
          /\ table[h].pid = w
          /\ b # 0 => others = {b} /\ IsDetached(table, b)
          /\ \A i \in others : table[i].at # table[h].at
          => Latest(w) = h
  <1>2. ASSUME Inv PROVE A
    BY <1>1, <1>2
  <1>3. ASSUME Inv, [Next]_vars PROVE [A]_resolverVars
    BY <1>2, <1>3
  <1> QED
    BY WindowChannelInv, <1>3, PTL DEF Spec, SettleUnifies
=============================================================================
