--------------------------- MODULE SubjectResolver ---------------------------
(***************************************************************************)
(* Who owns a subject: the rows of the subjects table in one scope (every  *)
(* statement names its scope, so scopes do not meet) and the requests of   *)
(* subject.Resolver that bind, rebind and detach them.                     *)
(*                                                                         *)
(* A request is a process.  One step is one statement of the store; the    *)
(* resolver opens no transaction around them, so requests interleave       *)
(* between any two.  A row is never deleted: the table is a sequence in    *)
(* rowid order.                                                            *)
(***************************************************************************)
EXTENDS Naturals, Sequences, FiniteSets

CONSTANTS
  Sessions,       \* session ids
  NoSession,      \* the empty session id, NULL in the table
  Windows,        \* window pids
  NoWindow,       \* pid 0: a request from outside any window, a detached row
  Procs,          \* request goroutines
  MaxCalls,       \* bound: requests
  MaxSeconds,     \* bound: the clock, in the seconds created_at is kept in
  MaxFaults       \* bound: failed store calls and cancelled requests

ASSUME ResolverAssumption ==
  /\ NoSession \notin Sessions
  /\ NoWindow \notin Windows
  /\ MaxCalls \in Nat /\ MaxSeconds \in Nat \ {0} /\ MaxFaults \in Nat

VARIABLES
  table,     \* the subjects table
  req,       \* req[p]: the request p serves and what it has read
  live,      \* the windows whose process runs (procs.LiveClaude)
  now,       \* the second
  calls, faults,  \* how much of the bounds is used
  seen       \* history: seen[p] is the table in which p's Settle looked for the
             \* window's latest subject

resolverVars == <<table, req, live, now, calls, faults, seen>>

Ids == Nat
Rows == [ses : Sessions \cup {NoSession}, pid : Windows \cup {NoWindow},
         open : BOOLEAN, at : Nat]
Places == {"idle", "exact", "adopt", "reread", "window", "rotate", "create",
           "held", "again", "mine", "active", "younger", "detach", "move", "tell",
           "stale", "close", "free"}

\* A request: where it is, the caller's window, the row it works on, the pid it
\* read there, and for Settle the boot subject it detached (0: none).
Requests ==
  [pc : Places, ses : Sessions \cup {NoSession}, pid : Windows \cup {NoWindow},
   id : Ids, from : Windows \cup {NoWindow}, boot : Ids]

Idle == [pc |-> "idle", ses |-> NoSession, pid |-> NoWindow, id |-> 0,
         from |-> NoWindow, boot |-> 0]

Settling == {"held", "again", "mine", "active", "younger", "detach", "move", "tell"}

At(p, place) == req[p].pc = place
Go(p, r) == req' = [req EXCEPT ![p] = r]
Goto(p, place) == Go(p, [req[p] EXCEPT !.pc = place])
Reply(p) == Go(p, Idle)

\* The request goes on with row i, remembering the owner it saw there.
With(p, place, i) ==
  Go(p, [req[p] EXCEPT !.pc = place, !.id = i, !.from = table[i].pid])

-----------------------------------------------------------------------------
(* The store. *)

\* FindBySessionScope: a blank session matches nothing; the unique index makes
\* this at most one row.
Bound(s) == {i \in DOMAIN table : s # NoSession /\ table[i].ses = s}

\* The rows FindLatestByWindowScope chooses from.
Owned(w) == {i \in DOMAIN table : w # NoWindow /\ table[i].pid = w}

\* Its choice: ORDER BY created_at DESC, rowid DESC LIMIT 1.
Latest(w) ==
  CHOOSE i \in Owned(w) : \A j \in Owned(w) :
    table[j].at < table[i].at \/ (table[j].at = table[i].at /\ j <= i)

\* Mutant of Taken: the index is not unique.
TakenNever(i, s) == FALSE

\* The unique index (session_id, scope) refuses s on row i.
Taken(i, s) == Bound(s) \ {i} # {}

\* Mutant of Matches: the statement names only the row.
MatchesAny(i, from) == TRUE

\* Rebind: UPDATE ... WHERE id = i AND claude_pid = from.
Matches(i, from) == table[i].pid = from

Insert(s, w) == Append(table, [ses |-> s, pid |-> w, open |-> TRUE, at |-> now])

\* Detach: session NULL, pid 0.
Detached(i) == [table EXCEPT ![i].ses = NoSession, ![i].pid = NoWindow]
IsDetached(t, i) == t[i].ses = NoSession /\ t[i].pid = NoWindow

liveWindow(w) == w \in live

\* The statement Rebind(id, from) for the caller's window: a miss, an error of
\* the unique index, or a swap.
CasMiss(p) == ~ Matches(req[p].id, req[p].from) /\ UNCHANGED table
CasError(p) ==
  Matches(req[p].id, req[p].from) /\ Taken(req[p].id, req[p].ses) /\ UNCHANGED table
CasSwap(p) ==
  /\ Matches(req[p].id, req[p].from)
  /\ ~ Taken(req[p].id, req[p].ses)
  /\ table' = [table EXCEPT ![req[p].id].ses = req[p].ses,
                            ![req[p].id].pid = req[p].pid]

-----------------------------------------------------------------------------
(* Requests arrive. *)

\* A request of a live window, or of a shell outside any.
Call(p, place, s, w) ==
  /\ At(p, "idle")
  /\ calls < MaxCalls
  /\ w \in live \cup {NoWindow}
  /\ calls' = calls + 1
  /\ Go(p, [Idle EXCEPT !.pc = place, !.ses = s, !.pid = w])
  /\ UNCHANGED <<table, live, now, faults, seen>>

Start(p, s, w) == Call(p, "exact", s, w)
StartFresh(p, s, w) == Call(p, "stale", s, w)

\* handleSessionRecord returns at once when the envelope names no session.
SessionRecord(p, s, w) == s # NoSession /\ Call(p, "held", s, w)

quiet == <<live, now, calls, faults, seen>>
Forget(p) == seen' = [seen EXCEPT ![p] = <<>>]

-----------------------------------------------------------------------------
(* Start. *)

\* The exact binding.  A row of another window goes to the liveness check.
StartExact(p) ==
  /\ At(p, "exact")
  /\ UNCHANGED <<table, quiet>>
  /\ \/ Bound(req[p].ses) = {} /\ Goto(p, "window")
     \/ \E i \in Bound(req[p].ses) :
          IF req[p].pid \notin {NoWindow, table[i].pid} THEN With(p, "adopt", i)
                                                        ELSE Reply(p)

\* A dead window's subject is adopted by compare-and-set.  A window that is dead
\* stays dead, so the check and the statement may share a step.
StartAdopt(p) ==
  /\ At(p, "adopt")
  /\ UNCHANGED quiet
  /\ \/ liveWindow(req[p].from) /\ Reply(p) /\ UNCHANGED table
     \/ ~ liveWindow(req[p].from) /\ CasMiss(p) /\ Goto(p, "reread")
     \/ ~ liveWindow(req[p].from) /\ (CasError(p) \/ CasSwap(p)) /\ Reply(p)

\* Get after a miss: the row is answered as it is now.
StartReread(p) == At(p, "reread") /\ Reply(p) /\ UNCHANGED <<table, quiet>>

\* The window's latest subject, in any status.
StartWindow(p) ==
  /\ At(p, "window")
  /\ UNCHANGED <<table, quiet>>
  /\ IF Owned(req[p].pid) = {} THEN Goto(p, "create")
                               ELSE With(p, "rotate", Latest(req[p].pid))

StartRotate(p) ==
  /\ At(p, "rotate")
  /\ UNCHANGED quiet
  /\ \/ CasMiss(p) /\ Goto(p, "create")
     \/ (CasError(p) \/ CasSwap(p)) /\ Reply(p)

\* Resolver.create: the unique index decides.
Create(p) ==
  /\ At(p, "create")
  /\ IF Bound(req[p].ses) # {} THEN UNCHANGED table
                               ELSE table' = Insert(req[p].ses, req[p].pid)
  /\ Reply(p)
  /\ UNCHANGED quiet

\* fresh: the exact binding is closed, then detached, then a row is created.
FreshFind(p) ==
  /\ At(p, "stale")
  /\ UNCHANGED <<table, quiet>>
  /\ \/ Bound(req[p].ses) = {} /\ Goto(p, "create")
     \/ \E i \in Bound(req[p].ses) : With(p, "close", i)

FreshClose(p) ==
  /\ At(p, "close")
  /\ table' = [table EXCEPT ![req[p].id].open = FALSE]
  /\ Goto(p, "free")
  /\ UNCHANGED quiet

FreshDetach(p) ==
  /\ At(p, "free")
  /\ table' = Detached(req[p].id)
  /\ Goto(p, "create")
  /\ UNCHANGED quiet

-----------------------------------------------------------------------------
(* Settle and Rebind. *)

SettleHeld(p) ==
  /\ At(p, "held")
  /\ UNCHANGED <<table, quiet>>
  /\ \/ Bound(req[p].ses) = {} /\ Goto(p, "again")
     \/ \E i \in Bound(req[p].ses) : With(p, "younger", i)

\* Resolver.Rebind looks the session up again, and if it is still unbound takes
\* the window's latest subject if that is active.
RebindFind(p) ==
  /\ At(p, "again")
  /\ UNCHANGED <<table, quiet>>
  /\ IF Bound(req[p].ses) = {} THEN Goto(p, "mine") ELSE Reply(p)

RebindWindow(p) ==
  /\ At(p, "mine")
  /\ UNCHANGED <<table, quiet>>
  /\ IF Owned(req[p].pid) # {} /\ table[Latest(req[p].pid)].open
     THEN With(p, "active", Latest(req[p].pid)) ELSE Reply(p)

RebindActive(p) ==
  /\ At(p, "active")
  /\ (CasMiss(p) \/ CasError(p) \/ CasSwap(p))
  /\ Reply(p)
  /\ UNCHANGED quiet

\* Mutant of Younger: the two subjects are swapped.
YoungerSwapped(i, h) == i # h /\ table[i].at < table[h].at

\* latest.CreatedAt.After(held.CreatedAt), in whole seconds.
Younger(i, h) == i # h /\ table[i].at > table[h].at

\* What remains of Settle once the boot subject is dealt with: the move, or the
\* reply when the row is the window's already.
Remains(p) ==
  IF req[p].pid \notin {NoWindow, req[p].from} THEN "move" ELSE "tell"

SettleYounger(p) ==
  /\ At(p, "younger")
  /\ seen' = [seen EXCEPT ![p] = table]
  /\ UNCHANGED <<table, live, now, calls, faults>>
  /\ IF Owned(req[p].pid) # {} /\ Younger(Latest(req[p].pid), req[p].id)
     THEN Go(p, [req[p] EXCEPT !.pc = "detach", !.boot = Latest(req[p].pid)])
     ELSE Goto(p, Remains(p))

SettleDetach(p) ==
  /\ At(p, "detach")
  /\ table' = Detached(req[p].boot)
  /\ Goto(p, Remains(p))
  /\ UNCHANGED quiet

\* The session's row moves to the window, whoever owned it.  On an error the
\* reply is the error and the boot subject is not reported.
SettleMove(p) ==
  /\ At(p, "move")
  /\ UNCHANGED <<live, now, calls, faults>>
  /\ \/ (CasMiss(p) \/ CasSwap(p)) /\ Goto(p, "tell") /\ UNCHANGED seen
     \/ CasError(p) /\ Reply(p) /\ Forget(p)

\* Settle returns to handleSessionRecord, which reports the boot subject.
SettleReturn(p) ==
  /\ At(p, "tell")
  /\ Reply(p)
  /\ UNCHANGED <<table, live, now, calls, faults>>
  /\ Forget(p)

-----------------------------------------------------------------------------
(* Failures and the environment. *)

\* The next store call of the request fails.
Fail(p) ==
  /\ req[p].pc \notin {"idle", "tell"}
  /\ faults < MaxFaults
  /\ faults' = faults + 1
  /\ Reply(p)
  /\ Forget(p)
  /\ UNCHANGED <<table, live, now, calls>>

\* A window's process ends; its pid does not come back.
WindowExit(w) ==
  /\ w \in live
  /\ live' = live \ {w}
  /\ UNCHANGED <<table, req, now, calls, faults, seen>>

Tick ==
  /\ now < MaxSeconds
  /\ now' = now + 1
  /\ UNCHANGED <<table, req, live, calls, faults, seen>>

\* The statements of a request, other than the return of Settle.
Statement(p) ==
  \/ StartExact(p) \/ StartAdopt(p) \/ StartReread(p) \/ StartWindow(p)
  \/ StartRotate(p) \/ Create(p)
  \/ FreshFind(p) \/ FreshClose(p) \/ FreshDetach(p)
  \/ SettleHeld(p) \/ RebindFind(p) \/ RebindWindow(p) \/ RebindActive(p)
  \/ SettleYounger(p) \/ SettleDetach(p) \/ SettleMove(p)

Arrive(p) ==
  \E s \in Sessions \cup {NoSession}, w \in Windows \cup {NoWindow} :
    Start(p, s, w) \/ StartFresh(p, s, w) \/ SessionRecord(p, s, w)

ResolverInit ==
  /\ table = <<>>
  /\ req = [p \in Procs |-> Idle]
  /\ live = Windows
  /\ now = 1
  /\ calls = 0 /\ faults = 0
  /\ seen = [p \in Procs |-> <<>>]

ResolverNext ==
  \/ \E p \in Procs : Arrive(p) \/ Statement(p) \/ SettleReturn(p) \/ Fail(p)
  \/ \E w \in Windows : WindowExit(w)
  \/ Tick

ResolverSpec == ResolverInit /\ [][ResolverNext]_resolverVars

-----------------------------------------------------------------------------
(* Properties. *)

\* Every variable holds a value of its kind, requests work on rows that exist,
\* and the unique index holds: two rows never share a session.
ResolverTypeOK ==
  /\ table \in Seq(Rows)
  /\ \A s \in Sessions : Cardinality(Bound(s)) <= 1
  /\ req \in [Procs -> Requests]
  /\ \A p \in Procs : {req[p].id, req[p].boot} \subseteq 0 .. Len(table)
  /\ live \subseteq Windows
  /\ now \in 1 .. MaxSeconds
  /\ calls \in 0 .. MaxCalls /\ faults \in 0 .. MaxFaults
  /\ seen \in [Procs -> Seq(Rows)]

\* The request whose step changed the table.
Stepped(p) == req'[p] # req[p]

\* A subject of a live window passes to another window only on a hook's word: a
\* start never takes it, also when the owner it saw dead was replaced since by
\* another start (resolver.go, Start).
OwnerNotRobbed ==
  [][\A i \in DOMAIN table :
       /\ table[i].pid \in live
       /\ table'[i].pid \notin {table[i].pid, NoWindow}
       => \E p \in Procs : Stepped(p) /\ req[p].pc \in Settling]_resolverVars

\* A detached subject is not bound again: a compare-and-set that read it while
\* it had an owner misses.  The pid of a row started outside any window is the
\* pid of a detached row, and there the compare-and-set cannot tell
\* (subjectstore.go, Rebind and Detach).
DetachIsFinal ==
  [][\A i \in DOMAIN table :
       IsDetached(table, i) /\ ~ IsDetached(table', i)
       => \E p \in Procs : Stepped(p) /\ req[p].from = NoWindow]_resolverVars

\* A Settle nobody interfered with leaves one subject to find: the session's row
\* is the window's latest too, so a lookup under the boot id finds it.  Since it
\* looked for the window's latest subject no row came to the window or left it
\* but the two it deals with, and the boot subject it detached was the only
\* other one, and is detached still.  Rows of the same second are excepted
\* (resolver.go, Settle).
SettleUnifies ==
  [][\A p \in Procs :
       LET h == req[p].id
           w == req[p].pid
           b == req[p].boot
           others == {i \in DOMAIN seen[p] : seen[p][i].pid = w} \ {h}
       IN /\ At(p, "tell") /\ Stepped(p)
          /\ w # NoWindow
          /\ Len(seen[p]) = Len(table)
          /\ \A i \in DOMAIN table \ {h, b} : table[i].pid = seen[p][i].pid
          /\ table[h].pid = w
          /\ b # 0 => others = {b} /\ IsDetached(table, b)
          /\ \A i \in others : table[i].at # table[h].at
          => Latest(w) = h]_resolverVars
=============================================================================
