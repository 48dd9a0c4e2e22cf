------------------------------ MODULE MailboxProofs --------------------------
(***************************************************************************)
(* Proofs about Mailbox, for any agents, types, requests and budget, and   *)
(* any number of directives, failures and restarts.                        *)
(*                                                                         *)
(* Inv adds to the type invariant what the handlers rely on without saying *)
(* so: what a request is about at each of its places, that registerMu is   *)
(* held exactly between RegisterAgent and the end of the sweep, that ids   *)
(* name one directive, that an await without a release in its channel is   *)
(* the one registered, and how far the sweep has come.                     *)
(***************************************************************************)
EXTENDS Mailbox, FiniteSetTheorems, TLAPS

-----------------------------------------------------------------------------
(* The inductive invariant. *)

\* The table holds finitely many rows, whatever agents there could be.
FiniteRows == IsFiniteSet({a \in Agents : rows[a] # "absent"})

\* The places of registerAndSupersede itself, the calls of its sweep apart.
Registering == {"started", "subscribe", "list", "sweep", "registered"}

\* Those of handleAgentStop up to the calls it shares with the sweep.
Stopping == {"delivered", "gate", "force", "reset", "unsub"}

\* Those of handleAgentAwait.
Awaiting == {"drain", "parked", "final", "leave"}

\* Those of Server.Direct.
Directing == {"enqueue", "release", "relay"}

\* What a request is about at each place, and where its calls return to.
Shape(r) ==
  /\ r.ret \in {"idle", "close", "sweep", "tee"}
  /\ r.pc \in Registering => r.agent \in Agents /\ r.ret = "idle"
  /\ r.pc \in Stopping => r.agent = r.to /\ r.to \in Agents /\ r.ret = "idle"
  /\ r.pc \in Awaiting => r.to \in Addressees /\ r.ret = "idle"
  /\ r.pc \in Directing => r.to \in Addressees
  /\ r.pc \in {"stopped", "peek"} =>
       r.ret \in {"idle", "sweep"} /\ r.to \in Agents /\ (r.ret = "idle" => r.agent = r.to)
  /\ r.pc = "close" => r.to \in Agents /\ r.agent \in Agents /\ r.ret = "idle"
  /\ r.pc \in {"idle", "tee", "reconcile"} => r.ret = "idle"
  /\ r.ret = "close" => r.pc \in Directing
  /\ r.ret = "sweep" => r.pc \in {"stopped", "peek", "relay"}
  /\ r.ret = "tee" => r.pc \in Directing
  /\ r.ret \in {"close", "sweep"} => r.agent \in Agents /\ r.to \in Agents /\ r.agent # r.to

\* Every request has the shape of its place.
Shapes == \A p \in Procs : Shape(req[p])

\* The request is in the calls the sweep makes for one loser.
Superseding(r) == r.ret \in {"close", "sweep"} \/ (r.pc = "close" /\ r.agent # r.to)

\* The request holds registerMu.
Holding(r) == r.pc \in Registering \/ Superseding(r)

\* registerMu is held by exactly the requests in there.
LockHeld == \A p \in Procs : lock = p <=> Holding(req[p])

\* An id names one directive.
OneId == \A m, n \in mail : m.id = n.id => m = n

\* A Direct on its way to the release knows whose park it is.
OwnId ==
  \A p \in Procs : At(p, "release") =>
    /\ req[p].id <= lastid
    /\ \A m \in mail : m.id = req[p].id => m.to = req[p].to

\* A registered waiter is an await for that addressee, and an await that is to
\* park, or has, with an empty channel is the registered one.
Waiting ==
  /\ \A a \in Addressees, p \in Procs : waiter[a] = p => req[p].pc \in Awaiting /\ req[p].to = a
  /\ \A p \in Procs : req[p].pc \in {"drain", "parked"} /\ ~ signal[p] => waiter[req[p].to] = p

\* A row that says running was announced, or its registration was interrupted,
\* or is about to announce it.
RunningStarted ==
  \A a \in Agents : rows[a] = "running" =>
    \/ a \in started \cup torn
    \/ \E p \in Procs : At(p, "started") /\ req[p].agent = a

\* The sweep is under way, its list made.
Sweeping(r) == Superseding(r) \/ r.pc = "sweep"

\* Past the append of agent.started the winner is announced.
Announced == \A p \in Procs : Holding(req[p]) /\ ~ At(p, "started") => req[p].agent \in started

\* The losers a sweep is visiting or has yet to visit.
Visits(r) == r.todo \cup (IF Superseding(r) THEN {r.to} ELSE {})

\* A sweep is for a subscriber, leaves it out, and visits announced agents only.
Visited ==
  \A p \in Procs :
    /\ Sweeping(req[p]) \/ At(p, "list") => req[p].agent \in Subbed
    /\ Sweeping(req[p]) =>
         /\ req[p].agent \notin Visits(req[p])
         /\ Visits(req[p]) \subseteq started \cup torn

\* The losers a sweep has yet to close.
Losers(r) == IF r.pc = "registered" THEN {}
             ELSE r.todo \cup (IF r.ret = "close" \/ r.pc = "close" THEN {r.to} ELSE {})

\* The sweep is under way, or it is over and registerMu is still held.
Settling(r) == Sweeping(r) \/ (r.pc = "registered" /\ Singleton /\ r.agent \in Subbed)

\* Those are all there are: no other running agent of the winner's type is left.
Complete ==
  \A p \in Procs : Settling(req[p]) =>
    \A a \in Agents : rows[a] = "running" /\ Type[a] = Type[req[p].agent] =>
      a = req[p].agent \/ a \in Losers(req[p])

\* A running subscriber is the last registered of its type, or a registration of
\* that type is under way or was interrupted.
Winner ==
  Singleton => \A a \in RunningSubbed :
    \/ a = last[Type[a]]
    \/ \E b \in torn \cap Subbed : Type[b] = Type[a]
    \/ \E p \in Procs : lock = p /\ req[p].agent \in Subbed /\ Type[req[p].agent] = Type[a]

\* The gate counts every refusal.
Counted == \A a \in Agents : refused[a] <= blocks[a] /\ refused[a] < Budget

\* The inductive invariant.
Inv ==
  /\ TypeOK /\ FiniteRows /\ Shapes /\ LockHeld /\ OneId /\ OwnId /\ Waiting
  /\ RunningStarted /\ Announced /\ Visited /\ Complete /\ Winner /\ Counted
  /\ ParkNotMissed /\ StrandedIsAnnounced

-----------------------------------------------------------------------------
(* Steps. *)

\* The steps of a request.
ProcStep(p) ==
  \/ Progress(p) \/ Arrive(p) \/ Abort(p) \/ AwaitTimeout(p) \/ AwaitCancel(p)

\* Every step is one of these.
LEMMA StepCases ==
  ASSUME [Next]_vars
  PROVE  \/ \E p \in Procs : ProcStep(p)
         \/ \E a \in Addressees : Inject(a)
         \/ Crash \/ Boot \/ UNCHANGED vars
  BY DEF Next, ProcStep

\* The request goes on to a place, all else as it was.
To(p, place) ==
  LET r == req[p]  s == req'[p] IN
  /\ s.pc = place
  /\ s.agent = r.agent /\ s.to = r.to /\ s.id = r.id /\ s.done = r.done
  /\ s.todo = r.todo /\ s.ret = r.ret

\* The call returns, or the request with it.
Back(p) ==
  LET r == req[p]  s == req'[p] IN
  \/ r.ret = "idle" /\ s = Idle
  \/ /\ r.ret # "idle" /\ s.pc = r.ret /\ s.ret = "idle"
     /\ s.agent = r.agent /\ s.to = r.to /\ s.todo = r.todo

\* Direct is called.
Calls(p, agent, to, todo, ret) ==
  LET s == req'[p] IN
  s.pc = "enqueue" /\ s.agent = agent /\ s.to = to /\ s.todo = todo /\ s.ret = ret

\* A request begins.
Fresh(p, place, agent, to, todo) ==
  LET s == req'[p] IN
  s.pc = place /\ s.agent = agent /\ s.to = to /\ s.todo = todo /\ s.ret = "idle"

\* What Return does.
LEMMA ReturnEffect == ASSUME TypeOK, NEW p \in Procs, Return(p) PROVE Back(p)
  BY DEF TypeOK, Return, Go, Requests, Back

\* What the steps of Direct and of recordAgentStopped do to the request.
LEMMA DirectEffects ==
  ASSUME TypeOK, NEW p \in Procs
  PROVE  /\ Enqueue(p) => LET r == req[p]  s == req'[p] IN
              /\ At(p, "enqueue") /\ s.pc = "release" /\ s.id = lastid + 1
              /\ s.agent = r.agent /\ s.to = r.to /\ s.todo = r.todo /\ s.ret = r.ret
              /\ s.done = (r.to \in Agents /\ rows[r.to] = "done")
         /\ EnqueueUnknown(p) \/ Relay(p) => (At(p, "enqueue") \/ At(p, "relay")) /\ Back(p)
         /\ Release(p) => At(p, "release") /\ IF req[p].done THEN To(p, "relay") ELSE Back(p)
         /\ Stopped(p) => At(p, "stopped") /\ To(p, "peek")
         /\ Peek(p) => At(p, "peek") /\ IF StrandedOn(req[p].to) # {} THEN To(p, "relay") ELSE Back(p)
  <1> USE ReturnEffect DEF TypeOK, Go, Requests, To
  <1>1. Enqueue(p) => LET r == req[p]  s == req'[p] IN
              /\ At(p, "enqueue") /\ s.pc = "release" /\ s.id = lastid + 1
              /\ s.agent = r.agent /\ s.to = r.to /\ s.todo = r.todo /\ s.ret = r.ret
              /\ s.done = (r.to \in Agents /\ rows[r.to] = "done")
    BY DEF Enqueue
  <1>2. EnqueueUnknown(p) \/ Relay(p) => (At(p, "enqueue") \/ At(p, "relay")) /\ Back(p)
    BY DEF EnqueueUnknown, Relay
  <1>3. Release(p) => At(p, "release") /\ IF req[p].done THEN To(p, "relay") ELSE Back(p)
    BY DEF Release
  <1>4. Stopped(p) => At(p, "stopped") /\ To(p, "peek")
    BY DEF Stopped
  <1>5. Peek(p) => At(p, "peek") /\ IF StrandedOn(req[p].to) # {} THEN To(p, "relay") ELSE Back(p)
    BY DEF Peek
  <1> QED
    BY <1>1, <1>2, <1>3, <1>4, <1>5

\* What the steps of a registration do to the request.
LEMMA StartEffects ==
  ASSUME TypeOK, NEW p \in Procs
  PROVE  /\ \A a \in Agents : Register(p, a) => At(p, "idle") /\ Fresh(p, "started", a, None, {})
         /\ Started(p) => At(p, "started") /\ To(p, "subscribe")
         /\ Subscribe(p) => At(p, "subscribe") /\
              To(p, IF Singleton /\ req[p].agent \in Subbed THEN "list" ELSE "registered")
         /\ ListOthers(p) => LET r == req[p]  s == req'[p] IN
              /\ At(p, "list") /\ s.pc = "sweep" /\ s.agent = r.agent /\ s.to = r.to /\ s.ret = r.ret
              /\ s.todo = {b \in Agents \ {r.agent} : rows[b] = "running" /\ Type[b] = Type[r.agent]}
         /\ \A b \in Agents : SweepNext(p, b) =>
              At(p, "sweep") /\ b \in req[p].todo /\ Calls(p, req[p].agent, b, req[p].todo \ {b}, "close")
         /\ SweepDone(p) => At(p, "sweep") /\ req[p].todo = {} /\ To(p, "registered")
         /\ Registered(p) => At(p, "registered") /\
              (req'[p] = Idle \/ Calls(p, req[p].agent, req[p].agent, req[p].todo, "idle"))
  <1> USE DEF TypeOK, Go, Requests, To
  <1>1. ASSUME NEW a \in Agents, Register(p, a) PROVE At(p, "idle") /\ Fresh(p, "started", a, None, {})
    BY <1>1 DEF Register, Fresh, Idle
  <1>2. Started(p) => At(p, "started") /\ To(p, "subscribe")
    BY DEF Started
  <1>3. Subscribe(p) => At(p, "subscribe") /\
          To(p, IF Singleton /\ req[p].agent \in Subbed THEN "list" ELSE "registered")
    BY DEF Subscribe
  <1>4. ListOthers(p) => LET r == req[p]  s == req'[p] IN
          /\ At(p, "list") /\ s.pc = "sweep" /\ s.agent = r.agent /\ s.to = r.to /\ s.ret = r.ret
          /\ s.todo = {b \in Agents \ {r.agent} : rows[b] = "running" /\ Type[b] = Type[r.agent]}
    BY DEF ListOthers
  <1>5. ASSUME NEW b \in Agents, SweepNext(p, b)
        PROVE  At(p, "sweep") /\ b \in req[p].todo /\ Calls(p, req[p].agent, b, req[p].todo \ {b}, "close")
    BY <1>5 DEF SweepNext, Call, Calls
  <1>6. SweepDone(p) => At(p, "sweep") /\ req[p].todo = {} /\ To(p, "registered")
    BY DEF SweepDone
  <1>7. ASSUME Registered(p)
        PROVE  At(p, "registered") /\
               (req'[p] = Idle \/ Calls(p, req[p].agent, req[p].agent, req[p].todo, "idle"))
    <2>1. At(p, "registered") /\ (Go(p, Idle) \/ Call(p, req[p], req[p].agent, "system", "idle"))
      BY <1>7, Zenon DEF Registered
    <2>2. Go(p, Idle) => req'[p] = Idle
      OBVIOUS
    <2>3. ASSUME Call(p, req[p], req[p].agent, "system", "idle")
          PROVE  Calls(p, req[p].agent, req[p].agent, req[p].todo, "idle")
      BY <2>3 DEF Call, Calls
    <2> QED
      BY <2>1, <2>2, <2>3
  <1> QED
    BY <1>1, <1>2, <1>3, <1>4, <1>5, <1>6, <1>7

\* What the steps of a stop do to the request.
LEMMA StopEffects ==
  ASSUME TypeOK, NEW p \in Procs
  PROVE  /\ \A a \in Agents : Stop(p, a) =>
              At(p, "idle") /\ (Fresh(p, "delivered", a, a, {}) \/ Fresh(p, "gate", a, a, {}))
         /\ StopDelivered(p) \/ GateUnknown(p) => (At(p, "delivered") \/ At(p, "gate")) /\ req'[p] = Idle
         /\ GateAllow(p) => At(p, "gate") /\ To(p, "reset")
         /\ GateBlock(p) => At(p, "gate") /\ (req'[p] = Idle \/ To(p, "force"))
         /\ StopReset(p) => (At(p, "reset") \/ At(p, "force")) /\ To(p, "close")
         /\ Close(p) => LET r == req[p]  s == req'[p] IN
              /\ At(p, "close")
              /\ r.agent # r.to => s.pc \in {"stopped", "sweep"}
              /\ r.agent = r.to => s.pc = "unsub" \/ s = Idle
              /\ s # Idle => s.agent = r.agent /\ s.to = r.to /\ s.todo = r.todo
              /\ s.pc = "stopped" => s.ret = "sweep"
              /\ s.pc = "unsub" => s.ret = "idle"
              /\ s.pc = "sweep" => s.ret = r.ret
              /\ s.pc \in {"stopped", "unsub"} <=> rows[r.to] = "running"
         /\ Unsubscribe(p) => At(p, "unsub") /\ To(p, "stopped")
  <1> USE DEF TypeOK, Go, Requests, To
  <1>1. ASSUME NEW a \in Agents, Stop(p, a)
        PROVE  At(p, "idle") /\ (Fresh(p, "delivered", a, a, {}) \/ Fresh(p, "gate", a, a, {}))
    BY <1>1 DEF Stop, Fresh, Idle
  <1>2. StopDelivered(p) \/ GateUnknown(p) => (At(p, "delivered") \/ At(p, "gate")) /\ req'[p] = Idle
    BY DEF StopDelivered, GateUnknown
  <1>3. GateAllow(p) => At(p, "gate") /\ To(p, "reset")
    BY DEF GateAllow
  <1>4. GateBlock(p) => At(p, "gate") /\ (req'[p] = Idle \/ To(p, "force"))
    BY DEF GateBlock
  <1>5. StopReset(p) => (At(p, "reset") \/ At(p, "force")) /\ To(p, "close")
    BY DEF StopReset
  <1>6. ASSUME Close(p)
        PROVE LET r == req[p]  s == req'[p] IN
              /\ At(p, "close")
              /\ r.agent # r.to => s.pc \in {"stopped", "sweep"}
              /\ r.agent = r.to => s.pc = "unsub" \/ s = Idle
              /\ s # Idle => s.agent = r.agent /\ s.to = r.to /\ s.todo = r.todo
              /\ s.pc = "stopped" => s.ret = "sweep"
              /\ s.pc = "unsub" => s.ret = "idle"
              /\ s.pc = "sweep" => s.ret = r.ret
              /\ s.pc \in {"stopped", "unsub"} <=> rows[r.to] = "running"
    <2>1. CASE rows[req[p].to] = "running" /\ req[p].agent # req[p].to
      <3>1. At(p, "close") /\ req'[p] = [req[p] EXCEPT !.pc = "stopped", !.ret = "sweep"]
        BY <1>6, <2>1 DEF Close
      <3> QED
        BY <2>1, <3>1
    <2>2. CASE rows[req[p].to] = "running" /\ req[p].agent = req[p].to
      <3>1. At(p, "close") /\ req'[p] = [req[p] EXCEPT !.pc = "unsub", !.ret = "idle"]
        BY <1>6, <2>2 DEF Close
      <3> QED
        BY <2>2, <3>1
    <2>3. CASE rows[req[p].to] # "running" /\ req[p].agent # req[p].to
      BY <1>6, <2>3 DEF Close
    <2>4. CASE rows[req[p].to] # "running" /\ req[p].agent = req[p].to
      BY <1>6, <2>4 DEF Close, Idle
    <2> QED
      BY <2>1, <2>2, <2>3, <2>4
  <1>7. Unsubscribe(p) => At(p, "unsub") /\ To(p, "stopped")
    BY DEF Unsubscribe
  <1> QED
    BY <1>1, <1>2, <1>3, <1>4, <1>5, <1>6, <1>7

\* What the other handlers' steps do to the request.
LEMMA OtherEffects ==
  ASSUME TypeOK, NEW p \in Procs
  PROVE  /\ \A a \in Addressees : Direct(p, a) => At(p, "idle") /\ Calls(p, a, a, {}, "idle")
         /\ AppendTeed(p) => At(p, "idle") /\ Fresh(p, "tee", None, None, subs)
         /\ \A b \in Agents : TeeNext(p, b) =>
              At(p, "tee") /\ Calls(p, req[p].agent, b, req[p].todo \ {b}, "tee")
         /\ TeeDone(p) => At(p, "tee") /\ req'[p] = Idle
         /\ Reconcile(p) => At(p, "idle") /\ Fresh(p, "reconcile", None, None, StrandedAgents)
         /\ \A b \in Agents : ReconcileNext(p, b) => At(p, "reconcile") /\
              (req'[p] = Idle \/ (req'[p].pc = "reconcile" /\ req'[p].ret = req[p].ret))
         /\ Abort(p) => req'[p] = Idle \/ (req[p].ret = "tee" /\ Back(p))
  <1> USE DEF TypeOK, Go, Requests, To
  <1>1. ASSUME NEW a \in Addressees, Direct(p, a) PROVE At(p, "idle") /\ Calls(p, a, a, {}, "idle")
    BY <1>1 DEF Direct, Call, Calls, Idle
  <1>2. AppendTeed(p) => At(p, "idle") /\ Fresh(p, "tee", None, None, subs)
    BY DEF AppendTeed, Fresh, Idle
  <1>3. ASSUME NEW b \in Agents, TeeNext(p, b)
        PROVE  At(p, "tee") /\ Calls(p, req[p].agent, b, req[p].todo \ {b}, "tee")
    BY <1>3 DEF TeeNext, Call, Calls
  <1>4. TeeDone(p) => At(p, "tee") /\ req'[p] = Idle
    BY DEF TeeDone
  <1>5. Reconcile(p) => At(p, "idle") /\ Fresh(p, "reconcile", None, None, StrandedAgents)
    BY DEF Reconcile, Fresh, Idle
  <1>6. ASSUME NEW b \in Agents, ReconcileNext(p, b)
        PROVE  At(p, "reconcile") /\
               (req'[p] = Idle \/ (req'[p].pc = "reconcile" /\ req'[p].ret = req[p].ret))
    <2>1. At(p, "reconcile") /\ (Go(p, Idle) \/ Go(p, [req[p] EXCEPT !.todo = @ \ {b}]))
      BY <1>6, Zenon DEF ReconcileNext
    <2>2. Go(p, Idle) => req'[p] = Idle
      OBVIOUS
    <2>3. CASE Go(p, [req[p] EXCEPT !.todo = @ \ {b}])
      BY <2>1, <2>3 DEF At
    <2> QED
      BY <2>1, <2>2, <2>3
  <1>7. Abort(p) => req'[p] = Idle \/ (req[p].ret = "tee" /\ Back(p))
    BY ReturnEffect DEF Abort
  <1> QED
    BY <1>1, <1>2, <1>3, <1>4, <1>5, <1>6, <1>7

\* What the steps of an await do to the request.
LEMMA AwaitEffects ==
  ASSUME TypeOK, NEW p \in Procs
  PROVE  /\ \A a \in Addressees : AwaitPark(p, a) => At(p, "idle") /\ Fresh(p, "drain", a, a, {})
         /\ AwaitDrain(p) => At(p, "drain") /\ To(p, IF PendingOf(req[p].to) # {} THEN "leave" ELSE "parked")
         /\ AwaitWake(p) \/ AwaitTimeout(p) => At(p, "parked") /\ To(p, "final")
         /\ AwaitFinal(p) \/ AwaitCancel(p) => (At(p, "final") \/ At(p, "parked")) /\ To(p, "leave")
         /\ AwaitLeave(p) => At(p, "leave") /\ req'[p] = Idle
  <1> USE DEF TypeOK, Go, Requests, To
  <1>1. ASSUME NEW a \in Addressees, AwaitPark(p, a) PROVE At(p, "idle") /\ Fresh(p, "drain", a, a, {})
    BY <1>1 DEF AwaitPark, Fresh, Idle
  <1>2. AwaitDrain(p) => At(p, "drain") /\ To(p, IF PendingOf(req[p].to) # {} THEN "leave" ELSE "parked")
    BY DEF AwaitDrain
  <1>3. AwaitWake(p) \/ AwaitTimeout(p) => At(p, "parked") /\ To(p, "final")
    BY DEF AwaitWake, AwaitTimeout
  <1>4. AwaitFinal(p) \/ AwaitCancel(p) => (At(p, "final") \/ At(p, "parked")) /\ To(p, "leave")
    BY DEF AwaitFinal, AwaitCancel
  <1>5. AwaitLeave(p) => At(p, "leave") /\ req'[p] = Idle
    BY DEF AwaitLeave
  <1> QED
    BY <1>1, <1>2, <1>3, <1>4, <1>5

-----------------------------------------------------------------------------
(* Types. *)

\* A step of a request changes that request and no other.
LEMMA GoStep == ASSUME NEW p \in Procs, ProcStep(p) PROVE \E r : Go(p, r)
  <1>1. CASE Progress(p)
    BY <1>1 DEF Progress, Enqueue, EnqueueUnknown, Release, Relay, Stopped, Peek, Started,
       Subscribe, ListOthers, SweepDone, Registered, SweepNext, TeeNext, ReconcileNext,
       StopDelivered, GateAllow, GateBlock, GateUnknown, StopReset, Close, Unsubscribe, TeeDone,
       AwaitDrain, AwaitWake, AwaitFinal, AwaitLeave, Return, Call
  <1>2. CASE Arrive(p)
    BY <1>2 DEF Arrive, Register, Stop, Direct, AwaitPark, AppendTeed, Reconcile, Call
  <1>3. CASE Abort(p) \/ AwaitTimeout(p) \/ AwaitCancel(p)
    BY <1>3 DEF Abort, AwaitTimeout, AwaitCancel, Return
  <1> QED
    BY <1>1, <1>2, <1>3 DEF ProcStep

\* A step changes the request of its own process only.
LEMMA OthersKept ==
  ASSUME TypeOK, NEW p \in Procs, ProcStep(p)
  PROVE  /\ req' = [req EXCEPT ![p] = req'[p]]
         /\ \A q \in Procs : q # p => req'[q] = req[q]
  <1>1. req \in [Procs -> Requests]
    BY DEF TypeOK
  <1> QED
    BY <1>1, GoStep DEF Go

\* The updates of a request that the handlers make.
LEMMA Updates ==
  ASSUME NEW r \in Requests
  PROVE  /\ Idle \in Requests
         /\ \A x \in Places : [r EXCEPT !.pc = x] \in Requests
         /\ \A x, y \in Places : [r EXCEPT !.pc = x, !.ret = y] \in Requests
         /\ \A x \in Places, T \in SUBSET Agents : [r EXCEPT !.pc = x, !.todo = T] \in Requests
         /\ \A T \in SUBSET Agents : [r EXCEPT !.todo = T] \in Requests
         /\ \A a \in Addressees : [r EXCEPT !.agent = a] \in Requests
         /\ \A a \in Addressees, x \in Places :
              [r EXCEPT !.pc = x, !.agent = a, !.to = a] \in Requests
         /\ \A a \in Addressees, n \in BOOLEAN :
              [r EXCEPT !.pc = "started", !.agent = a, !.new = n] \in Requests
         /\ \A to \in Addressees, org \in Origins, ret \in Places :
              [r EXCEPT !.pc = "enqueue", !.to = to, !.org = org, !.ret = ret] \in Requests
         /\ \A n \in Nat, d \in BOOLEAN :
              [r EXCEPT !.pc = "release", !.id = n, !.done = d] \in Requests
         /\ [r EXCEPT !.pc = r.ret, !.ret = "idle", !.org = "none", !.id = 0, !.done = FALSE]
              \in Requests
  <1> USE DEF Requests
  <1>1. Idle \in Requests
    BY DEF Idle, Places, Origins
  <1>2. ASSUME NEW x \in Places PROVE [r EXCEPT !.pc = x] \in Requests
    OBVIOUS
  <1>3. ASSUME NEW x \in Places, NEW y \in Places PROVE [r EXCEPT !.pc = x, !.ret = y] \in Requests
    OBVIOUS
  <1>4. ASSUME NEW x \in Places, NEW T \in SUBSET Agents
        PROVE  [r EXCEPT !.pc = x, !.todo = T] \in Requests
    OBVIOUS
  <1>5. ASSUME NEW T \in SUBSET Agents PROVE [r EXCEPT !.todo = T] \in Requests
    OBVIOUS
  <1>6. ASSUME NEW a \in Addressees PROVE [r EXCEPT !.agent = a] \in Requests
    OBVIOUS
  <1>7. ASSUME NEW a \in Addressees, NEW x \in Places
        PROVE  [r EXCEPT !.pc = x, !.agent = a, !.to = a] \in Requests
    OBVIOUS
  <1>8. ASSUME NEW a \in Addressees, NEW n \in BOOLEAN
        PROVE  [r EXCEPT !.pc = "started", !.agent = a, !.new = n] \in Requests
    BY DEF Places, Origins
  <1>9. ASSUME NEW to \in Addressees, NEW org \in Origins, NEW ret \in Places
        PROVE  [r EXCEPT !.pc = "enqueue", !.to = to, !.org = org, !.ret = ret] \in Requests
    BY DEF Places, Origins
  <1>10. ASSUME NEW n \in Nat, NEW d \in BOOLEAN
         PROVE  [r EXCEPT !.pc = "release", !.id = n, !.done = d] \in Requests
    BY DEF Places, Origins
  <1>11. [r EXCEPT !.pc = r.ret, !.ret = "idle", !.org = "none", !.id = 0, !.done = FALSE]
           \in Requests
    BY DEF Places, Origins
  <1> HIDE DEF Requests
  <1> QED
    BY <1>1, <1>2, <1>3, <1>4, <1>5, <1>6, <1>7, <1>8, <1>9, <1>10, <1>11

\* A step leaves every request a request.
LEMMA ReqTyped ==
  ASSUME TypeOK, Shapes, NEW p \in Procs, ProcStep(p) PROVE req' \in [Procs -> Requests]
  <1>0. req[p] \in Requests /\ req \in [Procs -> Requests]
    BY DEF TypeOK
  <1>1. \A r \in Requests : Go(p, r) => req' \in [Procs -> Requests]
    BY <1>0 DEF Go
  <1>2. Return(p) => req' \in [Procs -> Requests]
    BY <1>0, <1>1, Updates DEF Return
  <1>3. CASE \/ Stopped(p) \/ Peek(p) \/ Started(p) \/ Subscribe(p) \/ SweepDone(p)
             \/ GateAllow(p) \/ GateUnknown(p) \/ StopReset(p) \/ StopDelivered(p)
             \/ Unsubscribe(p)
    BY <1>0, <1>1, <1>2, <1>3, Updates DEF Stopped, Peek, Started, Subscribe, SweepDone,
       GateAllow, GateUnknown, StopReset, StopDelivered, Unsubscribe, Places
  <1>4. CASE \/ EnqueueUnknown(p) \/ Release(p) \/ Relay(p) \/ GateBlock(p) \/ Close(p)
             \/ TeeDone(p)
    BY <1>0, <1>1, <1>2, <1>4, Updates DEF EnqueueUnknown, Release, Relay, GateBlock, Close,
       TeeDone, Places
  <1>5. CASE \/ AwaitDrain(p) \/ AwaitWake(p) \/ AwaitFinal(p) \/ AwaitLeave(p) \/ Abort(p)
             \/ AwaitTimeout(p) \/ AwaitCancel(p)
    BY <1>0, <1>1, <1>2, <1>5, Updates DEF AwaitDrain, AwaitWake, AwaitFinal, AwaitLeave, Abort,
       AwaitTimeout, AwaitCancel, Places
  <1>6. CASE Enqueue(p)
    <2>1. lastid + 1 \in Nat
      BY DEF TypeOK
    <2>2. (req[p].to \in Agents /\ rows[req[p].to] = "done") \in BOOLEAN
      OBVIOUS
    <2> QED
      BY <1>0, <1>1, <1>6, <2>1, <2>2, Updates DEF Enqueue
  <1>7. CASE ListOthers(p)
    BY <1>0, <1>1, <1>7, Updates DEF ListOthers, Places
  <1>8. CASE Registered(p)
    <2>1. req[p].agent \in Addressees
      BY <1>8 DEF Registered, At, Shapes, Shape, Registering, Addressees
    <2>2. Go(p, Idle) \/ Call(p, req[p], req[p].agent, "system", "idle")
      BY <1>8, Zenon DEF Registered
    <2> QED
      BY <1>0, <1>1, <2>1, <2>2, Updates DEF Call, Places, Origins
  <1>9. ASSUME NEW b \in Agents, SweepNext(p, b) \/ TeeNext(p, b) \/ ReconcileNext(p, b)
        PROVE  req' \in [Procs -> Requests]
    <2>1. b \in Addressees /\ req[p].todo \ {b} \in SUBSET Agents
      BY <1>0 DEF Addressees, Requests
    <2>2. [req[p] EXCEPT !.todo = @ \ {b}] \in Requests
      BY <1>0, <2>1, Updates
    <2>3. CASE SweepNext(p, b) \/ TeeNext(p, b)
      BY <1>1, <2>1, <2>2, <2>3, Updates DEF SweepNext, TeeNext, Call, Places, Origins
    <2>4. CASE ReconcileNext(p, b)
      BY <1>0, <1>1, <2>2, <2>4, Updates DEF ReconcileNext
    <2> QED
      BY <1>9, <2>3, <2>4
  <1>10. CASE Arrive(p)
    <2>0. Idle \in Requests
      BY <1>0, Updates
    <2>1. ASSUME NEW a \in Agents, Register(p, a) PROVE req' \in [Procs -> Requests]
      <3>1. a \in Addressees /\ (rows[a] = "absent") \in BOOLEAN
        BY DEF Addressees
      <3> QED
        BY <1>1, <2>0, <2>1, <3>1, Updates DEF Register
    <2>2. ASSUME NEW a \in Agents, Stop(p, a) PROVE req' \in [Procs -> Requests]
      BY <1>1, <2>0, <2>2, Updates DEF Stop, Addressees, Places
    <2>3. ASSUME NEW a \in Addressees, Direct(p, a) \/ AwaitPark(p, a)
          PROVE  req' \in [Procs -> Requests]
      <3>1. [Idle EXCEPT !.agent = a] \in Requests
        BY <2>0, Updates
      <3> QED
        BY <1>1, <2>0, <2>3, <3>1, Updates DEF Direct, AwaitPark, Call, Places, Origins
    <2>4. CASE AppendTeed(p) \/ Reconcile(p)
      <3>1. subs \in SUBSET Agents /\ StrandedAgents \in SUBSET Agents
        BY MailboxAssumption DEF TypeOK, StrandedAgents
      <3> QED
        BY <1>1, <2>0, <2>4, <3>1, Updates DEF AppendTeed, Reconcile, Places
    <2> QED
      BY <1>10, <2>1, <2>2, <2>3, <2>4 DEF Arrive
  <1> QED
    BY <1>3, <1>4, <1>5, <1>6, <1>7, <1>8, <1>9, <1>10 DEF ProcStep, Progress

-----------------------------------------------------------------------------
(* What a request is about, and registerMu. *)

\* The shape of every request is kept.
LEMMA ShapesNext ==
  ASSUME TypeOK, Shapes, Visited, NEW p \in Procs, ProcStep(p) PROVE Shapes'
  <1>0. SUFFICES Shape(req'[p])
    BY OthersKept DEF Shapes
  <1>1. Shape(req[p]) /\ Shape(Idle)
    BY DEF Shapes, Shape, Idle, Registering, Stopping, Awaiting, Directing
  <1> USE DEF Shape, Registering, Stopping, Awaiting, Directing, To, Back, Calls, Fresh, At
  <1>2. CASE Enqueue(p) \/ EnqueueUnknown(p) \/ Relay(p) \/ Release(p) \/ Stopped(p) \/ Peek(p)
    <2>1. CASE Enqueue(p)
      BY <1>1, <2>1, DirectEffects
    <2>2. CASE EnqueueUnknown(p) \/ Relay(p)
      BY <1>1, <2>2, DirectEffects
    <2>3. CASE Release(p)
      <3>1. At(p, "release") /\ (To(p, "relay") \/ Back(p))
        BY <2>3, DirectEffects, Zenon
      <3> QED
        BY <1>1, <3>1
    <2>4. CASE Stopped(p)
      BY <1>1, <2>4, DirectEffects
    <2>5. CASE Peek(p)
      <3>1. At(p, "peek") /\ (To(p, "relay") \/ Back(p))
        BY <2>5, DirectEffects, Zenon
      <3> QED
        BY <1>1, <3>1 DEF Addressees
    <2> QED
      BY <1>2, <2>1, <2>2, <2>3, <2>4, <2>5
  <1>3. CASE \/ Started(p) \/ Subscribe(p) \/ ListOthers(p) \/ SweepDone(p)
             \/ Registered(p) \/ \E a \in Agents : Register(p, a)
    BY <1>1, <1>3, StartEffects DEF Addressees
  <1>4. ASSUME NEW b \in Agents, SweepNext(p, b) PROVE Shape(req'[p])
    <2>1. b # req[p].agent
      BY <1>4, StartEffects DEF Visited, Sweeping, Visits
    <2> QED
      BY <1>1, <1>4, <2>1, StartEffects DEF Addressees
  <1>5. CASE \/ StopDelivered(p) \/ GateUnknown(p) \/ GateAllow(p) \/ GateBlock(p) \/ StopReset(p)
             \/ Unsubscribe(p) \/ \E a \in Agents : Stop(p, a)
    BY <1>1, <1>5, StopEffects
  <1>6. CASE Close(p)
    BY <1>1, <1>6, StopEffects
  <1>7. CASE \/ AppendTeed(p) \/ TeeDone(p) \/ Reconcile(p) \/ Abort(p)
             \/ \E b \in Agents : TeeNext(p, b) \/ ReconcileNext(p, b)
             \/ \E a \in Addressees : Direct(p, a)
    BY <1>1, <1>7, OtherEffects DEF Addressees
  <1>8. CASE \/ AwaitDrain(p) \/ AwaitWake(p) \/ AwaitFinal(p) \/ AwaitLeave(p)
             \/ AwaitTimeout(p) \/ AwaitCancel(p) \/ \E a \in Addressees : AwaitPark(p, a)
    BY <1>1, <1>8, AwaitEffects
  <1> QED
    BY <1>2, <1>3, <1>4, <1>5, <1>6, <1>7, <1>8 DEF ProcStep, Progress, Arrive

\* Only RegisterAgent enters the critical section, and only the end of the
\* registration and an interruption leave it.
LEMMA HoldingKept ==
  ASSUME TypeOK, Shapes, Visited, NEW p \in Procs, ProcStep(p),
         ~ Registered(p), ~ Abort(p), \A a \in Agents : ~ Register(p, a)
  PROVE  lock' = lock /\ (Holding(req'[p]) <=> Holding(req[p]))
  <1>1. Shape(req[p])
    BY DEF Shapes
  <1>2. ~ Holding(Idle)
    BY DEF Holding, Superseding, Registering, Idle
  <1> USE DEF Holding, Superseding, Shape, Registering, Stopping, Awaiting, Directing, To, Back,
      Calls, Fresh, At
  <1>3. CASE Enqueue(p) \/ EnqueueUnknown(p) \/ Relay(p) \/ Stopped(p)
    <2>1. lock' = lock
      BY <1>3 DEF Enqueue, EnqueueUnknown, Relay, Stopped
    <2> QED
      BY <1>1, <1>2, <1>3, <2>1, DirectEffects
  <1>4. CASE Release(p) \/ Peek(p)
    <2>1. lock' = lock
      BY <1>4 DEF Release, Peek
    <2>2. (At(p, "release") \/ At(p, "peek")) /\ (To(p, "relay") \/ Back(p))
      BY <1>4, DirectEffects, Zenon
    <2> QED
      BY <1>1, <1>2, <2>1, <2>2
  <1>5. CASE \/ Started(p) \/ Subscribe(p) \/ ListOthers(p) \/ SweepDone(p)
             \/ \E b \in Agents : SweepNext(p, b)
    <2>1. lock' = lock
      BY <1>5 DEF Started, Subscribe, ListOthers, SweepDone, SweepNext
    <2> QED
      BY <1>1, <1>2, <1>5, <2>1, StartEffects
  <1>6. CASE \/ StopDelivered(p) \/ GateUnknown(p) \/ GateAllow(p) \/ GateBlock(p) \/ StopReset(p)
             \/ Unsubscribe(p) \/ Close(p) \/ \E a \in Agents : Stop(p, a)
    <2>1. lock' = lock
      BY <1>6 DEF StopDelivered, GateUnknown, GateAllow, GateBlock, StopReset, Unsubscribe, Close,
         Stop
    <2> QED
      BY <1>1, <1>2, <1>6, <2>1, StopEffects
  <1>7. CASE \/ AppendTeed(p) \/ TeeDone(p) \/ Reconcile(p)
             \/ \E b \in Agents : TeeNext(p, b) \/ ReconcileNext(p, b)
             \/ \E a \in Addressees : Direct(p, a)
    <2>1. lock' = lock
      BY <1>7 DEF AppendTeed, TeeDone, Reconcile, TeeNext, ReconcileNext, Direct
    <2> QED
      BY <1>1, <1>2, <1>7, <2>1, OtherEffects
  <1>8. CASE \/ AwaitDrain(p) \/ AwaitWake(p) \/ AwaitFinal(p) \/ AwaitLeave(p)
             \/ AwaitTimeout(p) \/ AwaitCancel(p) \/ \E a \in Addressees : AwaitPark(p, a)
    <2>1. lock' = lock
      BY <1>8 DEF AwaitDrain, AwaitWake, AwaitFinal, AwaitLeave, AwaitTimeout, AwaitCancel,
         AwaitPark
    <2> QED
      BY <1>1, <1>2, <1>8, <2>1, AwaitEffects
  <1> QED
    BY <1>3, <1>4, <1>5, <1>6, <1>7, <1>8 DEF ProcStep, Progress, Arrive

\* registerMu is held exactly inside registerAndSupersede.
LEMMA LockHeldNext ==
  ASSUME TypeOK, Shapes, Visited, LockHeld, NEW p \in Procs, ProcStep(p) PROVE LockHeld'
  <1> USE MailboxAssumption
  <1>0. \A q \in Procs : q # p => req'[q] = req[q]
    BY OthersKept
  <1>1. ~ Holding(Idle) /\ Shape(req[p])
    BY DEF Holding, Superseding, Registering, Idle, Shapes
  <1>2. ASSUME NEW a \in Agents, Register(p, a) PROVE LockHeld'
    <2>1. lock = None /\ lock' = p
      BY <1>2 DEF Register
    <2>2. Holding(req'[p])
      BY <1>2, StartEffects DEF Holding, Registering, Fresh
    <2> QED
      BY <1>0, <2>1, <2>2 DEF LockHeld
  <1>3. CASE Registered(p)
    <2>1. lock' = None
      BY <1>3 DEF Registered
    <2>2. Holding(req[p]) /\ ~ Holding(req'[p])
      BY <1>1, <1>3, StartEffects DEF Holding, Superseding, Registering, At, Calls
    <2> QED
      BY <1>0, <2>1, <2>2 DEF LockHeld
  <1>4. CASE Abort(p)
    <2>1. lock' = IF lock = p THEN None ELSE lock
      BY <1>4 DEF Abort, Unlocked
    <2>2. ~ Holding(req'[p])
      BY <1>1, <1>4, OtherEffects DEF Holding, Superseding, Registering, Back
    <2> QED
      BY <1>0, <2>1, <2>2 DEF LockHeld
  <1> QED
    BY <1>0, <1>2, <1>3, <1>4, HoldingKept DEF LockHeld

-----------------------------------------------------------------------------
(* Which steps of a request change which part of the state. *)

\* Some directives are drained, in DrainDirectives.
Drains == \E a \in Addressees : Drain(a) /\ UNCHANGED <<lastid, waiter, signal>>

\* Some are announced, in an agent.relay.
Announces(p) ==
  /\ \E a \in Addressees : Announce(a) /\ (Relay(p) => a = req[p].to)
  /\ UNCHANGED <<mail, lastid, unrung, waiter, signal>>

\* The mailbox and what is known of its directives.
LEMMA MailFrame ==
  ASSUME TypeOK, Shapes, NEW p \in Procs, ProcStep(p)
  PROVE  \/ Enqueue(p)
         \/ Drains /\ (AwaitDrain(p) \/ AwaitFinal(p) \/ \E a \in Agents : Stop(p, a))
         \/ Announces(p) /\ (Relay(p) \/ \E a \in Agents : ReconcileNext(p, a))
         \/ Abort(p)
         \/ /\ UNCHANGED <<mail, lastid, relayed, unrung, unannounced>>
            /\ ~ AwaitDrain(p) /\ ~ Relay(p)
  <1>1. Shape(req[p])
    BY DEF Shapes
  <1>2. ASSUME NEW a \in Agents, Stop(p, a) PROVE Drains
    BY <1>2 DEF Stop, Drains, Addressees
  <1>3. CASE AwaitDrain(p) \/ AwaitFinal(p)
    <2>1. req[p].to \in Addressees
      BY <1>1, <1>3 DEF AwaitDrain, AwaitFinal, At, Shape, Awaiting
    <2> QED
      BY <1>3, <2>1 DEF AwaitDrain, AwaitFinal, Drains
  <1>4. CASE Relay(p)
    <2>1. req[p].to \in Addressees
      BY <1>1, <1>4 DEF Relay, At, Shape, Directing
    <2> QED
      BY <1>4, <2>1 DEF Relay, Announces, storeVars
  <1>5. ASSUME NEW a \in Agents, ReconcileNext(p, a), ~ Relay(p) PROVE Announces(p)
    BY <1>5 DEF ReconcileNext, Announces, storeVars, Addressees
  <1>6. ASSUME ~ Enqueue(p), ~ AwaitDrain(p), ~ AwaitFinal(p), \A a \in Agents : ~ Stop(p, a),
               ~ Relay(p), \A a \in Agents : ~ ReconcileNext(p, a), ~ Abort(p)
        PROVE  UNCHANGED <<mail, lastid, relayed, unrung, unannounced>>
    <2>1. CASE Progress(p)
      BY <1>6, <2>1 DEF Progress, EnqueueUnknown, Release, Stopped, Peek, Started,
         Subscribe, ListOthers, SweepDone, Registered, SweepNext, TeeNext,
         StopDelivered, GateAllow, GateBlock, GateUnknown, StopReset, Close, Unsubscribe, TeeDone,
         AwaitWake, AwaitLeave, storeVars, history
    <2>2. CASE Arrive(p)
      BY <1>6, <2>2 DEF Arrive, Register, Direct, AwaitPark, AppendTeed, Reconcile, storeVars, history
    <2>3. CASE AwaitTimeout(p) \/ AwaitCancel(p)
      BY <1>6, <2>3 DEF AwaitTimeout, AwaitCancel, storeVars, history
    <2> QED
      BY <1>6, <2>1, <2>2, <2>3 DEF ProcStep
  <1> QED
    BY <1>2, <1>3, <1>4, <1>5, <1>6

\* The rows, the log, the registration's history, the parks and the gate.
LEMMA RowFrame ==
  ASSUME NEW p \in Procs, ProcStep(p)
  PROVE  /\ up' = up
         /\ \/ UNCHANGED <<rows, rowid>>
            \/ Close(p) \/ \E a \in Agents : Register(p, a)
         /\ started' = started \/ Started(p)
         /\ UNCHANGED <<torn, last>> \/ Registered(p) \/ Abort(p)
         /\ \/ UNCHANGED <<waiter, signal>>
            \/ Release(p) \/ AwaitWake(p) \/ AwaitLeave(p) \/ Abort(p)
            \/ \E a \in Addressees : AwaitPark(p, a)
         /\ \/ UNCHANGED <<blocks, refused>>
            \/ StopDelivered(p) \/ GateBlock(p) \/ StopReset(p)
  <1> USE DEF storeVars, history
  <1>1. CASE Progress(p)
    BY <1>1 DEF Progress, Enqueue, EnqueueUnknown, Relay, Stopped, Peek, Subscribe,
       ListOthers, SweepDone, SweepNext, TeeNext, ReconcileNext, GateAllow, GateUnknown,
       Unsubscribe, TeeDone, AwaitDrain, AwaitFinal, Release, Started, Registered, StopDelivered,
       GateBlock, StopReset, Close, AwaitWake, AwaitLeave
  <1>2. CASE Arrive(p)
    BY <1>2 DEF Arrive, Register, Stop, Direct, AwaitPark, AppendTeed, Reconcile
  <1>3. CASE AwaitTimeout(p) \/ AwaitCancel(p) \/ Abort(p)
    BY <1>3 DEF AwaitTimeout, AwaitCancel, Abort
  <1> QED
    BY <1>1, <1>2, <1>3 DEF ProcStep

-----------------------------------------------------------------------------
(* The type invariant of a request's step. *)

\* The tables keep their types.
LEMMA TablesNext ==
  ASSUME TypeOK, FiniteRows, Shapes, NEW p \in Procs, ProcStep(p)
  PROVE  /\ rows' \in [Agents -> Statuses]
         /\ rowid' \in [Agents -> Nat]
         /\ FiniteRows'
         /\ started' \subseteq Agents
  <1>0. rows \in [Agents -> Statuses] /\ rowid \in [Agents -> Nat] /\ started \subseteq Agents
    BY DEF TypeOK
  <1>1. started' \subseteq Agents
    <2>1. CASE Started(p)
      <3>1. req[p].agent \in Agents
        BY <2>1, StartEffects DEF Shapes, Shape, Registering, At
      <3> QED
        BY <1>0, <2>1, <3>1 DEF Started
    <2> QED
      BY <1>0, <2>1, RowFrame
  <1>2. CASE UNCHANGED <<rows, rowid>>
    BY <1>0, <1>1, <1>2 DEF FiniteRows
  <1>3. CASE Close(p)
    <2>1. rows' \in [Agents -> Statuses] /\ rowid' = rowid
      BY <1>0, <1>3 DEF Close, Statuses
    <2>2. {a \in Agents : rows'[a] # "absent"} \subseteq {a \in Agents : rows[a] # "absent"}
      BY <1>0, <1>3 DEF Close
    <2> QED
      BY <1>0, <1>1, <2>1, <2>2, FS_Subset DEF FiniteRows
  <1>4. ASSUME NEW a \in Agents, Register(p, a)
        PROVE  /\ rows' \in [Agents -> Statuses]
               /\ rowid' \in [Agents -> Nat]
               /\ FiniteRows'
    <2> DEFINE S == {b \in Agents : rows[b] # "absent"}
    <2>1. rows' = [rows EXCEPT ![a] = "running"]
      BY <1>4 DEF Register
    <2>2. rows' \in [Agents -> Statuses]
      BY <1>0, <2>1 DEF Statuses
    <2>3. Cardinality(S) \in Nat
      BY FS_CardinalityType DEF FiniteRows
    <2>4. rowid' \in [Agents -> Nat]
      <3>1. rowid' = [rowid EXCEPT ![a] = IF rows[a] = "absent" THEN Cardinality(S) + 1 ELSE @]
        BY <1>4 DEF Register
      <3> HIDE DEF S
      <3> QED
        BY <1>0, <2>3, <3>1
    <2>5. {b \in Agents : rows'[b] # "absent"} = S \cup {a}
      BY <1>0, <2>1
    <2>6. IsFiniteSet(S \cup {a})
      BY FS_AddElement DEF FiniteRows
    <2> QED
      BY <2>2, <2>4, <2>5, <2>6 DEF FiniteRows
  <1> QED
    BY <1>1, <1>2, <1>3, <1>4, RowFrame

\* So does the mailbox.
LEMMA MailNext ==
  ASSUME TypeOK, Shapes, NEW p \in Procs, ProcStep(p)
  PROVE  /\ mail' \subseteq [id : Nat, to : Addressees, org : Origins]
         /\ lastid' \in Nat
         /\ \A m \in mail' : m.id \in 1 .. lastid'
  <1>0. /\ mail \subseteq [id : Nat, to : Addressees, org : Origins] /\ lastid \in Nat
        /\ \A m \in mail : m.id \in 1 .. lastid
    BY DEF TypeOK
  <1>1. CASE Enqueue(p)
    <2> DEFINE new == [id |-> lastid + 1, to |-> req[p].to, org |-> req[p].org]
    <2>1. mail' = mail \cup {new} /\ lastid' = lastid + 1
      BY <1>1 DEF Enqueue
    <2>2. req[p].to \in Addressees
      BY <1>1, DirectEffects DEF Shapes, Shape, Directing, At
    <2>3. req[p].org \in Origins
      BY DEF TypeOK, Requests
    <2>4. new \in [id : Nat, to : Addressees, org : Origins] /\ new.id = lastid + 1
      BY <1>0, <2>2, <2>3
    <2> HIDE DEF new
    <2> QED
      BY <1>0, <2>1, <2>4
  <1>2. CASE mail' \subseteq mail /\ lastid' = lastid
    BY <1>0, <1>2
  <1>3. CASE Drains \/ Announces(p) \/ Abort(p) \/ UNCHANGED <<mail, lastid>>
    BY <1>2, <1>3 DEF Drains, Drain, Announces, Abort, storeVars
  <1> QED
    BY <1>1, <1>3, MailFrame

\* What is known of directives is about pending ones.
LEMMA KnownNext ==
  ASSUME TypeOK, Shapes, OneId, NEW p \in Procs, ProcStep(p)
  PROVE  relayed' \subseteq Ids(mail)' /\ unrung' \subseteq Ids(mail)' /\ unannounced' \subseteq Ids(mail)'
  <1>0. relayed \subseteq Ids(mail) /\ unrung \subseteq Ids(mail) /\ unannounced \subseteq Ids(mail)
    BY DEF TypeOK
  <1> USE DEF Ids
  <1>1. CASE Enqueue(p)
    BY <1>0, <1>1 DEF Enqueue, history
  <1>2. CASE Drains
    <2>1. PICK a \in Addressees : Drain(a)
      BY <1>2 DEF Drains
    <2> QED
      BY <1>0, <2>1 DEF Drain, PendingOf
  <1>3. CASE Announces(p)
    BY <1>0, <1>3 DEF Announces, Announce, PendingOf
  <1>4. CASE Abort(p)
    <2>1. mail' = mail /\ relayed' = relayed
      BY <1>4 DEF Abort, storeVars
    <2>2. unrung' \subseteq unrung \cup Ids(mail)
      BY <1>4 DEF Abort
    <2>3. unannounced' \subseteq unannounced \cup Ids(mail)
      BY <1>4 DEF Abort, StrandedOn, PendingOf
    <2> QED
      BY <1>0, <2>1, <2>2, <2>3
  <1>5. CASE UNCHANGED <<mail, lastid, relayed, unrung, unannounced>>
    BY <1>0, <1>5
  <1> QED
    BY <1>1, <1>2, <1>3, <1>4, <1>5, MailFrame

\* The registries keep their types.
LEMMA RegistriesNext ==
  ASSUME TypeOK, Shapes, LockHeld, NEW p \in Procs, ProcStep(p)
  PROVE  /\ subs' \subseteq Subbed
         /\ waiter' \in [Addressees -> Procs \cup {None}]
         /\ lock' \in Procs \cup {None}
         /\ torn' \subseteq Agents
         /\ last' \in [Types -> Agents \cup {None}]
  <1>0. /\ subs \subseteq Subbed /\ waiter \in [Addressees -> Procs \cup {None}]
        /\ lock \in Procs \cup {None} /\ torn \subseteq Agents
        /\ last \in [Types -> Agents \cup {None}]
    BY DEF TypeOK
  <1>1. subs' \subseteq Subbed /\ lock' \in Procs \cup {None}
    <2> USE <1>0 DEF storeVars, history
    <2>1. CASE Progress(p)
      BY <2>1 DEF Progress, Enqueue, EnqueueUnknown, Relay, Stopped, Peek, Subscribe,
         ListOthers, SweepDone, SweepNext, TeeNext, ReconcileNext, GateAllow, GateUnknown,
         Unsubscribe, TeeDone, AwaitDrain, AwaitFinal, Release, Started, Registered, StopDelivered,
         GateBlock, StopReset, Close, AwaitWake, AwaitLeave
    <2>2. CASE Arrive(p)
      BY <2>2 DEF Arrive, Register, Stop, Direct, AwaitPark, AppendTeed, Reconcile
    <2>3. CASE AwaitTimeout(p) \/ AwaitCancel(p) \/ Abort(p)
      BY <2>3 DEF AwaitTimeout, AwaitCancel, Abort, Unlocked
    <2> QED
      BY <2>1, <2>2, <2>3 DEF ProcStep
  <1>2. waiter' \in [Addressees -> Procs \cup {None}]
    <2>1. CASE waiter' = waiter
      BY <1>0, <2>1
    <2>2. CASE Unpark(p)
      BY <1>0, <2>2 DEF Unpark
    <2>3. ASSUME NEW a \in Addressees, AwaitPark(p, a)
          PROVE  waiter' \in [Addressees -> Procs \cup {None}]
      BY <1>0, <2>3 DEF AwaitPark
    <2> QED
      BY <2>1, <2>2, <2>3, RowFrame DEF Release, AwaitWake, AwaitLeave, Abort
  <1>3. torn' \subseteq Agents /\ last' \in [Types -> Agents \cup {None}]
    <2>1. CASE Registered(p)
      <3>1. req[p].agent \in Agents
        BY <2>1, StartEffects DEF Shapes, Shape, Registering, At
      <3> QED
        BY <1>0, <2>1, <3>1 DEF Registered, Types
    <2>2. CASE Abort(p)
      <3>1. lock = p => req[p].agent \in Agents
        BY DEF LockHeld, Holding, Superseding, Shapes, Shape
      <3> QED
        BY <1>0, <2>2, <3>1 DEF Abort
    <2> QED
      BY <1>0, <2>1, <2>2, RowFrame
  <1> QED
    BY <1>1, <1>2, <1>3

\* So do the release channels, and the counters.
LEMMA CountersNext ==
  ASSUME TypeOK, Shapes, NEW p \in Procs, ProcStep(p)
  PROVE  /\ signal' \in [Procs -> BOOLEAN]
         /\ blocks' \in [Agents -> Nat] /\ refused' \in [Agents -> Nat]
         /\ ops' \in 0 .. MaxOps
         /\ faults' \in 0 .. MaxFaults
  <1>1. signal' \in [Procs -> BOOLEAN]
    <2>1. signal \in [Procs -> BOOLEAN]
      BY DEF TypeOK
    <2>2. CASE Release(p)
      BY <2>1, <2>2 DEF Release
    <2>3. CASE AwaitWake(p) \/ AwaitLeave(p) \/ Abort(p)
      BY <2>1, <2>3 DEF AwaitWake, AwaitLeave, Abort, Unpark
    <2>4. ASSUME NEW a \in Addressees, AwaitPark(p, a) PROVE signal' \in [Procs -> BOOLEAN]
      BY <2>1, <2>4 DEF AwaitPark
    <2> QED
      BY <2>1, <2>2, <2>3, <2>4, RowFrame
  <1>2. blocks' \in [Agents -> Nat] /\ refused' \in [Agents -> Nat]
    <2>1. blocks \in [Agents -> Nat] /\ refused \in [Agents -> Nat]
      BY DEF TypeOK
    <2>2. CASE GateBlock(p)
      <3>1. req[p].to \in Agents
        BY <2>2, StopEffects DEF Shapes, Shape, Stopping, At
      <3>2. blocks' = [blocks EXCEPT ![req[p].to] = @ + 1]
        BY <2>2 DEF GateBlock
      <3>3. refused' = refused \/ refused' = [refused EXCEPT ![req[p].to] = @ + 1]
        BY <2>2 DEF GateBlock
      <3> QED
        BY <2>1, <3>1, <3>2, <3>3
    <2>3. CASE StopDelivered(p) \/ StopReset(p)
      BY <2>1, <2>3 DEF StopDelivered, StopReset
    <2> QED
      BY <2>1, <2>2, <2>3, RowFrame
  <1>3. ops' = ops \/ Op
    <2> USE DEF storeVars, history, bounds
    <2>1. CASE Progress(p)
      BY <2>1 DEF Progress, Enqueue, EnqueueUnknown, Relay, Stopped, Peek, Subscribe,
         ListOthers, SweepDone, SweepNext, TeeNext, ReconcileNext, GateAllow, GateUnknown,
         Unsubscribe, TeeDone, AwaitDrain, AwaitFinal, Release, Started, Registered, StopDelivered,
         GateBlock, StopReset, Close, AwaitWake, AwaitLeave
    <2>2. CASE Arrive(p)
      BY <2>2 DEF Arrive, Register, Stop, Direct, AwaitPark, AppendTeed, Reconcile, AdmitStart,
         AdmitDirect
    <2>3. CASE AwaitTimeout(p) \/ AwaitCancel(p) \/ Abort(p)
      BY <2>3 DEF AwaitTimeout, AwaitCancel, Abort
    <2> QED
      BY <2>1, <2>2, <2>3 DEF ProcStep
  <1>4. faults' = faults \/ Fault
    <2> USE DEF storeVars, history, bounds
    <2>1. CASE Progress(p)
      BY <2>1 DEF Progress, Enqueue, EnqueueUnknown, Relay, Stopped, Peek, Subscribe,
         ListOthers, SweepDone, SweepNext, TeeNext, ReconcileNext, GateAllow, GateUnknown,
         Unsubscribe, TeeDone, AwaitDrain, AwaitFinal, Release, Started, Registered, StopDelivered,
         GateBlock, StopReset, Close, AwaitWake, AwaitLeave
    <2>2. CASE Arrive(p)
      BY <2>2 DEF Arrive, Register, Stop, Direct, AwaitPark, AppendTeed, Reconcile
    <2>3. CASE AwaitTimeout(p) \/ AwaitCancel(p) \/ Abort(p)
      BY <2>3 DEF AwaitTimeout, AwaitCancel, Abort
    <2> QED
      BY <2>1, <2>2, <2>3 DEF ProcStep
  <1>5. ops' \in 0 .. MaxOps /\ faults' \in 0 .. MaxFaults
    BY <1>3, <1>4, MailboxAssumption DEF TypeOK, Op, Fault
  <1> QED
    BY <1>1, <1>2, <1>5

-----------------------------------------------------------------------------
(* Where requests come from and go to. *)

\* A place is reached by one handler's step only.
LEMMA Entries ==
  ASSUME TypeOK, Shapes, NEW p \in Procs, ProcStep(p)
  PROVE  /\ req'[p].pc = "release" => Enqueue(p)
         /\ req'[p].pc = "parked" => AwaitDrain(p)
         /\ req'[p].pc = "drain" => \E a \in Addressees : AwaitPark(p, a)
         /\ req'[p].pc = "started" => \E a \in Agents : Register(p, a)
  <1>1. Shape(req[p]) /\ Idle.pc = "idle"
    BY DEF Shapes, Idle
  <1> USE DEF Shape, To, Back, Calls, Fresh, At
  <1>2. CASE EnqueueUnknown(p) \/ Relay(p) \/ Stopped(p)
    BY <1>1, <1>2, DirectEffects
  <1>3. CASE Release(p) \/ Peek(p)
    <2>1. To(p, "relay") \/ Back(p)
      BY <1>3, DirectEffects, Zenon
    <2> QED
      BY <1>1, <2>1
  <1>4. CASE \/ Started(p) \/ Subscribe(p) \/ ListOthers(p) \/ SweepDone(p) \/ Registered(p)
             \/ \E b \in Agents : SweepNext(p, b)
    BY <1>1, <1>4, StartEffects
  <1>5. CASE \/ StopDelivered(p) \/ GateUnknown(p) \/ GateAllow(p) \/ GateBlock(p) \/ StopReset(p)
             \/ Unsubscribe(p) \/ Close(p) \/ \E a \in Agents : Stop(p, a)
    BY <1>1, <1>5, StopEffects
  <1>6. CASE \/ AppendTeed(p) \/ TeeDone(p) \/ Reconcile(p) \/ Abort(p)
             \/ \E b \in Agents : TeeNext(p, b) \/ ReconcileNext(p, b)
             \/ \E a \in Addressees : Direct(p, a)
    BY <1>1, <1>6, OtherEffects
  <1>7. CASE \/ AwaitWake(p) \/ AwaitFinal(p) \/ AwaitLeave(p) \/ AwaitTimeout(p)
             \/ AwaitCancel(p)
    BY <1>1, <1>7, AwaitEffects
  <1>8. CASE AwaitDrain(p)
    BY <1>1, <1>8, AwaitEffects
  <1>9. CASE Enqueue(p)
    BY <1>9, DirectEffects
  <1>10. ASSUME NEW a \in Agents, Register(p, a) PROVE req'[p].pc = "started"
    BY <1>10, StartEffects
  <1>11. ASSUME NEW a \in Addressees, AwaitPark(p, a) PROVE req'[p].pc = "drain"
    BY <1>11, AwaitEffects
  <1> QED
    BY <1>2, <1>3, <1>4, <1>5, <1>6, <1>7, <1>8, <1>9, <1>10, <1>11 DEF ProcStep, Progress, Arrive

\* A place is left by one handler's step, or by an interruption.
LEMMA Exits ==
  ASSUME TypeOK, NEW p \in Procs, ProcStep(p), ~ Abort(p)
  PROVE  /\ At(p, "release") => Release(p)
         /\ At(p, "relay") => Relay(p)
         /\ At(p, "peek") => Peek(p)
         /\ At(p, "stopped") => Stopped(p)
         /\ At(p, "unsub") => Unsubscribe(p)
         /\ At(p, "started") => Started(p)
         /\ At(p, "subscribe") => Subscribe(p)
         /\ At(p, "list") => ListOthers(p)
         /\ At(p, "registered") => Registered(p)
         /\ At(p, "sweep") => SweepDone(p) \/ \E b \in Agents : SweepNext(p, b)
         /\ At(p, "enqueue") => Enqueue(p) \/ EnqueueUnknown(p)
         /\ At(p, "close") => Close(p)
         /\ req[p].pc \in Awaiting =>
              (req'[p].pc \in Awaiting /\ req'[p].to = req[p].to) \/ AwaitLeave(p)
  <1> USE DEF At
  <1>1. CASE \/ Enqueue(p) \/ EnqueueUnknown(p) \/ Release(p) \/ Relay(p) \/ Stopped(p) \/ Peek(p)
    BY <1>1 DEF Enqueue, EnqueueUnknown, Release, Relay, Stopped, Peek, Awaiting
  <1>2. CASE \/ Started(p) \/ Subscribe(p) \/ ListOthers(p) \/ SweepDone(p) \/ Registered(p)
             \/ \E b \in Agents : SweepNext(p, b)
    BY <1>2 DEF Started, Subscribe, ListOthers, SweepDone, Registered, SweepNext, Awaiting
  <1>3. CASE \/ StopDelivered(p) \/ GateUnknown(p) \/ GateAllow(p) \/ GateBlock(p) \/ StopReset(p)
             \/ Unsubscribe(p) \/ Close(p)
    BY <1>3 DEF StopDelivered, GateUnknown, GateAllow, GateBlock, StopReset, Unsubscribe, Close,
       Awaiting
  <1>4. CASE \/ TeeDone(p) \/ \E b \in Agents : TeeNext(p, b) \/ ReconcileNext(p, b)
    BY <1>4 DEF TeeDone, TeeNext, ReconcileNext, Awaiting
  <1>5. CASE Arrive(p)
    BY <1>5 DEF Arrive, Register, Stop, Direct, AwaitPark, AppendTeed, Reconcile, Awaiting
  <1>6. CASE \/ AwaitDrain(p) \/ AwaitWake(p) \/ AwaitFinal(p) \/ AwaitTimeout(p)
             \/ AwaitCancel(p)
    BY <1>6, AwaitEffects DEF To, Awaiting
  <1>7. CASE AwaitLeave(p)
    BY <1>7, AwaitEffects
  <1> QED
    BY <1>1, <1>2, <1>3, <1>4, <1>5, <1>6, <1>7 DEF ProcStep, Progress

-----------------------------------------------------------------------------
(* Directives and awaits. *)

\* Ids stay unique: the insert gives a new one.
LEMMA OneIdNext ==
  ASSUME TypeOK, Shapes, OneId, NEW p \in Procs, ProcStep(p) PROVE OneId'
  <1>1. CASE Enqueue(p)
    <2>1. \A m \in mail : m.id \in Nat /\ m.id <= lastid
      BY DEF TypeOK
    <2>2. lastid \in Nat
      BY DEF TypeOK
    <2> DEFINE n == [id |-> lastid + 1, to |-> req[p].to, org |-> req[p].org]
    <2>3. mail' = mail \cup {n} /\ n.id = lastid + 1
      BY <1>1 DEF Enqueue
    <2> HIDE DEF n
    <2> QED
      BY <2>1, <2>2, <2>3 DEF OneId
  <1>2. CASE mail' \subseteq mail
    BY <1>2 DEF OneId
  <1>3. CASE Drains \/ Announces(p) \/ Abort(p) \/ UNCHANGED <<mail, lastid>>
    BY <1>2, <1>3 DEF Drains, Drain, Announces, Abort, storeVars
  <1> QED
    BY <1>1, <1>3, MailFrame

\* A Direct that enqueued knows its directive.
LEMMA OwnIdNext ==
  ASSUME TypeOK, Shapes, OwnId, NEW p \in Procs, ProcStep(p) PROVE OwnId'
  <1>0. lastid \in Nat /\ \A q \in Procs : req[q].id \in Nat
    BY DEF TypeOK, Requests
  <1>1. CASE Enqueue(p)
    <2>1. \A m \in mail : m.id \in Nat /\ m.id <= lastid
      BY DEF TypeOK
    <2> DEFINE n == [id |-> lastid + 1, to |-> req[p].to, org |-> req[p].org]
    <2>2. mail' = mail \cup {n} /\ n.id = lastid + 1 /\ n.to = req[p].to
      BY <1>1 DEF Enqueue
    <2> HIDE DEF n
    <2>3. lastid' = lastid + 1
      BY <1>1 DEF Enqueue
    <2>4. req'[p].id = lastid + 1 /\ req'[p].to = req[p].to
      BY <1>1, DirectEffects
    <2>5. ASSUME NEW q \in Procs, q # p, At(q, "release")
          PROVE  req[q].id <= lastid' /\ \A m \in mail' : m.id = req[q].id => m.to = req[q].to
      BY <1>0, <2>1, <2>2, <2>3, <2>5 DEF OwnId
    <2>6. req'[p].id <= lastid' /\ \A m \in mail' : m.id = req'[p].id => m.to = req'[p].to
      BY <1>0, <2>1, <2>2, <2>3, <2>4
    <2> QED
      BY <2>5, <2>6, OthersKept DEF OwnId, At
  <1>2. CASE mail' \subseteq mail /\ lastid' = lastid /\ ~ Enqueue(p)
    BY <1>2, OthersKept, Entries DEF OwnId, At
  <1>3. CASE Drains \/ Announces(p) \/ Abort(p) \/ UNCHANGED <<mail, lastid>>
    BY <1>1, <1>2, <1>3 DEF Drains, Drain, Announces, Abort, storeVars
  <1> QED
    BY <1>1, <1>3, MailFrame

\* The registered waiters are the awaits that have no release in their channel.
LEMMA WaitingNext ==
  ASSUME TypeOK, Shapes, Waiting, NEW p \in Procs, ProcStep(p) PROVE Waiting'
  <1> USE MailboxAssumption
  <1>0. /\ \A q \in Procs : q # p => req'[q] = req[q]
        /\ waiter \in [Addressees -> Procs \cup {None}] /\ signal \in [Procs -> BOOLEAN]
    BY OthersKept DEF TypeOK
  <1>1. ASSUME NEW a \in Addressees, AwaitPark(p, a) PROVE Waiting'
    <2>1. req'[p].pc = "drain" /\ req'[p].to = a /\ req[p].pc = "idle"
      BY <1>1, AwaitEffects DEF Fresh, At
    <2>2. waiter' = [waiter EXCEPT ![a] = p]
      BY <1>1 DEF AwaitPark
    <2>3. signal' = [q \in Procs |-> IF q = p THEN FALSE ELSE signal[q] \/ q = waiter[a]]
      BY <1>1 DEF AwaitPark
    <2>4. \A b \in Addressees : waiter[b] # p
      BY <2>1 DEF Waiting, Awaiting
    <2>5. ASSUME NEW b \in Addressees, NEW q \in Procs, waiter'[b] = q
          PROVE  req'[q].pc \in Awaiting /\ req'[q].to = b
      BY <1>0, <2>1, <2>2, <2>4, <2>5 DEF Waiting, Awaiting
    <2>6. ASSUME NEW q \in Procs, req'[q].pc \in {"drain", "parked"}, ~ signal'[q]
          PROVE  waiter'[req'[q].to] = q
      <3>1. CASE q = p
        BY <1>0, <2>1, <2>2, <3>1
      <3>2. CASE q # p
        <4>1. ~ signal[q] /\ q # waiter[a]
          BY <2>3, <2>6, <3>2
        <4> QED
          BY <1>0, <2>2, <2>6, <3>2, <4>1 DEF Waiting
      <3> QED
        BY <3>1, <3>2
    <2> QED
      BY <2>5, <2>6 DEF Waiting
  <1>2. CASE AwaitLeave(p) \/ Abort(p)
    <2>1. Unpark(p)
      BY <1>2 DEF AwaitLeave, Abort
    <2>2. req'[p].pc \notin {"drain", "parked"}
      BY <1>2, AwaitEffects, OtherEffects DEF Idle, Back, Shapes, Shape
    <2>3. \A b \in Addressees : waiter'[b] = IF waiter[b] = p THEN None ELSE waiter[b]
      BY <2>1 DEF Unpark
    <2>4. \A q \in Procs : q # p => signal'[q] = signal[q]
      BY <1>0, <2>1 DEF Unpark
    <2>5. \A b \in Addressees, q \in Procs : waiter'[b] = q => req'[q].pc \in Awaiting /\ req'[q].to = b
      BY <1>0, <2>3 DEF Waiting
    <2>6. ASSUME NEW q \in Procs, req'[q].pc \in {"drain", "parked"}, ~ signal'[q]
          PROVE  waiter'[req'[q].to] = q
      <3>1. q # p /\ waiter[req[q].to] = q
        BY <1>0, <2>2, <2>4, <2>6 DEF Waiting
      <3>2. req[q].to \in Addressees
        BY <1>0, <2>6, <3>1 DEF Shapes, Shape, Awaiting
      <3> QED
        BY <1>0, <2>3, <3>1, <3>2
    <2> QED
      BY <2>5, <2>6 DEF Waiting
  <1>3. ASSUME ~ AwaitLeave(p), ~ Abort(p), \A a \in Addressees : ~ AwaitPark(p, a)
        PROVE  Waiting'
    <2>1. waiter' = waiter
      BY <1>3, RowFrame DEF Release, AwaitWake
    <2>2. \A q \in Procs : ~ signal'[q] => ~ signal[q] \/ (q = p /\ AwaitWake(p))
      <3>1. CASE Release(p)
        BY <3>1 DEF Release
      <3>2. CASE AwaitWake(p)
        BY <1>0, <3>2 DEF AwaitWake
      <3> QED
        BY <1>3, <3>1, <3>2, RowFrame
    <2>3. AwaitWake(p) => req'[p].pc = "final"
      BY AwaitEffects DEF To
    <2>4. req'[p].pc \in {"drain", "parked"} => req[p].pc = "drain" /\ req'[p].to = req[p].to
      BY <1>3, Entries, AwaitEffects DEF To, At
    <2>5. \A b \in Addressees, q \in Procs : waiter'[b] = q => req'[q].pc \in Awaiting /\ req'[q].to = b
      BY <1>0, <1>3, <2>1, Exits DEF Waiting
    <2>6. ASSUME NEW q \in Procs, req'[q].pc \in {"drain", "parked"}, ~ signal'[q]
          PROVE  waiter'[req'[q].to] = q
      BY <1>0, <2>1, <2>2, <2>3, <2>4, <2>6 DEF Waiting
    <2> QED
      BY <2>5, <2>6 DEF Waiting
  <1> QED
    BY <1>1, <1>2, <1>3

\* A directive that stays pending stays unrung, if it was.
LEMMA UnrungKept ==
  ASSUME TypeOK, Shapes, OneId, NEW p \in Procs, ProcStep(p), NEW m \in mail, m \in mail',
         m.id \in unrung
  PROVE  m.id \in unrung'
  <1>1. CASE Drains
    <2>1. PICK a \in Addressees : Drain(a)
      BY <1>1 DEF Drains
    <2>2. m.id \notin Ids(PendingOf(a))
      BY <2>1 DEF Drain, Ids, PendingOf, OneId
    <2> QED
      BY <2>1, <2>2 DEF Drain
  <1>2. CASE Enqueue(p) \/ Announces(p) \/ Abort(p) \/ UNCHANGED unrung
    BY <1>2 DEF Enqueue, history, Announces, Abort
  <1> QED
    BY <1>1, <1>2, MailFrame

\* A parked await misses no release.
LEMMA ParkNotMissedNext ==
  ASSUME TypeOK, Shapes, OneId, OwnId, Waiting, ParkNotMissed, NEW p \in Procs, ProcStep(p)
  PROVE  ParkNotMissed'
  <1> SUFFICES ASSUME NEW q \in Procs, req'[q].pc = "parked", ~ signal'[q],
                      NEW m \in mail', m.to = req'[q].to
               PROVE  m.id \in unrung' \/ \E x \in Procs : req'[x].pc = "release" /\ req'[x].id = m.id
    BY DEF ParkNotMissed, PendingOf, At
  <1>0. \A x \in Procs : x # p => req'[x] = req[x]
    BY OthersKept
  <1>1. q # p
    <2> SUFFICES ASSUME q = p PROVE FALSE
      OBVIOUS
    <2>1. AwaitDrain(p)
      BY Entries
    <2>2. PendingOf(req[p].to) = {} /\ req'[p].to = req[p].to
      BY <2>1, AwaitEffects DEF To
    <2>3. mail' \subseteq mail
      BY <2>1 DEF AwaitDrain, Drain
    <2> QED
      BY <2>2, <2>3 DEF PendingOf
  <1>2. req[q].pc = "parked" /\ req[q].to = m.to
    BY <1>0, <1>1
  <1>3. CASE m \notin mail
    <2>1. Enqueue(p)
      BY <1>3, MailFrame DEF Drains, Drain, Announces, Abort, storeVars
    <2>2. m.id = lastid + 1
      BY <1>3, <2>1 DEF Enqueue
    <2> QED
      BY <2>1, <2>2, DirectEffects
  <1>4. CASE m \in mail
    <2>1. ~ signal[q]
      <3>1. CASE Release(p)
        BY <3>1 DEF Release
      <3>2. CASE AwaitWake(p) \/ AwaitLeave(p) \/ Abort(p)
        BY <1>1, <3>2 DEF TypeOK, AwaitWake, AwaitLeave, Abort, Unpark
      <3>3. ASSUME NEW a \in Addressees, AwaitPark(p, a) PROVE ~ signal[q]
        BY <1>1, <3>3 DEF AwaitPark
      <3> QED
        BY <3>1, <3>2, <3>3, RowFrame
    <2>2. m.id \in unrung \/ \E x \in Procs : req[x].pc = "release" /\ req[x].id = m.id
      BY <1>2, <1>4, <2>1 DEF ParkNotMissed, PendingOf, At
    <2>3. CASE m.id \in unrung
      BY <1>4, <2>3, UnrungKept
    <2>4. ASSUME NEW x \in Procs, req[x].pc = "release", req[x].id = m.id
          PROVE  m.id \in unrung' \/ \E y \in Procs : req'[y].pc = "release" /\ req'[y].id = m.id
      <3>1. CASE x # p
        BY <1>0, <2>4, <3>1
      <3>2. CASE x = p /\ Abort(p)
        BY <1>4, <2>4, <3>2 DEF Abort, Ids
      <3>3. CASE x = p /\ ~ Abort(p)
        <4>1. Release(p)
          BY <2>4, <3>3, Exits DEF At
        <4>2. m.to = req[p].to
          BY <1>4, <2>4, <3>3 DEF OwnId, At
        <4>3. waiter[m.to] = q
          BY <1>2, <2>1 DEF Waiting
        <4> QED
          BY <4>1, <4>2, <4>3 DEF Release
      <3> QED
        BY <3>1, <3>2, <3>3
    <2> QED
      BY <2>2, <2>3, <2>4
  <1> QED
    BY <1>3, <1>4

\* A directive that stays pending stays announced, or excused, if it was.
LEMMA AnnouncedKept ==
  ASSUME TypeOK, Shapes, OneId, NEW p \in Procs, ProcStep(p), NEW m \in mail, m \in mail',
         m.id \in relayed \cup unannounced
  PROVE  m.id \in relayed' \cup unannounced'
  <1>1. CASE Drains
    <2>1. PICK a \in Addressees : Drain(a)
      BY <1>1 DEF Drains
    <2>2. m.id \notin Ids(PendingOf(a))
      BY <2>1 DEF Drain, Ids, PendingOf, OneId
    <2> QED
      BY <2>1, <2>2 DEF Drain
  <1>2. CASE Announces(p)
    BY <1>2 DEF Announces, Announce
  <1>3. CASE Abort(p)
    BY <1>3 DEF Abort
  <1>4. CASE Enqueue(p) \/ UNCHANGED <<relayed, unannounced>>
    BY <1>4 DEF Enqueue, history
  <1> QED
    BY <1>1, <1>2, <1>3, <1>4, MailFrame

\* What is stranded on a done agent is announced, or the announcement is owed.
LEMMA StrandedIsAnnouncedNext ==
  ASSUME TypeOK, Shapes, OneId, StrandedIsAnnounced, NEW p \in Procs, ProcStep(p)
  PROVE  StrandedIsAnnounced'
  <1> SUFFICES ASSUME up', NEW a \in Agents, rows'[a] = "done",
                      NEW m \in mail', m.to = a, m.org # "supersede"
               PROVE  \/ m.id \in relayed' \cup unannounced'
                      \/ \E x \in Procs : OwesRelay(x, a)'
    BY DEF StrandedIsAnnounced, StrandedOn, PendingOf
  <1>0. \A x \in Procs : x # p => req'[x] = req[x]
    BY OthersKept
  <1>1. CASE rows[a] # "done"
    <2>1. Close(p)
      BY <1>1, RowFrame DEF TypeOK, Register
    <2>2. rows[req[p].to] = "running" /\ req[p].to = a
      BY <1>1, <2>1 DEF Close, TypeOK
    <2>3. req'[p].pc \in {"stopped", "unsub"} /\ req'[p].to = a
      BY <2>1, <2>2, StopEffects DEF Idle
    <2> QED
      BY <2>3 DEF OwesRelay
  <1>2. CASE m \notin mail /\ rows[a] = "done"
    <2>1. Enqueue(p)
      BY <1>2, MailFrame DEF Drains, Drain, Announces, Abort, storeVars
    <2>2. req[p].to = a
      BY <1>2, <2>1 DEF Enqueue
    <2>3. req'[p].pc = "release" /\ req'[p].to = a /\ req'[p].done
      BY <1>2, <2>1, <2>2, DirectEffects
    <2> QED
      BY <2>3 DEF OwesRelay
  <1>3. CASE m \in mail /\ rows[a] = "done"
    <2>1. m.id \in relayed \cup unannounced \/ \E x \in Procs : OwesRelay(x, a)
      BY <1>3, RowFrame DEF StrandedIsAnnounced, StrandedOn, PendingOf
    <2>2. CASE m.id \in relayed \cup unannounced
      BY <1>3, <2>2, AnnouncedKept
    <2>3. ASSUME NEW x \in Procs, x # p, OwesRelay(x, a) PROVE OwesRelay(x, a)'
      BY <1>0, <2>3 DEF OwesRelay
    <2>4. ASSUME OwesRelay(p, a), Abort(p) PROVE m.id \in unannounced'
      <3>1. req[p].to = a
        BY <2>4 DEF OwesRelay
      <3>2. m \in StrandedOn(req[p].to)
        BY <1>3, <3>1 DEF StrandedOn, PendingOf
      <3>3. unannounced' = unannounced \cup Ids(StrandedOn(req[p].to))
        BY <2>4, <3>1 DEF Abort
      <3> QED
        BY <3>2, <3>3 DEF Ids
    <2>5. ASSUME OwesRelay(p, a), ~ Abort(p)
          PROVE  m.id \in relayed' \/ OwesRelay(p, a)'
      <3>1. req[p].to = a
        BY <2>5 DEF OwesRelay
      <3>2. CASE At(p, "relay")
        <4>1. Relay(p)
          BY <2>5, <3>2, Exits
        <4> QED
          BY <1>3, <3>1, <4>1 DEF Relay, Announce, Ids, PendingOf
      <3>3. CASE At(p, "peek")
        <4>1. Peek(p)
          BY <2>5, <3>3, Exits
        <4>2. StrandedOn(req[p].to) # {}
          BY <1>3, <3>1 DEF StrandedOn, PendingOf
        <4>3. To(p, "relay")
          BY <4>1, <4>2, DirectEffects, Zenon
        <4> QED
          BY <3>1, <4>3 DEF To, OwesRelay
      <3>4. CASE At(p, "stopped")
        BY <2>5, <3>1, <3>4, Exits, DirectEffects DEF To, OwesRelay
      <3>5. CASE At(p, "unsub")
        BY <2>5, <3>1, <3>5, Exits, StopEffects DEF To, OwesRelay
      <3>6. CASE At(p, "release") /\ req[p].done
        <4>1. To(p, "relay")
          BY <2>5, <3>6, Exits, DirectEffects, Zenon
        <4> QED
          BY <3>1, <4>1 DEF To, OwesRelay
      <3> QED
        BY <2>5, <3>2, <3>3, <3>4, <3>5, <3>6 DEF OwesRelay, At
    <2> QED
      BY <2>1, <2>2, <2>3, <2>4, <2>5
  <1> QED
    BY <1>1, <1>2, <1>3

-----------------------------------------------------------------------------
(* The registration and its sweep. *)

\* How a registration goes on inside the critical section.
LEMMA HolderStep ==
  ASSUME TypeOK, Shapes, Visited, NEW p \in Procs, ProcStep(p),
         Holding(req[p]), ~ Registered(p), ~ Abort(p)
  PROVE  /\ req'[p].agent = req[p].agent
         /\ \/ Started(p) /\ At(p, "started") /\ req'[p].pc = "subscribe"
            \/ /\ At(p, "subscribe") /\ req'[p].ret = "idle"
               /\ req'[p].pc = IF Singleton /\ req[p].agent \in Subbed THEN "list" ELSE "registered"
            \/ /\ ListOthers(p) /\ At(p, "list") /\ req'[p].pc = "sweep" /\ req'[p].ret = "idle"
               /\ req'[p].todo = {b \in Agents \ {req[p].agent} :
                                    rows[b] = "running" /\ Type[b] = Type[req[p].agent]}
            \/ /\ Sweeping(req[p]) /\ Sweeping(req'[p]) /\ Visits(req'[p]) \subseteq Visits(req[p])
               /\ Losers(req'[p]) = Losers(req[p])
            \/ /\ Sweeping(req[p]) /\ Sweeping(req'[p]) /\ Visits(req'[p]) \subseteq Visits(req[p])
               /\ Close(p) /\ Losers(req[p]) = Losers(req'[p]) \cup {req[p].to}
            \/ /\ Sweeping(req[p]) /\ Losers(req[p]) = {}
               /\ req'[p].pc = "registered" /\ req'[p].ret = "idle"
  <1>1. Shape(req[p])
    BY DEF Shapes
  <1> USE DEF Shape, Registering, Stopping, Directing, To, Back, Calls, At
  <1>2. CASE At(p, "started")
    BY <1>2, Exits, StartEffects
  <1>3. CASE At(p, "subscribe")
    BY <1>1, <1>3, Exits, StartEffects
  <1>4. CASE At(p, "list")
    BY <1>1, <1>4, Exits, StartEffects
  <1>5. CASE At(p, "sweep")
    <2>0. Sweeping(req[p]) /\ Losers(req[p]) = req[p].todo /\ Visits(req[p]) = req[p].todo
      BY <1>1, <1>5 DEF Sweeping, Losers, Visits, Superseding
    <2>1. CASE SweepDone(p)
      BY <1>1, <2>0, <2>1, StartEffects
    <2>2. ASSUME NEW b \in Agents, SweepNext(p, b)
          PROVE  /\ req'[p].agent = req[p].agent
                 /\ Sweeping(req'[p]) /\ Visits(req'[p]) \subseteq Visits(req[p])
                 /\ Losers(req'[p]) = Losers(req[p])
      <3>1. /\ b \in req[p].todo /\ req'[p].agent = req[p].agent /\ req'[p].pc = "enqueue"
            /\ req'[p].ret = "close" /\ req'[p].to = b /\ req'[p].todo = req[p].todo \ {b}
        BY <2>2, StartEffects
      <3> QED
        BY <2>0, <3>1 DEF Sweeping, Losers, Visits, Superseding
    <2> QED
      BY <1>5, <2>0, <2>1, <2>2, Exits
  <1>6. ASSUME req'[p].agent = req[p].agent, req'[p].to = req[p].to, req'[p].todo = req[p].todo,
               Superseding(req[p]),
               \/ /\ req'[p].ret = req[p].ret
                  /\ req'[p].pc # "registered" /\ req[p].pc # "registered"
                  /\ req[p].ret # "idle" /\ req'[p].pc # "close" /\ req[p].pc # "close"
               \/ req[p].ret = "close" /\ req'[p].pc = "close" /\ req[p].pc # "registered"
               \/ req[p].ret = "sweep" /\ req'[p].pc = "sweep" /\ req'[p].ret = "idle"
                  /\ req[p].pc \notin {"registered", "close"}
        PROVE  /\ Sweeping(req[p]) /\ Sweeping(req'[p]) /\ Visits(req'[p]) \subseteq Visits(req[p])
               /\ Losers(req'[p]) = Losers(req[p])
    BY <1>1, <1>6 DEF Sweeping, Losers, Visits, Superseding
  <1>7. CASE req[p].ret = "close"
    <2>1. CASE At(p, "enqueue")
      <3>1. CASE Enqueue(p)
        BY <1>1, <1>6, <1>7, <3>1, DirectEffects DEF Superseding
      <3>2. CASE EnqueueUnknown(p)
        BY <1>1, <1>6, <1>7, <3>2, DirectEffects DEF Superseding
      <3> QED
        BY <2>1, <3>1, <3>2, Exits
    <2>2. CASE At(p, "release")
      <3>1. To(p, "relay") \/ Back(p)
        BY <2>2, Exits, DirectEffects, Zenon
      <3> QED
        BY <1>1, <1>6, <1>7, <2>2, <3>1 DEF Superseding
    <2>3. CASE At(p, "relay")
      BY <1>1, <1>6, <1>7, <2>3, Exits, DirectEffects DEF Superseding
    <2> QED
      BY <1>1, <1>7, <2>1, <2>2, <2>3
  <1>8. CASE req[p].ret = "sweep"
    <2>1. CASE At(p, "stopped")
      BY <1>1, <1>6, <1>8, <2>1, Exits, DirectEffects DEF Superseding
    <2>2. CASE At(p, "peek")
      <3>1. To(p, "relay") \/ Back(p)
        BY <2>2, Exits, DirectEffects, Zenon
      <3> QED
        BY <1>1, <1>6, <1>8, <2>2, <3>1 DEF Superseding
    <2>3. CASE At(p, "relay")
      BY <1>1, <1>6, <1>8, <2>3, Exits, DirectEffects DEF Superseding
    <2> QED
      BY <1>1, <1>8, <2>1, <2>2, <2>3
  <1>9. CASE At(p, "close") /\ req[p].agent # req[p].to
    <2>1. Close(p)
      BY <1>9, Exits
    <2>2. /\ req'[p].pc \in {"stopped", "sweep"}
          /\ req'[p].agent = req[p].agent /\ req'[p].to = req[p].to /\ req'[p].todo = req[p].todo
          /\ req'[p].pc = "stopped" => req'[p].ret = "sweep"
          /\ req'[p].pc = "sweep" => req'[p].ret = "idle"
      BY <1>1, <1>9, <2>1, StopEffects DEF Idle
    <2>3. /\ Sweeping(req[p]) /\ Sweeping(req'[p]) /\ Visits(req'[p]) \subseteq Visits(req[p])
          /\ Losers(req[p]) = Losers(req'[p]) \cup {req[p].to}
      BY <1>1, <1>9, <2>2 DEF Sweeping, Losers, Visits, Superseding
    <2> QED
      BY <2>1, <2>2, <2>3
  <1>10. ~ At(p, "registered")
    BY Exits
  <1> QED
    BY <1>2, <1>3, <1>4, <1>5, <1>7, <1>8, <1>9, <1>10 DEF Holding, Superseding

\* Two requests inside the critical section are one.
LEMMA OneHolder ==
  ASSUME LockHeld, NEW p \in Procs, NEW q \in Procs, Holding(req[p]), Holding(req[q]) PROVE p = q
  BY DEF LockHeld

\* The history of interruptions loses an agent only at the end of a registration.
LEMMA TornKept ==
  ASSUME TypeOK, LockHeld, Shapes, NEW p \in Procs, ProcStep(p), ~ Registered(p)
  PROVE  torn \subseteq torn' /\ started \subseteq started'
  BY RowFrame DEF Started, Abort

\* Running agents are announced.
LEMMA RunningStartedNext ==
  ASSUME TypeOK, Shapes, LockHeld, RunningStarted, Announced, Complete, NEW p \in Procs, ProcStep(p)
  PROVE  RunningStarted'
  <1> SUFFICES ASSUME NEW a \in Agents, rows'[a] = "running"
               PROVE  \/ a \in started' \cup torn'
                      \/ \E q \in Procs : req'[q].pc = "started" /\ req'[q].agent = a
    BY DEF RunningStarted, At
  <1>0. \A q \in Procs : q # p => req'[q] = req[q]
    BY OthersKept
  <1>1. ASSUME NEW b \in Agents, Register(p, b), b = a PROVE req'[p].pc = "started" /\ req'[p].agent = a
    BY <1>1, StartEffects DEF Fresh
  <1>2. CASE rows[a] = "running"
    <2>1. CASE a \in started \cup torn /\ ~ Registered(p)
      BY <2>1, TornKept
    <2>2. CASE a \in started \cup torn /\ Registered(p)
      <3>1. At(p, "registered") /\ started' = started
        BY <2>2, StartEffects DEF Registered, storeVars
      <3>2. req[p].agent \in started
        BY <3>1 DEF Announced, Holding, Registering, At
      <3>3. CASE a \in torn /\ a \notin torn'
        <4>1. a = req[p].agent \/ (Singleton /\ req[p].agent \in Subbed /\ Type[a] = Type[req[p].agent])
          BY <2>2, <3>3 DEF Registered
        <4>2. Singleton /\ req[p].agent \in Subbed /\ Type[a] = Type[req[p].agent] => a = req[p].agent
          BY <1>2, <3>1 DEF Complete, Settling, Losers, At
        <4> QED
          BY <3>1, <3>2, <4>1, <4>2
      <3> QED
        BY <2>2, <3>1, <3>3
    <2>3. ASSUME NEW q \in Procs, At(q, "started"), req[q].agent = a
          PROVE  \/ a \in started' \cup torn'
                 \/ \E x \in Procs : req'[x].pc = "started" /\ req'[x].agent = a
      <3>1. CASE q # p
        BY <1>0, <2>3, <3>1 DEF At
      <3>2. CASE q = p /\ Abort(p)
        <4>1. lock = p
          BY <2>3, <3>2 DEF LockHeld, Holding, Registering, At
        <4> QED
          BY <2>3, <3>2, <4>1 DEF Abort
      <3>3. CASE q = p /\ ~ Abort(p)
        BY <2>3, <3>3, Exits DEF Started
      <3> QED
        BY <3>1, <3>2, <3>3
    <2> QED
      BY <1>2, <2>1, <2>2, <2>3 DEF RunningStarted
  <1>3. CASE rows[a] # "running"
    <2>1. \E b \in Agents : Register(p, b) /\ b = a
      BY <1>3, RowFrame DEF TypeOK, Register, Close
    <2> QED
      BY <1>1, <2>1
  <1> QED
    BY <1>2, <1>3

\* A registration that announced its agent has it in the log.
LEMMA AnnouncedNext ==
  ASSUME TypeOK, Shapes, Visited, LockHeld, Announced, NEW p \in Procs, ProcStep(p)
  PROVE  Announced'
  <1>0. (\A q \in Procs : q # p => req'[q] = req[q]) /\ started \subseteq started'
    BY OthersKept, RowFrame DEF Started
  <1> SUFFICES ASSUME Holding(req'[p]), req'[p].pc # "started" PROVE req'[p].agent \in started'
    BY <1>0 DEF Announced, At
  <1>1. ~ Registered(p) /\ ~ Abort(p)
    BY StartEffects, OtherEffects DEF Holding, Superseding, Registering, Calls, Back, Idle
  <1>2. \A a \in Agents : ~ Register(p, a)
    BY StartEffects DEF Fresh
  <1>3. Holding(req[p])
    BY <1>1, <1>2, HoldingKept
  <1>4. req'[p].agent = req[p].agent /\ (At(p, "started") => Started(p))
    BY <1>1, <1>3, HolderStep, Exits
  <1>5. CASE At(p, "started")
    BY <1>4, <1>5 DEF Started
  <1>6. CASE ~ At(p, "started")
    BY <1>0, <1>3, <1>4, <1>6 DEF Announced
  <1> QED
    BY <1>5, <1>6

\* A sweep visits announced agents.
LEMMA VisitedNext ==
  ASSUME TypeOK, Shapes, LockHeld, RunningStarted, Visited, NEW p \in Procs, ProcStep(p)
  PROVE  Visited'
  <1>0. \A q \in Procs : q # p => req'[q] = req[q]
    BY OthersKept
  <1>1. ASSUME NEW q \in Procs, q # p, Sweeping(req[q]) PROVE started \cup torn \subseteq started' \cup torn'
    <2>1. Holding(req[q])
      BY <1>1 DEF Sweeping, Holding, Registering
    <2>2. ~ Registered(p)
      BY <1>1, <2>1, OneHolder, StartEffects DEF Holding, Registering, At
    <2> QED
      BY <2>2, TornKept
  <1>2. ASSUME NEW q \in Procs, q # p
        PROVE  /\ Sweeping(req'[q]) \/ req'[q].pc = "list" => req'[q].agent \in Subbed
               /\ Sweeping(req'[q]) => /\ req'[q].agent \notin Visits(req'[q])
                                       /\ Visits(req'[q]) \subseteq started' \cup torn'
    BY <1>0, <1>1, <1>2 DEF Visited, At
  <1>3. ASSUME Sweeping(req'[p]) \/ req'[p].pc = "list"
        PROVE  /\ req'[p].agent \in Subbed
               /\ Sweeping(req'[p]) => /\ req'[p].agent \notin Visits(req'[p])
                                       /\ Visits(req'[p]) \subseteq started' \cup torn'
    <2>1. Holding(req'[p]) /\ req'[p].pc \notin {"started", "subscribe", "registered"}
      <3>1. Shape(req'[p])
        BY ShapesNext DEF Shapes
      <3> QED
        BY <1>3, <3>1 DEF Sweeping, Superseding, Holding, Registering, Shape, Directing
    <2>2. ~ Registered(p) /\ ~ Abort(p)
      BY <2>1, StartEffects, OtherEffects DEF Holding, Superseding, Registering, Calls, Back, Idle
    <2>3. \A a \in Agents : ~ Register(p, a)
      BY <2>1, StartEffects DEF Fresh
    <2>4. Holding(req[p])
      BY <2>1, <2>2, <2>3, HoldingKept
    <2>5. started \cup torn \subseteq started' \cup torn'
      BY <2>2, TornKept
    <2>6. CASE At(p, "subscribe")
      <3>1. /\ req'[p].agent = req[p].agent /\ req'[p].pc = "list" /\ req'[p].ret = "idle"
            /\ req[p].agent \in Subbed
        BY <2>1, <2>2, <2>4, <2>6, HolderStep DEF At, Sweeping, Superseding, Shapes, Shape,
           Registering
      <3> QED
        BY <3>1 DEF Sweeping, Superseding
    <2>7. CASE At(p, "list")
      <3>1. /\ req'[p].agent = req[p].agent /\ req'[p].pc = "sweep" /\ req'[p].ret = "idle"
            /\ req'[p].todo = {b \in Agents \ {req[p].agent} :
                                 rows[b] = "running" /\ Type[b] = Type[req[p].agent]}
        BY <2>2, <2>4, <2>7, HolderStep DEF At, Sweeping, Superseding, Shapes, Shape, Registering
      <3>2. Visits(req'[p]) = req'[p].todo
        BY <3>1 DEF Visits, Superseding
      <3>3. req'[p].todo \subseteq started \cup torn
        <4>1. ASSUME NEW b \in Agents, rows[b] = "running", NEW q \in Procs, At(q, "started")
              PROVE  FALSE
          <5>1. Holding(req[q])
            BY <4>1 DEF Holding, Registering, At
          <5> QED
            BY <2>4, <2>7, <4>1, <5>1, OneHolder DEF At
        <4> QED
          BY <3>1, <4>1 DEF RunningStarted
      <3> QED
        BY <2>5, <2>7, <3>1, <3>2, <3>3 DEF Visited
    <2>8. CASE ~ At(p, "subscribe") /\ ~ At(p, "list")
      <3>1. /\ req'[p].agent = req[p].agent /\ Sweeping(req[p]) /\ Sweeping(req'[p])
            /\ Visits(req'[p]) \subseteq Visits(req[p])
        BY <2>1, <2>2, <2>4, <2>8, HolderStep
      <3> QED
        BY <2>5, <3>1 DEF Visited
    <2> QED
      BY <2>6, <2>7, <2>8
  <1> QED
    BY <1>2, <1>3 DEF Visited, At

\* Only a registration makes an agent run.
LEMMA RunningKept ==
  ASSUME TypeOK, NEW p \in Procs, ProcStep(p), \A b \in Agents : ~ Register(p, b),
         NEW a \in Agents, rows'[a] = "running"
  PROVE  rows[a] = "running" /\ (Close(p) => a # req[p].to)
  BY RowFrame DEF TypeOK, Close

\* The list of a sweep stays complete.
LEMMA CompleteNext ==
  ASSUME TypeOK, Shapes, LockHeld, Visited, Complete, NEW p \in Procs, ProcStep(p)
  PROVE  Complete'
  <1>0. \A q \in Procs : q # p => req'[q] = req[q]
    BY OthersKept
  <1>1. \A r : Settling(r) => Holding(r)
    BY DEF Settling, Sweeping, Holding, Registering
  <1> SUFFICES ASSUME NEW q \in Procs, Settling(req'[q]), NEW a \in Agents, rows'[a] = "running",
                      Type[a] = Type[req'[q].agent]
               PROVE  a = req'[q].agent \/ a \in Losers(req'[q])
    BY DEF Complete
  <1>2. CASE q # p
    <2>1. lock = q /\ req'[q] = req[q]
      BY <1>0, <1>1, <1>2 DEF LockHeld
    <2>2. \A b \in Agents : ~ Register(p, b)
      BY <2>1, MailboxAssumption DEF Register
    <2> QED
      BY <2>1, <2>2, RunningKept DEF Complete
  <1>3. CASE q = p
    <2>1. Holding(req'[p]) /\ req'[p].pc # "started"
      <3>1. Shape(req'[p])
        BY ShapesNext DEF Shapes
      <3> QED
        BY <1>1, <1>3, <3>1 DEF Settling, Sweeping, Superseding, Shape, Directing, Registering
    <2>2. ~ Registered(p) /\ ~ Abort(p)
      BY <2>1, StartEffects, OtherEffects DEF Holding, Superseding, Registering, Calls, Back, Idle
    <2>3. \A b \in Agents : ~ Register(p, b)
      BY <2>1, StartEffects DEF Fresh
    <2>4. Holding(req[p])
      BY <2>1, <2>2, <2>3, HoldingKept
    <2>5. rows[a] = "running" /\ (Close(p) => a # req[p].to)
      BY <2>3, RunningKept
    <2>6. CASE At(p, "list")
      <3>1. /\ req'[p].agent = req[p].agent /\ req'[p].pc = "sweep" /\ req'[p].ret = "idle"
            /\ req'[p].todo = {b \in Agents \ {req[p].agent} :
                                 rows[b] = "running" /\ Type[b] = Type[req[p].agent]}
        BY <2>2, <2>4, <2>6, HolderStep DEF At, Sweeping, Superseding, Shapes, Shape, Registering
      <3> QED
        BY <1>3, <2>5, <3>1 DEF Losers
    <2>7. CASE Sweeping(req[p])
      <3>1. req'[p].agent = req[p].agent /\ (a = req[p].agent \/ a \in Losers(req[p]))
        BY <1>3, <2>2, <2>4, <2>5, <2>7, HolderStep DEF Complete, Settling
      <3>2. \/ Losers(req'[p]) = Losers(req[p])
            \/ Close(p) /\ Losers(req[p]) = Losers(req'[p]) \cup {req[p].to}
            \/ Losers(req[p]) = {}
        BY <2>2, <2>4, <2>7, HolderStep DEF At, Sweeping, Superseding, Shapes, Shape, Registering
      <3> QED
        BY <1>3, <2>5, <3>1, <3>2
    <2>8. CASE ~ At(p, "list") /\ ~ Sweeping(req[p])
      <3>1. /\ req'[p].agent = req[p].agent
            /\ \/ req'[p].pc = "subscribe"
               \/ /\ req'[p].ret = "idle"
                  /\ req'[p].pc = IF Singleton /\ req[p].agent \in Subbed THEN "list" ELSE "registered"
        BY <2>2, <2>4, <2>8, HolderStep
      <3>2. Shape(req'[p])
        BY ShapesNext DEF Shapes
      <3> QED
        BY <1>3, <3>1, <3>2 DEF Settling, Sweeping, Superseding, Shape, Registering
    <2> QED
      BY <2>6, <2>7, <2>8
  <1> QED
    BY <1>2, <1>3

\* The last registration wins.
LEMMA WinnerNext ==
  ASSUME TypeOK, Shapes, LockHeld, Visited, Complete, Winner, NEW p \in Procs, ProcStep(p)
  PROVE  Winner'
  <1> USE MailboxAssumption
  <1>0. \A q \in Procs : q # p => req'[q] = req[q]
    BY OthersKept
  <1> DEFINE Won(a) == \/ a = last[Type[a]]
                       \/ \E b \in torn \cap Subbed : Type[b] = Type[a]
                       \/ \E q \in Procs : lock = q /\ req[q].agent \in Subbed /\ Type[req[q].agent] = Type[a]
  <1> SUFFICES ASSUME Singleton, NEW a \in Subbed, rows'[a] = "running" PROVE Won(a)'
    BY DEF Winner, RunningSubbed
  <1>1. a \in Agents /\ (rows[a] = "running" => Won(a))
    BY DEF Winner, RunningSubbed
  <1>2. ASSUME NEW b \in Agents, Register(p, b) PROVE Won(a)'
    <2>1. req'[p].agent = b /\ lock' = p /\ lock = None /\ UNCHANGED <<last, torn>>
      BY <1>2, StartEffects DEF Fresh, Register, history
    <2>2. b = a \/ rows[a] = "running"
      BY <1>1, <1>2 DEF Register, TypeOK
    <2>3. CASE b = a
      BY <2>1, <2>3
    <2>4. CASE rows[a] = "running"
      BY <1>1, <2>1, <2>4
    <2> QED
      BY <2>2, <2>3, <2>4
  <1>3. CASE Registered(p)
    <2> DEFINE g == req[p].agent
    <2>1. At(p, "registered") /\ lock = p
      BY <1>3, StartEffects DEF LockHeld, Holding, Registering, At
    <2>2. rows[a] = "running" /\ Type[a] \in Types /\ g \in Agents
      BY <1>1, <1>3, <2>1 DEF Registered, storeVars, Types, Shapes, Shape, Registering, At
    <2>3. CASE g \in Subbed /\ Type[a] = Type[g]
      <3>1. a = g
        BY <1>1, <2>1, <2>2, <2>3 DEF Complete, Settling, Losers, At
      <3>2. last' = [last EXCEPT ![Type[g]] = g]
        BY <1>3, <2>3 DEF Registered
      <3> QED
        BY <2>2, <3>1, <3>2 DEF TypeOK
    <2>4. CASE g \in Subbed /\ Type[a] # Type[g]
      <3>1. last' = [last EXCEPT ![Type[g]] = g] /\ torn' = {b \in torn : Type[b] # Type[g]}
        BY <1>3, <2>4 DEF Registered
      <3>2. last'[Type[a]] = last[Type[a]]
        BY <2>2, <2>4, <3>1 DEF TypeOK
      <3> QED
        BY <1>1, <2>1, <2>2, <2>4, <3>1, <3>2
    <2>5. CASE g \notin Subbed
      <3>1. last' = last /\ torn' = torn \ {g}
        BY <1>3, <2>5 DEF Registered
      <3> QED
        BY <1>1, <2>1, <2>2, <2>5, <3>1
    <2> QED
      BY <2>3, <2>4, <2>5
  <1>4. CASE Abort(p)
    <2>1. rows[a] = "running" /\ last' = last
      BY <1>4 DEF Abort, storeVars
    <2>2. torn' = IF lock = p THEN torn \cup {req[p].agent} ELSE torn
      BY <1>4 DEF Abort
    <2>3. lock # p => lock' = lock
      BY <1>4 DEF Abort, Unlocked
    <2> QED
      BY <1>0, <1>1, <2>1, <2>2, <2>3
  <1>5. ASSUME \A b \in Agents : ~ Register(p, b), ~ Registered(p), ~ Abort(p) PROVE Won(a)'
    <2>1. rows[a] = "running" /\ UNCHANGED <<last, torn>>
      BY <1>1, <1>5, RunningKept, RowFrame
    <2>2. lock' = lock
      BY <1>5, HoldingKept
    <2>3. lock = p => req'[p].agent = req[p].agent
      BY <1>5, HolderStep DEF LockHeld
    <2> QED
      BY <1>0, <1>1, <2>1, <2>2, <2>3
  <1> QED
    BY <1>2, <1>3, <1>4, <1>5

\* The gate's count bounds the refusals.
LEMMA CountedNext ==
  ASSUME TypeOK, Shapes, Counted, NEW p \in Procs, ProcStep(p) PROVE Counted'
  <1>0. blocks \in [Agents -> Nat] /\ refused \in [Agents -> Nat] /\ Budget \in Nat \ {0}
    BY MailboxAssumption DEF TypeOK
  <1>1. CASE GateBlock(p)
    <2> DEFINE a == req[p].to
    <2>1. a \in Agents
      BY <1>1, StopEffects DEF Shapes, Shape, Stopping, At
    <2>2. blocks' = [blocks EXCEPT ![a] = @ + 1]
      BY <1>1 DEF GateBlock
    <2>3. \/ refused' = refused
          \/ blocks[a] + 1 < Budget /\ refused' = [refused EXCEPT ![a] = @ + 1]
      BY <1>1 DEF GateBlock
    <2> HIDE DEF a
    <2> QED
      BY <1>0, <2>1, <2>2, <2>3 DEF Counted
  <1>2. CASE StopDelivered(p) \/ StopReset(p)
    BY <1>0, <1>2 DEF StopDelivered, StopReset, Counted
  <1> QED
    BY <1>1, <1>2, RowFrame DEF Counted

-----------------------------------------------------------------------------
(* The invariant. *)

\* A step of a request keeps the types.
LEMMA TypeNext ==
  ASSUME Inv, NEW p \in Procs, ProcStep(p) PROVE TypeOK'
  <1>1. up' \in BOOLEAN
    BY RowFrame, Zenon DEF Inv, TypeOK
  <1>2. /\ rows' \in [Agents -> Statuses] /\ rowid' \in [Agents -> Nat] /\ started' \subseteq Agents
    BY TablesNext, Zenon DEF Inv
  <1>3. /\ mail' \subseteq [id : Nat, to : Addressees, org : Origins] /\ lastid' \in Nat
        /\ \A m \in mail' : m.id \in 1 .. lastid'
    BY MailNext, Zenon DEF Inv
  <1>4. relayed' \subseteq Ids(mail)' /\ unrung' \subseteq Ids(mail)' /\ unannounced' \subseteq Ids(mail)'
    BY KnownNext, Zenon DEF Inv
  <1>5. /\ subs' \subseteq Subbed /\ waiter' \in [Addressees -> Procs \cup {None}]
        /\ lock' \in Procs \cup {None} /\ torn' \subseteq Agents
        /\ last' \in [Types -> Agents \cup {None}]
    BY RegistriesNext, Zenon DEF Inv
  <1>6. /\ signal' \in [Procs -> BOOLEAN]
        /\ blocks' \in [Agents -> Nat] /\ refused' \in [Agents -> Nat]
        /\ ops' \in 0 .. MaxOps /\ faults' \in 0 .. MaxFaults
    BY CountersNext, Zenon DEF Inv
  <1>7. req' \in [Procs -> Requests]
    BY ReqTyped, Zenon DEF Inv
  <1> QED
    BY <1>1, <1>2, <1>3, <1>4, <1>5, <1>6, <1>7, Zenon DEF TypeOK

\* A step of a request keeps the invariant.
LEMMA ProcStepInv ==
  ASSUME Inv, NEW p \in Procs, ProcStep(p) PROVE Inv'
  <1>0. /\ TypeOK /\ FiniteRows /\ Shapes /\ LockHeld /\ OneId /\ OwnId /\ Waiting
        /\ RunningStarted /\ Announced /\ Visited /\ Complete /\ Winner /\ Counted
        /\ ParkNotMissed /\ StrandedIsAnnounced
    BY Zenon DEF Inv
  <1>1. TypeOK' /\ FiniteRows'
    BY TypeNext, TablesNext, <1>0, Zenon
  <1>2. Shapes' /\ LockHeld'
    BY <1>0, ShapesNext, LockHeldNext, Zenon
  <1>3. OneId' /\ OwnId' /\ Waiting'
    BY <1>0, OneIdNext, OwnIdNext, WaitingNext, Zenon
  <1>4. RunningStarted' /\ Announced' /\ Visited' /\ Complete'
    BY <1>0, RunningStartedNext, AnnouncedNext, VisitedNext, CompleteNext, Zenon
  <1>5. Winner' /\ Counted'
    BY <1>0, WinnerNext, CountedNext, Zenon
  <1>6. ParkNotMissed' /\ StrandedIsAnnounced'
    BY <1>0, ParkNotMissedNext, StrandedIsAnnouncedNext, Zenon
  <1> QED
    BY <1>1, <1>2, <1>3, <1>4, <1>5, <1>6, Zenon DEF Inv

\* An inject only takes directives away.
LEMMA InjectInv ==
  ASSUME Inv, NEW a \in Addressees, Inject(a) PROVE Inv'
  <1>1. /\ UNCHANGED <<rows, rowid, lastid, started, up, subs, waiter, signal, blocks, lock, req, ops,
                       faults, torn, last, refused>>
        /\ mail' \subseteq mail /\ unrung' \subseteq unrung
        /\ relayed' \subseteq relayed /\ unannounced' \subseteq unannounced
    BY DEF Inject, Drain, bounds
  <1>2. ASSUME NEW m \in mail'
        PROVE  /\ m.id \in unrung => m.id \in unrung'
               /\ m.id \in relayed => m.id \in relayed'
               /\ m.id \in unannounced => m.id \in unannounced'
    <2>1. m.id \notin Ids(PendingOf(a))
      BY DEF Inject, Drain, Ids, PendingOf, Inv, OneId
    <2> QED
      BY <2>1 DEF Inject, Drain
  <1>3. relayed' \subseteq Ids(mail)' /\ unrung' \subseteq Ids(mail)' /\ unannounced' \subseteq Ids(mail)'
    <2>1. relayed \subseteq Ids(mail) /\ unrung \subseteq Ids(mail) /\ unannounced \subseteq Ids(mail)
      BY DEF Inv, TypeOK
    <2> QED
      BY <2>1 DEF Inject, Drain, Ids
  <1>4. TypeOK'
    <2>1. /\ mail' \subseteq [id : Nat, to : Addressees, org : Origins]
          /\ \A m \in mail' : m.id \in 1 .. lastid'
      BY <1>1 DEF Inv, TypeOK
    <2> QED
      BY <1>1, <1>3, <2>1, Zenon DEF TypeOK, Inv
  <1>5. FiniteRows' /\ Shapes' /\ LockHeld' /\ Waiting'
    BY <1>1 DEF Inv, FiniteRows, Shapes, LockHeld, Waiting
  <1>6. OneId' /\ OwnId'
    BY <1>1 DEF Inv, OneId, OwnId, At
  <1>7. RunningStarted' /\ Announced' /\ Counted'
    BY <1>1 DEF Inv, RunningStarted, Announced, Counted, At
  <1>8. Visited' /\ Complete' /\ Winner'
    BY <1>1 DEF Inv, Visited, Complete, Winner, At, RunningSubbed
  <1>9. ParkNotMissed'
    BY <1>1, <1>2 DEF Inv, ParkNotMissed, PendingOf, At
  <1>10. StrandedIsAnnounced'
    BY <1>1, <1>2 DEF Inv, StrandedIsAnnounced, StrandedOn, PendingOf, OwesRelay
  <1> QED
    BY <1>4, <1>5, <1>6, <1>7, <1>8, <1>9, <1>10, Zenon DEF Inv

\* An idle request is in none of the places the invariant speaks of.
LEMMA IdleShape ==
  /\ Idle \in Requests /\ Shape(Idle) /\ ~ Holding(Idle) /\ ~ Sweeping(Idle) /\ ~ Settling(Idle)
  /\ Idle.pc = "idle"
  BY DEF Idle, Requests, Places, Origins, Addressees, Shape, Registering, Stopping, Awaiting, Directing,
     Holding, Superseding, Sweeping, Settling

\* After a crash the registration that held the lock counts as interrupted.
LEMMA CrashInv ==
  ASSUME Inv, Crash PROVE Inv'
  <1>0. /\ TypeOK /\ FiniteRows /\ Shapes /\ LockHeld /\ OneId /\ OwnId /\ Waiting
        /\ RunningStarted /\ Announced /\ Visited /\ Complete /\ Winner /\ Counted
    BY Zenon DEF Inv
  <1>1. /\ UNCHANGED <<rows, rowid, mail, lastid, started, ops, relayed, unannounced, last>>
        /\ \A p \in Procs : req'[p] = Idle
        /\ lock' = None /\ unrung' = {}
        /\ waiter' = [b \in Addressees |-> None]
        /\ torn \subseteq torn'
        /\ ~ up'
    BY DEF Crash, storeVars
  <1>2. ASSUME NEW p \in Procs, lock = p PROVE req[p].agent \in torn' /\ req[p].agent \in Agents
    <2>1. lock # None
      BY <1>2, MailboxAssumption
    <2>2. Holding(req[p]) /\ Shape(req[p])
      BY <1>0, <1>2 DEF LockHeld, Shapes
    <2> QED
      BY <1>2, <2>1, <2>2 DEF Crash, Holding, Superseding, Shape
  <1>3. TypeOK'
    <2>1. up' \in BOOLEAN /\ signal' \in [Procs -> BOOLEAN]
      BY Zenon DEF Crash
    <2>2. req' \in [Procs -> Requests]
      BY IdleShape DEF Crash
    <2>3. waiter' \in [Addressees -> Procs \cup {None}] /\ lock' \in Procs \cup {None}
      BY <1>1
    <2>4. blocks' \in [Agents -> Nat] /\ refused' \in [Agents -> Nat]
      BY DEF Crash
    <2>5. faults' \in 0 .. MaxFaults
      BY <1>0, MailboxAssumption DEF Crash, Fault, TypeOK
    <2>6. torn' \subseteq Agents
      <3>1. lock \in Procs \cup {None} /\ torn \subseteq Agents
        BY <1>0 DEF TypeOK
      <3> QED
        BY <3>1, <1>2 DEF Crash
    <2>7. subs' \subseteq Subbed
      BY DEF Crash
    <2> QED
      BY <1>0, <1>1, <2>1, <2>2, <2>3, <2>4, <2>5, <2>6, <2>7, Zenon DEF TypeOK
  <1>4. FiniteRows' /\ Shapes' /\ OneId'
    BY <1>0, <1>1, IdleShape DEF FiniteRows, Shapes, OneId
  <1>5. LockHeld'
    BY <1>1, IdleShape, MailboxAssumption DEF LockHeld
  <1>6. OwnId' /\ Announced' /\ Visited' /\ Complete'
    BY <1>1, IdleShape DEF OwnId, Announced, Visited, Complete, At
  <1>7. Waiting'
    BY <1>1, IdleShape, MailboxAssumption DEF Waiting
  <1>8. RunningStarted'
    <2>1. ASSUME NEW p \in Procs, At(p, "started") PROVE req[p].agent \in torn'
      <3>1. Holding(req[p])
        BY <2>1 DEF Holding, Registering, At
      <3> QED
        BY <1>0, <1>2, <3>1 DEF LockHeld
    <2> QED
      BY <1>0, <1>1, <2>1 DEF RunningStarted
  <1>9. Winner'
    BY <1>0, <1>1, <1>2 DEF Winner, RunningSubbed
  <1>10. Counted'
    BY <1>0, MailboxAssumption DEF Crash, Counted
  <1>11. ParkNotMissed' /\ StrandedIsAnnounced'
    BY <1>1, IdleShape DEF ParkNotMissed, StrandedIsAnnounced, At
  <1> QED
    BY <1>3, <1>4, <1>5, <1>6, <1>7, <1>8, <1>9, <1>10, <1>11, Zenon DEF Inv

\* The boot reconciles announce every stranded directive.
LEMMA BootInv ==
  ASSUME Inv, Boot PROVE Inv'
  <1>0. /\ TypeOK /\ FiniteRows /\ Shapes /\ LockHeld /\ OneId /\ OwnId /\ Waiting
        /\ RunningStarted /\ Announced /\ Visited /\ Complete /\ Winner /\ Counted
        /\ ParkNotMissed
    BY Zenon DEF Inv
  <1>1. /\ UNCHANGED <<rows, rowid, mail, lastid, started, waiter, signal, blocks, lock, req, ops, faults,
                       unrung, torn, last, refused>>
        /\ unannounced' = {}
        /\ relayed' = relayed \cup UNION {Ids(PendingOf(a)) : a \in StrandedAgents}
    BY DEF Boot, storeVars, bounds
  <1>2. TypeOK'
    <2>1. up' \in BOOLEAN
      BY Zenon DEF Boot
    <2>2. subs' \subseteq Subbed
      BY DEF Boot, Rebuilt, RunningSubbed
    <2>3. relayed' \subseteq Ids(mail)' /\ unannounced' \subseteq Ids(mail)'
      <3>1. relayed \subseteq Ids(mail)
        BY <1>0 DEF TypeOK
      <3> QED
        BY <1>1, <3>1 DEF Ids, PendingOf
    <2>4. Ids(mail)' = Ids(mail)
      BY <1>1 DEF Ids
    <2> QED
      BY <1>0, <1>1, <2>1, <2>2, <2>3, <2>4, Zenon DEF TypeOK
  <1>3. FiniteRows' /\ Shapes' /\ LockHeld' /\ Waiting'
    BY <1>0, <1>1 DEF FiniteRows, Shapes, LockHeld, Waiting
  <1>4. OneId' /\ OwnId' /\ ParkNotMissed'
    BY <1>0, <1>1 DEF OneId, OwnId, At, ParkNotMissed, PendingOf
  <1>5. RunningStarted' /\ Announced' /\ Counted'
    BY <1>0, <1>1 DEF RunningStarted, Announced, Counted, At
  <1>6. Visited' /\ Complete' /\ Winner'
    BY <1>0, <1>1 DEF Visited, Complete, Winner, At, RunningSubbed
  <1>7. StrandedIsAnnounced'
    <2> SUFFICES ASSUME NEW a \in Agents, rows'[a] = "done",
                        NEW m \in mail', m.to = a, m.org # "supersede"
                 PROVE  m.id \in relayed'
      BY DEF StrandedIsAnnounced, StrandedOn, PendingOf
    <2>1. m \in PendingOf(a) /\ a \in StrandedAgents
      BY <1>1 DEF StrandedAgents, StrandedOn, PendingOf
    <2> QED
      BY <1>1, <2>1 DEF Ids
  <1> QED
    BY <1>2, <1>3, <1>4, <1>5, <1>6, <1>7, <1>0, Zenon DEF Inv

\* Inv holds at first.
LEMMA InvInit == ASSUME Init PROVE Inv
  <1> USE MailboxAssumption
  <1>0. \A p \in Procs : req[p] = Idle
    BY DEF Init
  <1>1. TypeOK
    <2>1. up \in BOOLEAN /\ signal \in [Procs -> BOOLEAN]
      BY Zenon DEF Init
    <2>2. req \in [Procs -> Requests]
      BY IdleShape DEF Init
    <2>3. /\ rows \in [Agents -> Statuses] /\ rowid \in [Agents -> Nat] /\ started \subseteq Agents
          /\ blocks \in [Agents -> Nat] /\ refused \in [Agents -> Nat]
      BY DEF Init, Statuses
    <2>4. /\ mail \subseteq [id : Nat, to : Addressees, org : Origins] /\ lastid \in Nat
          /\ \A m \in mail : m.id \in 1 .. lastid
          /\ relayed \subseteq Ids(mail) /\ unrung \subseteq Ids(mail) /\ unannounced \subseteq Ids(mail)
      BY DEF Init
    <2>5. /\ subs \subseteq Subbed /\ waiter \in [Addressees -> Procs \cup {None}]
          /\ lock \in Procs \cup {None} /\ torn \subseteq Agents
          /\ last \in [Types -> Agents \cup {None}]
      BY DEF Init
    <2>6. ops \in 0 .. MaxOps /\ faults \in 0 .. MaxFaults
      BY DEF Init
    <2> QED
      BY <2>1, <2>2, <2>3, <2>4, <2>5, <2>6, Zenon DEF TypeOK
  <1>2. FiniteRows
    <2>1. {a \in Agents : rows[a] # "absent"} = {}
      BY DEF Init
    <2> QED
      BY <2>1, FS_EmptySet DEF FiniteRows
  <1>3. Shapes /\ OneId /\ OwnId /\ Announced /\ Visited /\ Complete
    BY <1>0, IdleShape DEF Init, Shapes, OneId, OwnId, Announced, Visited, Complete, At
  <1>4. LockHeld /\ Waiting
    BY <1>0, IdleShape DEF Init, LockHeld, Waiting
  <1>5. RunningStarted /\ Winner /\ Counted
    BY DEF Init, RunningStarted, Winner, Counted, RunningSubbed
  <1>6. ParkNotMissed /\ StrandedIsAnnounced
    BY <1>0, IdleShape DEF Init, ParkNotMissed, StrandedIsAnnounced, At
  <1> QED
    BY <1>1, <1>2, <1>3, <1>4, <1>5, <1>6, Zenon DEF Inv

\* Nothing changes: the invariant stays.
LEMMA StutterInv == ASSUME Inv, UNCHANGED vars PROVE Inv'
  <1>1. UNCHANGED <<rows, rowid, mail, lastid, up, subs, waiter, signal, blocks, lock, req, ops, faults,
                    started, relayed, unrung, unannounced, torn, last, refused>>
    BY DEF vars
  <1>2. TypeOK'
    BY <1>1, Zenon DEF Inv, TypeOK, Ids
  <1>3. FiniteRows' /\ Shapes' /\ LockHeld' /\ Waiting' /\ OneId' /\ OwnId'
    BY <1>1 DEF Inv, FiniteRows, Shapes, LockHeld, Waiting, OneId, OwnId, At
  <1>4. RunningStarted' /\ Announced' /\ Counted' /\ Visited' /\ Complete' /\ Winner'
    BY <1>1 DEF Inv, RunningStarted, Announced, Counted, Visited, Complete, Winner, At, RunningSubbed
  <1>5. ParkNotMissed' /\ StrandedIsAnnounced'
    BY <1>1 DEF Inv, ParkNotMissed, StrandedIsAnnounced, StrandedOn, PendingOf, OwesRelay, At
  <1> QED
    BY <1>2, <1>3, <1>4, <1>5, Zenon DEF Inv

\* Every step keeps Inv.
LEMMA InvNext == ASSUME Inv, [Next]_vars PROVE Inv'
  BY StepCases, ProcStepInv, InjectInv, CrashInv, BootInv, StutterInv

-----------------------------------------------------------------------------
(* Theorems. *)

\* The handlers keep Inv, whatever requests interleave, fail or are cut short
\* by a crash.
THEOREM MailboxInv == Spec => []Inv
  <1>1. Inv /\ [][Next]_vars => []Inv
    BY InvNext, PTL
  <1> QED
    BY InvInit, <1>1, PTL DEF Spec

\* Every variable of the agent plane keeps its type.
THEOREM MailboxTypeOK == Spec => []TypeOK
  <1>1. Inv => TypeOK
    BY DEF Inv
  <1> QED
    BY MailboxInv, <1>1, PTL

\* No await sleeps on a directive whose Direct has done its release: registering
\* the waiter before the drain (handleAgentAwait) closes the window between the
\* insert and the release, for any number of awaits and Directs at once.
THEOREM AwaitMissesNothing == Spec => []ParkNotMissed
  <1>1. Inv => ParkNotMissed
    BY DEF Inv
  <1> QED
    BY MailboxInv, <1>1, PTL

\* A directive stranded on a done agent is announced or owed: whichever of the
\* enqueue and the close comes second sees the other.
THEOREM StrandedDirectivesAreAnnounced == Spec => []StrandedIsAnnounced
  <1>1. Inv => StrandedIsAnnounced
    BY DEF Inv
  <1> QED
    BY MailboxInv, <1>1, PTL

\* registerMu around insert, list and sweep leaves one running subscriber of a
\* type, the last registered, for any number of concurrent registrations.
THEOREM LastSubscriberWins == Spec => []LastRegistrationWins
  <1>1. Inv => LastRegistrationWins
    BY MailboxAssumption DEF Inv, Winner, LastRegistrationWins
  <1> QED
    BY MailboxInv, <1>1, PTL

\* agent.started precedes the agent.stopped a sweep records: it is appended under
\* registerMu, so the sweep of a later registration finds it in the log.
THEOREM SweptWereStarted == Spec => []StartedBeforeSwept
  <1>1. ASSUME Inv, NEW p \in Procs, At(p, "stopped"), req[p].agent # req[p].to
        PROVE  req[p].to \in started \cup torn
    <2>1. req[p].ret = "sweep"
      BY <1>1 DEF Inv, Shapes, Shape, At
    <2>2. Superseding(req[p]) /\ Sweeping(req[p])
      BY <2>1 DEF Superseding, Sweeping
    <2>3. req[p].to \in Visits(req[p])
      BY <2>2 DEF Visits
    <2> QED
      BY <1>1, <2>2, <2>3 DEF Inv, Visited
  <1>2. Inv => StartedBeforeSwept
    BY <1>1 DEF StartedBeforeSwept
  <1> QED
    BY MailboxInv, <1>2, PTL

\* The stop gate refuses an agent fewer times than the budget between two stops
\* that are not refused, however many stops race for the counter.
THEOREM GateGivesWay == Spec => []RefusalsBounded
  <1>1. Inv => RefusalsBounded
    BY DEF Inv, Counted, RefusalsBounded
  <1> QED
    BY MailboxInv, <1>1, PTL
=============================================================================
