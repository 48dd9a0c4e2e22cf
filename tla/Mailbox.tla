------------------------------- MODULE Mailbox -------------------------------
(***************************************************************************)
(* The agent plane of the daemon, for one subject: agent rows and their    *)
(* directives in the store, the registration critical section with its     *)
(* supersede sweep, the stop gate, the await long-polls parked in          *)
(* parkRegistry, the event tee through subscriptionRegistry, and the boot  *)
(* reconciles.                                                             *)
(*                                                                         *)
(* Each request is a process.  One step is one store transaction (they are *)
(* serialized by the single connection) or one operation of an in-memory   *)
(* registry (each holds its own mutex); requests interleave between steps. *)
(* Appending an event has no effect on this state other than failing, so   *)
(* it shares a step with the operation that follows it in the same         *)
(* handler, unless a property is about its order.                          *)
(***************************************************************************)
EXTENDS Naturals, FiniteSets

CONSTANTS
  Agents,         \* registered agents
  TopLevel,       \* the top-level agent, which has no row (agent.TopLevel)
  Type,           \* Type[a]: the agent's agent_type
  Subbed,         \* the agents Config.Subscribe returns event types for
  Singleton,      \* Config.SingletonSubscriber
  Greeting,       \* whether Config.AgentGreeting is set
  Gated,          \* whether Config.AgentGate is set
  Budget,         \* agentGateBlockBudget
  Procs,          \* request goroutines
  None,           \* no process
  MaxOps,         \* bound: agent-start and agent-direct requests, teed events
  MaxFaults       \* bound: failed store calls, cancellations and crashes

ASSUME MailboxAssumption ==
  /\ TopLevel \notin Agents
  /\ Subbed \subseteq Agents
  /\ DOMAIN Type = Agents
  /\ Singleton \in BOOLEAN /\ Greeting \in BOOLEAN /\ Gated \in BOOLEAN
  /\ Budget \in Nat \ {0}
  /\ None \notin Procs
  /\ MaxOps \in Nat /\ MaxFaults \in Nat

VARIABLES
  rows,         \* agents table: "absent", "running" or "done"
  rowid,        \* agents table: insertion order, 0 when absent
  mail,         \* directives with delivered_at NULL
  lastid,       \* directives: the latest id
  up,           \* the daemon serves requests
  subs,         \* subscriptionRegistry: the subscribed agents
  waiter,       \* parkRegistry.waiters: the await registered for an addressee
  signal,       \* the cap-1 release channel of a process' park is full
  blocks,       \* gateBlockCounter
  lock,         \* the holder of registerMu
  req,          \* req[p]: the request a process is serving and where it is
  ops, faults,  \* how much of the bounds is used
  started,      \* events: agents with an agent.started
  relayed,      \* history: pending ids that an agent.relay came after
  unrung,       \* history: pending ids whose Direct failed before release
  unannounced,  \* history: pending ids whose owed agent.relay failed
  torn,         \* history: agents whose latest registration was interrupted
  last,         \* history: the agent of a type's latest completed registration
  refused       \* history: gate refusals since the last stop that was not one

storeVars == <<rows, rowid, mail, lastid, started>>
bounds == <<ops, faults>>
history == <<relayed, unrung, unannounced, torn, last, refused>>

vars == <<rows, rowid, mail, lastid, up, subs, waiter, signal, blocks, lock,
          req, ops, faults, started, relayed, unrung, unannounced, torn, last,
          refused>>

Addressees == Agents \cup {TopLevel}
Types == {Type[a] : a \in Agents}
Origins == {"human", "system", "event", "supersede", "none"}
Statuses == {"absent", "running", "done"}
Places == {"idle", "started", "subscribe", "list", "sweep", "registered",
           "enqueue", "release", "relay", "tee", "delivered", "gate", "force",
           "reset", "close", "unsub", "stopped", "peek", "reconcile",
           "drain", "parked", "final", "leave"}

\* A request: the agent it is about, the addressee of the call it is in, what
\* that call enqueues, the status the enqueue saw, agents still to visit,
\* whether the registration created the row, and where the call returns to.
Requests ==
  [pc : Places, agent : Addressees \cup {None}, to : Addressees \cup {None},
   org : Origins, id : Nat, done : BOOLEAN, todo : SUBSET Agents,
   new : BOOLEAN, ret : Places]

Idle == [pc |-> "idle", agent |-> None, to |-> None, org |-> "none", id |-> 0,
         done |-> FALSE, todo |-> {}, new |-> FALSE, ret |-> "idle"]

PendingOf(a) == {m \in mail : m.to = a}
Ids(M) == {m.id : m \in M}

\* What HasPendingDirectives and ListPendingDirectiveAgents look for.
StrandedOn(a) == {m \in PendingOf(a) : m.org # "supersede"}

At(p, place) == req[p].pc = place

\* The process continues with request r.
Go(p, r) == req' = [req EXCEPT ![p] = r]

\* The call the process is in returns.
Return(p) ==
  Go(p, IF req[p].ret = "idle" THEN Idle
        ELSE [req[p] EXCEPT !.pc = req[p].ret, !.ret = "idle", !.org = "none",
                            !.id = 0, !.done = FALSE])

\* Server.Direct is called with this directive.
Call(p, r, to, org, ret) ==
  Go(p, [r EXCEPT !.pc = "enqueue", !.to = to, !.org = org, !.ret = ret])

Fault == faults < MaxFaults /\ faults' = faults + 1

Op == ops < MaxOps /\ ops' = ops + 1
AdmitStart == up /\ Op
AdmitDirect == up /\ Op

\* DrainDirectives: everything pending for a is marked delivered.
Drain(a) ==
  /\ mail' = mail \ PendingOf(a)
  /\ relayed' = relayed \ Ids(PendingOf(a))
  /\ unrung' = unrung \ Ids(PendingOf(a))
  /\ unannounced' = unannounced \ Ids(PendingOf(a))

\* agent.relay is appended for a: its watchers learn of all a has pending.
Announce(a) ==
  /\ relayed' = relayed \cup Ids(PendingOf(a))
  /\ unannounced' = unannounced \ Ids(PendingOf(a))

\* Every variable holds a value of its kind, ids are ones the table has given
\* out, and only subscribers are in the registry.
TypeOK ==
  /\ rows \in [Agents -> Statuses]
  /\ rowid \in [Agents -> Nat]
  /\ mail \subseteq [id : Nat, to : Addressees, org : Origins]
  /\ lastid \in Nat
  /\ \A m \in mail : m.id \in 1 .. lastid
  /\ up \in BOOLEAN
  /\ subs \subseteq Subbed
  /\ waiter \in [Addressees -> Procs \cup {None}]
  /\ signal \in [Procs -> BOOLEAN]
  /\ blocks \in [Agents -> Nat]
  /\ lock \in Procs \cup {None}
  /\ req \in [Procs -> Requests]
  /\ ops \in 0 .. MaxOps
  /\ faults \in 0 .. MaxFaults
  /\ started \subseteq Agents
  /\ relayed \subseteq Ids(mail) /\ unrung \subseteq Ids(mail)
  /\ unannounced \subseteq Ids(mail)
  /\ torn \subseteq Agents
  /\ last \in [Types -> Agents \cup {None}]
  /\ refused \in [Agents -> Nat]

Init ==
  /\ rows = [a \in Agents |-> "absent"]
  /\ rowid = [a \in Agents |-> 0]
  /\ mail = {} /\ lastid = 0
  /\ up = TRUE
  /\ subs = {}
  /\ waiter = [a \in Addressees |-> None]
  /\ signal = [p \in Procs |-> FALSE]
  /\ blocks = [a \in Agents |-> 0]
  /\ lock = None
  /\ req = [p \in Procs |-> Idle]
  /\ ops = 0 /\ faults = 0
  /\ started = {} /\ relayed = {} /\ unrung = {} /\ unannounced = {}
  /\ torn = {}
  /\ last = [t \in Types |-> None]
  /\ refused = [a \in Agents |-> 0]

----------------------------------------------------------------------------
(* Server.Direct and recordAgentStopped, called by the handlers below.     *)

\* The addressees EnqueueDirective accepts.
Known == {TopLevel} \cup {a \in Agents : rows[a] # "absent"}

\* Mutant of Enqueue: the insert reuses the id of the row before it.
EnqueueSameId(p) ==
  LET r == req[p] IN
  /\ At(p, "enqueue") /\ r.to \in Known
  /\ lastid' = lastid
  /\ mail' = mail \cup {[id |-> lastid, to |-> r.to, org |-> r.org]}
  /\ Go(p, [r EXCEPT !.pc = "release", !.id = lastid,
                     !.done = r.to \in Agents /\ rows[r.to] = "done"])
  /\ UNCHANGED <<rows, rowid, started, up, subs, waiter, signal, blocks, lock,
                 bounds, history>>

\* EnqueueDirective reads the addressee's status and inserts the row in one
\* transaction; an agent that was never registered is an error.
Enqueue(p) ==
  LET r == req[p] IN
  /\ At(p, "enqueue") /\ r.to \in Known
  /\ lastid' = lastid + 1
  /\ mail' = mail \cup {[id |-> lastid + 1, to |-> r.to, org |-> r.org]}
  /\ Go(p, [r EXCEPT !.pc = "release", !.id = lastid + 1,
                     !.done = r.to \in Agents /\ rows[r.to] = "done"])
  /\ UNCHANGED <<rows, rowid, started, up, subs, waiter, signal, blocks, lock,
                 bounds, history>>

EnqueueUnknown(p) ==
  /\ At(p, "enqueue") /\ req[p].to \notin Known
  /\ Return(p)
  /\ UNCHANGED <<storeVars, up, subs, waiter, signal, blocks, lock, bounds,
                 history>>

\* Mutant of Release: the park of another addressee is released.
ReleaseTopLevel(p) ==
  /\ At(p, "release")
  /\ signal' = [q \in Procs |-> signal[q] \/ q = waiter[TopLevel]]
  /\ IF req[p].done THEN Go(p, [req[p] EXCEPT !.pc = "relay"]) ELSE Return(p)
  /\ UNCHANGED <<storeVars, up, subs, waiter, blocks, lock, bounds, history>>

\* agent.directed is appended and the addressee's park is released; a
\* directive to an agent that was done is followed by agent.relay.
Release(p) ==
  /\ At(p, "release")
  /\ signal' = [q \in Procs |-> signal[q] \/ q = waiter[req[p].to]]
  /\ IF req[p].done THEN Go(p, [req[p] EXCEPT !.pc = "relay"]) ELSE Return(p)
  /\ UNCHANGED <<storeVars, up, subs, waiter, blocks, lock, bounds, history>>

Relay(p) ==
  /\ At(p, "relay")
  /\ Announce(req[p].to)
  /\ Return(p)
  /\ UNCHANGED <<storeVars, up, subs, waiter, signal, blocks, lock, bounds,
                 unrung, torn, last, refused>>

\* agent.stopped is appended for the agent just closed.
Stopped(p) ==
  /\ At(p, "stopped")
  /\ Go(p, [req[p] EXCEPT !.pc = "peek"])
  /\ UNCHANGED <<storeVars, up, subs, waiter, signal, blocks, lock, bounds,
                 history>>

\* Mutant of Peek: the stranded peek is left out.
PeekNothing(p) ==
  /\ At(p, "peek")
  /\ Return(p)
  /\ UNCHANGED <<storeVars, up, subs, waiter, signal, blocks, lock, bounds,
                 history>>

\* A directive that landed between the drain and the close is relayed.
Peek(p) ==
  /\ At(p, "peek")
  /\ IF StrandedOn(req[p].to) # {} THEN Go(p, [req[p] EXCEPT !.pc = "relay"])
     ELSE Return(p)
  /\ UNCHANGED <<storeVars, up, subs, waiter, signal, blocks, lock, bounds,
                 history>>

----------------------------------------------------------------------------
(* handleAgentStart: registerAndSupersede, then the greeting.              *)

\* Mutant of Register: registerMu is not taken.
RegisterUnlocked(p, a) ==
  /\ At(p, "idle") /\ AdmitStart
  /\ lock' = p
  /\ rows' = [rows EXCEPT ![a] = "running"]
  /\ rowid' = [rowid EXCEPT ![a] =
       IF rows[a] = "absent" THEN Cardinality({b \in Agents : rows[b] # "absent"}) + 1
       ELSE @]
  /\ Go(p, [Idle EXCEPT !.pc = "started", !.agent = a, !.new = rows[a] = "absent"])
  /\ UNCHANGED <<mail, lastid, started, up, subs, waiter, signal, blocks,
                 faults, history>>

\* RegisterAgent under registerMu: a new row, or the old one back to running
\* in its old place.
Register(p, a) ==
  /\ At(p, "idle") /\ AdmitStart
  /\ lock = None
  /\ lock' = p
  /\ rows' = [rows EXCEPT ![a] = "running"]
  /\ rowid' = [rowid EXCEPT ![a] =
       IF rows[a] = "absent" THEN Cardinality({b \in Agents : rows[b] # "absent"}) + 1
       ELSE @]
  /\ Go(p, [Idle EXCEPT !.pc = "started", !.agent = a, !.new = rows[a] = "absent"])
  /\ UNCHANGED <<mail, lastid, started, up, subs, waiter, signal, blocks,
                 faults, history>>

\* agent.started is appended; its dedup key admits one per agent.
Started(p) ==
  /\ At(p, "started")
  /\ started' = started \cup {req[p].agent}
  /\ Go(p, [req[p] EXCEPT !.pc = "subscribe"])
  /\ UNCHANGED <<rows, rowid, mail, lastid, up, subs, waiter, signal, blocks,
                 lock, bounds, history>>

\* subscriptions.set: an agent with no types leaves the registry.
Subscribe(p) ==
  LET a == req[p].agent IN
  /\ At(p, "subscribe")
  /\ subs' = IF a \in Subbed THEN subs \cup {a} ELSE subs \ {a}
  /\ Go(p, [req[p] EXCEPT !.pc = IF Singleton /\ a \in Subbed THEN "list" ELSE "registered"])
  /\ UNCHANGED <<storeVars, up, waiter, signal, blocks, lock, bounds, history>>

\* Mutant of ListOthers: the candidates are taken from the registry.
ListOthersSubscribed(p) ==
  LET a == req[p].agent IN
  /\ At(p, "list")
  /\ Go(p, [req[p] EXCEPT !.pc = "sweep",
              !.todo = {b \in subs \ {a} : Type[b] = Type[a]}])
  /\ UNCHANGED <<storeVars, up, subs, waiter, signal, blocks, lock, bounds,
                 history>>

\* ListRunningAgentsByType, without the agent that registers.
ListOthers(p) ==
  LET a == req[p].agent IN
  /\ At(p, "list")
  /\ Go(p, [req[p] EXCEPT !.pc = "sweep",
              !.todo = {b \in Agents \ {a} : rows[b] = "running" /\ Type[b] = Type[a]}])
  /\ UNCHANGED <<storeVars, up, subs, waiter, signal, blocks, lock, bounds,
                 history>>

\* The next loser in rowid order leaves the registry and is sent the terminal
\* directive; Close comes next.
SweepNext(p, b) ==
  /\ At(p, "sweep") /\ b \in req[p].todo
  /\ \A c \in req[p].todo : rowid[b] <= rowid[c]
  /\ subs' = subs \ {b}
  /\ Call(p, [req[p] EXCEPT !.todo = @ \ {b}], b, "supersede", "close")
  /\ UNCHANGED <<storeVars, up, waiter, signal, blocks, lock, bounds, history>>

SweepDone(p) ==
  /\ At(p, "sweep") /\ req[p].todo = {}
  /\ Go(p, [req[p] EXCEPT !.pc = "registered"])
  /\ UNCHANGED <<storeVars, up, subs, waiter, signal, blocks, lock, bounds,
                 history>>

\* registerMu is released; the first registration enqueues the greeting.
Registered(p) ==
  LET a == req[p].agent IN
  /\ At(p, "registered")
  /\ lock' = None
  /\ last' = IF a \in Subbed THEN [last EXCEPT ![Type[a]] = a] ELSE last
  /\ torn' = IF Singleton /\ a \in Subbed THEN {b \in torn : Type[b] # Type[a]}
             ELSE torn \ {a}
  /\ IF req[p].new /\ Greeting THEN Call(p, req[p], a, "system", "idle")
     ELSE Go(p, Idle)
  /\ UNCHANGED <<storeVars, up, subs, waiter, signal, blocks, bounds, relayed,
                 unrung, unannounced, refused>>

----------------------------------------------------------------------------
(* handleAgentStop.                                                        *)

\* The mailbox is drained first; what it holds is delivered as a block.
Stop(p, a) ==
  /\ up /\ At(p, "idle")
  /\ Drain(a)
  /\ Go(p, [Idle EXCEPT !.pc = IF PendingOf(a) # {} THEN "delivered" ELSE "gate",
                        !.agent = a, !.to = a])
  /\ UNCHANGED <<rows, rowid, lastid, started, up, subs, waiter, signal, blocks,
                 lock, bounds, torn, last, refused>>

StopDelivered(p) ==
  /\ At(p, "delivered")
  /\ blocks' = [blocks EXCEPT ![req[p].to] = 0]
  /\ refused' = [refused EXCEPT ![req[p].to] = 0]
  /\ Go(p, Idle)
  /\ UNCHANGED <<storeVars, up, subs, waiter, signal, lock, bounds, relayed,
                 unrung, unannounced, torn, last>>

\* GetAgent finds the row and AgentGate, if there is one, allows the stop.
GateAllow(p) ==
  /\ At(p, "gate") /\ rows[req[p].to] # "absent"
  /\ Go(p, [req[p] EXCEPT !.pc = "reset"])
  /\ UNCHANGED <<storeVars, up, subs, waiter, signal, blocks, lock, bounds,
                 history>>

\* Mutant of GateBlock: the budget is compared for equality.
GateBlockExact(p) ==
  LET a == req[p].to IN
  /\ Gated /\ At(p, "gate") /\ rows[a] # "absent"
  /\ blocks' = [blocks EXCEPT ![a] = @ + 1]
  /\ IF blocks[a] + 1 # Budget
     THEN Go(p, Idle) /\ refused' = [refused EXCEPT ![a] = @ + 1]
     ELSE Go(p, [req[p] EXCEPT !.pc = "force"]) /\ UNCHANGED refused
  /\ UNCHANGED <<storeVars, up, subs, waiter, signal, lock, bounds, relayed,
                 unrung, unannounced, torn, last>>

\* AgentGate blocks: the stop is refused, or forced open once the budget is
\* spent.
GateBlock(p) ==
  LET a == req[p].to IN
  /\ Gated /\ At(p, "gate") /\ rows[a] # "absent"
  /\ blocks' = [blocks EXCEPT ![a] = @ + 1]
  /\ IF blocks[a] + 1 < Budget
     THEN Go(p, Idle) /\ refused' = [refused EXCEPT ![a] = @ + 1]
     ELSE Go(p, [req[p] EXCEPT !.pc = "force"]) /\ UNCHANGED refused
  /\ UNCHANGED <<storeVars, up, subs, waiter, signal, lock, bounds, relayed,
                 unrung, unannounced, torn, last>>

\* GetAgent finds no row: the handler answers with an error.
GateUnknown(p) ==
  /\ At(p, "gate") /\ rows[req[p].to] = "absent"
  /\ Go(p, Idle)
  /\ UNCHANGED <<storeVars, up, subs, waiter, signal, blocks, lock, bounds,
                 history>>

\* The stop goes ahead, after agent.forced_allow when it was forced.
StopReset(p) ==
  /\ At(p, "reset") \/ At(p, "force")
  /\ blocks' = [blocks EXCEPT ![req[p].to] = 0]
  /\ refused' = [refused EXCEPT ![req[p].to] = 0]
  /\ Go(p, [req[p] EXCEPT !.pc = "close"])
  /\ UNCHANGED <<storeVars, up, subs, waiter, signal, lock, bounds, relayed,
                 unrung, unannounced, torn, last>>

\* CloseAgent, for a stop and for a sweep.  The one that makes the transition
\* goes on to record it; a sweep has already dropped the subscription.
Close(p) ==
  LET b == req[p].to
      sweeping == req[p].agent # b IN
  /\ At(p, "close")
  /\ IF rows[b] = "running"
     THEN /\ rows' = [rows EXCEPT ![b] = "done"]
          /\ Go(p, [req[p] EXCEPT !.pc = IF sweeping THEN "stopped" ELSE "unsub",
                                  !.ret = IF sweeping THEN "sweep" ELSE "idle"])
     ELSE /\ UNCHANGED rows
          /\ Go(p, IF sweeping THEN [req[p] EXCEPT !.pc = "sweep"] ELSE Idle)
  /\ UNCHANGED <<rowid, mail, lastid, started, up, subs, waiter, signal, blocks,
                 lock, bounds, history>>

Unsubscribe(p) ==
  /\ At(p, "unsub")
  /\ subs' = subs \ {req[p].to}
  /\ Go(p, [req[p] EXCEPT !.pc = "stopped"])
  /\ UNCHANGED <<storeVars, up, waiter, signal, blocks, lock, bounds, history>>

----------------------------------------------------------------------------
(* handleAgentDirect, handleAgentInject, the tee and the reconcile.        *)

Direct(p, a) ==
  /\ At(p, "idle") /\ AdmitDirect
  /\ Call(p, [Idle EXCEPT !.agent = a], a, "human", "idle")
  /\ UNCHANGED <<storeVars, up, subs, waiter, signal, blocks, lock,
                 faults, history>>

\* The drain is answered in the same request.
Inject(a) ==
  /\ up /\ PendingOf(a) # {}
  /\ Drain(a)
  /\ UNCHANGED <<rows, rowid, lastid, started, up, subs, waiter, signal, blocks,
                 lock, req, bounds, torn, last, refused>>

\* An event of a subscribed type and not of agent origin is appended:
\* teeToSubscribers takes its snapshot of the registry.
AppendTeed(p) ==
  /\ At(p, "idle") /\ subs # {} /\ AdmitDirect
  /\ Go(p, [Idle EXCEPT !.pc = "tee", !.todo = subs])
  /\ UNCHANGED <<storeVars, up, subs, waiter, signal, blocks, lock,
                 faults, history>>

TeeNext(p, b) ==
  /\ At(p, "tee") /\ b \in req[p].todo
  /\ Call(p, [req[p] EXCEPT !.todo = @ \ {b}], b, "event", "tee")
  /\ UNCHANGED <<storeVars, up, subs, waiter, signal, blocks, lock, bounds,
                 history>>

TeeDone(p) ==
  /\ At(p, "tee") /\ req[p].todo = {}
  /\ Go(p, Idle)
  /\ UNCHANGED <<storeVars, up, subs, waiter, signal, blocks, lock, bounds,
                 history>>

StrandedAgents == {a \in Agents : rows[a] = "done" /\ StrandedOn(a) # {}}

\* handleAgentReconcile lists the done agents with stranded directives, then
\* appends agent.relay for each.
Reconcile(p) ==
  /\ up /\ At(p, "idle") /\ StrandedAgents # {}
  /\ Go(p, [Idle EXCEPT !.pc = "reconcile", !.todo = StrandedAgents])
  /\ UNCHANGED <<storeVars, up, subs, waiter, signal, blocks, lock, bounds,
                 history>>

ReconcileNext(p, a) ==
  /\ At(p, "reconcile") /\ a \in req[p].todo
  /\ Announce(a)
  /\ Go(p, IF req[p].todo = {a} THEN Idle ELSE [req[p] EXCEPT !.todo = @ \ {a}])
  /\ UNCHANGED <<storeVars, up, subs, waiter, signal, blocks, lock, bounds,
                 unrung, torn, last, refused>>

----------------------------------------------------------------------------
(* handleAgentAwait and parkRegistry.                                      *)

\* Mutant of AwaitPark: a displaced waiter is not signalled.
AwaitParkQuiet(p, a) ==
  /\ up /\ At(p, "idle")
  /\ waiter' = [waiter EXCEPT ![a] = p]
  /\ signal' = [signal EXCEPT ![p] = FALSE]
  /\ Go(p, [Idle EXCEPT !.pc = "drain", !.agent = a, !.to = a])
  /\ UNCHANGED <<storeVars, up, subs, blocks, lock, bounds, history>>

\* parks.wait: the await becomes the waiter; the one it displaces is woken.
AwaitPark(p, a) ==
  /\ up /\ At(p, "idle")
  /\ waiter' = [waiter EXCEPT ![a] = p]
  /\ signal' = [q \in Procs |-> IF q = p THEN FALSE ELSE signal[q] \/ q = waiter[a]]
  /\ Go(p, [Idle EXCEPT !.pc = "drain", !.agent = a, !.to = a])
  /\ UNCHANGED <<storeVars, up, subs, blocks, lock, bounds, history>>

AwaitDrain(p) ==
  /\ At(p, "drain")
  /\ Drain(req[p].to)
  /\ Go(p, [req[p] EXCEPT !.pc = IF PendingOf(req[p].to) # {} THEN "leave" ELSE "parked"])
  /\ UNCHANGED <<rows, rowid, lastid, started, up, subs, waiter, signal, blocks,
                 lock, bounds, torn, last, refused>>

\* The select takes the release.
AwaitWake(p) ==
  /\ At(p, "parked") /\ signal[p]
  /\ signal' = [signal EXCEPT ![p] = FALSE]
  /\ Go(p, [req[p] EXCEPT !.pc = "final"])
  /\ UNCHANGED <<storeVars, up, subs, waiter, blocks, lock, bounds, history>>

AwaitTimeout(p) ==
  /\ At(p, "parked")
  /\ Go(p, [req[p] EXCEPT !.pc = "final"])
  /\ UNCHANGED <<storeVars, up, subs, waiter, signal, blocks, lock, bounds,
                 history>>

\* The client goes away.
AwaitCancel(p) ==
  /\ At(p, "parked")
  /\ Go(p, [req[p] EXCEPT !.pc = "leave"])
  /\ UNCHANGED <<storeVars, up, subs, waiter, signal, blocks, lock, bounds,
                 history>>

\* After a release or the timeout the mailbox is drained again.
AwaitFinal(p) ==
  /\ At(p, "final")
  /\ Drain(req[p].to)
  /\ Go(p, [req[p] EXCEPT !.pc = "leave"])
  /\ UNCHANGED <<rows, rowid, lastid, started, up, subs, waiter, signal, blocks,
                 lock, bounds, torn, last, refused>>

\* parks.done removes the park if no newer await has taken it, and the
\* channel is garbage.
Unpark(p) ==
  /\ waiter' = [a \in Addressees |-> IF waiter[a] = p THEN None ELSE waiter[a]]
  /\ signal' = [signal EXCEPT ![p] = FALSE]

\* The response is written and the deferred parks.done runs.
AwaitLeave(p) ==
  /\ At(p, "leave")
  /\ Unpark(p)
  /\ Go(p, Idle)
  /\ UNCHANGED <<storeVars, up, subs, blocks, lock, bounds, history>>

----------------------------------------------------------------------------
(* Failures.                                                               *)

StorePlaces == {"started", "list", "enqueue", "release", "relay", "stopped",
                "peek", "gate", "force", "close", "reconcile", "drain", "final"}

\* A relay is owed to what this request closed or enqueued.
OwesRelay(p, a) ==
  /\ req[p].to = a
  /\ \/ req[p].pc \in {"unsub", "stopped", "peek", "relay"}
     \/ req[p].pc = "release" /\ req[p].done

\* Mutant of Unlocked: the unlock is not deferred.
LeftLocked(p) == lock

\* The deferred registerMu.Unlock, of a request that may hold it.
Unlocked(p) == IF lock = p THEN None ELSE lock

\* The next store call fails, or the request's context is cancelled.  The tee
\* logs it and goes on; every other handler returns, with its deferred unlock
\* and parks.done.
Abort(p) ==
  LET r == req[p]
      teeing == r.ret = "tee" IN
  /\ Fault
  /\ r.pc \in StorePlaces
  /\ IF teeing THEN Return(p) ELSE Go(p, Idle)
  /\ unrung' = IF r.pc = "release" THEN unrung \cup ({r.id} \cap Ids(mail)) ELSE unrung
  /\ unannounced' = IF OwesRelay(p, r.to)
                    THEN unannounced \cup Ids(StrandedOn(r.to)) ELSE unannounced
  /\ lock' = Unlocked(p)
  /\ torn' = IF lock = p THEN torn \cup {r.agent} ELSE torn
  /\ Unpark(p)
  /\ UNCHANGED <<storeVars, up, subs, blocks, ops, relayed, last, refused>>

\* The daemon dies: the registries are gone, the tables stay.
Crash ==
  /\ Fault /\ up
  /\ up' = FALSE
  /\ req' = [p \in Procs |-> Idle]
  /\ subs' = {}
  /\ waiter' = [a \in Addressees |-> None]
  /\ signal' = [p \in Procs |-> FALSE]
  /\ blocks' = [a \in Agents |-> 0]
  /\ lock' = None
  /\ torn' = IF lock = None THEN torn ELSE torn \cup {req[lock].agent}
  /\ unrung' = {}
  /\ refused' = [a \in Agents |-> 0]
  /\ UNCHANGED <<storeVars, ops, relayed, unannounced, last>>

RunningSubbed == {a \in Subbed : rows[a] = "running"}

\* reconcileSubscriptions: the running subscribers, in singleton mode only
\* the one of each type with the greatest rowid.
Rebuilt ==
  {a \in RunningSubbed :
     Singleton => \A b \in RunningSubbed : Type[b] = Type[a] => rowid[b] <= rowid[a]}

\* reconcileDirectives and reconcileSubscriptions run before any request.
Boot ==
  /\ ~up
  /\ up' = TRUE
  /\ subs' = Rebuilt
  /\ relayed' = relayed \cup UNION {Ids(PendingOf(a)) : a \in StrandedAgents}
  /\ unannounced' = {}
  /\ UNCHANGED <<storeVars, waiter, signal, blocks, lock, req, bounds, unrung,
                 torn, last, refused>>

----------------------------------------------------------------------------
\* What a request does next by itself.
Progress(p) ==
  \/ Enqueue(p) \/ EnqueueUnknown(p) \/ Release(p) \/ Relay(p)
  \/ Stopped(p) \/ Peek(p)
  \/ Started(p) \/ Subscribe(p) \/ ListOthers(p) \/ SweepDone(p) \/ Registered(p)
  \/ \E b \in Agents : SweepNext(p, b) \/ TeeNext(p, b) \/ ReconcileNext(p, b)
  \/ StopDelivered(p) \/ GateAllow(p) \/ GateBlock(p) \/ GateUnknown(p)
  \/ StopReset(p) \/ Close(p) \/ Unsubscribe(p)
  \/ TeeDone(p)
  \/ AwaitDrain(p) \/ AwaitWake(p) \/ AwaitFinal(p) \/ AwaitLeave(p)

\* A request arrives.
Arrive(p) ==
  \/ \E a \in Agents : Register(p, a) \/ Stop(p, a)
  \/ \E a \in Addressees : Direct(p, a) \/ AwaitPark(p, a)
  \/ AppendTeed(p)
  \/ Reconcile(p)

Next ==
  \/ \E p \in Procs : \/ Progress(p) \/ Arrive(p) \/ Abort(p)
                      \/ AwaitTimeout(p) \/ AwaitCancel(p)
  \/ \E a \in Addressees : Inject(a)
  \/ Crash
  \/ Boot

Spec == Init /\ [][Next]_vars

\* A request that can go on does; nothing is assumed of timeouts, of clients
\* going away, or of requests arriving.
FairSpec == Spec /\ \A p \in Procs : WF_vars(Progress(p))

----------------------------------------------------------------------------
(* Properties.                                                             *)

\* An await parked with an empty release channel misses nothing: whatever is
\* pending for it, the Direct that enqueued it is still about to release the
\* park, or failed before it could (handleAgentAwait, parkRegistry).
ParkNotMissed ==
  \A p \in Procs : At(p, "parked") /\ ~signal[p] =>
    \A m \in PendingOf(req[p].to) :
      m.id \in unrung \/ \E q \in Procs : At(q, "release") /\ req[q].id = m.id

\* A directive left undelivered on a done agent has been announced by an
\* agent.relay, or the request that closed the agent or enqueued the directive
\* still owes it, or failed before it could.
StrandedIsAnnounced ==
  up => \A a \in Agents : rows[a] = "done" =>
    \A m \in StrandedOn(a) :
      \/ m.id \in relayed \cup unannounced
      \/ \E p \in Procs : OwesRelay(p, a)

\* In singleton mode, once no registration is under way only the latest
\* registered subscriber of a type is running, unless a registration of that
\* type was interrupted and none has completed since (registerAndSupersede).
LastRegistrationWins ==
  Singleton /\ lock = None =>
    \A a \in RunningSubbed :
      a = last[Type[a]] \/ \E b \in torn : Type[b] = Type[a]

\* A sweep records agent.stopped only for an agent whose agent.started is in
\* the log already, unless its registration was interrupted before that.
StartedBeforeSwept ==
  \A p \in Procs : At(p, "stopped") /\ req[p].agent # req[p].to =>
    req[p].to \in started \cup torn

\* Between two stops that are not refused, an agent is refused fewer times
\* than the budget, whatever stops run at once and whichever of them fail.
RefusalsBounded == \A a \in Agents : refused[a] < Budget

\* The registry mirrors the agents table whenever no request is under way.
RegistryMirrorsAgents ==
  up /\ torn = {} /\ (\A p \in Procs : At(p, "idle")) =>
    subs = RunningSubbed

\* A parked await with something pending leaves its park without waiting for
\* the timeout.
PromptRelease ==
  \A p \in Procs, a \in Addressees :
    (At(p, "parked") /\ req[p].to = a /\ Ids(PendingOf(a)) \ unrung # {})
      ~> (~At(p, "parked") \/ Ids(PendingOf(a)) \ unrung = {})

\* registerMu is always released.
RegistrationCompletes == \A p \in Procs : lock = p ~> lock # p
=============================================================================
