------------------------------ MODULE Lifecycle ------------------------------
(***************************************************************************)
(* A daemon process from start to exit, with the presence of one subject:  *)
(* activation (daemon/server.go), the worker group that admits streams and *)
(* dispatched calls (daemon/workers.go), the HTTP plane and its graceful   *)
(* shutdown, Drain, and Close, which closes presence and then the store.   *)
(* Presence tells what a connection does; this module lets it in.          *)
(*                                                                         *)
(* External, from how the code uses it: daemonkit runs Drain and then      *)
(* Close, also after a Drain that ran out of its budget.                   *)
(***************************************************************************)
EXTENDS Presence

CONSTANTS Calls  \* HTTP requests other than GET /events, each used once

ASSUME LifecycleAssumption == Calls \cap Conns = {}

VARIABLES
  phase,      \* where Serve is
  open,       \* the store is open
  serving,    \* Server.serving
  cancelled,  \* the serve context is cancelled
  refusing,   \* workerGroup.closed
  workers,    \* the daemon's own workers that have not returned
  shut,       \* http.Server.Shutdown has closed the listeners
  call,       \* call[d]: where the request is
  late        \* history: a deadline of the shutdown passed

lifeVars == <<phase, open, serving, cancelled, refusing, workers, shut, call, late>>
vars == <<place, left, cut, grace, closed, flag, faults, slips,
          phase, open, serving, cancelled, refusing, workers, shut, call, late>>

Phases == {"down", "opened", "reconciled", "bound", "up", "cancelled",
           "waiting", "drained", "closing", "closed"}
CallPlaces == {"new", "http", "checked", "admitted", "over"}

\* What workerGroup.active counts.
Admitted(c) == InHandler(c) /\ place[c] # "resolve"
Active == workers \cup {c \in Conns : Admitted(c)} \cup {d \in Calls : call[d] = "admitted"}

\* What http.Server.Shutdown waits for.
InFlight == {c \in Conns : InHandler(c)}
            \cup {d \in Calls : call[d] \in {"http", "checked", "admitted"}}

\* Who may touch the store, of those this repository starts and stops.  Requests
\* of the control socket (product.Handle) do too: daemonkit runs them and decides
\* when they end, before or after it calls Drain and Close.
Users == InFlight \cup Emitting \cup (workers \cap {"background"})

Accepting == "http" \in workers /\ ~ shut

-----------------------------------------------------------------------------
(* Serve. *)

Phase(from, to) == phase = from /\ phase' = to

\* activateState: the store opens.
ActivateState ==
  /\ Phase("down", "opened")
  /\ open' = TRUE
  /\ UNCHANGED <<presenceVars, serving, cancelled, refusing, workers, shut, call, late>>

\* activateServing up to the HTTP plane: the boot reconciles.
Reconcile ==
  /\ Phase("opened", "reconciled")
  /\ BootReconcile
  /\ UNCHANGED <<open, serving, cancelled, refusing, workers, shut, call, late>>

\* startHTTP: the plane is bound, its handshake published, its workers started.
StartHTTP ==
  /\ Phase("reconciled", "bound")
  /\ workers' = {"hook", "http", "shutdown"}
  /\ UNCHANGED <<presenceVars, open, serving, cancelled, refusing, shut, call, late>>

Ready ==
  /\ Phase("bound", "up")
  /\ serving' = TRUE
  /\ UNCHANGED <<presenceVars, open, cancelled, refusing, workers, shut, call, late>>

\* Mutant of Cancel: the serving flag is left up.
CancelServing ==
  /\ phase' = "cancelled"
  /\ cancelled' = TRUE
  /\ cut' = Conns
  /\ UNCHANGED <<place, left, grace, closed, flag, slips,
                 open, serving, refusing, workers, shut, call, late>>

\* Mutant of Cancel: request contexts do not derive from the serve context.
CancelServeOnly ==
  /\ phase' = "cancelled"
  /\ serving' = FALSE
  /\ cancelled' = TRUE
  /\ UNCHANGED <<place, left, cut, grace, closed, flag, slips,
                 open, refusing, workers, shut, call, late>>

\* The serve context is cancelled, and with it every request's (BaseContext).
Cancel ==
  /\ phase' = "cancelled"
  /\ serving' = FALSE
  /\ cancelled' = TRUE
  /\ cut' = Conns
  /\ UNCHANGED <<place, left, grace, closed, flag, slips,
                 open, refusing, workers, shut, call, late>>

\* settleFailedStart after an activation error, or Drain.
ActivateError == phase \in {"opened", "reconciled"} /\ Cancel /\ Fault
Drain == phase = "up" /\ Cancel /\ UNCHANGED faults

\* workerGroup.Close.
Refuse ==
  /\ Phase("cancelled", "waiting")
  /\ refusing' = TRUE
  /\ UNCHANGED <<presenceVars, open, serving, cancelled, workers, shut, call, late>>

\* workerGroup.Wait returns: everyone left, or the budget is spent.
Drained ==
  /\ Phase("waiting", "drained")
  /\ Active = {}
  /\ UNCHANGED <<presenceVars, open, serving, cancelled, refusing, workers, shut, call, late>>

DrainOverrun ==
  /\ Phase("waiting", "drained")
  /\ Active # {}
  /\ late' = TRUE
  /\ UNCHANGED <<presenceVars, open, serving, cancelled, refusing, workers, shut, call>>

\* closeAfterPresence: ClosePresence, then the wait for those emitting, then the
\* store; if the wait runs out of its budget the store is left open.
Close ==
  /\ Phase("drained", "closing")
  /\ ClosePresence
  /\ UNCHANGED <<open, serving, cancelled, refusing, workers, shut, call, late>>

\* Mutant of CloseState: the store does not wait for those emitting.
CloseStateNow ==
  /\ Phase("closing", "closed")
  /\ open' = FALSE
  /\ UNCHANGED <<presenceVars, serving, cancelled, refusing, workers, shut, call, late>>

CloseState ==
  /\ Phase("closing", "closed")
  /\ Emitting = {}
  /\ open' = FALSE
  /\ UNCHANGED <<presenceVars, serving, cancelled, refusing, workers, shut, call, late>>

LeaveOpen ==
  /\ Phase("closing", "closed")
  /\ Emitting # {}
  /\ UNCHANGED <<presenceVars, open, serving, cancelled, refusing, workers, shut, call, late>>

\* The process is gone and a new one may start.
Gone ==
  /\ Lost
  /\ phase' = "down"
  /\ open' = FALSE /\ serving' = FALSE /\ cancelled' = FALSE /\ refusing' = FALSE
  /\ workers' = {} /\ shut' = FALSE /\ late' = FALSE
  /\ call' = [d \in Calls |-> IF call[d] = "new" THEN "new" ELSE "over"]
  /\ UNCHANGED <<flag, slips>>

Exit == phase = "closed" /\ Gone /\ UNCHANGED faults
Crash == phase # "down" /\ Gone /\ Fault

-----------------------------------------------------------------------------
(* The daemon's own workers. *)

\* OnHTTPStart and a Background worker return when their context is cancelled,
\* as config.go requires of them.
WorkerReturns(w) ==
  /\ w \in workers \cap {"hook", "background"} /\ cancelled
  /\ workers' = workers \ {w}
  /\ UNCHANGED <<presenceVars, phase, open, serving, cancelled, refusing, shut, call, late>>

\* The shutdown worker closes the listeners, so serveOn returns ...
Shutdown ==
  /\ "shutdown" \in workers /\ cancelled /\ ~ shut
  /\ shut' = TRUE
  /\ workers' = workers \ {"http"}
  /\ UNCHANGED <<presenceVars, phase, open, serving, cancelled, refusing, call, late>>

\* ... and waits for the requests in flight, or for its five seconds.
ShutdownDone ==
  /\ "shutdown" \in workers /\ shut /\ InFlight = {}
  /\ workers' = workers \ {"shutdown"}
  /\ UNCHANGED <<presenceVars, phase, open, serving, cancelled, refusing, shut, call, late>>

ShutdownOverrun ==
  /\ "shutdown" \in workers /\ shut /\ InFlight # {}
  /\ workers' = workers \ {"shutdown"}
  /\ late' = TRUE
  /\ UNCHANGED <<presenceVars, phase, open, serving, cancelled, refusing, shut, call>>

-----------------------------------------------------------------------------
(* Requests. *)

\* GET /events: the subject is resolved, then the worker group asked.
EventsRequest(c) == Accepting /\ Request(c) /\ UNCHANGED lifeVars

Admit(c) == (IF refusing THEN TurnAway(c) ELSE Enter(c)) /\ UNCHANGED lifeVars

\* Any other request: an await, the roster, or a bridge that calls Dispatch.
CallTo(d, from, to) ==
  /\ call[d] = from
  /\ call' = [call EXCEPT ![d] = to]
  /\ UNCHANGED <<presenceVars, phase, open, serving, cancelled, refusing, workers, shut, late>>

HTTPRequest(d) == Accepting /\ CallTo(d, "new", "http")

\* Dispatch: the serving flag, then the worker group.
DispatchCheck(d) == serving /\ CallTo(d, "http", "checked")
DispatchAdmit(d) == CallTo(d, "checked", IF refusing THEN "http" ELSE "admitted")
DispatchReturn(d) == CallTo(d, "admitted", "http")
RequestReturn(d) == CallTo(d, "http", "over")

\* A handler hands work to Background, which panics while draining: net/http
\* recovers, the deferred release runs and the request is over.
Background(d) ==
  /\ call[d] = "admitted"
  /\ IF refusing
     THEN CallTo(d, "admitted", "over")
     ELSE /\ workers' = workers \cup {"background"}
          /\ UNCHANGED <<presenceVars, phase, open, serving, cancelled, refusing, shut, call, late>>

-----------------------------------------------------------------------------

Init ==
  /\ PresenceInit
  /\ phase = "down" /\ open = FALSE /\ serving = FALSE /\ cancelled = FALSE
  /\ refusing = FALSE /\ workers = {} /\ shut = FALSE /\ late = FALSE
  /\ call = [d \in Calls |-> "new"]

Ladder == Refuse \/ Drained \/ Close \/ CloseState \/ Exit
OwnWorkers == Shutdown \/ ShutdownDone \/ \E w \in workers : WorkerReturns(w)
StreamStep(c) == Admit(c) \/ (Stream(c) /\ UNCHANGED lifeVars)
TimerStep(c) == Timer(c) /\ UNCHANGED lifeVars
Time == Tick /\ UNCHANGED lifeVars
CallEnds(d) == DispatchAdmit(d) \/ DispatchReturn(d) \/ (cancelled /\ RequestReturn(d))

Next ==
  \/ ActivateState \/ Reconcile \/ StartHTTP \/ Ready \/ ActivateError \/ Drain
  \/ Ladder \/ DrainOverrun \/ LeaveOpen \/ OwnWorkers \/ ShutdownOverrun \/ Crash \/ Time
  \/ \E c \in Conns : \/ EventsRequest(c) \/ StreamStep(c) \/ TimerStep(c)
                      \/ (ClientGone(c) /\ UNCHANGED lifeVars)
  \/ \E d \in Calls : HTTPRequest(d) \/ DispatchCheck(d) \/ Background(d) \/ CallEnds(d)
                      \/ RequestReturn(d)

\* Goroutines keep running, handlers return once their context is cancelled, the
\* clock and the shutdown go on.  Nothing is assumed of clients, of new requests,
\* of deadlines or of the start.
Fairness ==
  /\ WF_vars(Ladder) /\ WF_vars(OwnWorkers) /\ WF_vars(Time)
  /\ \A c \in Conns : WF_vars(StreamStep(c)) /\ WF_vars(TimerStep(c))
  /\ \A d \in Calls : WF_vars(CallEnds(d))

Spec == Init /\ [][Next]_vars
FairSpec == Spec /\ Fairness

-----------------------------------------------------------------------------
(* Properties. *)

\* The part of presence, and every variable of the process holds a value of its
\* kind; calls are served only by a daemon that is up.
TypeOK ==
  /\ PresenceTypeOK
  /\ phase \in Phases
  /\ open \in BOOLEAN /\ serving \in BOOLEAN /\ cancelled \in BOOLEAN
  /\ refusing \in BOOLEAN /\ shut \in BOOLEAN /\ late \in BOOLEAN
  /\ workers \subseteq {"hook", "http", "shutdown", "background"}
  /\ call \in [Calls -> CallPlaces]
  /\ serving => phase = "up"

\* The HTTP plane is up and presence is not closing.
Present == phase \in {"bound", "up"}

\* While a consumer is attached the log says so, or is about to.  The exceptions
\* are an announcement whose append failed, and an attach, also of one that left
\* again, between the debounce's predicate and its emit, which handleEvents
\* accepts (sse.go).
ConnectedIsSaid == Present => ConnectSaid

\* While nobody is attached the log does not go on saying connected: a debounce
\* is pending that will take it back, also across the grace of a reconnect and a
\* restart of the daemon (sse.go, debounceDisconnect; connectivity.go).
DisconnectedIsSaid == Present => DisconnectSaid

\* The store is lent to its users and closed after the last one: requests,
\* admitted or not, and presence emissions (server.go, Dispatch and Close).
Lease == INSTANCE StoreLease
           WITH Users <- Conns \cup Calls \cup {"background"}, open <- open, users <- Users, late <- late
StoreLent == Lease!LeaseSpec

\* A drain ends without its deadlines: every admitted stream and call sees the
\* cancelled context, the workers return and the process exits (server.go, Drain).
DrainSettles == phase = "cancelled" ~> phase = "down"

\* When the last consumer leaves for good, the log comes to say so.
FlagSettles ==
  (Attached = {} /\ flag /\ phase = "up")
    ~> (~ flag \/ Attached # {} \/ phase # "up" \/ "disconnect" \in slips)
=============================================================================
