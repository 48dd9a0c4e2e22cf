----------------------------- MODULE EventPlane -----------------------------
(***************************************************************************)
(* The path of an event from daemon.Server.Append to a consumer's handler, *)
(* for one subject: the store's append transaction on the single database  *)
(* connection, the Bus that wakes streams, the /events handler of package  *)
(* sse that replays and tails the log, and the client loop of package      *)
(* consume with its persisted cursor.                                      *)
(*                                                                         *)
(* The daemon's goroutines interleave at every point where they do not     *)
(* hold a lock or the connection.  Connections drop, handlers and cursor   *)
(* writes fail, the daemon dies and comes back on the same port or on      *)
(* another one, and a consumer dies and restarts from its cursor file.     *)
(*                                                                         *)
(* Assumed of the deployment: one process at a time uses a cursor file.    *)
(* The code does not enforce it: the channel's file is named by subject    *)
(* and consumer name only, so two windows on a subject write the same one, *)
(* each the cursor of its own stream, and the later write stands.          *)
(***************************************************************************)
EXTENDS EventLog, Sequences

CONSTANTS
  Writers,        \* goroutines inside daemon.Server.Append
  Consumers,      \* named consumers, each running consume.ConsumeEvents
  Exclude,        \* Exclude[c]: the origin c's stream drops, or NoOrigin
  NoOrigin,       \* exclude_origin is not set
  Ports,          \* ports the HTTP plane may listen on
  Free,           \* nobody holds the database connection
  QueryFaults,    \* whether a stream's query may fail
  AlienServers,   \* whether another program may answer 4xx on a stale port
  MaxSeq,         \* bound: rows in the log
  MaxFaults,      \* bound: crashes, drops and failures in a behaviour
  MaxWire         \* bound: frames in flight when a frame is injected

ASSUME ConstantsAssumption ==
  /\ Exclude \in [Consumers -> Origins \cup {NoOrigin}]
  /\ NoOrigin \notin Origins
  /\ Free \notin Writers
  /\ QueryFaults \in BOOLEAN
  /\ AlienServers \in BOOLEAN
  /\ MaxSeq \in Nat /\ MaxFaults \in Nat /\ MaxWire \in Nat

VARIABLES
  log,        \* durable: the subject's rows
  disk,       \* durable: c's cursor file, written by c alone; 0 when absent
  up,         \* the daemon serves HTTP
  port,       \* the port of the handshake file
  db,         \* who holds the connection across a transaction, or Free
  wpc,        \* writer: "idle", "tx", "committed", "sending"
  wev,        \* writer: the event being appended
  wseq,       \* writer: the sequence number AppendEvent returns
  wto,        \* writer: subscriptions of Publish's snapshot not yet signalled
  spc,        \* stream: "none", "open", "query", "emit", "live"
  scur,       \* stream: the handler's cursor
  srows,      \* stream: rows of the last query not yet written
  scaught,    \* stream: the caught-up marker has been written
  wake,       \* stream: the cap-1 wakeup channel of its subscription is full
  inj,        \* stream: its cap-1 inject channel is full
  muted,      \* what MuteFrame answers for the stream's consumer
  cpc,        \* client: "off", "dial", "stream", "ended", "failed"
  ccur,       \* client: the cursor in memory
  cport,      \* client: the port it dials
  cfatal,     \* client: readStream returned a fatal error
  wire,       \* frames written to the connection and not yet read
  faults,     \* crashes, drops and failures so far
  handled,    \* history: rows c's handler accepted
  withheld,   \* history: rows MuteFrame withheld from c
  lagged,     \* history: a handled row's cursor did not reach c's file
  qfail       \* history: the stream's latest query failed

logVars == <<log, db, wpc, wev, wseq, wto>>
streamVars == <<spc, scur, srows, scaught, wake, inj, qfail>>
clientVars == <<disk, cpc, ccur, cport, cfatal, handled, lagged>>
daemonVars == <<up, port>>

vars == <<log, disk, up, port, db, wpc, wev, wseq, wto, spc, scur, srows,
          scaught, wake, inj, muted, cpc, ccur, cport, cfatal, wire, faults,
          handled, withheld, lagged, qfail>>

EventFrame(n) == [kind |-> "event", id |-> n]
CaughtUpFrame == [kind |-> "caughtup", id |-> 0]
InjectFrame == [kind |-> "inject", id |-> 0]
Frames == [kind : {"event", "caughtup", "inject"}, id : Nat]

NoEvent == [origin |-> NoOrigin, presence |-> FALSE, key |-> NoKey, big |-> FALSE]

\* Mutant of Subscribers: subscribing after the replay instead of before it.
SubscribersLate == {c \in Consumers : scaught[c]}

\* Bus.subs: a stream is subscribed from before its first query until its
\* handler returns.
Subscribers == {c \in Consumers : spc[c] \in {"query", "emit", "live"}}

Fault == faults < MaxFaults /\ faults' = faults + 1

WriterTypes ==
  /\ DOMAIN log \subseteq Nat /\ \A s \in DOMAIN log : log[s] \in Events
  /\ up \in BOOLEAN /\ port \in Ports
  /\ db \in Writers \cup {Free}
  /\ wpc \in [Writers -> {"idle", "tx", "committed", "sending"}]
  /\ wev \in [Writers -> Events \cup {NoEvent}]
  /\ wseq \in [Writers -> Nat]
  /\ wto \in [Writers -> SUBSET Consumers]

StreamTypes ==
  /\ spc \in [Consumers -> {"none", "open", "query", "emit", "live"}]
  /\ scur \in [Consumers -> Nat]
  /\ srows \in [Consumers -> SUBSET Nat]
  /\ scaught \in [Consumers -> BOOLEAN]
  /\ wake \in [Consumers -> BOOLEAN]
  /\ inj \in [Consumers -> BOOLEAN]
  /\ qfail \in [Consumers -> BOOLEAN]

ClientTypes ==
  /\ disk \in [Consumers -> Nat]
  /\ muted \in [Consumers -> BOOLEAN]
  /\ cpc \in [Consumers -> {"off", "dial", "stream", "ended", "failed"}]
  /\ ccur \in [Consumers -> Nat]
  /\ cport \in [Consumers -> Ports]
  /\ cfatal \in [Consumers -> BOOLEAN]
  /\ wire \in [Consumers -> Seq(Frames)]
  /\ faults \in 0 .. MaxFaults
  /\ handled \in [Consumers -> SUBSET Nat]
  /\ withheld \in [Consumers -> SUBSET Nat]
  /\ lagged \in [Consumers -> BOOLEAN]

\* Every variable holds a value of its kind.
TypeOK == WriterTypes /\ StreamTypes /\ ClientTypes

Init ==
  /\ log = << >>
  /\ disk = [c \in Consumers |-> 0]
  /\ up = TRUE /\ port \in Ports
  /\ db = Free
  /\ wpc = [w \in Writers |-> "idle"]
  /\ wev = [w \in Writers |-> NoEvent]
  /\ wseq = [w \in Writers |-> 0]
  /\ wto = [w \in Writers |-> {}]
  /\ spc = [c \in Consumers |-> "none"]
  /\ scur = [c \in Consumers |-> 0]
  /\ srows = [c \in Consumers |-> {}]
  /\ scaught = [c \in Consumers |-> FALSE]
  /\ wake = [c \in Consumers |-> FALSE]
  /\ inj = [c \in Consumers |-> FALSE]
  /\ muted = [c \in Consumers |-> FALSE]
  /\ cpc = [c \in Consumers |-> "off"]
  /\ ccur = [c \in Consumers |-> 0]
  /\ cport = [c \in Consumers |-> port]
  /\ cfatal = [c \in Consumers |-> FALSE]
  /\ wire = [c \in Consumers |-> << >>]
  /\ faults = 0
  /\ handled = [c \in Consumers |-> {}]
  /\ withheld = [c \in Consumers |-> {}]
  /\ lagged = [c \in Consumers |-> FALSE]
  /\ qfail = [c \in Consumers |-> FALSE]

----------------------------------------------------------------------------
(* Writers: daemon.Server.Append.  Its last call, teeToSubscribers, only   *)
(* enqueues directives and appends further events of its own, which are    *)
(* further turns of the same writer.                                       *)

\* Mutant of AppendAllocate: the transaction does not keep other appends off
\* the database (a second connection in the pool).
AppendAllocateShared(w, e) ==
  /\ up /\ wpc[w] = "idle" /\ LastSeq(log) < MaxSeq /\ DedupHits(log, e) = {}
  /\ wpc' = [wpc EXCEPT ![w] = "tx"]
  /\ wev' = [wev EXCEPT ![w] = e]
  /\ wseq' = [wseq EXCEPT ![w] = NextSeq(log)]
  /\ UNCHANGED <<log, db, wto, daemonVars, streamVars, muted, clientVars, wire,
                 faults, withheld>>

\* AppendEvent begins its transaction, so it now owns the connection; the
\* dedup lookup misses and the next sequence number is read.
AppendAllocate(w, e) ==
  /\ up /\ wpc[w] = "idle" /\ db = Free
  /\ LastSeq(log) < MaxSeq
  /\ DedupHits(log, e) = {}
  /\ db' = w
  /\ wpc' = [wpc EXCEPT ![w] = "tx"]
  /\ wev' = [wev EXCEPT ![w] = e]
  /\ wseq' = [wseq EXCEPT ![w] = NextSeq(log)]
  /\ UNCHANGED <<log, wto, daemonVars, streamVars, muted, clientVars, wire,
                 faults, withheld>>

\* The key is already in the log: the transaction rolls back, AppendEvent
\* returns the existing row, and Append goes on to publish.
AppendDedup(w, e) ==
  /\ up /\ wpc[w] = "idle" /\ db = Free
  /\ \E s \in DedupHits(log, e) : wseq' = [wseq EXCEPT ![w] = s]
  /\ wpc' = [wpc EXCEPT ![w] = "committed"]
  /\ wev' = [wev EXCEPT ![w] = e]
  /\ UNCHANGED <<log, db, wto, daemonVars, streamVars, muted, clientVars, wire,
                 faults, withheld>>

\* INSERT and COMMIT succeed; the connection goes back to the pool.
AppendCommit(w) ==
  /\ wpc[w] = "tx"
  /\ log' = Insert(log, wseq[w], wev[w])
  /\ db' = Free
  /\ wpc' = [wpc EXCEPT ![w] = "committed"]
  /\ UNCHANGED <<wev, wseq, wto, daemonVars, streamVars, muted, clientVars,
                 wire, faults, withheld>>

\* A statement or the commit fails: the deferred Rollback undoes everything
\* and Append returns before publishing.
AppendError(w) ==
  /\ Fault
  /\ wpc[w] = "tx"
  /\ db' = Free
  /\ wpc' = [wpc EXCEPT ![w] = "idle"]
  /\ wev' = [wev EXCEPT ![w] = NoEvent]
  /\ wseq' = [wseq EXCEPT ![w] = 0]
  /\ UNCHANGED <<log, wto, daemonVars, streamVars, muted, clientVars, wire,
                 withheld>>

\* Bus.Publish takes its snapshot of the subscriptions under the lock.
Publish(w) ==
  /\ wpc[w] = "committed"
  /\ wpc' = [wpc EXCEPT ![w] = "sending"]
  /\ wto' = [wto EXCEPT ![w] = Subscribers]
  /\ UNCHANGED <<log, db, wev, wseq, daemonVars, streamVars, muted, clientVars,
                 wire, faults, withheld>>

\* One non-blocking send of Publish: a full channel already holds the edge.
Signal(w, c) ==
  /\ wpc[w] = "sending" /\ c \in wto[w]
  /\ wto' = [wto EXCEPT ![w] = @ \ {c}]
  /\ wake' = [wake EXCEPT ![c] = TRUE]
  /\ UNCHANGED <<log, db, wpc, wev, wseq, daemonVars, spc, scur, srows, scaught,
                 inj, qfail, muted, clientVars, wire, faults, withheld>>

\* Every subscription is signalled: Append returns the sequence number.
AppendReturn(w) ==
  /\ wpc[w] = "sending" /\ wto[w] = {}
  /\ wpc' = [wpc EXCEPT ![w] = "idle"]
  /\ wev' = [wev EXCEPT ![w] = NoEvent]
  /\ wseq' = [wseq EXCEPT ![w] = 0]
  /\ UNCHANGED <<log, db, wto, daemonVars, streamVars, muted, clientVars, wire,
                 faults, withheld>>

----------------------------------------------------------------------------
(* Streams: sse.Server.handleEvents for the consumer's current connection. *)

\* The handlers of S return: their subscriptions are cancelled, so a Publish
\* still holding one of them in its snapshot signals a channel nobody reads.
StreamsEnd(S) ==
  /\ spc' = [c \in Consumers |-> IF c \in S THEN "none" ELSE spc[c]]
  /\ scur' = [c \in Consumers |-> IF c \in S THEN 0 ELSE scur[c]]
  /\ srows' = [c \in Consumers |-> IF c \in S THEN {} ELSE srows[c]]
  /\ scaught' = [c \in Consumers |-> IF c \in S THEN FALSE ELSE scaught[c]]
  /\ wake' = [c \in Consumers |-> IF c \in S THEN FALSE ELSE wake[c]]
  /\ inj' = [c \in Consumers |-> IF c \in S THEN FALSE ELSE inj[c]]
  /\ qfail' = [c \in Consumers |-> IF c \in S THEN FALSE ELSE qfail[c]]

\* The handler subscribes before its first query.
Subscribe(c) ==
  /\ spc[c] = "open"
  /\ spc' = [spc EXCEPT ![c] = "query"]
  /\ UNCHANGED <<logVars, daemonVars, scur, srows, scaught, wake, inj, qfail,
                 muted, clientVars, wire, faults, withheld>>

\* The select takes the wakeup out of the channel and enters flushSince.
TakeSignal(c) ==
  /\ spc[c] = "live" /\ wake[c]
  /\ wake' = [wake EXCEPT ![c] = FALSE]
  /\ spc' = [spc EXCEPT ![c] = "query"]
  /\ UNCHANGED <<logVars, daemonVars, scur, srows, scaught, inj, qfail, muted,
                 clientVars, wire, faults, withheld>>

\* flushSince runs its one query once the connection is free.
Query(c) ==
  /\ spc[c] = "query" /\ db = Free
  /\ srows' = [srows EXCEPT ![c] = EventsSince(log, scur[c], Exclude[c])]
  /\ qfail' = [qfail EXCEPT ![c] = FALSE]
  /\ spc' = [spc EXCEPT ![c] = "emit"]
  /\ UNCHANGED <<logVars, daemonVars, scur, scaught, wake, inj, muted,
                 clientVars, wire, faults, withheld>>

\* The query fails: flushSince returns the cursor it was given, silently.
QueryError(c) ==
  /\ QueryFaults /\ Fault
  /\ spc[c] = "query"
  /\ qfail' = [qfail EXCEPT ![c] = TRUE]
  /\ spc' = [spc EXCEPT ![c] = "emit"]
  /\ UNCHANGED <<logVars, daemonVars, scur, srows, scaught, wake, inj, muted,
                 clientVars, wire, withheld>>

\* Mutant of EmitRow: the query lost its ORDER BY seq ASC.
EmitRowUnordered(c, n) ==
  /\ spc[c] = "emit" /\ n \in srows[c]
  /\ srows' = [srows EXCEPT ![c] = @ \ {n}]
  /\ scur' = [scur EXCEPT ![c] = n]
  /\ wire' = IF log[n].presence \/ muted[c] THEN wire
             ELSE [wire EXCEPT ![c] = Append(@, EventFrame(n))]
  /\ withheld' = IF muted[c] /\ ~log[n].presence
                 THEN [withheld EXCEPT ![c] = @ \cup {n}] ELSE withheld
  /\ UNCHANGED <<logVars, daemonVars, spc, scaught, wake, inj, qfail, muted,
                 clientVars, faults>>

\* flushSince takes the oldest row it has left: the cursor moves past it, and
\* the frame is written unless the presence filter or MuteFrame drops it.
EmitRow(c, n) ==
  /\ spc[c] = "emit" /\ n \in srows[c] /\ \A m \in srows[c] : n <= m
  /\ srows' = [srows EXCEPT ![c] = @ \ {n}]
  /\ scur' = [scur EXCEPT ![c] = n]
  /\ wire' = IF log[n].presence \/ muted[c] THEN wire
             ELSE [wire EXCEPT ![c] = Append(@, EventFrame(n))]
  /\ withheld' = IF muted[c] /\ ~log[n].presence
                 THEN [withheld EXCEPT ![c] = @ \cup {n}] ELSE withheld
  /\ UNCHANGED <<logVars, daemonVars, spc, scaught, wake, inj, qfail, muted,
                 clientVars, faults>>

\* flushSince returns; the first time, the handler marks the end of replay.
FlushDone(c) ==
  /\ spc[c] = "emit" /\ srows[c] = {}
  /\ spc' = [spc EXCEPT ![c] = "live"]
  /\ scaught' = [scaught EXCEPT ![c] = TRUE]
  /\ wire' = IF scaught[c] THEN wire
             ELSE [wire EXCEPT ![c] = Append(@, CaughtUpFrame)]
  /\ UNCHANGED <<logVars, daemonVars, scur, srows, wake, inj, qfail, muted,
                 clientVars, faults, withheld>>

\* Server.Inject reaches an attached stream whose inject channel has room;
\* into a full channel the frame is dropped.
Inject(c) ==
  /\ spc[c] # "none" /\ ~inj[c]
  /\ Len(wire[c]) < MaxWire
  /\ inj' = [inj EXCEPT ![c] = TRUE]
  /\ UNCHANGED <<logVars, daemonVars, spc, scur, srows, scaught, wake, qfail,
                 muted, clientVars, wire, faults, withheld>>

\* The select takes the injected payload and writes it without an id.
EmitInject(c) ==
  /\ spc[c] = "live" /\ inj[c]
  /\ inj' = [inj EXCEPT ![c] = FALSE]
  /\ wire' = [wire EXCEPT ![c] = Append(@, InjectFrame)]
  /\ UNCHANGED <<logVars, daemonVars, spc, scur, srows, scaught, wake, qfail,
                 muted, clientVars, faults, withheld>>

\* MuteFrame changes its answer: the subscriber whose presence it tests parks
\* on its await endpoint or lets its presence lapse.
ToggleMute(c) ==
  /\ muted' = [muted EXCEPT ![c] = ~@]
  /\ UNCHANGED <<logVars, daemonVars, streamVars, clientVars, wire, faults,
                 withheld>>

----------------------------------------------------------------------------
(* Clients: consume.ConsumeEvents and readStream.                          *)

\* A consumer process resolves its subject through the daemon, and
\* ConsumeEvents reads the cursor file.
Start(c) ==
  /\ up /\ cpc[c] \in {"off", "failed"}
  /\ cpc' = [cpc EXCEPT ![c] = "dial"]
  /\ ccur' = [ccur EXCEPT ![c] = disk[c]]
  /\ cport' = [cport EXCEPT ![c] = port]
  /\ cfatal' = [cfatal EXCEPT ![c] = FALSE]
  /\ UNCHANGED <<logVars, daemonVars, streamVars, muted, disk, handled, lagged,
                 wire, faults, withheld>>

\* Mutant of Connect: the request carries no Last-Event-ID.
ConnectFromZero(c) ==
  /\ cpc[c] = "dial" /\ up /\ cport[c] = port
  /\ cpc' = [cpc EXCEPT ![c] = "stream"]
  /\ spc' = [spc EXCEPT ![c] = "open"]
  /\ UNCHANGED <<logVars, daemonVars, scur, srows, scaught, wake, inj, qfail,
                 muted, disk, ccur, cport, cfatal, handled, lagged, wire, faults,
                 withheld>>

\* The daemon answers 200: its handler starts from Last-Event-ID.
Connect(c) ==
  /\ cpc[c] = "dial" /\ up /\ cport[c] = port
  /\ cpc' = [cpc EXCEPT ![c] = "stream"]
  /\ spc' = [spc EXCEPT ![c] = "open"]
  /\ scur' = [scur EXCEPT ![c] = ccur[c]]
  /\ UNCHANGED <<logVars, daemonVars, srows, scaught, wake, inj, qfail, muted,
                 disk, ccur, cport, cfatal, handled, lagged, wire, faults,
                 withheld>>

\* Nobody listens on the port, or the daemon answers 5xx while it drains.
ConnectRefused(c) ==
  /\ cpc[c] = "dial"
  /\ \/ ~(up /\ cport[c] = port) /\ UNCHANGED faults
     \/ Fault
  /\ cpc' = [cpc EXCEPT ![c] = "ended"]
  /\ UNCHANGED <<logVars, daemonVars, streamVars, muted, disk, ccur, cport,
                 cfatal, handled, lagged, wire, withheld>>

\* Another program has taken the stale port and answers 4xx.
ConnectAlien(c) ==
  /\ AlienServers
  /\ cpc[c] = "dial" /\ ~(up /\ cport[c] = port)
  /\ cpc' = [cpc EXCEPT ![c] = "ended"]
  /\ cfatal' = [cfatal EXCEPT ![c] = TRUE]
  /\ UNCHANGED <<logVars, daemonVars, streamVars, muted, disk, ccur, cport,
                 handled, lagged, wire, faults, withheld>>

\* Mutant of NextCursor: injected frames carry the stream's position as id.
NextCursorOfInject(c) ==
  IF Head(wire[c]).kind = "event" THEN Head(wire[c]).id
  ELSE IF scur[c] > ccur[c] THEN scur[c] ELSE ccur[c]

\* Where the cursor moves when the frame at the head of the wire is handled:
\* an injected frame has no id line, so the last id read still stands.
NextCursor(c) ==
  IF Head(wire[c]).kind = "event" THEN Head(wire[c]).id ELSE ccur[c]

\* A frame the handler is called for: a default-type frame that fits the
\* scanner's buffer.
Deliverable(c) ==
  /\ cpc[c] = "stream" /\ wire[c] # << >>
  /\ \/ Head(wire[c]).kind = "inject"
     \/ Head(wire[c]).kind = "event" /\ ~log[Head(wire[c]).id].big

\* The handler accepts the frame, the cursor in memory moves, and it is
\* written to c's file.  A write that fails is only warned about; a process
\* that dies between the two does the same to the file.  The file is c's alone
\* here; what is in memory never depends on it once c runs.
Accept(c, persisted) ==
  /\ Deliverable(c)
  /\ IF persisted THEN UNCHANGED faults ELSE Fault
  /\ ccur' = [ccur EXCEPT ![c] = NextCursor(c)]
  /\ disk' = IF persisted THEN [disk EXCEPT ![c] = NextCursor(c)] ELSE disk
  /\ handled' = IF Head(wire[c]).kind = "event"
                THEN [handled EXCEPT ![c] = @ \cup {NextCursor(c)}] ELSE handled
  /\ lagged' = [lagged EXCEPT ![c] = @ \/ (~persisted /\ NextCursor(c) # disk[c])]

\* The stream goes on with the next frame.
Handle(c, persisted) ==
  /\ Accept(c, persisted)
  /\ wire' = [wire EXCEPT ![c] = Tail(@)]
  /\ UNCHANGED <<logVars, daemonVars, streamVars, muted, cpc, cport, cfatal,
                 withheld>>

\* The frame is terminal (or --once, or window_moved): the handler returns
\* stop, ConsumeEvents returns and the connection closes.
HandleStop(c, persisted) ==
  /\ Accept(c, persisted)
  /\ cpc' = [cpc EXCEPT ![c] = "off"]
  /\ wire' = [wire EXCEPT ![c] = << >>]
  /\ StreamsEnd({c})
  /\ wto' = [w \in Writers |-> wto[w] \ {c}]
  /\ UNCHANGED <<log, db, wpc, wev, wseq, daemonVars, muted, cport, cfatal,
                 withheld>>

\* A named event (caught-up) is a control marker: skipped, no cursor moves.
SkipControl(c) ==
  /\ cpc[c] = "stream" /\ wire[c] # << >> /\ Head(wire[c]).kind = "caughtup"
  /\ wire' = [wire EXCEPT ![c] = Tail(@)]
  /\ UNCHANGED <<logVars, daemonVars, streamVars, muted, clientVars, faults,
                 withheld>>

\* readStream returns without touching the cursor and its body is closed, so
\* what was still on the wire is lost.
StreamLost(c, fatal) ==
  /\ cpc' = [cpc EXCEPT ![c] = "ended"]
  /\ cfatal' = [cfatal EXCEPT ![c] = fatal]
  /\ wire' = [wire EXCEPT ![c] = << >>]
  /\ StreamsEnd({c})
  /\ wto' = [w \in Writers |-> wto[w] \ {c}]
  /\ UNCHANGED <<log, db, wpc, wev, wseq, daemonVars, muted, disk, ccur, cport,
                 handled, lagged, withheld>>

\* The handler returns an error: the reconnect delivers the frame again.
HandleError(c) == Fault /\ Deliverable(c) /\ StreamLost(c, FALSE)

\* The frame is longer than the scanner's buffer: a fatal error.
FrameTooLong(c) ==
  /\ cpc[c] = "stream" /\ wire[c] # << >>
  /\ Head(wire[c]).kind = "event" /\ log[Head(wire[c]).id].big
  /\ StreamLost(c, TRUE)
  /\ UNCHANGED faults

\* The connection breaks with frames in flight.
Drop(c) == Fault /\ cpc[c] = "stream" /\ StreamLost(c, FALSE)

\* The daemon's end is gone and everything it wrote has been read.
EndOfStream(c) ==
  /\ cpc[c] = "stream" /\ spc[c] = "none" /\ wire[c] = << >>
  /\ StreamLost(c, FALSE)
  /\ UNCHANGED faults

\* Mutant of Refresh: the new port is compared and then forgotten.
RefreshKeepsPort(c) ==
  /\ cpc[c] = "ended" /\ up
  /\ cpc' = [cpc EXCEPT ![c] = IF cfatal[c] /\ port = cport[c] THEN "failed" ELSE "dial"]
  /\ cfatal' = [cfatal EXCEPT ![c] = FALSE]
  /\ UNCHANGED <<logVars, daemonVars, streamVars, muted, disk, ccur, cport,
                 handled, lagged, wire, faults, withheld>>

\* The refresh handshake answers with the current port.  A fatal error is
\* forgiven only when the port has moved.
Refresh(c) ==
  /\ cpc[c] = "ended" /\ up
  /\ cpc' = [cpc EXCEPT ![c] = IF cfatal[c] /\ port = cport[c] THEN "failed" ELSE "dial"]
  /\ cport' = [cport EXCEPT ![c] = port]
  /\ cfatal' = [cfatal EXCEPT ![c] = FALSE]
  /\ UNCHANGED <<logVars, daemonVars, streamVars, muted, disk, ccur, handled,
                 lagged, wire, faults, withheld>>

\* The handshake fails: the port stays as it was.
RefreshError(c) ==
  /\ cpc[c] = "ended"
  /\ \/ ~up /\ UNCHANGED faults
     \/ Fault
  /\ cpc' = [cpc EXCEPT ![c] = IF cfatal[c] THEN "failed" ELSE "dial"]
  /\ cfatal' = [cfatal EXCEPT ![c] = FALSE]
  /\ UNCHANGED <<logVars, daemonVars, streamVars, muted, disk, ccur, cport,
                 handled, lagged, wire, withheld>>

\* The consumer is killed, cancelled, or finds its window dead.
ClientExit(c) ==
  /\ cpc[c] \in {"dial", "stream", "ended"}
  /\ cpc' = [cpc EXCEPT ![c] = "off"]
  /\ cfatal' = [cfatal EXCEPT ![c] = FALSE]
  /\ wire' = [wire EXCEPT ![c] = << >>]
  /\ StreamsEnd({c})
  /\ wto' = [w \in Writers |-> wto[w] \ {c}]
  /\ UNCHANGED <<log, db, wpc, wev, wseq, daemonVars, muted, disk, ccur, cport,
                 handled, lagged, faults, withheld>>

----------------------------------------------------------------------------
(* The daemon process.                                                     *)

\* The daemon dies or is evicted: an open transaction rolls back, writers,
\* streams and wakeups vanish, the log and what is on the wire stay.
DaemonStop ==
  /\ Fault /\ up
  /\ up' = FALSE
  /\ db' = Free
  /\ wpc' = [w \in Writers |-> "idle"]
  /\ wev' = [w \in Writers |-> NoEvent]
  /\ wseq' = [w \in Writers |-> 0]
  /\ wto' = [w \in Writers |-> {}]
  /\ StreamsEnd(Consumers)
  /\ UNCHANGED <<log, port, muted, clientVars, wire, withheld>>

\* The next daemon listens on the port of the handshake file, or on an
\* ephemeral one when that port is taken.
DaemonStart ==
  /\ ~up
  /\ up' = TRUE
  /\ port' \in Ports
  /\ UNCHANGED <<logVars, streamVars, muted, clientVars, wire, faults, withheld>>

----------------------------------------------------------------------------
WriterStep(w) ==
  \/ \E e \in Events : AppendAllocate(w, e) \/ AppendDedup(w, e)
  \/ AppendCommit(w)
  \/ AppendError(w)
  \/ Publish(w)
  \/ \E c \in Consumers : Signal(w, c)
  \/ AppendReturn(w)

StreamStep(c) ==
  \/ Subscribe(c)
  \/ TakeSignal(c)
  \/ Query(c)
  \/ QueryError(c)
  \/ \E n \in srows[c] : EmitRow(c, n)
  \/ FlushDone(c)
  \/ Inject(c)
  \/ EmitInject(c)
  \/ ToggleMute(c)

ClientStep(c) ==
  \/ Start(c)
  \/ Connect(c)
  \/ ConnectRefused(c)
  \/ ConnectAlien(c)
  \/ \E persisted \in BOOLEAN : Handle(c, persisted) \/ HandleStop(c, persisted)
  \/ SkipControl(c)
  \/ HandleError(c)
  \/ FrameTooLong(c)
  \/ Drop(c)
  \/ EndOfStream(c)
  \/ Refresh(c)
  \/ RefreshError(c)
  \/ ClientExit(c)

Next ==
  \/ \E w \in Writers : WriterStep(w)
  \/ \E c \in Consumers : StreamStep(c) \/ ClientStep(c)
  \/ DaemonStop
  \/ DaemonStart

Spec == Init /\ [][Next]_vars

----------------------------------------------------------------------------
(* Fairness: goroutines and processes that can run do run.  Nothing is     *)
(* assumed of the environment: no append, no consumer start and no daemon  *)
(* start has to happen.                                                    *)

WriterProgress(w) ==
  AppendCommit(w) \/ Publish(w) \/ AppendReturn(w) \/ \E c \in Consumers : Signal(w, c)

StreamProgress(c) ==
  Subscribe(c) \/ FlushDone(c) \/ \E n \in srows[c] : EmitRow(c, n)

\* The loop of ConsumeEvents and readStream, with a handler that succeeds.
ClientProgress(c) ==
  \/ Connect(c) \/ ConnectRefused(c) \/ Refresh(c) \/ RefreshError(c)
  \/ Handle(c, TRUE) \/ SkipControl(c) \/ FrameTooLong(c) \/ EndOfStream(c)

\* Query is strong: the connection pool serves its waiters in order, so a
\* stream cannot be passed over forever.  TakeSignal is apart from the rest
\* of the stream because a ready select case is not starved by another one.
Fairness ==
  /\ \A w \in Writers : WF_vars(WriterProgress(w))
  /\ \A c \in Consumers : /\ WF_vars(StreamProgress(c))
                          /\ SF_vars(Query(c))
                          /\ WF_vars(TakeSignal(c))
                          /\ WF_vars(ClientProgress(c))

FairSpec == Spec /\ Fairness

----------------------------------------------------------------------------
(* Properties.                                                             *)

\* The rows c's handler is meant to be called for (see EventDelivery).
Wanted(c, n) == log[n].origin # Exclude[c] /\ ~log[n].presence

Settled(c) == handled[c] \cup withheld[c]

\* The subject's rows are numbered 1, 2, 3 ... with no hole, whatever
\* transactions fail or die half way (store.AppendEvent), and a dedup key
\* names one row.
GapFreeLog ==
  /\ DOMAIN log = 1 .. LastSeq(log)
  /\ \A s, t \in DOMAIN log : log[s].key = log[t].key /\ log[s].key # NoKey => s = t

\* A committed row is never changed or removed, in particular not by another
\* append that computed the same MAX(seq)+1.
AppendOnly ==
  [][/\ DOMAIN log \subseteq DOMAIN log'
     /\ \A s \in DOMAIN log : log'[s] = log[s]]_vars

\* When Append publishes, the row it answers for is readable: persisting
\* comes before publishing (daemon.Server.Append), on a dedup hit too.
PublishedIsReadable ==
  \A w \in Writers :
    wpc[w] \in {"committed", "sending"} =>
      wseq[w] \in DOMAIN log /\ log[wseq[w]].key = wev[w].key

\* A consumer's cursors, in memory and on disk, never pass a row it wants that
\* its handler has not accepted and MuteFrame has not withheld: resuming from
\* either of them skips nothing.
NoSkip ==
  \A c \in Consumers, n \in DOMAIN log :
    Wanted(c, n) /\ (n <= disk[c] \/ n <= ccur[c]) => n \in Settled(c)

\* A stream parked in its select with an empty wakeup channel has written
\* everything in the log, or a writer that has committed is still about to
\* signal it: the wakeup is never lost between the query and the park.
NoLostWakeup ==
  \A c \in Consumers :
    spc[c] = "live" /\ ~wake[c] /\ ~qfail[c] =>
      \/ EventsSince(log, scur[c], Exclude[c]) = {}
      \/ \E w \in Writers : \/ wpc[w] = "committed"
                            \/ wpc[w] = "sending" /\ c \in wto[w]

\* Unless a cursor write failed or the consumer died before it, nothing its
\* handler accepted is ever sent to it again, across reconnects, restarts and
\* daemon swaps.
NoNeedlessRedelivery ==
  \A c \in Consumers : ~lagged[c] =>
    \A i \in DOMAIN wire[c] :
      wire[c][i].kind = "event" => wire[c][i].id \notin handled[c]

\* The cursor a running consumer holds in memory, and resumes from after a
\* drop or a daemon swap, never goes back: no frame of a later connection is
\* older than what the consumer has already accepted.  Who else writes the
\* cursor file does not matter to it.
CursorsNeverRegress ==
  [][\A c \in Consumers :
       cpc[c] \notin {"off", "failed"} => ccur'[c] >= ccur[c]]_vars

Delivery == INSTANCE EventDelivery

\* The event plane implements EventDelivery: a dense append-only log, and rows
\* accepted oldest first by every consumer.
ImplementsDelivery == Delivery!AbsSpec

\* A row a consumer wants reaches its handler or is withheld, as long as the
\* daemon stays up and the consumer neither stops nor fails.
EventuallyDelivered ==
  \A c \in Consumers, n \in 1 .. MaxSeq :
    (n \in DOMAIN log /\ Wanted(c, n))
      ~> (n \in Settled(c) \/ ~up \/ cpc[c] \in {"off", "failed"})

\* sse.Config.MuteFrame: a row withheld from a consumer is not delivered to it
\* later, once it is un-muted.
MutedBacklogStaysMuted ==
  [][\A c \in Consumers : handled'[c] \cap withheld[c] \subseteq handled[c]]_vars
=============================================================================
