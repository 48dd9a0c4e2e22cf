# cc-interact in TLA+

A TLA+ model of the cc-interact daemon: its event plane, agent mailboxes,
subjects, presence, lifecycle, store and deployment. This document says what is
modelled, what TLC checks on small instances and what TLAPS proves for every
instance. Paths are relative to `src/`.

## 1. The system

cc-interact lets a coding session, its sub-agents and a browser exchange events
through one local daemon. Everything is scoped to a *subject* (a session, a
working directory). The daemon keeps a durable log per subject in SQLite,
behind a connection pool of one.

| Component | Files | State | Operations |
|---|---|---|---|
| event log | `store/events.go` | rows `(subject, seq)`, dedup keys | `AppendEvent`, `EventsSince` |
| append chokepoint | `daemon/events.go` | - | `Append`: persist, publish, tee to subscribed agents |
| wakeup bus | `event/bus.go` | subscriptions, a cap-1 channel each | `Subscribe`, cancel, `Publish` |
| SSE streams | `sse/sse.go` | per connection: cursor, inject channel; attached counts, debounce timers | `handleEvents`, `flushSince`, `Inject`, presence announcements |
| stream client | `consume/consume.go`, `cmd/stream.go` | cursor in memory and in a file, the port it dials | `ConsumeEvents`, `readStream`, `seedCursor`, handshake refresh |
| agent mailbox | `daemon/agents.go`, `daemon/parks.go`, `daemon/subscriptions.go`, `store/directives.go`, `store/agents.go` | agent rows, directives, await parks, subscriptions, block counters | `agent-start`, `-stop`, `-inject`, `-report`, `-direct`, `-await`, `-reconcile`; boot reconciles |
| subject resolver | `subject/resolver.go`, `store/subjectstore.go` | owner session and activity of each subject | `Find`, `Start`, `Rebind`, `Settle` |
| presence, channel | `daemon/activity.go`, `daemon/channelstate.go`, `channel/`, `cmd/channel.go` | attach counts, persisted connected flag, the channel's subject and inject queue | attach, debounced detach, boot reconcile, probe, window-moved |
| lifecycle | `daemon/server.go`, `daemon/workers.go` | admitted workers, listeners, the open store | `Serve`, `Dispatch`, `Background`, `Drain`, `Close` |
| launcher | `daemon/launcher.go`, `daemon/client.go` | the ensure lock, the handshake file | `EnsureCurrent`, `EnsureCurrentIfRunning` |
| store open | `store/store.go`, `store/schema_archive.go` | the database file, its schema, archives | `Open`, create, verify, archive |
| dispatch, gates | `daemon/handlers.go` | - | built-in request handlers |
| HTTP legs | `daemon/httpauth.go`, `daemon/httpinfo.go`, `tailnet/` | listeners, handshake file, certificate, peer connections | reconcile pass, `AddHTTPListener`, mint, sniff, re-check of trust |
| vcs, web, setup | `vcs/`, `web/`, `procs/`, ... | - | not in the model (section 8) |

How they interact. Every durable fact goes through `Append`, which commits the
row before it publishes a bare wakeup on the bus. A wakeup carries no data: each
stream re-queries the log from its own cursor. A consumer that loses its
connection resumes from the last id its handler accepted. Agents that cannot
hold a stream open receive *directives*, which are rows of a mailbox drained by
whichever hook of the agent comes first (tool call, stop, await). A window
reaches its subject through the resolver, and its channel server streams that
subject until it is told that the window has moved. One daemon at a time serves
all of this from one store; launchers of several builds start, replace and stop
it.

What is hard here:

* **Concurrency.** Appends, streams, awaits, hooks and registrations are
  goroutines. Commit and publish are two steps; a query and the park in the
  select that follows it are two steps; an agent's stop takes five.
* **Failure.** The daemon is replaced on every upgrade, consumers are killed,
  cursor writes fail, queries fail, connections drop with frames in flight.
* **Bounded channels.** Wakeups, injected frames and await releases all use
  channels of capacity one that drop what does not fit.
* **Memory and disk.** Subscriptions, parks and block counters live in memory
  and mirror rows that do not: after a crash they must be rebuilt to match.
* **Time.** Debounce windows, await timeouts, handshake retries, drain budgets,
  certificates that expire, timestamps of whole seconds.
* **Several processes.** Launchers of different builds meet on two locks and a
  handshake file, store openers on a database path and its lock, stream clients on
  cursor files.

`PROJECT.json` lists the hazards line by line with the property that covers each.

## 2. Modules

| Module | What it is |
|---|---|
| `EventLog` | operators on the log: `NextSeq`, `DedupHits`, `Insert`, `EventsSince` |
| `EventDelivery` | the abstract promise of the event plane: a dense append-only log, and rows accepted by each consumer oldest first |
| `EventPlane` | log, bus, streams and clients together, from `Append` to the consumer's handler |
| `Mailbox` | agents, directives, awaits, subscriptions and the boot reconciles |
| `SubjectResolver` | the subjects table and the requests that bind, rebind and detach its rows |
| `WindowChannel` | extends it with the channel server of each window and the window-moved frame |
| `Presence` | attach counts, debounce timers and the persisted connected flag of one subject |
| `StoreLease` | the abstract promise of the lifecycle: the store is closed after its last user |
| `Lifecycle` | extends `Presence` with a daemon process from activation to exit; refines `StoreLease` |
| `StoreOpen` | several processes opening, archiving and creating one database |
| `HttpLegs` | the tailnet legs of the HTTP plane, its certificate and its peers' connections |
| `Launcher` | extends it with the launchers that ensure, replace and stop the daemon |
| `EventPlaneProofs`, `MailboxProofs`, `WindowChannelProofs`, `LifecycleProofs`, `StoreOpenProofs`, `LauncherProofs` | the theorems about the module of that name, with its parts and its abstract specification |
| `MCEventPlane`, `MCMailbox`, `MCWindowChannel`, `MCLifecycle`, `MCStoreOpen`, `MCLauncher` | instances for TLC |

### 2.1 EventPlane

One subject: rows are keyed by subject and no statement crosses subjects. State
and code correspond as follows.

* **Writers** (`wpc`, `wev`, `wseq`, `wto`, `db`) are goroutines in `Append`.
  `AppendAllocate` is the begin, the dedup lookup and `MAX(seq)+1` of
  `AppendEvent`; it takes the pool's only connection (`db`), which `AppendCommit`
  or `AppendError` (rollback) gives back. `AppendDedup` is the dedup hit.
  `Publish` is the bus' snapshot under its lock, `Signal` one non-blocking send,
  `AppendReturn` the end.
* **Streams** (`spc`, `scur`, `srows`, `scaught`, `wake`, `inj`, `qfail`) are
  `handleEvents`: `Subscribe` before the first `Query`, `EmitRow` per row,
  `FlushDone` with the caught-up marker, `TakeSignal` and `EmitInject` in the
  select. `QueryError` is the silent return of `flushSince`. `ToggleMute` lets
  `MuteFrame` change its answer at any time.
* **Clients** (`cpc`, `ccur`, `disk`, `cport`, `cfatal`, `wire`) are
  `ConsumeEvents` and `readStream`. `wire` holds the frames written and not read.
  `Handle` accepts a frame, moves the cursor and persists it, or fails to;
  `HandleError`, `FrameTooLong`, `Drop` and `EndOfStream` end the stream;
  `Refresh` and `RefreshError` are the handshake; `ConnectAlien` is another
  program on a stale port.
* **Daemon** (`up`, `port`): `DaemonStop` loses everything in memory,
  `DaemonStart` may pick another port.
* `handled`, `withheld`, `lagged` and `qfail` are history and guard nothing.

One process at a time uses a cursor file: an assumption, which the code does not
enforce. `consume/consume.go:90` speaks of "the shared cursor", the channel's file is
named by the subject and the constant `channel` (`cmd/channel.go:73`), and
`TestWriteCursorConcurrent` lets 32 writers race for one path and accepts any result.
`Start` reads the file once and every later write is the process' own cursor
(`consume/consume.go:80`, `318-324`), so with two processes on one file the later write
stands and the file can go back (rows are delivered again) or forward (past rows only
the other one handled). The half of `NoSkip` about the file and `NoNeedlessRedelivery`
hold for one process per file. `NoLostWakeup`, the half of `NoSkip` about memory and
`CursorsNeverRegress` follow a process that has started, whoever else writes its file.

A row is a record of what the code tells apart: its origin, whether it is a
presence event, its dedup key, and whether its frame exceeds the client's scanner
buffer. Payloads, times and formatting are left out.

### 2.2 Mailbox

One subject again. The tables are `rows` (status), `rowid`, `mail` (undelivered
directives) and `lastid`; the registries are `subs`, `waiter` with `signal`, and
`blocks`; `lock` is `registerMu`. Each request is a process whose record `req[p]`
says where it is. A step is one transaction or one operation of a registry. An
event append has no effect on this state but failing, so it shares a step with
what follows it; `Started` and `Stopped` keep their own because a property is
about their order.

* `agent-start`: `Register`, `Started`, `Subscribe`, `ListOthers`, then for each
  loser `SweepNext`, the Direct call, `Close`, `Stopped`, `Peek`; `SweepDone`,
  `Registered` (unlock and greeting).
* `Server.Direct`: `Enqueue` (status read and insert in one transaction),
  `Release`, `Relay` if the addressee was done.
* `agent-stop`: `Stop` (drain), `StopDelivered`, or `GateAllow`/`GateBlock`,
  `StopReset`, `Close`, `Unsubscribe`, `Stopped`, `Peek`, `Relay`.
* `agent-await`: `AwaitPark`, `AwaitDrain`, `AwaitWake`/`AwaitTimeout`/
  `AwaitCancel`, `AwaitFinal`, `AwaitLeave`.
* `Inject`, `AppendTeed` with `TeeNext`, `Reconcile` with `ReconcileNext`.
* `Abort` fails the next store call of any request, with the handler's deferred
  unlock and `parks.done`; the tee logs the error and goes on. `Crash` and `Boot`
  lose and rebuild the registries. An orderly drain is aborts followed by a crash.

`started` is what the log holds of `agent.started`; `relayed`, `unrung`,
`unannounced`, `torn`, `last` and `refused` are history and guard nothing.
Assumed of the product's callbacks, as `daemon/config.go` requires: `Subscribe`
is pure and returns no `agent.*` type. The order in which the tee visits agents
is Go's map order, hence free.

### 2.3 SubjectResolver and WindowChannel

`table` is the subjects table of one scope, in rowid order: session, window pid,
open or closed, and `created_at` in seconds. `req[p]` is a request inside
`Resolver.Start`, `Rebind` or `Settle`; the resolver opens no transaction, so each
statement is a step and requests interleave between any two.

* `Start`: `StartExact`, `StartAdopt` (the compare-and-set on a dead window's row),
  `StartReread`, `StartWindow`, `StartRotate`, `Create`; a fresh start is
  `FreshFind`, `FreshClose`, `FreshDetach`, `Create`.
* `Settle`: `SettleHeld`, `SettleYounger`, `SettleDetach`, `SettleMove`,
  `SettleReturn`; with no row for the session it is `Rebind`: `RebindFind`,
  `RebindWindow`, `RebindActive`.
* `Taken` is the unique index, `Matches` the `WHERE claude_pid = ?` of the
  compare-and-set; `CasMiss`, `CasError` and `CasSwap` are its three outcomes.
* `WindowExit` ends a window for good, `Fail` fails the next statement, `Tick`
  moves the clock.

`chan[w]` is `streamToChannel` in the window's channel server: polling `resolve`
(two reads of the table), dialling, streaming with its inject queue of capacity
one. `Tell` is the end of `handleSessionRecord`, which injects the window-moved
frame for the boot subject; `ChannelState` injects a probe for a window that is
not proven. `left`, `missed` and `seen` are history and guard nothing: what a
`Settle` detached for a window and nobody bound since, the part of it whose frame was
lost, and the table in which a `Settle` looked for the window's latest subject.

### 2.4 Presence and Lifecycle

`place[c]` follows one named connection through `handleEvents` (resolve, look,
attach, announce, stream, detach) and then the debounce timer it leaves behind.
`grace` is the time left since the last detach, `flag` the latest presence event in
the log, `cut` the connections whose context is cancelled. The code reads
`ConsumerConnected` before it attaches and calls the predicate of the timer before
it emits; each is a step of its own. `Tick` passes time; it is longer than the way
from look to attach, which waits on nothing.

`Lifecycle` adds the process: `ActivateState`, `Reconcile`, `StartHTTP`, `Ready`;
`Drain` (or a failed activation) is `Cancel`, `Refuse`, `Drained` or `DrainOverrun`;
`Close` is `ClosePresence`, then `CloseState` or, after its budget, `LeaveOpen`.
`workers` are the daemon's own (the `OnHTTPStart` hook, the HTTP server, its
shutdown, a `Background` worker); `call[d]` is any other HTTP request, which may
call `Dispatch`. The shutdown worker closes the listeners and waits for requests in
flight. `Crash` may happen anywhere, and a new process starts from the log alone.

`StoreLease` says what this is for: the store is open before anyone borrows it and
is closed only when nobody holds it, or a deadline has passed, or the process is
gone. The mapping takes `Users` (requests in flight, admitted or not, presence
emissions, background workers) for the borrowers. `StoreLent` is that refinement.
Requests of the control socket also use the store (`product.Handle`,
`daemon/server.go:297-309`) and are not among the borrowers: daemonkit runs them, without
`Admit`, and whether it waits for them before it calls `Drain` and `Close` is not in this
repository.

### 2.5 StoreOpen

Files are inodes with a content: none, empty (created, no schema), exact (this
build's schema), drifted, or corrupt: `verifySchema` fails without the sentinel, as it
does on a file that is no database or has the version and not the marker row. Such a
file is never archived and every open returns its error (`store/store.go:222-224`). `at`
is the file at the path, `aside` the archived ones, `wal` the file whose `-wal` and
`-shm` lie beside the path, `lock` the archive lock, `db[p]` the file a process' connection is bound to. `Open`
is `Stat`, the lockless `PreVerify`, then under the archive policy `AcquireLock`,
`LockedVerify`, `Rename`, `Sidecars`, and `Create`, `CreateSchema`, `CheckCreated`.
`Bind` is what opening does: a path that has vanished since the stat gets an empty
file. `PreFault` and `StepFault` fail a step, `Die` kills the process at any point
(its lock is released, its transaction lost), `Upgrade` turns this build's store
into another build's, or damages it, while nobody runs. Both policies are initial states.

One build at a time: a build that archives under the live handle of another
(`TestArchiveIsolatesFromLiveHandle`) is outside the model. A death between `Rename` and
`Sidecars` leaves the old file's sidecars beside the path, and `wal` shows it. What SQLite
then makes of them is external: it replaces them when it creates the database, as
the code relies on; `OneStore` says that whoever is ready has no other file's beside it.

### 2.6 HttpLegs and Launcher

`self` is what addresses the machine has, `domain` its certificate domain or none,
`extra` and `legs` the daemon's `extraAddrs` and listeners, `file` the addresses in the
handshake file. `rec` is the reconcile loop: `BeginPass`, `BindLeg`, `Publish`,
`ServeLeg` (or `RefuseLeg` when the worker group is closed, or `LateLeg`), `EndPass`,
then `ensure` of the certificate. `LegDies` is an `Accept` error that is not temporary:
`serveOn` returns, the address goes to `dead`, and stays in `extra` and in the file, so
no pass binds it again. `cert` is the certificate's age and domain; without a domain
nothing is minted, and another domain is a reason to mint. `mint` is `mintMu`, shared
with the goroutine that mints at boot, and the domain it mints for.

`conn[q]` is a peer's connection: accepted, sniffed, handed to the server ("taken"),
then `ReadRequest` once its peer has sent a request, or `HangUp`. Past the first byte the
code sets no deadline (`tailnet/sniff.go:125`, `daemon/server.go:461-464`), so a
connection may stay "taken". A request is `Admitted` on trust with an allowed Host and
Origin, or by its token, or refused. One admitted on trust is asked again (`StillTrusted`:
the peer, and the daemon's own name in Host and Origin) and cut by `watchPeerTrust`; one
with the token is not watched. `canonicalPort` and `displayURLs` give the legs a URL may
lead to. Addresses, domain, trust and the certificate's age change by themselves, within
`MaxInputs`.

`Launcher` has `EnsureCurrent`, `EnsureCurrentIfRunning` and `Stop` of programs with
different releases: `AwaitEnsureTurn` (`ensure.lock`), `EnsureCurrent` (the probe and
what it decides), then daemonkit's part, which is external and modelled from how it
is used: the start lock, `Replace`, `Launch`, `Converged`. The daemon is absent,
starting, serving or leaving, and tells its release or not (`tells`), since only a
rollback that can be proved is refused. `wire` gives each release its wire protocol: to a
launcher of another one the probe answers `ErrProtocolMismatch` and the launcher goes on
to `Ensure` without ordering the releases (`daemon/launcher.go:68`, `98`).

## 3. Runs

| Run | Configuration | Instance | Checks |
|---|---|---|---|
| `delivery_safety` | `EventPlaneSafety.cfg` | 4 kinds of event, 2 writers, 1 consumer, 2 rows, 1 fault | `TypeOK`, `GapFreeLog`, `NoSkip`, `NoLostWakeup`, `NoNeedlessRedelivery`, `AppendOnly`, `CursorsNeverRegress`, `ImplementsDelivery` |
| `delivery_liveness` | `EventPlaneLive.cfg` | 1 writer, 1 consumer, 2 ports, oversize rows | `EventuallyDelivered` |
| `query_error_stall` | `EventPlaneStall.cfg` | a failing query | violation, section 6 |
| `muted_backlog` | `EventPlaneMute.cfg` | muting and a reconnect | violation, section 6 |
| `mailbox_safety` | `MailboxSafety.cfg` | 2 agents of one type, the top-level agent, 2 requests at once, 3 starts, directives or teed events, 1 fault | `TypeOK`, `ParkNotMissed`, `StrandedIsAnnounced`, `LastRegistrationWins`, `StartedBeforeSwept` |
| `mailbox_liveness` | `MailboxLive.cfg` | 1 agent with a greeting and the stop gate, 2 requests at once, 1 fault | `RefusalsBounded`, `PromptRelease`, `RegistrationCompletes` |
| `registry_mirror` | `MailboxMirror.cfg` | no fault | violation, section 6 |
| `subject_binding` | `SubjectBinding.cfg` | 2 windows, one with a channel, 2 sessions, 3 requests (2 at once), 2 seconds, 1 fault | `TypeOK`, `OwnerNotRobbed`, `DetachIsFinal`, `SettleUnifies`, `StrandedOnlyIfMissed` |
| `channel_follow` | `ChannelFollow.cfg` | no fault | violation, section 6 |
| `lifecycle` | `LifecycleLease.cfg` | 2 connections, 1 dispatched call, grace 1, debounce 2, 1 fault | `TypeOK`, `ConnectedIsSaid`, `DisconnectedIsSaid`, `StoreLent`, `DrainSettles`, `FlagSettles` |
| `store_open` | `StoreOpen.cfg` | 3 processes, 3 files, 1 fault, both policies | `TypeOK`, `OneStore`, `AsideIsUnusable`, `LosersRide`, `Recovers` |
| `deployment` | `Deployment.cfg` | 2 launchers of releases 1 and 2, one wire protocol or two, 2 addresses, 2 domains, 1 peer connection, 3 calls or changes of the mesh, 1 fault | `TypeOK`, `HandshakeIsServed`, `NoRollback`, `LaunchersReturn`, `CertRenewed`, `LegsFollowAddresses`, `ConnectionsEnd` |

What the main properties say:

* `NoSkip`: neither cursor of a consumer passes a row it wants that was neither
  handled nor withheld by muting.
* `NoLostWakeup`: a stream parked with an empty wakeup channel has nothing left
  to send, or a writer that has committed is still about to signal it.
* `NoNeedlessRedelivery`: unless a cursor write was lost, nothing handled is sent
  again.
* `CursorsNeverRegress`: what a running consumer resumes from after a drop or a daemon
  swap never goes back.
* `EventuallyDelivered`: a wanted row reaches the handler of a running consumer.
* `ParkNotMissed`: an await parked with an empty channel misses nothing, unless
  the Direct failed between its insert and its release.
* `StrandedIsAnnounced`: a directive on a done agent was announced, or the
  request that closed the agent or enqueued it still owes the announcement, or
  that announcement failed (the reconcile at boot then makes up for it).
* `LastRegistrationWins`: with no registration under way only the latest
  registered subscriber of a type runs, unless a registration was cut short and
  none has completed since.
* `PromptRelease`: a parked await with something pending wakes without its
  timeout.
* `OwnerNotRobbed`: no `Start` takes a live window's subject, also when the owner
  it saw dead was replaced since. A hook's word (`Settle`) may.
* `DetachIsFinal`: a detached subject is not bound again by a request that read it
  before. The exception is a row started outside any window: its pid is 0, which is
  also the pid of a detached row, and the compare-and-set cannot tell them apart.
* `SettleUnifies`: a settle nobody interfered with leaves the window one subject to
  find, the session's. Nobody interfered when, since it looked for the window's
  latest subject, no other row came to the window or left it. If it detached a boot
  subject, that was the window's only other one (of several only the latest is
  detached) and is detached still. Rows from the same second are excepted:
  `created_at` has no finer grain.
* `StrandedOnlyIfMissed`: a channel stays on the subject its window left only if
  the frame was lost in one of the ways `missed` records.
* `ConnectedIsSaid`, `DisconnectedIsSaid`: the log says what the registry says, or
  somebody is about to say it. `slips` records the exceptions: an append that failed
  or was refused by a cancelled request ("connect", "disconnect"), and an attach, also
  of one that left again, between the debounce's predicate and its emit, which
  `handleEvents` accepts ("inverted").
* `FlagSettles`, `DrainSettles`: after the last detach the log comes to say
  disconnected; a drain ends without its deadlines.
* `OneStore`, `AsideIsUnusable`, `LosersRide`, `Recovers`: whoever has the store open
  has the one at the path; what is archived was no store of this build and becomes
  none, nor is a file that cannot be read; under the archive policy only a fault or such
  a file fails an open; a failed open succeeds later, half-made files included, unless
  the file at the path cannot be read or, under the fail policy, is refused.
* `NoRollback`: what a launcher replaces is no newer release that says so. The
  exceptions are a daemon left starting by an ensure that gave up, which the probe does
  not reach and reports absent, and one of another wire protocol, which tells nothing.
* `HandshakeIsServed`: while the plane is up the handshake file names the legs that
  are served, the one about to be and those that ended on an `Accept` error, and no
  other; an address has one listener, an ended one none; and the URLs lead to a leg
  on an address the machine still has whenever there is one.
* `LegsFollowAddresses`: an address the machine keeps gets its leg, also after a failed
  bind, unless its listener ended on an `Accept` error.
* `CertRenewed`: a machine with a certificate domain gets a certificate for it, and a new
  one when it is due, expired or of a former domain, unless the domain goes.
* `ConnectionsEnd`: the sniffer hands over or closes every connection, also when its
  listener ends, and no request outlives the trust it was admitted on.

Every property has a mutant in `PROJECT.json`: a plausible bug in the code that
TLC must find.

**Bounds.** Two rows and two writers are the least that make appends race for a
number and a stream resume in the middle of the log. One fault of any kind
(crash, drop, failed write, failed query) meets every other step. `MaxWire`
bounds only when a frame may be injected. Two agents and two concurrent requests
give every pair of handlers on the same or different agents; three starts let an
agent be superseded and come back; stops, awaits, injects and reconciles are not
bounded. `Budget` is 2 where the code has 3: the comparison is the same and the
counter passes it. `MaxOps` of `Mailbox` counts starts, directives and teed events
together. TLC uses symmetry of writers, of requests and of agents of one type, in
safety runs only, and of the requests in `subject_binding`.

Three requests of two windows let an adoption, a settle and a fresh start overlap;
two seconds are the least that make one row younger than another. Two connections
give an attach during the other's debounce, and debounce 2 over grace 1 is the order
`sse/sse.go:27` requires. Three openers are a winner, a loser at the lock and a
loser in the lockless check; three files are the old store, the fresh one and an
empty one that a check created. `MaxInputs` counts the launchers' calls and the
changes of the mesh together: with a call that starts the daemon, two are left for a
second launcher's calls, or for an address that comes and goes, or for an address and a
peer's trust. The machine starts with a domain, which it may lose or change before or
after the daemon starts.

`CHECK_DEADLOCK FALSE` in `subject_binding`, `channel_follow` and `deployment`: when
the bounded calls are used up nothing has to happen.

## 4. Fairness

`EventPlane`: weak fairness of a writer's own steps, a stream's own steps, taking
a ready wakeup (Go's select does not starve a ready case) and the client's loop
with a handler that succeeds. `Query` is strongly fair: the pool hands its
connection to waiters in order, so a stream cannot be passed over forever.
Nothing is assumed of appends, consumer starts, daemon restarts, muting or
injection. `Mailbox`: weak fairness of each request's own next step; nothing of
timeouts, of clients going away, of failures or of requests arriving, so
`PromptRelease` does not lean on the timeout.

`Lifecycle`: weak fairness of the drain ladder without its deadlines, of the
daemon's workers once their context is cancelled (`config.go` asks that of the
hooks), of handlers and timers, and of the clock. Nothing of clients, new requests,
the start or a drain. `StoreOpen`: an open goes on to its end, and a daemon that
could not open is started again by its next launcher. `Launcher`: launchers, the
reconcile loop, the sniffers, the trust watchers and the daemon's start and exit keep
going, a mint that is tried again succeeds in the end (failures count as faults), and
`PeekTimeout` is the sniffer's own deadline. Nothing is assumed of a peer: neither that
it sends a byte, nor that it completes a TLS handshake or a request. The launchers' timeouts are not assumed:
`LaunchersReturn` holds without them.

## 5. Proofs

Every safety property a passing run checks (type invariants, invariants, action
properties and the two refinements) is also a theorem, for all values of the
constants. The constants' assumptions are the named `ASSUME`s of the modules: kinds,
null values outside their sets, a stop-gate budget and a grace that are not zero. One
theorem assumes more: `NobodyAttachedIsSaid` needs `Debounce >= Grace`, which
`sse/sse.go:26-30` asks of the configuration. The bounds (`MaxOps`, `MaxCalls`,
`MaxFaults`, ...) are arbitrary naturals, so a theorem covers runs of any length.

No property is inductive as it stands: each speaks of a state the handlers reach
through several statements, and what makes it true is what a process knows between
them. Every proof has the same layout: the strengthening, lemmas on what a step does to
the variables the invariant reads, a lemma per action or group of actions, and the
theorems.

### 5.1 EventPlaneProofs

1. `TypesAndLog`: `TypeOK /\ LogInv` is inductive. `LogInv` adds to the dense log
   who owns the connection: a writer in its transaction holds `db`, and the
   number it computed is still the next one. That is what makes `MAX(seq)+1`
   safe. From it follow `TypeCorrect`, `LogIsGapFree`, `PublishesReadable` and
   `LogIsAppendOnly`.
2. `Invariance`: `IInv`, which adds for each consumer
   * `Shape`: streams and frames exist only on an open connection, and the rows
     a stream has left to write are the oldest it has not written,
   * `Cover`: every wanted row below a cursor of the client is settled, below the
     stream's cursor settled or on the wire, and below a frame on the wire settled
     or ahead of it,
   * `Order`: file <= memory < wire <= stream, ids on the wire ascend, and without
     a lost write the file covers what was handled,
   * `Wakeful`: `NoLostWakeup` strengthened to a stream that is still writing.

   `NoSkip` alone is not inductive: that the next frame may be accepted without
   skipping a row depends on what is on the wire behind it. The proof has a step
   per action; `LocalStep` is stated once for the part local to a consumer.
3. `NothingSkipped`, `WakeupsNotLost`, `NothingRedelivered` and `CursorsAdvance`
   follow from `IInv`. What they say of a cursor file holds for one process per file
   (section 2.1); `CursorsAdvance` says nothing of the file.
4. `DeliveryImplemented`: every step of `EventPlane` is a step of `EventDelivery`
   or a stutter (`StepRefines`), under the identity mapping on the log, what was
   handled and what was withheld.

### 5.2 MailboxProofs

`Inv` says what the handlers rely on without saying so:

* `Shapes`: which agents, list and return place a request has at each of its places,
* `LockHeld`: `registerMu` is held exactly from `RegisterAgent` to the end of the sweep,
  the calls of the sweep included,
* `OneId`, `OwnId`: an id names one directive, and the one a Direct has inserted is its
  own,
* `Waiting`: a parked await with an empty channel is the one registered,
* `RunningStarted`, `Announced`, `Visited`: whoever a sweep may visit has its
  `agent.started` in the log, or its registration was cut short,
* `Complete`: no running agent of the winner's type is left besides the losers still on
  the sweep's list; with `Winner` this gives `LastRegistrationWins`,
* `Counted`: the gate's counter is at least the refusals in a row,
* `FiniteRows`: the table is finite. Agents may be an infinite set; a new row's
  rowid is one more than the number of rows, and only the rows present are counted.

`ParkNotMissed` and `StrandedIsAnnounced` are themselves inductive together with these:
whichever of insert and close, or of drain and release, comes second sees the other.

### 5.3 WindowChannelProofs

* `TableInv`: the unique index without cardinalities, and rows are from the past.
* `Shape`: a request has a row that exists at every place that works on one, one in
  `StartRotate` compares with its own window, and a `Settle` with a boot subject comes
  from a window.
* `Looked`: a row's `created_at` never changes, so what `SettleYounger` found out about
  the ages of the window's rows stays true of the table it saw.
* `Told`: a channel on a subject its window has left has the frame in its queue, or the
  `Settle` that will send it is under way, or the frame is in `missed`. A channel dials
  only rows somebody owns, so it never comes to a left one.

`Latest` is a `CHOOSE`. That a latest row exists (`LatestIs`) is proved from the
well-ordering of the naturals, the one place where a library theorem on well-founded
relations is used. `LiveOwnerKeepsSubject` and `DetachedStaysDetached` then need only
what a statement does to the table (`TableEffect`); `SettleLeavesOneSubject` is the
contradiction between `Latest` and `Looked`.

### 5.4 LifecycleProofs

* `LeaseInv`: the store is open as the phase says, presence is closed by `Close`, the
  plane accepts only while its shutdown worker is still to come, that worker leaves a
  request behind only past its deadline, and after a drain within its budget nobody is
  left. With it every step is a step of `StoreLease` or a stutter (`StoreIsLent`).
* `SaidInv`: whoever counts as connected was announced, is being announced or was
  missed; a connection that found another one connected attaches while that holds.
* `WithdrawnInv`: the grace of the last detach is outlasted by that detach's timer. This
  is where `Debounce >= Grace` is used, and an instance that breaks it refutes
  `FlagSettles` (section 6).

### 5.5 StoreOpenProofs

`Inv`: under the archive policy whoever looks at the path in order to change it holds
the lock, so what it has established about the file there (`PathState`) is disturbed by
nobody; a file at the path exists, and a backup has neither this build's schema nor one
that cannot be read. `OneStore` and `LosersRide` are inductive with it.
`UsableStoreStays` is an action property that no run checks: no step but `Upgrade`, which
is an upgrade or damage from outside, replaces or spoils a usable store.

### 5.6 LauncherProofs

`LegsInv`: while the plane is up `extraAddrs` is what the file names, and is what is
served or has ended, together with the leg just published; the pass has only addresses
that never had a leg before it, hence one listener each, and none comes to a leg that
ended. `LaunchInv`: `ensure.lock` is held from the probe to the return, so what the probe
found, that the daemon is not newer or speaks another protocol, still holds at the
replacement, or the daemon it was about is leaving.

### 5.7 What the proofs said about the model

* In `Presence` an attach that left again between the debounce's predicate and its emit
  was not recorded as "inverted", and `AttachedIsSaid` needs it.
* With a grace of zero a connection that found another one connected could attach after
  that one is gone and announce nothing: `PresenceAssumption` excludes it (the code has
  10 s, and the way from look to attach is shorter).
* `SettleUnifies` compared the table `Settle` first read with the one it returned in. A
  row that leaves the window and comes back in between is interference that the
  comparison does not see. The history is now the table of the read that decides.
* `left` kept a subject that was bound again, so a channel that found it by its new owner
  would have counted as stranded.

### 5.8 Only model-checked

`EventuallyDelivered`, `PromptRelease`, `RegistrationCompletes`, `DrainSettles`,
`FlagSettles`, `Recovers`, `LaunchersReturn`, `CertRenewed`, `LegsFollowAddresses` and
`ConnectionsEnd`: liveness under fairness is out of the prover's reach.

## 6. Where code and comments disagree

* `query_error_stall`: `flushSince` returns silently when its query fails
  (`sse/sse.go:277`) with the wakeup already taken; on a subject that stays quiet
  the row waits on an open stream. `event/bus.go:7` says one wakeup drains every
  event.
* `muted_backlog`: a muted row moves only the connection's cursor
  (`sse/sse.go:287`); a reconnect after the un-mute delivers it.
  `sse/sse.go:94` says an un-mute never delivers the backlog.
* `registry_mirror`: `agent-stop` is outside `registerMu` (`daemon/agents.go:401`),
  so a stop between `RegisterAgent` and `subscriptions.set` of the same agent
  leaves a done agent subscribed. `daemon/subscriptions.go:14` says the registry
  mirrors the table.
* `channel_follow`: the window-moved frame is not persisted and reaches only a stream
  that is attached with an empty queue (`daemon/handlers.go:78`,
  `sse/sse.go:302-328`). A channel that has resolved the boot subject and not yet
  attached streams it from then on. `daemon/handlers.go:67` says the resume tells the
  channel to move, `cmd/channel.go:62` that the resume moves the stream. A queue full
  with a probe, a dropped connection and a `Settle` that fails after the detach have
  the same effect (`StrandedOnlyIfMissed` shows there is no other).

Seen on the way, and not runs of their own:

* `Direct` relays a supersede directive to a loser that stopped after the sweep's list
  (`daemon/agents.go:241`); the comment at `daemon/agents.go:417` says it never
  triggers a relay. It costs a needless announcement.
* `PresenceDebounce` (`daemon/config.go:146`) shorter than `attachGrace` makes every
  timer find the consumer connected by grace, so the disconnect is never emitted. The
  comment on `DefaultPresenceDebounce` demands the order; nothing enforces it.
  `FlagSettles` fails in an instance with grace 2 and debounce 1.
* The comment on `EnsureCurrent` (`daemon/launcher.go:49-50`) says a newer incumbent
  refuses "instead of being rolled back". One of another wire protocol cannot be ordered and is replaced, newer or not
  (`daemon/launcher.go:68`). It is the second exception of `NoRollback`.
* `Tailnet.URLs` is documented as nil "when no tailnet leg serves" (`tailnet/tailnet.go:63`).
  A leg that ended on an `Accept` error stays in `extraAddrs`: it is advertised, and no
  pass binds its address again before the daemon restarts.
* The archive policy is documented as ending the crash-loop a drifted store would cause
  (`store/schema_archive.go:48-52`). A store that has this version and cannot be read is
  not archived, so there the loop goes on.
* Two windows' channels on one subject share a cursor file, and the later write stands
  (section 2.1).

## 7. Plan

Done: `EventPlane`, `Mailbox`, `SubjectResolver` with `WindowChannel`, `Presence` with
`Lifecycle`, `StoreOpen`, and `HttpLegs` with `Launcher`, each model-checked and with its
safety properties proved. Next:

1. Safety parts of the liveness properties that can be stated without fairness: an
   await with a release in its channel is never put back to sleep, a drain's phases only
   advance, a failed open leaves nothing that the next one cannot repair.
2. `CursorFiles`: several processes on one cursor file, and its seeding from siblings.

## 8. Not modelled

`vcs/` (runs git, jj or gt as subprocesses over files), the browser client, the plugin
template and the example, transcripts and process inspection: input and output with no
state the properties depend on. Of `daemon/httpauth.go` loopback peers, the comparison and
stripping of a token and the public fallback, of `tailnet/` the text of a URL, the ports
and a machine without a label. In the modelled parts: the anonymous browser stream, heartbeats,
`noteDrain` and the presence window (their effect on muting is `ToggleMute`), the
cursor files of dead siblings, an agent that changes its type when it registers again,
two processes on one cursor file, two builds with one store open at the same time,
requests of the control socket among the users of the store,
a product's own status changes of a subject, and timestamps other than a subject's
`created_at`: the drain's order by `created_at` matters to no property, since a drain
takes everything at once.
