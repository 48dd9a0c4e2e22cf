------------------------------ MODULE Presence -------------------------------
(***************************************************************************)
(* The connected flag of a subject: named SSE connections attach and       *)
(* detach (daemon/activity.go), the first attach announces itself, the     *)
(* last detach is announced after a debounce (sse/sse.go), and the latest  *)
(* presence event in the log is the flag (channel/connectivity.go).        *)
(*                                                                         *)
(* Each connection is used once.  Its place covers the handler from the    *)
(* request to the return and then the debounce timer the handler leaves    *)
(* behind.  Time passes in ticks; a tick is longer than the handler takes  *)
(* from reading the registry to attaching, which waits on nothing.         *)
(***************************************************************************)
EXTENDS Naturals, FiniteSets

CONSTANTS
  Conns,        \* connections of named consumers
  Grace,        \* attachGrace, in ticks
  Debounce,     \* Config.PresenceDebounce, in ticks
  MaxFaults     \* bound: failed appends

ASSUME PresenceAssumption ==
  Grace \in Nat \ {0} /\ Debounce \in Nat /\ MaxFaults \in Nat

VARIABLES
  place,      \* place[c]: where the connection, and later its timer, is
  left,       \* left[c]: ticks left on the timer
  cut,        \* the connections whose request context is cancelled
  grace,      \* ticks left of the grace since the last detach
  closed,     \* presenceClosed
  flag,       \* the latest presence event says connected
  faults,     \* how much of the bound is used
  slips       \* history: how the flag's last word may have missed the truth

presenceVars == <<place, left, cut, grace, closed, flag, faults, slips>>

Places == {"new", "resolve", "look", "first", "later", "announce", "open",
           "detach", "arm", "timer", "fired", "emit", "over"}

\* The handler is running: the HTTP server waits for it at its shutdown.
InHandler(c) == place[c] \in {"resolve", "look", "first", "later", "announce",
                              "open", "detach", "arm"}

\* The registry counts the connection.
Attached == {c \in Conns : place[c] \in {"announce", "open", "detach"}}

\* Activity.AttachedWithin: attached, or the last one dropped within the grace.
ConsumerConnected == Attached # {} \/ grace > 0

\* sse.Server.emitting, the WaitGroup.
Emitting == {c \in Conns : place[c] \in {"announce", "fired", "emit"}}

Move(c, to) == place' = [place EXCEPT ![c] = to]

rest == <<left, cut, grace, closed, flag, faults, slips>>

-----------------------------------------------------------------------------
(* The log. *)

\* OnPresenceChange appends the event, or fails to, and ignores the error.  A
\* disconnect is inverted when a consumer came since the predicate, also one that
\* left again: the next one within its grace announces nothing.
Said(connected) ==
  /\ flag' = connected
  /\ slips' = IF ~ connected /\ ConsumerConnected THEN {"inverted"} ELSE {}
  /\ UNCHANGED faults

\* A request's own context refuses the append once it is cancelled; other
\* failures are faults.
Failed(what) == slips' = slips \cup {what} /\ UNCHANGED flag

Fault == faults < MaxFaults /\ faults' = faults + 1

\* BootReconcile: a flag left behind by a daemon that died is closed out.
BootReconcile ==
  /\ flag' = FALSE
  /\ slips' = {}
  /\ UNCHANGED <<place, left, cut, grace, closed, faults>>

-----------------------------------------------------------------------------
(* handleEvents. *)

\* The request arrives and names a subject that exists.
Request(c) == place[c] = "new" /\ Move(c, "resolve") /\ UNCHANGED rest

\* It is admitted (or turned away: the handler returns).
Enter(c) == place[c] = "resolve" /\ Move(c, "look") /\ UNCHANGED rest
TurnAway(c) == place[c] = "resolve" /\ Move(c, "over") /\ UNCHANGED rest

\* Mutant of Look: read after the attach, so every consumer finds itself.
LookAfter(c) == place[c] = "look" /\ Move(c, "later") /\ UNCHANGED rest

\* wasConnected := ConsumerConnected.
Look(c) ==
  /\ place[c] = "look"
  /\ Move(c, IF ConsumerConnected THEN "later" ELSE "first")
  /\ UNCHANGED rest

\* Attach; the first one enters announceConnect unless presence is closed.
AttachFirst(c) ==
  /\ place[c] = "first"
  /\ Move(c, IF closed THEN "open" ELSE "announce")
  /\ UNCHANGED rest

AttachLater(c) == place[c] = "later" /\ Move(c, "open") /\ UNCHANGED rest

Announce(c) ==
  /\ place[c] = "announce"
  /\ Move(c, "open")
  /\ UNCHANGED <<left, cut, grace, closed>>
  /\ \/ c \notin cut /\ Said(TRUE)
     \/ c \in cut /\ Failed("connect") /\ UNCHANGED faults
     \/ c \notin cut /\ Failed("connect") /\ Fault

\* The client goes away: the request context is cancelled.
ClientGone(c) ==
  /\ InHandler(c) /\ c \notin cut
  /\ cut' = cut \cup {c}
  /\ UNCHANGED <<place, left, grace, closed, flag, faults, slips>>

\* The select sees the cancelled context and the handler runs its defers.
StreamEnds(c) ==
  /\ place[c] = "open" /\ c \in cut
  /\ Move(c, "detach")
  /\ UNCHANGED rest

\* detach: the last one stamps lastDrop.
Detach(c) ==
  /\ place[c] = "detach"
  /\ Move(c, "arm")
  /\ grace' = IF Attached = {c} THEN Grace ELSE grace
  /\ UNCHANGED <<left, cut, closed, flag, faults, slips>>

\* Mutant of Arm: a detach relies on a timer that is already pending.
ArmOnce(c) ==
  /\ place[c] = "arm"
  /\ Move(c, IF closed \/ \E d \in Conns : place[d] = "timer" THEN "over" ELSE "timer")
  /\ left' = [left EXCEPT ![c] = Debounce]
  /\ UNCHANGED <<cut, grace, closed, flag, faults, slips>>

\* debounceDisconnect: every detach starts its own timer.  The handler's return
\* shares the step; an unarmed handler just returns.
Arm(c) ==
  /\ place[c] = "arm"
  /\ Move(c, IF closed THEN "over" ELSE "timer")
  /\ left' = [left EXCEPT ![c] = Debounce]
  /\ UNCHANGED <<cut, grace, closed, flag, faults, slips>>

-----------------------------------------------------------------------------
(* The debounce timer. *)

\* Mutant of Fire: the timer lives on the request's context.
FireIfLive(c) ==
  /\ place[c] = "timer" /\ left[c] = 0 /\ c \notin cut
  /\ Move(c, "fired")
  /\ UNCHANGED rest

\* The timer's function takes itself out of disconnects and counts as emitting.
Fire(c) ==
  /\ place[c] = "timer" /\ left[c] = 0
  /\ Move(c, "fired")
  /\ UNCHANGED rest

\* The predicate, then the emit: two steps.
Check(c) ==
  /\ place[c] = "fired"
  /\ Move(c, IF ConsumerConnected THEN "over" ELSE "emit")
  /\ UNCHANGED rest

Disconnect(c) ==
  /\ place[c] = "emit"
  /\ Move(c, "over")
  /\ UNCHANGED <<left, cut, grace, closed>>
  /\ Said(FALSE) \/ (Failed("disconnect") /\ Fault)

\* ClosePresence: no timer fires and no connect is announced any more.
ClosePresence ==
  /\ closed' = TRUE
  /\ place' = [c \in Conns |-> IF place[c] = "timer" THEN "over" ELSE place[c]]
  /\ UNCHANGED <<left, cut, grace, flag, faults, slips>>

-----------------------------------------------------------------------------

Dec(n) == IF n = 0 THEN 0 ELSE n - 1

\* A tick passes: no connection is between its look and its attach, and no timer
\* that is due has not fired.
Tick ==
  /\ \A c \in Conns : place[c] \notin {"first", "later"}
  /\ \A c \in Conns : place[c] = "timer" => left[c] > 0
  /\ grace > 0 \/ \E c \in Conns : place[c] = "timer"
  /\ grace' = Dec(grace)
  /\ left' = [c \in Conns |-> Dec(left[c])]
  /\ UNCHANGED <<place, cut, closed, flag, faults, slips>>

\* What a new process starts with: nothing but the log.
Forgotten(p) == [c \in Conns |-> IF p[c] = "new" THEN "new" ELSE "over"]

Lost ==
  /\ place' = Forgotten(place)
  /\ left' = [c \in Conns |-> 0]
  /\ cut' = {}
  /\ grace' = 0
  /\ closed' = FALSE

PresenceInit ==
  /\ place = [c \in Conns |-> "new"]
  /\ left = [c \in Conns |-> 0]
  /\ cut = {}
  /\ grace = 0
  /\ closed = FALSE
  /\ flag \in BOOLEAN
  /\ faults = 0
  /\ slips = {}

\* The steps of a handler that is in, and of its timer.
Stream(c) ==
  \/ Look(c) \/ AttachFirst(c) \/ AttachLater(c) \/ Announce(c) \/ StreamEnds(c)
  \/ Detach(c) \/ Arm(c)
Timer(c) == Fire(c) \/ Check(c) \/ Disconnect(c)

-----------------------------------------------------------------------------
(* Properties. *)

\* Every variable of presence holds a value of its kind.
PresenceTypeOK ==
  /\ place \in [Conns -> Places]
  /\ left \in [Conns -> 0 .. Debounce]
  /\ cut \subseteq Conns
  /\ grace \in 0 .. Grace
  /\ closed \in BOOLEAN /\ flag \in BOOLEAN
  /\ faults \in 0 .. MaxFaults
  /\ slips \subseteq {"inverted", "connect", "disconnect"}

\* What the log says of an attached consumer: connected, or a word is being
\* said, or the last word missed it.
ConnectSaid ==
  Attached # {} => flag \/ Emitting # {} \/ slips \cap {"inverted", "connect"} # {}

\* What the log says when nobody is attached: disconnected, or a connection or a
\* debounce is about to speak, or the disconnect could not be appended.
DisconnectSaid ==
  Attached = {} /\ flag =>
    \/ "disconnect" \in slips
    \/ \E c \in Conns : place[c] \in {"first", "arm", "timer", "fired", "emit"}
=============================================================================
