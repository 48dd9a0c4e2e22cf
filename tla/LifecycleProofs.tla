--------------------------- MODULE LifecycleProofs ---------------------------
(***************************************************************************)
(* Proofs about Lifecycle: that the store is lent as StoreLease says, and  *)
(* what the log says of the consumers, for any number of connections and   *)
(* calls and any durations.                                                *)
(*                                                                         *)
(* Two inductive invariants on top of the type invariant.  LeaseInv ties   *)
(* the open store to the phase, and the requests in flight to the shutdown *)
(* worker, which is the one that waits for them.  SaidInv is about the     *)
(* HTTP plane being up: whoever counts as connected has been announced,    *)
(* and whoever left within the grace has a timer that outlasts it.         *)
(***************************************************************************)
EXTENDS Lifecycle, TLAPS

-----------------------------------------------------------------------------
(* The invariants. *)

\* Before the HTTP plane is up.
Early == phase \in {"down", "opened", "reconciled"}

\* Before the HTTP plane is up nobody is in and nothing has been closed.
NobodyYet ==
  Early =>
    /\ \A c \in Conns : place[c] \in {"new", "over"}
    /\ \A d \in Calls : call[d] \in {"new", "over"}
    /\ workers = {} /\ grace = 0
    /\ ~ shut /\ ~ cancelled

\* The store is open from the activation to the last step of Close.
OpenWhen ==
  /\ phase \notin {"down", "closed"} => open
  /\ phase = "down" => ~ open

\* Presence is closed by Close, and then no timer is pending.
ClosedWhen ==
  /\ closed <=> phase \in {"closing", "closed"}
  /\ closed => \A c \in Conns : place[c] # "timer"

\* The plane accepts only while its shutdown worker is still to come, and that
\* worker leaves a request behind only past its deadline.
Guarded ==
  /\ "http" \in workers => "shutdown" \in workers /\ ~ shut
  /\ "shutdown" \notin workers /\ ~ late => InFlight = {}

\* After a drain within its budget nobody is left.
DrainedWhen ==
  phase \in {"drained", "closing", "closed"} => late \/ workers = {}

\* What ties the store and its users to the phase.
LeaseInv == NobodyYet /\ OpenWhen /\ ClosedWhen /\ Guarded /\ DrainedWhen

\* Whoever counts as connected has been announced, or is being announced, or the
\* last word missed it.
ConnectKept ==
  ConsumerConnected =>
    flag \/ slips \cap {"inverted", "connect"} # {} \/ \E c \in Conns : place[c] = "announce"

\* A connection that found another one connected attaches while that holds.
LaterIsConnected == (\E c \in Conns : place[c] = "later") => ConsumerConnected

\* The grace of the last detach is outlasted by the timer of that detach.
GraceOutlasted ==
  grace > 0 =>
    \E c \in Conns : place[c] = "arm" \/ (place[c] = "timer" /\ left[c] >= grace)

\* The boot reconcile has withdrawn the flag before anyone can connect.
Unsaid == phase = "reconciled" => ~ flag

\* What the connect announcement rests on, while the HTTP plane is up.
SaidInv == Present => ConnectKept /\ LaterIsConnected

\* What the disconnect announcement rests on.
WithdrawnInv == Unsaid /\ (Present => GraceOutlasted /\ DisconnectSaid)

-----------------------------------------------------------------------------
(* The steps of Next, flattened. *)

\* The steps of the process itself.
ServeStep ==
  \/ ActivateState \/ Reconcile \/ StartHTTP \/ Ready \/ ActivateError \/ Drain
  \/ Refuse \/ Drained \/ DrainOverrun \/ Close \/ CloseState \/ LeaveOpen
  \/ Exit \/ Crash

\* The steps of its own workers.
WorkerStep == Shutdown \/ ShutdownDone \/ ShutdownOverrun \/ \E w \in workers : WorkerReturns(w)

\* The steps of a named connection and its timer.
ConnStep(c) ==
  \/ EventsRequest(c) \/ Admit(c)
  \/ (Stream(c) \/ Timer(c) \/ ClientGone(c)) /\ UNCHANGED lifeVars

\* The steps of any other request.
CallStep(d) ==
  \/ HTTPRequest(d) \/ DispatchCheck(d) \/ DispatchAdmit(d) \/ DispatchReturn(d)
  \/ RequestReturn(d) \/ Background(d)

\* Every step is one of these.
LEMMA StepCases ==
  ASSUME [Next]_vars
  PROVE  \/ ServeStep \/ WorkerStep \/ Time \/ UNCHANGED vars
         \/ \E c \in Conns : ConnStep(c)
         \/ \E d \in Calls : CallStep(d)
  BY DEF Next, Ladder, OwnWorkers, StreamStep, TimerStep, CallEnds, ServeStep, WorkerStep,
     ConnStep, CallStep

-----------------------------------------------------------------------------
(* Types.  The Boolean flags and the rest are taken apart. *)

\* The Boolean variables.
Flags ==
  /\ closed \in BOOLEAN /\ flag \in BOOLEAN /\ open \in BOOLEAN /\ serving \in BOOLEAN
  /\ cancelled \in BOOLEAN /\ refusing \in BOOLEAN /\ shut \in BOOLEAN /\ late \in BOOLEAN

\* The variables that hold a place, a set or a duration.
Kinds ==
  /\ place \in [Conns -> Places]
  /\ left \in [Conns -> 0 .. Debounce]
  /\ cut \subseteq Conns
  /\ grace \in 0 .. Grace
  /\ slips \subseteq {"inverted", "connect", "disconnect"}
  /\ phase \in Phases
  /\ workers \subseteq {"hook", "http", "shutdown", "background"}
  /\ call \in [Calls -> CallPlaces]

\* The bound on failures.
Faulted == faults \in 0 .. MaxFaults

\* Only a process that is up serves.
ServingUp == serving => phase = "up"

\* TypeOK in parts.
LEMMA TypeParts == TypeOK <=> Flags /\ Kinds /\ Faulted /\ ServingUp
  BY DEF TypeOK, PresenceTypeOK, Flags, Kinds, Faulted, ServingUp

\* The same after a step.
LEMMA TypePartsNext == TypeOK' <=> Flags' /\ Kinds' /\ Faulted' /\ ServingUp'
  BY DEF TypeOK, PresenceTypeOK, Flags, Kinds, Faulted, ServingUp

\* The types hold at first.
LEMMA TypeInit == Init => TypeOK
  <1> SUFFICES ASSUME Init PROVE TypeOK
    OBVIOUS
  <1>1. Flags
    BY DEF Init, PresenceInit, Flags
  <1>2. Kinds /\ Faulted
    BY PresenceAssumption DEF Init, PresenceInit, Kinds, Phases, CallPlaces, Places, Faulted
  <1>3. ServingUp
    BY DEF Init, ServingUp
  <1> QED
    BY <1>1, <1>2, <1>3, TypeParts

\* Every step keeps the flags Boolean.
LEMMA FlagsNext == ASSUME Flags, [Next]_vars PROVE Flags'
  <1> USE DEF Flags, presenceVars, lifeVars, rest
  <1>1. CASE ServeStep
    BY <1>1 DEF ServeStep, ActivateState, Reconcile, BootReconcile, StartHTTP, Ready,
       ActivateError, Drain, Cancel, Refuse, Drained, DrainOverrun, Close, ClosePresence,
       CloseState, LeaveOpen, Exit, Crash, Gone, Lost
  <1>2. CASE WorkerStep
    BY <1>2 DEF WorkerStep, Shutdown, ShutdownDone, ShutdownOverrun, WorkerReturns
  <1>3. ASSUME NEW c \in Conns, ConnStep(c) PROVE Flags'
    BY <1>3 DEF ConnStep, EventsRequest, Request, Admit, Enter, TurnAway, Stream, Look,
       AttachFirst, AttachLater, Announce, StreamEnds, Detach, Arm, Timer, Fire, Check,
       Disconnect, Said, Failed, ClientGone
  <1>4. ASSUME NEW d \in Calls, CallStep(d) PROVE Flags'
    BY <1>4 DEF CallStep, CallTo, HTTPRequest, DispatchCheck, DispatchAdmit, DispatchReturn,
       RequestReturn, Background
  <1>5. CASE Time \/ UNCHANGED vars
    BY <1>5 DEF Time, Tick, vars
  <1> QED
    BY <1>1, <1>2, <1>3, <1>4, <1>5, StepCases

\* Every step keeps places, sets and durations in range.
LEMMA KindsNext == ASSUME Kinds, [Next]_vars PROVE Kinds'
  <1> USE PresenceAssumption DEF Kinds, Phases, Places, CallPlaces, presenceVars, lifeVars, rest,
      Phase, Move
  <1>1. CASE ServeStep
    <2>1. CASE ActivateState \/ Reconcile \/ StartHTTP \/ Ready \/ Refuse \/ Drained
      BY <2>1 DEF ActivateState, Reconcile, BootReconcile, StartHTTP, Ready, Refuse, Drained
    <2>2. CASE ActivateError \/ Drain \/ DrainOverrun \/ CloseState \/ LeaveOpen
      BY <2>2 DEF ActivateError, Drain, Cancel, DrainOverrun, CloseState, LeaveOpen
    <2>3. CASE Close
      BY <2>3 DEF Close, ClosePresence
    <2>4. CASE Exit \/ Crash
      <3>1. Lost /\ phase' = "down" /\ workers' = {} /\ slips' = slips
        BY <2>4 DEF Exit, Crash, Gone
      <3>2. call' = [d \in Calls |-> IF call[d] = "new" THEN "new" ELSE "over"]
        BY <2>4 DEF Exit, Crash, Gone
      <3> QED
        BY <3>1, <3>2 DEF Lost, Forgotten
    <2> QED
      BY <1>1, <2>1, <2>2, <2>3, <2>4 DEF ServeStep
  <1>2. CASE WorkerStep
    BY <1>2 DEF WorkerStep, Shutdown, ShutdownDone, ShutdownOverrun, WorkerReturns
  <1>3. ASSUME NEW c \in Conns, EventsRequest(c) \/ Admit(c) PROVE Kinds'
    BY <1>3 DEF EventsRequest, Request, Admit, Enter, TurnAway
  <1>4. ASSUME NEW c \in Conns, Stream(c), UNCHANGED lifeVars PROVE Kinds'
    <2>1. CASE Look(c) \/ AttachFirst(c) \/ AttachLater(c) \/ StreamEnds(c)
      BY <1>4, <2>1 DEF Look, AttachFirst, AttachLater, StreamEnds
    <2>2. CASE Announce(c)
      <3>1. slips' \subseteq slips \cup {"inverted", "connect", "disconnect"}
        BY <2>2 DEF Announce, Said, Failed
      <3> QED
        BY <1>4, <2>2, <3>1 DEF Announce
    <2>3. CASE Detach(c)
      BY <1>4, <2>3 DEF Detach
    <2>4. CASE Arm(c)
      BY <1>4, <2>4 DEF Arm
    <2> QED
      BY <1>4, <2>1, <2>2, <2>3, <2>4 DEF Stream
  <1>5. ASSUME NEW c \in Conns, Timer(c) \/ ClientGone(c), UNCHANGED lifeVars PROVE Kinds'
    BY <1>5 DEF Timer, Fire, Check, Disconnect, Said, Failed, ClientGone
  <1>6. ASSUME NEW d \in Calls, CallStep(d) PROVE Kinds'
    BY <1>6 DEF CallStep, CallTo, HTTPRequest, DispatchCheck, DispatchAdmit, DispatchReturn,
       RequestReturn, Background
  <1>7. CASE Time
    BY <1>7 DEF Time, Tick, Dec
  <1>8. CASE UNCHANGED vars
    BY <1>8 DEF vars
  <1> QED
    BY <1>1, <1>2, <1>3, <1>4, <1>5, <1>6, <1>7, <1>8, StepCases DEF ConnStep

\* Every step keeps within the bound on failures.
LEMMA FaultedNext == ASSUME Faulted, [Next]_vars PROVE Faulted'
  <1> USE DEF presenceVars, lifeVars, rest
  <1>1. Fault \/ UNCHANGED faults
    <2>1. CASE ServeStep
      BY <2>1 DEF ServeStep, ActivateState, Reconcile, BootReconcile, StartHTTP, Ready,
         ActivateError, Drain, Refuse, Drained, DrainOverrun, Close, ClosePresence, CloseState,
         LeaveOpen, Exit, Crash
    <2>2. CASE WorkerStep
      BY <2>2 DEF WorkerStep, Shutdown, ShutdownDone, ShutdownOverrun, WorkerReturns
    <2>3. ASSUME NEW c \in Conns, ConnStep(c) PROVE Fault \/ UNCHANGED faults
      BY <2>3 DEF ConnStep, EventsRequest, Request, Admit, Enter, TurnAway, Stream, Look,
         AttachFirst, AttachLater, Announce, StreamEnds, Detach, Arm, Timer, Fire, Check,
         Disconnect, Said, ClientGone
    <2>4. ASSUME NEW d \in Calls, CallStep(d) PROVE Fault \/ UNCHANGED faults
      BY <2>4 DEF CallStep, CallTo, HTTPRequest, DispatchCheck, DispatchAdmit, DispatchReturn,
         RequestReturn, Background
    <2>5. CASE Time \/ UNCHANGED vars
      BY <2>5 DEF Time, Tick, vars
    <2> QED
      BY <2>1, <2>2, <2>3, <2>4, <2>5, StepCases
  <1> QED
    BY <1>1, PresenceAssumption DEF Faulted, Fault

\* Leaving phase up ends the serving.
LEMMA ServingUpNext == ASSUME ServingUp, [Next]_vars PROVE ServingUp'
  <1> USE DEF ServingUp, presenceVars, lifeVars, rest
  <1>1. CASE ServeStep
    BY <1>1 DEF Phase, ServeStep, ActivateState, Reconcile, StartHTTP, Ready,
       ActivateError, Drain, Cancel, Refuse, Drained, DrainOverrun, Close, CloseState,
       LeaveOpen, Exit, Crash, Gone
  <1>2. UNCHANGED <<serving, phase>> => ServingUp'
    OBVIOUS
  <1>3. CASE WorkerStep
    BY <1>2, <1>3 DEF WorkerStep, Shutdown, ShutdownDone, ShutdownOverrun, WorkerReturns
  <1>4. ASSUME NEW c \in Conns, ConnStep(c) PROVE ServingUp'
    BY <1>2, <1>4 DEF ConnStep, EventsRequest, Admit
  <1>5. ASSUME NEW d \in Calls, CallStep(d) PROVE ServingUp'
    BY <1>2, <1>5 DEF CallStep, CallTo, HTTPRequest, DispatchCheck, DispatchAdmit,
       DispatchReturn, RequestReturn, Background
  <1>6. CASE Time \/ UNCHANGED vars
    BY <1>2, <1>6 DEF Time, vars
  <1> QED
    BY <1>1, <1>3, <1>4, <1>5, <1>6, StepCases

\* Every step keeps the types.
LEMMA TypeNext == TypeOK /\ [Next]_vars => TypeOK'
  BY TypeParts, TypePartsNext, FlagsNext, KindsNext, FaultedNext, ServingUpNext

\* Every variable of the daemon's lifecycle and of presence keeps its type.
THEOREM LifecycleTypeOK == Spec => []TypeOK
  <1>1. TypeOK /\ [][Next]_vars => []TypeOK
    BY TypeNext, PTL
  <1> QED
    BY <1>1, TypeInit, PTL DEF Spec

-----------------------------------------------------------------------------
(* The lease. *)

\* A process that is not there has nobody in it.
LEMMA LeaseInvInit == Init => LeaseInv
  BY DEF Init, PresenceInit, LeaseInv, NobodyYet, OpenWhen, ClosedWhen, Guarded, DrainedWhen,
     Early, InFlight, InHandler

\* Workers, connections, calls and time leave the process where it is.
LEMMA PhaseKept ==
  ASSUME WorkerStep \/ Time \/ (\E c \in Conns : ConnStep(c)) \/ (\E d \in Calls : CallStep(d))
         \/ UNCHANGED vars
  PROVE  UNCHANGED <<phase, open, closed>>
  <1> USE DEF presenceVars, lifeVars, rest
  <1>1. CASE WorkerStep
    BY <1>1 DEF WorkerStep, Shutdown, ShutdownDone, ShutdownOverrun, WorkerReturns
  <1>2. CASE Time \/ UNCHANGED vars
    BY <1>2 DEF Time, Tick, vars
  <1>3. ASSUME NEW c \in Conns, ConnStep(c) PROVE UNCHANGED <<phase, open, closed>>
    BY <1>3 DEF ConnStep, EventsRequest, Request, Admit, Enter, TurnAway, Stream, Look,
       AttachFirst, AttachLater, Announce, StreamEnds, Detach, Arm, Timer, Fire, Check,
       Disconnect, ClientGone
  <1>4. ASSUME NEW d \in Calls, CallStep(d) PROVE UNCHANGED <<phase, open, closed>>
    BY <1>4 DEF CallStep, CallTo, HTTPRequest, DispatchCheck, DispatchAdmit, DispatchReturn,
       RequestReturn, Background
  <1> QED
    BY <1>1, <1>2, <1>3, <1>4

\* Before the HTTP plane is up none of them can step.
LEMMA EarlyIdle ==
  ASSUME NobodyYet, Early
  PROVE  ~ WorkerStep /\ ~ Time /\ (\A c \in Conns : ~ ConnStep(c))
         /\ (\A d \in Calls : ~ CallStep(d))
  <1>1. ~ WorkerStep
    BY DEF NobodyYet, WorkerStep, Shutdown, ShutdownDone, ShutdownOverrun, WorkerReturns
  <1>2. ~ Time
    BY DEF NobodyYet, Time, Tick
  <1>3. ASSUME NEW c \in Conns PROVE ~ ConnStep(c)
    BY DEF NobodyYet, ConnStep, EventsRequest, Accepting, Admit, Enter, TurnAway, Stream, Look,
       AttachFirst, AttachLater, Announce, StreamEnds, Detach, Arm, Timer, Fire, Check,
       Disconnect, ClientGone, InHandler
  <1>4. ASSUME NEW d \in Calls PROVE ~ CallStep(d)
    BY DEF NobodyYet, CallStep, CallTo, HTTPRequest, Accepting, DispatchCheck, DispatchAdmit,
       DispatchReturn, RequestReturn, Background
  <1> QED
    BY <1>1, <1>2, <1>3, <1>4

\* Nobody gets in before startHTTP.
LEMMA NobodyYetNext == ASSUME NobodyYet, [Next]_vars PROVE NobodyYet'
  <1>1. CASE ServeStep
    BY <1>1 DEF NobodyYet, Early, presenceVars, Phase, ServeStep, ActivateState, Reconcile,
       BootReconcile, StartHTTP, Ready, ActivateError, Drain, Cancel, Refuse, Drained,
       DrainOverrun, Close, CloseState, LeaveOpen, Exit, Crash, Gone, Lost, Forgotten
  <1>2. CASE UNCHANGED vars
    BY <1>2 DEF NobodyYet, Early, vars
  <1>3. CASE ~ Early /\ UNCHANGED phase
    BY <1>3 DEF NobodyYet, Early
  <1> QED
    BY <1>1, <1>2, <1>3, EarlyIdle, StepCases, PhaseKept

\* Only CloseState and the end of the process close the store.
LEMMA OpenWhenNext == ASSUME OpenWhen, [Next]_vars PROVE OpenWhen'
  <1>1. CASE ServeStep
    BY <1>1 DEF OpenWhen, presenceVars, Phase, ServeStep, ActivateState, Reconcile,
       StartHTTP, Ready, ActivateError, Drain, Cancel, Refuse, Drained,
       DrainOverrun, Close, CloseState, LeaveOpen, Exit, Crash, Gone
  <1>2. CASE UNCHANGED <<phase, open, closed>>
    BY <1>2 DEF OpenWhen
  <1> QED
    BY <1>1, <1>2, StepCases, PhaseKept

\* Presence is closed with the phase, and its timers are stopped.
LEMMA ClosedWhenNext == ASSUME ClosedWhen, Kinds, [Next]_vars PROVE ClosedWhen'
  <1> USE DEF ClosedWhen, presenceVars
  <1>1. CASE ServeStep
    BY <1>1 DEF Phase, ServeStep, ActivateState, Reconcile, BootReconcile, StartHTTP, Ready,
       ActivateError, Drain, Cancel, Refuse, Drained, DrainOverrun, Close, ClosePresence,
       CloseState, LeaveOpen, Exit, Crash, Gone, Lost, Forgotten
  <1>2. ASSUME UNCHANGED <<phase, open, closed>>,
               closed => \A c \in Conns : place'[c] = "timer" => place[c] = "timer"
        PROVE  ClosedWhen'
    BY <1>2
  <1>3. CASE WorkerStep
    BY <1>2, <1>3, PhaseKept DEF WorkerStep, Shutdown, ShutdownDone, ShutdownOverrun,
       WorkerReturns
  <1>4. CASE Time \/ UNCHANGED vars
    BY <1>2, <1>4, PhaseKept DEF Time, Tick, vars
  <1>5. ASSUME NEW c \in Conns, ConnStep(c) PROVE ClosedWhen'
    BY <1>2, <1>5, PhaseKept DEF Kinds, ConnStep, EventsRequest, Request, Admit, Enter, TurnAway,
       Stream, Look, AttachFirst, AttachLater, Announce, StreamEnds, Detach, Arm, Timer, Fire,
       Check, Disconnect, ClientGone, Move
  <1>6. ASSUME NEW d \in Calls, CallStep(d) PROVE ClosedWhen'
    BY <1>2, <1>6, PhaseKept DEF CallStep, CallTo, HTTPRequest, DispatchCheck, DispatchAdmit,
       DispatchReturn, RequestReturn, Background
  <1> QED
    BY <1>1, <1>3, <1>4, <1>5, <1>6, StepCases

\* A connection comes into flight only while the plane accepts.
LEMMA ConnFlight ==
  ASSUME Kinds, NEW c \in Conns, ConnStep(c)
  PROVE  /\ UNCHANGED <<workers, shut, late>>
         /\ Accepting \/ InFlight' \subseteq InFlight
  <1> USE DEF Kinds, InFlight, InHandler, Move, lifeVars, rest
  <1>1. CASE EventsRequest(c) \/ Admit(c)
    BY <1>1 DEF EventsRequest, Admit, Enter, TurnAway
  <1>2. CASE Stream(c) /\ UNCHANGED lifeVars
    BY <1>2 DEF Stream, Look, AttachFirst, AttachLater, Announce, StreamEnds, Detach, Arm
  <1>3. CASE (Timer(c) \/ ClientGone(c)) /\ UNCHANGED lifeVars
    BY <1>3 DEF Timer, Fire, Check, Disconnect, ClientGone
  <1> QED
    BY <1>1, <1>2, <1>3 DEF ConnStep

\* So does a call; one that is admitted may start the background worker.
LEMMA CallFlight ==
  ASSUME Kinds, NEW d \in Calls, CallStep(d)
  PROVE  /\ UNCHANGED <<shut, late>>
         /\ workers' = workers \/ (workers' = workers \cup {"background"} /\ d \in InFlight)
         /\ Accepting \/ InFlight' \subseteq InFlight
  BY DEF Kinds, InFlight, InHandler, presenceVars, CallStep, CallTo, HTTPRequest,
     DispatchCheck, DispatchAdmit, DispatchReturn, RequestReturn, Background

\* The listener accepts only while the shutdown worker watches it.
LEMMA GuardedNext == ASSUME Guarded, NobodyYet, Kinds, [Next]_vars PROVE Guarded'
  <1> USE DEF Guarded
  <1>1. CASE ServeStep
    <2> USE DEF presenceVars, InFlight, InHandler, Phase
    <2>1. CASE StartHTTP
      BY <2>1 DEF StartHTTP, NobodyYet, Early
    <2>2. CASE Exit \/ Crash
      BY <2>2 DEF Exit, Crash, Gone, Lost, Forgotten
    <2>3. CASE Close
      BY <2>3 DEF Close, ClosePresence
    <2>4. CASE ActivateState \/ Reconcile \/ Ready \/ ActivateError \/ Drain \/ Refuse
               \/ Drained \/ DrainOverrun \/ CloseState \/ LeaveOpen
      BY <2>4 DEF ActivateState, Reconcile, BootReconcile, Ready, ActivateError, Drain, Cancel,
         Refuse, Drained, DrainOverrun, CloseState, LeaveOpen
    <2> QED
      BY <1>1, <2>1, <2>2, <2>3, <2>4 DEF ServeStep
  <1>2. CASE WorkerStep
    BY <1>2 DEF presenceVars, InFlight, InHandler, WorkerStep, Shutdown, ShutdownDone,
       ShutdownOverrun, WorkerReturns
  <1>3. ASSUME NEW c \in Conns, ConnStep(c) PROVE Guarded'
    BY <1>3, ConnFlight DEF Accepting
  <1>4. ASSUME NEW d \in Calls, CallStep(d) PROVE Guarded'
    BY <1>4, CallFlight DEF Accepting
  <1>5. CASE Time \/ UNCHANGED vars
    BY <1>5 DEF Time, Tick, vars, lifeVars, InFlight, InHandler
  <1> QED
    BY <1>1, <1>2, <1>3, <1>4, <1>5, StepCases

\* A drain within its budget leaves no worker.
LEMMA DrainedWhenNext == ASSUME DrainedWhen, Guarded, Kinds, [Next]_vars PROVE DrainedWhen'
  <1> USE DEF DrainedWhen
  <1>1. CASE ServeStep
    BY <1>1 DEF presenceVars, Phase, ServeStep, ActivateState, Reconcile, StartHTTP, Ready,
       ActivateError, Drain, Cancel, Refuse, Drained, Active, DrainOverrun, Close, CloseState,
       LeaveOpen, Exit, Crash, Gone
  <1>2. CASE WorkerStep
    BY <1>2, PhaseKept DEF WorkerStep, Shutdown, ShutdownDone, ShutdownOverrun, WorkerReturns
  <1>3. ASSUME NEW c \in Conns, ConnStep(c) PROVE DrainedWhen'
    BY <1>3, PhaseKept, ConnFlight
  <1>4. ASSUME NEW d \in Calls, CallStep(d) PROVE DrainedWhen'
    BY <1>4, PhaseKept, CallFlight DEF Guarded
  <1>5. CASE Time \/ UNCHANGED vars
    BY <1>5 DEF Time, vars, lifeVars
  <1> QED
    BY <1>1, <1>2, <1>3, <1>4, <1>5, StepCases

\* Every step keeps LeaseInv.
LEMMA LeaseInvNext == TypeOK /\ LeaseInv /\ [Next]_vars => LeaseInv'
  BY TypeParts, NobodyYetNext, OpenWhenNext, ClosedWhenNext, GuardedNext, DrainedWhenNext
     DEF LeaseInv

\* Through start, drain, overruns and crashes the store is open exactly as long as the
\* phase says, and requests outlive the shutdown worker only past its deadline.
THEOREM LifecycleLeaseInv == Spec => []LeaseInv
  <1>1. LeaseInv /\ []TypeOK /\ [][Next]_vars => []LeaseInv
    BY LeaseInvNext, PTL
  <1> QED
    BY <1>1, LeaseInvInit, LifecycleTypeOK, PTL DEF Spec

-----------------------------------------------------------------------------
(* The refinement. *)

\* One user comes when the store is open or a deadline has passed, or one goes.
LentStep ==
  \E u \in Conns \cup Calls \cup {"background"} :
    /\ \/ (open \/ late) /\ Users' = Users \cup {u}
       \/ Users' = Users \ {u}
       \/ Users' = Users
    /\ UNCHANGED <<open, late>>

\* A connection's step borrows or gives back at most its own use.
LEMMA ConnLent ==
  ASSUME TypeOK, LeaseInv, NEW c \in Conns, ConnStep(c) PROVE LentStep
  <1>1. Kinds /\ OpenWhen /\ ClosedWhen /\ NobodyYet /\ Guarded /\ DrainedWhen
    BY TypeParts DEF LeaseInv
  <1>2. UNCHANGED <<open, late, workers>>
    BY <1>1, ConnFlight, PhaseKept
  <1>3. Users' = Users \cup {c} \/ Users' = Users \ {c}
    <2>1. call' = call /\ \A x \in Conns : x # c => place'[x] = place[x]
      BY <1>1 DEF Kinds, Move, lifeVars, rest, ConnStep, EventsRequest, Request, Admit, Enter,
         TurnAway, Stream, Look, AttachFirst, AttachLater, Announce, StreamEnds, Detach, Arm,
         Timer, Fire, Check, Disconnect, ClientGone
    <2>2. \A x : x # c => (x \in Users' <=> x \in Users)
      BY <1>2, <2>1 DEF Users, InFlight, Emitting, InHandler
    <2> QED
      BY <2>2
  <1>4. open \/ late \/ Users' \subseteq Users
    <2>1. CASE Accepting
      BY <2>1, <1>1 DEF Accepting, OpenWhen, DrainedWhen, NobodyYet, Early
    <2>2. CASE place[c] = "timer"
      BY <2>2, <1>1 DEF OpenWhen, ClosedWhen, NobodyYet, Early
    <2>3. CASE ~ Accepting /\ place[c] # "timer"
      BY <2>3, <1>1, <1>2 DEF Kinds, Places, Users, InFlight, Emitting, InHandler, Move, lifeVars,
         rest, ConnStep, EventsRequest, Request, Admit, Enter, TurnAway, Stream, Look,
         AttachFirst, AttachLater, Announce, StreamEnds, Detach, Arm, Timer, Fire, Check,
         Disconnect, ClientGone
    <2> QED
      BY <2>1, <2>2, <2>3
  <1> QED
    BY <1>2, <1>3, <1>4 DEF LentStep

\* A call may work on the store from its arrival on.
LEMMA CallLent ==
  ASSUME TypeOK, LeaseInv, NEW d \in Calls, CallStep(d) PROVE LentStep
  <1>1. Kinds /\ OpenWhen /\ NobodyYet /\ Guarded /\ DrainedWhen
    BY TypeParts DEF LeaseInv
  <1>2. UNCHANGED <<open, late>> /\ place' = place
    BY <1>1, CallFlight, PhaseKept DEF CallStep, CallTo, HTTPRequest, DispatchCheck,
       DispatchAdmit, DispatchReturn, RequestReturn, Background, presenceVars
  <1>3. ASSUME Accepting \/ d \in InFlight PROVE open \/ late
    <2>1. CASE Accepting
      BY <2>1, <1>1 DEF Accepting, OpenWhen, DrainedWhen, NobodyYet, Early
    <2>2. CASE d \in InFlight
      <3>1. phase # "down"
        BY <2>2, <1>1, LifecycleAssumption DEF NobodyYet, Early, InFlight, InHandler
      <3>2. phase = "closed" => late
        BY <2>2, <1>1 DEF DrainedWhen, Guarded
      <3> QED
        BY <1>1, <3>1, <3>2 DEF OpenWhen
    <2> QED
      BY <1>3, <2>1, <2>2
  <1>4. CASE workers' = workers
    <2>1. \A x : x # d => (x \in Users' <=> x \in Users)
      BY <1>1, <1>2, <1>4 DEF Kinds, Users, InFlight, Emitting, InHandler, CallStep, CallTo,
         HTTPRequest, DispatchCheck, DispatchAdmit, DispatchReturn, RequestReturn, Background
    <2>2. Users' = Users \cup {d} \/ Users' = Users \ {d}
      BY <2>1
    <2>3. Accepting \/ Users' \subseteq Users
      BY <1>1, <1>2, <1>4, CallFlight DEF Users, Emitting
    <2> QED
      BY <1>2, <1>3, <2>2, <2>3 DEF LentStep
  <1>5. CASE workers' # workers
    <2>1. workers' = workers \cup {"background"} /\ d \in InFlight
      BY <1>1, <1>5, CallFlight
    <2>2. call' = call
      BY <1>5 DEF CallStep, CallTo, HTTPRequest, DispatchCheck, DispatchAdmit, DispatchReturn,
         RequestReturn, Background
    <2>3. Users' = Users \cup {"background"}
      BY <1>2, <2>1, <2>2 DEF Users, InFlight, Emitting, InHandler
    <2> QED
      BY <1>2, <1>3, <2>1, <2>3 DEF LentStep
  <1> QED
    BY <1>4, <1>5

\* A worker that returns gives the store back; a shutdown past its deadline says so.
LEMMA WorkerLent ==
  ASSUME WorkerStep PROVE LentStep \/ Lease!Overrun
  <1> USE DEF presenceVars, Users, InFlight, Emitting, InHandler
  <1>1. CASE ShutdownOverrun
    BY <1>1 DEF ShutdownOverrun, Lease!Overrun
  <1>2. CASE Shutdown \/ ShutdownDone
    <2>1. Users' = Users /\ UNCHANGED <<open, late>>
      BY <1>2 DEF Shutdown, ShutdownDone
    <2> QED
      BY <2>1 DEF LentStep
  <1>3. ASSUME NEW w \in workers, WorkerReturns(w) PROVE LentStep
    <2>1. UNCHANGED <<open, late>>
      BY <1>3 DEF WorkerReturns
    <2>2. CASE w = "hook"
      BY <1>3, <2>1, <2>2 DEF WorkerReturns, LentStep
    <2>3. CASE w = "background"
      <3>1. \A x : x # w => (x \in Users' <=> x \in Users)
        BY <1>3, <2>3 DEF WorkerReturns
      <3>2. Users' = Users \/ Users' = Users \ {w}
        BY <1>3, <3>1 DEF WorkerReturns
      <3> QED
        BY <2>1, <2>3, <3>2 DEF LentStep
    <2> QED
      BY <1>3, <2>2, <2>3 DEF WorkerReturns
  <1> QED
    BY <1>1, <1>2, <1>3 DEF WorkerStep

\* The process opens the store first and closes it when nobody has it, unless a
\* deadline passed.
LEMMA ServeLent ==
  ASSUME TypeOK, LeaseInv, ServeStep PROVE Lease!LeaseNext \/ UNCHANGED Lease!leaseVars
  <1> USE DEF Lease!LeaseNext, Lease!leaseVars
  <1>1. Kinds /\ OpenWhen /\ NobodyYet /\ Guarded /\ DrainedWhen
    BY TypeParts DEF LeaseInv
  <1>2. CASE ActivateState
    BY <1>1, <1>2 DEF ActivateState, Phase, presenceVars, Users, InFlight, Emitting, InHandler,
       OpenWhen, Lease!Open
  <1>3. CASE CloseState
    <2>1. open /\ (late \/ Users = {})
      BY <1>1, <1>3 DEF CloseState, Phase, OpenWhen, DrainedWhen, Guarded, Users
    <2>2. Users' = Users /\ open' = FALSE /\ late' = late
      BY <1>3 DEF CloseState, presenceVars, Users, InFlight, Emitting, InHandler
    <2> QED
      BY <2>1, <2>2 DEF Lease!Close
  <1>4. CASE DrainOverrun
    BY <1>4 DEF DrainOverrun, presenceVars, Users, InFlight, Emitting, InHandler, Lease!Overrun
  <1>5. CASE Exit \/ Crash
    <2>1. Users' = {}
      BY <1>5 DEF Exit, Crash, Gone, Lost, Forgotten, Users, InFlight, Emitting, InHandler
    <2> QED
      BY <1>5, <2>1 DEF Exit, Crash, Gone, Lease!Vanish
  <1>6. CASE StartHTTP
    BY <1>1, <1>6 DEF StartHTTP, Phase, presenceVars, NobodyYet, Early, Users, InFlight, Emitting,
       InHandler
  <1>7. CASE Close
    <2>1. \A c \in Conns : place'[c] = place[c] \/ (place[c] = "timer" /\ place'[c] = "over")
      BY <1>7 DEF Close, ClosePresence
    <2> QED
      BY <1>7, <2>1 DEF Close, Users, InFlight, Emitting, InHandler
  <1>8. CASE Reconcile \/ Ready \/ ActivateError \/ Drain \/ Refuse \/ Drained \/ LeaveOpen
    BY <1>8 DEF Reconcile, BootReconcile, Ready, ActivateError, Drain, Cancel, Refuse, Drained,
       LeaveOpen, presenceVars, Users, InFlight, Emitting, InHandler
  <1> QED
    BY <1>2, <1>3, <1>4, <1>5, <1>6, <1>7, <1>8 DEF ServeStep

\* Every step of the daemon is a step of the lease or leaves it alone.
LEMMA LeaseStep ==
  TypeOK /\ LeaseInv /\ [Next]_vars => Lease!LeaseNext \/ UNCHANGED Lease!leaseVars
  <1> SUFFICES ASSUME TypeOK, LeaseInv, [Next]_vars
               PROVE  Lease!LeaseNext \/ UNCHANGED Lease!leaseVars
    OBVIOUS
  <1> USE DEF Lease!LeaseNext, Lease!leaseVars
  <1>1. LentStep => Lease!LeaseNext \/ UNCHANGED Lease!leaseVars
    BY DEF LentStep, Lease!Borrow, Lease!Return
  <1>2. CASE Time \/ UNCHANGED vars
    BY <1>2 DEF Time, Tick, vars, lifeVars, Users, InFlight, Emitting, InHandler
  <1> QED
    BY <1>1, <1>2, StepCases, ServeLent, WorkerLent, ConnLent, CallLent

\* The store is lent to its users and closed after the last one (daemon/server.go,
\* Dispatch and Close): the detailed daemon implements the lease.
THEOREM StoreIsLent == Spec => StoreLent
  <1>1. Init => Lease!LeaseInit
    BY DEF Init, PresenceInit, Lease!LeaseInit, Users, InFlight, Emitting, InHandler
  <1>2. []TypeOK /\ []LeaseInv /\ [][Next]_vars => [][Lease!LeaseNext]_(Lease!leaseVars)
    BY LeaseStep, PTL
  <1> QED
    BY <1>1, <1>2, LifecycleTypeOK, LifecycleLeaseInv, PTL DEF Spec, StoreLent, Lease!LeaseSpec

-----------------------------------------------------------------------------
(* What the log says. *)

\* Where a connection is among those that matter here stays, so nothing changes.
LEMMA SaidKept ==
  ASSUME ConnectKept, LaterIsConnected,
         \A x \in Conns :
           /\ place'[x] \in {"announce", "open", "detach"} <=> place[x] \in {"announce", "open", "detach"}
           /\ place'[x] = "announce" <=> place[x] = "announce"
           /\ place'[x] = "later" => place[x] = "later",
         grace' = grace, flag' = flag, slips \subseteq slips'
  PROVE  ConnectKept' /\ LaterIsConnected'
  <1>1. Attached' = Attached
    BY DEF Attached
  <1> QED
    BY <1>1 DEF ConnectKept, LaterIsConnected, ConsumerConnected

\* The steps of a named connection keep what the log says of the attached.
LEMMA SaidConn ==
  ASSUME Kinds, ConnectKept, LaterIsConnected, ~ closed, NEW c \in Conns, ConnStep(c)
  PROVE  ConnectKept' /\ LaterIsConnected'
  <1> USE DEF Kinds, Move, rest
  <1>1. CASE EventsRequest(c) \/ Admit(c)
    BY <1>1, SaidKept DEF EventsRequest, Request, Admit, Enter, TurnAway
  <1>2. CASE Look(c)
    <2>1. CASE ConsumerConnected
      <3>1. Attached' = Attached /\ (ConsumerConnected)'
        BY <1>2, <2>1 DEF Look, Attached, ConsumerConnected
      <3>2. \A x \in Conns : place[x] = "announce" => place'[x] = "announce"
        BY <1>2 DEF Look
      <3> QED
        BY <1>2, <2>1, <3>1, <3>2 DEF Look, ConnectKept, LaterIsConnected
    <2>2. CASE ~ ConsumerConnected
      BY <1>2, <2>2, SaidKept DEF Look
    <2> QED
      BY <2>1, <2>2
  <1>3. CASE AttachFirst(c)
    <2>1. place'[c] = "announce"
      BY <1>3 DEF AttachFirst
    <2> QED
      BY <2>1 DEF ConnectKept, LaterIsConnected, ConsumerConnected, Attached
  <1>4. CASE AttachLater(c)
    <2>1. ConsumerConnected /\ place'[c] = "open"
      BY <1>4 DEF AttachLater, LaterIsConnected
    <2>2. \A x \in Conns : place[x] = "announce" => place'[x] = "announce"
      BY <1>4 DEF AttachLater
    <2> QED
      BY <1>4, <2>1, <2>2 DEF AttachLater, ConnectKept, LaterIsConnected, ConsumerConnected,
         Attached
  <1>5. CASE Announce(c)
    <2>1. place'[c] = "open" /\ (flag' = TRUE \/ "connect" \in slips')
      BY <1>5 DEF Announce, Said, Failed
    <2> QED
      BY <2>1 DEF ConnectKept, LaterIsConnected, ConsumerConnected, Attached
  <1>6. CASE StreamEnds(c)
    BY <1>6, SaidKept DEF StreamEnds
  <1>7. CASE Detach(c)
    <2>1. ConsumerConnected
      BY <1>7 DEF Detach, ConsumerConnected, Attached
    <2>2. ConsumerConnected'
      <3>1. CASE Attached = {c}
        BY <1>7, <3>1, PresenceAssumption DEF Detach, ConsumerConnected
      <3>2. CASE Attached # {c}
        <4>1. PICK x \in Attached : x # c
          BY <1>7, <3>2 DEF Detach, Attached
        <4>2. x \in Attached'
          BY <1>7, <4>1 DEF Detach, Attached
        <4> QED
          BY <4>2 DEF ConsumerConnected
      <3> QED
        BY <3>1, <3>2
    <2>3. \A x \in Conns : place[x] = "announce" => place'[x] = "announce"
      BY <1>7 DEF Detach
    <2> QED
      BY <1>7, <2>1, <2>2, <2>3 DEF Detach, ConnectKept, LaterIsConnected
  <1>8. CASE Arm(c) \/ Fire(c) \/ Check(c)
    BY <1>8, SaidKept DEF Arm, Fire, Check
  <1>9. CASE Disconnect(c)
    <2>1. CASE Said(FALSE)
      <3>1. Attached' = Attached /\ grace' = grace
        BY <1>9 DEF Disconnect, Attached
      <3>2. ConsumerConnected => "inverted" \in slips'
        BY <2>1 DEF Said
      <3>3. \A x \in Conns : place'[x] = "later" => place[x] = "later"
        BY <1>9 DEF Disconnect
      <3> QED
        BY <3>1, <3>2, <3>3 DEF ConnectKept, LaterIsConnected, ConsumerConnected
    <2>2. CASE Failed("disconnect")
      BY <1>9, <2>2, SaidKept DEF Disconnect, Failed
    <2> QED
      BY <1>9, <2>1, <2>2 DEF Disconnect
  <1>10. CASE ClientGone(c)
    BY <1>10, SaidKept DEF ClientGone
  <1> QED
    BY <1>1, <1>2, <1>3, <1>4, <1>5, <1>6, <1>7, <1>8, <1>9, <1>10 DEF ConnStep, Stream, Timer

\* Nobody is present at first.
LEMMA SaidInvInit == Init => SaidInv
  BY DEF Init, SaidInv, Present

\* Every step keeps SaidInv.
LEMMA SaidInvNext == TypeOK /\ LeaseInv /\ SaidInv /\ [Next]_vars => SaidInv'
  <1> SUFFICES ASSUME TypeOK, LeaseInv, SaidInv, [Next]_vars, Present'
               PROVE  ConnectKept' /\ LaterIsConnected'
    BY DEF SaidInv
  <1>1. Kinds /\ ClosedWhen /\ NobodyYet
    BY TypeParts DEF LeaseInv
  <1>2. CASE ServeStep
    <2>1. CASE StartHTTP
      <3>1. \A c \in Conns : place'[c] \in {"new", "over"}
        BY <1>1, <2>1 DEF StartHTTP, Phase, NobodyYet, Early, presenceVars
      <3>2. grace' = 0
        BY <1>1, <2>1 DEF StartHTTP, Phase, NobodyYet, Early, presenceVars
      <3> QED
        BY <3>1, <3>2 DEF ConnectKept, LaterIsConnected, ConsumerConnected, Attached
    <2>2. CASE Ready
      BY <2>2, SaidKept DEF Ready, Phase, SaidInv, Present, presenceVars
    <2>3. StartHTTP \/ Ready
      BY <1>2 DEF Present, Phase, ServeStep, ActivateState, Reconcile, ActivateError, Drain,
         Cancel, Refuse, Drained, DrainOverrun, Close, CloseState, LeaveOpen, Exit, Crash, Gone
    <2> QED
      BY <2>1, <2>2, <2>3
  <1>3. ASSUME WorkerStep \/ Time \/ (\E c \in Conns : ConnStep(c))
               \/ (\E d \in Calls : CallStep(d)) \/ UNCHANGED vars
        PROVE  ~ closed /\ ConnectKept /\ LaterIsConnected
    BY <1>1, <1>3, PhaseKept DEF SaidInv, Present, ClosedWhen
  <1>4. CASE WorkerStep \/ UNCHANGED vars
    BY <1>3, <1>4, SaidKept DEF vars, presenceVars, WorkerStep, Shutdown, ShutdownDone,
       ShutdownOverrun, WorkerReturns
  <1>5. CASE Time
    <2>1. UNCHANGED <<place, flag, slips>> /\ grace' = Dec(grace)
      BY <1>5 DEF Time, Tick
    <2>2. \A c \in Conns : place[c] # "later"
      BY <1>5 DEF Time, Tick
    <2>3. ConsumerConnected' => ConsumerConnected
      BY <1>1, <2>1, PresenceAssumption DEF ConsumerConnected, Attached, Kinds, Dec
    <2> QED
      BY <1>3, <1>5, <2>1, <2>2, <2>3 DEF ConnectKept, LaterIsConnected
  <1>6. ASSUME NEW c \in Conns, ConnStep(c) PROVE ConnectKept' /\ LaterIsConnected'
    BY <1>1, <1>3, <1>6, SaidConn
  <1>7. ASSUME NEW d \in Calls, CallStep(d) PROVE ConnectKept' /\ LaterIsConnected'
    BY <1>3, <1>7, SaidKept DEF presenceVars, CallStep, CallTo, HTTPRequest, DispatchCheck,
       DispatchAdmit, DispatchReturn, RequestReturn, Background
  <1> QED
    BY <1>2, <1>4, <1>5, <1>6, <1>7, StepCases

\* While a consumer is attached the log says so or is about to, for any number of
\* consumers that come and go (sse/sse.go, handleEvents and announceConnect).
THEOREM AttachedIsSaid == Spec => []ConnectedIsSaid
  <1>1. SaidInv /\ []TypeOK /\ []LeaseInv /\ [][Next]_vars => []SaidInv
    BY SaidInvNext, PTL
  <1>2. SaidInv => ConnectedIsSaid
    BY DEF SaidInv, ConnectedIsSaid, ConnectSaid, ConnectKept, ConsumerConnected, Emitting
  <1> QED
    BY <1>1, <1>2, SaidInvInit, LifecycleTypeOK, LifecycleLeaseInv, PTL DEF Spec

\* Nobody who holds the grace or a word to come moves on.
LEMMA WithdrawnKept ==
  ASSUME GraceOutlasted, DisconnectSaid,
         \A x \in Conns :
           /\ place[x] \in {"announce", "open", "detach"} => place'[x] \in {"announce", "open", "detach"}
           /\ place[x] \in {"first", "arm", "timer", "fired", "emit"} => place'[x] = place[x],
         UNCHANGED <<left, grace, flag>>, slips \subseteq slips'
  PROVE  GraceOutlasted' /\ DisconnectSaid'
  <1>1. Attached \subseteq Attached'
    BY DEF Attached
  <1> QED
    BY <1>1 DEF GraceOutlasted, DisconnectSaid

\* The steps of a named connection keep a disconnect on its way.
LEMMA WithdrawnConn ==
  ASSUME Debounce >= Grace, Kinds, GraceOutlasted, DisconnectSaid, ~ closed,
         NEW c \in Conns, ConnStep(c)
  PROVE  GraceOutlasted' /\ DisconnectSaid'
  <1> USE DEF Kinds, Move, rest
  <1>1. CASE EventsRequest(c) \/ Admit(c) \/ Look(c) \/ AttachLater(c) \/ StreamEnds(c)
             \/ ClientGone(c)
    BY <1>1, WithdrawnKept DEF EventsRequest, Request, Admit, Enter, TurnAway, Look, AttachLater,
       StreamEnds, ClientGone
  <1>2. CASE AttachFirst(c) \/ Announce(c)
    <2>1. c \in Attached'
      BY <1>2 DEF AttachFirst, Announce, Attached
    <2>2. UNCHANGED <<left, grace>> /\ \A x \in Conns : x # c => place'[x] = place[x]
      BY <1>2 DEF AttachFirst, Announce
    <2>3. place[c] \in {"first", "announce"}
      BY <1>2 DEF AttachFirst, Announce
    <2> QED
      BY <2>1, <2>2, <2>3 DEF GraceOutlasted, DisconnectSaid
  <1>3. CASE Detach(c)
    <2>1. place'[c] = "arm"
      BY <1>3 DEF Detach
    <2> QED
      BY <2>1 DEF GraceOutlasted, DisconnectSaid
  <1>4. CASE Arm(c)
    <2>1. place'[c] = "timer" /\ left'[c] >= grace'
      BY <1>4, PresenceAssumption DEF Arm
    <2> QED
      BY <2>1 DEF GraceOutlasted, DisconnectSaid
  <1>5. CASE Fire(c)
    <2>1. place'[c] = "fired" /\ place[c] = "timer" /\ left[c] = 0
      BY <1>5 DEF Fire
    <2>2. UNCHANGED <<left, grace>> /\ \A x \in Conns : x # c => place'[x] = place[x]
      BY <1>5 DEF Fire
    <2>3. GraceOutlasted'
      <3> SUFFICES ASSUME grace > 0
                   PROVE  \E x \in Conns : place'[x] = "arm" \/ (place'[x] = "timer" /\ left[x] >= grace)
        BY <2>2 DEF GraceOutlasted
      <3>1. PICK x \in Conns : place[x] = "arm" \/ (place[x] = "timer" /\ left[x] >= grace)
        BY DEF GraceOutlasted
      <3>2. x # c
        BY <2>1, <3>1
      <3> QED
        BY <2>2, <3>1, <3>2
    <2> QED
      BY <2>1, <2>3 DEF DisconnectSaid
  <1>6. CASE Check(c)
    <2>1. place[c] = "fired" /\ UNCHANGED <<left, grace, flag, slips>>
      BY <1>6 DEF Check
    <2>2. \A x \in Conns : x # c => place'[x] = place[x]
      BY <1>6 DEF Check
    <2>3. GraceOutlasted'
      BY <2>1, <2>2 DEF GraceOutlasted
    <2>4. CASE ConsumerConnected
      <3>1. CASE Attached # {}
        <4>1. Attached \subseteq Attached'
          BY <2>1, <2>2 DEF Attached
        <4> QED
          BY <2>3, <3>1, <4>1 DEF DisconnectSaid
      <3>2. CASE grace > 0
        BY <2>1, <2>3, <3>2 DEF GraceOutlasted, DisconnectSaid
      <3> QED
        BY <2>4, <3>1, <3>2 DEF ConsumerConnected
    <2>5. CASE ~ ConsumerConnected
      <3>1. place'[c] = "emit"
        BY <1>6, <2>5 DEF Check
      <3> QED
        BY <2>3, <3>1 DEF DisconnectSaid
    <2> QED
      BY <2>4, <2>5
  <1>7. CASE Disconnect(c)
    <2>1. place[c] = "emit" /\ UNCHANGED <<left, grace>>
      BY <1>7 DEF Disconnect
    <2>2. \A x \in Conns : x # c => place'[x] = place[x]
      BY <1>7 DEF Disconnect
    <2>3. flag' = FALSE \/ "disconnect" \in slips'
      BY <1>7 DEF Disconnect, Said, Failed
    <2> QED
      BY <2>1, <2>2, <2>3 DEF GraceOutlasted, DisconnectSaid
  <1> QED
    BY <1>1, <1>2, <1>3, <1>4, <1>5, <1>6, <1>7 DEF ConnStep, Stream, Timer

\* Nobody is present at first.
LEMMA WithdrawnInvInit == Init => WithdrawnInv
  BY DEF Init, WithdrawnInv, Present, Unsaid

\* BootReconcile is what leads into the phase.
LEMMA UnsaidNext == ASSUME NobodyYet, Unsaid, [Next]_vars PROVE Unsaid'
  <1>1. CASE ServeStep
    BY <1>1 DEF Unsaid, Phase, ServeStep, ActivateState, Reconcile, BootReconcile, StartHTTP,
       Ready, ActivateError, Drain, Cancel, Refuse, Drained, DrainOverrun, Close, CloseState,
       LeaveOpen, Exit, Crash, Gone
  <1>2. CASE UNCHANGED vars
    BY <1>2 DEF Unsaid, vars
  <1>3. CASE ~ Early /\ UNCHANGED phase
    BY <1>3 DEF Unsaid, Early
  <1> QED
    BY <1>1, <1>2, <1>3, EarlyIdle, StepCases, PhaseKept

\* Every step keeps WithdrawnInv, if the debounce is not shorter than the grace.
LEMMA WithdrawnInvNext ==
  ASSUME Debounce >= Grace
  PROVE  TypeOK /\ LeaseInv /\ WithdrawnInv /\ [Next]_vars => WithdrawnInv'
  <1> SUFFICES ASSUME TypeOK, LeaseInv, WithdrawnInv, [Next]_vars, Present'
               PROVE  GraceOutlasted' /\ DisconnectSaid'
    BY UnsaidNext DEF WithdrawnInv, LeaseInv
  <1>1. Kinds /\ ClosedWhen /\ NobodyYet
    BY TypeParts DEF LeaseInv
  <1>2. CASE ServeStep
    <2>1. CASE StartHTTP
      BY <1>1, <2>1 DEF StartHTTP, Phase, NobodyYet, Early, presenceVars, WithdrawnInv, Unsaid,
         GraceOutlasted, DisconnectSaid
    <2>2. CASE Ready
      BY <2>2, WithdrawnKept DEF Ready, Phase, WithdrawnInv, Present, presenceVars
    <2>3. StartHTTP \/ Ready
      BY <1>2 DEF Present, Phase, ServeStep, ActivateState, Reconcile, ActivateError, Drain,
         Cancel, Refuse, Drained, DrainOverrun, Close, CloseState, LeaveOpen, Exit, Crash, Gone
    <2> QED
      BY <2>1, <2>2, <2>3
  <1>3. ASSUME WorkerStep \/ Time \/ (\E c \in Conns : ConnStep(c))
               \/ (\E d \in Calls : CallStep(d)) \/ UNCHANGED vars
        PROVE  ~ closed /\ GraceOutlasted /\ DisconnectSaid
    BY <1>1, <1>3, PhaseKept DEF WithdrawnInv, Present, ClosedWhen
  <1>4. CASE WorkerStep \/ UNCHANGED vars
    BY <1>3, <1>4, WithdrawnKept DEF vars, presenceVars, WorkerStep, Shutdown, ShutdownDone,
       ShutdownOverrun, WorkerReturns
  <1>5. CASE Time
    <2>1. UNCHANGED <<place, flag, slips>> /\ grace' = Dec(grace)
      BY <1>5 DEF Time, Tick
    <2>2. \A c \in Conns : left'[c] = Dec(left[c])
      BY <1>5 DEF Time, Tick
    <2>3. DisconnectSaid'
      BY <1>3, <1>5, <2>1 DEF DisconnectSaid, Attached
    <2>4. GraceOutlasted'
      <3> SUFFICES ASSUME grace' > 0
                   PROVE  \E x \in Conns : place[x] = "arm" \/ (place[x] = "timer" /\ left'[x] >= grace')
        BY <2>1 DEF GraceOutlasted
      <3>1. grace \in Nat /\ grace > 0
        BY <1>1, <2>1, PresenceAssumption DEF Kinds, Dec
      <3>2. PICK x \in Conns : place[x] = "arm" \/ (place[x] = "timer" /\ left[x] >= grace)
        BY <1>3, <1>5, <3>1 DEF GraceOutlasted
      <3>3. left[x] \in Nat
        BY <1>1, PresenceAssumption DEF Kinds
      <3> QED
        BY <2>1, <2>2, <3>1, <3>2, <3>3 DEF Dec
    <2> QED
      BY <2>3, <2>4
  <1>6. ASSUME NEW c \in Conns, ConnStep(c) PROVE GraceOutlasted' /\ DisconnectSaid'
    BY <1>1, <1>3, <1>6, WithdrawnConn
  <1>7. ASSUME NEW d \in Calls, CallStep(d) PROVE GraceOutlasted' /\ DisconnectSaid'
    BY <1>3, <1>7, WithdrawnKept DEF presenceVars, CallStep, CallTo, HTTPRequest, DispatchCheck,
       DispatchAdmit, DispatchReturn, RequestReturn, Background
  <1> QED
    BY <1>2, <1>4, <1>5, <1>6, <1>7, StepCases

\* While nobody is attached a debounce is pending that takes a standing connect
\* back, provided that the debounce is at least the attach grace, which sse.go
\* asks of Config.PresenceDebounce.
THEOREM NobodyAttachedIsSaid ==
  ASSUME Debounce >= Grace
  PROVE  Spec => []DisconnectedIsSaid
  <1>1. WithdrawnInv /\ []TypeOK /\ []LeaseInv /\ [][Next]_vars => []WithdrawnInv
    BY WithdrawnInvNext, PTL
  <1>2. WithdrawnInv => DisconnectedIsSaid
    BY DEF WithdrawnInv, DisconnectedIsSaid
  <1> QED
    BY <1>1, <1>2, WithdrawnInvInit, LifecycleTypeOK, LifecycleLeaseInv, PTL DEF Spec
=============================================================================
