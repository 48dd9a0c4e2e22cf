---------------------------- MODULE LauncherProofs ---------------------------
(***************************************************************************)
(* Proofs about Launcher and the HTTP legs of the daemon it launches, for  *)
(* any launchers, releases, addresses and peers.                           *)
(*                                                                         *)
(* LegsInv is about the plane: while it is up, extraAddrs is what is       *)
(* served, what ended on an Accept error and the leg about to be, and the  *)
(* reconcile pass has only addresses without a leg before it.  LaunchInv   *)
(* is about the launchers: whoever is past its turn holds ensure.lock, so  *)
(* nobody else launches between its probe and its replacement.             *)
(***************************************************************************)
EXTENDS Launcher, TLAPS

-----------------------------------------------------------------------------
(* The invariants. *)

\* The address AddHTTPListener has published and not served yet.
Pending == IF rec.pc = "published" THEN {rec.cur} ELSE {}

\* The loop has a listener in its hands exactly while it adds it, and waits for
\* its own mint while it holds mintMu.
LoopShape ==
  /\ rec.pc \in {"bound", "published"} => rec.cur \in Addrs
  /\ mint.by = "loop" => rec.pc = "mint"
  /\ plane = "down" => rec.pc = "idle" /\ rec.todo = {}

\* What the file, extraAddrs and the listeners have to do with each other.
LegsServed ==
  plane = "up" =>
    /\ file = extra
    /\ extra = Served \cup dead \cup Pending
    /\ Served \cap Pending = {} /\ dead \cap (Served \cup Pending) = {}
    /\ \A a \in Addrs : legs[a] <= 1

\* What the pass still has to bind, or has bound, has no leg.
PassIsMissing ==
  plane = "up" =>
    /\ rec.todo \cap extra = {}
    /\ rec.pc = "bound" => rec.cur \notin extra
    /\ rec.pc \in {"bound", "published"} => rec.cur \notin rec.todo

\* What the handshake rests on.
LegsInv == LoopShape /\ LegsServed /\ PassIsMissing

\* The launchers that have had their turn.
InTurn == {"probe", "probeIfRunning", "ensure", "converge"}

\* The launcher may replace the daemon without rolling it back.
NotNewer(l) == ~ (tells /\ Newer(build, RuntimeBuild[l]) /\ Speaks(l))

\* ensure.lock is held from the probe to the return.
TurnHeld == \A l \in Launchers : job[l] \in InTurn => ensure = l

\* A daemon that is not there has no release.
AbsentIsBlank == daemon = "absent" => build = 0 /\ ~ tells

\* What the probe found out still holds, or the daemon it was about is leaving.
ProbeHolds ==
  \A l \in Launchers :
    job[l] \in {"ensure", "converge"} /\ saw[l] # "starting" =>
      daemon = "leaving" \/ NotNewer(l)

\* What the order of the releases rests on.
LaunchInv == TurnHeld /\ AbsentIsBlank /\ ProbeHolds

-----------------------------------------------------------------------------
(* The steps of Next, flattened. *)

\* The steps of the plane that change neither its file nor its legs.
ConnOrMesh ==
  \/ CertAges
  \/ \E a \in Addrs : AddrComesOrGoes(a)
  \/ \E d \in Domains \cup {NoDomain} : DomainChanges(d)
  \/ \E x \in Peers \cup {"own"} : TrustChanges(x)
  \/ \E q \in Peers : \/ ConnStep(q) \/ FirstByte(q) \/ ReadRequest(q) \/ HangUp(q)
                      \/ RequestEnds(q) \/ \E a \in Addrs : Dial(q, a)

\* The steps of the reconcile loop, of a mint and of a listener.
LoopStep ==
  \/ BeginPass \/ Publish \/ PublishFails \/ ServeLeg \/ RefuseLeg \/ LateLeg \/ EndPass
  \/ EnsureSkip \/ Ensure \/ Minted \/ MintFails
  \/ \E a \in Addrs : BindLeg(a) \/ BindFails(a) \/ LegDies(a)

\* The steps that leave the plane alone.
Aside ==
  \/ \E l \in Launchers :
       \/ Call(l) \/ AwaitEnsureTurn(l) \/ EnsureCurrent(l) \/ TakeStart(l) \/ Converged(l)
       \/ Launch(l) \/ Stopped(l) \/ GiveUp(l)
  \/ StartFails

\* Every step is one of these.
LEMMA StepCases ==
  ASSUME [Next]_vars
  PROVE  \/ ((ConnOrMesh \/ LoopStep) /\ UNCHANGED launchVars)
         \/ Aside
         \/ \E l \in Launchers : Replace(l) \/ Stop(l)
         \/ Serve \/ Leave \/ Crash
         \/ UNCHANGED vars
  BY DEF Next, LegsNext, Pass, LauncherStep, ConnOrMesh, LoopStep, Aside

\* Launchers leave the plane alone.
LEMMA AsideKeeps ==
  ASSUME Aside
  PROVE  UNCHANGED <<self, domain, plane, extra, legs, dead, file, rec, cert, mint, conn, trust>>
  BY DEF Aside, Call, AwaitEnsureTurn, EnsureCurrent, TakeStart, Converged, Launch, Stopped, GiveUp,
     StartFails, legVars

\* Connections and the mesh leave the loop and its legs alone.
LEMMA ConnOrMeshKeeps ==
  ASSUME ConnOrMesh
  PROVE  UNCHANGED <<plane, extra, legs, dead, file, rec, mint, faults>>
  BY DEF ConnOrMesh, CertAges, Change, AddrComesOrGoes, DomainChanges, ConnStep, AcceptLoop, Move,
     Classify, ReadRequest, HangUp, Reset, PeekTimeout, Reauth, FirstByte, RequestEnds, TrustChanges, Dial

-----------------------------------------------------------------------------
(* Types. *)

\* The kinds of the plane's variables.
LoopKinds ==
  /\ extra \subseteq Addrs /\ file \subseteq Addrs /\ dead \subseteq Addrs
  /\ plane \in {"down", "up", "draining"}
  /\ legs \in [Addrs -> Nat]
  /\ rec \in [pc : {"idle", "next", "bound", "published", "ensure", "mint"}, todo : SUBSET Addrs,
              cur : Addrs \cup {NoAddr}]
  /\ mint \in [by : {"nobody", "boot", "loop"}, of : Domains \cup {NoDomain}]

\* The kinds of the mesh.
MeshKinds ==
  /\ self \subseteq Addrs
  /\ domain \in Domains \cup {NoDomain}
  /\ cert \in [age : {"none", "valid", "due", "expired"}, of : Domains \cup {NoDomain}]
  /\ conn \in [Peers -> [at : {"new", "raw", "peek", "offer", "taken", "on", "bearer", "over"},
                         leg : Addrs \cup {NoAddr}]]
  /\ trust \subseteq Peers \cup {"own"}

\* The bounds on inputs and failures.
Bounded == inputs \in 0 .. MaxInputs /\ faults \in 0 .. MaxFaults

\* The kinds of the launchers' variables and of the daemon's.
LaunchKinds ==
  /\ wire \in Wires
  /\ daemon \in {"absent", "starting", "serving", "leaving"}
  /\ build \in Nat
  /\ job \in [Launchers -> Jobs]
  /\ saw \in [Launchers -> {"absent", "starting", "serving", "leaving"}]
  /\ ensure \in Launchers \cup {Nobody} /\ start \in Launchers \cup {Nobody}

\* TypeOK in parts.
LEMMA TypeParts ==
  TypeOK <=> LoopKinds /\ MeshKinds /\ Bounded /\ LaunchKinds /\ tells \in BOOLEAN
  BY Zenon DEF TypeOK, LegsTypeOK, LoopKinds, MeshKinds, Bounded, LaunchKinds

\* The same after a step.
LEMMA TypePartsNext ==
  TypeOK' <=> LoopKinds' /\ MeshKinds' /\ Bounded' /\ LaunchKinds' /\ tells' \in BOOLEAN
  BY Zenon DEF TypeOK, LegsTypeOK, LoopKinds, MeshKinds, Bounded, LaunchKinds

\* The types hold at first.
LEMMA TypeInit == ASSUME Init PROVE TypeOK
  <1>1. LoopKinds
    BY DEF Init, LegsInit, LoopKinds, Resting, NoMint
  <1>2. MeshKinds
    BY LegsAssumption DEF Init, LegsInit, MeshKinds, NoCert
  <1>3. Bounded
    BY LegsAssumption DEF Init, LegsInit, Bounded
  <1>4. LaunchKinds
    BY LauncherAssumption DEF Init, LaunchKinds, Jobs
  <1>5. tells \in BOOLEAN
    BY Zenon DEF Init
  <1> QED
    BY <1>1, <1>2, <1>3, <1>4, <1>5, TypeParts

\* The loop keeps its own kinds.
LEMMA LoopKindsNext ==
  ASSUME LoopKinds, MeshKinds, LoopShape, [Next]_vars PROVE LoopKinds'
  <1> USE DEF LoopKinds, Resting, NoMint
  <1>1. CASE LoopStep
    <2>1. CASE BeginPass \/ EndPass \/ EnsureSkip \/ Ensure \/ Minted \/ MintFails
      BY <2>1 DEF MeshKinds, BeginPass, EndPass, EnsureSkip, Ensure, Minted, MintFails, EnsureReturns,
         rest, mesh, Missing, HTTPExtraAddrs
    <2>2. CASE Publish \/ PublishFails \/ LateLeg
      BY <2>2 DEF LoopShape, Publish, PublishFails, LateLeg, NextLeg, WriteHTTPInfo, rest
    <2>3. CASE ServeLeg
      <3>1. legs' \in [Addrs -> Nat]
        BY <2>3 DEF ServeLeg, LoopShape
      <3> QED
        BY <2>3, <3>1 DEF ServeLeg, NextLeg, rest
    <2>4. CASE RefuseLeg
      <3>1. extra' \subseteq Addrs /\ file' \subseteq Addrs
        BY <2>4 DEF RefuseLeg, WriteHTTPInfo
      <3> QED
        BY <2>4, <3>1 DEF RefuseLeg, NextLeg, rest
    <2>5. ASSUME NEW a \in Addrs, BindLeg(a) \/ BindFails(a) PROVE LoopKinds'
      BY <2>5 DEF BindLeg, BindFails, rest
    <2>6. ASSUME NEW a \in Addrs, LegDies(a) PROVE LoopKinds'
      <3>1. legs[a] - 1 \in Nat
        BY <2>6 DEF LegDies, Served
      <3> QED
        BY <2>6, <3>1 DEF LegDies
    <2> QED
      BY <1>1, <2>1, <2>2, <2>3, <2>4, <2>5, <2>6 DEF LoopStep
  <1>2. CASE ConnOrMesh
    BY <1>2, ConnOrMeshKeeps
  <1>3. CASE Aside
    BY <1>3, AsideKeeps
  <1>4. CASE (\E l \in Launchers : Replace(l) \/ Stop(l)) \/ Serve
    BY <1>4 DEF MeshKinds, Replace, Stop, Serve, StartHTTP, StopHTTP, ExtraHTTPListeners, WriteHTTPInfo,
       ArmBeforeLegs
  <1>5. CASE Leave \/ Crash
    BY <1>5 DEF Leave, Crash, Vanish
  <1>6. CASE UNCHANGED vars
    BY <1>6 DEF vars
  <1> QED
    BY <1>1, <1>2, <1>3, <1>4, <1>5, <1>6, StepCases

\* The mesh keeps its kinds.
LEMMA MeshKindsNext ==
  ASSUME LoopKinds, MeshKinds, [Next]_vars PROVE MeshKinds'
  <1> USE LegsAssumption DEF MeshKinds, NoCert
  <1>1. CASE LoopStep
    BY <1>1 DEF LoopKinds, LoopStep, BeginPass, EndPass, EnsureSkip, Ensure, Minted, MintFails, Publish, PublishFails,
       LateLeg, ServeLeg, RefuseLeg, BindLeg, BindFails, LegDies, rest, mesh
  <1>2. CASE CertAges \/ (\E a \in Addrs : AddrComesOrGoes(a)) \/ (\E x \in Peers \cup {"own"} : TrustChanges(x))
             \/ \E d \in Domains \cup {NoDomain} : DomainChanges(d)
    BY <1>2 DEF CertAges, Change, AddrComesOrGoes, TrustChanges, DomainChanges
  <1>3. ASSUME NEW q \in Peers, ConnStep(q) \/ FirstByte(q) \/ ReadRequest(q) \/ HangUp(q) \/ RequestEnds(q)
        PROVE  MeshKinds'
    <2>1. ASSUME NEW to \in {"peek", "offer", "taken", "on", "bearer", "over"}, NEW from, Move(q, from, to)
          PROVE  MeshKinds'
      BY <2>1 DEF Move
    <2>2. \A r \in Requests : Admitted(q, r) \in {"on", "bearer", "over"}
      BY DEF Admitted
    <2> QED
      BY <1>3, <2>1, <2>2 DEF ConnStep, AcceptLoop, Classify, ReadRequest, HangUp, Reset, PeekTimeout,
         Reauth, FirstByte, RequestEnds
  <1>4. ASSUME NEW q \in Peers, NEW a \in Addrs, Dial(q, a) PROVE MeshKinds'
    BY <1>4 DEF Dial
  <1>5. CASE Aside
    BY <1>5, AsideKeeps
  <1>6. CASE (\E l \in Launchers : Replace(l) \/ Stop(l)) \/ Serve
    BY <1>6 DEF Replace, Stop, Serve, StartHTTP, StopHTTP, ArmBeforeLegs
  <1>7. CASE Leave \/ Crash
    BY <1>7 DEF Leave, Crash, Vanish
  <1>8. CASE UNCHANGED vars
    BY <1>8 DEF vars
  <1> QED
    BY <1>1, <1>2, <1>3, <1>4, <1>5, <1>6, <1>7, <1>8, StepCases DEF ConnOrMesh

\* Inputs and failures are counted up to their bounds.
LEMMA BoundedNext ==
  ASSUME Bounded, [Next]_vars PROVE Bounded'
  <1>1. Fault \/ faults' = faults
    <2>1. CASE LoopStep
      BY <2>1 DEF LoopStep, BeginPass, EndPass, EnsureSkip, Ensure, Minted, MintFails, Publish,
         PublishFails, LateLeg, ServeLeg, RefuseLeg, BindLeg, BindFails, LegDies
    <2>2. CASE Aside
      BY <2>2 DEF Aside, Call, AwaitEnsureTurn, EnsureCurrent, TakeStart, Converged, Launch, Stopped,
         GiveUp, StartFails, legVars
    <2>3. CASE (\E l \in Launchers : Replace(l) \/ Stop(l)) \/ Serve \/ Leave \/ Crash
      BY <2>3 DEF Replace, Stop, Serve, Leave, Crash
    <2>4. CASE UNCHANGED vars
      BY <2>4 DEF vars
    <2> QED
      BY <2>1, <2>2, <2>3, <2>4, ConnOrMeshKeeps, StepCases
  <1>2. Input \/ inputs' = inputs
    <2>1. CASE LoopStep
      BY <2>1 DEF LoopStep, BeginPass, EndPass, EnsureSkip, Ensure, Minted, MintFails, Publish,
         PublishFails, LateLeg, ServeLeg, RefuseLeg, BindLeg, BindFails, LegDies, rest, mesh
    <2>2. CASE Aside
      BY <2>2 DEF Aside, Call, AwaitEnsureTurn, EnsureCurrent, TakeStart, Converged, Launch, Stopped,
         GiveUp, StartFails, legVars
    <2>3. CASE (\E l \in Launchers : Replace(l) \/ Stop(l)) \/ Serve \/ Leave \/ Crash
      BY <2>3 DEF Replace, Stop, Serve, Leave, Crash, StartHTTP, StopHTTP, Vanish
    <2>4. CASE UNCHANGED vars
      BY <2>4 DEF vars
    <2>5. CASE ConnOrMesh
      BY <2>5 DEF ConnOrMesh, CertAges, Change, AddrComesOrGoes, DomainChanges, TrustChanges, ConnStep,
         AcceptLoop, Move, Classify, ReadRequest, HangUp, Reset, PeekTimeout, Reauth, FirstByte,
         RequestEnds, Dial
    <2> QED
      BY <2>1, <2>2, <2>3, <2>4, <2>5, StepCases
  <1> QED
    BY <1>1, <1>2, LegsAssumption DEF Fault, Input, Bounded

\* The launchers keep their kinds, and the daemon its release.
LEMMA LaunchKindsNext ==
  ASSUME LaunchKinds, [Next]_vars PROVE LaunchKinds'
  <1> USE LauncherAssumption DEF LaunchKinds, Jobs
  <1>1. CASE UNCHANGED launchVars \/ UNCHANGED vars
    BY <1>1 DEF launchVars, vars
  <1>2. ASSUME NEW l \in Launchers,
               \/ Call(l) \/ AwaitEnsureTurn(l) \/ TakeStart(l) \/ Launch(l) \/ Replace(l) \/ Stop(l)
        PROVE  LaunchKinds'
    BY <1>2 DEF Call, AwaitEnsureTurn, TakeStart, Launch, Replace, Stop, Job
  <1>3. ASSUME NEW l \in Launchers, EnsureCurrent(l) \/ Converged(l) \/ Stopped(l) \/ GiveUp(l)
        PROVE  LaunchKinds'
    BY <1>3 DEF EnsureCurrent, Converged, Stopped, GiveUp, Job, Return, Release
  <1>4. CASE StartFails \/ Serve \/ Leave \/ Crash
    BY <1>4 DEF StartFails, Serve, Leave, Crash, Gone, launchers
  <1> QED
    BY <1>1, <1>2, <1>3, <1>4, StepCases DEF Aside

\* The health detail names the release or it does not.
LEMMA TellsNext ==
  ASSUME tells \in BOOLEAN, [Next]_vars PROVE tells' \in BOOLEAN
  <1>1. tells' = tells \/ tells' \in BOOLEAN
    <2>1. CASE Aside
      BY <2>1, Zenon DEF Aside, Call, AwaitEnsureTurn, EnsureCurrent, TakeStart, Converged, Launch, Stopped,
         GiveUp, StartFails, Gone
    <2>2. CASE (\E l \in Launchers : Replace(l) \/ Stop(l)) \/ Serve \/ Leave \/ Crash
      BY <2>2, Zenon DEF Replace, Stop, Serve, Leave, Crash, Gone
    <2>3. CASE UNCHANGED launchVars \/ UNCHANGED vars
      BY <2>3, Zenon DEF launchVars, vars
    <2> QED
      BY <2>1, <2>2, <2>3, StepCases, Zenon
  <1> QED
    BY <1>1, Zenon

-----------------------------------------------------------------------------
(* The plane and its legs. *)

\* LegsInv holds at first.
LEMMA LegsInvInit == ASSUME Init PROVE LegsInv
  BY DEF Init, LegsInit, LegsInv, LoopShape, LegsServed, PassIsMissing, Resting, NoMint

\* LegsInv depends on the loop, its legs and the plane.
LEMMA LegsInvKept ==
  ASSUME LegsInv, UNCHANGED <<plane, extra, legs, dead, file, rec, mint>> PROVE LegsInv'
  BY DEF LegsInv, LoopShape, LegsServed, PassIsMissing, Pending, Served

\* The loop keeps LegsInv.
LEMMA LoopLegs ==
  ASSUME LoopKinds, LegsInv, LoopStep PROVE LegsInv'
  <1> USE LegsAssumption DEF LoopKinds, LegsInv, LoopShape, LegsServed, PassIsMissing, Pending, Served
  <1>1. CASE BeginPass
    BY <1>1 DEF BeginPass, Missing, HTTPExtraAddrs, rest
  <1>2. ASSUME NEW a \in Addrs, BindLeg(a) PROVE LegsInv'
    BY <1>2 DEF BindLeg, rest
  <1>3. ASSUME NEW a \in Addrs, BindFails(a) PROVE LegsInv'
    BY <1>3 DEF BindFails, rest
  <1>4. CASE Publish
    <2>1. LoopShape' /\ PassIsMissing'
      BY <1>4 DEF Publish, rest
    <2>2. LegsServed'
      BY <1>4 DEF Publish, WriteHTTPInfo, rest
    <2> QED
      BY <2>1, <2>2
  <1>5. CASE PublishFails
    BY <1>5 DEF PublishFails, NextLeg, rest
  <1>6. CASE ServeLeg
    <2>1. LoopShape' /\ PassIsMissing'
      BY <1>6 DEF ServeLeg, NextLeg, rest
    <2>2. LegsServed'
      <3>1. plane = "up" => legs[rec.cur] = 0 /\ rec.cur \in Addrs
        BY <1>6 DEF ServeLeg
      <3>2. plane = "up" => Served' = Served \cup {rec.cur} /\ \A a \in Addrs : legs'[a] <= 1
        BY <1>6, <3>1 DEF ServeLeg
      <3> QED
        BY <1>6, <3>2 DEF ServeLeg, NextLeg, rest
    <2> QED
      BY <2>1, <2>2
  <1>7. CASE RefuseLeg \/ LateLeg
    BY <1>7 DEF RefuseLeg, LateLeg, NextLeg, rest
  <1>8. CASE EndPass \/ EnsureSkip \/ Ensure \/ Minted \/ MintFails
    BY <1>8 DEF EndPass, EnsureSkip, Ensure, Minted, MintFails, EnsureReturns, Resting, NoMint, rest, mesh
  <1>9. ASSUME NEW a \in Addrs, LegDies(a) PROVE LegsInv'
    <2>1. plane = "up" /\ legs[a] = 1 /\ legs' = [legs EXCEPT ![a] = 0]
      <3>1. plane = "up" /\ legs[a] \in Nat /\ legs[a] > 0 /\ legs[a] <= 1
        BY <1>9 DEF LegDies
      <3>2. legs[a] = 1
        BY <3>1
      <3> QED
        BY <1>9, <3>1, <3>2 DEF LegDies
    <2>2. Served' = Served \ {a} /\ \A b \in Addrs : legs'[b] <= 1
      BY <2>1
    <2> QED
      BY <1>9, <2>1, <2>2 DEF LegDies
  <1> QED
    BY <1>1, <1>2, <1>3, <1>4, <1>5, <1>6, <1>7, <1>8, <1>9 DEF LoopStep

\* Every step keeps LegsInv.
LEMMA LegsInvNext ==
  ASSUME LoopKinds, MeshKinds, LegsInv, [Next]_vars PROVE LegsInv'
  <1>1. CASE LoopStep
    BY <1>1, LoopLegs
  <1>2. CASE ConnOrMesh \/ Aside \/ UNCHANGED vars
    BY <1>2, ConnOrMeshKeeps, AsideKeeps, LegsInvKept DEF vars
  <1>3. CASE \E l \in Launchers : Replace(l) \/ Stop(l)
    BY <1>3 DEF Replace, Stop, StopHTTP, LegsInv, LoopShape, LegsServed, PassIsMissing
  <1>4. CASE Serve
    <2>1. rec.pc = "idle" /\ rec.todo = {} /\ rec' = rec /\ plane' = "up" /\ file' = extra' /\ extra' = self
      BY <1>4 DEF Serve, StartHTTP, LegsInv, LoopShape, WriteHTTPInfo, ExtraHTTPListeners
    <2>2. legs' = [a \in Addrs |-> IF a \in self THEN 1 ELSE 0] /\ dead' = {} /\ mint'.by # "loop"
      BY <1>4 DEF Serve, StartHTTP, ExtraHTTPListeners, ArmBeforeLegs, NoMint
    <2> QED
      BY <2>1, <2>2 DEF LegsInv, LoopShape, LegsServed, PassIsMissing, Pending, Served, MeshKinds
  <1>5. CASE Leave \/ Crash
    BY <1>5 DEF Leave, Crash, Vanish, Resting, NoMint, LegsInv, LoopShape, LegsServed, PassIsMissing
  <1> QED
    BY <1>1, <1>2, <1>3, <1>4, <1>5, StepCases

-----------------------------------------------------------------------------
(* The launchers. *)

\* LaunchInv holds at first.
LEMMA LaunchInvInit == ASSUME Init PROVE LaunchInv
  BY DEF Init, LaunchInv, TurnHeld, InTurn, AbsentIsBlank, ProbeHolds

\* Every step keeps LaunchInv.
LEMMA LaunchInvNext ==
  ASSUME LaunchKinds, tells \in BOOLEAN, LaunchInv, [Next]_vars PROVE LaunchInv'
  <1> USE LauncherAssumption DEF LaunchKinds, LaunchInv, TurnHeld, InTurn, AbsentIsBlank, ProbeHolds, NotNewer,
      Newer, Speaks, Jobs
  <1>1. CASE UNCHANGED launchVars \/ UNCHANGED vars
    BY <1>1 DEF launchVars, vars
  <1>2. ASSUME NEW l \in Launchers, Call(l) \/ AwaitEnsureTurn(l) \/ TakeStart(l) PROVE LaunchInv'
    BY <1>2 DEF Call, AwaitEnsureTurn, TakeStart, Job
  <1>3. ASSUME NEW l \in Launchers, Return(l), UNCHANGED <<wire, daemon, build, tells>> PROVE LaunchInv'
    BY <1>3 DEF Return, Release, Job
  <1>4. ASSUME NEW l \in Launchers, EnsureCurrent(l) PROVE LaunchInv'
    <2>1. PICK err \in ProbeIncumbent(l) :
            \/ Return(l)
            \/ /\ err \in {"nil", "ErrDraining", "ErrProtocolMismatch", "ErrAbsent"}
               /\ Job(l, "ensure") /\ saw' = [saw EXCEPT ![l] = daemon] /\ UNCHANGED <<ensure, start>>
      BY <1>4 DEF EnsureCurrent
    <2>2. UNCHANGED <<wire, daemon, build, tells>> /\ job[l] \in {"probe", "probeIfRunning"}
      BY <1>4 DEF EnsureCurrent
    <2>3. daemon = "serving" /\ err # "ErrIncumbentNewer" => NotNewer(l)
      BY DEF ProbeIncumbent, Refused
    <2>4. CASE ~ Return(l)
      <3>1. daemon \in {"leaving", "starting"} \/ NotNewer(l)
        BY <2>1, <2>3, <2>4
      <3> QED
        BY <2>1, <2>2, <2>4, <3>1 DEF Job
    <2> QED
      BY <1>3, <2>2, <2>4
  <1>5. ASSUME NEW l \in Launchers, Converged(l) \/ Stopped(l) \/ GiveUp(l) PROVE LaunchInv'
    BY <1>3, <1>5 DEF Converged, Stopped, GiveUp
  <1>6. ASSUME NEW l \in Launchers, Launch(l) PROVE LaunchInv'
    BY <1>6 DEF Launch
  <1>7. ASSUME NEW l \in Launchers, Replace(l) \/ Stop(l) PROVE LaunchInv'
    BY <1>7 DEF Replace, Stop
  <1>8. CASE Serve
    BY <1>8 DEF Serve, launchers
  <1>9. CASE StartFails \/ Leave \/ Crash
    BY <1>9 DEF StartFails, Leave, Crash, Gone, launchers
  <1> QED
    BY <1>1, <1>2, <1>4, <1>5, <1>6, <1>7, <1>8, <1>9, StepCases DEF Aside

-----------------------------------------------------------------------------
(* Theorems. *)

\* The inductive invariant.
Inv == TypeOK /\ LegsInv /\ LaunchInv

\* Every step keeps the invariant.
LEMMA InvNext == ASSUME Inv, [Next]_vars PROVE Inv'
  <1>1. LoopKinds /\ MeshKinds /\ Bounded /\ LaunchKinds /\ tells \in BOOLEAN /\ LegsInv /\ LaunchInv
    BY TypeParts, Zenon DEF Inv
  <1>2. LoopShape
    BY <1>1, Zenon DEF LegsInv
  <1>3. TypeOK'
    BY <1>1, <1>2, TypePartsNext, LoopKindsNext, MeshKindsNext, BoundedNext, LaunchKindsNext, TellsNext, Zenon
  <1> QED
    BY <1>1, <1>3, LegsInvNext, LaunchInvNext, Zenon DEF Inv

\* Launchers, the daemon, its reconcile loop and the mesh keep Inv.
THEOREM LauncherInv == Spec => []Inv
  <1>1. Init => Inv
    BY TypeInit, LegsInvInit, LaunchInvInit, Zenon DEF Inv
  <1>2. Inv /\ [][Next]_vars => []Inv
    BY InvNext, PTL
  <1> QED
    BY <1>1, <1>2, PTL DEF Spec

\* Every variable of the launchers, the daemon and its HTTP plane keeps its type.
THEOREM LauncherTypeOK == Spec => []TypeOK
  <1>1. Inv => TypeOK
    BY DEF Inv
  <1> QED
    BY LauncherInv, <1>1, PTL

\* While the plane is up the handshake file names exactly the legs served, the one
\* about to be and those that ended on an Accept error, no address gets a second
\* listener, and the URLs lead to a leg on a live address if there is one
\* (AddHTTPListener, serveOn, reconcilePass, canonicalPort), for any addresses.
THEOREM HandshakeNamesLegs == Spec => []HandshakeIsServed
  <1>1. ASSUME LoopKinds, LegsInv PROVE HandshakeIsServed
    <2>1. displayURLs.legs = canonicalPort
      BY DEF displayURLs
    <2>2. canonicalPort \subseteq extra /\ (extra \cap self # {} => canonicalPort = extra \cap self)
      BY DEF canonicalPort
    <2>3. plane = "up" => \A a \in Addrs : legs[a] <= IF a \in dead THEN 0 ELSE 1
      BY <1>1 DEF LoopKinds, LegsInv, LegsServed, Served
    <2>4. plane = "up" => file = extra /\ extra = Served \cup dead \cup Pending
      BY <1>1 DEF LegsInv, LegsServed
    <2> QED
      BY <2>1, <2>2, <2>3, <2>4 DEF HandshakeIsServed, Pending
  <1>2. Inv => HandshakeIsServed
    BY <1>1, TypeParts, Zenon DEF Inv
  <1> QED
    BY LauncherInv, <1>2, PTL

\* No launcher replaces a newer release that names itself over a wire protocol they
\* share, except one it found starting: between the probe and the replacement nobody
\* else launches, and a daemon that stops meanwhile can only be followed by the
\* launcher's own.
THEOREM NewerReleaseStays == Spec => NoRollback
  <1>1. ASSUME Inv, NEW l \in Launchers, Replace(l), tells, Newer(build, RuntimeBuild[l])
        PROVE  saw[l] = "starting" \/ ~ Speaks(l)
    BY <1>1 DEF Inv, LaunchInv, ProbeHolds, NotNewer, Replace
  <1>2. Inv => [\A l \in Launchers :
                  (Replace(l) /\ tells /\ Newer(build, RuntimeBuild[l])) =>
                    saw[l] = "starting" \/ ~ Speaks(l)]_vars
    BY <1>1
  <1> QED
    BY LauncherInv, <1>2, PTL DEF NoRollback
=============================================================================
