------------------------------- MODULE Launcher ------------------------------
(***************************************************************************)
(* Which build of the daemon runs: launchers of several builds ensure,     *)
(* upgrade and stop one daemon (daemon/launcher.go), whose HTTP plane      *)
(* HttpLegs models.                                                        *)
(*                                                                         *)
(* External, from how the code uses it: daemonkit.Client.Ensure and Stop   *)
(* run one at a time under the start lock; Ensure replaces a daemon of     *)
(* another build, older or newer, once it has left; version.Newer orders   *)
(* releases.  A process that dies releases its locks; the daemon it was    *)
(* starting starts all the same.                                           *)
(***************************************************************************)
EXTENDS HttpLegs

CONSTANTS
  Launchers,
  RuntimeBuild,   \* the release of each launcher's own program
  Wires,          \* the wire protocols the releases may speak
  Nobody

Releases == {RuntimeBuild[l] : l \in Launchers}

ASSUME LauncherAssumption ==
  /\ Nobody \notin Launchers
  /\ RuntimeBuild \in [Launchers -> Nat \ {0}]
  /\ Wires \subseteq [Releases -> Nat]

VARIABLES
  wire,      \* wire[r]: the wire protocol of release r
  daemon,    \* the daemon process: absent, starting, serving or leaving
  build,     \* its release
  tells,     \* its health detail names the release
  job,       \* job[l]: what the launcher does
  saw,       \* saw[l]: the state of the daemon when l probed it
  ensure,    \* who holds ensure.lock
  start      \* who holds daemonkit's start lock

launchVars == <<wire, daemon, build, tells, job, saw, ensure, start>>
vars == <<self, domain, plane, extra, legs, dead, file, rec, cert, mint, conn, trust,
          inputs, faults, wire, daemon, build, tells, job, saw, ensure, start>>

Jobs == {"idle", "turn", "turnIfRunning", "probe", "probeIfRunning",
         "ensure", "converge", "stop", "stopping"}

Newer(a, b) == a > b

Job(l, to) == job' = [job EXCEPT ![l] = to]

\* Mutant of Release: ensure.lock is never closed.
ReleaseStart(l) ==
  /\ start' = IF start = l THEN Nobody ELSE start
  /\ UNCHANGED ensure

\* The launcher returns and its locks are released.
Release(l) ==
  /\ ensure' = IF ensure = l THEN Nobody ELSE ensure
  /\ start' = IF start = l THEN Nobody ELSE start
Return(l) ==
  /\ Job(l, "idle")
  /\ Release(l)
  /\ saw' = [saw EXCEPT ![l] = "absent"]

-----------------------------------------------------------------------------
(* Launchers. *)

\* EnsureCurrent, EnsureCurrentIfRunning or Stop is called.
Call(l) ==
  /\ job[l] = "idle"
  /\ Input
  /\ \E to \in {"turn", "turnIfRunning", "stop"} : Job(l, to)
  /\ UNCHANGED <<self, domain, plane, extra, legs, dead, file, rec, cert, mint, conn, trust, faults>>
  /\ UNCHANGED <<wire, daemon, build, tells, saw, ensure, start>>

\* Mutant of AwaitEnsureTurn: ensures do not wait for each other.
AwaitNothing(l) ==
  /\ job[l] \in {"turn", "turnIfRunning"}
  /\ Job(l, IF job[l] = "turn" THEN "probe" ELSE "probeIfRunning")
  /\ UNCHANGED <<legVars, wire, daemon, build, tells, saw, ensure, start>>

AwaitEnsureTurn(l) ==
  /\ job[l] \in {"turn", "turnIfRunning"} /\ ensure = Nobody
  /\ ensure' = l
  /\ Job(l, IF job[l] = "turn" THEN "probe" ELSE "probeIfRunning")
  /\ UNCHANGED <<legVars, wire, daemon, build, tells, saw, start>>

\* The launcher and the daemon that runs speak the same wire protocol.
Speaks(l) == wire[build] = wire[RuntimeBuild[l]]

\* refuseRollback: only a rollback that can be proved is refused.
Refused(l) == tells /\ Newer(build, RuntimeBuild[l])

\* probeIncumbent: what the daemon's health can answer.  One that starts is not
\* reached, or fails in another way; one of another wire protocol tells nothing.
ProbeIncumbent(l) ==
  CASE daemon = "absent" -> {"ErrAbsent"}
    [] daemon = "starting" -> {"ErrAbsent", "error"}
    [] daemon = "serving" -> {IF ~ Speaks(l) THEN "ErrProtocolMismatch"
                              ELSE IF Refused(l) THEN "ErrIncumbentNewer" ELSE "nil"}
    [] daemon = "leaving" -> {"ErrDraining"} \cup (IF Speaks(l) THEN {} ELSE {"ErrProtocolMismatch"})

\* EnsureCurrent starts an absent daemon, EnsureCurrentIfRunning does not; both
\* go on with one that leaves or speaks another protocol, whatever its release.
EnsureCurrent(l) ==
  /\ job[l] \in {"probe", "probeIfRunning"}
  /\ \E err \in ProbeIncumbent(l) :
       IF \/ err \in {"nil", "ErrDraining", "ErrProtocolMismatch"}
          \/ err = "ErrAbsent" /\ job[l] = "probe"
       THEN /\ Job(l, "ensure")
            /\ saw' = [saw EXCEPT ![l] = daemon]
            /\ UNCHANGED <<ensure, start>>
       ELSE Return(l)
  /\ UNCHANGED <<legVars, wire, daemon, build, tells>>

TakeStart(l) ==
  /\ job[l] \in {"ensure", "stop"} /\ start = Nobody
  /\ start' = l
  /\ Job(l, IF job[l] = "ensure" THEN "converge" ELSE "stopping")
  /\ UNCHANGED <<legVars, wire, daemon, build, tells, saw, ensure>>

\* client.Ensure: the daemon serves this build, or it is made to.
Converged(l) ==
  /\ job[l] = "converge" /\ daemon = "serving" /\ build = RuntimeBuild[l]
  /\ Return(l)
  /\ UNCHANGED <<legVars, wire, daemon, build, tells>>

Replace(l) ==
  /\ job[l] = "converge" /\ daemon = "serving" /\ build # RuntimeBuild[l]
  /\ daemon' = "leaving"
  /\ StopHTTP
  /\ UNCHANGED <<wire, build, tells, job, saw, ensure, start, faults>>

Launch(l) ==
  /\ job[l] = "converge" /\ daemon = "absent"
  /\ daemon' = "starting"
  /\ build' = RuntimeBuild[l]
  /\ tells' \in BOOLEAN
  /\ UNCHANGED <<legVars, wire, job, saw, ensure, start>>

\* client.Stop, without ensure.lock.
Stop(l) ==
  /\ job[l] = "stopping" /\ daemon = "serving"
  /\ daemon' = "leaving"
  /\ StopHTTP
  /\ UNCHANGED <<wire, build, tells, job, saw, ensure, start, faults>>

Stopped(l) ==
  /\ job[l] = "stopping" /\ daemon = "absent"
  /\ Return(l)
  /\ UNCHANGED <<legVars, wire, daemon, build, tells>>

\* A timeout, an error, or the death of the launcher.
GiveUp(l) ==
  /\ job[l] # "idle"
  /\ Return(l)
  /\ Fault
  /\ UNCHANGED <<self, domain, plane, extra, legs, dead, file, rec, cert, mint, conn, trust, inputs>>
  /\ UNCHANGED <<wire, daemon, build, tells>>

-----------------------------------------------------------------------------
(* The daemon. *)

launchers == <<wire, job, saw, ensure, start>>

Gone == daemon' = "absent" /\ build' = 0 /\ tells' = FALSE

Serve ==
  /\ daemon = "starting"
  /\ daemon' = "serving"
  /\ StartHTTP
  /\ UNCHANGED <<build, tells, launchers, faults>>

StartFails ==
  /\ daemon = "starting"
  /\ Gone
  /\ Fault
  /\ UNCHANGED <<self, domain, plane, extra, legs, dead, file, rec, cert, mint, conn, trust, inputs>>
  /\ UNCHANGED launchers

Leave ==
  /\ daemon = "leaving" /\ HTTPStopped
  /\ Gone
  /\ Vanish
  /\ UNCHANGED <<launchers, faults>>

Crash ==
  /\ daemon \in {"serving", "leaving"}
  /\ Gone
  /\ Vanish
  /\ Fault
  /\ UNCHANGED launchers

Init ==
  /\ LegsInit
  /\ wire \in Wires
  /\ daemon = "absent" /\ build = 0 /\ tells = FALSE
  /\ job = [l \in Launchers |-> "idle"]
  /\ saw = [l \in Launchers |-> "absent"]
  /\ ensure = Nobody /\ start = Nobody

LauncherStep(l) ==
  \/ AwaitEnsureTurn(l) \/ EnsureCurrent(l) \/ TakeStart(l) \/ Converged(l)
  \/ Replace(l) \/ Launch(l) \/ Stop(l) \/ Stopped(l)

Next ==
  \/ \E l \in Launchers : Call(l) \/ LauncherStep(l) \/ GiveUp(l)
  \/ Serve \/ StartFails \/ Leave \/ Crash
  \/ (LegsNext /\ UNCHANGED launchVars)

\* Launchers and the daemon keep running; nobody has to call one.  In the daemon
\* the reconcile loop, the sniffers and the trust watchers keep running, their
\* timers fire, and a cancelled request returns.  A connection is in one place at
\* a time, as the daemon is: one condition stands for all of its steps.
Fairness ==
  /\ WF_vars(Pass /\ UNCHANGED launchVars)
  /\ WF_vars(Minted /\ UNCHANGED launchVars)
  /\ \A q \in Peers : WF_vars(ConnStep(q) /\ UNCHANGED launchVars)
  /\ WF_vars(Serve \/ Leave)
  /\ \A l \in Launchers : WF_vars(LauncherStep(l))

Spec == Init /\ [][Next]_vars
FairSpec == Spec /\ Fairness

-----------------------------------------------------------------------------
(* Properties. *)

\* The part of the HTTP plane, and every variable of the launchers and the daemon
\* holds a value of its kind.
TypeOK ==
  /\ LegsTypeOK
  /\ wire \in Wires
  /\ daemon \in {"absent", "starting", "serving", "leaving"}
  /\ build \in Nat /\ tells \in BOOLEAN
  /\ job \in [Launchers -> Jobs]
  /\ saw \in [Launchers -> {"absent", "starting", "serving", "leaving"}]
  /\ ensure \in Launchers \cup {Nobody} /\ start \in Launchers \cup {Nobody}

\* A launcher never puts an older release in the place of a newer one that says
\* what it is over a wire protocol they share: what it probed is what it replaces,
\* since ensures wait for each other.  The exceptions are a daemon left starting by
\* an ensure that gave up, which the probe sees as absent, and one of another
\* protocol, which nothing orders (launcher.go, EnsureCurrent).
NoRollback ==
  [][\A l \in Launchers :
       (Replace(l) /\ tells /\ Newer(build, RuntimeBuild[l])) =>
         saw[l] = "starting" \/ ~ Speaks(l)]_vars

\* Every launch and every stop comes to an end: the two locks are never held
\* against each other, and a daemon that leaves is waited for.
LaunchersReturn == \A l \in Launchers : job[l] # "idle" ~> job[l] = "idle"
=============================================================================
