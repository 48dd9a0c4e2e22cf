------------------------------- MODULE HttpLegs ------------------------------
(***************************************************************************)
(* Where the HTTP plane of the running daemon listens, and who gets in: a  *)
(* leg per tailnet address, added while the daemon runs by the reconcile   *)
(* loop (tailnet/tailnet.go) through AddHTTPListener (daemon/server.go),   *)
(* published in the handshake file (daemon/httpinfo.go); connections that  *)
(* a sniffing listener classifies (tailnet/sniff.go); the certificate that *)
(* a TLS connection needs (tailnet/cert.go); and the trust a live request  *)
(* is checked against again (daemon/httpauth.go).                          *)
(*                                                                         *)
(* Peers connect from another machine to a leg, never over loopback.  The  *)
(* addresses and the certificate domain of the machine, what the trust     *)
(* hooks approve and the age of the certificate change on their own: the   *)
(* mesh is external.                                                       *)
(***************************************************************************)
EXTENDS Naturals, FiniteSets

CONSTANTS
  Addrs,        \* tailnet addresses the machine can have
  NoAddr,
  Domains,      \* certificate domains the machine can have
  NoDomain,
  Peers,        \* connections of mesh peers, each used once
  MaxInputs,    \* bound: calls of the launchers, changes of the mesh
  MaxFaults     \* bound: failures and deaths

ASSUME LegsAssumption ==
  /\ NoAddr \notin Addrs /\ NoDomain \notin Domains /\ "own" \notin Peers
  /\ MaxInputs \in Nat /\ MaxFaults \in Nat

VARIABLES
  self,     \* the addresses the machine has
  domain,   \* its certificate domain, or NoDomain
  plane,    \* the HTTP plane: down, up, or draining once the workers are closed
  extra,    \* Server.extraAddrs
  legs,     \* legs[a]: how many listeners are served on a
  dead,     \* the addresses whose listener ended on an Accept error
  file,     \* the extra addresses in the handshake file
  rec,      \* the reconcile loop: its place, what its pass has left, its listener
  cert,     \* the minted certificate: its age (none, valid, due, expired), its domain
  mint,     \* who holds mintMu (nobody, the boot goroutine, the loop), for which domain
  conn,     \* conn[q]: where the connection is, and on which leg
  trust,    \* what the hooks approve: peers, and the daemon's own name
  inputs, faults  \* how much of the bounds is used

legVars == <<self, domain, plane, extra, legs, dead, file, rec, cert, mint, conn,
             trust, inputs, faults>>

Served == {a \in Addrs : legs[a] > 0}
Resting == [pc |-> "idle", todo |-> {}, cur |-> NoAddr]
NoCert == [age |-> "none", of |-> NoDomain]
NoMint == [by |-> "nobody", of |-> NoDomain]

\* writeHTTPInfo renames a complete file into place.
WriteHTTPInfo(addrs) == file' = addrs

Fault == faults < MaxFaults /\ faults' = faults + 1
Input == inputs < MaxInputs /\ inputs' = inputs + 1

-----------------------------------------------------------------------------
(* The plane. *)

\* armBeforeLegs waits for the boot goroutine's mint, and not for long; without a
\* domain there is none.
ArmBeforeLegs ==
  \/ domain = NoDomain /\ cert' = NoCert /\ mint' = NoMint
  \/ domain # NoDomain /\ cert' = NoCert /\ mint' = [by |-> "boot", of |-> domain]
  \/ domain # NoDomain /\ cert' = [age |-> "valid", of |-> domain] /\ mint' = NoMint

\* NewServer hands the daemon a listener for every address the machine has.
ExtraHTTPListeners == self

\* startHTTP: the listeners are bound, then published, then served.
StartHTTP ==
  /\ plane = "down"
  /\ plane' = "up"
  /\ extra' = ExtraHTTPListeners
  /\ WriteHTTPInfo(extra')
  /\ legs' = [a \in Addrs |-> IF a \in extra' THEN 1 ELSE 0]
  /\ dead' = {}
  /\ ArmBeforeLegs
  /\ UNCHANGED <<self, domain, rec, conn, trust, inputs>>

\* Mutant of StopHTTP: Drain takes one listener from every address.
StopHTTPTwice ==
  /\ plane = "up"
  /\ plane' = "draining"
  /\ legs' = [a \in Addrs |-> legs[a] - 1]
  /\ UNCHANGED <<self, domain, extra, dead, file, rec, cert, mint, conn, trust, inputs>>

\* Drain closes the worker group and Shutdown the listeners.
StopHTTP ==
  /\ plane = "up"
  /\ plane' = "draining"
  /\ legs' = [a \in Addrs |-> 0]
  /\ UNCHANGED <<self, domain, extra, dead, file, rec, cert, mint, conn, trust, inputs>>

\* Drain waited for the reconcile loop, a worker, and for the requests.
HTTPStopped ==
  /\ plane = "draining" /\ rec = Resting
  /\ \A q \in Peers : conn[q].at \notin {"on", "bearer"}

\* The process is gone, with its sockets; the file stays.
Vanish ==
  /\ plane' = "down"
  /\ extra' = {} /\ legs' = [a \in Addrs |-> 0] /\ dead' = {}
  /\ rec' = Resting /\ cert' = NoCert /\ mint' = NoMint
  /\ conn' = [q \in Peers |-> IF conn[q].at = "new" THEN conn[q]
                                                    ELSE [at |-> "over", leg |-> NoAddr]]
  /\ UNCHANGED <<self, domain, file, trust, inputs>>

\* acceptLoop meets an error that is not temporary and serveOn returns: Serve has
\* closed the listener, and extraAddrs and the file keep the address.
LegDies(a) ==
  /\ plane = "up" /\ a \in Served
  /\ legs' = [legs EXCEPT ![a] = @ - 1]
  /\ dead' = dead \cup {a}
  /\ Fault
  /\ UNCHANGED <<self, domain, plane, extra, file, rec, cert, mint, conn, trust, inputs>>

-----------------------------------------------------------------------------
(* reconcilePass and AddHTTPListener. *)

rest == <<self, domain, plane, dead, cert, mint, conn, trust, inputs>>

HTTPExtraAddrs == extra

\* Mutant of Missing: a pass looks at every address again.
MissingAll == self

\* Mutant of Missing: a plane with a leg is left alone.
MissingFirst == IF HTTPExtraAddrs = {} THEN self ELSE {}

\* The addresses that never had a leg; one that comes back still has its own, and
\* one whose listener ended is not bound again.
Missing == self \ HTTPExtraAddrs

\* Mutant of Due: a certificate is renewed for the domain it was minted for.
DueSameDomain == domain # NoDomain /\ cert.age # "valid"

\* ensure mints a certificate that is missing, expired, in its refresh window or of
\* another domain, for a machine that has one.
Due == domain # NoDomain /\ (cert.age # "valid" \/ cert.of # domain)

BeginPass ==
  /\ rec.pc = "idle" /\ plane = "up" /\ (Missing # {} \/ Due)
  /\ rec' = [pc |-> "next", todo |-> Missing, cur |-> NoAddr]
  /\ UNCHANGED <<extra, legs, file, faults>> /\ UNCHANGED rest

\* A listener is bound, or that fails and the pass goes on.
BindLeg(a) ==
  /\ rec.pc = "next" /\ a \in rec.todo /\ a \in self
  /\ rec' = [pc |-> "bound", todo |-> rec.todo \ {a}, cur |-> a]
  /\ UNCHANGED <<extra, legs, file, faults>> /\ UNCHANGED rest

BindFails(a) ==
  /\ rec.pc = "next" /\ a \in rec.todo
  /\ rec' = [rec EXCEPT !.todo = @ \ {a}]
  /\ IF a \in self /\ plane = "up" THEN Fault ELSE UNCHANGED faults
  /\ UNCHANGED <<extra, legs, file>> /\ UNCHANGED rest

NextLeg == rec' = [rec EXCEPT !.pc = "next", !.cur = NoAddr]

\* AddHTTPListener publishes the address before it serves it, and takes it back
\* when the file cannot be written ...
Publish ==
  /\ rec.pc = "bound"
  /\ extra' = extra \cup {rec.cur}
  /\ WriteHTTPInfo(extra')
  /\ rec' = [rec EXCEPT !.pc = "published"]
  /\ UNCHANGED <<legs, faults>> /\ UNCHANGED rest

PublishFails ==
  /\ rec.pc = "bound"
  /\ NextLeg
  /\ Fault
  /\ UNCHANGED <<extra, legs, file>> /\ UNCHANGED rest

\* ... or when the worker group refuses; a failed rewrite is ignored.
ServeLeg ==
  /\ rec.pc = "published" /\ plane = "up"
  /\ legs' = [legs EXCEPT ![rec.cur] = @ + 1]
  /\ NextLeg
  /\ UNCHANGED <<extra, file, faults>> /\ UNCHANGED rest

RefuseLeg ==
  /\ rec.pc = "published" /\ plane # "up"
  /\ extra' = extra \ {rec.cur}
  /\ (WriteHTTPInfo(extra') /\ UNCHANGED faults) \/ (UNCHANGED file /\ Fault)
  /\ NextLeg
  /\ UNCHANGED legs /\ UNCHANGED rest

\* Drain cancels the plane before it closes the worker group: a leg added in
\* between is closed by Shutdown as soon as it is served.
LateLeg ==
  /\ rec.pc = "published" /\ plane = "draining"
  /\ NextLeg
  /\ UNCHANGED <<extra, legs, file, faults>> /\ UNCHANGED rest

\* The pass is over and ensure looks at the certificate.
EndPass ==
  /\ rec.pc = "next" /\ rec.todo = {}
  /\ rec' = [Resting EXCEPT !.pc = "ensure"]
  /\ UNCHANGED <<extra, legs, file, faults>> /\ UNCHANGED rest

-----------------------------------------------------------------------------
(* certManager. *)

mesh == <<self, domain, plane, extra, legs, dead, file, conn, trust, inputs>>

\* ensure skips a machine without a domain, a mint in flight and a certificate that
\* is not due.
EnsureSkip ==
  /\ rec.pc = "ensure" /\ (mint # NoMint \/ ~ Due)
  /\ rec' = Resting
  /\ UNCHANGED <<cert, mint, faults>> /\ UNCHANGED mesh

Ensure ==
  /\ rec.pc = "ensure" /\ mint = NoMint /\ Due
  /\ mint' = [by |-> "loop", of |-> domain]
  /\ rec' = [rec EXCEPT !.pc = "mint"]
  /\ UNCHANGED <<cert, faults>> /\ UNCHANGED mesh

\* The caller of ensure returns: the loop rests, the boot goroutine is gone.
EnsureReturns ==
  /\ mint' = NoMint
  /\ rec' = IF mint.by = "loop" THEN Resting ELSE rec

\* The certificate is of the domain ensure was called with, current or not.
Minted ==
  /\ mint # NoMint
  /\ cert' = [age |-> "valid", of |-> mint.of]
  /\ EnsureReturns
  /\ UNCHANGED faults /\ UNCHANGED mesh

\* A failed mint, or one cut short by the drain, leaves the certificate it found.
MintFails ==
  /\ mint # NoMint
  /\ EnsureReturns
  /\ IF plane = "up" THEN Fault ELSE UNCHANGED faults
  /\ UNCHANGED cert /\ UNCHANGED mesh

\* valid: a certificate is served until it expires.
Valid == cert.age \in {"valid", "due"}

-----------------------------------------------------------------------------
(* What Tailnet.URLs tells people, where the machine has a label and the *)
(* primary listener is on loopback.                                      *)

\* The legs whose port a URL may name: those on an address the machine has; with
\* every leg stale none, unless the machine has no address at all.
canonicalPort ==
  IF extra \cap self # {} THEN extra \cap self
  ELSE IF self # {} THEN {} ELSE extra

\* https on the machine's domain while a certificate for it is valid, else http on
\* the label.
displayURLs ==
  [scheme |-> IF Valid /\ cert.of = domain THEN "https" ELSE "http", legs |-> canonicalPort]

-----------------------------------------------------------------------------
(* Connections. *)

\* A connection moves on.
Move(q, from, to) ==
  /\ conn[q].at = from
  /\ conn' = [conn EXCEPT ![q] = [at |-> to, leg |-> IF to = "over" THEN NoAddr ELSE @.leg]]
  /\ UNCHANGED <<self, domain, plane, extra, legs, dead, file, rec, cert, mint, trust, inputs, faults>>

Open(q) == conn[q].leg \in Served

Dial(q, a) ==
  /\ conn[q].at = "new" /\ a \in Served \cap self
  /\ conn' = [conn EXCEPT ![q] = [at |-> "raw", leg |-> a]]
  /\ UNCHANGED <<self, domain, plane, extra, legs, dead, file, rec, cert, mint, trust, inputs, faults>>

\* acceptLoop gives each connection a goroutine of its own.
AcceptLoop(q) == Open(q) /\ Move(q, "raw", "peek")

\* sniff: the first byte, or the deadline.
FirstByte(q) == Move(q, "peek", "offer")
PeekTimeout(q) == Move(q, "peek", "over")

\* What authHandler reads of a request: the names in Host and Origin, which are
\* the daemon's own, foreign or absent, and whether it carries the token.  An
\* absent Origin may come with a Sec-Fetch-Site that says cross-site.
Requests == [host : {"own", "foreign", ""}, origin : {"own", "foreign", "", "cross-site"},
             token : BOOLEAN]

\* The TrustedOrigin hook approves the names the daemon advertises.
allowedName(name) == name = "own" /\ name \in trust
allowedHost(r) == allowedName(r.host)
allowedOrigin(r) == r.origin = "" \/ allowedName(r.origin)

\* The TrustedPeer hook.
Trusted(q) == q \in trust

\* Where authHandler lets a request get: in on trust, in by its token, or out.
Admitted(q, r) ==
  IF Trusted(q) /\ allowedHost(r) /\ allowedOrigin(r) THEN "on"
  ELSE IF r.token THEN "bearer" ELSE "over"

\* classify hands the connection to the server's Accept, or closes it when the
\* listener is done.
Classify(q) ==
  \/ Open(q) /\ Move(q, "offer", "taken")
  \/ ~ Open(q) /\ Move(q, "offer", "over")

\* The server has read a request, which authHandler admits or refuses.  Past the
\* first byte no deadline is set: a peer may leave its request unfinished.
ReadRequest(q) ==
  /\ conn[q].at = "taken"
  /\ \E to \in {Admitted(q, r) : r \in Requests} : Move(q, "taken", to)

\* The peer goes away, or its TLS handshake fails, as without a valid certificate.
HangUp(q) == Move(q, "taken", "over")

\* A connection the kernel held when the listener closed.
Reset(q) == ~ Open(q) /\ Move(q, "raw", "over")

\* Mutant of Reauth: the verdict at accept is kept.
ReauthNever(q) == FALSE /\ Move(q, "on", "over")

\* What a request was admitted on is asked again: the peer, and the name its Host
\* gave, which its Origin may have repeated.
StillTrusted(q) == Trusted(q) /\ allowedName("own")

\* watchPeerTrust cancels a request whose trust is gone; one that came in by its
\* token is not watched.
Reauth(q) == ~ StillTrusted(q) /\ Move(q, "on", "over")

\* The request ends by itself, or by the serve context.
RequestEnds(q) == Move(q, "on", "over") \/ Move(q, "bearer", "over")

-----------------------------------------------------------------------------
(* The mesh. *)

Change ==
  /\ Input
  /\ UNCHANGED <<plane, extra, legs, dead, file, rec, mint, conn, faults>>

AddrComesOrGoes(a) ==
  /\ Change
  /\ self' = IF a \in self THEN self \ {a} ELSE self \cup {a}
  /\ UNCHANGED <<domain, trust, cert>>

\* Certificates are enabled or disabled, or the machine gets another name.
DomainChanges(d) ==
  /\ Change
  /\ domain # d /\ domain' = d
  /\ UNCHANGED <<self, trust, cert>>

TrustChanges(x) ==
  /\ Change
  /\ trust' = IF x \in trust THEN trust \ {x} ELSE trust \cup {x}
  /\ UNCHANGED <<self, domain, cert>>

CertAges ==
  /\ Change
  /\ \/ cert.age = "valid" /\ cert' = [cert EXCEPT !.age = "due"]
     \/ cert.age = "due" /\ cert' = [cert EXCEPT !.age = "expired"]
  /\ UNCHANGED <<self, domain, trust>>

LegsInit ==
  /\ self = {} /\ domain \in Domains \cup {NoDomain}
  /\ plane = "down" /\ extra = {} /\ file = {}
  /\ legs = [a \in Addrs |-> 0] /\ dead = {}
  /\ rec = Resting /\ cert = NoCert /\ mint = NoMint
  /\ conn = [q \in Peers |-> [at |-> "new", leg |-> NoAddr]]
  /\ trust = Peers \cup {"own"}
  /\ inputs = 0 /\ faults = 0

Pass ==
  \/ BeginPass \/ Publish \/ ServeLeg \/ RefuseLeg \/ EndPass
  \/ EnsureSkip \/ Ensure
  \/ \E a \in Addrs : BindLeg(a) \/ (a \notin self /\ BindFails(a))
ConnStep(q) ==
  \/ AcceptLoop(q) \/ Classify(q) \/ Reset(q) \/ PeekTimeout(q) \/ Reauth(q)
  \/ (plane # "up" /\ RequestEnds(q))

LegsNext ==
  \/ Pass \/ PublishFails \/ LateLeg \/ Minted \/ MintFails \/ CertAges
  \/ \E a \in Addrs : BindFails(a) \/ AddrComesOrGoes(a) \/ LegDies(a)
  \/ \E d \in Domains \cup {NoDomain} : DomainChanges(d)
  \/ \E x \in Peers \cup {"own"} : TrustChanges(x)
  \/ \E q \in Peers : \/ ConnStep(q) \/ FirstByte(q) \/ ReadRequest(q) \/ HangUp(q)
                      \/ RequestEnds(q) \/ \E a \in Addrs : Dial(q, a)

-----------------------------------------------------------------------------
(* Properties. *)

\* Every variable of the HTTP plane holds a value of its kind.
LegsTypeOK ==
  /\ self \subseteq Addrs /\ extra \subseteq Addrs /\ file \subseteq Addrs /\ dead \subseteq Addrs
  /\ domain \in Domains \cup {NoDomain}
  /\ plane \in {"down", "up", "draining"}
  /\ legs \in [Addrs -> Nat]
  /\ rec \in [pc : {"idle", "next", "bound", "published", "ensure", "mint"}, todo : SUBSET Addrs,
              cur : Addrs \cup {NoAddr}]
  /\ cert \in [age : {"none", "valid", "due", "expired"}, of : Domains \cup {NoDomain}]
  /\ mint \in [by : {"nobody", "boot", "loop"}, of : Domains \cup {NoDomain}]
  /\ conn \in [Peers -> [at : {"new", "raw", "peek", "offer", "taken", "on", "bearer", "over"},
                         leg : Addrs \cup {NoAddr}]]
  /\ trust \subseteq Peers \cup {"own"}
  /\ inputs \in 0 .. MaxInputs /\ faults \in 0 .. MaxFaults

\* While the plane is up the handshake names the legs that are served, the one
\* about to be and those that ended on an Accept error, and no other; no address
\* gets a second listener; and the URLs lead to a leg on an address the machine
\* still has if there is one, however its addresses come and go (httpinfo.go,
\* HTTPInfo; tailnet.go, reconcilePass and canonicalPort).
HandshakeIsServed ==
  plane = "up" =>
    LET announced == Served \cup dead \cup (IF rec.pc = "published" THEN {rec.cur} ELSE {})
    IN /\ file = announced
       /\ \A a \in Addrs : legs[a] <= IF a \in dead THEN 0 ELSE 1
       /\ displayURLs.legs \subseteq announced
       /\ announced \cap self # {} => displayURLs.legs # {} /\ displayURLs.legs \subseteq self

\* A machine that has a certificate domain gets a valid certificate for it, and
\* another one when that is due, expired or of a former domain, whoever of the boot
\* goroutine and the loop holds mintMu and however their mints fail; unless the
\* domain goes (cert.go, ensure).
CertRenewed ==
  LET Current == cert.age = "valid" /\ cert.of = domain
  IN (plane = "up" /\ domain # NoDomain /\ ~ Current) ~>
       (Current \/ domain = NoDomain \/ plane # "up")

\* An address the machine keeps gets its leg, also after a failed bind.  One whose
\* listener ended on an Accept error stays without.
LegsFollowAddresses ==
  \A a \in Addrs :
    (a \in self /\ a \notin dead /\ plane = "up") ~> (a \in Served \/ a \notin self \/ plane # "up")

\* No connection is left behind by the sniffer, which hands it over or closes it
\* also when its listener ends, and no request outlives the trust it was admitted
\* on, in its peer and in the name it asked for (sniff.go, classify; httpauth.go,
\* watchPeerTrust).
ConnectionsEnd ==
  \A q \in Peers :
    /\ conn[q].at \in {"raw", "peek", "offer"} ~> conn[q].at \in {"taken", "on", "bearer", "over"}
    /\ (conn[q].at = "on" /\ ~ {q, "own"} \subseteq trust) ~>
         (conn[q].at = "over" \/ {q, "own"} \subseteq trust)
=============================================================================
