---------------------------- MODULE WindowChannel ----------------------------
(***************************************************************************)
(* SubjectResolver together with the channel server of each window, which  *)
(* resolves the window's subject under the session id it booted with,      *)
(* streams that subject, and resolves again when the daemon injects the    *)
(* window-moved frame.  handleSessionRecord sends that frame when Settle   *)
(* has detached the window's boot subject.                                 *)
(*                                                                         *)
(* The frame goes to the inject queue of the stream (cap 1, never          *)
(* persisted, dropped when full), which lives from attach to detach.       *)
(***************************************************************************)
EXTENDS SubjectResolver

CONSTANTS BootSession  \* the windows with a channel server, and the session id
                       \* that server keeps for life

ASSUME ChannelAssumption ==
  /\ DOMAIN BootSession \subseteq Windows
  /\ \A w \in DOMAIN BootSession : BootSession[w] \in Sessions

Channeled == DOMAIN BootSession

VARIABLES
  chan,     \* chan[w]: the window's channel server
  proven,   \* the windows whose model has acked a channel tag
  left,     \* history: the subjects a Settle of the window detached, and that
            \* nobody has bound again
  missed    \* history: of those, the ones whose frame did not reach a stream

channelVars == <<chan, left, missed, proven>>
vars == <<table, req, live, now, calls, faults, seen, chan, left, missed, proven>>

\* Where the loop of streamToChannel is, the subject, the inject queue.
Channels == [pc : {"poll", "pid", "dial", "open", "gone"}, sub : Ids,
             q : {"empty", "probe", "moved"}]

Polling == [pc |-> "poll", sub |-> 0, q |-> "empty"]

Streams(w, i) == w \in Channeled /\ chan[w].pc = "open" /\ chan[w].sub = i
Become(w, c) == chan' = [chan EXCEPT ![w] = c]
Dial(w, i) == Become(w, [pc |-> "dial", sub |-> i, q |-> "empty"])

\* The frame about subject i that the channel of w will not see.
Miss(w, i) == missed' = [missed EXCEPT ![w] = @ \cup {i}]

-----------------------------------------------------------------------------
(* The daemon's side. *)

\* Mutant of Tell: the frame is addressed to the subject the window now has.
TellHeld(p) ==
  LET w == req[p].pid
  IN /\ SettleReturn(p)
     /\ UNCHANGED <<left, missed, proven>>
     /\ IF w # NoWindow /\ Streams(w, req[p].id) /\ req[p].boot # 0
        THEN Become(w, [chan[w] EXCEPT !.q = "moved"]) ELSE UNCHANGED chan

\* InjectEvent: the frame is queued for the window's stream of subject i, or no
\* stream takes it.
InjectEvent(w, i) ==
  IF Streams(w, i) /\ chan[w].q = "empty"
  THEN Become(w, [chan[w] EXCEPT !.q = "moved"]) /\ UNCHANGED missed
  ELSE Miss(w, i) /\ UNCHANGED chan

\* handleSessionRecord: Settle returned, the boot subject's stream is told.
Tell(p) ==
  /\ SettleReturn(p)
  /\ IF req[p].boot = 0 THEN UNCHANGED <<chan, missed>>
                        ELSE InjectEvent(req[p].pid, req[p].boot)
  /\ UNCHANGED <<left, proven>>

\* The model of w has acked a channel tag.
Proven(w) == w \in proven

\* ChannelState probes an attached window that is not proven.
ChannelState(w) ==
  /\ chan[w].pc = "open" /\ chan[w].q = "empty" /\ ~ Proven(w)
  /\ Become(w, [chan[w] EXCEPT !.q = "probe"])
  /\ UNCHANGED <<resolverVars, left, missed, proven>>

\* handleChannelAck, when the model runs channel-ack.
ChannelAck(w) ==
  /\ chan[w].pc # "gone" /\ ~ Proven(w)
  /\ proven' = proven \cup {w}
  /\ UNCHANGED <<resolverVars, chan, left, missed>>

\* A request's own step, with the history of what Settle detaches and of the
\* errors that keep it from reporting it.  A row that is bound again is history
\* no more.
RequestStep(p) ==
  LET leaves == IF At(p, "detach") /\ table' # table THEN {req[p].boot} ELSE {}
      loses == IF At(p, "move") /\ req'[p].pc = "idle" THEN {req[p].boot} \ {0} ELSE {}
      Still(w, S, T) ==
        {i \in S \cup (IF w = req[p].pid THEN T ELSE {}) : IsDetached(table', i)}
  IN /\ Statement(p) \/ Fail(p)
     /\ left' = [w \in Windows |-> Still(w, left[w], leaves)]
     /\ missed' = [w \in Windows |-> Still(w, missed[w], loses)]
     /\ UNCHANGED <<chan, proven>>

-----------------------------------------------------------------------------
(* The channel server's side. *)

\* handleResolve: Find looks for the exact binding, then for the window's
\* latest subject; with neither, the channel polls again.
FindExact(w) ==
  /\ chan[w].pc = "poll"
  /\ \/ /\ Bound(BootSession[w]) = {}
        /\ Become(w, [chan[w] EXCEPT !.pc = "pid"])
     \/ \E i \in Bound(BootSession[w]) : Dial(w, i)
  /\ UNCHANGED <<resolverVars, left, missed, proven>>

FindWindow(w) ==
  /\ chan[w].pc = "pid"
  /\ IF Owned(w) = {} THEN Become(w, Polling) ELSE Dial(w, Latest(w))
  /\ UNCHANGED <<resolverVars, left, missed, proven>>

\* One poll is answered in two reads of the table.
HandleResolve(w) == FindExact(w) \/ FindWindow(w)

\* The stream is admitted: handleEvents makes its inject queue.
Attach(w) ==
  /\ chan[w].pc = "dial"
  /\ Become(w, [chan[w] EXCEPT !.pc = "open"])
  /\ UNCHANGED <<resolverVars, left, missed, proven>>

\* The connection drops with what is queued; ConsumeEvents dials the same
\* subject again.
Drop(w) ==
  /\ chan[w].pc = "open"
  /\ Dial(w, chan[w].sub)
  /\ IF chan[w].q = "moved" THEN Miss(w, chan[w].sub) ELSE UNCHANGED missed
  /\ UNCHANGED <<resolverVars, left, proven>>

\* A probe reaches StreamEvents and is pushed as a notification.
ReceiveProbe(w) ==
  /\ chan[w].pc = "open" /\ chan[w].q = "probe"
  /\ Become(w, [chan[w] EXCEPT !.q = "empty"])
  /\ UNCHANGED <<resolverVars, left, missed, proven>>

\* window-moved ends the stream and streamToChannel resolves again.
ReceiveMoved(w) ==
  /\ chan[w].pc = "open" /\ chan[w].q = "moved"
  /\ Become(w, Polling)
  /\ UNCHANGED <<resolverVars, left, missed, proven>>

\* The window ends and its channel server with it.
Exit(w) ==
  /\ WindowExit(w)
  /\ chan' = [c \in Channeled |-> IF c = w THEN [Polling EXCEPT !.pc = "gone"] ELSE chan[c]]
  /\ UNCHANGED <<left, missed, proven>>

Init ==
  /\ ResolverInit
  /\ chan = [w \in Channeled |-> Polling]
  /\ left = [w \in Windows |-> {}]
  /\ missed = [w \in Windows |-> {}]
  /\ proven = {}

Next ==
  \/ \E p \in Procs : (Arrive(p) /\ UNCHANGED channelVars) \/ RequestStep(p) \/ Tell(p)
  \/ \E w \in Channeled :
       HandleResolve(w) \/ Attach(w) \/ Drop(w) \/ ReceiveProbe(w)
       \/ ReceiveMoved(w) \/ ChannelState(w) \/ ChannelAck(w)
  \/ \E w \in Windows : Exit(w)
  \/ (Tick /\ UNCHANGED channelVars)

Spec == Init /\ [][Next]_vars

-----------------------------------------------------------------------------
(* Properties. *)

\* The resolver's part, and every variable of the channels holds a value of its
\* kind, the history only rows that exist.
TypeOK ==
  /\ ResolverTypeOK
  /\ chan \in [Channeled -> Channels]
  /\ left \in [Windows -> SUBSET (DOMAIN table)]
  /\ missed \in [Windows -> SUBSET (DOMAIN table)]
  /\ proven \subseteq Channeled

\* The channel of w streams a subject its window has left, and nothing that
\* will tell it is on the way.
Stranded(w) ==
  /\ chan[w].pc = "open"
  /\ chan[w].sub \in left[w]
  /\ chan[w].q # "moved"
  /\ ~ \E p \in Procs : req[p].pid = w /\ req[p].boot = chan[w].sub
                        /\ req[p].pc \in {"move", "tell"}

\* A channel stays on the boot subject its window left only if the frame found
\* no queue, or a full one, or was lost with its connection, or Settle failed
\* between detaching the subject and returning it (handlers.go,
\* handleSessionRecord).
StrandedOnlyIfMissed ==
  \A w \in Channeled : Stranded(w) => chan[w].sub \in missed[w]

\* A resume moves the window's channel onto the session's subject.
ChannelFollowsWindow == \A w \in Channeled : ~ Stranded(w)
=============================================================================
