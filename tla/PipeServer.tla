----------------------------- MODULE PipeServer -----------------------------
(***************************************************************************)
(* pipeserver.Server and the stop of pipeserver.Tunnels: the handlers that *)
(* open, serve and end pipes on a set of tunnels, the drain.Tracker they   *)
(* count themselves in, and the goroutine that drains it and then closes   *)
(* the tunnels.                                                            *)
(*                                                                         *)
(* A handler takes several steps between reading Draining, verifying the   *)
(* capability and taking its slot, and the stop takes several between      *)
(* marking the tracker draining, waiting on it and closing the tunnels:    *)
(* they interleave freely.  What the edge controller sees of a pipe is     *)
(* kept in answer.  Tunnels are dialed in module Tunnels; here they are up *)
(* from the start and are lost, or closed by the stop.                     *)
(***************************************************************************)
EXTENDS Naturals, FiniteSets

CONSTANTS
    Pipes,      \* the CONNECT streams the edge controller opens
    Conns,      \* the tunnels they are opened on
    MaxPipes,   \* Server.MaxPipes, the pipes open at once; 0 is no cap
    Stopper,    \* the goroutine of Tunnels.Start that drains and closes
    NoConn      \* the tunnel of a pipe not opened yet

ASSUME MaxPipesAssumption == MaxPipes \in Nat
ASSUME PipesAssumption == IsFiniteSet(Pipes)

VARIABLES
    draining, n, idle, closed, work, pc, held, expired, \* drain.Tracker
    pipe,       \* where each pipe's handler is
    on,         \* the tunnel each pipe was opened on
    answer,     \* what the edge controller has seen of each pipe
    up,         \* the tunnels that are open
    stop,       \* where the stop is
    stalled,    \* pipes whose peer has stopped reading what was sent to it
    lapsed,     \* pipes that have reached MaxLifetime
    aborted,    \* pipes whose caller has reset their stream
    late        \* pipes that took their slot after the drain began

trackerVars == <<draining, n, idle, closed, work, pc, held, expired>>
peerVars == <<stalled, lapsed, aborted>>
vars == <<trackerVars, pipe, on, answer, up, stop, peerVars, late>>

Tracker == INSTANCE DrainTracker
             WITH Works <- Pipes, Waiters <- {Stopper}, Limit <- MaxPipes

Handling == {"sent", "undrained", "verified", "admitted", "handshake", "serving", "closing"}
Answers == {"none", "connector_draining", "rejected", "capacity", "ok", "ended",
            "reset", "reset by stop", "cut", "cut by stop"}

TypeOK ==
    /\ Tracker!TypeOK
    /\ pipe \in [Pipes -> Handling \cup {"none", "over"}]
    /\ on \in [Pipes -> Conns \cup {NoConn}]
    /\ answer \in [Pipes -> Answers]
    /\ up \subseteq Conns
    /\ stop \in {"run", "stopping", "waiting", "closed"}
    /\ stalled \subseteq Pipes
    /\ lapsed \subseteq Pipes
    /\ aborted \subseteq Pipes
    /\ late \subseteq Pipes

Init ==
    /\ Tracker!Init
    /\ pipe = [p \in Pipes |-> "none"]
    /\ on = [p \in Pipes |-> NoConn]
    /\ answer = [p \in Pipes |-> "none"]
    /\ up = Conns
    /\ stop = "run"
    /\ stalled = {}
    /\ lapsed = {}
    /\ aborted = {}
    /\ late = {}

\* The pipes whose handlers hold a slot.
Holding == {p \in Pipes : pipe[p] \in {"admitted", "handshake", "serving", "closing"}}

\* The pipe's stream still reaches its caller.
IsUp(p) == on[p] \in up /\ p \notin aborted

\* A handler's answer reaches the edge controller only while its stream does.
Answered(p, a) == answer' = IF IsUp(p) THEN [answer EXCEPT ![p] = a] ELSE answer

Goto(p, where) == pipe' = [pipe EXCEPT ![p] = where]
-----------------------------------------------------------------------------
\* The edge controller opens a pipe on a tunnel.
Open(p, c) ==
    /\ pipe[p] = "none"
    /\ c \in up
    /\ Goto(p, "sent")
    /\ on' = [on EXCEPT ![p] = c]
    /\ UNCHANGED <<trackerVars, answer, up, stop, peerVars, late>>

\* The tunnel is gone before the pipe's handler started.
Unheard(p) ==
    /\ pipe[p] = "sent"
    /\ ~IsUp(p)
    /\ Goto(p, "over")
    /\ UNCHANGED <<trackerVars, on, answer, up, stop, peerVars, late>>

\* open's first check.  What it read may be stale at every later step.
ReadDraining(p) ==
    /\ pipe[p] = "sent"
    /\ IsUp(p)
    /\ IF draining
       THEN Goto(p, "over") /\ Answered(p, "connector_draining")
       ELSE Goto(p, "undrained") /\ UNCHANGED answer
    /\ UNCHANGED <<trackerVars, on, up, stop, peerVars, late>>

\* The authority, the capability and the probe port are checked; the
\* capability's open is counted here, before the slot is asked for.
Verify(p) ==
    /\ pipe[p] = "undrained"
    /\ Goto(p, "verified")
    /\ UNCHANGED <<trackerVars, on, answer, up, stop, peerVars, late>>

Reject(p) ==
    /\ pipe[p] = "undrained"
    /\ Goto(p, "over")
    /\ Answered(p, "rejected")
    /\ UNCHANGED <<trackerVars, on, up, stop, peerVars, late>>

\* open's last step: a slot, or a refusal for capacity.
Admit(p) ==
    /\ pipe[p] = "verified"
    /\ Tracker!AddAdmitted(p)
    /\ Goto(p, "admitted")
    /\ late' = IF draining THEN late \cup {p} ELSE late
    /\ UNCHANGED <<on, answer, up, stop, peerVars>>

RefuseCapacity(p) ==
    /\ pipe[p] = "verified"
    /\ Tracker!AddRefused(p)
    /\ Goto(p, "over")
    /\ Answered(p, "capacity")
    /\ UNCHANGED <<on, up, stop, peerVars, late>>

\* The deferred pipes.Done: whatever ends serve after open, it runs once.
Release(p) == Tracker!Done(p) /\ Goto(p, "over")

\* rawpipe.Accept answers 200.
Accept(p) ==
    /\ pipe[p] = "admitted"
    /\ IsUp(p)
    /\ Goto(p, "handshake")
    /\ Answered(p, "ok")
    /\ UNCHANGED <<trackerVars, on, up, stop, peerVars, late>>

\* The mutated form of AcceptFailed: an early return before the deferred Done.
AcceptFailed_Leak(p) ==
    /\ pipe[p] = "admitted"
    /\ ~IsUp(p)
    /\ Goto(p, "over")
    /\ UNCHANGED <<trackerVars, on, answer, up, stop, peerVars, late>>

AcceptFailed(p) ==
    /\ pipe[p] = "admitted"
    /\ ~IsUp(p)
    /\ Release(p)
    /\ UNCHANGED <<on, answer, up, stop, peerVars, late>>

\* The pipe's TLS handshake, bounded by handshakeTimeout; a failed one closes
\* the conn, as an ended pipe does.
Handshake(p) ==
    /\ pipe[p] = "handshake"
    /\ IsUp(p)
    /\ Goto(p, "serving")
    /\ UNCHANGED <<trackerVars, on, answer, up, stop, peerVars, late>>

HandshakeFailed(p) ==
    /\ pipe[p] = "handshake"
    /\ Goto(p, "closing")
    /\ UNCHANGED <<trackerVars, on, answer, up, stop, peerVars, late>>

\* MaxLifetime has passed since servePipe began.
Lapse(p) ==
    /\ pipe[p] \in {"handshake", "serving"}
    /\ p \notin lapsed
    /\ lapsed' = lapsed \cup {p}
    /\ UNCHANGED <<trackerVars, pipe, on, answer, up, stop, stalled, late, aborted>>

\* The Integration Proxy closes the pipe, or it idles out: at any time.
Completed(p) ==
    /\ pipe[p] = "serving"
    /\ IsUp(p)
    /\ Goto(p, "closing")
    /\ UNCHANGED <<trackerVars, on, answer, up, stop, peerVars, late>>

\* The mutated form of ContextDone: a pipe's age does not end its context.
ContextDone_NoLifetime(p) == ~IsUp(p)

ContextDone(p) == p \in lapsed \/ ~IsUp(p)

\* servePipe's context is done (MaxLifetime, or the stream gone):
\* its conn is closed, the HTTP inside ends, and servePipe returns.
EndServing(p) ==
    /\ pipe[p] \in {"handshake", "serving"}
    /\ ContextDone(p)
    /\ Goto(p, "closing")
    /\ UNCHANGED <<trackerVars, on, answer, up, stop, peerVars, late>>

\* The peer stops reading, leaving the copy toward it blocked in a write; and
\* it may read on.
Stall(p) ==
    /\ pipe[p] = "serving"
    /\ IsUp(p)
    /\ p \notin stalled
    /\ stalled' = stalled \cup {p}
    /\ UNCHANGED <<trackerVars, pipe, on, answer, up, stop, lapsed, late, aborted>>

ReadOn(p) ==
    /\ p \in stalled
    /\ stalled' = stalled \ {p}
    /\ UNCHANGED <<trackerVars, pipe, on, answer, up, stop, lapsed, late, aborted>>

\* The mutated form of CopiesStop: a closed tunnel does not unblock the write.
CopiesStop_Blocked(p) == p \notin stalled

\* conn.Wait returns: the copy toward the peer is not blocked, or the stream
\* is gone and the write fails.  Nothing else bounds it.
CopiesStop(p) == p \notin stalled \/ ~IsUp(p)

\* After conn.Close, conn.Wait and Finish the handler returns, or Finish
\* aborts it; the slot goes back either way.
Finish(p) ==
    /\ pipe[p] = "closing"
    /\ CopiesStop(p)
    /\ Release(p)
    /\ Answered(p, "ended")
    /\ UNCHANGED <<on, up, stop, peerVars, late>>
-----------------------------------------------------------------------------
\* What the edge controller sees of its pipes on the tunnels of gone: those
\* not answered yet are reset, those open are cut.
Cut(gone, reset, cut) ==
    answer' = [p \in Pipes |->
        CASE on[p] \in gone /\ p \notin aborted /\ answer[p] = "none" -> reset
          [] on[p] \in gone /\ p \notin aborted /\ answer[p] = "ok" -> cut
          [] OTHER -> answer[p]]

\* A tunnel is lost: the edge controller or the network closed it.
LoseTunnel(c) ==
    /\ c \in up
    /\ up' = up \ {c}
    /\ Cut({c}, "reset", "cut")
    /\ UNCHANGED <<trackerVars, pipe, on, stop, peerVars, late>>

\* The caller resets one pipe's stream.
AbortPipe(p) ==
    /\ pipe[p] # "none"
    /\ IsUp(p)
    /\ answer[p] \in {"none", "ok"}
    /\ aborted' = aborted \cup {p}
    /\ UNCHANGED <<trackerVars, pipe, on, answer, up, stop, stalled, lapsed, late>>

\* A signal: the stop begins.
Signal ==
    /\ stop = "run"
    /\ stop' = "stopping"
    /\ UNCHANGED <<trackerVars, pipe, on, answer, up, peerVars, late>>

\* Server.Drain's first step.
MarkDraining ==
    /\ stop = "stopping"
    /\ Tracker!Drain
    /\ stop' = "waiting"
    /\ UNCHANGED <<pipe, on, answer, up, peerVars, late>>

\* Server.Drain waits for the tracker.
WaitForPipes ==
    /\ stop = "waiting"
    /\ Tracker!Look(Stopper) \/ Tracker!Woken(Stopper) \/ Tracker!GiveUp(Stopper)
    /\ UNCHANGED <<pipe, on, answer, up, stop, peerVars, late>>

\* drainGrace has passed.
GraceOver ==
    /\ stop = "waiting"
    /\ Tracker!Expire(Stopper)
    /\ UNCHANGED <<pipe, on, answer, up, stop, peerVars, late>>

\* The mutated form of Drained: the tunnels are closed as the drain begins.
Drained_AtOnce == TRUE

Drained == Tracker!Returned(Stopper)

\* closeTunnels: every tunnel closes, and the connector's stop is over.
CloseTunnels ==
    /\ stop = "waiting"
    /\ Drained
    /\ up' = {}
    /\ stop' = "closed"
    /\ Cut(up, "reset by stop", "cut by stop")
    /\ UNCHANGED <<trackerVars, pipe, on, peerVars, late>>

Handler(p) ==
    \/ Unheard(p) \/ ReadDraining(p) \/ Verify(p) \/ Reject(p)
    \/ Admit(p) \/ RefuseCapacity(p)
    \/ Accept(p) \/ AcceptFailed(p)
    \/ Handshake(p) \/ HandshakeFailed(p)
    \/ EndServing(p) \/ Finish(p)

StopStep == MarkDraining \/ WaitForPipes \/ CloseTunnels

Next ==
    \/ \E p \in Pipes, c \in Conns : Open(p, c)
    \/ \E p \in Pipes : Handler(p) \/ Completed(p) \/ Lapse(p) \/ Stall(p) \/ ReadOn(p) \/ AbortPipe(p)
    \/ \E c \in Conns : LoseTunnel(c)
    \/ Signal
    \/ StopStep
    \/ GraceOver

Spec == Init /\ [][Next]_vars

\* Handlers and the stop run whenever they can, and timers fire.  Peers,
\* callers and tunnels owe nothing.
LiveSpec ==
    /\ Spec
    /\ \A p \in Pipes : WF_vars(Handler(p)) /\ WF_vars(Lapse(p))
    /\ WF_vars(StopStep)
    /\ WF_vars(GraceOver)

\* Peers that stop reading read on in the end.
PeersRead == \A p \in Pipes : WF_vars(ReadOn(p))
-----------------------------------------------------------------------------
\* Every handler between a successful Add and its return holds exactly one
\* slot, whichever way it ends: refused by Accept, in its handshake, served,
\* or aborted by Finish.
SlotPerPipe == n = Cardinality(Holding)

\* TRAVERSAL_PIPES_MAX bounds the handlers past open, not just the counter.
PipeCap == MaxPipes > 0 => Cardinality(Holding) <= MaxPipes

\* Tunnels.Start gives open pipes their grace: if the stop closes the tunnels
\* before drainGrace is over, every pipe admitted before the drain has ended.
EarlyPipesGetGrace ==
    stop = "closed" /\ Stopper \notin expired => Holding \subseteq late

\* The handlers themselves, not the tracker's books, keep what the tracker
\* promises: at most MaxPipes are past open at once, each leaves once, and the
\* stop is told "idle" only at a moment when none is.
Pool ==
    INSTANCE InFlight WITH
        Works <- Pipes, Waiters <- {Stopper}, Limit <- MaxPipes,
        active <- Holding,
        over <- {p \in Pipes : work[p] \in {"refused", "ended"}},
        stopping <- draining,
        answer <- [v \in {Stopper} |->
                     CASE pc[v] = "nil" -> "idle"
                       [] pc[v] = "error" -> "busy"
                       [] OTHER -> "none"]

HandlersInFlight == Pool!Spec

\* A signalled connector stops, whatever its pipes and peers do.
StopEnds == stop # "run" ~> stop = "closed"

\* Closing the tunnels ends every pipe: no handler or slot outlives the stop.
StopEndsPipes ==
    stop = "closed" ~> \A p \in Pipes : pipe[p] \in {"none", "over"}

\* TRAVERSAL_PIPES_MAX_LIFETIME: a pipe this old is closed, and its slot
\* comes back.
LapsedPipesEnd == \A p \in Pipes : p \in lapsed ~> pipe[p] = "over"

\* The same of peers that read: MaxLifetime ends the pipe however busy it is.
ReadPipesLapse == PeersRead => LapsedPipesEnd

\* Server.Drain's comment: a pipe already on its way when the drain begins
\* gets a refusal, a reason, rather than a reset.
OnTheirWayAreRefused == \A p \in Pipes : answer[p] # "reset by stop"
=============================================================================
