------------------------------ MODULE Tunnels -------------------------------
(***************************************************************************)
(* pipeserver.Tunnels: Count goroutines that each hold one tunnel to the   *)
(* edge controller (dial, serve, redial), the replacement the edge         *)
(* controller may ask for, which leaves the old tunnel serving beside the  *)
(* new one, the readiness probe, and the stop.                             *)
(*                                                                         *)
(* A connection is named for as long as it or its watcher matters and its  *)
(* name is used again once it is closed and no holder waits on it.  The    *)
(* bound MaxReplaced on the replaced tunnels still open keeps a name for   *)
(* every holder's next tunnel.  The pipes on a tunnel, and how Server.Drain *)
(* waits for them, are module PipeServer; here a drain ends at any time.   *)
(***************************************************************************)
EXTENDS Naturals, FiniteSets

CONSTANTS
    Holders,    \* the goroutines running hold, Tunnels.Count of them
    Conns,      \* names for connections: how many may be open at once
    None        \* no connection

ASSUME HoldersAssumption == IsFiniteSet(Holders)
ASSUME ConnsAssumption ==
    /\ IsFiniteSet(Conns) /\ None \notin Conns
    /\ Cardinality(Conns) > Cardinality(Holders)

\* The bound on replaced tunnels that are still open.
MaxReplaced == Cardinality(Conns) - Cardinality(Holders)

VARIABLES
    hpc,        \* where each holder is: the loop test, serveOne's dial, its
                \* select, the wait before a redial, or the last <-ctx.Done()
    cur,        \* the connection each holder serves
    open,       \* the connections being served
    replaced,   \* connections the edge controller asked to replace
    watched,    \* connections the tunnel context's AfterFunc will close
    up,         \* Tunnels.up
    everUp,     \* Tunnels.everUp
    stopping,   \* Tunnels.stopping
    ctxDone,    \* the tunnel context is cancelled
    done        \* the channel Start returned is closed

vars == <<hpc, cur, open, replaced, watched, up, everUp, stopping, ctxDone, done>>
stopVars == <<stopping, ctxDone, done>>
countVars == <<up, everUp>>

TypeOK ==
    /\ hpc \in [Holders -> {"loop", "dial", "select", "wait", "parked"}]
    /\ cur \in [Holders -> Conns \cup {None}]
    /\ open \subseteq Conns
    /\ replaced \subseteq Conns
    /\ watched \subseteq Conns
    /\ up \in Nat
    /\ everUp \in BOOLEAN
    /\ stopping \in BOOLEAN
    /\ ctxDone \in BOOLEAN
    /\ done \in BOOLEAN

Init ==
    /\ hpc = [h \in Holders |-> "loop"]
    /\ cur = [h \in Holders |-> None]
    /\ open = {}
    /\ replaced = {}
    /\ watched = {}
    /\ up = 0
    /\ everUp = FALSE
    /\ stopping = FALSE
    /\ ctxDone = FALSE
    /\ done = FALSE

\* Ready is nil: the connector should take pipes.
Ready == up > 0 \/ everUp

\* tracked(1) and tracked(-1).
TrackUp == up' = up + 1 /\ everUp' = TRUE
TrackDown == up' = up - 1 /\ everUp' = everUp
-----------------------------------------------------------------------------
\* The mutated form of Redial: it looks for a stop only before its wait.
Redial_Unchecked(h) ==
    /\ hpc[h] = "loop"
    /\ hpc' = [hpc EXCEPT ![h] = "dial"]
    /\ UNCHANGED <<cur, open, replaced, watched, countVars, stopVars>>

\* hold's loop test.
Redial(h) ==
    /\ hpc[h] = "loop"
    /\ ~ctxDone /\ ~stopping
    /\ hpc' = [hpc EXCEPT ![h] = "dial"]
    /\ UNCHANGED <<cur, open, replaced, watched, countVars, stopVars>>

Park(h) ==
    /\ hpc[h] = "loop"
    /\ ctxDone \/ stopping
    /\ hpc' = [hpc EXCEPT ![h] = "parked"]
    /\ UNCHANGED <<cur, open, replaced, watched, countVars, stopVars>>

\* The dial, the handshake, the ALPN check or the preface fails, or the
\* context is done.
DialFails(h) ==
    /\ hpc[h] = "dial"
    /\ hpc' = [hpc EXCEPT ![h] = "wait"]
    /\ UNCHANGED <<cur, open, replaced, watched, countVars, stopVars>>

\* A name no one is using; MaxReplaced keeps one for every holder.
Fresh == {c \in Conns : c \notin open /\ \A h \in Holders : cur[h] # c}

\* A tunnel is up: it is watched, counted, and served by a goroutine of its
\* own.  The context may have been cancelled since the dial succeeded; the
\* watch then closes it at once.
DialSucceeds(h, c) ==
    /\ hpc[h] = "dial"
    /\ c \in Fresh
    /\ hpc' = [hpc EXCEPT ![h] = "select"]
    /\ cur' = [cur EXCEPT ![h] = c]
    /\ open' = open \cup {c}
    /\ replaced' = replaced \ {c}
    /\ watched' = watched \cup {c}
    /\ TrackUp
    /\ UNCHANGED stopVars

\* The mutated form of ReturnReplaced: it stops the watch, as a tunnel's
\* error return does.
ReturnReplaced_Unwatched(h) ==
    /\ hpc[h] = "select"
    /\ cur[h] \in replaced
    /\ hpc' = [hpc EXCEPT ![h] = "wait"]
    /\ cur' = [cur EXCEPT ![h] = None]
    /\ watched' = watched \ {cur[h]}
    /\ UNCHANGED <<open, replaced, countVars, stopVars>>

\* serveOne returns nil: a replacement was asked for.  The old tunnel goes on
\* being served, and watched.
ReturnReplaced(h) ==
    /\ hpc[h] = "select"
    /\ cur[h] \in replaced
    /\ hpc' = [hpc EXCEPT ![h] = "wait"]
    /\ cur' = [cur EXCEPT ![h] = None]
    /\ UNCHANGED <<open, replaced, watched, countVars, stopVars>>

\* The mutated form of Closed: serveOne never learns that its tunnel closed.
Closed_Unseen(h) == FALSE

\* The tunnel this holder serves has closed.
Closed(h) == cur[h] \notin open

\* serveOne returns the tunnel's error.
ReturnClosed(h) ==
    /\ hpc[h] = "select"
    /\ Closed(h)
    /\ hpc' = [hpc EXCEPT ![h] = "wait"]
    /\ cur' = [cur EXCEPT ![h] = None]
    /\ watched' = watched \ {cur[h]}
    /\ UNCHANGED <<open, replaced, countVars, stopVars>>

\* The wait before the next attempt is over: none after a replacement, the
\* backoff's after a failure, cut short when the context is done.
Waited(h) ==
    /\ hpc[h] = "wait"
    /\ hpc' = [hpc EXCEPT ![h] = "loop"]
    /\ UNCHANGED <<cur, open, replaced, watched, countVars, stopVars>>
-----------------------------------------------------------------------------
\* The edge controller asks for a replacement, on any open tunnel; a second
\* request on one is ignored.
DrainRequest(c) ==
    /\ c \in open
    /\ c \notin replaced
    /\ Cardinality(open \cap replaced) < MaxReplaced
    /\ replaced' = replaced \cup {c}
    /\ UNCHANGED <<hpc, cur, open, watched, countVars, stopVars>>

\* ServeConn returns: the tunnel is counted down, then its goroutine tells
\* the holder.
ServeConnReturns(c) ==
    /\ c \in open
    /\ open' = open \ {c}
    /\ TrackDown

\* The edge controller closes a tunnel, or it is lost.
TunnelEnds(c) ==
    /\ ServeConnReturns(c)
    /\ UNCHANGED <<hpc, cur, replaced, watched, stopVars>>

\* The watch closes a tunnel once the tunnel context is cancelled.
WatchCloses(c) ==
    /\ ctxDone
    /\ c \in watched
    /\ ServeConnReturns(c)
    /\ watched' = watched \ {c}
    /\ UNCHANGED <<hpc, cur, replaced, stopVars>>
-----------------------------------------------------------------------------
\* The connector's context is done: no more redials, and the drain begins.
Stop ==
    /\ ~stopping
    /\ stopping' = TRUE
    /\ UNCHANGED <<hpc, cur, open, replaced, watched, countVars, ctxDone, done>>

\* The drain is over, by itself or at drainGrace: closeTunnels cancels the
\* tunnel context.
CloseTunnels ==
    /\ stopping /\ ~ctxDone
    /\ ctxDone' = TRUE
    /\ UNCHANGED <<hpc, cur, open, replaced, watched, countVars, stopping, done>>

\* The deferred close of the channel Start returned.
CloseDone ==
    /\ ctxDone /\ ~done
    /\ done' = TRUE
    /\ UNCHANGED <<hpc, cur, open, replaced, watched, countVars, stopping, ctxDone>>

Hold(h) ==
    \/ Redial(h) \/ Park(h) \/ DialFails(h) \/ ReturnReplaced(h) \/ ReturnClosed(h) \/ Waited(h)
    \/ \E c \in Conns : DialSucceeds(h, c)

Next ==
    \/ \E h \in Holders : Hold(h)
    \/ \E c \in Conns : DrainRequest(c) \/ TunnelEnds(c) \/ WatchCloses(c)
    \/ Stop \/ CloseTunnels \/ CloseDone

Spec == Init /\ [][Next]_vars

\* Goroutines run, dials and waits end, and the drain ends: drainGrace bounds
\* it.  The edge controller and the network owe nothing.
LiveSpec ==
    /\ Spec
    /\ \A h \in Holders : WF_vars(Hold(h))
    /\ \A c \in Conns : WF_vars(WatchCloses(c))
    /\ WF_vars(CloseTunnels \/ CloseDone)

\* A network that lets a dial through in the end, and an edge controller that
\* closes the tunnels it has had replaced.
Reachable ==
    /\ \A h \in Holders : SF_vars(\E c \in Conns : DialSucceeds(h, c))
    /\ \A c \in Conns : WF_vars(c \in replaced /\ TunnelEnds(c))
-----------------------------------------------------------------------------
\* connector.raw_tunnels_up and Ready count the tunnels being served, however
\* they end: closed by the far end, or by the watch as the stop cancels them.
UpIsExact == up = Cardinality(open)

\* A holder leaves a tunnel only when it is closed or being replaced: no more
\* than Count tunnels are open that the edge controller has not asked to
\* replace, and each of those is still some holder's to watch over.
EveryTunnelHeld ==
    \A c \in open \ replaced : \E h \in Holders : cur[h] = c /\ hpc[h] = "select"

\* No tunnel is open that the stop would not close: each is watched, also one
\* its holder has left for a replacement.
EveryTunnelWatched == open \subseteq watched

\* However dials, replacements, losses and a stop interleave, every tunnel is
\* counted once, is somebody's to redial, and will be closed.
TunnelsAccounted == UpIsExact /\ EveryTunnelHeld /\ EveryTunnelWatched

\* Tunnels flapping never make the connector unready: once ready, always.
ReadyIsSticky == [][Ready => Ready']_vars

\* Closing the tunnels closes them all for good: those served, replaced, or
\* dialed as the context was cancelled; and no holder is left running.
StopClosesTunnels ==
    ctxDone ~> [](open = {} /\ \A h \in Holders : hpc[h] = "parked")

\* A holder without a tunnel gets one again, for as long as no stop begins.
HoldersRedial ==
    Reachable => \A h \in Holders : []<>(stopping \/ cur[h] \in open)
=============================================================================
