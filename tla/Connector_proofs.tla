--------------------------- MODULE Connector_proofs --------------------------
(***************************************************************************)
(* Proofs about the process: main and the tunnels it starts.               *)
(*                                                                         *)
(* Of the tunnels: their count, their holders and their watch, for any     *)
(* number of holders and connections.  What is needed besides the          *)
(* properties is that everUp remembers the count.                          *)
(*                                                                         *)
(* Of main: which settings start it and by which routes, where its rules   *)
(* come from, when the rules file ends it, and how long a stop takes, for  *)
(* any environments, contents of the file and time limits.                 *)
(***************************************************************************)
EXTENDS Startup, Tunnels, FiniteSetTheorems, TLAPS

\* A tunnel up was up once.
EverRemembers == up > 0 => everUp

IInv == TypeOK /\ UpIsExact /\ EveryTunnelHeld /\ EveryTunnelWatched /\ EverRemembers

LEMMA InitIInv == Init => IInv
<1> SUFFICES ASSUME Init PROVE IInv
  OBVIOUS
<1>1. TypeOK
  BY DEF Init, TypeOK
<1>2. UpIsExact
  BY FS_EmptySet DEF Init, UpIsExact
<1>3. EveryTunnelHeld /\ EveryTunnelWatched /\ EverRemembers
  BY DEF Init, EveryTunnelHeld, EveryTunnelWatched, EverRemembers
<1> QED
  BY <1>1, <1>2, <1>3 DEF IInv

LEMMA OpenIsFinite == TypeOK => IsFiniteSet(open)
BY ConnsAssumption, FS_Subset DEF TypeOK

\* The steps of a holder that leave the tunnels alone: its tests, its wait and
\* a dial that fails.
LEMMA IdleStep ==
  ASSUME IInv, NEW h \in Holders, Redial(h) \/ Park(h) \/ DialFails(h) \/ Waited(h)
  PROVE  IInv'
<1>1. UNCHANGED <<cur, open, replaced, watched, countVars, stopVars>> /\ hpc[h] # "select"
  BY DEF Redial, Park, DialFails, Waited
<1>2. \A g \in Holders : g # h => hpc'[g] = hpc[g]
  BY DEF IInv, TypeOK, Redial, Park, DialFails, Waited
<1>3. hpc' \in [Holders -> {"loop", "dial", "select", "wait", "parked"}]
  BY DEF IInv, TypeOK, Redial, Park, DialFails, Waited
<1>4. TypeOK'
  BY <1>1, <1>3 DEF IInv, TypeOK, countVars, stopVars
<1>5. EveryTunnelHeld'
  BY <1>1, <1>2 DEF IInv, EveryTunnelHeld
<1>6. UpIsExact' /\ EveryTunnelWatched' /\ EverRemembers'
  BY <1>1 DEF IInv, UpIsExact, EveryTunnelWatched, EverRemembers, countVars
<1> QED
  BY <1>4, <1>5, <1>6 DEF IInv

LEMMA DialStep ==
  ASSUME IInv, NEW h \in Holders, NEW c \in Conns, DialSucceeds(h, c)
  PROVE  IInv'
<1>1. TypeOK /\ c \notin open
  BY DEF IInv, DialSucceeds, Fresh
<1>2. TypeOK'
  BY <1>1 DEF TypeOK, DialSucceeds, TrackUp, stopVars
<1>3. UpIsExact'
  <2>1. Cardinality(open \cup {c}) = Cardinality(open) + 1
    BY <1>1, OpenIsFinite, FS_AddElement
  <2> QED
    BY <2>1 DEF IInv, UpIsExact, DialSucceeds, TrackUp
<1>4. EveryTunnelHeld'
  <2> SUFFICES ASSUME NEW d \in open' \ replaced'
               PROVE  \E g \in Holders : cur'[g] = d /\ hpc'[g] = "select"
    BY DEF EveryTunnelHeld
  <2>1. CASE d = c
    BY <1>1, <2>1 DEF DialSucceeds, TypeOK
  <2>2. CASE d # c
    <3>1. d \in open \ replaced
      BY <2>2 DEF DialSucceeds
    <3>2. PICK g \in Holders : cur[g] = d /\ hpc[g] = "select"
      BY <3>1 DEF IInv, EveryTunnelHeld
    <3>3. g # h
      BY <3>2 DEF DialSucceeds
    <3> QED
      BY <1>1, <3>2, <3>3 DEF DialSucceeds, TypeOK
  <2> QED
    BY <2>1, <2>2
<1>5. EveryTunnelWatched'
  BY DEF IInv, EveryTunnelWatched, DialSucceeds
<1>6. EverRemembers'
  BY DEF EverRemembers, DialSucceeds, TrackUp
<1> QED
  BY <1>2, <1>3, <1>4, <1>5, <1>6 DEF IInv

\* serveOne returns: the tunnel it leaves is closed, or being replaced.
LEMMA ReturnStep ==
  ASSUME IInv, NEW h \in Holders, ReturnReplaced(h) \/ ReturnClosed(h)
  PROVE  IInv'
<1>1. TypeOK /\ UNCHANGED <<open, replaced, countVars, stopVars>>
  BY DEF IInv, ReturnReplaced, ReturnClosed
<1>2. cur[h] \notin open \ replaced
  BY DEF ReturnReplaced, ReturnClosed, Closed
<1>3. /\ hpc' = [hpc EXCEPT ![h] = "wait"] /\ cur' = [cur EXCEPT ![h] = None]
      /\ watched' = watched \/ (watched' = watched \ {cur[h]} /\ cur[h] \notin open)
  BY DEF ReturnReplaced, ReturnClosed, Closed
<1>4. TypeOK'
  BY <1>1, <1>3 DEF TypeOK, countVars, stopVars
<1>5. EveryTunnelHeld'
  <2> SUFFICES ASSUME NEW d \in open \ replaced
               PROVE  \E g \in Holders : cur'[g] = d /\ hpc'[g] = "select"
    BY <1>1 DEF EveryTunnelHeld
  <2>1. PICK g \in Holders : cur[g] = d /\ hpc[g] = "select"
    BY DEF IInv, EveryTunnelHeld
  <2> QED
    BY <1>1, <1>2, <1>3, <2>1 DEF TypeOK
<1>6. EveryTunnelWatched'
  BY <1>1, <1>3 DEF IInv, EveryTunnelWatched
<1>7. UpIsExact' /\ EverRemembers'
  BY <1>1 DEF IInv, UpIsExact, EverRemembers, countVars
<1> QED
  BY <1>4, <1>5, <1>6, <1>7 DEF IInv

\* A tunnel closes, by the far end or by the watch.
LEMMA CloseStep ==
  ASSUME IInv, NEW c \in Conns, TunnelEnds(c) \/ WatchCloses(c)
  PROVE  IInv'
<1>1. TypeOK /\ c \in open /\ open' = open \ {c} /\ up' = up - 1 /\ everUp' = everUp
  BY DEF IInv, TunnelEnds, WatchCloses, ServeConnReturns, TrackDown
<1>2. UNCHANGED <<hpc, cur, replaced, stopVars>> /\ watched' \in {watched, watched \ {c}}
  BY DEF TunnelEnds, WatchCloses
<1>3. Cardinality(open \ {c}) = Cardinality(open) - 1 /\ Cardinality(open) \in Nat
  BY <1>1, OpenIsFinite, FS_RemoveElement, FS_CardinalityType
<1>4. Cardinality(open) # 0
  BY <1>1, OpenIsFinite, FS_EmptySet
<1>5. UpIsExact'
  BY <1>1, <1>3 DEF IInv, UpIsExact
<1>6. up' \in Nat /\ up > 0
  BY <1>1, <1>3, <1>4 DEF IInv, UpIsExact
<1>7. TypeOK'
  BY <1>1, <1>2, <1>6 DEF TypeOK, stopVars
<1>8. EveryTunnelHeld'
  BY <1>1, <1>2 DEF IInv, EveryTunnelHeld
<1>9. EveryTunnelWatched'
  BY <1>1, <1>2 DEF IInv, EveryTunnelWatched
<1>10. EverRemembers'
  BY <1>1, <1>6 DEF IInv, EverRemembers
<1> QED
  BY <1>5, <1>7, <1>8, <1>9, <1>10 DEF IInv

LEMMA DrainRequestStep ==
  ASSUME IInv, NEW c \in Conns, DrainRequest(c)
  PROVE  IInv'
<1>1. /\ UNCHANGED <<hpc, cur, open, watched, countVars, stopVars>>
      /\ replaced' = replaced \cup {c}
  BY DEF DrainRequest
<1>2. TypeOK'
  BY <1>1 DEF IInv, TypeOK, countVars, stopVars
<1>3. EveryTunnelHeld'
  BY <1>1 DEF IInv, EveryTunnelHeld
<1>4. UpIsExact' /\ EveryTunnelWatched' /\ EverRemembers'
  BY <1>1 DEF IInv, UpIsExact, EveryTunnelWatched, EverRemembers, countVars
<1> QED
  BY <1>2, <1>3, <1>4 DEF IInv

\* The steps of the stop touch no tunnel: closing them is the watch's.
LEMMA StopStep ==
  ASSUME IInv, Stop \/ CloseTunnels \/ CloseDone \/ UNCHANGED vars
  PROVE  IInv'
<1>1. UNCHANGED <<hpc, cur, open, replaced, watched, countVars>>
  BY DEF Stop, CloseTunnels, CloseDone, vars, countVars
<1>2. stopping' \in BOOLEAN /\ ctxDone' \in BOOLEAN /\ done' \in BOOLEAN
  BY DEF IInv, TypeOK, Stop, CloseTunnels, CloseDone, vars
<1>3. TypeOK'
  BY <1>1, <1>2 DEF IInv, TypeOK, countVars
<1>4. EveryTunnelHeld'
  BY <1>1 DEF IInv, EveryTunnelHeld
<1>5. UpIsExact' /\ EveryTunnelWatched' /\ EverRemembers'
  BY <1>1 DEF IInv, UpIsExact, EveryTunnelWatched, EverRemembers, countVars
<1> QED
  BY <1>3, <1>4, <1>5 DEF IInv

LEMMA NextIInv == IInv /\ [Next]_vars => IInv'
<1> SUFFICES ASSUME IInv, [Next]_vars PROVE IInv'
  OBVIOUS
<1>1. CASE \E h \in Holders : Hold(h)
  <2>1. PICK h \in Holders : Hold(h)
    BY <1>1
  <2>2. CASE Redial(h) \/ Park(h) \/ DialFails(h) \/ Waited(h)
    BY <2>2, IdleStep
  <2>3. CASE ReturnReplaced(h) \/ ReturnClosed(h)
    BY <2>3, ReturnStep
  <2>4. CASE \E c \in Conns : DialSucceeds(h, c)
    BY <2>4, DialStep
  <2> QED
    BY <2>1, <2>2, <2>3, <2>4 DEF Hold
<1>2. CASE \E c \in Conns : DrainRequest(c) \/ TunnelEnds(c) \/ WatchCloses(c)
  BY <1>2, DrainRequestStep, CloseStep
<1>3. CASE Stop \/ CloseTunnels \/ CloseDone \/ UNCHANGED vars
  BY <1>3, StopStep
<1> QED
  BY <1>1, <1>2, <1>3 DEF Next

\* The inductive invariant.
THEOREM Invariant == Spec => []IInv
<1> QED
  BY InitIInv, NextIInv, PTL DEF Spec

\* Every tunnel open is counted once, held or being replaced, and will be
\* closed by the stop, for any number of holders.
THEOREM Accounted == Spec => []TunnelsAccounted
<1>1. IInv => TunnelsAccounted
  BY DEF IInv, TunnelsAccounted
<1> QED
  BY <1>1, Invariant, PTL

\* Tunnels.Ready: readiness is never withdrawn.
THEOREM Sticky == Spec => ReadyIsSticky
<1>1. IInv /\ [Next]_vars => [Ready => Ready']_vars
  <2> SUFFICES ASSUME IInv, Next, Ready PROVE everUp'
    BY DEF Ready
  <2>1. everUp
    BY DEF IInv, EverRemembers, Ready
  <2>2. CASE \E h \in Holders : Hold(h)
    BY <2>1, <2>2 DEF Hold, Redial, Park, DialFails, ReturnReplaced, ReturnClosed, Waited,
       DialSucceeds, TrackUp, countVars
  <2>3. CASE \E c \in Conns : DrainRequest(c) \/ TunnelEnds(c) \/ WatchCloses(c)
    BY <2>1, <2>3 DEF DrainRequest, TunnelEnds, WatchCloses, ServeConnReturns, TrackDown, countVars
  <2>4. CASE Stop \/ CloseTunnels \/ CloseDone
    BY <2>1, <2>4 DEF Stop, CloseTunnels, CloseDone, countVars
  <2> QED
    BY <2>2, <2>3, <2>4 DEF Next
<1> QED
  BY <1>1, Invariant, PTL DEF Spec, ReadyIsSticky
-----------------------------------------------------------------------------
\* Where each connection of an environment that starts a connector goes.
LEMMA LeavesAre ==
  ASSUME NEW e \in Good, NEW l \in Leaves(e)
  PROVE  \/ l = [what |-> "tunnel", route |-> TunnelRoute(e)]
         \/ l = [what |-> "fetch", route |-> ConfigRoute(e)]
         \/ l.what = "export" /\ \E t \in {"metrics", "traces", "logs"} : l.route = ExportRoute(e, e[t])
         \/ l = [what |-> "direct test", route |-> DirectTest(e)]
         \/ l = [what |-> "proxy test", route |-> Route("proxy", TRUE)] /\ Parses(e.egressProxy)
<1>1. ASSUME NEW x \in Exports(e) PROVE \E t \in {"metrics", "traces", "logs"} : x.route = ExportRoute(e, e[t])
  BY DEF Exports
<1>2. CASE l \in {[what |-> "export", route |-> x.route] : x \in Exports(e)}
  <2>1. PICK x \in Exports(e) : l = [what |-> "export", route |-> x.route]
    BY <1>2
  <2>2. l.what = "export" /\ l.route = x.route
    BY <2>1
  <2> QED
    BY <1>1, <2>2
<1>3. CASE l \in TestRoutes(e)
  BY <1>3 DEF TestRoutes
<1>4. CASE l \in {[what |-> "tunnel", route |-> TunnelRoute(e)]}
  BY <1>4
<1>5. CASE l \in (IF Remote(e) THEN {[what |-> "fetch", route |-> ConfigRoute(e)]} ELSE {})
  BY <1>5
<1> QED
  BY <1>2, <1>3, <1>4, <1>5 DEF Leaves

\* The routes of an environment that starts a connector behind an egress proxy.
LEMMA ProxiedRoutes ==
  ASSUME NEW e \in Good, Set(e.egressProxy), NEW l \in Leaves(e)
  PROVE  l.route.via = "proxy" <=> ByProxy(l)
<1>1. /\ ~Set(e.controllerConnectTo) /\ ~Set(OTLPConnectTo(e))
      /\ Secure(e) /\ Parses(e.egressProxy) /\ KeyPair(e)
  BY DEF Good, Loads, ExclusiveRoutes, Builds, TunnelTLS, TunnelProxy, Parses, Set
<1>2. /\ TunnelRoute(e).via = "proxy" /\ ConfigRoute(e).via = "proxy"
      /\ Route("proxy", TRUE).via = "proxy" /\ DirectTest(e).via = "direct"
  BY <1>1 DEF TunnelRoute, ConfigRoute, DirectTest, Route
<1>3. ASSUME NEW v PROVE ExportRoute(e, v).via = "proxy" <=> ExportRoute(e, v).tls
  BY <1>1 DEF ExportRoute, Route, KeyPair, Set
<1>4. CASE l.what = "export" /\ \E t \in {"metrics", "traces", "logs"} : l.route = ExportRoute(e, e[t])
  BY <1>3, <1>4 DEF ByProxy
<1>5. CASE l = [what |-> "tunnel", route |-> TunnelRoute(e)] \/ l = [what |-> "fetch", route |-> ConfigRoute(e)]
  <2>1. l.route.via = "proxy" /\ l.what \in {"tunnel", "fetch"}
    BY <1>2, <1>5
  <2> QED
    BY <2>1 DEF ByProxy
<1>6. CASE l = [what |-> "direct test", route |-> DirectTest(e)]
  <2>1. l.route.via = "direct" /\ l.what = "direct test"
    BY <1>2, <1>6
  <2> QED
    BY <2>1 DEF ByProxy
<1>7. CASE l = [what |-> "proxy test", route |-> Route("proxy", TRUE)]
  <2>1. l.route.via = "proxy" /\ l.what = "proxy test"
    BY <1>7 DEF Route
  <2> QED
    BY <2>1 DEF ByProxy
<1> QED
  BY <1>4, <1>5, <1>6, <1>7, LeavesAre

\* And of one that starts it without.
LEMMA DirectRoutes ==
  ASSUME NEW e \in Good, ~Set(e.egressProxy), NEW l \in Leaves(e)
  PROVE  /\ l.route.via # "proxy"
         /\ (l.what \in {"fetch", "direct test"} \/ (l.what = "tunnel" /\ ~Set(e.tunnelsConnectTo)))
              => l.route = DirectTest(e)
<1>1. Secure(e) = TRUE /\ ~Parses(e.egressProxy)
  BY DEF Good, Builds, TunnelTLS, Parses, Secure
<1>2. ConfigRoute(e) = DirectTest(e) /\ DirectTest(e).via # "proxy"
  BY <1>1 DEF ConfigRoute, DirectTest, Route
<1>3. TunnelRoute(e).via # "proxy" /\ (~Set(e.tunnelsConnectTo) => TunnelRoute(e) = DirectTest(e))
  BY DEF TunnelRoute, DirectTest, Route
<1>4. ASSUME NEW v PROVE ExportRoute(e, v).via # "proxy"
  BY <1>1 DEF ExportRoute, Route
<1>5. CASE l.what = "export" /\ \E t \in {"metrics", "traces", "logs"} : l.route = ExportRoute(e, e[t])
  BY <1>4, <1>5
<1>6. CASE l = [what |-> "tunnel", route |-> TunnelRoute(e)]
  <2>1. l.what = "tunnel" /\ l.route = TunnelRoute(e)
    BY <1>6
  <2> QED
    BY <1>3, <2>1
<1>7. CASE l = [what |-> "fetch", route |-> ConfigRoute(e)] \/ l = [what |-> "direct test", route |-> DirectTest(e)]
  <2>1. CASE l = [what |-> "fetch", route |-> ConfigRoute(e)]
    <3>1. l.route = ConfigRoute(e)
      BY <2>1
    <3> QED
      BY <1>2, <3>1
  <2>2. CASE l = [what |-> "direct test", route |-> DirectTest(e)]
    <3>1. l.route = DirectTest(e)
      BY <2>2
    <3> QED
      BY <1>2, <3>1
  <2> QED
    BY <1>7, <2>1, <2>2
<1> QED
  BY <1>1, <1>5, <1>6, <1>7, LeavesAre

\* EGRESS_PROXY_URL: of every environment that starts a connector, behind a proxy
\* the tunnels, the config fetch and the exports with the certificate leave by
\* it, the direct tests and cleartext exports do not; and without one nothing does.
THEOREM RoutesAlwaysAgree == StartupSpec => []RoutesAgree
<1>1. RoutesAgree
  <2> SUFFICES ASSUME NEW r \in Routes
               PROVE  /\ \A l \in r.leaves : l.route.via = "proxy" <=> r.proxy /\ ByProxy(l)
                      /\ ~r.proxy => \A l, m \in Together(r) : l.route = m.route
    BY DEF RoutesAgree
  <2>1. PICK e \in Good :
            r = [proxy |-> Set(e.egressProxy), override |-> Set(e.tunnelsConnectTo), leaves |-> Leaves(e)]
    BY DEF Routes
  <2>2. CASE Set(e.egressProxy)
    BY <2>1, <2>2, ProxiedRoutes
  <2>3. CASE ~Set(e.egressProxy)
    <3>1. \A l \in r.leaves : ~(l.route.via = "proxy")
      BY <2>1, <2>3, DirectRoutes
    <3>2. \A l \in Together(r) : l.route = DirectTest(e)
      BY <2>1, <2>3, DirectRoutes DEF Together
    <3> QED
      BY <2>1, <2>3, <3>1, <3>2
  <2> QED
    BY <2>2, <2>3
<1> QED
  BY <1>1, PTL
-----------------------------------------------------------------------------
\* Until main has a source of rules nothing runs beside it.
Early == {"load", "fetch", "file"}
Before ==
    /\ stage \in Early =>
        source = "none" /\ rules = Nothing /\ failures = 0 /\ polling = FALSE
    /\ stage \in Early \cup {"new"} => drain = "none"
    /\ stage = "fetch" => cfg.remote
    /\ stage = "file" /\ cfg.remote => ~Fatal

\* What startRedaction leaves, and the poller keeps.
RulesChosen ==
    /\ cfg.remote /\ cfg.host => ~cfg.badKeys
    /\ CASE source = "remote" -> cfg.remote /\ rules = Fetched /\ ~polling
         [] source = "file"   -> cfg.file /\ Applies(rules)
         [] OTHER             -> ~cfg.remote /\ ~cfg.file /\ rules = Nothing /\ ~polling
Chosen == stage = "new" \/ drain # "none" => RulesChosen

\* FileLoader.consecutiveFailures counts the failures since the last success.
FailuresAreReads ==
    /\ FileExitsAfterThree
    /\ exit = "file" => stage = "exited"
    /\ stage # "exited" => failures <= 2
    /\ failures >= 1 => reads[3] = FALSE
    /\ failures >= 2 => reads[2] = FALSE

MainInv == StartupTypeOK /\ Before /\ Chosen /\ FailuresAreReads

\* A step that leaves no failure to count, while the process goes on.
LEMMA NoFailures ==
  ASSUME FailuresAreReads, stage # "exited", exit' = exit, failures' = 0
  PROVE  FailuresAreReads'
<1>1. exit' # "file"
  BY DEF FailuresAreReads
<1>2. FileExitsAfterThree'
  BY <1>1 DEF FileExitsAfterThree
<1> QED
  BY <1>1, <1>2 DEF FailuresAreReads

LEMMA StartupInitInv == StartupInit => MainInv
<1> SUFFICES ASSUME StartupInit PROVE MainInv
  OBVIOUS
<1>1. StartupTypeOK
  <2>1. stage \in Stages /\ exit \in {"none", "failed", "signal", "file", "stopped"}
    BY DEF StartupInit, Stages
  <2>2. source \in {"none", "remote", "file"} /\ drain \in {"none", "waiting", "draining", "done"}
    BY DEF StartupInit
  <2>3. polling \in BOOLEAN /\ signalled \in BOOLEAN
    BY DEF StartupInit
  <2>4. {left, drainLeft, sinceSignal} \subseteq Nat /\ failures \in 0..3
    BY DEF StartupInit
  <2>5. rules \in Contents \cup {Nothing, Fetched} /\ lastHash \in Contents \cup {Nothing}
        /\ file \in Contents
    BY DEF StartupInit
  <2> QED
    BY <2>1, <2>2, <2>3, <2>4, <2>5 DEF StartupTypeOK
<1>2. Before /\ Chosen /\ FailuresAreReads
  BY DEF StartupInit, Before, Chosen, FailuresAreReads, FileExitsAfterThree, Early
<1> QED
  BY <1>1, <1>2 DEF MainInv

\* What a step that is not the loaders' keeps: it moves main on past the start,
\* or ends it, and may end the poller.
Quiet ==
    /\ UNCHANGED <<cfg, source, rules, failures, reads>>
    /\ \/ stage' = stage
       \/ stage' \notin Early \cup {"new"} /\ (stage # "exited" \/ stage' = "exited")
    /\ polling' = polling \/ polling' = FALSE
    /\ (stage' # "exited" => stage # "exited")
    /\ drain' = drain \/ (drain # "none" /\ drain' # "none")
    /\ exit' = exit \/ exit' # "file"

LEMMA QuietKeeps ==
  ASSUME MainInv, Quiet
  PROVE  (Before /\ Chosen /\ FailuresAreReads)'
<1>1. Before' /\ FailuresAreReads'
  BY DEF MainInv, Quiet, Before, FailuresAreReads, FileExitsAfterThree, Fatal, Early
<1>2. Chosen'
  <2> SUFFICES ASSUME stage' = "new" \/ drain' # "none" PROVE RulesChosen'
    BY DEF Chosen
  <2>1. RulesChosen
    BY DEF MainInv, Quiet, Chosen
  <2> QED
    BY <2>1 DEF Quiet, RulesChosen, StartupTypeOK, MainInv, Applies
<1> QED
  BY <1>1, <1>2

\* The end of the process, but for the file's.
LEMMA ExitStep ==
  ASSUME MainInv, NEW how \in {"failed", "signal", "stopped"}, Exits(how),
         UNCHANGED <<cfg, source, rules, lastHash, failures, reads, file, drain, drainLeft,
                     sinceSignal>>,
         signalled' \in BOOLEAN
  PROVE  MainInv'
<1>1. stage' = "exited" /\ left' = 0 /\ exit' = how /\ polling' = FALSE
  BY DEF Exits, Enter
<1>2. Quiet
  BY <1>1 DEF Quiet, Early
<1>3. polling' \in BOOLEAN
  BY <1>1
<1>4. stage' \in Stages /\ left' \in Nat
  BY <1>1 DEF Stages
<1>5. StartupTypeOK'
  BY <1>1, <1>3, <1>4 DEF MainInv, StartupTypeOK
<1> QED
  BY <1>2, <1>5, QuietKeeps DEF MainInv

\* The steps from the environment to the tunnels.
LEMMA LoadStep ==
  ASSUME MainInv, Load
  PROVE  MainInv'
<1>1. PICK e \in Envs : RefuseSettings(e) \/ AcceptSettings(e)
  BY DEF Load
<1>2. CASE RefuseSettings(e)
  BY <1>2, ExitStep DEF RefuseSettings, Main, loaderVars, MainInv, StartupTypeOK
<1>3. CASE AcceptSettings(e)
  <2>1. StartupTypeOK'
    BY <1>3 DEF AcceptSettings, Enter, loaderVars, MainInv, StartupTypeOK, Stages, Timed
  <2>2. cfg'.remote = Remote(e)
    BY <1>3 DEF AcceptSettings, Config
  <2>3. Before'
    BY <1>3, <2>2 DEF AcceptSettings, Enter, MainInv, Before, Early, loaderVars
  <2>4. Chosen' /\ FailuresAreReads'
    BY <1>3 DEF AcceptSettings, Enter, MainInv, Before, Early, Chosen, FailuresAreReads,
       FileExitsAfterThree, loaderVars
  <2> QED
    BY <2>1, <2>3, <2>4 DEF MainInv
<1> QED
  BY <1>1, <1>2, <1>3

LEMMA FetchStep ==
  ASSUME MainInv, FetchSucceeds \/ FetchFails
  PROVE  MainInv'
<1>1. CASE FetchSucceeds
  <2>1. StartupTypeOK'
    BY <1>1 DEF FetchSucceeds, Enter, Main, MainInv, StartupTypeOK, Stages
  <2>2. Before' /\ FailuresAreReads'
    BY <1>1 DEF FetchSucceeds, Enter, Main, MainInv, Before, Early, FailuresAreReads,
       FileExitsAfterThree
  <2>3. Chosen'
    BY <1>1 DEF FetchSucceeds, Enter, Main, MainInv, Before, Early, Chosen, RulesChosen
  <2> QED
    BY <2>1, <2>2, <2>3 DEF MainInv
<1>2. CASE FetchFails /\ Fatal
  BY <1>2, ExitStep DEF FetchFails, Main, loaderVars, MainInv, StartupTypeOK
<1>3. CASE FetchFails /\ ~Fatal
  <2>1. StartupTypeOK'
    BY <1>3 DEF FetchFails, Enter, Main, loaderVars, MainInv, StartupTypeOK, Stages
  <2>2. Before'
    BY <1>3 DEF FetchFails, Enter, Main, loaderVars, MainInv, Before, Early, Fatal
  <2>3. Chosen' /\ FailuresAreReads'
    BY <1>3 DEF FetchFails, Enter, Main, loaderVars, MainInv, Before, Early, Chosen,
       FailuresAreReads, FileExitsAfterThree
  <2> QED
    BY <2>1, <2>2, <2>3 DEF MainInv
<1> QED
  BY <1>1, <1>2, <1>3

\* A refresh moves the reads on by one.
LEMMA RefreshFacts ==
  ASSUME StartupTypeOK, Refresh
  PROVE  /\ rules' \in Contents \cup {Nothing, Fetched}
         /\ lastHash' \in Contents \cup {Nothing}
         /\ reads' = <<reads[2], reads[3], Unchanged \/ Usable>>
         /\ rules' = IF Usable THEN file ELSE rules
BY DEF StartupTypeOK, Refresh, HashAfter, RulesAfter

LEMMA LoadFileStep ==
  ASSUME MainInv, LoadFile
  PROVE  MainInv'
<1>1. CASE cfg.file /\ Usable
  <2>1. /\ rules' \in Contents \cup {Nothing, Fetched} /\ lastHash' \in Contents \cup {Nothing}
        /\ rules' = file
    BY <1>1, RefreshFacts DEF MainInv, LoadFile
  <2>2. StartupTypeOK'
    BY <1>1, <2>1 DEF LoadFile, Enter, Main, MainInv, StartupTypeOK, Stages
  <2>3. FailuresAreReads'
    BY <1>1, NoFailures DEF LoadFile, MainInv, Before, Early
  <2>4. Before'
    BY <1>1 DEF LoadFile, Enter, Main, MainInv, Before, Early
  <2>5. RulesChosen'
    BY <1>1, <2>1 DEF LoadFile, Main, MainInv, Before, Fatal, RulesChosen, Usable, Applies
  <2> QED
    BY <2>2, <2>3, <2>4, <2>5 DEF MainInv, Chosen
<1>2. CASE cfg.file /\ ~Usable
  BY <1>2, ExitStep DEF LoadFile, Main, loaderVars, MainInv, StartupTypeOK
<1>3. CASE ~cfg.file
  <2>1. StartupTypeOK'
    BY <1>3 DEF LoadFile, Enter, Main, loaderVars, MainInv, StartupTypeOK, Stages
  <2>2. Before' /\ FailuresAreReads'
    BY <1>3 DEF LoadFile, Enter, Main, loaderVars, MainInv, Before, Early, FailuresAreReads,
       FileExitsAfterThree
  <2>3. Chosen'
    BY <1>3 DEF LoadFile, Main, loaderVars, MainInv, Before, Early, Fatal, Chosen, RulesChosen
  <2> QED
    BY <2>1, <2>2, <2>3 DEF MainInv
<1> QED
  BY <1>1, <1>2, <1>3

LEMMA StartStep ==
  ASSUME MainInv, Start
  PROVE  MainInv'
<1>1. CASE cfg.builds
  <2>1. /\ stage = "new" /\ stage' \in Tests \cup {"probes"} /\ left' \in {0, TestTicks}
        /\ drain' = "waiting"
        /\ UNCHANGED <<exit, polling, cfg, source, rules, lastHash, failures, reads, file,
                       signalled, drainLeft, sinceSignal>>
    BY <1>1 DEF Start, FirstTest, Enter, Main, loaderVars, Tests
  <2>2. StartupTypeOK'
    BY <2>1, TicksAssumption DEF MainInv, StartupTypeOK, Stages, Timed
  <2>3. Before' /\ FailuresAreReads'
    BY <2>1 DEF MainInv, Before, Early, Tests, FailuresAreReads,
       FileExitsAfterThree
  <2>4. RulesChosen
    BY <2>1 DEF MainInv, Chosen
  <2>5. RulesChosen'
    BY <2>1, <2>4 DEF RulesChosen, Applies
  <2> QED
    BY <2>2, <2>3, <2>5 DEF MainInv, Chosen
<1>2. CASE ~cfg.builds
  BY <1>2, ExitStep DEF Start, Main, loaderVars, MainInv, StartupTypeOK
<1> QED
  BY <1>1, <1>2
\* A test of CheckConnectivity.
LEMMA TestStep ==
  ASSUME MainInv, NEW name \in Tests, NEW next \in Tests \cup {"probes"}, Test(name, next)
  PROVE  MainInv'
<1>1. /\ stage = name /\ stage' = next /\ left' \in {0, TestTicks}
      /\ UNCHANGED <<exit, polling, cfg, source, rules, lastHash, failures, reads, file,
                     signalled, drain, drainLeft, sinceSignal>>
  BY DEF Test, Enter, Main, loaderVars
<1>2. Quiet
  BY <1>1 DEF Quiet, Early, Tests
<1>3. StartupTypeOK'
  BY <1>1, TicksAssumption DEF MainInv, StartupTypeOK, Stages, Timed
<1> QED
  BY <1>2, <1>3, QuietKeeps DEF MainInv

LEMMA CheckStep == ASSUME MainInv, CheckConnectivity PROVE MainInv'
<1>1. PICK name \in Tests, next \in Tests \cup {"probes"} : Test(name, next)
  BY DEF CheckConnectivity, ProxyTCPReachability, ManualCONNECT, HTTPTransportViaProxy,
     DirectInsecure, DirectSecure, Tests
<1> QED
  BY <1>1, TestStep

\* The rest of main.
LEMMA LateStep ==
  ASSUME MainInv, ServeProbes \/ Shutdown \/ Flush
  PROVE  MainInv'
<1>1. /\ stage \in {"probes", "serve", "shutdown"} /\ stage' \in {"serve", "shutdown", "flush"}
      /\ left' \in {0, ShutdownTicks}
      /\ UNCHANGED <<exit, polling, cfg, source, rules, lastHash, failures, reads, file,
                     signalled, drain, drainLeft, sinceSignal>>
  BY DEF ServeProbes, Shutdown, Flush, Enter, Main, loaderVars
<1>2. Quiet
  BY <1>1 DEF Quiet, Early
<1>3. StartupTypeOK'
  BY <1>1, TicksAssumption DEF MainInv, StartupTypeOK, Stages, Timed
<1> QED
  BY <1>2, <1>3, QuietKeeps DEF MainInv

LEMMA MainReturns == ASSUME MainInv, Return PROVE MainInv'
BY ExitStep DEF Return, Main, loaderVars, MainInv, StartupTypeOK

\* What runs beside main, but for the poller's polls.
LEMMA BesideStep ==
  ASSUME MainInv,
         \/ BeginDrain \/ EndDrain \/ EndPolling \/ Tick \/ \E c \in Contents : Edit(c)
         \/ UNCHANGED startupVars
  PROVE  MainInv'
<1>1. /\ UNCHANGED <<stage, exit, cfg, source, rules, lastHash, failures, reads>>
      /\ polling' = polling \/ polling' = FALSE
      /\ drain' = drain \/ (drain # "none" /\ drain' # "none")
  BY DEF BeginDrain, EndDrain, EndPolling, Tick, Edit, startupVars, loaderVars
<1>2. Quiet
  BY <1>1 DEF Quiet
<1>3. /\ polling' \in BOOLEAN /\ signalled' \in BOOLEAN
      /\ drain' \in {"none", "waiting", "draining", "done"}
      /\ file' \in Contents
  BY DEF MainInv, StartupTypeOK, BeginDrain, EndDrain, EndPolling, Tick, Edit, startupVars
<1>4. {left', drainLeft', sinceSignal'} \subseteq Nat
  <2>1. CASE Tick
    BY <2>1 DEF MainInv, StartupTypeOK, Tick, Down
  <2>2. CASE ~Tick
    BY <2>2, TicksAssumption DEF MainInv, StartupTypeOK, BeginDrain, EndDrain, EndPolling, Edit,
       startupVars, timeVars
  <2> QED
    BY <2>1, <2>2
<1>5. StartupTypeOK'
  BY <1>1, <1>3, <1>4 DEF MainInv, StartupTypeOK
<1> QED
  BY <1>2, <1>5, QuietKeeps DEF MainInv

LEMMA SignalStep == ASSUME MainInv, Signal PROVE MainInv'
<1>1. CASE stage = "load"
  BY <1>1, ExitStep DEF Signal, loaderVars
<1>2. CASE stage # "load"
  <2>1. Quiet
    BY <1>2 DEF Signal, loaderVars, Quiet
  <2>2. signalled' \in BOOLEAN
    BY DEF Signal
  <2>3. StartupTypeOK'
    BY <1>2, <2>2 DEF Signal, loaderVars, MainInv, StartupTypeOK
  <2> QED
    BY <2>1, <2>3, QuietKeeps DEF MainInv
<1> QED
  BY <1>1, <1>2

\* A poll: rules that are not good leave those that were, and the third failure
\* in a row ends the process.
LEMMA PollStep == ASSUME MainInv, Poll PROVE MainInv'
<1>1. /\ stage # "exited" /\ polling
      /\ UNCHANGED <<cfg, source, file, signalled, drain, drainLeft, sinceSignal>>
  BY DEF Poll, Running
<1>2. /\ rules' \in Contents \cup {Nothing, Fetched}
      /\ lastHash' \in Contents \cup {Nothing}
      /\ reads' = <<reads[2], reads[3], Unchanged \/ Usable>>
      /\ rules' = IF Usable THEN file ELSE rules
  BY RefreshFacts DEF MainInv, Poll
<1>3. failures \in 0..2 /\ failures' = IF Unchanged \/ Usable THEN 0 ELSE failures + 1
  BY <1>1 DEF MainInv, StartupTypeOK, FailuresAreReads, Poll, Failed
<1>4. \/ /\ failures' >= 3
         /\ stage' = "exited" /\ left' = 0 /\ exit' = "file" /\ polling' = FALSE
      \/ /\ ~(failures' >= 3)
         /\ stage' = stage /\ left' = left /\ exit' = exit /\ polling' = polling
  BY DEF Poll, Exits, Enter
<1>5. FailuresAreReads'
  <2>1. CASE Unchanged \/ Usable
    <3>1. failures' = 0 /\ stage' = stage /\ exit' = exit
      BY <1>3, <1>4, <2>1
    <3> QED
      BY <1>1, <3>1, NoFailures DEF MainInv
  <2>2. CASE ~(Unchanged \/ Usable)
    <3>1. failures' = failures + 1
      BY <1>3, <2>2
    <3>2. (Unchanged \/ Usable) = FALSE
      BY <2>2
    <3>3. reads' = <<reads[2], reads[3], FALSE>>
      BY <1>2, <3>2
    <3>4. CASE failures = 2
      <4>0. reads[2] = FALSE /\ reads[3] = FALSE
        BY <3>4 DEF MainInv, FailuresAreReads
      <4>1. reads' = <<FALSE, FALSE, FALSE>>
        BY <3>3, <4>0
      <4>2. stage' = "exited"
        BY <1>4, <3>1, <3>4
      <4>3. reads'[2] = FALSE /\ reads'[3] = FALSE
        BY <4>1
      <4>4. FileExitsAfterThree'
        BY <4>1 DEF FileExitsAfterThree
      <4> QED
        BY <4>2, <4>3, <4>4 DEF FailuresAreReads
    <3>5. CASE failures # 2
      <4>1. failures' <= 2 /\ stage' = stage /\ exit' = exit
        BY <1>3, <1>4, <3>1, <3>5
      <4>2. reads'[3] = FALSE
        BY <3>3
      <4>3. failures' >= 2 => reads'[2] = FALSE
        BY <1>3, <3>1, <3>3 DEF MainInv, FailuresAreReads
      <4>4. exit' # "file"
        BY <1>1, <4>1 DEF MainInv, FailuresAreReads
      <4>5. FileExitsAfterThree'
        BY <4>4 DEF FileExitsAfterThree
      <4> QED
        BY <4>1, <4>2, <4>3, <4>4, <4>5 DEF FailuresAreReads
    <3> QED
      BY <3>4, <3>5
  <2> QED
    BY <2>1, <2>2
<1>6. StartupTypeOK'
  <2>1. stage' \in Stages /\ exit' \in {"none", "failed", "signal", "file", "stopped"}
    BY <1>4 DEF MainInv, StartupTypeOK, Stages
  <2>2. left' \in Nat /\ failures' \in 0..3
    BY <1>3, <1>4 DEF MainInv, StartupTypeOK
  <2>3. polling' \in BOOLEAN
    BY <1>4 DEF MainInv, StartupTypeOK
  <2> QED
    BY <1>1, <1>2, <2>1, <2>2, <2>3 DEF MainInv, StartupTypeOK
<1>7. Before'
  BY <1>1, <1>4 DEF MainInv, Before, Early
<1>8. Chosen'
  <2> SUFFICES ASSUME stage' = "new" \/ drain' # "none" PROVE RulesChosen'
    BY DEF Chosen
  <2>1. RulesChosen /\ source = "file"
    BY <1>1, <1>4 DEF MainInv, Chosen, RulesChosen
  <2>2. Applies(rules')
    BY <1>2, <2>1 DEF RulesChosen, Usable
  <2>3. Applies(rules)'
    BY <2>2 DEF Applies
  <2> QED
    BY <1>1, <2>1, <2>3 DEF RulesChosen
<1> QED
  BY <1>5, <1>6, <1>7, <1>8 DEF MainInv

LEMMA StartupNextInv == MainInv /\ [StartupNext]_startupVars => MainInv'
<1> SUFFICES ASSUME MainInv, [StartupNext]_startupVars PROVE MainInv'
  OBVIOUS
<1>1. CASE MainStep
  BY <1>1, LoadStep, FetchStep, LoadFileStep, StartStep, CheckStep, LateStep, MainReturns
     DEF MainStep
<1>2. CASE Signal
  BY <1>2, SignalStep
<1>3. CASE Poll
  BY <1>3, PollStep
<1>4. CASE BeginDrain \/ EndDrain \/ EndPolling \/ Tick \/ \E c \in Contents : Edit(c)
  BY <1>4, BesideStep
<1>5. CASE UNCHANGED startupVars
  BY <1>5, BesideStep
<1> QED
  BY <1>1, <1>2, <1>3, <1>4, <1>5 DEF StartupNext

\* main's inductive invariant: in particular its variables keep their types.
THEOREM StartupInvariant == StartupSpec => []MainInv
<1> QED
  BY StartupInitInv, StartupNextInv, PTL DEF StartupSpec

\* startRedaction: tunnels open over the rules of one source, and over good ones
\* for good, whatever is done to the file.
THEOREM OneSource == StartupSpec => []RulesOfOneSource
<1>1. MainInv => RulesOfOneSource
  BY DEF MainInv, Chosen, RulesChosen, RulesOfOneSource, Started
<1> QED
  BY <1>1, StartupInvariant, PTL

\* FileLoader.Run: three failures in a row end the process, and nothing less.
THEOREM ThreeFailures == StartupSpec => []FileExitsAfterThree
<1>1. MainInv => FileExitsAfterThree
  BY DEF MainInv, FailuresAreReads
<1> QED
  BY <1>1, StartupInvariant, PTL

-----------------------------------------------------------------------------
\* How long a stop may take: as long as the tests or the drain, which run side
\* by side, and then the shutdown of the probe server and the flush.
AllTests == IF cfg.proxy THEN 5 * TestTicks ELSE 2 * TestTicks
BeforeShutdown == IF AllTests > DrainTicks THEN AllTests ELSE DrainTicks
StopBound == BeforeShutdown + 2 * ShutdownTicks

\* Ticks since the signal once what main is in, or the drain, has used up its
\* limit.
MainUntil == sinceSignal + left
DrainUntil == sinceSignal + drainLeft

TestsInTime ==
    /\ stage = "proxy-tcp" => cfg.proxy /\ MainUntil <= TestTicks
    /\ stage = "proxy-manual-connect" => cfg.proxy /\ MainUntil <= 2 * TestTicks
    /\ stage = "proxy-http-transport" => cfg.proxy /\ MainUntil <= 3 * TestTicks
    /\ stage = "direct-insecure" => MainUntil <= AllTests - TestTicks
    /\ stage = "direct-secure" => MainUntil <= AllTests

EndsInTime ==
    /\ stage \in {"probes", "serve"} => sinceSignal <= BeforeShutdown
    /\ stage = "shutdown" => MainUntil <= BeforeShutdown + ShutdownTicks
    /\ stage = "flush" => MainUntil <= StopBound
    /\ sinceSignal <= StopBound

DrainsInTime ==
    /\ drain = "none" => stage \in Early \cup {"new", "exited"}
    /\ stage = "fetch" => left = 0
    /\ drain \in {"none", "waiting"} => sinceSignal = 0
    /\ drain = "draining" => DrainUntil <= DrainTicks

InTimeInv == TestsInTime /\ EndsInTime /\ DrainsInTime

LEMMA Bounds ==
  /\ TestTicks \in Nat /\ DrainTicks \in Nat /\ ShutdownTicks \in Nat
  /\ AllTests \in Nat /\ BeforeShutdown \in Nat /\ StopBound \in Nat
  /\ 2 * TestTicks <= AllTests /\ AllTests <= BeforeShutdown /\ DrainTicks <= BeforeShutdown
  /\ cfg.proxy => AllTests = 5 * TestTicks
  /\ ~cfg.proxy => AllTests = 2 * TestTicks
  /\ StopBound = BeforeShutdown + 2 * ShutdownTicks
<1>1. TestTicks \in Nat /\ DrainTicks \in Nat /\ ShutdownTicks \in Nat
  BY TicksAssumption
<1> QED
  BY <1>1 DEF AllTests, BeforeShutdown, StopBound

LEMMA InitInTime == StartupInit => InTimeInv
<1> SUFFICES ASSUME StartupInit PROVE InTimeInv
  OBVIOUS
<1>1. stage = "load" /\ drain = "none" /\ sinceSignal = 0
  BY DEF StartupInit
<1> QED
  BY <1>1, Bounds DEF InTimeInv, TestsInTime, EndsInTime, DrainsInTime, Early

\* A tick uses up a tick of what it passes in.
LEMMA TickInTime ==
  ASSUME StartupTypeOK, InTimeInv, Tick
  PROVE  InTimeInv'
<1>1. /\ UNCHANGED <<stage, cfg, drain>>
      /\ sinceSignal \in Nat /\ left \in Nat /\ drainLeft \in Nat
      /\ sinceSignal' = sinceSignal + 1
      /\ left' = IF left = 0 THEN 0 ELSE left - 1
      /\ drainLeft' = IF drainLeft = 0 THEN 0 ELSE drainLeft - 1
      /\ drain # "waiting"
      /\ (stage \in Timed /\ left > 0) \/ (stage = "serve" /\ drain = "draining")
      /\ drain = "draining" => drainLeft > 0
  BY DEF Tick, MayPass, Down, StartupTypeOK
<1>2. AllTests' = AllTests /\ BeforeShutdown' = BeforeShutdown /\ StopBound' = StopBound
  BY <1>1 DEF AllTests, BeforeShutdown, StopBound
<1>3. drain # "none"
  BY <1>1 DEF InTimeInv, DrainsInTime, Timed, Tests, Early
<1>4. DrainsInTime'
  BY <1>1, <1>3, Bounds DEF InTimeInv, DrainsInTime, DrainUntil
<1>5. CASE stage = "serve"
  <2>1. sinceSignal' <= DrainTicks
    BY <1>1, <1>5, Bounds DEF InTimeInv, DrainsInTime, DrainUntil, Timed, Tests
  <2> QED
    BY <1>1, <1>2, <1>4, <1>5, <2>1, Bounds DEF InTimeInv, TestsInTime, EndsInTime
<1>6. CASE stage # "serve"
  <2>1. MainUntil' = MainUntil /\ stage \in Timed /\ MainUntil \in Nat /\ sinceSignal' <= MainUntil
    BY <1>1, <1>6 DEF MainUntil
  <2>2. TestsInTime'
    BY <1>1, <1>2, <2>1 DEF InTimeInv, TestsInTime
  <2>3. MainUntil <= StopBound
    BY <1>1, <1>3, <2>1, Bounds DEF InTimeInv, TestsInTime, EndsInTime, DrainsInTime, Timed, Tests,
       Early
  <2>4. EndsInTime'
    BY <1>1, <1>2, <1>6, <2>1, <2>3, Bounds DEF InTimeInv, EndsInTime, Timed, Tests
  <2> QED
    BY <1>4, <2>2, <2>4 DEF InTimeInv
<1> QED
  BY <1>5, <1>6

\* The process ends: no later than it might have.
LEMMA ExitInTime ==
  ASSUME InTimeInv, stage' = "exited", UNCHANGED <<cfg, drain, drainLeft, sinceSignal>>
  PROVE  InTimeInv'
<1>1. StopBound' = StopBound
  BY DEF AllTests, BeforeShutdown, StopBound
<1>2. TestsInTime' /\ EndsInTime'
  BY <1>1 DEF InTimeInv, TestsInTime, EndsInTime
<1>3. DrainsInTime'
  BY DEF InTimeInv, DrainsInTime, DrainUntil
<1> QED
  BY <1>2, <1>3 DEF InTimeInv

\* Before the tunnels no time passes.
LEMMA EarlyInTime ==
  ASSUME MainInv, InTimeInv, Load \/ FetchSucceeds \/ FetchFails \/ LoadFile
  PROVE  InTimeInv'
<1>1. /\ drain = "none" /\ drain' = "none" /\ sinceSignal = 0 /\ sinceSignal' = 0
  BY DEF MainInv, Before, Early, InTimeInv, DrainsInTime, Load, RefuseSettings, AcceptSettings,
     FetchSucceeds, FetchFails, LoadFile, Main
<1>2. stage' \in {"fetch", "file", "new", "exited"} /\ (stage' = "fetch" => left' = 0)
  BY DEF Load, RefuseSettings, AcceptSettings, FetchSucceeds, FetchFails, LoadFile, Exits, Enter
<1>3. StopBound' \in Nat
  <2>1. TestTicks \in Nat /\ DrainTicks \in Nat /\ ShutdownTicks \in Nat
    BY TicksAssumption
  <2> QED
    BY <2>1 DEF AllTests, BeforeShutdown, StopBound
<1>4. TestsInTime' /\ EndsInTime'
  BY <1>1, <1>2, <1>3 DEF TestsInTime, EndsInTime
<1>5. DrainsInTime'
  BY <1>1, <1>2 DEF DrainsInTime, Early
<1> QED
  BY <1>4, <1>5 DEF InTimeInv

LEMMA StartInTime ==
  ASSUME MainInv, InTimeInv, Start
  PROVE  InTimeInv'
<1>1. CASE cfg.builds
  <2>1. /\ drain = "none" /\ drain' = "waiting" /\ sinceSignal = 0 /\ sinceSignal' = 0 /\ cfg' = cfg
        /\ \/ stage' = "probes"
           \/ stage' = "proxy-tcp" /\ cfg.proxy /\ left' = TestTicks
           \/ stage' = "direct-insecure" /\ ~cfg.proxy /\ left' = TestTicks
    BY <1>1 DEF MainInv, Before, InTimeInv, DrainsInTime, Start, FirstTest, Enter, Main
  <2>2. AllTests' = AllTests /\ BeforeShutdown' = BeforeShutdown /\ StopBound' = StopBound
    BY <2>1 DEF AllTests, BeforeShutdown, StopBound
  <2>3. TestsInTime'
    BY <2>1, <2>2, Bounds DEF TestsInTime, MainUntil
  <2>4. EndsInTime' /\ DrainsInTime'
    BY <2>1, <2>2, Bounds DEF EndsInTime, DrainsInTime
  <2> QED
    BY <2>3, <2>4 DEF InTimeInv
<1>2. CASE ~cfg.builds
  BY <1>2, ExitInTime DEF Start, Exits, Enter, Main
<1> QED
  BY <1>1, <1>2

\* The next test has a limit of its own.
LEMMA TestInTime ==
  ASSUME StartupTypeOK, InTimeInv, CheckConnectivity
  PROVE  InTimeInv'
<1>1. /\ stage \in Tests /\ UNCHANGED <<cfg, drain, drainLeft, sinceSignal>>
      /\ left \in Nat /\ sinceSignal \in Nat
      /\ \/ stage = "proxy-tcp" /\ stage' = "proxy-manual-connect" /\ left' = TestTicks
         \/ stage = "proxy-manual-connect" /\ stage' = "proxy-http-transport" /\ left' = TestTicks
         \/ stage = "proxy-http-transport" /\ stage' = "direct-insecure" /\ left' = TestTicks
         \/ stage = "direct-insecure" /\ stage' = "direct-secure" /\ left' = TestTicks
         \/ stage \in {"direct-insecure", "direct-secure"} /\ stage' = "probes" /\ left' = 0
  BY DEF StartupTypeOK, CheckConnectivity, ProxyTCPReachability, ManualCONNECT,
     HTTPTransportViaProxy, DirectInsecure, DirectSecure, Test, Enter, Main, Tests
<1>2. AllTests' = AllTests /\ BeforeShutdown' = BeforeShutdown /\ StopBound' = StopBound
  BY <1>1 DEF AllTests, BeforeShutdown, StopBound
<1>3. cfg' = cfg
  BY <1>1
<1>4. TestsInTime'
  BY <1>1, <1>2, <1>3, Bounds DEF InTimeInv, TestsInTime, MainUntil
<1>5. EndsInTime'
  BY <1>1, <1>2, Bounds DEF InTimeInv, TestsInTime, EndsInTime, MainUntil
<1>6. DrainsInTime'
  BY <1>1 DEF InTimeInv, DrainsInTime, DrainUntil, Tests, Early
<1> QED
  BY <1>4, <1>5, <1>6 DEF InTimeInv

LEMMA LateInTime ==
  ASSUME StartupTypeOK, InTimeInv, ServeProbes \/ Shutdown \/ Flush
  PROVE  InTimeInv'
<1>1. /\ UNCHANGED <<cfg, drain, drainLeft, sinceSignal>>
      /\ left \in Nat /\ sinceSignal \in Nat
      /\ \/ stage = "probes" /\ stage' = "serve"
         \/ stage = "serve" /\ stage' = "shutdown" /\ left' = ShutdownTicks
         \/ stage = "shutdown" /\ stage' = "flush" /\ left' = ShutdownTicks
  BY DEF StartupTypeOK, ServeProbes, Shutdown, Flush, Enter, Main
<1>2. BeforeShutdown' = BeforeShutdown /\ StopBound' = StopBound
  BY <1>1 DEF AllTests, BeforeShutdown, StopBound
<1>3. TestsInTime' /\ EndsInTime'
  BY <1>1, <1>2, Bounds DEF InTimeInv, TestsInTime, EndsInTime, MainUntil
<1>4. DrainsInTime'
  BY <1>1 DEF InTimeInv, DrainsInTime, DrainUntil, Early
<1> QED
  BY <1>3, <1>4 DEF InTimeInv

\* Steps beside main, of which only the drain's have a limit.
LEMMA BesideInTime ==
  ASSUME StartupTypeOK, InTimeInv, UNCHANGED <<stage, left, cfg, sinceSignal>>,
         \/ BeginDrain \/ EndDrain \/ UNCHANGED <<drain, drainLeft>>
  PROVE  InTimeInv'
<1>1. StopBound' = StopBound /\ AllTests' = AllTests /\ BeforeShutdown' = BeforeShutdown
  BY DEF AllTests, BeforeShutdown, StopBound
<1>2. MainUntil' = MainUntil
  BY DEF MainUntil
<1>3. TestsInTime' /\ EndsInTime'
  BY <1>1, <1>2 DEF InTimeInv, TestsInTime, EndsInTime
<1>4. DrainsInTime'
  BY Bounds DEF InTimeInv, DrainsInTime, DrainUntil, BeginDrain, EndDrain
<1> QED
  BY <1>3, <1>4 DEF InTimeInv

LEMMA NextInTime == MainInv /\ InTimeInv /\ [StartupNext]_startupVars => InTimeInv'
<1> SUFFICES ASSUME MainInv, InTimeInv, [StartupNext]_startupVars PROVE InTimeInv'
  OBVIOUS
<1>0. StartupTypeOK
  BY DEF MainInv
<1>1. CASE Load \/ FetchSucceeds \/ FetchFails \/ LoadFile \/ Start
  BY <1>1, EarlyInTime, StartInTime
<1>2. CASE CheckConnectivity \/ ServeProbes \/ Shutdown \/ Flush
  BY <1>0, <1>2, TestInTime, LateInTime
<1>3. CASE Return
  BY <1>3, ExitInTime DEF Return, Exits, Enter, Main
<1>4. CASE Signal
  BY <1>0, <1>4, ExitInTime, BesideInTime DEF Signal, Exits, Enter
<1>5. CASE Poll
  BY <1>0, <1>5, ExitInTime, BesideInTime DEF Poll, Exits, Enter
<1>6. CASE Tick
  BY <1>0, <1>6, TickInTime
<1>7. CASE BeginDrain \/ EndDrain
  BY <1>0, <1>7, BesideInTime DEF BeginDrain, EndDrain
<1>8. CASE EndPolling \/ \E c \in Contents : Edit(c)
  BY <1>0, <1>8, BesideInTime DEF EndPolling, Edit, timeVars
<1>9. CASE UNCHANGED startupVars
  BY <1>0, <1>9, BesideInTime DEF startupVars, timeVars
<1> QED
  BY <1>1, <1>2, <1>3, <1>4, <1>5, <1>6, <1>7, <1>8, <1>9 DEF StartupNext, MainStep

\* However long the tests and the drain take, and whenever the signal comes, the
\* process is gone within the longer of the two, the shutdown and the flush
\* (main, drainGrace, shutdownContextTimeout).
THEOREM StopIsBounded == StartupSpec => []StopWithin(StopBound)
<1>1. InTimeInv => StopWithin(StopBound)
  BY DEF InTimeInv, EndsInTime, StopWithin
<1> QED
  BY <1>1, InitInTime, NextInTime, StartupInvariant, PTL DEF StartupSpec

\* With the limits the code sets, in ticks of 5 s, a connector that is not
\* behind an egress proxy is gone in 30 s.
THEOREM DirectStops ==
  ASSUME TestTicks = 2, DrainTicks = 4, ShutdownTicks = 1
  PROVE  StartupSpec => []DirectStopsInTime
<1>1. StopWithin(StopBound) /\ StartupTypeOK => DirectStopsInTime
  BY Bounds DEF StopWithin, StartupTypeOK, DirectStopsInTime, StopBound, BeforeShutdown, AllTests
<1>2. MainInv => StartupTypeOK
  BY DEF MainInv
<1> QED
  BY <1>1, <1>2, StopIsBounded, StartupInvariant, PTL
=============================================================================
