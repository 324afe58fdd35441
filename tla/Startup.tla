------------------------------- MODULE Startup -------------------------------
(***************************************************************************)
(* The connector's main: its settings, the source of its redaction rules,  *)
(* the tunnels and their drain, the connectivity test, the probe server    *)
(* and the end of the process; with it redact.FileLoader, whose goroutine  *)
(* may end the process at any point of that.                               *)
(*                                                                         *)
(* Three things run at once: main, the goroutine Tunnels.Start leaves to   *)
(* wait for a signal, and the file's poller.  Time is counted in ticks of  *)
(* five seconds and from the signal on: a tick passes while main or the     *)
(* drain is within a limit, and no step that is due is left undone.        *)
(* What a remote loader does after its first fetch is in RemoteConfig, what *)
(* the tunnels do in Tunnels and PipeServer.                               *)
(***************************************************************************)
EXTENDS Integers, Settings

CONSTANTS
    Envs,           \* the environments the process may be given
    Contents,       \* what the rules file may hold
    Nothing,        \* no content, no rules
    Fetched,        \* the rules a first fetch brings; later ones are RemoteConfig's
    TestTicks,      \* connectivityTestTimeout
    DrainTicks,     \* drainGrace
    ShutdownTicks   \* shutdownContextTimeout

ASSUME EnvsAssumption == \A e \in Envs : IsEnv(e)
ASSUME ContentsAssumption ==
    /\ Nothing \notin Contents /\ Fetched \notin Contents
    /\ \A c \in Contents :
        /\ DOMAIN c = {"id", "readable", "parses", "ota", "compiles"}
        /\ {c.readable, c.parses, c.ota, c.compiles} \subseteq BOOLEAN
ASSUME TicksAssumption ==
    {TestTicks, DrainTicks, ShutdownTicks} \subseteq Nat \ {0}

VARIABLES
    stage,      \* where main is
    exit,       \* how the process ended: "none" while it runs
    cfg,        \* what it made of its environment
    source,     \* where its rules come from
    rules,      \* the rules in force: a content of the file, or those fetched
    file,       \* what the rules file holds
    lastHash,   \* FileLoader.lastHash: the content applied; Nothing until loaded
    failures,   \* FileLoader.consecutiveFailures
    reads,      \* how the last three reads of the file ended
    polling,    \* FileLoader.Run's goroutine runs
    signalled,  \* ctx, of signal.NotifyContext, is done
    drain,      \* the goroutine of Tunnels.Start
    left,       \* ticks left of what main is blocked in
    drainLeft,  \* ticks left of the drain
    sinceSignal \* ticks since the signal

loaderVars == <<rules, lastHash, failures, reads>>
timeVars == <<left, drainLeft, sinceSignal>>
startupVars == <<stage, exit, cfg, source, loaderVars, file, polling, signalled, drain, timeVars>>

\* What the rest of the process needs of Config and of the other settings.
Config(e) ==
    [remote |-> Remote(e), badKeys |-> e.configKeys = "bad",
     file |-> Set(e.rulesFile), proxy |-> Parses(e.egressProxy),
     host |-> e.controller # "https no host", builds |-> Builds(e),
     http |-> e.controller = "http" /\ Builds([e EXCEPT !.controller = "https"])]

\* The environments a connector runs in.
Good == {e \in Envs : Loads(e) /\ BuildsTLS(e) /\ Builds(e)}

Tests == {"proxy-tcp", "proxy-manual-connect", "proxy-http-transport", "direct-insecure",
          "direct-secure"}
Timed == Tests \cup {"fetch", "shutdown", "flush"}
Stages == Timed \cup {"load", "file", "new", "probes", "serve", "exited"}

StartupInit ==
    /\ stage = "load"
    /\ exit = "none"
    /\ cfg = Nothing
    /\ source = "none"
    /\ rules = Nothing
    /\ file \in Contents
    /\ lastHash = Nothing
    /\ failures = 0
    /\ reads = <<TRUE, TRUE, TRUE>>
    /\ polling = FALSE
    /\ signalled = FALSE
    /\ drain = "none"
    /\ left = 0 /\ drainLeft = 0 /\ sinceSignal = 0

Running == stage # "exited"
Started == drain # "none"

\* main enters a stage that lasts at most n ticks.
Enter(s, n) == stage' = s /\ left' = n

\* os.Exit, or main's return: every goroutine ends with the process.
Exits(how) ==
    /\ Enter("exited", 0)
    /\ exit' = how
    /\ polling' = FALSE

\* A step of main that changes nothing but what it says it does.
Main == UNCHANGED <<cfg, file, signalled, drainLeft, sinceSignal>>
-----------------------------------------------------------------------------
\* config.Load or BuildClientTLSConfig refuses the environment, or telemetry.Setup
\* cannot build what it is to export with.
RefuseSettings(e) ==
    /\ stage = "load"
    /\ Loads(e) /\ BuildsTLS(e) => Exports(e) # {}
    /\ Exits("failed")
    /\ UNCHANGED <<source, loaderVars, drain>> /\ Main

\* They accept it and the exporters start: startRedaction follows, which asks
\* the config endpoint first if it is enabled.
AcceptSettings(e) ==
    /\ stage = "load"
    /\ Loads(e) /\ BuildsTLS(e)
    /\ cfg' = Config(e)
    /\ IF Remote(e) THEN Enter("fetch", 0) ELSE Enter("file", 0)
    /\ UNCHANGED <<exit, source, loaderVars, file, polling, signalled, drain, drainLeft,
                   sinceSignal>>

\* startRemoteRedaction loads the first config.
FetchSucceeds ==
    /\ stage = "fetch" /\ ~cfg.badKeys /\ cfg.host
    /\ source' = "remote"
    /\ rules' = Fetched
    /\ Enter("new", 0)
    /\ UNCHANGED <<exit, lastHash, failures, reads, polling, drain>> /\ Main

\* The mutated form of Fatal: bad keys are a failure like others.
Fatal_Never == ~cfg.file

\* A failed fetch ends the process: with no file, or with keys that do not
\* parse, which are looked at once there is a URL to fetch from.
Fatal == ~cfg.file \/ (cfg.badKeys /\ cfg.host)

\* It fails, in time or because the signal has come.
FetchFails ==
    /\ stage = "fetch"
    /\ \/ Fatal /\ Exits("failed")
       \/ ~Fatal /\ Enter("file", 0) /\ UNCHANGED <<exit, polling>>
    /\ UNCHANGED <<source, loaderVars, drain>> /\ Main

\* What refresh can use: top-level rules, or none in a document that is not an
\* OTA config.
Applies(c) == c.readable /\ c.parses /\ ~c.ota /\ c.compiles
Usable == Applies(file)
Unchanged == file.readable /\ lastHash = file

\* The mutated form of HashAfter: the content is remembered before it is known
\* to compile.
HashAfter_Early == IF file.readable THEN file ELSE lastHash

\* FileLoader.lastHash after a refresh.
HashAfter == IF Unchanged \/ Usable THEN file ELSE lastHash

\* The Redactor's rules after a refresh: an invalid file leaves those it has.
RulesAfter == IF Usable THEN file ELSE rules

Refresh ==
    /\ lastHash' = HashAfter
    /\ rules' = RulesAfter
    /\ reads' = <<reads[2], reads[3], Unchanged \/ Usable>>

\* FileLoader.LoadInitial, or no source at all.
LoadFile ==
    /\ stage = "file"
    /\ \/ /\ cfg.file /\ Usable
          /\ Refresh
          /\ source' = "file"
          /\ polling' = TRUE
          /\ Enter("new", 0)
          /\ UNCHANGED <<exit, failures>>
       \/ /\ cfg.file /\ ~Usable
          /\ Exits("failed")
          /\ UNCHANGED <<source, loaderVars>>
       \/ /\ ~cfg.file
          /\ Enter("new", 0)
          /\ UNCHANGED <<exit, source, loaderVars, polling>>
    /\ UNCHANGED drain /\ Main

\* The mutated form of FirstTest: the proxy's tests are run without a proxy.
FirstTest_All == IF cfg.host THEN Enter("proxy-tcp", TestTicks) ELSE Enter("probes", 0)

\* The first test CheckConnectivity runs; none if the URL has no host.
FirstTest ==
    IF ~cfg.host THEN Enter("probes", 0)
    ELSE Enter(IF cfg.proxy THEN "proxy-tcp" ELSE "direct-insecure", TestTicks)

\* pipeserver.New, then Tunnels.Start.
Start ==
    /\ stage = "new"
    /\ \/ /\ cfg.builds
          /\ drain' = "waiting"
          /\ FirstTest
          /\ UNCHANGED <<exit, polling>>
       \/ ~cfg.builds /\ Exits("failed") /\ UNCHANGED drain
    /\ UNCHANGED <<source, loaderVars>> /\ Main
-----------------------------------------------------------------------------
\* A test of CheckConnectivity ends, however it ends, and next follows.
Test(name, next) ==
    /\ stage = name
    /\ Enter(next, IF next \in Tests THEN TestTicks ELSE 0)
    /\ UNCHANGED <<exit, source, loaderVars, polling, drain>> /\ Main

ProxyTCPReachability == Test("proxy-tcp", "proxy-manual-connect")
ManualCONNECT == Test("proxy-manual-connect", "proxy-http-transport")
HTTPTransportViaProxy == Test("proxy-http-transport", "direct-insecure")

\* Only this one's failure skips the rest, and main only logs it.
DirectInsecure == Test("direct-insecure", "direct-secure") \/ Test("direct-insecure", "probes")
DirectSecure == Test("direct-secure", "probes")

CheckConnectivity ==
    ProxyTCPReachability \/ ManualCONNECT \/ HTTPTransportViaProxy \/ DirectInsecure
        \/ DirectSecure

\* serveProbes, then main waits for the tunnels.
ServeProbes ==
    /\ stage = "probes"
    /\ Enter("serve", 0)
    /\ UNCHANGED <<exit, source, loaderVars, polling, drain>> /\ Main

\* done is closed: the deferred shutdown of the probe server, then the flush.
Shutdown ==
    /\ stage = "serve" /\ drain = "done"
    /\ Enter("shutdown", ShutdownTicks)
    /\ UNCHANGED <<exit, source, loaderVars, polling, drain>> /\ Main

Flush ==
    /\ stage = "shutdown"
    /\ Enter("flush", ShutdownTicks)
    /\ UNCHANGED <<exit, source, loaderVars, polling, drain>> /\ Main

Return ==
    /\ stage = "flush"
    /\ Exits("stopped")
    /\ UNCHANGED <<source, loaderVars, drain>> /\ Main
-----------------------------------------------------------------------------
\* SIGINT, SIGTERM or SIGHUP: before NotifyContext it ends the process, after
\* it ends ctx; a second one changes nothing.
Signal ==
    /\ Running /\ ~signalled
    /\ signalled' = TRUE
    /\ IF stage = "load" THEN Exits("signal") ELSE UNCHANGED <<stage, left, exit, polling>>
    /\ UNCHANGED <<cfg, source, loaderVars, file, drain, drainLeft, sinceSignal>>

\* The goroutine of Tunnels.Start sees ctx done and drains the server.
BeginDrain ==
    /\ Running /\ signalled /\ drain = "waiting"
    /\ drain' = "draining"
    /\ drainLeft' = DrainTicks
    /\ UNCHANGED <<stage, exit, cfg, source, loaderVars, file, polling, signalled, left,
                   sinceSignal>>

\* Nothing is in flight, or the grace has ended: the tunnels are closed.
EndDrain ==
    /\ Running /\ drain = "draining"
    /\ drain' = "done"
    /\ drainLeft' = 0
    /\ UNCHANGED <<stage, exit, cfg, source, loaderVars, file, polling, signalled, left,
                   sinceSignal>>

\* The mutated form of Failed: what counts is the failures, not the failures
\* since the last success.
Failed_NeverReset == IF Unchanged \/ Usable THEN failures ELSE failures + 1

\* FileLoader.consecutiveFailures after a poll.
Failed == IF Unchanged \/ Usable THEN 0 ELSE failures + 1

\* FileLoader.poll: the third failure in a row ends the process at once.
Poll ==
    /\ Running /\ polling
    /\ Refresh
    /\ failures' = Failed
    /\ IF failures' >= 3 THEN Exits("file") ELSE UNCHANGED <<stage, left, exit, polling>>
    /\ UNCHANGED <<cfg, source, file, signalled, drain, drainLeft, sinceSignal>>

\* Run's select takes ctx's end; with a tick due as well it may take that.
EndPolling ==
    /\ polling /\ signalled
    /\ polling' = FALSE
    /\ UNCHANGED <<stage, exit, cfg, source, loaderVars, file, signalled, drain, timeVars>>

\* Someone edits the rules file, or removes it.
Edit(c) ==
    /\ Running /\ c # file
    /\ file' = c
    /\ UNCHANGED <<stage, exit, cfg, source, loaderVars, polling, signalled, drain, timeVars>>

\* Time passes while main is within a limit, or waits for a drain that is
\* within its own, and nothing else is due.
MayPass ==
    /\ signalled /\ drain # "waiting"
    /\ \/ stage \in Timed /\ left > 0
       \/ stage = "serve" /\ drain = "draining"
    /\ drain = "draining" => drainLeft > 0

Down(n) == IF n = 0 THEN 0 ELSE n - 1

Tick ==
    /\ MayPass
    /\ left' = Down(left)
    /\ drainLeft' = Down(drainLeft)
    /\ sinceSignal' = sinceSignal + 1
    /\ UNCHANGED <<stage, exit, cfg, source, loaderVars, file, polling, signalled, drain>>

Load == stage = "load" /\ \E e \in Envs : RefuseSettings(e) \/ AcceptSettings(e)

MainStep ==
    \/ Load
    \/ FetchSucceeds \/ FetchFails \/ LoadFile \/ Start
    \/ CheckConnectivity \/ ServeProbes \/ Shutdown \/ Flush \/ Return

StartupNext ==
    \/ MainStep
    \/ Signal \/ BeginDrain \/ EndDrain \/ Poll \/ EndPolling \/ Tick
    \/ \E c \in Contents : Edit(c)

StartupSpec == StartupInit /\ [][StartupNext]_startupVars

\* The poller's ticker goes on ticking: the one thing here that no limit of
\* Tick's brings about.
FairStartup == StartupSpec /\ WF_startupVars(Poll)
-----------------------------------------------------------------------------
StartupTypeOK ==
    /\ stage \in Stages
    /\ exit \in {"none", "failed", "signal", "file", "stopped"}
    /\ source \in {"none", "remote", "file"}
    /\ rules \in Contents \cup {Nothing, Fetched}
    /\ lastHash \in Contents \cup {Nothing}
    /\ file \in Contents
    /\ failures \in 0..3
    /\ polling \in BOOLEAN /\ signalled \in BOOLEAN
    /\ drain \in {"none", "waiting", "draining", "done"}
    /\ {left, drainLeft, sinceSignal} \subseteq Nat

\* EGRESS_PROXY_URL and the connect-to settings, which four places read: with a
\* proxy, what leaves by it is the tunnels, the config fetch, the proxy's own
\* tests and every export that bears the connector's certificate; the direct
\* tests and the exports in cleartext do not.  Without one, nothing does, and
\* the tunnels leave by another route than the config fetch and the tests only by
\* TRAVERSAL_TUNNELS_CONNECT_TO.
Routes ==
    {[proxy |-> Set(e.egressProxy), override |-> Set(e.tunnelsConnectTo), leaves |-> Leaves(e)] :
        e \in Good}
ByProxy(l) == l.what # "direct test" /\ (l.what = "export" => l.route.tls)
Together(r) ==
    {l \in r.leaves : l.what \in {"fetch", "direct test"} \/ (l.what = "tunnel" /\ ~r.override)}
RoutesAgree ==
    Started => \A r \in Routes :
        /\ \A l \in r.leaves : l.route.via = "proxy" <=> r.proxy /\ ByProxy(l)
        /\ ~r.proxy => \A l, m \in Together(r) : l.route = m.route

\* startRedaction: tunnels open over the rules of one source, the endpoint's if
\* its first fetch succeeded and the file's, good ones, if it did not; never
\* over rules that were asked for and not had, and never, where there is a host
\* to fetch from, with bad keys.
RulesOfOneSource ==
    Started =>
        /\ cfg.remote /\ cfg.host => ~cfg.badKeys
        /\ CASE source = "remote" -> cfg.remote /\ rules = Fetched /\ ~polling
             [] source = "file"   -> cfg.file /\ Applies(rules)
             [] OTHER             -> ~cfg.remote /\ ~cfg.file /\ rules = Nothing

\* FileLoader.Run: the file ends the process by three failures in a row, and
\* by nothing less: one good read between them is enough to go on.
FileExitsAfterThree == exit = "file" => reads = <<FALSE, FALSE, FALSE>>

\* values.yaml and drainGrace: a stopping connector that is not behind an
\* egress proxy is gone within 30 s of the signal, whatever it was doing.
StopWithin(ticks) == sinceSignal <= ticks
DirectStopsInTime == cfg # Nothing /\ ~cfg.proxy => StopWithin(6)

\* An edit that is not itself edited takes effect, or the process ends: a file
\* good for good is in force, and one bad for good is noticed.
EditsTakeEffect ==
    \A c \in Contents : <>[](file = c) => <>[](polling => rules = c)

\* values.yaml's terminationGracePeriodSeconds: a stopping connector takes at
\* most about 30 s, and the pod is killed after 40.
StopsWithinGrace == StopWithin(8)

\* README: in development any http:// host is accepted.
HttpRunsInDevelopment == ~(stage = "exited" /\ exit = "failed" /\ cfg # Nothing /\ cfg.http)
=============================================================================
