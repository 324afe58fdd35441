------------------------------ MODULE Settings ------------------------------
(***************************************************************************)
(* What the connector makes of its environment: config.Load, the strict    *)
(* env.Reader and the forgiving GetEnv functions, pipeserver.New and the   *)
(* transports of the config fetch, the tunnels and the OTLP exporters.     *)
(*                                                                         *)
(* An environment e maps each setting to a class of values: "unset", "bad" *)
(* for one that does not parse, or what the code tells apart about one     *)
(* that does.  Every refusal ends the process with the same exit status,   *)
(* so the checks are conjuncts: their order decides only what is logged.   *)
(***************************************************************************)
EXTENDS FiniteSets

\* The classes of values a setting can have.  Settings that are read alike
\* have the same classes.
Ints == {"unset", "min", "max", "zero", "over", "bad"}
Durations == {"unset", "ok", "zero", "negative", "bad"}
Bools == {"unset", "true", "false", "1", "bad"}
PEMs == {"unset", "ok", "bad"}
ConnectTos == {"unset", "ok", "bad"}
ProxyURLs == {"unset", "http", "https", "nohost", "bad"}
Endpoints == {"unset", "https", "http loopback", "http", "bare", "no host", "bad port", "bad"}

Classes ==
    [name |-> {"unset", "ok"},
     controller |-> {"unset", "https", "https IP", "https no host", "http", "other", "bad"},
     id |-> {"unset", "uuid", "quoted uuid", "other"},
     level |-> {"unset", "development", "production", "other"},
     controllerConnectTo |-> ConnectTos, otlpConnectTo |-> ConnectTos,
     disableTelemetry |-> Bools,
     egressProxy |-> ProxyURLs,
     upstreamCA |-> PEMs, upstreamCAFile |-> PEMs \cup {"unreadable"},
     configEnabled |-> Bools, configEndpoint |-> {"unset", "ok"},
     refreshInterval |-> Durations \cup {"over 24h"},
     configKeys |-> PEMs,
     rulesFile |-> {"unset", "ok"}, reloadInterval |-> Durations,
     maxRedactions |-> Ints, uncoveredLifetime |-> Durations,
     cert |-> PEMs, key |-> PEMs, ca |-> PEMs,
     certNames |-> {"own", "other", "none", "own and other"},
     metrics |-> Endpoints, traces |-> Endpoints, logs |-> Endpoints,
     capabilityKeys |-> PEMs, capabilityRoots |-> PEMs, issuer |-> {"unset", "ok"},
     tunnelsConnectTo |-> ConnectTos, tunnelsCount |-> Ints,
     pipesProxy |-> ProxyURLs, ambientProxy |-> ProxyURLs \cup {"bare"},
     proxyResolves |-> Bools, forbiddenCIDRs |-> {"unset", "ok", "bad"},
     pipesMax |-> Ints, maxLifetime |-> Durations,
     maxStreams |-> Ints, streamWindow |-> Ints, connectionWindow |-> Ints,
     idleTimeout |-> Durations]

Names == DOMAIN Classes

\* The environments.  Too many to enumerate: see NearBy in MCStartup.
IsEnv(e) == DOMAIN e = Names /\ \A n \in Names : e[n] \in Classes[n]

Set(v) == v # "unset"
-----------------------------------------------------------------------------
\* env.Reader: what is set and invalid is refused.
StrictInt(v) == v \in {"unset", "min", "max"}
StrictDuration(v) == v \in {"unset", "ok", "zero"}
StrictBool(v) == v \in {"unset", "true", "false"}

\* env.GetEnvBool: what does not parse is the default.
BoolOr(v, default) == IF v \in {"unset", "bad"} THEN default ELSE v \in {"true", "1"}

\* GetEnvDuration, whose value is then checked or used: the class of the value.
DurationOr(v) == IF v \in {"unset", "bad"} THEN "ok" ELSE v

\* EnvLevel.IsDev, with ENV_LEVEL's default.
IsDev(e) == e.level \in {"unset", "development"}

Disabled(e) == BoolOr(e.disableTelemetry, FALSE)
Remote(e) == e.configEnabled \in {"true", "1"}

\* The URL's scheme is https: newTransport and tunnelTLS ask no more.
Secure(e) == e.controller \in {"https", "https IP", "https no host"}

\* Load's connectorID: surrounding quotes are dropped.
ConnectorID(e) == IF e.id = "quoted uuid" THEN "uuid" ELSE e.id

\* The OTLP override, dropped with the telemetry.
OTLPConnectTo(e) == IF Disabled(e) THEN "unset" ELSE e.otlpConnectTo

ValidConnectTo(address) == address # "bad"

\* The mutated form of ExclusiveRoutes: only the controller's override is
\* weighed against the proxy.
ExclusiveRoutes_ControllerOnly(e) ==
    Set(e.egressProxy) => ~Set(e.controllerConnectTo)

\* Load: an egress proxy and a connect-to exclude each other.
ExclusiveRoutes(e) ==
    Set(e.egressProxy) => ~Set(e.controllerConnectTo) /\ ~Set(OTLPConnectTo(e))

\* loadUpstreamTLSCA.
ValidUpstreamCA(e) ==
    /\ ~(Set(e.upstreamCA) /\ Set(e.upstreamCAFile))
    /\ e.upstreamCAFile # "unreadable"

\* validateRemoteConfig.
ValidRemoteConfig(e) ==
    Remote(e) => DurationOr(e.refreshInterval) = "ok" /\ ConnectorID(e) = "uuid"

\* tls.X509KeyPair, of PEM that DecodePEM left raw or decoded.
KeyPair(e) == e.cert = "ok" /\ e.key = "ok"

\* validateControllerConnection.
ValidControllerConnection(e) ==
    \/ Secure(e) /\ KeyPair(e)
    \/ e.controller = "http" /\ IsDev(e)

\* otlpEndpoint.validate: https, or http to the pod itself; with a host, and a
\* port if any that can exist.
ValidEndpoint(v) == v \in {"https", "http loopback"}

\* applyTelemetryPolicy.
TelemetryPolicy(e) ==
    \/ Disabled(e) \/ IsDev(e)
    \/ \A v \in {e.metrics, e.traces, e.logs} : ValidEndpoint(v)

\* config.Load.
Loads(e) ==
    /\ Set(e.name) /\ Set(e.controller) /\ Set(e.id)
    /\ ExclusiveRoutes(e)
    /\ ValidConnectTo(e.controllerConnectTo) /\ ValidConnectTo(OTLPConnectTo(e))
    /\ ValidUpstreamCA(e)
    /\ e.configEnabled # "bad" /\ ~Set(e.configEndpoint)
    /\ StrictInt(e.maxRedactions) /\ StrictDuration(e.uncoveredLifetime)
    /\ Set(e.rulesFile) => e.reloadInterval \in {"unset", "ok"}
    /\ ValidRemoteConfig(e)
    /\ ValidControllerConnection(e)
    /\ TelemetryPolicy(e)

\* BuildClientTLSConfig: no certificate is no error, a bad one or a bad CA is.
BuildsTLS(e) ==
    Set(e.cert) /\ Set(e.key) => KeyPair(e) /\ e.ca # "bad"
-----------------------------------------------------------------------------
\* newVerifier and ParseTrust: a key with its issuer, a root with a controller
\* host, or both.
Trusts(e) ==
    /\ Set(e.capabilityKeys) \/ Set(e.capabilityRoots)
    /\ e.capabilityKeys # "bad" /\ e.capabilityRoots # "bad"
    /\ Set(e.capabilityKeys) => Set(e.issuer)
    /\ Set(e.capabilityRoots) => e.controller \in {"https", "http", "other"}

\* egressProxy: TRAVERSAL_PIPES_EGRESS_PROXY, or the ambient proxy.  A bare
\* host:port is an http proxy, in the ambient form only.
PipesProxy(e) ==
    IF Set(e.pipesProxy) THEN e.pipesProxy
    ELSE IF e.ambientProxy = "bare" THEN "http" ELSE e.ambientProxy

\* newPolicy.
Policy(e) ==
    /\ PipesProxy(e) \in {"unset", "http"}
    /\ e.forbiddenCIDRs # "bad"
    /\ StrictBool(e.proxyResolves)

\* checkIdentity: the one name in the certificate is this connector's.
Identity(e) == ConnectorID(e) = "uuid" /\ e.certNames = "own"

\* tunnelTLS.
TunnelTLS(e) ==
    /\ Secure(e) /\ KeyPair(e) /\ e.ca # "bad"
    /\ Identity(e)

\* tunnelProxy.
TunnelProxy(e) == e.egressProxy \in {"unset", "http"}

\* pipeserver.New.
Builds(e) ==
    /\ Trusts(e)
    /\ Policy(e)
    /\ e.upstreamCA # "bad" /\ e.upstreamCAFile # "bad"
    /\ \A v \in {e.pipesMax, e.maxStreams, e.streamWindow, e.connectionWindow, e.tunnelsCount} :
          StrictInt(v)
    /\ StrictDuration(e.maxLifetime) /\ StrictDuration(e.idleTimeout)
    /\ TunnelTLS(e)
    /\ ValidConnectTo(e.tunnelsConnectTo)
    /\ Set(e.egressProxy) => ~Set(e.tunnelsConnectTo)
    /\ TunnelProxy(e)
-----------------------------------------------------------------------------
\* How a connection leaves for Traversal: where the socket goes, and whether
\* it carries TLS with the connector's certificate.
Route(via, tls) == [via |-> via, tls |-> tls]

\* The proxy as the parsers that do not insist see it.
Parses(proxy) == Set(proxy) /\ proxy # "bad"

TunnelRoute(e) ==
    Route(IF Set(e.egressProxy) THEN "proxy"
          ELSE IF Set(e.tunnelsConnectTo) THEN "tunnels override"
          ELSE IF Set(e.controllerConnectTo) THEN "controller override"
          ELSE "direct", TRUE)

\* newTransport: a fixed target dials that, whatever the proxy; a proxy that
\* does not parse is no proxy; h2c has none.
ConfigRoute(e) ==
    Route(IF Set(e.controllerConnectTo) THEN "controller override"
          ELSE IF Secure(e) /\ Parses(e.egressProxy) THEN "proxy"
          ELSE "direct", Secure(e))

\* planOTLPTransport: an endpoint without TLS has no client certificate and no
\* proxy; a connect-to wins over the rest.
ExportRoute(e, v) ==
    Route(IF Set(OTLPConnectTo(e)) THEN "otlp override"
          ELSE IF v = "https" /\ Parses(e.egressProxy) THEN "proxy"
          ELSE IF v = "http loopback" THEN "pod"
          ELSE "direct", v = "https" /\ Set(e.cert) /\ Set(e.key))

\* The signals exported, each with its route: none whose endpoint is empty.
Exports(e) ==
    {[signal |-> s, route |-> ExportRoute(e, e[s])] :
        s \in {t \in {"metrics", "traces", "logs"} : ~Disabled(e) /\ Set(e[t])}}

\* CheckConnectivity: the direct tests dial the controller, or its connect-to,
\* with the connector's certificate whether or not there is a proxy; none is run
\* for a controller without a host.
DirectTest(e) ==
    Route(IF Set(e.controllerConnectTo) THEN "controller override" ELSE "direct", TRUE)
TestRoutes(e) ==
    IF e.controller = "https no host" THEN {}
    ELSE {[what |-> "direct test", route |-> DirectTest(e)]} \cup
         (IF Parses(e.egressProxy) THEN {[what |-> "proxy test", route |-> Route("proxy", TRUE)]} ELSE {})

\* All that leaves for Traversal.
Leaves(e) ==
    {[what |-> "tunnel", route |-> TunnelRoute(e)]} \cup
    (IF Remote(e) THEN {[what |-> "fetch", route |-> ConfigRoute(e)]} ELSE {}) \cup
    {[what |-> "export", route |-> x.route] : x \in Exports(e)} \cup
    TestRoutes(e)
=============================================================================
