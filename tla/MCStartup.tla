------------------------------ MODULE MCStartup ------------------------------
(***************************************************************************)
(* The connector's main for TLC: environments that differ in one setting,  *)
(* or in two of those that are weighed together, from four that start, and *)
(* a rules file that is good, bad in each way, or gone.                    *)
(***************************************************************************)
EXTENDS Startup

\* A production connector as the chart installs it.
Production ==
    [n \in Names |->
        CASE n = "name" -> "ok"
          [] n = "controller" -> "https"
          [] n = "id" -> "quoted uuid"
          [] n = "level" -> "production"
          [] n \in {"cert", "key", "capabilityRoots"} -> "ok"
          [] n = "certNames" -> "own"
          [] n \in {"metrics", "traces", "logs"} -> "https"
          [] OTHER -> "unset"]

Bases ==
    { Production,
      [Production EXCEPT !.configEnabled = "true"],
      [Production EXCEPT !.rulesFile = "ok", !.egressProxy = "http"],
      [Production EXCEPT !.configEnabled = "true", !.rulesFile = "ok", !.level = "unset"] }

\* The settings whose values are weighed against each other's.
Weighed ==
    {"controller", "level", "controllerConnectTo", "otlpConnectTo", "tunnelsConnectTo",
     "egressProxy", "disableTelemetry", "configKeys"}

Deviations(names, e) == UNION {{[e EXCEPT ![n] = v] : v \in Classes[n]} : n \in names}

NearBy ==
    UNION {Deviations(Names, base)
             \cup UNION {Deviations(Weighed, d) : d \in Deviations(Weighed, base)} : base \in Bases}

Rules(id, readable, parses, ota, compiles) ==
    [id |-> id, readable |-> readable, parses |-> parses, ota |-> ota, compiles |-> compiles]

MCContents ==
    { Rules("a", TRUE, TRUE, FALSE, TRUE),
      Rules("b", TRUE, TRUE, FALSE, TRUE),
      Rules("gone", FALSE, TRUE, FALSE, TRUE),
      Rules("not TOML", TRUE, FALSE, FALSE, TRUE),
      Rules("OTA document", TRUE, TRUE, TRUE, TRUE),
      Rules("bad pattern", TRUE, TRUE, FALSE, FALSE) }
=============================================================================
