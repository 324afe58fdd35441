# traversal-connector in TLA+

Models of the connector's concurrent core, the TLC runs that check them and the
TLAPS proofs about them. Source paths are relative to the repository's root, the
directory `src/` stands for here.

The connector runs in a customer's network. It dials a few **tunnels** (HTTP/2
inside TLS) out to an edge controller, which opens **pipes** (CONNECT streams)
on them; each pipe carries an HTTP connection whose requests the connector
forwards to a destination its **capability** names. Responses of destinations
covered by the customer's **redaction rules** are redacted before they leave.

## Inventory

| Component | State it keeps | Operations | Correct when |
|---|---|---|---|
| `connector-lib/drain` | draining flag, count, idle channel | Add, Done, Drain, Wait | the count is exact and capped; Wait neither sleeps through a drain nor reports one early |
| `internal/pipeserver/server.go` | the tracker, a handler per pipe | ServeConn, open, serve, servePipe, Drain | one slot for each admitted pipe on every path; a stop ends, gives open pipes their grace and leaves nothing behind |
| `internal/pipeserver/tunnels.go` | holders, tunnels up, ever up, stopping | Start, hold, serveOne, Ready | every place is redialed; every tunnel is counted, watched and closed by the stop; readiness is sticky |
| `connector-lib/capability` | opens per capability, expiry heap | Verify, take | no capability is accepted more often than allowed; the map does not grow for ever |
| `internal/redact/remote.go`, `signedconfig` | hash, ETag, version and document applied | LoadInitial, refresh, Run | rules, cache and version agree; no rollback; bounded replay; nothing is forwarded before rules are loaded |
| `internal/redact/file.go` | hash, failure count | LoadInitial, poll | last-known-good rules stay; three failures in a row stop the connector |
| `internal/redact/redact.go` | the compiled ruleset (atomic pointer) | Update, HasRulesForHost, Apply, ApplyJSON | a rule in scope is run over what it covers, and only that |
| `internal/upstream` | redaction slots, timers | Forward, respond, acquire, buffer, capStream | slots are exact; nothing covered leaves unredacted; waits and long streams end |
| `connector-lib/halfconn` | two copies, a failure | NewStreamConn, Wait, Splice | both copies stop; a broken stream is never taken for a clean end |
| `connector-lib/rawpipe` | a stream's ended and aborted flags | Accept, CloseWrite, Abort, Finish, prefaces | the peer sees one end of the stream, of the right kind |
| `connector-lib/httpserve` | handlers in flight on one conn | ServeConn | returns once the conn and its handlers are over |
| `connector-lib/dialpolicy`, `httpconnect` | none between dials | Dial, race | no forbidden address is dialed; losers of a race are closed |
| `connector-lib/jws`, `capability/chain.go` | none | parse, verify | strict parsing: one token, one reading; verifiers that move from keys to certificates agree |
| `internal/pipeserver/forward.go` | none | forward | only the pipe's destination is sent to |
| `cmd/connector` | the process | start, redaction first, tunnels, probes, stop | never up without the rules it was configured for; stops within the grace of its orchestrator |
| `internal/config`, `env`, `pipeserver/config.go` | the settings, fixed at start | Load, New | settings that contradict one another are refused; the places that read the route to Traversal agree on it |
| `internal/client` | none | CheckConnectivity, transports | tests hold up neither a stop nor the tunnels |
| router, telemetry, logging | none that changes after start | serve, export, flush | |

How they interact: `main` loads the rules, builds the `Server` and the
`Tunnels`, and starts them. Each `hold` goroutine serves its tunnel with
`Server.ServeConn`, which runs `serve` for each CONNECT; `serve` asks the
`Verifier`, takes a slot of the `drain.Tracker`, and runs the pipe over a
`StreamConn`. Requests inside a pipe go through `upstream.Client`, which reads
the ruleset that a loader goroutine swaps. On a signal, a goroutine of `Tunnels`
drains the tracker and cancels the context every tunnel's `AfterFunc` waits on.

What is hard in it: check-then-act across goroutines (draining, the cap, the
clock of a verification), channels replaced while someone waits on the old one,
two events that end one `select`, peers that stop reading, rules swapped between
a decision and its use, and failures between taking a thing and caching or
releasing it. `PROJECT.json` lists each hazard at its line, with the properties
aimed at it.

## Modules

| Module | Models | Composed of |
|---|---|---|
| `InFlight` | what a tracker promises: a cap, and "idle" only while nothing is in flight | |
| `DrainTracker` | `drain.Tracker`, with Wait as the steps it takes | implements `InFlight` |
| `PipeServer` | `Server` with the stop of `Tunnels.Start` | an instance of `DrainTracker`; implements `InFlight` |
| `Tunnels` | `Tunnels`: holders, replacement, readiness, stop | |
| `StreamConn` | `StreamConn` over a `ServerStream`, with the tail of `serve` | |
| `CapabilityOpens` | `take`, and `Verify` without its trust | |
| `CapabilityTrust` | all of `Verify`: parsing, keys, roots, claims | extends and implements `CapabilityOpens` |
| `RemoteConfig` | `RemoteLoader`, `signedconfig.Verify` and `startRedaction` | |
| `UpstreamResponse` | `Client.Forward` to `releasing.Close`, and the stream cap | |
| `DialPolicy` | host spellings, destinations, `Policy.Dial` up to its dials: operators | |
| `RedactRules` | compiling rules, and what one does to a document: operators | |
| `Requests` | one request: `forward`, the dial, the rules over its body | `DialPolicy`, `RedactRules` |
| `Settings` | `config.Load`, `env`, `pipeserver.New`, routes: operators | |
| `Startup` | `main` and `FileLoader`, from the environment to the exit | `Settings` |
| `X_proofs` | theorems about `X` | extends `X` |
| `Connector_proofs` | theorems about `Tunnels`, `Startup` and the operators of `Settings` | extends them |
| `MCX` | the instance of `X` that TLC checks | extends `X` |

Operators named `Definition_Something` are mutated forms of `Definition`: what a
plausible bug would make of it. No specification uses them; replacing the
definition by one of them breaks the property `PROJECT.json` pairs with it.

### DrainTracker

Each critical section of the mutex is one action: `AddAdmitted` or `AddRefused`,
`Done`, and the snapshot at the top of Wait's loop (`Look`). `Woken` and
`GiveUp` are the two cases of its `select`. Channels are numbered in the order
they are made, 0 being the nil channel of the zero value; `closed` is the set
closed so far and `held` the one each waiter read. `draining` is the atomic flag.
`work` follows each Add to its Done, so that "in flight" is not defined by the
counter it is to be compared with.

### PipeServer

A pipe is `sent` (its CONNECT is on the tunnel), then `undrained`, `verified`
and `admitted`, the three points `open` can be interrupted at; then `handshake`
and `serving` (`servePipe`), `closing` (`conn.Close` and `conn.Wait`), and
`over`. The slot is taken by `Tracker!AddAdmitted`, the same action DrainTracker
has, and given back by `Release`, the deferred Done, on each of the ways out. `answer` is
what the edge controller sees of a pipe: the refusals, the 200, the end, or a reset or cut, with those the stop itself caused
kept apart from a tunnel lost. `stop` is where the goroutine of `Tunnels.Start`
is: it marks the tracker draining, waits on it, and closes the tunnels.
Capability outcomes are a choice (`Verify` or `Reject`). Peers may stop reading
(`Stall`), pipes reach `MaxLifetime` (0 is none in the code; the model has one),
callers reset streams, tunnels are lost; after that a blocked copy
fails (`CopiesStop`).

### StreamConn

One pipe's conn. `copy` is where each of the two goroutines is: `"in"` looks at
`ended`, reads the body and writes to the net.Pipe; `"out"` reads the net.Pipe and
writes to the stream. A failure is four steps (`Publish`, `Abort`, `FailClosesFar`
and what the copy does then), and a second one waits for `failOnce`. `body` is what
ends the request's body, which the first of an end, a reset and a deadline decides.
A `Read` or `Write` of the user fails first as the net.Pipe says (`raw eof`, `raw
closed`) and is told the failure, or not, in a step of its own, as `orFailure` looks
later. PipeServer keeps of all this that a closed conn's Wait returns if the peer
reads, or is gone (`CopiesStop`): `WaitReturns` and `FailuresEnd`.

### Tunnels

A holder is in the loop test, in `serveOne`'s dial, in its `select`, in the wait,
or parked on the last `<-ctx.Done()`. `replaced` and the closing of a tunnel are
two separate events and the holder takes either when both are there. `watched`
is the set of tunnels whose `AfterFunc` is registered: a tunnel left for a
replacement stays in it. `up` and `everUp` are counted by `TrackUp` and
`TrackDown` as `tracked` does. Names of connections are used again; the bound
`MaxReplaced` on replaced tunnels still open keeps a free name for every holder.

### CapabilityOpens

`Begin` reads the clock; `Accept` and `Exhausted` are `take` under its lock,
with the time read then, however old it has become; `Reject` is every earlier
return. `opens` is the map and `expiry` the number of heap entries of each jti.
`accepted` counts the acceptances themselves, which pruning does not forget.
A jti is signed once, as its issuer promises, and the clock does not step back.

### CapabilityTrust

A capability is a record: what its header and claims are to the strict decoder
(`Decodes`: keys, and whether one is repeated), its signing key, the certificate
it carries, its connector and its target. `SigningKeys` is `signingKey`: the set
is empty where it returns an error. `TrustNext` is `CapabilityOpens`' `Next` with
`Accept`, `Exhausted` and `Reject` decided by `Verifies`; what was the choice of
`Reject` becomes the outcome of the checks. `Issues` is what `Sign` and `SignChained`
check, the claims alone: neither compares key, certificate, kid and issuer, so
capabilities that mix those of two environments are among the tokens. `WellSigned` is
what they leave to the signer; the properties that need it say so. That a root
certifies an environment's key for that environment's host and issuer alone is an
assumption on Traversal's CA (`CertifiedAssumption`), which the code cannot establish;
that a connector is installed with its own environment's issuer and keys is one on its
installation (`InstalledAssumption`).

### RemoteConfig

An object stands for its bytes: it is its own hash, and its ETag when the
endpoint sends one. `Poll` and `PollFails` put an answer under way, and handling
it is one of `Accept`, `NotModified` and the refusals, `Retain`, `Exit` or
`FallBack` by where the process is; the clock may move in between. The guards of
`refresh` are operators of their own (`Changed`, `Verified`, `Resigned`,
`NotOlder`, `Compiles`), in its order. `Restart` forgets all the loader knows.

### UpstreamResponse

A ruleset is a subset of `field`, `byte` (a structured and a byte-level rule for
the host) and `other` (a rule for another host). A request is covered or not as
`Forward` looks; a covered one is refused, or its response waits for a slot, is
read, and is run through `ApplyJSON` and `Apply`, which load the ruleset each for
itself. `applied` and `seen` record what was run over a response and which
rulesets were in force since its request; both are dropped as it ends. A body of
no bytes, which has nothing to redact, is left out.

A stream whose caller does not read is `stalled`: the copy waits in its write. The
cap's timer (`CapExpires`) closes the upstream body and no more (`closed`), as
streamcap.go has it; the stream ends once the copy next reads (`CopyEnds`), which a
stalled one does not. A caller that never reads thus keeps a stream past its cap.
`StreamCap` is whether the cap is on: `0s` turns it off.

### Settings and Startup

An environment maps each setting to one of the classes of values its readers tell
apart (`Classes`). Refusals are conjuncts, as each ends the process alike: `Loads`
is `config.Load`, `Builds` is `pipeserver.New`. A route is where a connection to
Traversal leaves and whether it carries TLS. Four places read the same settings for
one: `TunnelRoute`, `ConfigRoute`, `ExportRoute`, and `CheckConnectivity`, whose tests
go by the proxy (`TestRoutes`) and, proxy or not, directly to the controller
(`DirectTest`). `Leaves` is every connection that leaves, with its route.

In `Startup`, `stage` is where `main` is, `drain` where the goroutine of
`Tunnels.Start` is, `polling` whether `FileLoader.Run` is. A first fetch succeeds
or fails here; what follows it is RemoteConfig's. Ticks of five seconds pass only
once a signal came and only while something is within its limit, so `sinceSignal`
is the longest a stop may take, not any time a slow machine might. `reads` records
how the last three reads of the file ended, apart from the counter the code keeps.

### DialPolicy, RedactRules and Requests

A host has a name and a spelling, and an address an IP and a form: itself, or an
IPv6 form that carries an IPv4 address. `DialPlan` is `Policy.Dial` up to the point
where it dials. In `Requests` `Connect`, `Fail` and `Take` are the goroutines and
the loop of `race`; `gone` is the context both share. `Answer`, `Finish` and
`PutDeadline` are `httpconnect.Dial` and the function of its `AfterFunc`, which runs
beside it.

`Finish` has no failure of its own: clearing the deadline (httpconnect.go:80) fails
only on a closed connection, and nothing but `Dial` has this one until it is returned.

A text is the set of words in it, and a document the set of its leaves with their
paths. `TakeRules` is `ApplyJSON` loading the rules: what it `taken` does not change
with later swaps, and `at` of them have been run. `RunStructured` is one rule over the
whole document, as `redactValue` has it; `Outcomes` has one document for each choice
of the value that is kept when a rule makes two keys one, as Go's maps are in no
order. `Documented` is the README's account of the same, rule by rule and leaf by
leaf, keys and texts, to check it against. The README
does not say what an empty entry of `redact_fields` names; the code takes it for the
root alone, and `NamesFields` leaves such rules out of the comparison.

## Runs

| Run | Instance | Shows |
|---|---|---|
| `drain` | 3 pieces of work, 2 waiters, limit 2 | `NoLostWakeup`; `ImplementsInFlight`; if work ends, `WaitReturns` |
| `pipes` | 2 pipes, 1 slot, 1 tunnel | `SlotPerPipe` on every way out; `EarlyPipesGetGrace`; `StopEnds`, `StopEndsPipes`; `ReadPipesLapse` |
| `pipe_lifetime_stalled` | the same | *violated*: `LapsedPipesEnd` |
| `conn` | 2 chunks each way | `EofMeansAll`, `EndMeansAll`: no failure reads as an end on either side; `WaitReturns`; `FailuresEnd`: a reset or a failure ends both copies |
| `tunnels` | 2 holders, 3 connections | `TunnelsAccounted`: each is counted, watched by the stop and held by its place; `StopClosesTunnels`, `HoldersRedial` |
| `opens` | 2 callers, 2 capabilities, 2 opens, clock to 7, 5 trusts | `LimitWhileLive`, `StaleOpensBounded`; `EnvironmentBound`, `MigrationAgrees`, `InTimeAccepted` |
| `remote` | 8 objects, clock to 4, 1 restart, signatures, a local file | `TunnelsNeedRules`, `SuccessIsCurrent`, `ReplayBounded`, `NeverRollsBack`, `NewestIsApplied` |
| `remote_fallback` | both sources set | *violated*: `NoFallback` |
| `responses` | 2 requests, 1 slot, 4 rulesets | `SlotsExact`, `StandingRulesApplied`, `StreamsUnderRulesEnd`, `WaitsEnd` |
| `requests` | 6 pipes, 57 requests, 3 policies, 6 lookups, 3 rulesets, 2 documents | `NoDialReachesDenied`, `OneConnection`, `SilentHidesNothing`; `TunnelIsUsable`; `FieldsAsDocumented`, `NothingElseIsLost`: keys and texts go through the rules that name them, and only what a key's collision takes is lost |
| `startup` | environments near 4 that start, 6 file contents | `RoutesAgree`, `RulesOfOneSource`, `FileExitsAfterThree`, `EditsTakeEffect`, `DirectStopsInTime` |
| `startup_grace` | 4 environments | *violated*: `StopsWithinGrace` |

The `TypeOK` of each module with a proofs module is proved, as a part of its
inductive invariant.

### Why the bounds are enough

* `drain`: three Adds under a limit of two reach the cap, and let the count fall
  to zero and rise again twice, so a waiter can hold the first of three channels.
  Waiters do not disturb each other; two show it. The proofs have no bounds.
* `pipes`: one slot and two pipes make one pipe's end the other's admission, and
  let one be admitted on each side of the drain. Pipes meet only in the tracker
  and in the stop. One tunnel: pipes of two tunnels differ only in which loss
  ends them.
* `conn`: with two chunks each way a copy has one in hand while another waits, and
  one has gone before; the proofs have no bounds.
* `tunnels`: with three names for two holders a replaced tunnel serves beside
  both holders' own.
* `opens`: one capability expires at 4, the skew within it, and is swept
  from 5 on; the other is issued at 4 and can be opened until 7. So an open of the late one
  sweeps the early one's entry, before or after a caller that verified it with an
  older reading takes it again, past `MaxOpens` and no further than `StaleOpensBounded`
  says. `MaxOpens` is 2, 4 in the code (capability.go:47): the third open is the first
  refused. Checks are met within the skew on both sides. The late capability is
  everything one may be: plain, of another key or environment, with each certificate
  (some begin late or end early), wrong in one thing, and mixed from two environments.
* `remote`: the objects differ in one thing at a time (re-signed, same version
  with another document, newer version issued earlier, not compiling, unsigned,
  soon expired, newest), so each guard of `refresh` decides for one of them.
* `responses`: one slot, and two responses that want it. Two of the rulesets share the
  byte-level rule, so one rule stands through a swap that takes or brings another; a
  third has none for the host, and the fourth none at all. `StreamCap` is on, as with
  it off nothing is capped; the proofs are for both.
* `requests`: `MaxAnswers` is 3, 8 in the code; lookups answer with less, as many
  and more, and the one past the limit is denied and must not count. Three dials
  race: one wins, and a second and a third may connect or never answer. Among the rules
  two name the same leaves by key, so that their order tells, one renames the keys they
  go by and makes two keys of an object one, and one is for bytes. `DialPolicy`
  is proved for any bound.
* `startup`: 40 settings have too many values for every combination. `NearBy` holds
  the environments one setting from four that start, and those two settings away
  where both are weighed together (routes, levels, keys). Two settings that no start
  sets and that only exclude each other, as the two forms of the upstream CA, are
  never both set. Ticks are 5 s: tests of 10, a drain of 20 and
  shutdowns of 5 are 2, 4 and 1.

`CHECK_DEADLOCK FALSE` is used where the system does stop: a stopped connector
(`pipes`, `tunnels`, `startup`), a handler that has returned (`conn`), a request that
is answered (`requests`), work that is all over (`drain`), and a clock and restarts
at their bounds (`remote`).

### Fairness

The connector's goroutines run when they can, so each handler's, waiter's, copy's or
holder's steps are weakly fair, and so are timers (`GraceOver`, `Lapse`,
`CapExpires`, which only closes a body, `GiveUp` on the request timeout, `drainGrace`
behind `CloseTunnels`). Peers owe nothing: a pipe may never be closed, read or answered,
a dial never succeed, a caller never take its response. Where a property needs
more it says so in its own antecedent: `WorkEnds` (work in flight ends),
`PeersRead`, `PeerReads`, `CallersRead` (who stopped reading reads on), `Reachable` (strong fairness
of a dial's success: the network lets one through in the end). In
`RemoteConfig` the endpoint keeps serving its newest object now and then, between
any others: strong fairness of that poll. In `Requests` the loop of `race` takes what
arrives and a dial whose context has ended returns; that an address answers at all
is not assumed. In `Startup` the file's ticker goes on; the time limits need no
fairness, as `Tick` is refused where one has run out.

### What the violated runs say

* `LapsedPipesEnd`. README says of `TRAVERSAL_PIPES_MAX_LIFETIME` that a pipe this
  old is closed. `serve` then waits in `conn.Wait` (server.go:152), and a peer that
  does not read holds the copy toward it, the handler and the slot, until it reads
  or its tunnel ends. `ReadPipesLapse` is what does hold.
* `NoFallback`. README says the two sources of rules exclude each other and that
  there is no fallback; `startRedaction` falls back. `RulesOfOneSource` is what does
  hold.
* `StopsWithinGrace`. The comment of `drainGrace` says "a stop takes at most about 30 s:
  under the chart's 40 s terminationGracePeriodSeconds", and values.yaml the same. Behind an egress proxy main runs five connectivity tests of up to
  10 s, which no signal ends, before it waits for one: a stop that comes as they
  begin takes up to 60 s. `DirectStopsInTime` is what does hold.

### Stated, and not given by the code

Besides the runs above, some modules state what a doc or a comment says and TLC
refutes. They are kept beside the property that does hold; no run checks them.

| Property | Says | The code |
|---|---|---|
| `PipeServer!OnTheirWayAreRefused` | `Drain`'s comment: tunnels stay up so a pipe on its way is refused rather than reset | with nothing in flight Wait returns at once and the tunnels close; one that took its slot after that is answered 200 and cut (server.go:165, 181). `EarlyPipesGetGrace` holds |
| `UpstreamResponse!OneRulesetApplied` | rules are applied atomically | `Client.redact` loads them twice, so a pattern that moves between a structured and a byte-level rule may be run by neither. `StandingRulesApplied` holds |
| `UpstreamResponse!UnreadStreamsEnd` | README.md:301: at the cap the stream ends | the timer closes the upstream body; a copy blocked in its write to a caller that never reads does not see it (streamcap.go:29). `StreamsUnderRulesEnd` holds of callers that read |
| `Requests!RulesAreIndependent` | `redactValue`'s comment: every rule runs independently of the others | a rule that renames a key takes what is below it from the filters of those after it. `FieldsAsDocumented` holds: each goes by the keys those before it left |
| `CapabilityTrust!CheckedIsAccepted` | `CheckEnvironmentCertificate`'s comment: an issuer that checks with it issues none that connectors refuse | claims have 30 s of skew and certificates none (chain.go:124), so one that is just valid to the issuer may not be to a connector. `InTimeAccepted` holds |
| `Startup!HttpRunsInDevelopment` | README.md:50: in development any `http://` host is accepted | `config.Load` accepts it, `tunnelTLS` (pipeserver/config.go:253) then refuses it |

## Proofs

| Module | Theorem | Says, for all constants |
|---|---|---|
| `DrainTracker_proofs` | `CountExact`, `Capped`, `Wakeup` | the count is exact, at most `Limit`, and no wake-up is lost |
| | `Refinement` | `Spec => Promise!Spec`: it implements `InFlight` |
| `PipeServer_proofs` | `OneSlotEach`, `CapOnPipes`, `GraceForEarly` | each handler past open holds one slot, the cap bounds them, and the stop leaves no early pipe behind before its grace |
| | `UsesTracker` | `Spec => Tracker!Spec`: it uses `DrainTracker` as its specification allows |
| | `ServesInFlight` | `Spec => Pool!Spec`: its handlers past open implement `InFlight` |
| `Connector_proofs` | `Accounted`, `Sticky` | of `Tunnels`: every tunnel is counted, held and watched, and readiness stays, for any holders and connections |
| | `RoutesAlwaysAgree`, `StartupInvariant`, `OneSource`, `ThreeFailures` | of `Startup`, for any environments and file contents: which connections leave by an egress proxy, and which do not; without one, that they leave alike but for the settings that part them; tunnels open over the rules of one source; the file ends the process by three failed reads in a row only |
| | `StopIsBounded`, `DirectStops` | a stop takes at most `StopBound` for any limits, and 30 s for those of the code where there is no egress proxy |
| `StreamConn_proofs` | `NoFalseEof`, `NoFalseEnd` | no failure reads as an end, to the user or to the peer, however long the streams |
| `CapabilityTrust_proofs` | `HeapAndMapAgree`, `LimitHolds`, `StaleBound` | of `CapabilityOpens`: heap and map agree; `MaxOpens` while live; at most one more for each caller |
| | `TrustRefines`, `TrustedLimit`, `BoundToEnvironment` | the verifier with its trust implements it, so the limit holds of it; it accepts no other environment's capability |
| | `Migration`, `InTimeIsAccepted` | verifiers `NewVerifier` accepts agree, before and after a move from keys to certificates, on what issuers sign; what is signed and arrives in time is accepted |
| `RemoteConfig_proofs` | `NeverUnredacted`, `CacheIsTrue`, `ReplayIsBounded`, `NoRollback` | as the run, for every set of objects, file setting and clock |
| `UpstreamResponse_proofs` | `SlotsAreExact`, `RulesStand` | slots are exact and capped; a rule in force throughout is run |
| `Requests_proofs` | `NothingDeniedIsDialed`, `OneIsKept`, `TunnelsAreUsable` | as the run, for any lookups, policies, denied addresses and `MaxAnswers` |
| | `FiresWhereDocumented`, `FieldsAreAsDocumented`, `OnlyCollapsedIsLost` | a rule fires at exactly the keys and texts the README names; a leaf that is kept is what the rules that name it, in their order, make of it, and one that is not was lost to a collision of keys, for any rules, fields, keys and documents |

They rest on the assumptions named in the modules: finite sets of works, pipes,
callers and requests (counts are cardinalities), natural bounds, "no such
thing" values outside the sets they complete, dates that are numbers, rules that are
a list, documents whose leaves are told apart, and the two assumptions on trust above.
`DirectStops` takes the code's three time limits as hypotheses.

**DrainTracker.** `IInv` is the type invariant with the counter equal to the
number in flight, the channel closed exactly at zero with every earlier one
closed, and each held channel one that was made. The last is what makes
`NoLostWakeup` inductive: a waiter on an open channel is on the current one. For
the refinement, `Look` at zero is the step at which `InFlight` answers.

**PipeServer.** The tracker's steps are those of DrainTracker under the instance,
and its counter is counted again over the handlers: `SlotPerPipe` holds as each
step that joins or leaves the handlers past open is an Add or a Done.
`EarlyPipesGetGrace` needs the stop's own order (`StopOrder`: it waits only after
it marked the tracker, and closes only once Wait returned), that Wait fails only
when its context is done (`ErrorMeansExpired`), and that once it has seen zero
every handler holding a slot took it after the drain began (`IdleMeansLate`).
`UsesTracker` is the composition: what the server does to the tracker is a
behaviour of DrainTracker, so its theorems hold of it. `ServesInFlight` says more:
the handlers past open, whatever the tracker counts, are what `InFlight` promises.
Its steps follow from `IInv`; `SlotPerPipe` is what makes a tracker at zero, or full,
mean the same of the handlers. It is proved only: a run of `pipes` with
`HandlersInFlight` as a property agrees.

**Tunnels.** The count of tunnels up is the cardinality of those open: each step that
opens or closes one moves both (`UpIsExact`). A holder leaves its `select` only once
its tunnel is closed or being replaced, and no step but a close ends a watch, so what
is open is held or replaced, and watched. For `Sticky`, a tunnel up was up once
(`EverRemembers`).

**Startup.** `MainInv` has four parts: the types, what is not yet there before the
tunnels start (`Before`), the choice of a source, which stays as it was made
(`Chosen`), and that `failures` counts the failed reads at the end of `reads`
(`FailuresAreReads`), which is what makes an exit mean three. For the stop, `InTimeInv`
bounds `sinceSignal` by what main and the drain may still take: a connectivity test
has those after it to come (`TestsInTime`), the drain runs beside them
(`DrainsInTime`), and the two shutdowns follow (`EndsInTime`); `StopBound` is the
sum. `RoutesAgree` is a fact about `Settings` alone, by cases on what its readers
make of the proxy's setting (`ProxiedRoutes`, `DirectRoutes`).

**StreamConn.** Each copy's read and written chunks differ by the one in its hand
(`ChunksInOrder`); `fail` publishes before it aborts and aborts before it is done
(`FailInOrder`). Then whatever ends a copy or the reads of the stream has a reason
(`EndingHasReason`): the user closed, a failure is published, or all of an ended
peer has been read. A copy toward the stream that stopped with a chunk unwritten
left the stream aborted (`StoppedKnows`), and only then does `Finish` look.

**CapabilityTrust.** While a capability is live, its map entry equals what was
accepted (`CountIsTrue`) and is capped. Once it expires, each caller still
verifying it holds a reading from before: accepted opens plus those callers never
exceed `MaxOpens` plus all callers (`StaleCount`), which each acceptance keeps by
leaving that set. `TrustNext` only strengthens the guards of `Next`, so all of it holds
of `TrustSpec`. For the environment (`Bound`): a key that `SigningKeys` returns is
pinned, or certified for `Home`, and both are `Home`'s by `CertifiedAssumption`.
`Migration` and `InTimeIsAccepted` are about capabilities that are `WellSigned`: a
verifier with what it takes finds the key that signed one (`SignerIsFound`), and then
its verdict no longer depends on which verifier it is (`KnownVerifies`). So `Migration`
holds of every state. `InTimeIsAccepted` also needs that what is verified was issued no
later than the clock, give or take the skew (`Minted`).

**RemoteConfig.** The cached object's document is the one compiled, its version
and iat are those kept, and it was unexpired at a time no earlier than the
process's start; a process is up only with rules.

**UpstreamResponse.** Each way in and out of the holding states moves the counter by
one with them (`SlotsStep`). For the rules: the ruleset in force is among those a
request under way has lived under (`InForceIsSeen`), one sent uncovered has lived under
a ruleset without a rule for its host (`UncoveredSawNoRule`), what is held is of a kind
the next pass runs over (`HeldIsRedactable`), and past a pass, a rule of that pass in
all of them is in `applied` (`FieldsDone`, `BytesDone`); a swap only adds a ruleset
to those, so fewer rules are then due.

**Requests.** `RaceIsChecked` is the fact about `DialPlan`: what it gives `race` are
addresses of the lookup, none forbidden; from there no step adds one (`DialsAllowed`).
`race` keeps the dial it calls winner and no other (`KeptIsWinner`), and is over when
each of its dials is (`RaceIsOver`). For the body (`JsonInv`), each leaf has kept its
identity and is what the README makes of it after the rules run so far: the first `at`
of `taken`. Beside it, `Accounted` says that paths which began alike still do, that those left
which begin alike came so, and that a leaf which is gone would be under a key of one
that is left and that was another; one more rule keeps this (`LossStep`), as what it
drops collided with what it keeps. `Documented` is a recursive function; that there is
such a function (`Recursion`) is proved from the least number there would be none for
(`LeastOf`), in place of induction.

Some facts are proved and not run, as their proofs make a run superfluous:
`CountIsActive`, `AtMostLimit` and `IdleMeansZero` of `DrainTracker`, `PipeCap`,
`MapFollowsHeap`, `CacheIsApplied`, `ReadyIsSticky`, and each proved module's `TypeOK`.

Every safety property of a passing run is proved. Only model-checked are the liveness
properties (`WaitReturns`, `StopEnds`, `StopEndsPipes`, `ReadPipesLapse`, `FailuresEnd`,
`StopClosesTunnels`, `HoldersRedial`, `NewestIsApplied`, `StreamsUnderRulesEnd`,
`WaitsEnd`, `SilentHidesNothing`, `EditsTakeEffect`), as the prover does not reason about
the ENABLED of fairness; and the violated runs.

## Not modelled

* Bytes: TLS, HTTP framing, JWS, X.509 path building, gzip, the syntax of JSON and
  TOML, and regular expressions. A signature holds or does not, a body decodes or
  does not.
* Time, but for order, and in `Startup` the limits of a stop: timers fire at any
  moment after they are set, backoff waits end.
* `Splice` and the buffered wrappers of `halfconn`: the connector does not call them.
* HTTP/2's stream limit and flow control (a pipe queued for want of a stream), and
  how net/http dispatches a handler as its connection ends (`httpserve`): both are
  the library's.
* Which of `NO_PROXY`'s hosts bypass a pipe's proxy: `Requests` takes a policy with
  or without a proxy.
* What connectivity tests, metrics, traces and logs record; header sets; the
  validation of a legacy transport's requests, unused by the tunnels.
* `validate-config`, the memory limit, generated code, the chart and its scripts.

## Plan

What is left, in order:

1. `httpserve.ServeConn` with handlers dispatched as the conn closes, once more of
   net/http's promises are written down than its documentation does.
2. The composition of `Requests` with `UpstreamResponse`, so that a swap of rules
   meets one request from its dial to its last byte.
3. That the stop is one: `drain` of `Startup`, `stop` of `PipeServer` and `stopping`,
   `ctxDone` and `done` of `Tunnels` as refinements of one order of events.
