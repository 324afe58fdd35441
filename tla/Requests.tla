------------------------------ MODULE Requests ------------------------------
(***************************************************************************)
(* One request inside a pipe, from pipeserver's forward to the answer: the *)
(* destination it names must be the pipe's, the client dials it as the dial *)
(* policy lets it, racing the addresses of a name, and the rules of its     *)
(* host are run over the body, one after the other.                        *)
(*                                                                         *)
(* What may be refused besides, how a body is held and how long, and rules *)
(* that change meanwhile are in UpstreamResponse.                          *)
(***************************************************************************)
EXTENDS DialPolicy, RedactRules, Functions

CONSTANTS
    Pipes,      \* destinations of a pipe: [host, port], as its capability spells it
    Inbound,    \* the requests the Integration Proxy may send
    Policies,   \* [proxy, proxyResolves]
    Lookups,    \* what the resolver may answer for a name
    RuleSets,   \* the rules a loader may install, at start and later
    Documents   \* the JSON bodies a destination may answer with

ASSUME LookupsAssumption == Lookups \subseteq Seq(Addresses)

\* Rules are a list, and a document is its leaves, each its own.
ASSUME RuleSetsAssumption == \A r \in RuleSets : r \in Seq(Range(r))
IsLeaf(leaf) ==
    /\ leaf = [id |-> leaf.id, path |-> leaf.path, type |-> leaf.type, text |-> leaf.text]
    /\ leaf.path \in Seq(Range(leaf.path))
ASSUME DocumentsAssumption ==
    \A d \in Documents : \A leaf \in d :
        IsLeaf(leaf) /\ \A other \in d : other.id = leaf.id => other = leaf

VARIABLES
    stage,      \* where the request is
    reason,     \* why it was refused
    pipe, request, policy,
    rules,      \* the Redactor's rules
    dials,      \* race: each address's dial
    winner,     \* race: the dial it keeps; 0 for none yet
    gone,       \* the dial's context has ended: the caller has left, or one has won
    tunnel,     \* the connection to the proxy: its state, whether the end of the
                \* context is still to put a deadline on it, and whether it has
    doc,        \* the body as it is
    original,   \* and as it came
    taken,      \* the rules that the pass under way took
    at          \* how many of them it has been through

raceVars == <<dials, winner, gone, tunnel>>
bodyVars == <<doc, original, taken, at>>
given == <<pipe, request, policy>>
vars == <<stage, reason, given, rules, raceVars, bodyVars>>

\* A dial of race, and the connection to the proxy.
Dialed == [addr : Addresses, state : {"dialing", "connected", "failed", "kept", "closed"}]
Tunnel == [state : {"none", "asked", "answered", "kept", "closed"}, armed : BOOLEAN, past : BOOLEAN]

\* The rules and the body are RedactRules' to give a type.
TypeOK ==
    /\ stage \in {"forward", "dial", "race", "proxy", "respond", "json", "bytes", "sent", "refused"}
    /\ dials \in Seq(Dialed)
    /\ winner \in Nat
    /\ gone \in BOOLEAN
    /\ tunnel \in Tunnel

Init ==
    /\ stage = "forward"
    /\ reason = "none"
    /\ pipe \in Pipes
    /\ request \in Inbound
    /\ policy \in Policies
    /\ rules \in {Update(r, <<>>) : r \in RuleSets}
    /\ dials = <<>> /\ winner = 0 /\ gone = FALSE
    /\ tunnel = [state |-> "none", armed |-> FALSE, past |-> FALSE]
    /\ doc = {} /\ original = {} /\ taken = <<>> /\ at = 0

\* rawpipe.Refuse: the request is answered with a reason and no more is done.
Refuse(why) == stage' = "refused" /\ reason' = why
-----------------------------------------------------------------------------
\* requestScheme: HTTP/2 names it in a header, HTTP/1 in an absolute target.
Scheme(r) ==
    IF r.http2 THEN (IF r.scheme = "none" THEN {"https"} ELSE {r.scheme} \cap {"http", "https"})
    ELSE {r.scheme} \cap {"http", "https"}

\* forward: the destination the request names is the pipe's.
Named(r) == \E s \in Scheme(r) : pipe \in Authority(s, r.host, r.port)

\* forward, and Client.Forward up to the dial: what is not for the pipe's
\* destination is not sent.  A probe is answered from here.
Forward ==
    /\ stage = "forward"
    /\ \/ (request.connect \/ Scheme(request) = {}) /\ Refuse("protocol_error")
       \/ /\ ~request.connect /\ Scheme(request) # {} /\ ~Named(request)
          /\ Refuse("wrong_destination")
       \/ /\ ~request.connect /\ Named(request)
          /\ stage' = IF pipe.host = "probe" THEN "sent" ELSE "dial"
          /\ UNCHANGED reason
    /\ UNCHANGED <<given, rules, raceVars, bodyVars>>

\* Policy.Dial, with the answers of one lookup.
Dial(answers) ==
    /\ stage = "dial"
    /\ LET plan == DialPlan(policy, pipe.host, answers) IN
       \/ plan.kind = "refused" /\ Refuse(plan.reason) /\ UNCHANGED raceVars
       \/ /\ plan.kind = "proxy"
          /\ \/ Refuse("dial_failed") /\ UNCHANGED tunnel
             \/ /\ stage' = "proxy" /\ UNCHANGED reason
                /\ tunnel' = [state |-> "asked", armed |-> TRUE, past |-> FALSE]
          /\ UNCHANGED <<dials, winner, gone>>
       \/ /\ plan.kind = "race"
          /\ stage' = "race"
          /\ dials' = [i \in DOMAIN plan.addrs |-> [addr |-> plan.addrs[i], state |-> "dialing"]]
          /\ UNCHANGED <<reason, winner, gone, tunnel>>
    /\ UNCHANGED <<given, rules, bodyVars>>

Set(i, s) == dials' = [dials EXCEPT ![i].state = s]

\* A dial of race connects: a context that has ended does not keep it from it.
Connect(i) ==
    /\ stage = "race" /\ dials[i].state = "dialing"
    /\ Set(i, "connected")
    /\ UNCHANGED <<stage, reason, given, rules, winner, gone, tunnel, bodyVars>>

\* Or it fails, refused, timed out or for the context.
Fail(i) ==
    /\ stage = "race" /\ dials[i].state = "dialing"
    /\ Set(i, "failed")
    /\ UNCHANGED <<stage, reason, given, rules, winner, gone, tunnel, bodyVars>>

\* The mutated form of Loser: the connection of a dial that comes second is
\* dropped and left open.
Loser_Left == "open"

\* What race does with a second connection.
Loser == "closed"

\* The mutated form of Cancels: the winner does not end the others' dials.
Cancels_Never == gone

\* race's context after it has taken a connection.
Cancels == TRUE

\* race takes a result: the first connection is kept, the others are closed.
Take(i) ==
    /\ stage = "race" /\ dials[i].state = "connected"
    /\ \/ winner = 0 /\ winner' = i /\ gone' = Cancels /\ Set(i, "kept")
       \/ winner # 0 /\ Set(i, Loser) /\ UNCHANGED <<winner, gone>>
    /\ UNCHANGED <<stage, reason, given, rules, tunnel, bodyVars>>

\* It has taken them all.
EndRace ==
    /\ stage = "race"
    /\ \A i \in DOMAIN dials : dials[i].state \notin {"dialing", "connected"}
    /\ IF winner = 0 THEN Refuse("dial_failed") ELSE stage' = "respond" /\ UNCHANGED reason
    /\ UNCHANGED <<given, rules, raceVars, bodyVars>>

\* httpconnect.Dial: the proxy answers CONNECT, with a tunnel or not.
Answer ==
    /\ stage = "proxy" /\ tunnel.state = "asked"
    /\ \/ /\ ~tunnel.past
          /\ tunnel' = [tunnel EXCEPT !.state = "answered"]
          /\ UNCHANGED <<stage, reason>>
       \/ tunnel' = [tunnel EXCEPT !.state = "closed"] /\ Refuse("dial_failed")
    /\ UNCHANGED <<given, rules, dials, winner, gone, bodyVars>>

\* The mutated form of Stopped: the result of stop is not looked at.
Stopped_Ignored == TRUE

\* stop keeps the deadline off the tunnel unless the context ended first.
Stopped == ~gone

\* The tunnel is the caller's, without a deadline, or it is closed.  Clearing
\* the deadline fails only on a closed connection, and nothing but Dial has this
\* one until it is returned.
Finish ==
    /\ stage = "proxy" /\ tunnel.state = "answered"
    /\ \/ /\ Stopped /\ stage' = "respond" /\ UNCHANGED reason
          /\ tunnel' = [state |-> "kept", armed |-> gone, past |-> FALSE]
       \/ /\ ~Stopped /\ Refuse("dial_failed")
          /\ tunnel' = [tunnel EXCEPT !.state = "closed"]
    /\ UNCHANGED <<given, rules, dials, winner, gone, bodyVars>>

\* The function of AfterFunc runs, on a goroutine of its own.
PutDeadline ==
    /\ gone /\ tunnel.armed /\ ~tunnel.past
    /\ tunnel' = [tunnel EXCEPT !.past = TRUE]
    /\ UNCHANGED <<stage, reason, given, rules, dials, winner, gone, bodyVars>>

\* The caller leaves while it dials, or later.
Leave ==
    /\ stage \in {"race", "proxy", "respond"} /\ ~gone
    /\ gone' = TRUE
    /\ UNCHANGED <<stage, reason, given, rules, dials, winner, tunnel, bodyVars>>
-----------------------------------------------------------------------------
\* A loader installs rules, or keeps those it has for rules that do not
\* compile.
Install(r) ==
    /\ stage \notin {"refused", "sent"}
    /\ rules' = Update(r, rules) /\ rules' # rules
    /\ UNCHANGED <<stage, reason, given, raceVars, bodyVars>>

\* A pass takes the rules as they are, all of them.
TakeRules == taken' = rules /\ at' = 0

\* The answer is here and held.  Client.redact: ApplyJSON is for a body of type
\* JSON; another is for Apply alone.
Respond(d) ==
    /\ stage = "respond"
    /\ doc' = d /\ original' = d
    /\ stage' \in {"json", "bytes"}
    /\ TakeRules
    /\ UNCHANGED <<reason, given, rules, raceVars>>

\* The mutated form of Turn: the rules are gone through from the last.
Turn_LastFirst(n) == taken[Len(taken) + 1 - n]

\* The n-th of the rules of a pass.
Turn(n) == taken[n]
RuleIsRun == Fires(Turn(at + 1), stage, pipe.host)

\* ApplyJSON, redactValue: the next rule runs over the whole of it, if it is
\* structured and for the host.
RunStructured ==
    /\ stage = "json" /\ at < Len(taken)
    /\ IF RuleIsRun THEN doc' \in Outcomes(Turn(at + 1), doc) ELSE doc' = doc
    /\ at' = at + 1
    /\ UNCHANGED <<stage, reason, given, rules, raceVars, original, taken>>

\* Apply is next, with the rules as they are by then.
TakeOthers ==
    /\ stage = "json" /\ at = Len(taken)
    /\ stage' = "bytes"
    /\ TakeRules
    /\ UNCHANGED <<reason, given, rules, raceVars, doc, original>>

RunOnBytes ==
    /\ stage = "bytes" /\ at < Len(taken)
    /\ doc' = IF RuleIsRun THEN OnBytes(Turn(at + 1), doc) ELSE doc
    /\ at' = at + 1
    /\ UNCHANGED <<stage, reason, given, rules, raceVars, original, taken>>

Send ==
    /\ stage = "bytes" /\ at = Len(taken)
    /\ stage' = "sent"
    /\ UNCHANGED <<reason, given, rules, raceVars, bodyVars>>

Next ==
    \/ Forward
    \/ \E answers \in Lookups : Dial(answers)
    \/ \E i \in DOMAIN dials : Connect(i) \/ Fail(i) \/ Take(i)
    \/ EndRace \/ Answer \/ Finish \/ PutDeadline \/ Leave
    \/ \E r \in RuleSets : Install(r)
    \/ \E d \in Documents : Respond(d)
    \/ RunStructured \/ TakeOthers \/ RunOnBytes \/ Send

\* race takes what comes and returns once it has all; a dial whose context has
\* ended returns.  Nothing else is certain: an address may never answer.
Fairness ==
    /\ \A i \in 1..MaxAnswers : WF_vars(i \in DOMAIN dials /\ Take(i))
    /\ \A i \in 1..MaxAnswers : WF_vars(i \in DOMAIN dials /\ gone /\ Fail(i))
    /\ WF_vars(EndRace)

Spec == Init /\ [][Next]_vars /\ Fairness
-----------------------------------------------------------------------------
\* Policy.Dial: whatever a lookup answers and however an address is spelled, no
\* dial reaches an IPv4 address that may not be, directly or carried.
NoDialReachesDenied == \A i \in DOMAIN dials : dials[i].addr.ip \notin Deny

\* race: it leaves one connection open if it returns one, and none if not,
\* whenever the caller leaves and however many connect at once.
OneConnection ==
    stage \notin {"forward", "dial", "race"} =>
        \A i \in DOMAIN dials : dials[i].state \notin {"failed", "closed"} <=> i = winner

\* race: an address that never answers does not hide one that does.
SilentHidesNothing == (\E i \in DOMAIN dials : dials[i].state = "connected") ~> stage # "race"

\* httpconnect.Dial: a tunnel the caller has bears no deadline, and one it has
\* not is closed, whenever the context ends.
TunnelIsUsable ==
    /\ tunnel.state = "kept" => ~tunnel.past
    /\ stage = "refused" => tunnel.state \in {"none", "closed"}

\* The structured rules have all been run.
StructuredDone == stage = "json" /\ at = Len(taken)
Original(leaf) == CHOOSE o \in original : o.id = leaf.id
Final(o) == Documented(taken, pipe.host, o)[Len(taken)]

\* Each redact_fields names fields: hasPathPrefixInSet takes the empty path for
\* the root alone, which the documentation does not speak of.
NamesFields ==
    \A i \in DOMAIN taken : taken[i].redact = None \/ <<>> \notin taken[i].redact

\* README: redact_fields and skip_fields name subtrees.  What is sent has been,
\* keys and texts, through the rules that name it and no other, in their order,
\* each by the keys that those before it have left.
FieldsAsDocumented ==
    StructuredDone /\ NamesFields => \A leaf \in doc : leaf = Final(Original(leaf))

\* redactValueForRule: "If two keys collapse to the same redacted form,
\* last-write-wins".  Through all the rules nothing is lost but to that: what is
\* not there would be under a key that is, and that was another.
NothingElseIsLost ==
    StructuredDone /\ NamesFields =>
        \A o \in original :
            \/ \E leaf \in doc : leaf.id = o.id
            \/ \E leaf \in doc : \E n \in DOMAIN leaf.path \cap DOMAIN o.path :
                   /\ Prefix(leaf.path, n) = Prefix(Final(o).path, n)
                   /\ Prefix(Original(leaf).path, n) # Prefix(o.path, n)

\* redactValue: "runs every structured rule over v independently", so that what
\* another makes of the keys is nothing to a rule.
RulesAreIndependent ==
    StructuredDone =>
        \A leaf \in doc : leaf.text = Apart(taken, pipe.host, Original(leaf))[Len(taken)].text
=============================================================================
