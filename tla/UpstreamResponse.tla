-------------------------- MODULE UpstreamResponse --------------------------
(***************************************************************************)
(* upstream.Client: requests forwarded to one destination host while the   *)
(* loader swaps the redaction rules under them.  A request is covered, or  *)
(* not, by the rules as it is sent; a covered response is held in memory   *)
(* in one of the redaction slots, and the rules are loaded twice to redact *)
(* it, once for its fields and once for its bytes; an uncovered response   *)
(* streams, under a cap if it is long-lived.                               *)
(*                                                                         *)
(* A ruleset is a set of rules: "field" and "byte" are a structured and a  *)
(* byte-level rule for the host, "other" one for another host.             *)
(***************************************************************************)
EXTENDS Naturals, FiniteSets

CONSTANTS
    Requests,   \* requests to the host
    Rulesets,   \* what the loader may put in force
    Slots,      \* TRAVERSAL_REDACTION_MAX_CONCURRENT
    StreamCap   \* whether TRAVERSAL_UNCOVERED_STREAM_MAX_LIFETIME is more than 0s

HostRules == {"field", "byte"}

ASSUME RequestsAssumption == IsFiniteSet(Requests)
ASSUME RulesetsAssumption == Rulesets \subseteq SUBSET (HostRules \cup {"other"}) /\ {} \in Rulesets
ASSUME SlotsAssumption == Slots \in Nat \ {0}
ASSUME StreamCapAssumption == StreamCap \in BOOLEAN

\* What an exchange is: a JSON document, other text, a body of neither or only
\* part of one, a body in a coding the connector cannot decode; an event
\* stream; a call that asks for an upgraded connection or gRPC.
Kinds == {"json", "text", "opaque", "coded", "events", "upgrade"}
LongLived == {"events", "upgrade"}

VARIABLES
    rules,      \* Redactor.rules
    where,      \* where each request is
    kind,       \* what each exchange under way is
    covered,    \* those whose host a rule covered as they were sent
    capped,     \* streams with a cap on their lifetime
    closed,     \* those whose upstream body the cap has closed
    stalled,    \* streams whose caller does not take what is written to it
    slots,      \* the redaction slots in use
    applied,    \* the rules that have been run over each response under way
    seen        \* the rulesets in force since each request under way began

streamVars == <<capped, closed, stalled>>
vars == <<rules, where, kind, covered, streamVars, slots, applied, seen>>

Holding == {r \in Requests : where[r] \in {"reading", "fields", "bytes", "sending"}}
Over == {"forwarded", "refused"}

TypeOK ==
    /\ rules \in Rulesets
    /\ where \in [Requests -> {"new", "sent", "waiting", "reading", "fields", "bytes",
                               "sending", "streaming"} \cup Over]
    /\ kind \in [Requests -> Kinds \cup {"none"}]
    /\ covered \subseteq Requests
    /\ capped \subseteq Requests /\ closed \subseteq capped /\ stalled \subseteq Requests
    /\ slots \in Nat
    /\ applied \in [Requests -> SUBSET HostRules]
    /\ seen \in [Requests -> SUBSET Rulesets]

Init ==
    /\ rules = {}
    /\ where = [r \in Requests |-> "new"]
    /\ kind = [r \in Requests |-> "none"]
    /\ covered = {}
    /\ capped = {} /\ closed = {} /\ stalled = {}
    /\ slots = 0
    /\ applied = [r \in Requests |-> {}]
    /\ seen = [r \in Requests |-> {}]

Goto(r, w) == where' = [where EXCEPT ![r] = w]

\* A request ends, and with it what is kept of it.
End(r, w) ==
    /\ Goto(r, w)
    /\ kind' = [kind EXCEPT ![r] = "none"]
    /\ covered' = covered \ {r}
    /\ capped' = capped \ {r} /\ closed' = closed \ {r} /\ stalled' = stalled \ {r}
    /\ applied' = [applied EXCEPT ![r] = {}]
    /\ seen' = [seen EXCEPT ![r] = {}]

\* The loader puts a ruleset in force, at any time.
Update(s) ==
    /\ rules' = s
    /\ seen' = [r \in Requests |->
                    IF where[r] \in Over \cup {"new"} THEN seen[r] ELSE seen[r] \cup {s}]
    /\ UNCHANGED <<where, kind, covered, streamVars, slots, applied>>
-----------------------------------------------------------------------------
\* HasRulesForHost.
Covers == rules \cap HostRules # {}

\* Forward decides coverage.  A request too large is refused before that, and
\* a covered one that could not be redacted before it is sent.
Forward(r) ==
    /\ where[r] = "new"
    /\ \/ End(r, "refused")
       \/ \E k \in Kinds :
             /\ Covers => k # "upgrade"
             /\ Goto(r, "sent")
             /\ kind' = [kind EXCEPT ![r] = k]
             /\ covered' = IF Covers THEN covered \cup {r} ELSE covered
             /\ seen' = [seen EXCEPT ![r] = {rules}]
             /\ UNCHANGED <<streamVars, applied>>
    /\ UNCHANGED <<rules, slots>>

\* The destination is not reached, does not answer, or the caller leaves.
UpstreamFails(r) ==
    /\ where[r] = "sent"
    /\ End(r, "refused")
    /\ UNCHANGED <<rules, slots>>

\* The mutated form of Capped: no rule covers the host, so nothing is capped.
Capped_IfCovered(r) == StreamCap /\ kind[r] \in LongLived /\ Covers

\* capStream: a long-lived response is capped while any rules exist, unless
\* the cap is turned off.
Capped(r) == StreamCap /\ kind[r] \in LongLived /\ rules # {}

\* respond, for a host no rule covered: the response streams.
Stream(r) ==
    /\ where[r] = "sent"
    /\ r \notin covered
    /\ Goto(r, "streaming")
    /\ capped' = IF Capped(r) THEN capped \cup {r} ELSE capped
    /\ UNCHANGED <<rules, kind, covered, closed, stalled, slots, applied, seen>>

\* A response the rules can be run over; a coding is looked at once it is read.
Redactable(r) == kind[r] \in {"json", "text", "coded"}

\* respond, for a covered response that cannot be redacted.
RefuseResponse(r) ==
    /\ where[r] = "sent"
    /\ r \in covered
    /\ ~Redactable(r)
    /\ End(r, "refused")
    /\ UNCHANGED <<rules, slots>>

\* respond, for one that can: a slot, or a wait for one.
Hold(r) ==
    /\ where[r] = "sent"
    /\ r \in covered
    /\ Redactable(r)
    /\ IF slots < Slots
       THEN Goto(r, "reading") /\ slots' = slots + 1
       ELSE Goto(r, "waiting") /\ UNCHANGED slots
    /\ UNCHANGED <<rules, kind, covered, streamVars, applied, seen>>

Acquire(r) ==
    /\ where[r] = "waiting"
    /\ slots < Slots
    /\ Goto(r, "reading")
    /\ slots' = slots + 1
    /\ UNCHANGED <<rules, kind, covered, streamVars, applied, seen>>

\* The mutated form of GiveUp: acquire waits for as long as it takes.
GiveUp_NoDeadline(r) == FALSE

\* No slot came free within the request timeout, or the caller has gone.
GiveUp(r) ==
    /\ where[r] = "waiting"
    /\ End(r, "refused")
    /\ UNCHANGED <<rules, slots>>
-----------------------------------------------------------------------------
\* read and the decoding: the response is in memory, as plain bytes.
Read(r) ==
    /\ where[r] = "reading"
    /\ kind[r] # "coded"
    /\ Goto(r, IF kind[r] = "json" THEN "fields" ELSE "bytes")
    /\ UNCHANGED <<rules, kind, covered, streamVars, slots, applied, seen>>

\* The mutated form of SlotsAfterFailure: the error return keeps the slot.
SlotsAfterFailure_Kept == slots

\* An error from buffer gives the slot back.
SlotsAfterFailure == slots - 1

\* buffer fails: the response does not end in time, is too large, does not
\* decode, is not the document it said, or does not encode.
BufferFails(r) ==
    /\ where[r] \in {"reading", "fields", "bytes"}
    /\ End(r, "refused")
    /\ slots' = SlotsAfterFailure
    /\ UNCHANGED rules

\* The host's rules of a type, as Redactor loads them.
InForce(type) == rules \cap {type}

\* Redactor.ApplyJSON, on the rules it loads.
ApplyJSON(r) ==
    /\ where[r] = "fields"
    /\ applied' = [applied EXCEPT ![r] = @ \cup InForce("field")]
    /\ Goto(r, "bytes")
    /\ UNCHANGED <<rules, kind, covered, streamVars, slots, seen>>

\* The mutated form of Apply: the byte-level rules are run only if no ruleset
\* was swapped in since the request was sent.
Apply_FirstRulesetOnly(r) ==
    /\ where[r] = "bytes"
    /\ applied' = [applied EXCEPT ![r] = @ \cup IF seen[r] = {rules} THEN InForce("byte") ELSE {}]
    /\ Goto(r, "sending")
    /\ UNCHANGED <<rules, kind, covered, streamVars, slots, seen>>

\* Redactor.Apply, on the rules it loads.
Apply(r) ==
    /\ where[r] = "bytes"
    /\ applied' = [applied EXCEPT ![r] = @ \cup InForce("byte")]
    /\ Goto(r, "sending")
    /\ UNCHANGED <<rules, kind, covered, streamVars, slots, seen>>

\* The redacted body has been sent, or the caller has gone; its Close gives the
\* slot back.
Sent(r) ==
    /\ where[r] = "sending"
    /\ End(r, "forwarded")
    /\ slots' = slots - 1
    /\ UNCHANGED rules

\* The copy of a stream has written more than its caller takes, and waits for
\* it.  Once the body is closed the copy reads no more: what it read last may
\* still be waiting then.
Stall(r) ==
    /\ where[r] = "streaming"
    /\ r \notin stalled /\ r \notin closed
    /\ stalled' = stalled \cup {r}
    /\ UNCHANGED <<rules, where, kind, covered, capped, closed, slots, applied, seen>>

\* Its caller reads on.
ReadOn(r) ==
    /\ where[r] = "streaming"
    /\ r \in stalled
    /\ stalled' = stalled \ {r}
    /\ UNCHANGED <<rules, where, kind, covered, capped, closed, slots, applied, seen>>

\* A stream ends: its destination is done and its caller has taken all, or its
\* caller has gone.
StreamEnds(r) ==
    /\ where[r] = "streaming"
    /\ End(r, "forwarded")
    /\ UNCHANGED <<rules, slots>>

\* The cap's timer closes the upstream body, and no more.
CapExpires(r) ==
    /\ where[r] = "streaming"
    /\ r \in capped \ closed
    /\ closed' = closed \cup {r}
    /\ UNCHANGED <<rules, where, kind, covered, capped, stalled, slots, applied, seen>>

\* The copy of a stream reads its closed body, as its end.
CopyEnds(r) ==
    /\ where[r] = "streaming"
    /\ r \in closed \ stalled
    /\ End(r, "forwarded")
    /\ UNCHANGED <<rules, slots>>

\* The steps the connector takes by itself.
Step(r) ==
    \/ Forward(r) \/ Stream(r) \/ RefuseResponse(r) \/ Hold(r) \/ Acquire(r) \/ GiveUp(r)
    \/ Read(r) \/ BufferFails(r) \/ ApplyJSON(r) \/ Apply(r) \/ CapExpires(r) \/ CopyEnds(r)

Next ==
    \/ \E s \in Rulesets : Update(s)
    \/ \E r \in Requests : Step(r) \/ UpstreamFails(r) \/ Sent(r)
    \/ \E r \in Requests : Stall(r) \/ ReadOn(r) \/ StreamEnds(r)

Spec == Init /\ [][Next]_vars

\* The connector's own steps are taken and its timers fire.  Destinations owe
\* nothing, and neither do callers: one may never read its response.
LiveSpec == Spec /\ \A r \in Requests : WF_vars(Step(r))
-----------------------------------------------------------------------------
\* A slot is in use for exactly each response held in memory, on every path out
\* of the pipeline, and never more than there are.
SlotsExact == slots = Cardinality(Holding) /\ slots <= Slots

\* The rules a body of this kind is due from a ruleset.
Due(k, s) == s \cap (IF k = "json" THEN HostRules ELSE {"byte"})

\* The rules of the host that have been in force since the request was sent.
Standing(r) == {rule \in HostRules : \A s \in seen[r] : rule \in s}

\* No response gets past a rule of its host: one forwarded from memory is of a
\* kind the rules can be run over, and every rule in force for it from the
\* request to the answer has been run, whatever was swapped meanwhile; one that
\* streams, without a rule run, had none in force from its request on.
StandingRulesApplied ==
    \A r \in Requests :
        /\ where[r] = "sending" =>
            kind[r] \in {"json", "text"} /\ Due(kind[r], Standing(r)) \subseteq applied[r]
        /\ where[r] = "streaming" => Standing(r) = {}

\* Every caller that stopped reading a stream reads on.
CallersRead == \A r \in Requests : WF_vars(ReadOn(r))

\* With the cap on, a long-lived response no rule covers ends, if there were
\* rules all along and its caller reads.
StreamsUnderRulesEnd ==
    CallersRead =>
        \A r \in Requests :
            (StreamCap /\ where[r] = "streaming" /\ kind[r] \in LongLived /\ {} \notin seen[r])
                ~> where[r] \in Over

\* README: a stream no rule covers is ended by the cap.  One whose caller does
\* not read is not: the copy waits in its write.
UnreadStreamsEnd ==
    \A r \in Requests : (where[r] = "streaming" /\ r \in capped) ~> where[r] \in Over

\* No response waits for a slot, or reads on, for ever, though a caller that
\* does not read its own may keep the slot it holds.
WaitsEnd ==
    \A r \in Requests :
        where[r] \in {"waiting", "reading"} ~> where[r] \in Over \cup {"sending"}

\* README and Redactor: rules are applied atomically, so a response is redacted
\* with one ruleset, one that was in force.
OneRulesetApplied ==
    \A r \in covered : where[r] = "sending" =>
        \E s \in seen[r] : applied[r] = Due(kind[r], s)
=============================================================================
