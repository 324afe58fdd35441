----------------------- MODULE UpstreamResponse_proofs -----------------------
(***************************************************************************)
(* Proofs about upstream.Client's redaction for any requests, any rulesets *)
(* and any number of slots, whatever the loader swaps in meanwhile.        *)
(***************************************************************************)
EXTENDS UpstreamResponse, FiniteSetTheorems, TLAPS

UnderWay(r) == where[r] \notin Over \cup {"new"}

\* The ruleset in force is one of those each request under way has lived under.
InForceIsSeen == \A r \in Requests : UnderWay(r) => rules \in seen[r]

\* A request that was sent uncovered, or streams, has lived under a ruleset
\* without a rule for the host.
UncoveredSawNoRule ==
    \A r \in Requests :
        \/ where[r] = "streaming"
        \/ where[r] = "sent" /\ r \notin covered
        => \E s \in seen[r] : s \cap HostRules = {}

\* What is held is of a kind the next pass can be run over.
HeldIsRedactable ==
    \A r \in Requests :
        /\ where[r] \in {"waiting", "reading"} => Redactable(r)
        /\ where[r] = "fields" => kind[r] = "json"
        /\ where[r] \in {"bytes", "sending"} => kind[r] \in {"json", "text"}

\* A pass leaves no standing rule of its type to run.
FieldsDone ==
    \A r \in Requests :
        where[r] \in {"bytes", "sending"} /\ kind[r] = "json" /\ "field" \in Standing(r)
            => "field" \in applied[r]

BytesDone ==
    \A r \in Requests : where[r] = "sending" /\ "byte" \in Standing(r) => "byte" \in applied[r]

IInv ==
    /\ TypeOK
    /\ SlotsExact
    /\ InForceIsSeen
    /\ UncoveredSawNoRule
    /\ HeldIsRedactable
    /\ FieldsDone
    /\ BytesDone

\* The responses held in memory are finitely many.
LEMMA HoldingFinite == IsFiniteSet(Holding) /\ Cardinality(Holding) \in Nat
<1>1. Holding \subseteq Requests
  BY DEF Holding
<1> QED
  BY <1>1, RequestsAssumption, FS_Subset, FS_CardinalityType

\* The slots stay exact in a step that takes a free one as the response is
\* held, gives one back as it is let go, or touches neither.
LEMMA SlotsStep ==
  ASSUME SlotsExact, NEW r,
         \/ slots < Slots /\ slots' = slots + 1 /\ r \notin Holding /\ Holding' = Holding \cup {r}
         \/ slots' = slots - 1 /\ r \in Holding /\ Holding' = Holding \ {r}
         \/ slots' = slots /\ Holding' = Holding
  PROVE  SlotsExact' /\ slots' \in Nat
<1>1. CASE slots < Slots /\ slots' = slots + 1 /\ r \notin Holding /\ Holding' = Holding \cup {r}
  <2>1. Cardinality(Holding') = Cardinality(Holding) + 1
    BY <1>1, HoldingFinite, FS_AddElement
  <2> QED
    BY <1>1, <2>1, HoldingFinite, SlotsAssumption DEF SlotsExact
<1>2. CASE slots' = slots - 1 /\ r \in Holding /\ Holding' = Holding \ {r}
  <2>1. Cardinality(Holding') = Cardinality(Holding) - 1
    BY <1>2, HoldingFinite, FS_RemoveElement
  <2>2. Cardinality(Holding) # 0
    BY <1>2, HoldingFinite, FS_EmptySet
  <2> QED
    BY <1>2, <2>1, <2>2, HoldingFinite, SlotsAssumption DEF SlotsExact
<1>3. CASE slots' = slots /\ Holding' = Holding
  BY <1>3, HoldingFinite DEF SlotsExact
<1> QED
  BY <1>1, <1>2, <1>3

LEMMA InitIInv == Init => IInv
<1> SUFFICES ASSUME Init PROVE IInv
  OBVIOUS
<1>1. TypeOK
  BY RulesetsAssumption DEF Init, TypeOK
<1>2. Holding = {}
  BY DEF Init, Holding
<1>3. SlotsExact
  BY <1>2, FS_EmptySet, SlotsAssumption DEF Init, SlotsExact
<1>4. InForceIsSeen /\ UncoveredSawNoRule /\ HeldIsRedactable /\ FieldsDone /\ BytesDone
  BY DEF Init, InForceIsSeen, UnderWay, Over, UncoveredSawNoRule, HeldIsRedactable, FieldsDone, BytesDone
<1> QED
  BY <1>1, <1>3, <1>4 DEF IInv

\* A ruleset swapped in joins those every request under way has lived under,
\* and so can only shorten the list of rules that stood.
LEMMA UpdateKeeps ==
  ASSUME IInv, NEW s \in Rulesets, Update(s)
  PROVE  IInv'
<1> USE DEF IInv
<1>1. TypeOK'
  BY DEF Update, TypeOK, streamVars
<1>2. Holding' = Holding /\ slots' = slots
  BY DEF Update, Holding
<1>3. SlotsExact'
  BY <1>2 DEF SlotsExact
<1>4. InForceIsSeen'
  BY DEF InForceIsSeen, UnderWay, Update, TypeOK
<1>5. \A r \in Requests : seen[r] \subseteq seen'[r]
  BY DEF Update, TypeOK
<1>6. \A r \in Requests : Standing(r)' \subseteq Standing(r)
  BY <1>5 DEF Standing
<1>7. UncoveredSawNoRule'
  BY <1>5 DEF Update, UncoveredSawNoRule
<1>8. HeldIsRedactable'
  BY DEF Update, HeldIsRedactable, Redactable
<1>9. FieldsDone' /\ BytesDone'
  BY <1>6 DEF Update, TypeOK, FieldsDone, BytesDone
<1> QED
  BY <1>1, <1>3, <1>4, <1>7, <1>8, <1>9

\* A request ends, or is let go, from any state: nothing is kept of it.
LEMMA EndKeeps ==
  ASSUME IInv, NEW r \in Requests, NEW w \in Over, End(r, w),
         SlotsExact', slots' \in Nat, UNCHANGED rules
  PROVE  IInv'
<1> USE DEF IInv
<1>1. TypeOK'
  BY DEF End, Goto, TypeOK, Over
<1>2. InForceIsSeen' /\ UncoveredSawNoRule' /\ HeldIsRedactable'
  BY DEF End, Goto, TypeOK, Over, InForceIsSeen, UnderWay, UncoveredSawNoRule, HeldIsRedactable,
         Redactable
<1>3. FieldsDone' /\ BytesDone'
  BY DEF End, Goto, TypeOK, Over, FieldsDone, BytesDone, Standing
<1> QED
  BY <1>1, <1>2, <1>3

\* A request is sent, and covered if there is a rule for its host.
LEMMA SendKeeps ==
  ASSUME IInv, NEW r \in Requests, Forward(r), ~End(r, "refused")
  PROVE  IInv'
<1> USE DEF IInv
<1>1. PICK k \in Kinds :
        /\ where[r] = "new" /\ where' = [where EXCEPT ![r] = "sent"]
        /\ kind' = [kind EXCEPT ![r] = k]
        /\ covered' = IF Covers THEN covered \cup {r} ELSE covered
        /\ seen' = [seen EXCEPT ![r] = {rules}]
        /\ UNCHANGED <<rules, streamVars, slots, applied>>
  BY DEF Forward, Goto
<1>2. TypeOK'
  BY <1>1 DEF TypeOK, streamVars
<1>3. SlotsExact'
  <2>1. Holding' = Holding
    BY <1>1 DEF Holding, TypeOK
  <2> QED
    BY <1>1, <2>1 DEF SlotsExact
<1>4. InForceIsSeen'
  BY <1>1 DEF InForceIsSeen, UnderWay, TypeOK, Over
<1>5. UncoveredSawNoRule'
  <2>1. r \notin covered' => rules \cap HostRules = {} /\ rules \in seen'[r]
    BY <1>1 DEF Covers, TypeOK
  <2> QED
    BY <1>1, <2>1 DEF UncoveredSawNoRule, TypeOK
<1>6. HeldIsRedactable'
  BY <1>1 DEF HeldIsRedactable, Redactable, TypeOK
<1>7. FieldsDone' /\ BytesDone'
  BY <1>1 DEF FieldsDone, BytesDone, Standing, TypeOK
<1> QED
  BY <1>2, <1>3, <1>4, <1>5, <1>6, <1>7

\* A request moves on towards its passes, or streams.
LEMMA ProgressKeeps ==
  ASSUME IInv, NEW r \in Requests, Stream(r) \/ Hold(r) \/ Acquire(r) \/ Read(r)
  PROVE  IInv'
<1> USE DEF IInv
<1>1. UNCHANGED <<rules, kind, covered, applied, seen>>
  BY DEF Stream, Hold, Acquire, Read
<1>2. PICK w \in {"streaming", "reading", "waiting", "fields", "bytes"} :
        where' = [where EXCEPT ![r] = w]
  BY DEF Stream, Hold, Acquire, Read, Goto
<1>3. where[r] \in {"sent", "waiting", "reading"}
  BY DEF Stream, Hold, Acquire, Read
<1>4. SlotsExact' /\ slots' \in Nat
  <2>1. CASE slots' = slots
    <3>1. where[r] = "reading" <=> where'[r] \in {"reading", "fields", "bytes", "sending"}
      BY <2>1 DEF Stream, Hold, Acquire, Read, Goto, TypeOK
    <3>2. Holding' = Holding
      BY <1>2, <1>3, <3>1 DEF Holding, TypeOK
    <3> QED
      BY <2>1, <3>2, SlotsStep
  <2>2. CASE slots' # slots
    <3>1. /\ slots < Slots /\ slots' = slots + 1
          /\ where[r] # "reading" /\ where' = [where EXCEPT ![r] = "reading"]
      BY <2>2 DEF Stream, Hold, Acquire, Read, Goto
    <3>2. r \notin Holding /\ Holding' = Holding \cup {r}
      BY <1>3, <3>1 DEF Holding, TypeOK
    <3> QED
      BY <3>1, <3>2, SlotsStep
  <2> QED
    BY <2>1, <2>2
<1>5. capped' \subseteq Requests /\ capped \subseteq capped' /\ UNCHANGED <<closed, stalled>>
  BY DEF Stream, Hold, Acquire, Read, TypeOK, streamVars
<1>6. TypeOK'
  BY <1>1, <1>2, <1>4, <1>5 DEF TypeOK
<1>7. InForceIsSeen' /\ UncoveredSawNoRule'
  <2>1. where'[r] = "streaming" => where[r] = "sent" /\ r \notin covered
    BY <1>2 DEF Stream, Hold, Acquire, Read, Goto, TypeOK
  <2> QED
    BY <1>1, <1>2, <1>3, <2>1 DEF InForceIsSeen, UnderWay, UncoveredSawNoRule, TypeOK, Over
<1>8. HeldIsRedactable'
  <2>1. /\ where'[r] \in {"waiting", "reading"} => Redactable(r)
        /\ where'[r] = "fields" => kind[r] = "json"
        /\ where'[r] = "bytes" => kind[r] \in {"json", "text"}
    BY DEF Stream, Hold, Acquire, Read, Goto, HeldIsRedactable, Redactable, TypeOK
  <2> QED
    BY <1>1, <1>2, <2>1 DEF HeldIsRedactable, Redactable, TypeOK
<1>9. FieldsDone' /\ BytesDone'
  <2>1. where'[r] = "bytes" => kind[r] # "json"
    BY <1>2 DEF Stream, Hold, Acquire, Read, Goto, TypeOK
  <2> QED
    BY <1>1, <1>2, <2>1 DEF FieldsDone, BytesDone, Standing, TypeOK
<1> QED
  BY <1>4, <1>6, <1>7, <1>8, <1>9

\* A pass runs the rules of its type that it finds in force, which every rule
\* that stood is among.
LEMMA PassKeeps ==
  ASSUME IInv, NEW r \in Requests, ApplyJSON(r) \/ Apply(r)
  PROVE  IInv'
<1> USE DEF IInv
<1>1. UNCHANGED <<rules, kind, covered, streamVars, slots, seen>>
  BY DEF ApplyJSON, Apply
<1>2. /\ where[r] \in {"fields", "bytes"}
      /\ where' = [where EXCEPT ![r] = IF where[r] = "fields" THEN "bytes" ELSE "sending"]
      /\ applied' = [applied EXCEPT ![r] =
                        @ \cup InForce(IF where[r] = "fields" THEN "field" ELSE "byte")]
  BY DEF ApplyJSON, Apply, Goto
<1>3. TypeOK'
  BY <1>1, <1>2 DEF TypeOK, InForce, HostRules, streamVars
<1>4. SlotsExact'
  <2>1. Holding' = Holding
    BY <1>2 DEF Holding, TypeOK
  <2> QED
    BY <1>1, <2>1 DEF SlotsExact
<1>5. InForceIsSeen' /\ UncoveredSawNoRule' /\ HeldIsRedactable'
  BY <1>1, <1>2 DEF InForceIsSeen, UnderWay, Over, UncoveredSawNoRule, HeldIsRedactable, Redactable,
                    TypeOK
<1>6. rules \in seen[r]
  BY <1>2 DEF InForceIsSeen, UnderWay, Over
<1>7. \A q \in Requests : applied[q] \subseteq applied'[q]
  BY <1>2 DEF TypeOK
<1>8. \A q \in Requests : Standing(q)' = Standing(q)
  BY <1>1 DEF Standing
<1>9. FieldsDone'
  <2>1. where[r] = "fields" /\ "field" \in Standing(r) => "field" \in applied'[r]
    BY <1>2, <1>6 DEF Standing, InForce, TypeOK
  <2> QED
    BY <1>1, <1>2, <1>7, <1>8, <2>1 DEF FieldsDone, TypeOK
<1>10. BytesDone'
  <2>1. where[r] = "bytes" /\ "byte" \in Standing(r) => "byte" \in applied'[r]
    BY <1>2, <1>6 DEF Standing, InForce, TypeOK
  <2> QED
    BY <1>1, <1>2, <1>7, <1>8, <2>1 DEF BytesDone, TypeOK
<1> QED
  BY <1>1, <1>3, <1>4, <1>5, <1>9, <1>10

\* The caller of a stream stops or goes on reading, or the cap closes its body.
LEMMA StreamingKeeps ==
  ASSUME IInv, NEW r \in Requests, Stall(r) \/ ReadOn(r) \/ CapExpires(r)
  PROVE  IInv'
<1> USE DEF IInv
<1>1. UNCHANGED <<rules, where, kind, covered, capped, slots, applied, seen>>
  BY DEF Stall, ReadOn, CapExpires
<1>2. TypeOK'
  BY <1>1 DEF TypeOK, Stall, ReadOn, CapExpires
<1> QED
  BY <1>1, <1>2 DEF SlotsExact, Holding, InForceIsSeen, UnderWay, UncoveredSawNoRule,
                    HeldIsRedactable, Redactable, FieldsDone, BytesDone, Standing

LEMMA NextIInv == IInv /\ [Next]_vars => IInv'
<1> SUFFICES ASSUME IInv, [Next]_vars PROVE IInv'
  OBVIOUS
<1>1. ASSUME NEW s \in Rulesets, Update(s) PROVE IInv'
  BY <1>1, UpdateKeeps
<1>2. ASSUME NEW r \in Requests, Forward(r), ~End(r, "refused") PROVE IInv'
  BY <1>2, SendKeeps
<1>3. ASSUME NEW r \in Requests, Stream(r) \/ Hold(r) \/ Acquire(r) \/ Read(r) PROVE IInv'
  BY <1>3, ProgressKeeps
<1>4. ASSUME NEW r \in Requests, ApplyJSON(r) \/ Apply(r) PROVE IInv'
  BY <1>4, PassKeeps
<1>5. ASSUME NEW r \in Requests,
             \/ Forward(r) /\ End(r, "refused")
             \/ RefuseResponse(r) \/ GiveUp(r) \/ UpstreamFails(r) \/ CopyEnds(r) \/ StreamEnds(r)
      PROVE  IInv'
  <2>1. /\ UNCHANGED <<rules, slots>>
        /\ \E w \in Over : End(r, w)
    BY <1>5 DEF Forward, RefuseResponse, GiveUp, UpstreamFails, CopyEnds, StreamEnds, Over
  <2>2. where[r] \in {"new", "sent", "waiting", "streaming"}
    BY <1>5 DEF Forward, RefuseResponse, GiveUp, UpstreamFails, CopyEnds, StreamEnds
  <2>3. Holding' = Holding
    BY <2>1, <2>2 DEF Holding, IInv, TypeOK, End, Goto, Over
  <2> QED
    BY <2>1, <2>3, SlotsStep, EndKeeps DEF IInv
<1>6. ASSUME NEW r \in Requests, BufferFails(r) \/ Sent(r) PROVE IInv'
  <2>1. /\ slots' = slots - 1 /\ UNCHANGED rules
        /\ \E w \in Over : End(r, w)
    BY <1>6 DEF BufferFails, Sent, SlotsAfterFailure, Over
  <2>2. r \in Holding
    BY <1>6 DEF BufferFails, Sent, Holding
  <2>3. Holding' = Holding \ {r}
    BY <2>1, <2>2 DEF Holding, IInv, TypeOK, End, Goto, Over
  <2> QED
    BY <2>1, <2>2, <2>3, SlotsStep, EndKeeps DEF IInv
<1>7. ASSUME NEW r \in Requests, Stall(r) \/ ReadOn(r) \/ CapExpires(r) PROVE IInv'
  BY <1>7, StreamingKeeps
<1>8. CASE UNCHANGED vars
  BY <1>8 DEF vars, streamVars, IInv, TypeOK, SlotsExact, Holding, InForceIsSeen, UnderWay,
              UncoveredSawNoRule, HeldIsRedactable, Redactable, FieldsDone, BytesDone, Standing
<1> QED
  BY <1>1, <1>2, <1>3, <1>4, <1>5, <1>6, <1>7, <1>8 DEF Next, Step

\* The conjunction the theorems below rest on holds in every reachable state.
THEOREM Invariant == Spec => []IInv
BY InitIInv, NextIInv, PTL DEF Spec

\* A slot is in use for exactly each response held, and the slots are never
\* overdrawn: every way out of Client.buffer and the body's Close gives back one.
THEOREM SlotsAreExact == Spec => []SlotsExact
<1>1. IInv => SlotsExact
  BY DEF IInv
<1> QED
  BY <1>1, Invariant, PTL

\* However often the loader swaps the rules between a request and its answer, a
\* rule that was in force throughout has been run over what is sent from memory,
\* and a response that streams had none (Forward, Redactor.ApplyJSON and Apply).
THEOREM RulesStand == Spec => []StandingRulesApplied
<1>1. ASSUME IInv, NEW r \in Requests, where[r] = "sending"
      PROVE  kind[r] \in {"json", "text"} /\ Due(kind[r], Standing(r)) \subseteq applied[r]
  <2>1. kind[r] \in {"json", "text"}
    BY <1>1 DEF IInv, HeldIsRedactable
  <2>2. kind[r] = "json" /\ "field" \in Standing(r) => "field" \in applied[r]
    BY <1>1 DEF IInv, FieldsDone
  <2>3. "byte" \in Standing(r) => "byte" \in applied[r]
    BY <1>1 DEF IInv, BytesDone
  <2> QED
    BY <2>1, <2>2, <2>3 DEF Due, HostRules
<1>2. ASSUME IInv, NEW r \in Requests, where[r] = "streaming"
      PROVE  Standing(r) = {}
  BY <1>2 DEF IInv, UncoveredSawNoRule, Standing
<1>3. IInv => StandingRulesApplied
  BY <1>1, <1>2 DEF StandingRulesApplied
<1> QED
  BY <1>3, Invariant, PTL
=============================================================================
