----------------------- MODULE CapabilityTrust_proofs -----------------------
(***************************************************************************)
(* Proofs about capability.Verifier for any number of callers and          *)
(* capabilities, any expiries and any maxOpens: first its open limit, then *)
(* that the verifier with its trust is the one whose opens are counted, so *)
(* what is proved of those holds of it, that it accepts no other           *)
(* environment's capabilities and refuses none of its own that comes in    *)
(* time, and that the connectors of an environment agree on them.          *)
(***************************************************************************)
EXTENDS CapabilityTrust, FiniteSetTheorems, TLAPS

\* The callers that will count an open of j: they read the clock before j
\* expired.
Verifying(j) == {p \in Callers : call[p] = j /\ Valid(j, now[p])}

\* No caller has read a time that is still to come.
NowIsPast == \A p \in Callers : now[p] <= clock

OpensCapped == \A j \in Jtis : opens[j] <= MaxOpens

\* Nothing has forgotten an open of a capability that has not expired.
CountIsTrue == \A j \in Jtis : clock <= Expires[j] => accepted[j] = opens[j]

\* Once j has expired no caller joins Verifying(j), and each that leaves it
\* accepts j at most once more.
StaleCount ==
    \A j \in Jtis : clock > Expires[j] =>
        accepted[j] + Cardinality(Verifying(j)) <= MaxOpens + Cardinality(Callers)

\* The inductive invariant.
IInv ==
    TypeOK /\ MapFollowsHeap /\ NowIsPast /\ OpensCapped /\ CountIsTrue /\ StaleCount

\* The callers verifying a capability are finitely many, and no more than there
\* are callers.
LEMMA VerifyingFinite ==
  ASSUME NEW j
  PROVE  /\ IsFiniteSet(Verifying(j))
         /\ Cardinality(Verifying(j)) \in Nat
         /\ Cardinality(Callers) \in Nat
         /\ Cardinality(Verifying(j)) <= Cardinality(Callers)
<1>1. Verifying(j) \in SUBSET Callers
  BY DEF Verifying
<1> QED
  BY <1>1, CallersAssumption, FS_Subset, FS_CardinalityType

\* What pruning at t does to the map and the heap while they agree.
LEMMA PrunedFacts ==
  ASSUME TypeOK, MapFollowsHeap, NEW t \in Nat
  PROVE  /\ Pruned(t) \in [Jtis -> Nat] /\ HeapPruned(t) \in [Jtis -> Nat]
         /\ \A k \in Jtis : /\ Pruned(t)[k] = IF t > Expires[k] THEN 0 ELSE opens[k]
                            /\ HeapPruned(t)[k] = IF Pruned(t)[k] > 0 THEN 1 ELSE 0
BY ExpiresAssumption DEF TypeOK, MapFollowsHeap, Pruned, HeapPruned, Prunable

LEMMA InitIInv == Init => IInv
<1> SUFFICES ASSUME Init PROVE IInv
  OBVIOUS
<1>1. TypeOK /\ MapFollowsHeap /\ NowIsPast /\ OpensCapped /\ CountIsTrue
  BY MaxOpensAssumption DEF Init, TypeOK, MapFollowsHeap, NowIsPast, OpensCapped, CountIsTrue
<1>2. StaleCount
  BY ExpiresAssumption DEF Init, StaleCount
<1> QED
  BY <1>1, <1>2 DEF IInv

\* The clock moves on: a capability may expire under its callers, and then no
\* more than all of them can still count an open.
LEMMA TickStep ==
  ASSUME IInv, Tick
  PROVE  IInv'
<1> USE DEF IInv
<1>1. (TypeOK /\ MapFollowsHeap /\ NowIsPast /\ OpensCapped)'
  BY DEF Tick, TypeOK, MapFollowsHeap, NowIsPast, OpensCapped
<1>2. CountIsTrue'
  BY ExpiresAssumption DEF Tick, TypeOK, CountIsTrue
<1>3. StaleCount'
  <2> SUFFICES ASSUME NEW j \in Jtis, clock' > Expires[j]
               PROVE  accepted[j] + Cardinality(Verifying(j)) <= MaxOpens + Cardinality(Callers)
    BY DEF Tick, StaleCount, Verifying, Valid
  <2>1. CASE clock > Expires[j]
    BY <2>1 DEF StaleCount
  <2>2. CASE clock <= Expires[j]
    BY <2>2, VerifyingFinite, MaxOpensAssumption DEF CountIsTrue, OpensCapped, TypeOK
  <2> QED
    BY <2>1, <2>2, ExpiresAssumption DEF TypeOK
<1> QED
  BY <1>1, <1>2, <1>3

\* A caller begins: of a capability that has expired, it is not one that will
\* count.
LEMMA BeginStep ==
  ASSUME IInv, NEW p \in Callers, NEW j \in Jtis, Begin(p, j)
  PROVE  IInv'
<1> USE DEF IInv
<1>1. (TypeOK /\ MapFollowsHeap /\ NowIsPast /\ OpensCapped /\ CountIsTrue)'
  BY DEF Begin, TypeOK, MapFollowsHeap, NowIsPast, OpensCapped, CountIsTrue
<1>2. StaleCount'
  <2> SUFFICES ASSUME NEW k \in Jtis, clock > Expires[k]
               PROVE  accepted[k] + Cardinality(Verifying(k)') <= MaxOpens + Cardinality(Callers)
    BY DEF Begin, StaleCount
  <2>1. Verifying(k)' = Verifying(k)
    BY IdleAssumption, ExpiresAssumption DEF Begin, Verifying, Valid, TypeOK
  <2> QED
    BY <2>1 DEF StaleCount
<1> QED
  BY <1>1, <1>2

LEMMA RejectStep ==
  ASSUME IInv, NEW p \in Callers, Reject(p)
  PROVE  IInv'
<1> USE DEF IInv
<1>1. (TypeOK /\ MapFollowsHeap /\ NowIsPast /\ OpensCapped /\ CountIsTrue)'
  BY DEF Reject, TypeOK, MapFollowsHeap, NowIsPast, OpensCapped, CountIsTrue
<1>2. StaleCount'
  <2> SUFFICES ASSUME NEW k \in Jtis, clock > Expires[k]
               PROVE  accepted[k] + Cardinality(Verifying(k)') <= MaxOpens + Cardinality(Callers)
    BY DEF Reject, StaleCount
  <2>1. Verifying(k)' \in SUBSET Verifying(k)
    BY IdleAssumption DEF Reject, Verifying, Valid, TypeOK
  <2>2. Cardinality(Verifying(k)') <= Cardinality(Verifying(k)) /\ Cardinality(Verifying(k)') \in Nat
    BY <2>1, VerifyingFinite, FS_Subset, FS_CardinalityType
  <2> QED
    BY <2>2, VerifyingFinite, MaxOpensAssumption DEF StaleCount, TypeOK
<1> QED
  BY <1>1, <1>2

\* A caller that counts leaves Verifying(j) as accepted[j] grows.
LEMMA AcceptStep ==
  ASSUME IInv, NEW p \in Callers, NEW j \in Jtis, Accept(p, j)
  PROVE  IInv'
<1> USE DEF IInv
<1> DEFINE P == Pruned(now[p])
<1>0. now[p] \in Nat /\ now[p] <= clock /\ clock \in Nat
  BY DEF TypeOK, NowIsPast
<1>1. /\ P \in [Jtis -> Nat] /\ HeapPruned(now[p]) \in [Jtis -> Nat]
      /\ \A k \in Jtis : /\ P[k] = IF now[p] > Expires[k] THEN 0 ELSE opens[k]
                         /\ HeapPruned(now[p])[k] = IF P[k] > 0 THEN 1 ELSE 0
  BY <1>0, PrunedFacts
<1>2. /\ opens' = [P EXCEPT ![j] = @ + 1]
      /\ expiry' = [HeapPruned(now[p]) EXCEPT ![j] = @ + IF P[j] = 0 THEN 1 ELSE 0]
      /\ accepted' = [accepted EXCEPT ![j] = @ + 1]
      /\ P[j] < MaxOpens
      /\ UNCHANGED <<clock, now>>
  BY DEF Accept, Pushes
<1> HIDE DEF P
<1>3. TypeOK'
  <2>1. opens' \in [Jtis -> Nat] /\ accepted' \in [Jtis -> Nat]
    BY <1>1, <1>2 DEF TypeOK
  <2>2. expiry' \in [Jtis -> Nat]
    <3> DEFINE e == HeapPruned(now[p])[j] + IF P[j] = 0 THEN 1 ELSE 0
    <3>1. e \in Nat
      BY <1>1
    <3> QED
      BY <1>1, <1>2, <3>1
  <2>3. call' \in [Callers -> Jtis \cup {Idle}]
    BY DEF TypeOK, Accept
  <2> QED
    BY <1>2, <2>1, <2>2, <2>3 DEF TypeOK
<1>4. MapFollowsHeap'
  BY <1>1, <1>2 DEF MapFollowsHeap
<1>5. NowIsPast'
  BY <1>2 DEF NowIsPast
<1>6. OpensCapped'
  BY <1>1, <1>2, MaxOpensAssumption DEF OpensCapped, TypeOK
<1>7. CountIsTrue'
  <2> SUFFICES ASSUME NEW k \in Jtis, clock <= Expires[k]
               PROVE  accepted'[k] = opens'[k]
    BY <1>2 DEF CountIsTrue
  <2>1. P[k] = accepted[k]
    BY <1>0, <1>1, ExpiresAssumption DEF CountIsTrue
  <2> QED
    BY <1>1, <1>2, <2>1 DEF TypeOK
<1>8. StaleCount'
  <2> SUFFICES ASSUME NEW k \in Jtis, clock > Expires[k]
               PROVE  accepted'[k] + Cardinality(Verifying(k)') <= MaxOpens + Cardinality(Callers)
    BY <1>2 DEF StaleCount
  <2>1. p \in Verifying(j)
    BY DEF Accept, Verifying
  <2>2. Verifying(k)' = IF k = j THEN Verifying(k) \ {p} ELSE Verifying(k)
    BY IdleAssumption DEF Accept, Verifying, Valid, TypeOK
  <2>3. CASE k = j
    <3>1. Cardinality(Verifying(k)') = Cardinality(Verifying(k)) - 1
      BY <2>1, <2>2, <2>3, VerifyingFinite, FS_RemoveElement
    <3> QED
      BY <2>3, <3>1, <1>2, VerifyingFinite, MaxOpensAssumption DEF StaleCount, TypeOK
  <2>4. CASE k # j
    BY <2>2, <2>4, <1>2 DEF StaleCount, TypeOK
  <2> QED
    BY <2>3, <2>4
<1> QED
  BY <1>3, <1>4, <1>5, <1>6, <1>7, <1>8

LEMMA ExhaustedStep ==
  ASSUME IInv, NEW p \in Callers, NEW j \in Jtis, Exhausted(p, j)
  PROVE  IInv'
<1> USE DEF IInv
<1> DEFINE P == Pruned(now[p])
<1>0. now[p] \in Nat /\ now[p] <= clock /\ clock \in Nat
  BY DEF TypeOK, NowIsPast
<1>1. /\ P \in [Jtis -> Nat] /\ HeapPruned(now[p]) \in [Jtis -> Nat]
      /\ \A k \in Jtis : /\ P[k] = IF now[p] > Expires[k] THEN 0 ELSE opens[k]
                         /\ HeapPruned(now[p])[k] = IF P[k] > 0 THEN 1 ELSE 0
  BY <1>0, PrunedFacts
<1>2. opens' = P /\ expiry' = HeapPruned(now[p]) /\ UNCHANGED <<clock, now, accepted>>
  BY DEF Exhausted
<1> HIDE DEF P
<1>3. (TypeOK /\ MapFollowsHeap /\ NowIsPast)'
  BY <1>1, <1>2 DEF TypeOK, MapFollowsHeap, NowIsPast, Exhausted
<1>4. OpensCapped'
  BY <1>1, <1>2, MaxOpensAssumption DEF OpensCapped
<1>5. CountIsTrue'
  BY <1>0, <1>1, <1>2, ExpiresAssumption DEF CountIsTrue
<1>6. StaleCount'
  <2> SUFFICES ASSUME NEW k \in Jtis, clock > Expires[k]
               PROVE  accepted[k] + Cardinality(Verifying(k)') <= MaxOpens + Cardinality(Callers)
    BY <1>2 DEF StaleCount
  <2>1. Verifying(k)' \in SUBSET Verifying(k)
    BY IdleAssumption DEF Exhausted, Verifying, Valid, TypeOK
  <2>2. Cardinality(Verifying(k)') <= Cardinality(Verifying(k)) /\ Cardinality(Verifying(k)') \in Nat
    BY <2>1, VerifyingFinite, FS_Subset, FS_CardinalityType
  <2> QED
    BY <2>2, VerifyingFinite, MaxOpensAssumption DEF StaleCount, TypeOK
<1> QED
  BY <1>3, <1>4, <1>5, <1>6

LEMMA NextIInv == IInv /\ [Next]_vars => IInv'
<1> SUFFICES ASSUME IInv, [Next]_vars PROVE IInv'
  OBVIOUS
<1>1. CASE Tick
  BY <1>1, TickStep
<1>2. CASE \E p \in Callers : Reject(p)
  BY <1>2, RejectStep
<1>3. CASE \E p \in Callers, j \in Jtis : Begin(p, j) \/ Accept(p, j) \/ Exhausted(p, j)
  BY <1>3, BeginStep, AcceptStep, ExhaustedStep
<1>4. CASE UNCHANGED vars
  BY <1>4 DEF vars, IInv, TypeOK, MapFollowsHeap, NowIsPast, OpensCapped, CountIsTrue,
     StaleCount, Verifying, Valid
<1> QED
  BY <1>1, <1>2, <1>3, <1>4 DEF Next

\* The inductive invariant holds: in particular the variables keep their types,
\* and Verifier's map and heap agree.
THEOREM Invariant == Spec => []IInv
<1> QED
  BY InitIInv, NextIInv, PTL DEF Spec

\* Verifier.opens and Verifier.expiry agree after every take: pruning forgets
\* each expired capability once, and nothing stays in the map for good.
THEOREM HeapAndMapAgree == Spec => []MapFollowsHeap
<1>1. IInv => MapFollowsHeap
  BY DEF IInv
<1> QED
  BY <1>1, Invariant, PTL

\* However Verify calls interleave and whatever they prune, a capability that
\* has not expired has been accepted at most maxOpens times.
THEOREM LimitHolds == Spec => []LimitWhileLive
<1>1. IInv => LimitWhileLive
  BY DEF IInv, CountIsTrue, OpensCapped, LimitWhileLive
<1> QED
  BY <1>1, Invariant, PTL

\* A Verify older than the expiry it races can count an open anew; the opens
\* beyond maxOpens are never more than the callers.
THEOREM StaleBound == Spec => []StaleOpensBounded
<1>1. ASSUME IInv PROVE StaleOpensBounded
  <2> SUFFICES ASSUME NEW j \in Jtis
               PROVE  accepted[j] <= MaxOpens + Cardinality(Callers)
    BY DEF StaleOpensBounded
  <2>1. CASE clock <= Expires[j]
    <3>1. accepted[j] \in Nat /\ accepted[j] <= MaxOpens
      BY <1>1, <2>1 DEF IInv, CountIsTrue, OpensCapped, TypeOK
    <3>2. Cardinality(Callers) \in Nat
      BY CallersAssumption, FS_CardinalityType
    <3> QED
      BY <3>1, <3>2, MaxOpensAssumption
  <2>2. CASE clock > Expires[j]
    BY <1>1, <2>2, VerifyingFinite, MaxOpensAssumption DEF IInv, StaleCount, TypeOK
  <2> QED
    BY <1>1, <2>1, <2>2, ExpiresAssumption DEF IInv, TypeOK
<1> QED
  BY <1>1, Invariant, PTL
-----------------------------------------------------------------------------
\* Each step is a step of the verifier without its trust, or changes nothing
\* of it.
LEMMA TrustStep == [TrustNext]_<<vars, trustVars>> => [Next]_vars
<1> SUFFICES ASSUME [TrustNext]_<<vars, trustVars>> PROVE [Next]_vars
  OBVIOUS
<1>1. CASE Tick
  BY <1>1 DEF Next
<1>2. ASSUME NEW p \in Callers, Refuse(p) PROVE Next
  BY <1>2 DEF Refuse, Next
<1>3. ASSUME NEW p \in Callers, NEW j \in Jtis, Present(p, j) \/ Admit(p, j) \/ TurnAway(p, j)
      PROVE  Next
  BY <1>3 DEF Present, Admit, TurnAway, Next
<1>4. CASE UNCHANGED <<vars, trustVars>>
  BY <1>4
<1> QED
  BY <1>1, <1>2, <1>3, <1>4 DEF TrustNext

\* Refinement: the verifier with its trust counts opens as CapabilityOpens
\* says, whatever it trusts.
THEOREM TrustRefines == TrustSpec => Spec
<1>1. TrustInit => Init
  BY DEF TrustInit
<1> QED
  BY <1>1, TrustStep, PTL DEF TrustSpec, Spec

\* However capabilities are issued and verified, one that has not expired has
\* been accepted at most maxOpens times (take).
THEOREM TrustedLimit == TrustSpec => []LimitWhileLive
BY TrustRefines, LimitHolds, PTL

\* What the jtis stand for, and what the verifier trusts, never changes.
Bound ==
    /\ TypeOK
    /\ \A j \in Jtis : token[j] \in Tokens[j]
    /\ trust \in Trusts /\ NewVerifier(trust)
    /\ EnvironmentBound

\* However a capability that verifies was signed, its key and its issuer are of
\* the verifier's own environment (signingKey, CheckEnvironmentCertificate).
LEMMA VerifiesHome ==
  ASSUME Bound, NEW j \in Jtis, NEW at, Verifies(trust, j, at)
  PROVE  token[j].key.env = Home /\ token[j].issuer = Home
<1> DEFINE t == token[j]
<1>1. PICK s \in SigningKeys(trust, t, at) : t.key = s.key /\ t.issuer = s.issuer
  BY DEF Verifies
<1>2. t \in UNION {Tokens[i] : i \in Jtis} /\ trust \in Trusts /\ NewVerifier(trust)
  BY DEF Bound
<1>3. CASE t.x5c # None /\ trust.roots # {}
  <2>1. PICK e \in t.x5c.issuers : /\ s = [key |-> t.x5c.key, issuer |-> e]
                                   /\ CheckEnvironmentCertificate(t.x5c, trust.roots, Home, at)
    BY <1>1, <1>3 DEF SigningKeys
  <2>2. Home \in t.x5c.hosts /\ s.key = t.x5c.key /\ s.issuer \in t.x5c.issuers
    BY <2>1 DEF CheckEnvironmentCertificate
  <2>3. t.x5c.key.env = Home /\ t.x5c.issuers \subseteq {Home}
    BY <1>2, <1>3, <2>2, CertifiedAssumption
  <2> QED
    BY <1>1, <2>2, <2>3
<1>4. CASE ~(t.x5c # None /\ trust.roots # {})
  <2>1. PICK k \in {t.kid} \cap DOMAIN trust.pinned :
            s = [key |-> trust.pinned[k], issuer |-> trust.issuer]
    BY <1>1, <1>4 DEF SigningKeys
  <2>2. s.key = trust.pinned[k] /\ s.issuer = trust.issuer /\ k \in DOMAIN trust.pinned
    BY <2>1
  <2>3. trust.issuer = Home
    BY <1>2, <2>2, InstalledAssumption DEF NewVerifier
  <2> QED
    BY <1>1, <1>2, <2>2, <2>3, CertifiedAssumption
<1> QED
  BY <1>3, <1>4

LEMMA BoundStep ==
  ASSUME Bound, TypeOK', [TrustNext]_<<vars, trustVars>>
  PROVE  Bound'
<1>1. UNCHANGED trustVars
  BY DEF TrustNext
<1>2. (/\ \A j \in Jtis : token[j] \in Tokens[j]
       /\ trust \in Trusts /\ NewVerifier(trust))'
  BY <1>1 DEF Bound, NewVerifier, trustVars
<1>3. EnvironmentBound'
  <2> SUFFICES ASSUME NEW j \in Jtis, accepted'[j] > 0
               PROVE  token[j].key.env = Home /\ token[j].issuer = Home
    BY <1>1 DEF EnvironmentBound, trustVars
  <2>1. CASE accepted'[j] = accepted[j]
    BY <2>1 DEF Bound, EnvironmentBound
  <2>2. CASE accepted'[j] # accepted[j]
    <3>1. PICK p \in Callers, i \in Jtis : Admit(p, i)
      BY <2>2 DEF TrustNext, Tick, Refuse, Reject, Present, Begin, TurnAway, Exhausted, vars
    <3>2. i = j
      BY <2>2, <3>1 DEF Admit, Accept, Bound, TypeOK
    <3> QED
      BY <3>1, <3>2, VerifiesHome DEF Admit
  <2> QED
    BY <2>1, <2>2
<1> QED
  BY <1>2, <1>3 DEF Bound

\* A capability accepted was signed by a key of the verifier's own environment
\* and names its issuer, whatever keys and roots connectors hold, however kids
\* are named and whatever signers sign (Verifier.Verify).
THEOREM BoundToEnvironment == TrustSpec => []EnvironmentBound
<1>1. TrustInit => Bound
  BY DEF TrustInit, Init, Bound, TypeOK, EnvironmentBound
<1>2. IInv => TypeOK
  BY DEF IInv
<1>3. Bound /\ TypeOK' /\ [TrustNext]_<<vars, trustVars>> => Bound'
  BY BoundStep
<1>4. Bound => EnvironmentBound
  BY DEF Bound
<1> QED
  BY <1>1, <1>2, <1>3, <1>4, TrustRefines, Invariant, PTL DEF TrustSpec
-----------------------------------------------------------------------------
\* What holds of the capabilities from the start, and of each verification that
\* is under way: it did not begin before its capability was issued.
Minted ==
    /\ TypeOK
    /\ \A j \in Jtis : token[j] \in Tokens[j] /\ Issues(j, token[j])
    /\ trust \in Trusts /\ NewVerifier(trust)
    /\ \A p \in Callers : call[p] # Idle => now[p] + Skew >= Issued[call[p]]

\* A verifier that has what it takes to check a capability of its environment
\* finds the key that signed it, with the issuer it names (signingKey), if it is
\* well signed.
LEMMA SignerIsFound ==
  ASSUME NEW j, NEW t, NEW v \in Trusts, NEW at,
         NewVerifier(v), WellSigned(j, t), t.key.env = Home, Knows(v, t),
         t.x5c # None => t.x5c.from <= at /\ at <= t.x5c.to
  PROVE  /\ \E s \in SigningKeys(v, t, at) : t.key = s.key /\ t.issuer = s.issuer
         /\ v.issuer # None => t.issuer = v.issuer
<1>1. t.key = Key(t.issuer, t.kid) /\ t.issuer = Home
  BY DEF WellSigned, Key
<1>2. v.issuer # None => t.issuer = v.issuer
  BY <1>1, InstalledAssumption
<1>3. CASE t.x5c # None /\ v.roots # {}
  <2>1. CheckEnvironmentCertificate(t.x5c, v.roots, Home, at)
    BY <1>1, <1>3 DEF WellSigned, Knows, CheckEnvironmentCertificate
  <2>2. t.kid \in DOMAIN v.pinned => v.pinned[t.kid] = t.x5c.key
    BY <1>1, <1>3, InstalledAssumption DEF WellSigned
  <2>3. t.x5c.key = t.key /\ t.issuer \in t.x5c.issuers
    BY <1>3 DEF WellSigned
  <2>4. [key |-> t.x5c.key, issuer |-> t.issuer] \in SigningKeys(v, t, at)
    BY <1>3, <2>1, <2>2, <2>3 DEF SigningKeys
  <2> QED
    BY <1>2, <2>3, <2>4
<1>4. CASE ~(t.x5c # None /\ v.roots # {})
  <2>1. t.kid \in DOMAIN v.pinned
    BY <1>4 DEF Knows
  <2>2. v.pinned[t.kid] = t.key
    BY <1>1, <2>1, InstalledAssumption
  <2>3. v.issuer = t.issuer
    BY <1>2, <2>1 DEF NewVerifier
  <2>4. [key |-> v.pinned[t.kid], issuer |-> v.issuer] \in SigningKeys(v, t, at)
    BY <1>4, <2>1 DEF SigningKeys
  <2> QED
    BY <2>2, <2>3, <2>4
<1> QED
  BY <1>3, <1>4

\* What is left to check of it is the same for all of them.
LEMMA KnownVerifies ==
  ASSUME NEW j \in Jtis, NEW v \in Trusts, NEW at,
         NewVerifier(v), WellSigned(j, token[j]), token[j].key.env = Home, Knows(v, token[j]),
         token[j].x5c # None => token[j].x5c.from <= at /\ at <= token[j].x5c.to
  PROVE  Verifies(v, j, at)
            <=> /\ Parses(token[j])
                /\ Decodes(token[j].claims, ClaimKeys, {}, TRUE)
                /\ ValidWindow(j)
                /\ at + Skew >= Issued[j] /\ Valid(j, at)
                /\ token[j].connector = Self /\ token[j].target = Target
<1> DEFINE t == token[j]
<1> HIDE DEF t
<1>1. /\ \E s \in SigningKeys(v, t, at) : t.key = s.key /\ t.issuer = s.issuer
      /\ v.issuer # None => t.issuer = v.issuer
  BY SignerIsFound DEF t
<1> QED
  BY <1>1 DEF Verifies, t

LEMMA MintedStep ==
  ASSUME Minted, TypeOK', [TrustNext]_<<vars, trustVars>>
  PROVE  Minted'
<1>1. UNCHANGED trustVars
  BY DEF TrustNext
<1>2. (/\ \A j \in Jtis : token[j] \in Tokens[j] /\ Issues(j, token[j])
       /\ trust \in Trusts /\ NewVerifier(trust))'
  BY <1>1 DEF Minted, trustVars
<1>3. ASSUME NEW p \in Callers, call'[p] # Idle PROVE now'[p] + Skew >= Issued[call'[p]]
  <2>1. CASE call'[p] = call[p] /\ now'[p] = now[p]
    BY <1>3, <2>1 DEF Minted
  <2>2. ASSUME NEW q \in Callers, NEW j \in Jtis, Present(q, j)
        PROVE  now'[p] + Skew >= Issued[call'[p]]
    <3>1. CASE p = q
      BY <2>2, <3>1 DEF Minted, TypeOK, Present, Begin
    <3>2. CASE p # q
      BY <1>3, <2>2, <3>2 DEF Minted, TypeOK, Present, Begin
    <3> QED
      BY <3>1, <3>2
  <2>3. CASE ~\E q \in Callers, j \in Jtis : Present(q, j)
    BY <1>3, <2>1, <2>3 DEF Minted, TypeOK, TrustNext, Tick, Refuse, Reject, Admit, Accept, TurnAway,
       Exhausted, vars
  <2> QED
    BY <2>2, <2>3
<1> QED
  BY <1>2, <1>3 DEF Minted

THEOREM MintedHolds == TrustSpec => []Minted
<1>1. TrustInit => Minted
  BY DEF TrustInit, Init, Minted, TypeOK
<1>2. IInv => TypeOK
  BY DEF IInv
<1>3. Minted /\ TypeOK' /\ [TrustNext]_<<vars, trustVars>> => Minted'
  BY MintedStep
<1> QED
  BY <1>1, <1>2, <1>3, TrustRefines, Invariant, PTL DEF TrustSpec

\* signingKey: connectors that move from keys to roots, and those that have
\* moved, agree on each capability they have what it takes to check.
THEOREM Migration == TrustSpec => []MigrationAgrees
<1>1. MigrationAgrees
  <2> SUFFICES ASSUME NEW j \in Jtis, NEW v \in Trusts, NEW w \in Trusts,
                      NewVerifier(v), NewVerifier(w),
                      token[j].key.env = Home, WellSigned(j, token[j]),
                      Knows(v, token[j]), Knows(w, token[j]),
                      token[j].x5c # None =>
                          token[j].x5c.from <= clock /\ clock <= token[j].x5c.to
               PROVE  Verifies(v, j, clock) <=> Verifies(w, j, clock)
    BY DEF MigrationAgrees
  <2> QED
    BY KnownVerifies
<1> QED
  BY <1>1, PTL

\* Verify, over the clocks of two machines: a well-signed capability that comes
\* in time, in the form this version reads, is not refused.
THEOREM InTimeIsAccepted == TrustSpec => InTimeAccepted
<1>1. ASSUME Minted, NEW p \in Callers, Refuse(p),
             InTime(call[p], now[p]),
             token[call[p]].x5c # None => /\ token[call[p]].x5c.from + Skew <= Issued[call[p]]
                                          /\ Expires[call[p]] <= token[call[p]].x5c.to
      PROVE  FALSE
  <2> DEFINE j == call[p]  at == now[p]
  <2>1. j \in Jtis /\ at \in Nat /\ at + Skew >= Issued[j] /\ at < Expires[j]
    BY <1>1 DEF Minted, TypeOK, Refuse, InTime
  <2> HIDE DEF j, at
  <2>2. /\ Issues(j, token[j]) /\ trust \in Trusts /\ NewVerifier(trust)
        /\ token[j] \in UNION {Tokens[i] : i \in Jtis}
    BY <1>1, <2>1 DEF Minted
  <2>3. token[j].x5c # None => token[j].x5c.from <= at /\ at <= token[j].x5c.to
    BY <1>1, <2>1, <2>2, ExpiresAssumption, IssuedAssumption, SkewAssumption, DatesAssumption
       DEF j, at
  <2>4. /\ Parses(token[j]) /\ ~token[j].claims.repeated
        /\ token[j].key.env = Home /\ WellSigned(j, token[j])
        /\ token[j].connector = Self /\ token[j].target = Target /\ Knows(trust, token[j])
    BY <1>1 DEF InTime, j, at
  <2>5. Decodes(token[j].claims, ClaimKeys, {}, TRUE) /\ ValidWindow(j) /\ Valid(j, at)
    BY <2>1, <2>2, <2>4 DEF Decodes, Issues, Valid
  <2>6. Verifies(trust, j, at)
    BY <2>1, <2>2, <2>3, <2>4, <2>5, KnownVerifies
  <2> QED
    BY <1>1, <2>6 DEF Refuse, j, at
<1>2. Minted /\ [TrustNext]_<<vars, trustVars>> =>
        [\A p \in Callers :
            Refuse(p) =>
                LET j == call[p]  c == token[j].x5c IN
                ~ /\ InTime(j, now[p])
                  /\ c # None => c.from + Skew <= Issued[j] /\ Expires[j] <= c.to]_<<vars, trustVars>>
  BY <1>1
<1> QED
  BY <1>2, MintedHolds, PTL DEF TrustSpec, InTimeAccepted
=============================================================================
