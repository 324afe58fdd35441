-------------------------- MODULE CapabilityOpens ---------------------------
(***************************************************************************)
(* capability.Verifier: the opens it counts against each capability, and   *)
(* the pruning of those that have expired, under concurrent Verify calls.  *)
(*                                                                         *)
(* Verify reads the clock before it parses the token and takes the lock    *)
(* only at the end, so the time it validates and prunes with is older than *)
(* the time it counts at by as long as the scheduler likes.                *)
(*                                                                         *)
(* A capability is its jti; Expires[j] is its exp plus maxClockSkew, the   *)
(* end of its validity and the expiry its heap entry carries.  Signers     *)
(* never issue one jti twice.  The clock does not step back.               *)
(***************************************************************************)
EXTENDS Integers, FiniteSets

CONSTANTS
    Callers,    \* goroutines that call Verify
    Jtis,       \* the capabilities
    Expires,    \* when each is no longer valid
    Idle,       \* the capability of a caller that is in no Verify
    MaxOpens,   \* maxOpens, the opens accepted of one capability
    MaxClock    \* the bound on the clock

ASSUME CallersAssumption == IsFiniteSet(Callers)
ASSUME ExpiresAssumption == Expires \in [Jtis -> Nat]
ASSUME IdleAssumption == Idle \notin Jtis
ASSUME MaxOpensAssumption == MaxOpens \in Nat \ {0}
ASSUME MaxClockAssumption == MaxClock \in Nat

VARIABLES
    clock,      \* the wall clock
    call,       \* the capability each caller is verifying; idle if none
    now,        \* the time each caller read as its Verify began
    opens,      \* Verifier.opens; 0 is no entry
    expiry,     \* Verifier.expiry: how many entries each jti has
    accepted    \* how many Verify calls have accepted each capability

vars == <<clock, call, now, opens, expiry, accepted>>

TypeOK ==
    /\ clock \in Nat
    /\ call \in [Callers -> Jtis \cup {Idle}]
    /\ now \in [Callers -> Nat]
    /\ opens \in [Jtis -> Nat]
    /\ expiry \in [Jtis -> Nat]
    /\ accepted \in [Jtis -> Nat]

Init ==
    /\ clock = 0
    /\ call = [p \in Callers |-> Idle]
    /\ now = [p \in Callers |-> 0]
    /\ opens = [j \in Jtis |-> 0]
    /\ expiry = [j \in Jtis |-> 0]
    /\ accepted = [j \in Jtis |-> 0]

Tick ==
    /\ clock < MaxClock
    /\ clock' = clock + 1
    /\ UNCHANGED <<call, now, opens, expiry, accepted>>

\* Verify reads the clock.
Begin(p, j) ==
    /\ call[p] = Idle
    /\ call' = [call EXCEPT ![p] = j]
    /\ now' = [now EXCEPT ![p] = clock]
    /\ UNCHANGED <<clock, opens, expiry, accepted>>

\* Verify refuses the token before it counts anything: its structure, its
\* signature, an audience or destination, or its validity.
Reject(p) ==
    /\ call[p] # Idle
    /\ call' = [call EXCEPT ![p] = Idle]
    /\ UNCHANGED <<clock, now, opens, expiry, accepted>>

\* The mutated form of Valid: only the start of the validity is checked.
Valid_NoExpiry(j, t) == TRUE

\* The capability has not expired at t, with the skew allowed.
Valid(j, t) == t < Expires[j]

\* The mutated form of Prunable: the heap entry carries exp, without the skew
\* (of two ticks) that the validity allows.
Prunable_NoSkew(j, t) == t + 2 > Expires[j]

\* take's pruning at t removes the entry of j.
Prunable(j, t) == t > Expires[j]

\* Verifier.opens after the pruning at t.
Pruned(t) == [j \in Jtis |-> IF expiry[j] > 0 /\ Prunable(j, t) THEN 0 ELSE opens[j]]

\* Verifier.expiry after it.
HeapPruned(t) == [j \in Jtis |-> IF Prunable(j, t) THEN 0 ELSE expiry[j]]

\* The first open counted of a capability puts it on the heap.
Pushes(j, t) == IF Pruned(t)[j] = 0 THEN 1 ELSE 0

\* take, under its lock, when an open of j is left.
Accept(p, j) ==
    /\ call[p] = j
    /\ Valid(j, now[p])
    /\ Pruned(now[p])[j] < MaxOpens
    /\ opens' = [Pruned(now[p]) EXCEPT ![j] = @ + 1]
    /\ expiry' = [HeapPruned(now[p]) EXCEPT ![j] = @ + Pushes(j, now[p])]
    /\ accepted' = [accepted EXCEPT ![j] = @ + 1]
    /\ call' = [call EXCEPT ![p] = Idle]
    /\ UNCHANGED <<clock, now>>

\* take, when none is left: it prunes all the same.
Exhausted(p, j) ==
    /\ call[p] = j
    /\ Valid(j, now[p])
    /\ Pruned(now[p])[j] >= MaxOpens
    /\ opens' = Pruned(now[p])
    /\ expiry' = HeapPruned(now[p])
    /\ call' = [call EXCEPT ![p] = Idle]
    /\ UNCHANGED <<clock, now, accepted>>

Next ==
    \/ Tick
    \/ \E p \in Callers : Reject(p)
    \/ \E p \in Callers, j \in Jtis : Begin(p, j) \/ Accept(p, j) \/ Exhausted(p, j)

Spec == Init /\ [][Next]_vars
-----------------------------------------------------------------------------
\* The map and the heap agree: a counted jti has exactly one heap entry, so
\* pruning forgets it, and only it, and neither grows without the other.
MapFollowsHeap ==
    \A j \in Jtis : expiry[j] = IF opens[j] > 0 THEN 1 ELSE 0

\* While a capability can still be valid, no more than MaxOpens Verify calls
\* have accepted it, whatever they prune of others and however they interleave.
LimitWhileLive == \A j \in Jtis : clock <= Expires[j] => accepted[j] <= MaxOpens

\* A capability accepted after it was pruned was being verified as it expired:
\* beyond MaxOpens there are no more than the calls then under way.
StaleOpensBounded ==
    \A j \in Jtis : accepted[j] <= MaxOpens + Cardinality(Callers)
=============================================================================
