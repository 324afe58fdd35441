---------------------------- MODULE DrainTracker ----------------------------
(***************************************************************************)
(* drain.Tracker (connector-lib/drain): the work in flight, a draining     *)
(* flag, and Wait, which sleeps on a channel that is closed when the count *)
(* reaches zero and replaced by an open one when it leaves zero.           *)
(*                                                                         *)
(* Every critical section of the mutex is one action.  Wait takes several: *)
(* it snapshots the count and the channel under the mutex, releases it,    *)
(* and then blocks on the channel it saw, which the count may since have   *)
(* closed and replaced any number of times.  Channels are numbered in the  *)
(* order they are made; 0 is the nil channel of the zero value.            *)
(***************************************************************************)
EXTENDS Naturals, FiniteSets

CONSTANTS
    Works,      \* the pieces of work ever added, such as pipes
    Waiters,    \* the callers of Wait
    Limit       \* the limit every Add passes (Server.MaxPipes); 0 is no limit

ASSUME LimitAssumption == Limit \in Nat
ASSUME WorksAssumption == IsFiniteSet(Works)

VARIABLES
    draining,   \* Tracker.draining
    n,          \* Tracker.n
    idle,       \* Tracker.idle, the number of the current channel
    closed,     \* the channels that have been closed
    work,       \* what became of each piece of work
    pc,         \* where each waiter is in Wait
    held,       \* the channel each waiter read under the mutex
    expired     \* the waiters whose context is done

vars == <<draining, n, idle, closed, work, pc, held, expired>>
waitVars == <<pc, held, expired>>

WorkStates == {"new", "refused", "inflight", "ended"}
WaitStates == {"look", "select", "nil", "error"}

TypeOK ==
    /\ draining \in BOOLEAN
    /\ n \in Nat
    /\ idle \in Nat
    /\ closed \subseteq Nat
    /\ work \in [Works -> WorkStates]
    /\ pc \in [Waiters -> WaitStates]
    /\ held \in [Waiters -> Nat]
    /\ expired \subseteq Waiters

\* The zero value: idle, with the nil channel standing for a closed one.
Init ==
    /\ draining = FALSE
    /\ n = 0
    /\ idle = 0
    /\ closed = {0}
    /\ work = [w \in Works |-> "new"]
    /\ pc = [v \in Waiters |-> "look"]
    /\ held = [v \in Waiters |-> 0]
    /\ expired = {}

Active == {w \in Works : work[w] = "inflight"}

Full == Limit > 0 /\ n >= Limit

\* The mutated form of the channel Add leaves: always a new one.
IdleAfterAdd_Always == idle + 1

\* Leaving zero makes a channel no waiter has seen.
IdleAfterAdd == IF n = 0 THEN idle + 1 ELSE idle

\* The last Done closes the current channel.
ClosedByDone == IF n = 1 THEN closed \cup {idle} ELSE closed

\* The mutated forms of what follows a closed channel: Wait returns at once,
\* or selects again on the snapshot it has.
AfterWoken_Return == "nil"
AfterWoken_Select == "select"

\* A closed channel is no proof of idleness: work may have arrived since.
AfterWoken == "look"

\* Add finds the limit reached.
AddRefused(w) ==
    /\ work[w] = "new"
    /\ Full
    /\ work' = [work EXCEPT ![w] = "refused"]
    /\ UNCHANGED <<draining, n, idle, closed, waitVars>>

\* Add counts one more.  It does not look at draining: its caller does, before.
AddAdmitted(w) ==
    /\ work[w] = "new"
    /\ ~Full
    /\ work' = [work EXCEPT ![w] = "inflight"]
    /\ idle' = IdleAfterAdd
    /\ n' = n + 1
    /\ UNCHANGED <<draining, closed, waitVars>>

\* Done ends one Add; the last closes the channel.  (Its panic is the case
\* n = 0, which the work in flight rules out: CountIsActive.)
Done(w) ==
    /\ work[w] = "inflight"
    /\ work' = [work EXCEPT ![w] = "ended"]
    /\ n' = n - 1
    /\ closed' = ClosedByDone
    /\ UNCHANGED <<draining, idle, waitVars>>

Drain ==
    /\ draining' = TRUE
    /\ UNCHANGED <<n, idle, closed, work, waitVars>>

\* Wait under the mutex: nothing in flight ends it, else it keeps the channel.
Look(v) ==
    /\ pc[v] = "look"
    /\ pc' = [pc EXCEPT ![v] = IF n = 0 THEN "nil" ELSE "select"]
    /\ held' = [held EXCEPT ![v] = IF n = 0 THEN @ ELSE idle]
    /\ UNCHANGED <<draining, n, idle, closed, work, expired>>

\* The channel the waiter sleeps on is closed.
Woken(v) ==
    /\ pc[v] = "select"
    /\ held[v] \in closed
    /\ pc' = [pc EXCEPT ![v] = AfterWoken]
    /\ UNCHANGED <<draining, n, idle, closed, work, held, expired>>

\* The waiter's context is done: at any moment, from outside.
Expire(v) ==
    /\ v \notin expired
    /\ expired' = expired \cup {v}
    /\ UNCHANGED <<draining, n, idle, closed, work, pc, held>>

\* The mutated form of the select: it does not watch the context.
GiveUp_NoContext(v) ==
    /\ FALSE
    /\ UNCHANGED vars

GiveUp(v) ==
    /\ pc[v] = "select"
    /\ v \in expired
    /\ pc' = [pc EXCEPT ![v] = "error"]
    /\ UNCHANGED <<draining, n, idle, closed, work, held, expired>>

Next ==
    \/ \E w \in Works : AddRefused(w) \/ AddAdmitted(w) \/ Done(w)
    \/ Drain
    \/ \E v \in Waiters : Look(v) \/ Woken(v) \/ Expire(v) \/ GiveUp(v)

Spec == Init /\ [][Next]_vars

\* A waiter's goroutine runs whenever it can.  Nothing is assumed of the
\* work: it may stay in flight for good.
WaitersRun == \A v \in Waiters : WF_vars(Look(v) \/ Woken(v) \/ GiveUp(v))

LiveSpec == Spec /\ WaitersRun

\* Work in flight ends, as a pipe does at its lifetime.
WorkEnds == \A w \in Works : WF_vars(Done(w))
-----------------------------------------------------------------------------
Returned(v) == pc[v] \in {"nil", "error"}

\* The counter is the number of pieces of work in flight, so Done never finds
\* it zero (its panic) and InFlight reports the truth.
CountIsActive == n = Cardinality(Active)

\* The cap holds: however Adds and Dones interleave, never more than Limit
\* pieces of work are in flight.
AtMostLimit == Limit > 0 => Cardinality(Active) <= Limit

\* The channel says what the counter says: the current channel is closed
\* exactly while nothing is in flight, and every earlier one is closed.
IdleMeansZero ==
    /\ idle \in closed <=> n = 0
    /\ \A c \in 0..idle : c # idle => c \in closed
    /\ closed \subseteq 0..idle

\* No lost wake-up: a waiter asleep on a channel still open sleeps on the one
\* the last Done will close, and there is such a Done to come.
NoLostWakeup ==
    \A v \in Waiters :
        pc[v] = "select" /\ held[v] \notin closed => held[v] = idle /\ n > 0

\* If the work ends, every waiter returns, its context done or not: it is not
\* left asleep, nor sent round its loop for ever.
WaitReturns == WorkEnds => \A v \in Waiters : <>Returned(v)

\* The tracker keeps the abstract promise: the snapshot that saw zero is the
\* moment the waiter is told so, and at that moment nothing is in flight.
Promise ==
    INSTANCE InFlight WITH
        active <- Active,
        over <- {w \in Works : work[w] \in {"refused", "ended"}},
        stopping <- draining,
        answer <- [v \in Waiters |->
                     CASE pc[v] = "nil" -> "idle"
                       [] pc[v] = "error" -> "busy"
                       [] OTHER -> "none"]

ImplementsInFlight == Promise!Spec
=============================================================================
