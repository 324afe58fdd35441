------------------------------ MODULE InFlight ------------------------------
(***************************************************************************)
(* What drain.Tracker promises its callers, without the counter, the lock  *)
(* or the channel that provide it: a set of work in flight, at most Limit  *)
(* at once, and waiters that are told "idle" only while nothing is in      *)
(* flight.                                                                 *)
(***************************************************************************)
EXTENDS Naturals, FiniteSets

CONSTANTS
    Works,      \* the pieces of work ever added, such as pipes
    Waiters,    \* the callers of Wait
    Limit       \* how many may be in flight at once; 0 is no limit

VARIABLES
    active,     \* the work in flight
    over,       \* the work that was refused or has ended
    stopping,   \* Drain was called
    answer      \* what each waiter has been told: "none", "idle" or "busy"

vars == <<active, over, stopping, answer>>

Init ==
    /\ active = {}
    /\ over = {}
    /\ stopping = FALSE
    /\ answer = [v \in Waiters |-> "none"]

Full == Limit > 0 /\ Cardinality(active) >= Limit

Admit(w) ==
    /\ w \notin active \cup over
    /\ ~Full
    /\ active' = active \cup {w}
    /\ UNCHANGED <<over, stopping, answer>>

Refuse(w) ==
    /\ w \notin active \cup over
    /\ Full
    /\ over' = over \cup {w}
    /\ UNCHANGED <<active, stopping, answer>>

Finish(w) ==
    /\ w \in active
    /\ active' = active \ {w}
    /\ over' = over \cup {w}
    /\ UNCHANGED <<stopping, answer>>

Stop ==
    /\ stopping' = TRUE
    /\ UNCHANGED <<active, over, answer>>

\* A waiter learns that nothing is in flight, at a moment when nothing is.
TellIdle(v) ==
    /\ answer[v] = "none"
    /\ active = {}
    /\ answer' = [answer EXCEPT ![v] = "idle"]
    /\ UNCHANGED <<active, over, stopping>>

\* A waiter whose context is done gives up, whatever is in flight.
TellBusy(v) ==
    /\ answer[v] = "none"
    /\ answer' = [answer EXCEPT ![v] = "busy"]
    /\ UNCHANGED <<active, over, stopping>>

Next ==
    \/ \E w \in Works : Admit(w) \/ Refuse(w) \/ Finish(w)
    \/ Stop
    \/ \E v \in Waiters : TellIdle(v) \/ TellBusy(v)

Spec == Init /\ [][Next]_vars
=============================================================================
