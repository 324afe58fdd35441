\* Three pieces of work, two waiters, at most two in flight: the limit is
\* reached, and the count leaves zero again after a waiter saw it.  Work may
\* stay in flight for good, and is over once it has ended: the system stops.
CONSTANTS
    w1 = w1
    w2 = w2
    w3 = w3
    v1 = v1
    v2 = v2
    Works <- MCWorks
    Waiters <- MCWaiters
    Limit = 2
SPECIFICATION LiveSpec
INVARIANTS
    NoLostWakeup
PROPERTIES
    ImplementsInFlight
    WaitReturns
CHECK_DEADLOCK FALSE
