--------------------------- MODULE MCDrainTracker ---------------------------
(***************************************************************************)
(* drain.Tracker for TLC: a few pieces of work, enough that the count      *)
(* leaves zero again after a waiter saw it, and two waiters.               *)
(***************************************************************************)
EXTENDS DrainTracker

CONSTANTS w1, w2, w3, v1, v2

MCWorks == {w1, w2, w3}
MCWaiters == {v1, v2}
=============================================================================
