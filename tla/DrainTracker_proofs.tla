------------------------ MODULE DrainTracker_proofs -------------------------
(***************************************************************************)
(* Proofs about drain.Tracker for any number of pieces of work, waiters    *)
(* and any limit: the invariants of DrainTracker, and that it implements   *)
(* InFlight.                                                               *)
(***************************************************************************)
EXTENDS DrainTracker, FiniteSetTheorems, TLAPS

\* A waiter holds a channel that has been made.
HeldWasMade == \A v \in Waiters : held[v] <= idle

\* The inductive invariant.  NoLostWakeup follows from it: the only channel
\* made and not closed is the current one, and it is open only while n > 0.
IInv == TypeOK /\ CountIsActive /\ IdleMeansZero /\ HeldWasMade

\* The work in flight is a finite set, so its cardinality is a number.
LEMMA ActiveFinite == IsFiniteSet(Active)
<1>1. Active \subseteq Works
  BY DEF Active
<1> QED
  BY <1>1, WorksAssumption, FS_Subset

\* Done finds the counter positive: its panic is unreachable.
LEMMA InFlightPositive ==
  ASSUME NEW w \in Works, CountIsActive, work[w] = "inflight"
  PROVE  n \in Nat /\ n >= 1
<1>1. w \in Active
  BY DEF Active
<1>2. Active # {}
  BY <1>1
<1>3. Cardinality(Active) \in Nat /\ Cardinality(Active) # 0
  BY <1>2, ActiveFinite, FS_CardinalityType, FS_EmptySet
<1> QED
  BY <1>3 DEF CountIsActive

LEMMA InitIInv == Init => IInv
<1> SUFFICES ASSUME Init PROVE IInv
  OBVIOUS
<1>1. TypeOK
  <2>1. work \in [Works -> WorkStates] /\ pc \in [Waiters -> WaitStates]
    BY DEF Init, WorkStates, WaitStates
  <2>2. held \in [Waiters -> Nat] /\ closed \subseteq Nat
    BY DEF Init
  <2> QED
    BY <2>1, <2>2 DEF Init, TypeOK
<1>2. CountIsActive
  <2>1. Active = {}
    BY DEF Init, Active
  <2> QED
    BY <2>1, FS_EmptySet DEF Init, CountIsActive
<1>3. IdleMeansZero /\ HeldWasMade
  BY DEF Init, IdleMeansZero, HeldWasMade
<1> QED
  BY <1>1, <1>2, <1>3 DEF IInv

\* Steps that leave the counter, the channels and the work alone.
LEMMA WaiterStep ==
  ASSUME IInv, NEW v \in Waiters, Look(v) \/ Woken(v) \/ Expire(v) \/ GiveUp(v)
  PROVE  IInv'
<1> USE DEF IInv
<1>1. TypeOK'
  BY DEF TypeOK, WaitStates, Look, Woken, Expire, GiveUp, AfterWoken
<1>2. Active' = Active
  BY DEF Active, Look, Woken, Expire, GiveUp
<1>3. CountIsActive'
  BY <1>2 DEF CountIsActive, Look, Woken, Expire, GiveUp
<1>4. IdleMeansZero'
  BY DEF IdleMeansZero, Look, Woken, Expire, GiveUp
<1>5. HeldWasMade'
  BY DEF HeldWasMade, TypeOK, Look, Woken, Expire, GiveUp
<1> QED
  BY <1>1, <1>3, <1>4, <1>5

LEMMA AdmittedStep ==
  ASSUME IInv, NEW w \in Works, AddAdmitted(w)
  PROVE  IInv' /\ Active' = Active \cup {w}
<1> USE DEF IInv
<1>1. TypeOK'
  BY DEF TypeOK, WorkStates, AddAdmitted, IdleAfterAdd, waitVars
<1>2. Active' = Active \cup {w} /\ w \notin Active
  BY DEF Active, TypeOK, AddAdmitted
<1>3. CountIsActive'
  <2>1. Cardinality(Active \cup {w}) = Cardinality(Active) + 1
    BY <1>2, ActiveFinite, FS_AddElement
  <2> QED
    BY <1>2, <2>1 DEF CountIsActive, AddAdmitted
<1>4. IdleMeansZero' /\ HeldWasMade'
  BY DEF IdleMeansZero, HeldWasMade, TypeOK, AddAdmitted, IdleAfterAdd, waitVars
<1> QED
  BY <1>1, <1>2, <1>3, <1>4

LEMMA DoneStep ==
  ASSUME IInv, NEW w \in Works, Done(w)
  PROVE  IInv' /\ Active' = Active \ {w}
<1> USE DEF IInv
<1>0. n \in Nat /\ n >= 1
  BY InFlightPositive DEF Done
<1>1. TypeOK'
  BY <1>0 DEF TypeOK, WorkStates, Done, ClosedByDone, waitVars
<1>2. Active' = Active \ {w} /\ w \in Active
  BY DEF Active, TypeOK, Done
<1>3. CountIsActive'
  <2>1. Cardinality(Active \ {w}) = Cardinality(Active) - 1
    BY <1>2, ActiveFinite, FS_RemoveElement
  <2> QED
    BY <1>2, <2>1 DEF CountIsActive, Done
<1>4. IdleMeansZero' /\ HeldWasMade'
  BY <1>0 DEF IdleMeansZero, HeldWasMade, TypeOK, Done, ClosedByDone, waitVars
<1> QED
  BY <1>1, <1>2, <1>3, <1>4

LEMMA RefusedStep ==
  ASSUME IInv, NEW w \in Works, AddRefused(w)
  PROVE  IInv' /\ Active' = Active
<1> USE DEF IInv
<1>1. TypeOK'
  BY DEF TypeOK, WorkStates, AddRefused, waitVars
<1>2. Active' = Active
  BY DEF Active, TypeOK, AddRefused
<1>3. CountIsActive' /\ IdleMeansZero' /\ HeldWasMade'
  BY <1>2 DEF CountIsActive, IdleMeansZero, HeldWasMade, AddRefused, waitVars
<1> QED
  BY <1>1, <1>2, <1>3

LEMMA QuietStep ==
  ASSUME IInv, Drain \/ UNCHANGED vars
  PROVE  IInv' /\ Active' = Active
BY DEF IInv, TypeOK, Active, CountIsActive, IdleMeansZero, HeldWasMade, Drain, vars, waitVars

LEMMA NextIInv == IInv /\ [Next]_vars => IInv'
<1> SUFFICES ASSUME IInv, [Next]_vars PROVE IInv'
  OBVIOUS
<1>1. ASSUME NEW w \in Works, AddRefused(w) PROVE IInv'
  BY <1>1, RefusedStep
<1>2. ASSUME NEW w \in Works, AddAdmitted(w) PROVE IInv'
  BY <1>2, AdmittedStep
<1>3. ASSUME NEW w \in Works, Done(w) PROVE IInv'
  BY <1>3, DoneStep
<1>4. CASE Drain \/ UNCHANGED vars
  BY <1>4, QuietStep
<1>5. ASSUME NEW v \in Waiters, Look(v) \/ Woken(v) \/ Expire(v) \/ GiveUp(v) PROVE IInv'
  BY <1>5, WaiterStep
<1> QED
  BY <1>1, <1>2, <1>3, <1>4, <1>5 DEF Next

\* The invariant of every behaviour of the tracker, whatever the constants.
THEOREM Invariant == Spec => []IInv
BY InitIInv, NextIInv, PTL DEF Spec

\* The counter is exact, so Done's panic is unreachable and InFlight is right.
THEOREM CountExact == Spec => []CountIsActive
<1>1. IInv => CountIsActive
  BY DEF IInv
<1> QED
  BY <1>1, Invariant, PTL

\* The cap that Server.open relies on.
THEOREM Capped == Spec => []AtMostLimit
<1>1. Init => AtMostLimit
  <2>1. Init => Active = {}
    BY DEF Init, Active
  <2> QED
    BY <2>1, FS_EmptySet, LimitAssumption DEF AtMostLimit
<1>2. IInv /\ AtMostLimit /\ [Next]_vars => AtMostLimit'
  <2> SUFFICES ASSUME IInv, AtMostLimit, [Next]_vars, Limit > 0
               PROVE  Cardinality(Active') <= Limit
    BY DEF AtMostLimit
  <2>0. Cardinality(Active) \in Nat /\ Cardinality(Active) <= Limit
    BY ActiveFinite, FS_CardinalityType DEF AtMostLimit
  <2>1. ASSUME NEW w \in Works, AddAdmitted(w) PROVE Cardinality(Active') <= Limit
    <3>1. n < Limit /\ n = Cardinality(Active)
      BY <2>1, LimitAssumption DEF AddAdmitted, Full, IInv, CountIsActive, TypeOK
    <3>2. Active' = Active \cup {w}
      BY <2>1, AdmittedStep
    <3>3. Cardinality(Active \cup {w}) = Cardinality(Active) + 1
      BY <2>1, ActiveFinite, FS_AddElement DEF AddAdmitted, Active
    <3> QED
      BY <2>0, <3>1, <3>2, <3>3, LimitAssumption
  <2>2. ASSUME NEW w \in Works, Done(w) PROVE Cardinality(Active') <= Limit
    <3>1. Active' = Active \ {w}
      BY <2>2, DoneStep
    <3>2. w \in Active
      BY <2>2 DEF Done, Active
    <3>3. Cardinality(Active \ {w}) = Cardinality(Active) - 1
      BY <3>2, ActiveFinite, FS_RemoveElement
    <3> QED
      BY <2>0, <3>1, <3>3, LimitAssumption
  <2>3. ASSUME Active' = Active PROVE Cardinality(Active') <= Limit
    BY <2>0, <2>3
  <2>4. ASSUME NEW w \in Works, AddRefused(w) PROVE Active' = Active
    BY <2>4, RefusedStep
  <2>5. ASSUME NEW v \in Waiters, Look(v) \/ Woken(v) \/ Expire(v) \/ GiveUp(v)
        PROVE  Active' = Active
    BY <2>5 DEF Active, Look, Woken, Expire, GiveUp
  <2>6. CASE Drain \/ UNCHANGED vars
    BY <2>3, <2>6, QuietStep
  <2> QED
    BY <2>1, <2>2, <2>3, <2>4, <2>5, <2>6 DEF Next
<1> QED
  BY <1>1, <1>2, Invariant, PTL DEF Spec

\* A waiter asleep on an open channel is woken by a Done still to come.
THEOREM Wakeup == Spec => []NoLostWakeup
<1>1. IInv => NoLostWakeup
  BY DEF IInv, TypeOK, IdleMeansZero, HeldWasMade, NoLostWakeup
<1> QED
  BY <1>1, Invariant, PTL
-----------------------------------------------------------------------------
\* The state functions InFlight's variables are mapped to.
Over == {w \in Works : work[w] \in {"refused", "ended"}}
Told(v) == CASE pc[v] = "nil" -> "idle"
             [] pc[v] = "error" -> "busy"
             [] OTHER -> "none"
Answer == [v \in Waiters |-> Told(v)]

\* The abstract cap is reached exactly when the counter says so.
LEMMA FullMapped == ASSUME IInv PROVE Promise!Full <=> Full
<1>1. n = Cardinality(Active)
  BY DEF IInv, CountIsActive
<1> QED
  BY ONLY <1>1 DEF Full, Promise!Full, Cardinality, Promise!Cardinality

\* A waiter's move answers that waiter and no other.
LEMMA AnswerMoved ==
  ASSUME TypeOK, NEW v \in Waiters, NEW p \in WaitStates, pc' = [pc EXCEPT ![v] = p]
  PROVE  /\ p = "nil" => Answer' = [Answer EXCEPT ![v] = "idle"]
         /\ p = "error" => Answer' = [Answer EXCEPT ![v] = "busy"]
         /\ p \in {"look", "select"} /\ Answer[v] = "none" => Answer' = Answer
<1>1. pc'[v] = p /\ \A u \in Waiters : u # v => pc'[u] = pc[u]
  BY DEF TypeOK
<1>2. \A u \in Waiters : u # v => Told(u)' = Told(u)
  BY <1>1 DEF Told
<1>3. /\ p = "nil" => Told(v)' = "idle"
      /\ p = "error" => Told(v)' = "busy"
      /\ p \in {"look", "select"} => Told(v)' = "none"
  BY <1>1 DEF Told
<1> QED
  BY <1>2, <1>3 DEF Answer

LEMMA InitMapped == Init => Promise!Init
<1> SUFFICES ASSUME Init PROVE Promise!Init
  OBVIOUS
<1>1. Active = {} /\ Over = {}
  BY DEF Init, Active, Over
<1>2. \A v \in Waiters : Told(v) = "none"
  BY DEF Init, Told
<1>3. Answer = [v \in Waiters |-> "none"]
  BY <1>2 DEF Answer
<1> QED
  BY <1>1, <1>3 DEF Init, Promise!Init, Over, Answer, Told

\* Every step of the tracker is a step of the promise, or invisible to it.
LEMMA StepMapped == IInv /\ [Next]_vars => [Promise!Next]_(Promise!vars)
<1> SUFFICES ASSUME IInv, [Next]_vars PROVE [Promise!Next]_(Promise!vars)
  OBVIOUS
<1>0. TypeOK
  BY DEF IInv
<1>1. ASSUME NEW w \in Works, AddAdmitted(w) PROVE Promise!Admit(w)
  <2>1. w \notin Active \cup Over
    BY <1>1 DEF Active, Over, AddAdmitted
  <2>2. Active' = Active \cup {w}
    BY <1>1, AdmittedStep
  <2>3. Over' = Over /\ Answer' = Answer
    BY <1>0, <1>1 DEF Over, Answer, Told, AddAdmitted, TypeOK, waitVars
  <2>4. ~Promise!Full
    BY <1>1, FullMapped DEF AddAdmitted
  <2> QED
    BY <1>1, <2>1, <2>2, <2>3, <2>4 DEF Promise!Admit, Over, Answer, Told, AddAdmitted
<1>2. ASSUME NEW w \in Works, AddRefused(w) PROVE Promise!Refuse(w)
  <2>1. w \notin Active \cup Over
    BY <1>2 DEF Active, Over, AddRefused
  <2>2. Active' = Active
    BY <1>2, RefusedStep
  <2>3. Over' = Over \cup {w} /\ Answer' = Answer
    BY <1>0, <1>2 DEF Over, Answer, Told, AddRefused, TypeOK, waitVars
  <2>4. Promise!Full
    BY <1>2, FullMapped DEF AddRefused
  <2> QED
    BY <1>2, <2>1, <2>2, <2>3, <2>4 DEF Promise!Refuse, Over, Answer, Told, AddRefused
<1>3. ASSUME NEW w \in Works, Done(w) PROVE Promise!Finish(w)
  <2>1. w \in Active
    BY <1>3 DEF Active, Done
  <2>2. Active' = Active \ {w}
    BY <1>3, DoneStep
  <2>3. Over' = Over \cup {w} /\ Answer' = Answer
    BY <1>0, <1>3 DEF Over, Answer, Told, Done, TypeOK, waitVars
  <2> QED
    BY <1>3, <2>1, <2>2, <2>3 DEF Promise!Finish, Over, Answer, Told, Done
<1>4. ASSUME Drain PROVE Promise!Stop
  BY <1>4 DEF Drain, Promise!Stop, Active, waitVars
<1>5. ASSUME NEW v \in Waiters, Look(v) PROVE Promise!TellIdle(v) \/ UNCHANGED Promise!vars
  <2>0. Active' = Active /\ Over' = Over /\ draining' = draining
    BY <1>5 DEF Look, Active, Over
  <2>1. Answer[v] = "none"
    BY <1>5 DEF Answer, Told, Look
  <2>2. CASE n = 0
    <3>1. Active = {}
      BY <2>2, ActiveFinite, FS_EmptySet DEF IInv, CountIsActive
    <3>2. Answer' = [Answer EXCEPT ![v] = "idle"]
      BY <1>0, <1>5, <2>2, AnswerMoved DEF Look, WaitStates
    <3> QED
      BY <2>0, <2>1, <3>1, <3>2 DEF Promise!TellIdle, Over, Answer, Told
  <2>3. CASE n # 0
    <3>1. Answer' = Answer
      BY <1>0, <1>5, <2>1, <2>3, AnswerMoved DEF Look, WaitStates
    <3> QED
      BY <2>0, <3>1 DEF Promise!vars, Over, Answer, Told
  <2> QED
    BY <2>2, <2>3
<1>6. ASSUME NEW v \in Waiters, GiveUp(v) PROVE Promise!TellBusy(v)
  <2>0. Active' = Active /\ Over' = Over /\ draining' = draining
    BY <1>6 DEF GiveUp, Active, Over
  <2>1. Answer[v] = "none"
    BY <1>6 DEF Answer, Told, GiveUp
  <2>2. Answer' = [Answer EXCEPT ![v] = "busy"]
    BY <1>0, <1>6, AnswerMoved DEF GiveUp, WaitStates
  <2> QED
    BY <2>0, <2>1, <2>2 DEF Promise!TellBusy, Over, Answer, Told
<1>7. ASSUME NEW v \in Waiters, Woken(v) \/ Expire(v) PROVE UNCHANGED Promise!vars
  <2>0. Active' = Active /\ Over' = Over /\ draining' = draining
    BY <1>7 DEF Woken, Expire, Active, Over
  <2>1. Answer' = Answer
    <3>1. CASE Woken(v)
      <4>1. Answer[v] = "none"
        BY <3>1 DEF Answer, Told, Woken
      <4> QED
        BY <1>0, <3>1, <4>1, AnswerMoved DEF Woken, AfterWoken, WaitStates
    <3>2. CASE Expire(v)
      BY <3>2 DEF Expire, Answer, Told
    <3> QED
      BY <1>7, <3>1, <3>2
  <2> QED
    BY <2>0, <2>1 DEF Promise!vars, Over, Answer, Told
<1>8. ASSUME UNCHANGED vars PROVE UNCHANGED Promise!vars
  BY <1>8 DEF vars, waitVars, Promise!vars, Active
<1> QED
  BY <1>1, <1>2, <1>3, <1>4, <1>5, <1>6, <1>7, <1>8 DEF Next, Promise!Next

\* drain.Tracker implements its promise: whatever the interleaving, the cap
\* holds and a waiter is told "idle" only while nothing is in flight.
THEOREM Refinement == Spec => ImplementsInFlight
BY InitMapped, StepMapped, Invariant, PTL DEF Spec, ImplementsInFlight, Promise!Spec
=============================================================================
