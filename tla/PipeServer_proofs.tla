------------------------- MODULE PipeServer_proofs --------------------------
(***************************************************************************)
(* Proofs about pipeserver.Server for any pipes, tunnels and cap: the      *)
(* slots its handlers hold, the grace its stop gives, and that the         *)
(* handlers themselves implement InFlight.                                 *)
(***************************************************************************)
EXTENDS PipeServer, FiniteSetTheorems, TLAPS

\* Where the stop is in Server.Drain: it looks at the tracker only once it has
\* marked it draining, and closes the tunnels only once its Wait returned.
StopOrder ==
    /\ pc[Stopper] # "look" => stop \in {"waiting", "closed"}
    /\ stop \in {"waiting", "closed"} => draining
    /\ stop = "closed" => Tracker!Returned(Stopper)

\* Wait fails only when its context is done.
ErrorMeansExpired == pc[Stopper] = "error" => Stopper \in expired

\* Wait saw nothing in flight: whatever holds a slot since took it after the
\* drain began.
IdleMeansLate == pc[Stopper] = "nil" => Holding \subseteq late

IInv ==
    /\ TypeOK
    /\ SlotPerPipe
    /\ PipeCap
    /\ StopOrder
    /\ ErrorMeansExpired
    /\ IdleMeansLate

\* The handlers past open are finitely many.
LEMMA HoldingFinite == IsFiniteSet(Holding)
<1>1. Holding \subseteq Pipes
  BY DEF Holding
<1> QED
  BY <1>1, PipesAssumption, FS_Subset

\* The type invariant of the tracker, written out.
LEMMA TrackerTypes ==
  TypeOK => /\ draining \in BOOLEAN /\ n \in Nat /\ idle \in Nat /\ closed \subseteq Nat
            /\ work \in [Pipes -> {"new", "refused", "inflight", "ended"}]
            /\ pc \in [{Stopper} -> {"look", "select", "nil", "error"}]
            /\ held \in [{Stopper} -> Nat]
            /\ expired \subseteq {Stopper}
BY DEF TypeOK, Tracker!TypeOK, Tracker!WorkStates, Tracker!WaitStates

LEMMA InitIInv == Init => IInv
<1> SUFFICES ASSUME Init PROVE IInv
  OBVIOUS
<1>1. Tracker!TypeOK
  <2>1. draining \in BOOLEAN
    BY DEF Init, Tracker!Init
  <2>2. n \in Nat /\ idle \in Nat /\ closed \subseteq Nat /\ expired \subseteq {Stopper}
    BY DEF Init, Tracker!Init
  <2>3. work \in [Pipes -> Tracker!WorkStates]
    BY DEF Init, Tracker!Init, Tracker!WorkStates
  <2>4. pc \in [{Stopper} -> Tracker!WaitStates] /\ held \in [{Stopper} -> Nat]
    BY DEF Init, Tracker!Init, Tracker!WaitStates
  <2> QED
    BY <2>1, <2>2, <2>3, <2>4 DEF Tracker!TypeOK
<1>2. TypeOK
  BY <1>1 DEF Init, TypeOK, Handling, Answers
<1>3. Holding = {}
  BY DEF Init, Holding
<1>4. SlotPerPipe /\ PipeCap
  BY <1>3, FS_EmptySet, MaxPipesAssumption DEF Init, Tracker!Init, SlotPerPipe, PipeCap
<1>5. StopOrder /\ ErrorMeansExpired /\ IdleMeansLate
  BY DEF Init, Tracker!Init, StopOrder, ErrorMeansExpired, IdleMeansLate
<1> QED
  BY <1>2, <1>4, <1>5 DEF IInv

\* A step that takes and gives back no slot, and leaves the tracker and the
\* stop alone.
LEMMA QuietStep ==
  ASSUME IInv, TypeOK', Holding' = Holding, UNCHANGED <<trackerVars, stop, late>>
  PROVE  IInv'
BY DEF IInv, trackerVars, SlotPerPipe, PipeCap, StopOrder, ErrorMeansExpired, IdleMeansLate,
       Tracker!Returned

\* What a handler does before it is admitted, or while it keeps its slot.
LEMMA HandlerStep ==
  ASSUME IInv, NEW p \in Pipes,
         \/ Unheard(p) \/ ReadDraining(p) \/ Verify(p) \/ Reject(p)
         \/ Accept(p) \/ Handshake(p) \/ HandshakeFailed(p) \/ EndServing(p) \/ Completed(p)
  PROVE  IInv'
<1> USE DEF IInv
<1>1. UNCHANGED <<trackerVars, on, up, stop, peerVars, late>>
  BY DEF Unheard, ReadDraining, Verify, Reject, Accept, Handshake, HandshakeFailed, EndServing,
         Completed
<1>2. \E where \in Handling \cup {"over"} : Goto(p, where)
  BY DEF Unheard, ReadDraining, Verify, Reject, Accept, Handshake, HandshakeFailed, EndServing,
         Completed, Handling
<1>3. answer' \in [Pipes -> Answers]
  BY DEF Unheard, ReadDraining, Verify, Reject, Accept, Handshake, HandshakeFailed, EndServing,
         Completed, Answered, TypeOK, Answers
<1>4. TypeOK'
  BY <1>1, <1>2, <1>3 DEF Goto, TypeOK, Tracker!TypeOK, trackerVars, peerVars
<1>5. Holding' = Holding
  BY DEF Holding, TypeOK, Goto, Unheard, ReadDraining, Verify, Reject, Accept, Handshake,
         HandshakeFailed, EndServing, Completed
<1> QED
  BY <1>1, <1>4, <1>5, QuietStep

\* What the edge controller, the network and the clock do to pipes.
LEMMA OutsideStep ==
  ASSUME IInv,
         \/ \E p \in Pipes, c \in Conns : Open(p, c)
         \/ \E p \in Pipes : Lapse(p) \/ Stall(p) \/ ReadOn(p) \/ AbortPipe(p)
         \/ \E c \in Conns : LoseTunnel(c)
  PROVE  IInv'
<1> USE DEF IInv
<1>1. UNCHANGED <<trackerVars, stop, late>>
  BY DEF Open, Lapse, Stall, ReadOn, AbortPipe, LoseTunnel
<1>2. Tracker!TypeOK'
  BY <1>1 DEF TypeOK, Tracker!TypeOK, trackerVars
<1>3. answer' \in [Pipes -> Answers]
  BY DEF TypeOK, Answers, Cut, Open, Lapse, Stall, ReadOn, AbortPipe, LoseTunnel
<1>4. pipe' \in [Pipes -> Handling \cup {"none", "over"}] /\ on' \in [Pipes -> Conns \cup {NoConn}]
  BY DEF TypeOK, Goto, Handling, Open, Lapse, Stall, ReadOn, AbortPipe, LoseTunnel
<1>5. up' \subseteq Conns /\ stalled' \subseteq Pipes /\ lapsed' \subseteq Pipes /\ aborted' \subseteq Pipes
  BY DEF TypeOK, peerVars, Open, Lapse, Stall, ReadOn, AbortPipe, LoseTunnel
<1>6. TypeOK'
  BY <1>1, <1>2, <1>3, <1>4, <1>5 DEF TypeOK
<1>7. Holding' = Holding
  BY DEF Holding, TypeOK, Goto, Open, Lapse, Stall, ReadOn, AbortPipe, LoseTunnel
<1> QED
  BY <1>1, <1>6, <1>7, QuietStep

\* A slot is taken: the handler joins Holding as the tracker counts it.
LEMMA AdmitStep ==
  ASSUME IInv, NEW p \in Pipes, Admit(p)
  PROVE  IInv'
<1> USE DEF IInv
<1>1. /\ pipe[p] = "verified" /\ pipe' = [pipe EXCEPT ![p] = "admitted"]
      /\ ~Tracker!Full /\ n' = n + 1
      /\ late' = IF draining THEN late \cup {p} ELSE late
      /\ UNCHANGED <<draining, closed, pc, held, expired, on, answer, up, stop, stalled, lapsed, aborted>>
  BY DEF Admit, Goto, Tracker!AddAdmitted, Tracker!waitVars, peerVars
<1>2. work' \in [Pipes -> {"new", "refused", "inflight", "ended"}] /\ idle' \in Nat
  BY TrackerTypes DEF Admit, Tracker!AddAdmitted, Tracker!IdleAfterAdd
<1>3. TypeOK'
  <2>1. Tracker!TypeOK'
    BY <1>1, <1>2, TrackerTypes DEF Tracker!TypeOK, Tracker!WorkStates, Tracker!WaitStates
  <2> QED
    BY <2>1, <1>1 DEF TypeOK, Handling
<1>4. Holding' = Holding \cup {p} /\ p \notin Holding
  BY <1>1 DEF Holding, TypeOK
<1>5. Cardinality(Holding') = Cardinality(Holding) + 1
  BY <1>4, HoldingFinite, FS_AddElement
<1>6. SlotPerPipe' /\ PipeCap'
  BY <1>1, <1>5, TrackerTypes, MaxPipesAssumption DEF SlotPerPipe, PipeCap, Tracker!Full
<1>7. IdleMeansLate'
  BY <1>1, <1>4 DEF IdleMeansLate, StopOrder
<1>8. StopOrder' /\ ErrorMeansExpired'
  BY <1>1 DEF StopOrder, ErrorMeansExpired, Tracker!Returned
<1> QED
  BY <1>3, <1>6, <1>7, <1>8

\* A slot is given back, by the one deferred Done.
LEMMA ReleaseStep ==
  ASSUME IInv, NEW p \in Pipes, AcceptFailed(p) \/ Finish(p)
  PROVE  IInv'
<1> USE DEF IInv
<1>1. /\ pipe[p] \in {"admitted", "closing"} /\ pipe' = [pipe EXCEPT ![p] = "over"]
      /\ n' = n - 1
      /\ UNCHANGED <<draining, idle, pc, held, expired, on, up, stop, stalled, lapsed, aborted, late>>
  BY DEF AcceptFailed, Finish, Release, Goto, Tracker!Done, Tracker!waitVars, peerVars
<1>2. /\ work' \in [Pipes -> {"new", "refused", "inflight", "ended"}]
      /\ closed' \subseteq Nat /\ answer' \in [Pipes -> Answers]
  BY TrackerTypes DEF AcceptFailed, Finish, Release, Answered, Answers, TypeOK, Tracker!Done,
                      Tracker!ClosedByDone
<1>3. Holding' = Holding \ {p} /\ p \in Holding
  BY <1>1 DEF Holding, TypeOK
<1>4. /\ Cardinality(Holding') = Cardinality(Holding) - 1
      /\ Cardinality(Holding) \in Nat /\ Cardinality(Holding') \in Nat
  BY <1>3, HoldingFinite, FS_RemoveElement, FS_CardinalityType
<1>5. SlotPerPipe' /\ PipeCap' /\ n' \in Nat
  BY <1>1, <1>4, MaxPipesAssumption DEF SlotPerPipe, PipeCap
<1>6. TypeOK'
  <2>1. Tracker!TypeOK'
    BY <1>1, <1>2, <1>5, TrackerTypes DEF Tracker!TypeOK, Tracker!WorkStates, Tracker!WaitStates
  <2> QED
    BY <2>1, <1>1, <1>2 DEF TypeOK
<1>7. StopOrder' /\ ErrorMeansExpired' /\ IdleMeansLate'
  BY <1>1, <1>3 DEF StopOrder, ErrorMeansExpired, IdleMeansLate, Tracker!Returned
<1> QED
  BY <1>5, <1>6, <1>7

\* No slot was free.
LEMMA RefusedStep ==
  ASSUME IInv, NEW p \in Pipes, RefuseCapacity(p)
  PROVE  IInv'
<1> USE DEF IInv
<1>1. /\ pipe[p] = "verified" /\ pipe' = [pipe EXCEPT ![p] = "over"]
      /\ UNCHANGED <<draining, n, idle, closed, pc, held, expired, on, up, stop, stalled, lapsed,
                     aborted, late>>
  BY DEF RefuseCapacity, Goto, Tracker!AddRefused, Tracker!waitVars, peerVars
<1>2. /\ work' \in [Pipes -> {"new", "refused", "inflight", "ended"}]
      /\ answer' \in [Pipes -> Answers]
  BY TrackerTypes DEF RefuseCapacity, Answered, Answers, TypeOK, Tracker!AddRefused
<1>3. TypeOK'
  <2>1. Tracker!TypeOK'
    BY <1>1, <1>2, TrackerTypes DEF Tracker!TypeOK, Tracker!WorkStates, Tracker!WaitStates
  <2> QED
    BY <2>1, <1>1, <1>2 DEF TypeOK
<1>4. Holding' = Holding
  BY <1>1 DEF Holding, TypeOK
<1> QED
  BY <1>1, <1>3, <1>4 DEF SlotPerPipe, PipeCap, StopOrder, ErrorMeansExpired, IdleMeansLate,
                          Tracker!Returned

\* The stop: marked, waited for and closed in this order.
LEMMA StopStepKeeps ==
  ASSUME IInv, Signal \/ StopStep \/ GraceOver
  PROVE  IInv'
<1> USE DEF IInv
<1>1. Holding' = Holding /\ n' = n /\ late' = late
  BY DEF Holding, Signal, StopStep, MarkDraining, WaitForPipes, CloseTunnels, GraceOver, trackerVars,
         Tracker!Drain, Tracker!Look, Tracker!Woken, Tracker!GiveUp, Tracker!Expire
<1>2. SlotPerPipe' /\ PipeCap'
  BY <1>1 DEF SlotPerPipe, PipeCap
<1>3. CASE Signal
  BY <1>1, <1>2, <1>3, TrackerTypes
     DEF Signal, TypeOK, Tracker!TypeOK, trackerVars, peerVars, StopOrder, ErrorMeansExpired,
         IdleMeansLate, Tracker!Returned
<1>4. CASE MarkDraining
  BY <1>1, <1>2, <1>4, TrackerTypes
     DEF MarkDraining, Tracker!Drain, Tracker!waitVars, TypeOK, Tracker!TypeOK, peerVars, StopOrder,
         ErrorMeansExpired, IdleMeansLate, Tracker!Returned
<1>5. CASE WaitForPipes
  <2>1. /\ stop = "waiting" /\ stop' = stop
        /\ UNCHANGED <<draining, n, idle, closed, work, expired, pipe, on, answer, up, stalled, lapsed,
                       aborted, late>>
        /\ pc' \in [{Stopper} -> {"look", "select", "nil", "error"}]
        /\ held' \in [{Stopper} -> Nat]
    BY <1>5, TrackerTypes
       DEF WaitForPipes, peerVars, Tracker!Look, Tracker!Woken, Tracker!GiveUp, Tracker!AfterWoken
  <2>2. TypeOK'
    <3>1. Tracker!TypeOK'
      BY <2>1, TrackerTypes DEF Tracker!TypeOK, Tracker!WorkStates, Tracker!WaitStates
    <3> QED
      BY <2>1, <3>1 DEF TypeOK
  <2>3. pc'[Stopper] = "error" => Stopper \in expired
    BY <1>5, TrackerTypes DEF WaitForPipes, Tracker!Look, Tracker!Woken, Tracker!GiveUp,
                              Tracker!AfterWoken, ErrorMeansExpired
  <2>4. pc'[Stopper] = "nil" => n = 0
    BY <1>5, TrackerTypes DEF WaitForPipes, Tracker!Look, Tracker!Woken, Tracker!GiveUp,
                              Tracker!AfterWoken
  <2>5. n = 0 => Holding = {}
    BY HoldingFinite, FS_EmptySet DEF SlotPerPipe
  <2> QED
    BY <1>1, <1>2, <2>1, <2>2, <2>3, <2>4, <2>5
       DEF StopOrder, ErrorMeansExpired, IdleMeansLate
<1>6. CASE CloseTunnels
  <2>1. TypeOK'
    BY <1>6, TrackerTypes DEF CloseTunnels, TypeOK, Tracker!TypeOK, trackerVars, peerVars, Cut, Answers
  <2> QED
    BY <1>1, <1>2, <1>6, <2>1
       DEF CloseTunnels, Drained, trackerVars, StopOrder, ErrorMeansExpired, IdleMeansLate,
           Tracker!Returned
<1>7. CASE GraceOver
  <2>1. TypeOK'
    BY <1>7, TrackerTypes DEF GraceOver, Tracker!Expire, TypeOK, Tracker!TypeOK, peerVars
  <2> QED
    BY <1>1, <1>2, <1>7, <2>1
       DEF GraceOver, Tracker!Expire, StopOrder, ErrorMeansExpired, IdleMeansLate, Tracker!Returned
<1> QED
  BY <1>3, <1>4, <1>5, <1>6, <1>7 DEF StopStep

LEMMA NextIInv == IInv /\ [Next]_vars => IInv'
<1> SUFFICES ASSUME IInv, [Next]_vars PROVE IInv'
  OBVIOUS
<1>1. ASSUME NEW p \in Pipes, Handler(p) \/ Completed(p) PROVE IInv'
  BY <1>1, HandlerStep, AdmitStep, ReleaseStep, RefusedStep DEF Handler
<1>2. ASSUME NEW p \in Pipes, Lapse(p) \/ Stall(p) \/ ReadOn(p) \/ AbortPipe(p) PROVE IInv'
  BY <1>2, OutsideStep
<1>3. CASE (\E p \in Pipes, c \in Conns : Open(p, c)) \/ (\E c \in Conns : LoseTunnel(c))
  BY <1>3, OutsideStep
<1>4. CASE Signal \/ StopStep \/ GraceOver
  BY <1>4, StopStepKeeps
<1>5. CASE UNCHANGED vars
  <2>1. TypeOK' /\ Holding' = Holding
    BY <1>5 DEF IInv, vars, trackerVars, peerVars, TypeOK, Tracker!TypeOK, Holding
  <2> QED
    BY <1>5, <2>1, QuietStep DEF vars
<1> QED
  BY <1>1, <1>2, <1>3, <1>4, <1>5 DEF Next

\* The conjunction the theorems below rest on holds in every reachable state.
THEOREM Invariant == Spec => []IInv
BY InitIInv, NextIInv, PTL DEF Spec

\* However a handler ends, it holds one slot from Add to its return and none
\* before or after.
THEOREM OneSlotEach == Spec => []SlotPerPipe
<1>1. IInv => SlotPerPipe
  BY DEF IInv
<1> QED
  BY <1>1, Invariant, PTL

\* TRAVERSAL_PIPES_MAX bounds the handlers that are past open.
THEOREM CapOnPipes == Spec => []PipeCap
<1>1. IInv => PipeCap
  BY DEF IInv
<1> QED
  BY <1>1, Invariant, PTL

\* The stop closes the tunnels under no pipe admitted before the drain began
\* unless drainGrace is over.
THEOREM GraceForEarly == Spec => []EarlyPipesGetGrace
<1>1. IInv => EarlyPipesGetGrace
  BY DEF IInv, StopOrder, ErrorMeansExpired, IdleMeansLate, EarlyPipesGetGrace, Tracker!Returned
<1> QED
  BY <1>1, Invariant, PTL

\* Every step of the server is one the tracker allows, or leaves it alone: one
\* Add and one Done for each pipe, and a Wait that looks as Wait does.
THEOREM UsesTracker == Spec => Tracker!Spec
<1>1. Init => Tracker!Init
  BY DEF Init
<1>2. [Next]_vars => [Tracker!Next]_Tracker!vars
  <2> SUFFICES ASSUME [Next]_vars PROVE Tracker!Next \/ UNCHANGED Tracker!vars
    OBVIOUS
  <2>1. ASSUME NEW p \in Pipes, Handler(p) \/ Completed(p) PROVE Tracker!Next \/ UNCHANGED trackerVars
    BY <2>1 DEF Handler, Unheard, ReadDraining, Verify, Reject, Admit, RefuseCapacity, Accept,
                AcceptFailed, Handshake, HandshakeFailed, EndServing, Finish, Completed, Release,
                Tracker!Next
  <2>2. ASSUME NEW p \in Pipes, Lapse(p) \/ Stall(p) \/ ReadOn(p) \/ AbortPipe(p)
        PROVE  UNCHANGED trackerVars
    BY <2>2 DEF Lapse, Stall, ReadOn, AbortPipe
  <2>3. CASE (\E p \in Pipes, c \in Conns : Open(p, c)) \/ (\E c \in Conns : LoseTunnel(c))
    BY <2>3 DEF Open, LoseTunnel, Tracker!vars, trackerVars
  <2>4. CASE Signal \/ StopStep \/ GraceOver
    BY <2>4 DEF Signal, StopStep, MarkDraining, WaitForPipes, CloseTunnels, GraceOver, trackerVars,
                Tracker!vars, Tracker!Next
  <2>5. CASE UNCHANGED vars
    BY <2>5 DEF vars, trackerVars, Tracker!vars
  <2> QED
    BY <2>1, <2>2, <2>3, <2>4, <2>5 DEF Next, trackerVars, Tracker!vars
<1> QED
  BY <1>1, <1>2, PTL DEF Spec, Tracker!Spec
-----------------------------------------------------------------------------
\* The state functions the promise's other variables are mapped to.
Over == {p \in Pipes : work[p] \in {"refused", "ended"}}
Told(v) == CASE pc[v] = "nil" -> "idle"
             [] pc[v] = "error" -> "busy"
             [] OTHER -> "none"
Answer == [v \in {Stopper} |-> Told(v)]

\* The promise's cap is reached exactly when the tracker finds it reached.
LEMMA FullMapped == ASSUME IInv PROVE Pool!Full <=> Tracker!Full
<1>1. n = Cardinality(Holding)
  BY DEF IInv, SlotPerPipe
<1> QED
  BY ONLY <1>1 DEF Tracker!Full, Pool!Full, Cardinality, Pool!Cardinality

LEMMA InitMapped == Init => Pool!Init
<1> SUFFICES ASSUME Init PROVE Pool!Init
  OBVIOUS
<1>1. Holding = {} /\ Over = {} /\ draining = FALSE
  BY DEF Init, Tracker!Init, Holding, Over
<1>2. Answer = [v \in {Stopper} |-> "none"]
  BY DEF Init, Tracker!Init, Answer, Told
<1> QED
  BY <1>1, <1>2 DEF Pool!Init, Over, Answer, Told

\* The handlers past open, what the tracker knows of the others and what the
\* stop was told are all the promise sees.
LEMMA Unseen ==
  ASSUME Holding' = Holding, UNCHANGED trackerVars
  PROVE  UNCHANGED Pool!vars
<1>1. Over' = Over /\ Answer' = Answer /\ draining' = draining
  BY DEF Over, Answer, Told, trackerVars
<1> QED
  BY <1>1 DEF Pool!vars, Over, Answer, Told

LEMMA HandlerMapped ==
  ASSUME IInv, NEW p \in Pipes, Handler(p) \/ Completed(p)
  PROVE  Pool!Next \/ UNCHANGED Pool!vars
<1> USE DEF IInv
<1>1. CASE Admit(p)
  <2>1. Holding' = Holding \cup {p} /\ p \notin Holding
    BY <1>1 DEF Admit, Goto, Holding, TypeOK
  <2>2. p \notin Over /\ Over' = Over
    BY <1>1, TrackerTypes DEF Admit, Tracker!AddAdmitted, Over
  <2>3. Answer' = Answer /\ draining' = draining
    BY <1>1 DEF Admit, Tracker!AddAdmitted, Tracker!waitVars, Answer, Told
  <2>4. ~Pool!Full
    BY <1>1, FullMapped DEF Admit, Tracker!AddAdmitted
  <2>5. Pool!Admit(p)
    BY <2>1, <2>2, <2>3, <2>4 DEF Pool!Admit, Over, Answer, Told
  <2> QED
    BY <2>5 DEF Pool!Next
<1>2. CASE RefuseCapacity(p)
  <2>1. Holding' = Holding /\ p \notin Holding
    BY <1>2 DEF RefuseCapacity, Goto, Holding, TypeOK
  <2>2. p \notin Over /\ Over' = Over \cup {p}
    BY <1>2, TrackerTypes DEF RefuseCapacity, Tracker!AddRefused, Over
  <2>3. Answer' = Answer /\ draining' = draining
    BY <1>2 DEF RefuseCapacity, Tracker!AddRefused, Tracker!waitVars, Answer, Told
  <2>4. Pool!Full
    BY <1>2, FullMapped DEF RefuseCapacity, Tracker!AddRefused
  <2>5. Pool!Refuse(p)
    BY <2>1, <2>2, <2>3, <2>4 DEF Pool!Refuse, Over, Answer, Told
  <2> QED
    BY <2>5 DEF Pool!Next
<1>3. CASE AcceptFailed(p) \/ Finish(p)
  <2>1. p \in Holding /\ Holding' = Holding \ {p}
    BY <1>3 DEF AcceptFailed, Finish, Release, Goto, Holding, TypeOK
  <2>2. Over' = Over \cup {p}
    BY <1>3, TrackerTypes DEF AcceptFailed, Finish, Release, Tracker!Done, Over
  <2>3. Answer' = Answer /\ draining' = draining
    BY <1>3 DEF AcceptFailed, Finish, Release, Tracker!Done, Tracker!waitVars, Answer, Told
  <2>4. Pool!Finish(p)
    BY <2>1, <2>2, <2>3 DEF Pool!Finish, Over, Answer, Told
  <2> QED
    BY <2>4 DEF Pool!Next
<1>4. CASE \/ Unheard(p) \/ ReadDraining(p) \/ Verify(p) \/ Reject(p)
           \/ Accept(p) \/ Handshake(p) \/ HandshakeFailed(p) \/ EndServing(p) \/ Completed(p)
  <2>1. Holding' = Holding /\ UNCHANGED trackerVars
    BY <1>4 DEF Holding, TypeOK, Goto, Unheard, ReadDraining, Verify, Reject, Accept, Handshake,
                HandshakeFailed, EndServing, Completed
  <2> QED
    BY <2>1, Unseen
<1> QED
  BY <1>1, <1>2, <1>3, <1>4 DEF Handler

\* The look that ends Wait is the moment the stop is told "idle": no handler
\* is past open then.
LEMMA StopMapped ==
  ASSUME IInv, Signal \/ StopStep \/ GraceOver
  PROVE  Pool!Next \/ UNCHANGED Pool!vars
<1> USE DEF IInv
<1>0. Holding' = Holding
  BY DEF Holding, Signal, StopStep, MarkDraining, WaitForPipes, CloseTunnels, GraceOver, trackerVars
<1>1. CASE Signal \/ CloseTunnels
  BY <1>0, <1>1, Unseen DEF Signal, CloseTunnels
<1>2. CASE MarkDraining
  <2>1. Over' = Over /\ Answer' = Answer /\ draining' = TRUE
    BY <1>2 DEF MarkDraining, Tracker!Drain, Tracker!waitVars, Over, Answer, Told
  <2> QED
    BY <1>0, <2>1 DEF Pool!Next, Pool!Stop, Over, Answer, Told
<1>3. CASE WaitForPipes
  <2>0. Over' = Over /\ draining' = draining
    BY <1>3 DEF WaitForPipes, Tracker!Look, Tracker!Woken, Tracker!GiveUp, Over
  <2>1. CASE Tracker!Look(Stopper)
    <3>1. Answer[Stopper] = "none"
      BY <2>1 DEF Tracker!Look, Answer, Told
    <3>2. CASE n = 0
      <4>1. Holding = {}
        BY <3>2, HoldingFinite, FS_EmptySet DEF SlotPerPipe
      <4>2. Answer' = [Answer EXCEPT ![Stopper] = "idle"]
        BY <2>1, <3>2, TrackerTypes DEF Tracker!Look, Answer, Told
      <4>3. Pool!TellIdle(Stopper)
        BY <1>0, <2>0, <3>1, <4>1, <4>2 DEF Pool!TellIdle, Over, Answer, Told
      <4> QED
        BY <4>3 DEF Pool!Next
    <3>3. CASE n # 0
      <4>1. Answer' = Answer
        BY <2>1, <3>3, TrackerTypes DEF Tracker!Look, Answer, Told
      <4> QED
        BY <1>0, <2>0, <4>1 DEF Pool!vars, Over, Answer, Told
    <3> QED
      BY <3>2, <3>3
  <2>2. CASE Tracker!Woken(Stopper)
    <3>1. Answer' = Answer
      BY <2>2, TrackerTypes DEF Tracker!Woken, Tracker!AfterWoken, Answer, Told
    <3> QED
      BY <1>0, <2>0, <3>1 DEF Pool!vars, Over, Answer, Told
  <2>3. CASE Tracker!GiveUp(Stopper)
    <3>1. Answer[Stopper] = "none" /\ Answer' = [Answer EXCEPT ![Stopper] = "busy"]
      BY <2>3, TrackerTypes DEF Tracker!GiveUp, Answer, Told
    <3>2. Pool!TellBusy(Stopper)
      BY <1>0, <2>0, <3>1 DEF Pool!TellBusy, Over, Answer, Told
    <3> QED
      BY <3>2 DEF Pool!Next
  <2> QED
    BY <1>3, <2>1, <2>2, <2>3 DEF WaitForPipes
<1>4. CASE GraceOver
  <2>1. Over' = Over /\ Answer' = Answer /\ draining' = draining
    BY <1>4 DEF GraceOver, Tracker!Expire, Over, Answer, Told
  <2> QED
    BY <1>0, <2>1 DEF Pool!vars, Over, Answer, Told
<1> QED
  BY <1>1, <1>2, <1>3, <1>4 DEF StopStep

LEMMA StepMapped == IInv /\ [Next]_vars => [Pool!Next]_(Pool!vars)
<1> SUFFICES ASSUME IInv, [Next]_vars PROVE Pool!Next \/ UNCHANGED Pool!vars
  OBVIOUS
<1>1. ASSUME NEW p \in Pipes, Handler(p) \/ Completed(p) PROVE Pool!Next \/ UNCHANGED Pool!vars
  BY <1>1, HandlerMapped
<1>2. CASE \/ \E p \in Pipes, c \in Conns : Open(p, c)
           \/ \E p \in Pipes : Lapse(p) \/ Stall(p) \/ ReadOn(p) \/ AbortPipe(p)
           \/ \E c \in Conns : LoseTunnel(c)
  <2>1. Holding' = Holding /\ UNCHANGED trackerVars
    BY <1>2 DEF IInv, Holding, TypeOK, Goto, Open, Lapse, Stall, ReadOn, AbortPipe, LoseTunnel
  <2> QED
    BY <2>1, Unseen
<1>3. CASE Signal \/ StopStep \/ GraceOver
  BY <1>3, StopMapped
<1>4. CASE UNCHANGED vars
  <2>1. Holding' = Holding /\ UNCHANGED trackerVars
    BY <1>4 DEF vars, Holding, trackerVars
  <2> QED
    BY <2>1, Unseen
<1> QED
  BY <1>1, <1>2, <1>3, <1>4 DEF Next

\* The handlers past open are what the tracker promises its callers: at most
\* MaxPipes at once, each leaving once, and none at the moment the stop's Wait
\* learns that nothing is in flight.
THEOREM ServesInFlight == Spec => HandlersInFlight
BY InitMapped, StepMapped, Invariant, PTL DEF Spec, HandlersInFlight, Pool!Spec
=============================================================================
