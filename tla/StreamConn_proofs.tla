-------------------------- MODULE StreamConn_proofs --------------------------
(***************************************************************************)
(* Proofs about halfconn.StreamConn for streams of any length: however its *)
(* copies, its peer and its user interleave, no failure reads as an end.   *)
(***************************************************************************)
EXTENDS StreamConn, TLAPS

\* What a copy has read and not yet written is the one chunk in its hand.
ChunksInOrder ==
    /\ got <= taken /\ taken <= sent /\ written <= given
    /\ copy["in"] \in {"read", "body"} => taken = got
    /\ copy["in"] = "write" => taken = got + 1
    /\ copy["out"] \in {"read", "check", "end"} => written = given
    /\ copy["out"] = "write" => given = written + 1

\* fail publishes, then aborts, then is done.
FailInOrder ==
    /\ once # "free" => failed
    /\ \A x \in Both : copy[x] \in {"abort", "closefar"} => once = x
    /\ \A x \in Both : copy[x] = "closefar" => aborted
    /\ once = "done" => aborted

AllRead == body = "eof" /\ got = sent

\* All that may end a copy, or the stream's reads, before the user closes.
Ending == farClosed \/ ended \/ copy["in"] \in {"close", "stopped"} \/ copy["out"] \in {"check", "end"}

EndingHasReason ==
    /\ Ending => nearClosed \/ failed \/ AllRead
    /\ reads = "raw eof" => failed \/ AllRead
    /\ reads = "eof" => AllRead
    /\ reads \in {"raw closed", "closed"} => nearClosed
    /\ writes = "raw closed" => nearClosed \/ failed \/ AllRead
    /\ writes = "closed" => nearClosed \/ AllRead

\* What a stopped copy toward the stream left unwritten is known to be lost.
StoppedKnows ==
    /\ copy["out"] = "stopped" => written = given \/ aborted
    /\ handler \in {"finish", "ended", "reset"} => CopiesStopped
    /\ handler = "ended" => written = given

IInv == TypeOK /\ ChunksInOrder /\ FailInOrder /\ EndingHasReason /\ StoppedKnows

LEMMA InitIInv == Init => IInv
<1> SUFFICES ASSUME Init PROVE IInv
  OBVIOUS
<1>1. Counts
  BY ChunksAssumption DEF Init, Counts
<1>2. Flags
  BY DEF Init, Flags
<1>3. States
  BY DEF Init, States, Both, Failing, Ends
<1>4. ChunksInOrder
  BY DEF Init, ChunksInOrder, Both
<1>5. FailInOrder /\ StoppedKnows
  BY DEF Init, Both, FailInOrder, StoppedKnows
<1>6. EndingHasReason
  BY DEF Init, Both, Ending, EndingHasReason
<1> QED
  BY <1>1, <1>2, <1>3, <1>4, <1>5, <1>6 DEF IInv, TypeOK

\* The stream's peer sends, ends or resets: nothing it does after its end counts.
LEMMA PeerKeeps ==
  ASSUME IInv, Peer
  PROVE  IInv'
<1> USE ChunksAssumption
<1>1. UNCHANGED <<ended, aborted, copyVars, pipeVars, userVars>>
  BY DEF Peer, PeerSends, PeerEnds, PeerResets
<1>2. TypeOK'
  <2>1. Counts'
    BY <1>1 DEF IInv, TypeOK, Peer, PeerSends, PeerEnds, PeerResets, Counts, copyVars, userVars
  <2>2. Flags'
    BY <1>1 DEF IInv, TypeOK, Peer, PeerSends, PeerEnds, PeerResets, Flags, copyVars, pipeVars
  <2>3. States'
    BY <1>1 DEF IInv, TypeOK, Peer, PeerSends, PeerEnds, PeerResets, States, BodyEnds, copyVars,
       userVars
  <2> QED
    BY <2>1, <2>2, <2>3 DEF TypeOK
<1>3. sent <= sent' /\ (AllRead => AllRead')
  BY <1>1 DEF IInv, TypeOK, AllRead, userVars, Peer, PeerSends, PeerEnds, PeerResets, BodyEnds,
     Counts
<1>4. ChunksInOrder'
  BY <1>1, <1>2, <1>3 DEF IInv, TypeOK, Counts, copyVars, userVars, ChunksInOrder
<1>5. FailInOrder' /\ EndingHasReason'
  <2>1. Ending' = Ending
    BY <1>1 DEF copyVars, pipeVars, Ending
  <2> QED
    BY <1>1, <1>3, <2>1 DEF IInv, copyVars, pipeVars, userVars, FailInOrder, EndingHasReason
<1>6. StoppedKnows'
  BY <1>1 DEF IInv, copyVars, userVars, StoppedKnows, CopiesStopped, Peer, PeerSends, PeerEnds,
     PeerResets
<1> QED
  BY <1>2, <1>4, <1>5, <1>6 DEF IInv

\* The copy from the stream, its failures aside.
LEMMA InKeeps ==
  ASSUME IInv, LookEnded \/ Take \/ BodyOver \/ FarRefuses \/ CloseFar
  PROVE  IInv'
<1> USE ChunksAssumption DEF IInv, TypeOK, Both, Failing, Goto
<1>1. UNCHANGED <<streamVars, written, once, failed, nearClosed, userVars, handler>>
  BY DEF LookEnded, Take, BodyOver, FarRefuses, CloseFar, pipeVars
<1>2. copy'["out"] = copy["out"]
  BY DEF LookEnded, Take, BodyOver, FarRefuses, CloseFar, States
<1>3. TypeOK'
  <2>1. Counts'
    BY <1>1 DEF LookEnded, Take, BodyOver, FarRefuses, CloseFar, Counts, streamVars, userVars
  <2>2. Flags'
    BY <1>1 DEF LookEnded, Take, BodyOver, FarRefuses, CloseFar, Flags, streamVars, pipeVars
  <2>3. States'
    BY <1>1 DEF LookEnded, Take, BodyOver, FarRefuses, CloseFar, States, streamVars, userVars
  <2> QED
    BY <2>1, <2>2, <2>3 DEF TypeOK
<1>4. ChunksInOrder'
  BY <1>1 DEF LookEnded, Take, BodyOver, FarRefuses, CloseFar, streamVars, userVars,
     ChunksInOrder, Counts, States
<1>5. FailInOrder'
  BY <1>1 DEF LookEnded, Take, BodyOver, FarRefuses, CloseFar, streamVars, FailInOrder, States
<1>6. EndingHasReason'
  <2>1. LookEnded \/ FarRefuses \/ CloseFar \/ Take => (Ending' => nearClosed \/ Ending)
    BY <1>1, <1>2 DEF LookEnded, Take, FarRefuses, CloseFar, States, streamVars, pipeVars, Ending
  <2>2. BodyOver => (Ending' => Ending \/ AllRead)
    BY <1>1, <1>2 DEF BodyOver, States, streamVars, pipeVars, CleanEnd, Ending, AllRead,
       ChunksInOrder
  <2>3. Ending' => nearClosed \/ failed \/ AllRead
    BY <2>1, <2>2 DEF EndingHasReason
  <2> QED
    BY <1>1, <2>3 DEF streamVars, userVars, AllRead, EndingHasReason
<1>7. StoppedKnows'
  BY <1>1, <1>2 DEF LookEnded, Take, BodyOver, FarRefuses, CloseFar, streamVars, userVars,
     StoppedKnows, CopiesStopped
<1> QED
  BY <1>3, <1>4, <1>5, <1>6, <1>7

\* The copy toward the stream, its failures aside.
LEMMA OutKeeps ==
  ASSUME IInv, FarEnds \/ CheckFailure \/ EndStream \/ Write \/ WriteFails
  PROVE  IInv'
<1> USE ChunksAssumption DEF IInv, TypeOK, Both, Failing, Goto
<1>1. UNCHANGED <<sent, reset, aborted, taken, once, failed, pipeVars, userVars, handler>>
  BY DEF FarEnds, CheckFailure, EndStream, Write, WriteFails, streamVars
<1>2. copy'["in"] = copy["in"]
  BY DEF FarEnds, CheckFailure, EndStream, Write, WriteFails, States
<1>3. TypeOK'
  <2>1. Counts'
    BY <1>1 DEF FarEnds, CheckFailure, EndStream, Write, WriteFails, Counts, ChunksInOrder,
       streamVars, userVars
  <2>2. Flags'
    BY <1>1 DEF FarEnds, CheckFailure, EndStream, Write, WriteFails, Flags, CloseWrite,
       streamVars, pipeVars
  <2>3. States'
    BY <1>1 DEF FarEnds, CheckFailure, EndStream, Write, WriteFails, States, CloseWrite,
       BodyEnds, streamVars, userVars
  <2> QED
    BY <2>1, <2>2, <2>3 DEF TypeOK
<1>4. ChunksInOrder'
  BY <1>1 DEF FarEnds, CheckFailure, EndStream, Write, WriteFails, streamVars, userVars,
     ChunksInOrder, Counts, States
<1>5. FailInOrder'
  BY <1>1 DEF FarEnds, CheckFailure, EndStream, Write, WriteFails, FailInOrder, States
<1>6. EndingHasReason'
  <2>1. Ending' => nearClosed \/ failed \/ AllRead
    BY <1>1, <1>2 DEF FarEnds, CheckFailure, EndStream, CloseWrite, Write, WriteFails, streamVars,
       pipeVars, Ending, EndingHasReason, States
  <2>2. AllRead => AllRead'
    BY <1>1 DEF FarEnds, CheckFailure, EndStream, CloseWrite, BodyEnds, Write, WriteFails,
       streamVars,
       userVars, AllRead
  <2> QED
    BY <1>1, <2>1, <2>2 DEF pipeVars, userVars, EndingHasReason
<1>7. StoppedKnows'
  BY <1>1, <1>2 DEF FarEnds, CheckFailure, EndStream, Write, WriteFails, userVars, ChunksInOrder,
     StoppedKnows, CopiesStopped, States
<1> QED
  BY <1>3, <1>4, <1>5, <1>6, <1>7

\* A copy's failure, step by step, and one that finds another done.
LEMMA FailKeeps ==
  ASSUME IInv, NEW x \in Both, Fail(x)
  PROVE  IInv'
<1> USE ChunksAssumption DEF IInv, TypeOK, Both, Failing, Goto
<1>1. UNCHANGED <<sent, reset, ended, taken, written, nearClosed, userVars, handler>>
  BY DEF Fail, Publish, AlreadyFailed, Abort, FailClosesFar, streamVars, pipeVars
<1>2. failed' = (failed \/ Publish(x)) /\ (aborted => aborted') /\ (failed => failed')
  BY DEF Fail, Publish, AlreadyFailed, Abort, FailClosesFar, streamVars, FailInOrder
<1>3. TypeOK'
  <2>1. Counts'
    BY <1>1 DEF Fail, Publish, AlreadyFailed, Abort, FailClosesFar, Counts, userVars
  <2>2. Flags'
    BY <1>1 DEF Fail, Publish, AlreadyFailed, Abort, FailClosesFar, Flags, FarAfterFail,
       streamVars, pipeVars
  <2>3. States'
    BY <1>1 DEF Fail, Publish, AlreadyFailed, Abort, FailClosesFar, States, AfterFail, BodyEnds,
       streamVars, userVars
  <2> QED
    BY <2>1, <2>2, <2>3 DEF TypeOK
<1>4. ChunksInOrder'
  BY <1>1 DEF Fail, Publish, AlreadyFailed, Abort, FailClosesFar, AfterFail, userVars,
     ChunksInOrder, Counts, States
<1>5. FailInOrder'
  BY <1>1 DEF Fail, Publish, AlreadyFailed, Abort, FailClosesFar, AfterFail, streamVars,
     FailInOrder, States
<1>6. failed'
  BY DEF Fail, Publish, AlreadyFailed, Abort, FailClosesFar, FailInOrder
<1>7. EndingHasReason'
  <2>1. AllRead => AllRead'
    BY <1>1 DEF Fail, Publish, AlreadyFailed, Abort, FailClosesFar, BodyEnds, streamVars,
       userVars,
       AllRead
  <2> QED
    BY <1>1, <1>6, <2>1 DEF userVars, EndingHasReason
<1>8. StoppedKnows'
  <2>1. copy'["out"] = "stopped" => written = given \/ aborted'
    BY <1>2 DEF Fail, Publish, AlreadyFailed, Abort, FailClosesFar, AfterFail, FailInOrder,
       StoppedKnows, States
  <2>2. handler \notin {"finish", "ended", "reset"}
    BY DEF Fail, Publish, AlreadyFailed, Abort, FailClosesFar, StoppedKnows, CopiesStopped
  <2> QED
    BY <1>1, <2>1, <2>2 DEF userVars, StoppedKnows
<1> QED
  BY <1>3, <1>4, <1>5, <1>7, <1>8

\* The conn's user reads and writes a chunk, or closes.
LEMMA UserKeeps ==
  ASSUME IInv, UserReads \/ UserWrites \/ UserCloses
  PROVE  IInv'
<1> USE ChunksAssumption DEF IInv, TypeOK, Both, Failing, Goto
<1>1. UNCHANGED <<streamVars, taken, written, once, failed, farClosed, reads, writes, handler>>
  BY DEF UserReads, UserWrites, UserCloses, copyVars, pipeVars, userVars
<1>2. TypeOK'
  <2>1. Counts'
    BY <1>1 DEF UserReads, UserWrites, UserCloses, Counts, ChunksInOrder, streamVars, copyVars,
       userVars
  <2>2. Flags'
    BY <1>1 DEF UserReads, UserWrites, UserCloses, Flags, streamVars, copyVars, pipeVars
  <2>3. States'
    BY <1>1 DEF UserReads, UserWrites, UserCloses, States, streamVars, copyVars, userVars
  <2> QED
    BY <2>1, <2>2, <2>3 DEF TypeOK
<1>3. ChunksInOrder' /\ FailInOrder'
  BY <1>1 DEF UserReads, UserWrites, UserCloses, streamVars, copyVars, userVars, ChunksInOrder,
     FailInOrder, Counts, States
<1>4. EndingHasReason'
  <2>1. AllRead => AllRead'
    BY <1>1 DEF UserReads, UserWrites, UserCloses, streamVars, userVars, AllRead, ChunksInOrder,
       Counts, States
  <2>2. (nearClosed => nearClosed') /\ (Ending' => Ending)
    BY <1>1 DEF UserReads, UserWrites, UserCloses, streamVars, copyVars, pipeVars, Ending, States
  <2> QED
    BY <1>1, <2>1, <2>2 DEF EndingHasReason
<1>5. StoppedKnows'
  BY <1>1 DEF UserReads, UserWrites, UserCloses, streamVars, copyVars, userVars, StoppedKnows,
     CopiesStopped, States
<1> QED
  BY <1>2, <1>3, <1>4, <1>5

\* The conn's user is told how its reads and writes end.
LEMMA ToldKeeps ==
  ASSUME IInv, UserReadEnds \/ UserWriteEnds \/ UserReadTold \/ UserWriteTold
  PROVE  IInv'
<1>1. UNCHANGED <<streamVars, copyVars, pipeVars, got, given, handler>>
  BY DEF UserReadEnds, UserWriteEnds, UserReadTold, UserWriteTold
<1>2. TypeOK'
  <2>1. Counts'
    BY <1>1 DEF IInv, TypeOK, UserReadEnds, UserWriteEnds, UserReadTold, UserWriteTold, Counts,
       streamVars, copyVars
  <2>2. Flags'
    BY <1>1 DEF IInv, TypeOK, UserReadEnds, UserWriteEnds, UserReadTold, UserWriteTold, Flags,
       streamVars, copyVars, pipeVars
  <2>3. States'
    BY <1>1 DEF IInv, TypeOK, UserReadEnds, UserWriteEnds, UserReadTold, UserWriteTold, States,
       Ends, OrFailure, streamVars, copyVars
  <2> QED
    BY <2>1, <2>2, <2>3 DEF TypeOK
<1>3. ChunksInOrder' /\ FailInOrder' /\ StoppedKnows'
  BY <1>1 DEF IInv, streamVars, copyVars, ChunksInOrder, FailInOrder, StoppedKnows, CopiesStopped
<1>4. EndingHasReason'
  <2>1. AllRead' = AllRead /\ Ending' = Ending
    BY <1>1 DEF AllRead, Ending, streamVars, copyVars, pipeVars
  <2> QED
    BY <1>1, <2>1 DEF IInv, EndingHasReason, Ending, UserReadEnds, UserWriteEnds, UserReadTold,
       UserWriteTold, OrFailure, copyVars, pipeVars
<1> QED
  BY <1>2, <1>3, <1>4 DEF IInv

\* The tail of serve: Close, Wait, Finish.
LEMMA HandlerKeeps ==
  ASSUME IInv, Served \/ Waited \/ Finish
  PROVE  IInv'
<1>1. UNCHANGED <<streamVars, copyVars, farClosed, userVars>>
  BY DEF Served, Waited, Finish, pipeVars
<1>2. TypeOK'
  <2>1. Counts'
    BY <1>1 DEF IInv, TypeOK, Served, Waited, Finish, Counts, streamVars, copyVars, userVars
  <2>2. Flags'
    BY <1>1 DEF IInv, TypeOK, Served, Waited, Finish, Flags, streamVars, copyVars, pipeVars
  <2>3. States'
    BY <1>1 DEF IInv, TypeOK, Served, Waited, Finish, States, streamVars, copyVars, userVars
  <2> QED
    BY <2>1, <2>2, <2>3 DEF TypeOK
<1>3. ChunksInOrder' /\ FailInOrder'
  BY <1>1 DEF IInv, streamVars, copyVars, userVars, ChunksInOrder, FailInOrder
<1>4. EndingHasReason'
  <2>1. AllRead' = AllRead /\ Ending' = Ending /\ (nearClosed => nearClosed')
    BY <1>1 DEF AllRead, Ending, streamVars, copyVars, userVars, Served, Waited, Finish, pipeVars
  <2> QED
    BY <1>1, <2>1 DEF IInv, EndingHasReason, copyVars, userVars
<1>5. StoppedKnows'
  BY <1>1 DEF IInv, StoppedKnows, CopiesStopped, Both, Served, Waited, Finish, streamVars,
     copyVars,
     userVars
<1> QED
  BY <1>2, <1>3, <1>4, <1>5 DEF IInv

LEMMA NextIInv == IInv /\ [Next]_vars => IInv'
<1> SUFFICES ASSUME IInv, [Next]_vars PROVE IInv'
  OBVIOUS
<1>1. CASE Peer
  BY <1>1, PeerKeeps
<1>2. CASE CopyIn
  BY <1>2, InKeeps, FailKeeps DEF CopyIn, Both
<1>3. CASE CopyOut \/ Write
  BY <1>3, OutKeeps, FailKeeps DEF CopyOut, Both
<1>4. CASE User
  BY <1>4, UserKeeps, ToldKeeps DEF User
<1>5. CASE Served \/ Waited \/ Finish
  BY <1>5, HandlerKeeps
<1>6. CASE UNCHANGED vars
  <2>1. TypeOK'
    BY <1>6 DEF vars, streamVars, copyVars, pipeVars, userVars, IInv, TypeOK, Counts, Flags,
       States
  <2>2. ChunksInOrder' /\ FailInOrder'
    BY <1>6 DEF vars, streamVars, copyVars, userVars, IInv, ChunksInOrder, FailInOrder
  <2>3. EndingHasReason' /\ StoppedKnows'
    BY <1>6 DEF vars, streamVars, copyVars, pipeVars, userVars, IInv, Ending, EndingHasReason,
       AllRead,
       StoppedKnows, CopiesStopped
  <2> QED
    BY <2>1, <2>2, <2>3 DEF IInv
<1> QED
  BY <1>1, <1>2, <1>3, <1>4, <1>5, <1>6 DEF Next

\* The conjunction the theorems below rest on holds in every reachable state.
THEOREM Invariant == Spec => []IInv
BY InitIInv, NextIInv, PTL DEF Spec

\* For the conn's user: io.EOF only after all of a peer that ended cleanly, and
\* a failure published before far is closed is always the one it is told.
THEOREM NoFalseEof == Spec => []EofMeansAll
<1>1. IInv => EofMeansAll
  BY DEF IInv, EndingHasReason, AllRead, EofMeansAll
<1> QED
  BY <1>1, Invariant, PTL

\* For the peer: a stream ends cleanly only with every chunk written to the conn
\* delivered, as serve waits for the copies before Finish looks at aborted.
THEOREM NoFalseEnd == Spec => []EndMeansAll
<1>1. IInv => EndMeansAll
  BY DEF IInv, StoppedKnows, EndMeansAll
<1> QED
  BY <1>1, Invariant, PTL
=============================================================================
