------------------------------ MODULE StreamConn ------------------------------
(***************************************************************************)
(* halfconn.StreamConn over a rawpipe.ServerStream, in the handler that    *)
(* serves it: a pipe's stream as a conn for TLS and HTTP.  Two goroutines  *)
(* copy between the stream and the far end of a net.Pipe whose near end is *)
(* the conn.  The peer sends, ends or resets the stream, the conn's user   *)
(* reads, writes and closes, and either copy fails, in any order.          *)
(*                                                                         *)
(* Bytes are counted in chunks, one to a Write.  A net.Pipe holds none: a  *)
(* write on one side returns once the other side has read it.              *)
(***************************************************************************)
EXTENDS Naturals

CONSTANTS
    InChunks,   \* the chunks the peer has to send
    OutChunks   \* the chunks the conn's user has to write

ASSUME ChunksAssumption == InChunks \in Nat /\ OutChunks \in Nat

VARIABLES
    sent,       \* chunks the peer has sent
    body,       \* what the request's body ends with once its chunks are read
    reset,      \* the peer has reset the stream, or the tunnel is gone
    ended,      \* ServerStream.ended
    aborted,    \* ServerStream.aborted
    taken,      \* chunks the copy from the stream has read
    written,    \* chunks the copy toward the stream has written
    copy,       \* where each copy is
    once,       \* StreamConn.failOnce: "free", the copy running it, or "done"
    failed,     \* StreamConn.failed is closed
    nearClosed, farClosed, \* the two ends of the net.Pipe
    got,        \* chunks the conn's user has read
    given,      \* chunks the conn's user has written
    reads,      \* what the user's reads came to
    writes,     \* what the user's writes came to
    handler     \* where serve is: serving, in Wait, or over, as its peer sees it

streamVars == <<sent, body, reset, ended, aborted>>
copyVars == <<taken, written, copy, once, failed>>
pipeVars == <<nearClosed, farClosed>>
userVars == <<got, given, reads, writes>>
vars == <<streamVars, copyVars, pipeVars, userVars, handler>>

Both == {"in", "out"}
Failing == {"fail", "abort", "closefar"}
Ends == {"open", "raw eof", "raw closed", "eof", "closed", "failure"}

Counts ==
    /\ sent \in 0..InChunks /\ taken \in 0..InChunks /\ got \in 0..InChunks
    /\ given \in 0..OutChunks /\ written \in 0..OutChunks

Flags ==
    /\ reset \in BOOLEAN /\ ended \in BOOLEAN /\ aborted \in BOOLEAN
    /\ failed \in BOOLEAN /\ nearClosed \in BOOLEAN /\ farClosed \in BOOLEAN

States ==
    /\ body \in {"open", "eof", "deadline", "reset"}
    /\ copy \in [Both -> {"read", "body", "write", "close", "check", "end", "stopped"} \cup Failing]
    /\ once \in Both \cup {"free", "done"}
    /\ reads \in Ends /\ writes \in Ends
    /\ handler \in {"serving", "wait", "finish", "ended", "reset"}

TypeOK == Counts /\ Flags /\ States

Init ==
    /\ sent = 0 /\ taken = 0 /\ got = 0 /\ given = 0 /\ written = 0
    /\ body = "open"
    /\ reset = FALSE /\ ended = FALSE /\ aborted = FALSE
    /\ copy = [x \in Both |-> "read"]
    /\ once = "free"
    /\ failed = FALSE
    /\ nearClosed = FALSE /\ farClosed = FALSE
    /\ reads = "open" /\ writes = "open"
    /\ handler = "serving"

Goto(x, where) == copy' = [copy EXCEPT ![x] = where]

\* What ends the body first is what its reader finds after the last chunk.
BodyEnds(with) == body' = IF body = "open" THEN with ELSE body
-----------------------------------------------------------------------------
\* The peer sends a chunk, ends its side cleanly, or resets the stream.
PeerSends ==
    /\ body = "open"
    /\ sent < InChunks
    /\ sent' = sent + 1
    /\ UNCHANGED <<body, reset, ended, aborted, copyVars, pipeVars, userVars, handler>>

PeerEnds ==
    /\ body = "open"
    /\ body' = "eof"
    /\ UNCHANGED <<sent, reset, ended, aborted, copyVars, pipeVars, userVars, handler>>

PeerResets ==
    /\ ~reset
    /\ handler \notin {"ended", "reset"}
    /\ reset' = TRUE
    /\ BodyEnds("reset")
    /\ UNCHANGED <<sent, ended, aborted, copyVars, pipeVars, userVars, handler>>
-----------------------------------------------------------------------------
\* ServerStream.Read looks at ended, and then reads the body.
LookEnded ==
    /\ copy["in"] = "read"
    /\ Goto("in", IF ended THEN "close" ELSE "body")
    /\ UNCHANGED <<streamVars, taken, written, once, failed, pipeVars, userVars, handler>>

Take ==
    /\ copy["in"] = "body"
    /\ taken < sent
    /\ taken' = taken + 1
    /\ Goto("in", "write")
    /\ UNCHANGED <<streamVars, written, once, failed, pipeVars, userVars, handler>>

\* The body's error is a clean end once the stream has ended and was not aborted.
CleanEnd == body = "eof" \/ (ended /\ ~aborted)

BodyOver ==
    /\ copy["in"] = "body"
    /\ taken = sent
    /\ body # "open"
    /\ Goto("in", IF CleanEnd THEN "close" ELSE "fail")
    /\ UNCHANGED <<streamVars, taken, written, once, failed, pipeVars, userVars, handler>>

\* A write to far fails, as either end is closed: the chunk is dropped.
FarRefuses ==
    /\ copy["in"] = "write"
    /\ nearClosed \/ farClosed
    /\ Goto("in", "close")
    /\ UNCHANGED <<streamVars, taken, written, once, failed, pipeVars, userVars, handler>>

\* The copy from the stream closes far however it ended.
CloseFar ==
    /\ copy["in"] = "close"
    /\ farClosed' = TRUE
    /\ Goto("in", "stopped")
    /\ UNCHANGED <<streamVars, taken, written, once, failed, nearClosed, userVars, handler>>

\* far's read ends: the conn is closed, or far is.
FarEnds ==
    /\ copy["out"] = "read"
    /\ nearClosed \/ farClosed
    /\ Goto("out", "check")
    /\ UNCHANGED <<streamVars, taken, written, once, failed, pipeVars, userVars, handler>>

\* The copy toward the stream ends it, unless it has failed.
CheckFailure ==
    /\ copy["out"] = "check"
    /\ Goto("out", IF failed THEN "stopped" ELSE "end")
    /\ UNCHANGED <<streamVars, taken, written, once, failed, pipeVars, userVars, handler>>

\* The mutated form of CloseWrite: the peer is still read.
CloseWrite_ReadsOn == UNCHANGED <<ended, body>>

\* ServerStream.CloseWrite: a deadline in the past ends the body.
CloseWrite == ended' = TRUE /\ BodyEnds("deadline")

EndStream ==
    /\ copy["out"] = "end"
    /\ CloseWrite
    /\ Goto("out", "stopped")
    /\ UNCHANGED <<sent, reset, aborted, taken, written, once, failed, pipeVars, userVars, handler>>

\* A chunk reaches the peer, which has read what came before.
Write ==
    /\ copy["out"] = "write"
    /\ ~aborted /\ ~reset
    /\ written' = written + 1
    /\ Goto("out", "read")
    /\ UNCHANGED <<streamVars, taken, once, failed, pipeVars, userVars, handler>>

\* The mutated form of Unwritable: a reset does not wake a write.
Unwritable_Abort == aborted

\* The stream is gone, or its write deadline is past.
Unwritable == aborted \/ reset

WriteFails ==
    /\ copy["out"] = "write"
    /\ Unwritable
    /\ Goto("out", "fail")
    /\ UNCHANGED <<streamVars, taken, written, once, failed, pipeVars, userVars, handler>>
-----------------------------------------------------------------------------
\* Where a copy goes once it has failed: the one still closes far.
AfterFail(x) == IF x = "in" THEN "close" ELSE "stopped"

\* fail, which runs once: the error is published, then the stream aborted,
\* then far closed.  A second failure waits for the first.
Publish(x) ==
    /\ copy[x] = "fail"
    /\ once = "free"
    /\ once' = x
    /\ failed' = TRUE
    /\ Goto(x, "abort")
    /\ UNCHANGED <<streamVars, taken, written, pipeVars, userVars, handler>>

AlreadyFailed(x) ==
    /\ copy[x] = "fail"
    /\ once = "done"
    /\ Goto(x, AfterFail(x))
    /\ UNCHANGED <<streamVars, taken, written, once, failed, pipeVars, userVars, handler>>

\* ServerStream.Abort: deadlines in the past unblock a read or write.
Abort(x) ==
    /\ copy[x] = "abort"
    /\ aborted' = TRUE
    /\ BodyEnds("deadline")
    /\ Goto(x, "closefar")
    /\ UNCHANGED <<sent, reset, ended, taken, written, once, failed, pipeVars, userVars, handler>>

FarAfterFail == TRUE

FailClosesFar(x) ==
    /\ copy[x] = "closefar"
    /\ farClosed' = FarAfterFail
    /\ once' = "done"
    /\ Goto(x, AfterFail(x))
    /\ UNCHANGED <<streamVars, taken, written, failed, nearClosed, userVars, handler>>
-----------------------------------------------------------------------------
\* The user's read and the copy's write meet; its write and the copy's read.
UserReads ==
    /\ reads = "open" /\ ~nearClosed /\ ~farClosed
    /\ copy["in"] = "write"
    /\ got' = got + 1
    /\ Goto("in", "read")
    /\ UNCHANGED <<streamVars, taken, written, once, failed, pipeVars, given, reads, writes, handler>>

UserWrites ==
    /\ writes = "open" /\ ~nearClosed /\ ~farClosed
    /\ copy["out"] = "read"
    /\ given < OutChunks
    /\ given' = given + 1
    /\ Goto("out", "write")
    /\ UNCHANGED <<streamVars, taken, written, once, failed, pipeVars, got, reads, writes, handler>>

\* What the net.Pipe says of a conn closed at this end, or at the far one.
UserReadEnds ==
    /\ reads = "open"
    /\ nearClosed \/ farClosed
    /\ reads' = IF nearClosed THEN "raw closed" ELSE "raw eof"
    /\ UNCHANGED <<streamVars, copyVars, pipeVars, got, given, writes, handler>>

UserWriteEnds ==
    /\ writes = "open"
    /\ nearClosed \/ farClosed
    /\ writes' = "raw closed"
    /\ UNCHANGED <<streamVars, copyVars, pipeVars, got, given, reads, handler>>

\* The mutated form of OrFailure: the net.Pipe's error as it is.
OrFailure_Raw(raw) == IF raw = "raw eof" THEN "eof" ELSE "closed"

\* orFailure: a failure of the stream, once published, is what is reported.
OrFailure(raw) ==
    IF failed THEN "failure" ELSE IF raw = "raw eof" THEN "eof" ELSE "closed"

UserReadTold ==
    /\ reads \in {"raw eof", "raw closed"}
    /\ reads' = OrFailure(reads)
    /\ UNCHANGED <<streamVars, copyVars, pipeVars, got, given, writes, handler>>

UserWriteTold ==
    /\ writes = "raw closed"
    /\ writes' = OrFailure(writes)
    /\ UNCHANGED <<streamVars, copyVars, pipeVars, got, given, reads, handler>>

\* TLS closes the conn: the user is done, or the pipe's context is.
UserCloses ==
    /\ ~nearClosed
    /\ nearClosed' = TRUE
    /\ UNCHANGED <<streamVars, copyVars, farClosed, userVars, handler>>
-----------------------------------------------------------------------------
\* servePipe has returned: serve closes the conn and waits for the copies.
Served ==
    /\ handler = "serving"
    /\ nearClosed' = TRUE
    /\ handler' = "wait"
    /\ UNCHANGED <<streamVars, copyVars, farClosed, userVars>>

\* The mutated form of CopiesStopped: Wait does not wait.
CopiesStopped_AtOnce == TRUE

CopiesStopped == \A x \in Both : copy[x] = "stopped"

Waited ==
    /\ handler = "wait"
    /\ CopiesStopped
    /\ handler' = "finish"
    /\ UNCHANGED <<streamVars, copyVars, pipeVars, userVars>>

\* Finish resets an aborted stream; otherwise the handler's return ends it.
Finish ==
    /\ handler = "finish"
    /\ handler' = IF aborted THEN "reset" ELSE "ended"
    /\ UNCHANGED <<streamVars, copyVars, pipeVars, userVars>>

Fail(x) == Publish(x) \/ AlreadyFailed(x) \/ Abort(x) \/ FailClosesFar(x)
CopyIn == LookEnded \/ Take \/ BodyOver \/ FarRefuses \/ CloseFar \/ Fail("in")
CopyOut == FarEnds \/ CheckFailure \/ EndStream \/ WriteFails \/ Fail("out")
Peer == PeerSends \/ PeerEnds \/ PeerResets
User == \/ UserReads \/ UserWrites \/ UserReadEnds \/ UserWriteEnds
        \/ UserReadTold \/ UserWriteTold \/ UserCloses

Next == Peer \/ CopyIn \/ CopyOut \/ Write \/ User \/ Served \/ Waited \/ Finish

Spec == Init /\ [][Next]_vars

\* The copies and the handler's tail run whenever they can.  The peer owes
\* nothing, and neither does the conn's user.
LiveSpec == Spec /\ WF_vars(CopyIn) /\ WF_vars(CopyOut) /\ WF_vars(Waited \/ Finish)

\* The peer reads what it is sent.
PeerReads == WF_vars(Write)
-----------------------------------------------------------------------------
Over == handler \in {"ended", "reset"}

\* A failure is never mistaken for an end by the conn's user: a read ends with
\* io.EOF only after everything of a peer that ended cleanly, and a read or a
\* write is told the conn is closed only if its user closed it or the peer ended.
EofMeansAll ==
    /\ reads = "eof" => body = "eof" /\ got = sent
    /\ "closed" \in {reads, writes} => nearClosed \/ body = "eof"

\* Nor by the peer: a stream that ends cleanly has carried every chunk the user
\* wrote.
EndMeansAll == handler = "ended" => written = given

\* Wait returns once the conn is closed, if the peer reads; it need not send,
\* or end.
WaitReturns == PeerReads => (handler = "wait" ~> Over)

\* A reset, or a tunnel gone, ends the handler whatever its peer was doing; and
\* "a failure stops both, as Abort unblocks e": neither copy outlives a failure,
\* though the conn's user never reads, writes or closes.
FailuresEnd == ((handler = "wait" /\ reset) ~> Over) /\ (failed ~> CopiesStopped)
=============================================================================
