------------------------ MODULE RemoteConfig_proofs -------------------------
(***************************************************************************)
(* Proofs about redact.RemoteLoader for any documents and objects, with    *)
(* and without required signatures, any skew and any number of restarts.   *)
(***************************************************************************)
EXTENDS RemoteConfig, TLAPS

\* What the loader caches is one object, and there is one once it has loaded.
CacheIsOneObject ==
    /\ loaded => hash # None
    /\ ~loaded => success = None
    /\ etag # None => loaded /\ etag = hash

\* Nothing is loaded before the first poll succeeds, and that is when the
\* connector comes up.
NothingLoadedYet == proc = "starting" => ~loaded

StartedIsPast == started <= clock

\* The inductive invariant.
IInv ==
    /\ TypeOK /\ TunnelsNeedRules /\ CacheIsApplied /\ SuccessIsCurrent /\ ReplayBounded
    /\ CacheIsOneObject /\ NothingLoadedYet /\ StartedIsPast

USE DEF cache, applied, procVars

LEMMA InitIInv == Init => IInv
<1> SUFFICES ASSUME Init PROVE IInv
  OBVIOUS
<1>1. TypeOK
  BY DEF Init, TypeOK, NoAnswer, Answer, Answers
<1> QED
  BY <1>1 DEF Init, IInv, TunnelsNeedRules, CacheIsApplied, SuccessIsCurrent, ReplayBounded,
     CacheIsOneObject, NothingLoadedYet, StartedIsPast

\* An object's fields have their types, and its document is not None.
LEMMA ObjectFields ==
  ASSUME NEW o \in Objects
  PROVE  /\ o.doc \in Docs /\ o.doc # None /\ o # None
         /\ o.version \in Nat /\ o.iat \in Nat /\ o.exp \in Nat
BY ObjectsAssumption, DocsAssumption

\* Every answer the endpoint gives, and the lack of one, is an answer.
LEMMA AnswerTyped ==
  /\ NoAnswer \in Answers
  /\ \A o \in Objects \cup {None}, tagged \in BOOLEAN, s \in {"ok", "not modified", "failed"} :
        Answer(s, o, tagged) \in Answers
BY DEF NoAnswer, Answer, Answers

\* Steps that change neither the loader nor its rules.
LEMMA QuietStep ==
  ASSUME IInv, UNCHANGED <<cache, applied, rules, success, source, started, restarts>>,
         clock' \in Nat, clock <= clock', answer' \in Answers,
         proc' = proc \/ proc' = "down" \/ (proc' = "up" /\ loaded)
  PROVE  IInv'
<1> USE DEF IInv
<1>1. TypeOK'
  BY DEF TypeOK
<1>2. (CacheIsApplied /\ SuccessIsCurrent /\ ReplayBounded /\ CacheIsOneObject)'
  BY DEF CacheIsApplied, SuccessIsCurrent, ReplayBounded, CacheIsOneObject
<1>3. TunnelsNeedRules'
  <2>1. loaded => rules # None
    BY ObjectFields DEF CacheIsApplied, CacheIsOneObject, TypeOK
  <2> QED
    BY <2>1 DEF TunnelsNeedRules
<1>4. (NothingLoadedYet /\ StartedIsPast)'
  BY DEF NothingLoadedYet, StartedIsPast, TypeOK
<1> QED
  BY <1>1, <1>2, <1>3, <1>4

\* The rules an accepted object leaves in force are its document: compiled
\* now, or when the object, or its document under another signature, was.
LEMMA AcceptedRules ==
  ASSUME IInv, NEW o \in Objects, Accept(o)
  PROVE  rules' = o.doc /\ rules' \in GoodDocs
<1>1. CASE Applies(o)
  BY <1>1 DEF Accept, Acceptable, Compiles
<1>2. CASE ~Applies(o)
  <2>1. rules' = rules
    BY <1>2 DEF Accept
  <2>2. loaded /\ rules = o.doc
    BY <1>2 DEF Applies, Changed, Resigned, IInv, CacheIsApplied
  <2>3. rules # None
    BY <2>2, ObjectFields
  <2> QED
    BY <2>1, <2>2, <2>3 DEF IInv, TypeOK
<1> QED
  BY <1>1, <1>2

LEMMA AcceptStep ==
  ASSUME IInv, NEW o \in Objects, Accept(o)
  PROVE  IInv'
<1>1. rules' = o.doc /\ rules' \in GoodDocs
  BY AcceptedRules
<1>2. /\ loaded' = TRUE /\ hash' = o /\ etag' \in {o, None}
      /\ success' = o.doc /\ answer' = NoAnswer /\ proc' = "up"
      /\ UNCHANGED <<clock, source, restarts, started>>
  BY DEF Accept, Succeeded
<1>3. TypeOK'
  <2>1. version' \in Nat /\ issued' \in Nat /\ document' \in Docs \cup {None}
    BY ObjectFields DEF Accept, IInv, TypeOK
  <2> QED
    BY <1>1, <1>2, <2>1, ObjectFields DEF IInv, TypeOK, NoAnswer, Answer, Answers
<1>4. (TunnelsNeedRules /\ SuccessIsCurrent /\ CacheIsOneObject /\ NothingLoadedYet /\ StartedIsPast)'
  BY <1>1, <1>2, ObjectFields
     DEF IInv, TunnelsNeedRules, SuccessIsCurrent, CacheIsOneObject, NothingLoadedYet, StartedIsPast
<1>5. CacheIsApplied'
  <2>1. CASE Changed(o) /\ RequireSignature
    BY <1>1, <1>2, <2>1 DEF Accept, CacheIsApplied
  <2>2. CASE ~(Changed(o) /\ RequireSignature)
    <3>1. UNCHANGED applied
      BY <2>2 DEF Accept
    <3>2. RequireSignature => loaded /\ hash = o
      BY <2>2 DEF Changed
    <3> QED
      BY <1>1, <1>2, <3>1, <3>2 DEF IInv, CacheIsApplied
  <2> QED
    BY <2>1, <2>2
<1>6. ReplayBounded'
  <2>1. CASE Changed(o) /\ RequireSignature
    <3>1. clock < o.exp + Skew
      BY <2>1 DEF Accept, Acceptable, Verified
    <3> QED
      BY <1>2, <3>1, ObjectFields, BoundAssumption DEF IInv, StartedIsPast, TypeOK, ReplayBounded
  <2>2. CASE ~(Changed(o) /\ RequireSignature)
    BY <1>2, <2>2 DEF Changed, IInv, ReplayBounded
  <2> QED
    BY <2>1, <2>2
<1> QED
  BY <1>3, <1>4, <1>5, <1>6 DEF IInv

\* A 304 leaves the rules, and says they are the object's the ETag named.
LEMMA NotModifiedStep ==
  ASSUME IInv, NotModified
  PROVE  IInv'
<1> USE DEF IInv
<1>1. /\ loaded /\ etag = hash /\ hash # None /\ success' = hash.doc
      /\ answer' = NoAnswer /\ proc' = "up"
      /\ UNCHANGED <<clock, source, restarts, started, cache, applied, rules>>
  BY DEF NotModified, Unmodified, Succeeded, CacheIsOneObject
<1>2. hash \in Objects /\ rules = hash.doc
  BY <1>1 DEF TypeOK, CacheIsApplied
<1>3. TypeOK'
  BY <1>1, <1>2, ObjectFields DEF TypeOK, NoAnswer, Answer, Answers
<1>4. (TunnelsNeedRules /\ CacheIsApplied /\ SuccessIsCurrent /\ ReplayBounded)'
  BY <1>1, <1>2, ObjectFields
     DEF TunnelsNeedRules, CacheIsApplied, SuccessIsCurrent, ReplayBounded
<1>5. (CacheIsOneObject /\ NothingLoadedYet /\ StartedIsPast)'
  BY <1>1 DEF CacheIsOneObject, NothingLoadedYet, StartedIsPast
<1> QED
  BY <1>3, <1>4, <1>5

LEMMA FallBackStep ==
  ASSUME IInv, FallBack
  PROVE  IInv'
<1> USE DEF IInv
<1>1. ~loaded /\ success = None
  BY DEF FallBack, NothingLoadedYet, CacheIsOneObject
<1>2. TypeOK'
  BY FileAssumption DEF FallBack, TypeOK, NoAnswer, Answer, Answers
<1>3. (TunnelsNeedRules /\ CacheIsApplied /\ SuccessIsCurrent /\ ReplayBounded)'
  BY <1>1 DEF FallBack, TunnelsNeedRules, CacheIsApplied, SuccessIsCurrent, ReplayBounded
<1>4. (CacheIsOneObject /\ NothingLoadedYet /\ StartedIsPast)'
  BY <1>1 DEF FallBack, CacheIsOneObject, NothingLoadedYet, StartedIsPast
<1> QED
  BY <1>2, <1>3, <1>4

LEMMA RestartStep ==
  ASSUME IInv, Restart
  PROVE  IInv'
<1>1. TypeOK'
  <2>1. answer' \in Answers
    BY AnswerTyped DEF Restart, Fresh
  <2>2. clock' \in Nat /\ started' \in Nat /\ restarts' \in Nat
    BY DEF IInv, TypeOK, Restart
  <2>3. /\ loaded' \in BOOLEAN /\ etag' = None /\ hash' = None
        /\ version' \in Nat /\ issued' \in Nat /\ document' = None
        /\ rules' = None /\ success' = None
    BY DEF Restart, Fresh
  <2>4. proc' = "starting" /\ source' = "remote"
    BY DEF Restart
  <2> QED
    BY <2>1, <2>2, <2>3, <2>4 DEF TypeOK
<1>2. (TunnelsNeedRules /\ CacheIsApplied /\ SuccessIsCurrent /\ ReplayBounded)'
  BY DEF Restart, Fresh, TunnelsNeedRules, CacheIsApplied, SuccessIsCurrent, ReplayBounded
<1>3. (CacheIsOneObject /\ NothingLoadedYet /\ StartedIsPast)'
  BY DEF IInv, TypeOK, Restart, Fresh, CacheIsOneObject, NothingLoadedYet, StartedIsPast
<1> QED
  BY <1>1, <1>2, <1>3 DEF IInv

LEMMA NextIInv == IInv /\ [Next]_vars => IInv'
<1> SUFFICES ASSUME IInv, [Next]_vars PROVE IInv'
  OBVIOUS
<1>0. clock \in Nat /\ answer \in Answers
  BY DEF IInv, TypeOK
<1>1. CASE Tick
  <2>1. clock' \in Nat /\ clock <= clock'
    BY <1>0, <1>1 DEF Tick
  <2> QED
    BY <1>0, <1>1, <2>1, QuietStep DEF Tick
<1>2. CASE \E o \in Objects : Poll(o)
  <2>1. answer' \in Answers
    BY <1>2, AnswerTyped DEF Poll
  <2>2. UNCHANGED <<clock, procVars, cache, applied, rules, success>>
    BY <1>2 DEF Poll
  <2> QED
    BY <1>0, <2>1, <2>2, QuietStep
<1>3. CASE PollFails
  <2>1. answer' \in Answers
    BY <1>3, AnswerTyped DEF PollFails
  <2>2. UNCHANGED <<clock, procVars, cache, applied, rules, success>>
    BY <1>3 DEF PollFails
  <2> QED
    BY <1>0, <2>1, <2>2, QuietStep
<1>4. CASE NotModified
  BY <1>4, NotModifiedStep
<1>5. CASE Retain
  <2>1. answer' \in Answers
    BY <1>5 DEF Retain, NoAnswer, Answer, Answers
  <2> QED
    BY <1>0, <1>5, <2>1, QuietStep DEF Retain, CachedOnFailure
<1>6. CASE Exit
  <2>1. answer' \in Answers
    BY <1>6 DEF Exit, NoAnswer, Answer, Answers
  <2> QED
    BY <1>0, <1>6, <2>1, QuietStep DEF Exit
<1>7. CASE FallBack
  BY <1>7, FallBackStep
<1>8. CASE \E o \in Objects : Accept(o)
  BY <1>8, AcceptStep
<1>9. CASE Restart
  BY <1>9, RestartStep
<1>10. CASE UNCHANGED vars
  BY <1>0, <1>10, QuietStep DEF vars
<1> QED
  BY <1>1, <1>2, <1>3, <1>4, <1>5, <1>6, <1>7, <1>8, <1>9, <1>10 DEF Next, Handle

\* The inductive invariant holds; the rules in force always compiled.
THEOREM Invariant == Spec => []IInv
<1> QED
  BY InitIInv, NextIInv, PTL DEF Spec

\* Whatever the endpoint serves and whenever the process restarts, the tunnels
\* are up only with rules loaded.
THEOREM NeverUnredacted == Spec => []TunnelsNeedRules
<1>1. IInv => TunnelsNeedRules
  BY DEF IInv
<1> QED
  BY <1>1, Invariant, PTL

\* The hash and the signed version are those of the rules in force, and a poll
\* that counts as a success leaves the rules the endpoint held to.
THEOREM CacheIsTrue == Spec => [](CacheIsApplied /\ SuccessIsCurrent)
<1>1. IInv => CacheIsApplied /\ SuccessIsCurrent
  BY DEF IInv
<1> QED
  BY <1>1, Invariant, PTL

\* A restarted connector takes up no signed config that had expired.
THEOREM ReplayIsBounded == Spec => []ReplayBounded
<1>1. IInv => ReplayBounded
  BY DEF IInv
<1> QED
  BY <1>1, Invariant, PTL

\* A running process never replaces its signed config by an older one.
THEOREM NoRollback == Spec => NeverRollsBack
<1> DEFINE Forward ==
      RequireSignature /\ loaded /\ loaded' =>
          /\ version' >= version /\ issued' >= issued
          /\ rules' # rules => version' > version
<1>1. ASSUME IInv, Next PROVE Forward
  <2> SUFFICES ASSUME RequireSignature, loaded, loaded'
               PROVE  /\ version' >= version /\ issued' >= issued
                      /\ rules' # rules => version' > version
    OBVIOUS
  <2>1. version \in Nat /\ issued \in Nat
    BY <1>1 DEF IInv, TypeOK
  <2>2. CASE \E o \in Objects : Accept(o)
    <3> PICK o \in Objects : Accept(o)
      BY <2>2
    <3>1. CASE Changed(o)
      <4>1. NotOlder(o) /\ version' = o.version /\ issued' = o.iat
        BY <3>1 DEF Accept, Acceptable
      <4>2. Resigned(o) => rules' = rules /\ version' = version
        BY <4>1 DEF Accept, Applies, Resigned
      <4> QED
        BY <2>1, <4>1, <4>2, ObjectFields DEF NotOlder
    <3>2. CASE ~Changed(o)
      BY <2>1, <3>2 DEF Accept, Applies
    <3> QED
      BY <3>1, <3>2
  <2>3. CASE Tick \/ PollFails \/ NotModified \/ Retain \/ Exit \/ \E o \in Objects : Poll(o)
    <3>1. UNCHANGED <<applied, rules>>
      <4>1. CASE Tick \/ PollFails \/ \E o \in Objects : Poll(o)
        BY <4>1 DEF Tick, PollFails, Poll
      <4>2. CASE NotModified
        BY <4>2 DEF NotModified
      <4>3. CASE Retain \/ Exit
        BY <4>3 DEF Retain, CachedOnFailure, Exit
      <4> QED
        BY <2>3, <4>1, <4>2, <4>3
    <3> QED
      BY <2>1, <3>1
  <2>4. CASE FallBack
    BY <1>1, <2>4 DEF FallBack, IInv, NothingLoadedYet
  <2>5. CASE Restart
    BY <2>5 DEF Restart, Fresh
  <2> QED
    BY <1>1, <2>2, <2>3, <2>4, <2>5 DEF Next, Handle
<1>2. IInv /\ [Next]_vars => [Forward]_vars
  BY <1>1
<1> QED
  BY <1>2, Invariant, PTL DEF Spec, NeverRollsBack
=============================================================================
