---------------------------- MODULE RemoteConfig ----------------------------
(***************************************************************************)
(* redact.RemoteLoader with signedconfig.Verify, and main's startRedaction *)
(* around it: the first fetch that decides whether the connector starts,   *)
(* the polls that follow, and restarts, which forget everything.           *)
(*                                                                         *)
(* The endpoint may answer any poll with any object ever published, or one *)
(* nobody signed: an older version, the same version with another document *)
(* or another signature, a document that does not parse.  An object stands *)
(* for its bytes, so it is its own hash, and its own ETag when the endpoint *)
(* sends one.  `signed' is everything signedconfig.Verify checks but the   *)
(* validity window: the key, the audience, the connector and the digest.   *)
(* Polls are one at a time; an answer may be as old as its handling is     *)
(* late.                                                                   *)
(***************************************************************************)
EXTENDS Integers

CONSTANTS
    Docs,             \* documents an object can carry
    GoodDocs,         \* those that parse and compile
    Objects,          \* the objects the endpoint may serve
    None,             \* no object, no rules
    RequireSignature, \* RemoteLoader.RequireSignature was called
    FileRules,        \* the rules of REDACTION_RULES_FILE; None if not set
    Skew,             \* signedconfig.MaxClockSkew
    MaxClock,         \* the bound on the clock
    MaxRestarts       \* the bound on restarts

ASSUME DocsAssumption == GoodDocs \subseteq Docs /\ None \notin Docs
ASSUME ObjectsAssumption ==
    /\ Objects \subseteq [doc : Docs, version : Nat, iat : Nat, exp : Nat, signed : BOOLEAN]
    /\ None \notin Objects
ASSUME FileAssumption == FileRules \in GoodDocs \cup {None}
ASSUME FlagAssumption == RequireSignature \in BOOLEAN
ASSUME BoundAssumption == Skew \in Nat /\ MaxClock \in Nat /\ MaxRestarts \in Nat

VARIABLES
    clock,
    proc,       \* the connector: down, in LoadInitial, or up with its tunnels
    source,     \* where its rules come from: the endpoint or the local file
    restarts,
    started,    \* the time this process started
    answer,     \* the answer to the poll under way; NoAnswer if none is
    loaded, etag, hash,         \* RemoteLoader's cache
    version, issued, document,  \* the signed config applied
    rules,      \* the document compiled into the Redactor
    success     \* the document the endpoint held to at the last success
                \* (remoteStatus.lastSuccess)

cache == <<loaded, etag, hash>>
applied == <<version, issued, document>>
procVars == <<proc, source, restarts, started>>
vars == <<clock, procVars, answer, cache, applied, rules, success>>

Answer(status, object, tagged) == [status |-> status, object |-> object, tagged |-> tagged]
NoAnswer == Answer("none", None, FALSE)
Answers ==
    [status : {"none", "ok", "not modified", "failed"}, object : Objects \cup {None}, tagged : BOOLEAN]

TypeOK ==
    /\ clock \in Nat
    /\ proc \in {"down", "starting", "up"}
    /\ source \in {"remote", "file"}
    /\ restarts \in Nat
    /\ started \in Nat
    /\ answer \in Answers
    /\ loaded \in BOOLEAN
    /\ etag \in Objects \cup {None}
    /\ hash \in Objects \cup {None}
    /\ version \in Nat
    /\ issued \in Nat
    /\ document \in Docs \cup {None}
    /\ rules \in GoodDocs \cup {None}
    /\ success \in Docs \cup {None}

\* What a process holds as it starts.
Fresh ==
    /\ answer' = NoAnswer
    /\ loaded' = FALSE /\ etag' = None /\ hash' = None
    /\ version' = 0 /\ issued' = 0 /\ document' = None
    /\ rules' = None
    /\ success' = None

Init ==
    /\ clock = 0
    /\ proc = "starting"
    /\ source = "remote"
    /\ restarts = 0
    /\ started = 0
    /\ answer = NoAnswer
    /\ loaded = FALSE /\ etag = None /\ hash = None
    /\ version = 0 /\ issued = 0 /\ document = None
    /\ rules = None
    /\ success = None

Tick ==
    /\ clock < MaxClock
    /\ clock' = clock + 1
    /\ UNCHANGED <<procVars, answer, cache, applied, rules, success>>
-----------------------------------------------------------------------------
Polling == proc = "starting" \/ (proc = "up" /\ source = "remote")

\* The endpoint answers a poll with o, or says the object the loader named in
\* If-None-Match still stands.
Poll(o) ==
    /\ Polling /\ answer = NoAnswer
    /\ \E tagged \in BOOLEAN :
          answer' = IF etag = o THEN Answer("not modified", None, FALSE)
                                ELSE Answer("ok", o, tagged)
    /\ UNCHANGED <<clock, procVars, cache, applied, rules, success>>

\* The endpoint errs: a 404, another status, no answer or half of one; or a
\* 304 to a request that named no object.
PollFails ==
    /\ Polling /\ answer = NoAnswer
    /\ \/ answer' = Answer("failed", None, FALSE)
       \/ /\ etag = None
          /\ answer' = Answer("not modified", None, FALSE)
    /\ UNCHANGED <<clock, procVars, cache, applied, rules, success>>

\* The mutated form of Verified: a config is valid from its iat on.
Verified_NoExpiry(o, t) == o.signed /\ o.iat <= t + Skew

\* signedconfig.Verify at time t.
Verified(o, t) == o.signed /\ o.iat <= t + Skew /\ t < o.exp + Skew

\* The object served is not the one last accepted.
Changed(o) == ~loaded \/ hash # o

\* The applied document again, at its own version.
Resigned(o) == loaded /\ o.version = version /\ o.doc = document

\* The mutated forms of NotOlder: a config must be issued later than the one
\* applied; a document may replace another at its version.
NotOlder_IssuedLater(o) ==
    loaded => /\ o.iat > issued
              /\ Resigned(o) \/ o.version > version
NotOlder_SameVersion(o) ==
    loaded => /\ o.iat >= issued
              /\ o.version >= version

\* Not issued before the config applied, and at a higher version.
NotOlder(o) ==
    loaded => /\ o.iat >= issued
              /\ Resigned(o) \/ o.version > version

\* The rules change: not for the object or the signed document already applied.
Applies(o) == Changed(o) /\ ~(RequireSignature /\ Resigned(o))

\* ParseConfig and Redactor.Update take the document, whole.
Compiles(o) == o.doc \in GoodDocs

Acceptable(o) ==
    /\ (Changed(o) /\ RequireSignature) => (Verified(o, clock) /\ NotOlder(o))
    /\ Applies(o) => Compiles(o)

\* A poll that succeeded: LoadInitial returns nil, and the tunnels start.
Succeeded(doc) ==
    /\ success' = doc
    /\ answer' = NoAnswer
    /\ proc' = "up"
    /\ UNCHANGED <<clock, source, restarts, started>>

\* refresh, on a 200 it accepts.  The object is cached only once its rules are
\* applied.
Accept(o) ==
    /\ answer.status = "ok" /\ answer.object = o
    /\ Acceptable(o)
    /\ rules' = IF Applies(o) THEN o.doc ELSE rules
    /\ loaded' = TRUE
    /\ hash' = o
    /\ etag' = IF answer.tagged THEN o ELSE None
    /\ IF Changed(o) /\ RequireSignature
       THEN version' = o.version /\ issued' = o.iat /\ document' = o.doc
       ELSE UNCHANGED applied
    /\ Succeeded(o.doc)

\* The mutated form of Unmodified: any 304 will do.
Unmodified_Always == TRUE

\* refresh, on a 304: it needs something to be unmodified.
Unmodified == loaded /\ etag # None

NotModified ==
    /\ answer.status = "not modified"
    /\ Unmodified
    /\ Succeeded(IF etag = None THEN None ELSE etag.doc)
    /\ UNCHANGED <<cache, applied, rules>>

Refused ==
    \/ answer.status = "failed"
    \/ (answer.status = "not modified" /\ ~Unmodified)
    \/ (answer.status = "ok" /\ ~Acceptable(answer.object))

\* The mutated form of CachedOnFailure: the ETag is kept before the config is
\* known to be good.
CachedOnFailure_Etag ==
    /\ etag' = IF answer.status = "ok" /\ answer.tagged THEN answer.object ELSE etag
    /\ UNCHANGED <<loaded, hash, applied>>

\* What a failed poll leaves in the loader: what was there.
CachedOnFailure == UNCHANGED <<cache, applied>>

\* A later poll fails: the last-known-good rules stay.
Retain ==
    /\ proc = "up" /\ Refused
    /\ answer' = NoAnswer
    /\ CachedOnFailure
    /\ UNCHANGED <<clock, procVars, rules, success>>

\* The first fetch fails and there is no file, or it does not load: the
\* connector does not start.
Exit ==
    /\ proc = "starting" /\ Refused
    /\ proc' = "down"
    /\ answer' = NoAnswer
    /\ UNCHANGED <<clock, source, restarts, started, cache, applied, rules, success>>

\* The first fetch fails and the local file is set: its rules are used, and
\* the endpoint is not polled again.
FallBack ==
    /\ proc = "starting" /\ Refused
    /\ FileRules # None
    /\ rules' = FileRules
    /\ source' = "file"
    /\ proc' = "up"
    /\ answer' = NoAnswer
    /\ UNCHANGED <<clock, restarts, started, cache, applied, success>>

\* The process ends, or is ended, at any point, and is started again.
Restart ==
    /\ restarts < MaxRestarts
    /\ restarts' = restarts + 1
    /\ proc' = "starting"
    /\ source' = "remote"
    /\ started' = clock
    /\ Fresh
    /\ UNCHANGED clock

Handle == NotModified \/ Retain \/ Exit \/ FallBack \/ \E o \in Objects : Accept(o)

Next == Tick \/ PollFails \/ Handle \/ Restart \/ \E o \in Objects : Poll(o)

Spec == Init /\ [][Next]_vars

\* An object that stays valid for as long as the clock runs and is newer than
\* every other that is signed.
Newest ==
    {o \in Objects :
        /\ o.signed /\ o.doc \in GoodDocs
        /\ o.exp + Skew > MaxClock
        /\ \A q \in Objects \ {o} : q.signed => q.version < o.version /\ q.iat <= o.iat}

\* The clock runs, answers are handled, and however often the endpoint answers
\* with others, it keeps answering with the newest object too.
LiveSpec ==
    /\ Spec
    /\ WF_vars(Tick)
    /\ WF_vars(Handle)
    /\ \A o \in Newest : SF_vars(Poll(o))
-----------------------------------------------------------------------------
\* The tunnels of a connector started with remote redaction open only once
\* rules are loaded: it never forwards unredacted because a fetch failed.
TunnelsNeedRules == proc = "up" => rules # None

\* The identity the loader caches is the rules': whatever failed in between,
\* the hash and the signed version are those of the document compiled last.
CacheIsApplied ==
    loaded => /\ rules = hash.doc
              /\ RequireSignature =>
                     version = hash.version /\ issued = hash.iat /\ document = hash.doc

\* The staleness metric tells the truth: after a poll that counts as a success
\* the rules are the document the endpoint then held to.
SuccessIsCurrent == success # None => rules = success

\* A process never takes up a signed config that had expired when it started,
\* whatever an earlier process held: that is what bounds a replay.
ReplayBounded == RequireSignature /\ loaded => started < hash.exp + Skew

\* While a process runs, its rules change only to a higher version issued no
\* earlier, and what it holds never goes back.
NeverRollsBack ==
    [][RequireSignature /\ loaded /\ loaded' =>
          /\ version' >= version /\ issued' >= issued
          /\ rules' # rules => version' > version]_vars

\* No answer, forged, broken, expired or old, keeps a later good config from
\* being applied, and once the newest is in force it stays.
NewestIsApplied ==
    \A o \in Newest : <>[](proc = "down" \/ source = "file" \/ rules = o.doc)

\* README: a connector set to remote rules does not fall back to the file.
NoFallback == source = "remote"
=============================================================================
