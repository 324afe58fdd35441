--------------------------- MODULE CapabilityTrust ---------------------------
(***************************************************************************)
(* capability.Verifier with what it trusts: pinned keys, roots that        *)
(* certify each environment's key, or both while connectors move from the  *)
(* one to the other, over the capabilities that environments' signers      *)
(* issue.  Its opens are those of CapabilityOpens, with Accept and Reject   *)
(* decided here.                                                           *)
(*                                                                         *)
(* A key is [env, kid]: two environments may name their keys alike.  A     *)
(* capability is its JWS header and claims, each with the keys of its JSON *)
(* object, the key that signed it and what it claims.  When it was issued  *)
(* is the signer's clock, which is within Skew of the verifier's.           *)
(***************************************************************************)
EXTENDS CapabilityOpens

CONSTANTS
    Home,           \* the environment of the verifier's controller host
    Self,           \* the verifier's connector
    Target,         \* the host and port the pipes are opened to
    Tokens,         \* what each capability may be
    Trusts,         \* the VerifierConfigs of Home's connectors
    None,           \* no x5c, no issuer
    Issued,         \* when each capability is issued
    Skew,           \* maxClockSkew
    MaxLifetime     \* MaxLifetime

ASSUME IssuedAssumption == Issued \in [Jtis -> Nat \ {0}]
ASSUME SkewAssumption == Skew \in Nat
ASSUME DatesAssumption ==
    \A t \in UNION {Tokens[j] : j \in Jtis} : t.x5c # None => {t.x5c.from, t.x5c.to} \subseteq Int

\* Traversal's roots certify an environment's key for that environment's
\* controller host and issuer alone, and a connector is installed with its
\* environment's keys.
ASSUME CertifiedAssumption ==
    /\ \A t \in UNION {Tokens[j] : j \in Jtis} :
        t.x5c # None /\ Home \in t.x5c.hosts =>
            t.x5c.key.env = Home /\ t.x5c.issuers \subseteq {Home}
    /\ \A v \in Trusts : \A kid \in DOMAIN v.pinned : v.pinned[kid].env = Home

\* An environment does not name two keys alike.
Key(env, kid) == [env |-> env, kid |-> kid]

\* Home's connectors are installed with the issuer it has, if with any, and its
\* keys by their names.
ASSUME InstalledAssumption ==
    \A v \in Trusts :
        /\ v.issuer \in {None, Home}
        /\ \A kid \in DOMAIN v.pinned : v.pinned[kid] = Key(Home, kid)

VARIABLES
    token,  \* the capability of each jti
    trust   \* the Verifier's configuration

trustVars == <<token, trust>>
-----------------------------------------------------------------------------
\* The mutated form of Decodes: what is not known is never ignored.
Decodes_Strict(segment, required, optional, ignoreUnknown) ==
    ~segment.repeated /\ required \subseteq segment.keys /\ segment.keys \subseteq required \cup optional

\* decodeSegment: no key is repeated, by case or otherwise, every required one
\* is there, and others only where they are ignored.
Decodes(segment, required, optional, ignoreUnknown) ==
    /\ ~segment.repeated
    /\ required \subseteq segment.keys
    /\ ignoreUnknown \/ segment.keys \subseteq required \cup optional

HeaderKeys == {"alg", "typ", "kid"}
ClaimKeys ==
    {"iss", "aud", "sub", "organization_id", "integration_id", "connector_id", "consumer_id",
     "session_id", "host", "port", "jti", "iat", "exp"}

\* jws.Parse, of a capability: x5c is allowed.
Parses(t) == Decodes(t.header, HeaderKeys, {"x5c"}, FALSE) /\ t.typ = "capability"

\* The mutated form of CheckEnvironmentCertificate: for any controller host.
CheckEnvironmentCertificate_AnyHost(c, roots, host, at) ==
    c.root \in roots /\ c.from <= at /\ at <= c.to /\ c.profile /\ Cardinality(c.issuers) = 1

\* CheckEnvironmentCertificate: c chains to one of roots, in date and for the
\* controller host, is a signing leaf with a P-256 key (its profile) and names
\* one issuer.
CheckEnvironmentCertificate(c, roots, host, at) ==
    /\ c.root \in roots
    /\ c.from <= at /\ at <= c.to
    /\ host \in c.hosts
    /\ c.profile
    /\ Cardinality(c.issuers) = 1

\* The mutated form of SigningKeys: a verifier that has only keys refuses a
\* capability that carries a certificate.
SigningKeys_NoChainIgnored(v, t, at) ==
    IF t.x5c # None
    THEN {[key |-> t.x5c.key, issuer |-> e] :
             e \in {i \in t.x5c.issuers : CheckEnvironmentCertificate(t.x5c, v.roots, Home, at)}}
    ELSE {[key |-> v.pinned[k], issuer |-> v.issuer] : k \in {t.kid} \cap DOMAIN v.pinned}

\* Verifier.signingKey: the key that must have signed t with the issuer it must
\* name, if there is one.  The certificate decides where there are roots, and
\* a pinned key of its kid must be the one it certifies.
SigningKeys(v, t, at) ==
    IF t.x5c # None /\ v.roots # {}
    THEN {[key |-> t.x5c.key, issuer |-> e] :
             e \in {i \in t.x5c.issuers :
                        /\ CheckEnvironmentCertificate(t.x5c, v.roots, Home, at)
                        /\ t.kid \in DOMAIN v.pinned => v.pinned[t.kid] = t.x5c.key}}
    ELSE {[key |-> v.pinned[k], issuer |-> v.issuer] : k \in {t.kid} \cap DOMAIN v.pinned}

\* Claims.valid: no signer issues other windows, and no verifier accepts one.
ValidWindow(j) == LET exp == Expires[j] - Skew IN Issued[j] < exp /\ exp - Issued[j] <= MaxLifetime

\* Verify's checks, from parse to the destination.
Verifies(v, j, at) ==
    LET t == token[j] IN
    /\ Parses(t)
    /\ \E s \in SigningKeys(v, t, at) : t.key = s.key /\ t.issuer = s.issuer
    /\ Decodes(t.claims, ClaimKeys, {}, TRUE)
    /\ ValidWindow(j)
    /\ v.issuer # None => t.issuer = v.issuer
    /\ at + Skew >= Issued[j] /\ Valid(j, at)
    /\ t.connector = Self /\ t.target = Target

\* What Sign and SignChained check of what they sign: its claims alone.
Issues(j, t) == ValidWindow(j) /\ ClaimKeys \subseteq t.claims.keys

\* What else they leave to the signer: the key is the one its kid names in its
\* issuer's environment, and x5c certifies that key and names that issuer, which
\* has checked it for its own controller host.
WellSigned(j, t) ==
    /\ t.key = Key(t.issuer, t.kid)
    /\ t.x5c # None =>
        /\ t.x5c.key = t.key /\ t.issuer \in t.x5c.issuers
        /\ CheckEnvironmentCertificate(t.x5c, {t.x5c.root}, t.key.env, Issued[j])
-----------------------------------------------------------------------------
\* NewVerifier refuses to trust nothing, and keys with no issuer.
NewVerifier(v) ==
    /\ DOMAIN v.pinned # {} \/ v.roots # {}
    /\ DOMAIN v.pinned # {} => v.issuer # None

TrustInit ==
    /\ Init
    /\ token \in [Jtis -> UNION {Tokens[j] : j \in Jtis}]
    /\ \A j \in Jtis : token[j] \in Tokens[j] /\ Issues(j, token[j])
    /\ trust \in {v \in Trusts : NewVerifier(v)}

\* A capability reaches the connector once it is issued: not before, but for
\* the two clocks.
Present(p, j) == clock + Skew >= Issued[j] /\ Begin(p, j)

Refuse(p) == call[p] # Idle /\ ~Verifies(trust, call[p], now[p]) /\ Reject(p)

Admit(p, j) == Accept(p, j) /\ Verifies(trust, j, now[p])
TurnAway(p, j) == Exhausted(p, j) /\ Verifies(trust, j, now[p])

TrustNext ==
    /\ \/ Tick
       \/ \E p \in Callers : Refuse(p)
       \/ \E p \in Callers, j \in Jtis : Present(p, j) \/ Admit(p, j) \/ TurnAway(p, j)
    /\ UNCHANGED trustVars

TrustSpec == TrustInit /\ [][TrustNext]_<<vars, trustVars>>
-----------------------------------------------------------------------------
\* A root certifies every environment's key: what keeps a capability to the
\* environment it was issued in is the controller host of its certificate, and
\* where keys are pinned, the key.  None is accepted that another environment's
\* key signed, or that names another issuer than Home's, however it was signed.
EnvironmentBound ==
    \A j \in Jtis : accepted[j] > 0 => token[j].key.env = Home /\ token[j].issuer = Home

\* A verifier has what it takes to check a capability: its key, or a root of
\* its certificate.
Knows(v, t) ==
    \/ v.roots = {} /\ t.kid \in DOMAIN v.pinned
    \/ v.roots # {} /\ IF t.x5c = None THEN t.kid \in DOMAIN v.pinned ELSE t.x5c.root \in v.roots

\* While connectors move from keys to roots, and signers start to send their
\* certificates, those that hold either or both agree on each well-signed
\* capability of their environment that they have what it takes to check, its
\* certificate's dates aside.
MigrationAgrees ==
    \A j \in Jtis, v \in Trusts, w \in Trusts :
        /\ NewVerifier(v) /\ NewVerifier(w)
        /\ token[j].key.env = Home /\ WellSigned(j, token[j])
        /\ Knows(v, token[j]) /\ Knows(w, token[j])
        /\ token[j].x5c # None => token[j].x5c.from <= clock /\ clock <= token[j].x5c.to
        => (Verifies(v, j, clock) <=> Verifies(w, j, clock))

\* A well-signed capability of Home's, in the form this version reads, for this
\* connector's pipe and no older than its exp.
InTime(j, at) ==
    /\ token[j].key.env = Home /\ WellSigned(j, token[j])
    /\ Parses(token[j]) /\ ~token[j].claims.repeated
    /\ token[j].connector = Self /\ token[j].target = Target
    /\ Knows(trust, token[j])
    /\ at < Expires[j]

\* The clocks of signer and verifier may differ by Skew either way, and a signer
\* may know claims a verifier does not: a capability that comes in time is not
\* refused, if its certificate is in date for Skew around it.
InTimeAccepted ==
    [][\A p \in Callers :
        Refuse(p) =>
            LET j == call[p]  c == token[j].x5c IN
            ~ /\ InTime(j, now[p])
              /\ c # None => c.from + Skew <= Issued[j] /\ Expires[j] <= c.to]_<<vars, trustVars>>

\* CheckEnvironmentCertificate's comment: an issuer that checks a certificate
\* with it never issues one that connectors refuse.
CheckedIsAccepted ==
    [][\A p \in Callers : Refuse(p) => ~InTime(call[p], now[p])]_<<vars, trustVars>>
=============================================================================
