-------------------------- MODULE MCCapabilityOpens -------------------------
(***************************************************************************)
(* capability.Verifier for TLC: two capabilities, of which one is issued   *)
(* and opened while the other expires, so that its opens prune the other's *)
(* while a caller still verifies that one, and connectors that pin keys,   *)
(* roots or both, over signers that do and do not send a certificate and   *)
(* some that send one, or claim an issuer, that is not of their key.        *)
(***************************************************************************)
EXTENDS CapabilityTrust, TLC

CONSTANTS p1, p2, early, late

MCCallers == {p1, p2}
MCJtis == {early, late}
MCExpires == early :> 4 @@ late :> 7
MCIssued == early :> 1 @@ late :> 4

\* The environment certificates: of each environment, from either root, that
\* run throughout, begin late or end early, and one that is not a signing leaf.
Certificate(root, env, kid, from, to, profile) ==
    [root |-> root, hosts |-> {env}, issuers |-> {env}, key |-> Key(env, kid),
     from |-> from, to |-> to, profile |-> profile]
Certificates ==
    { Certificate("r1", "prod", "a", 0, 9, TRUE),
      Certificate("r2", "prod", "b", 0, 9, TRUE),
      Certificate("r1", "prod", "a", 3, 9, TRUE),
      Certificate("r1", "prod", "a", 0, 6, TRUE),
      Certificate("r1", "prod", "a", 0, 9, FALSE),
      Certificate("r1", "staging", "a", 0, 9, TRUE) }

Segment(keys, repeated) == [keys |-> keys, repeated |-> repeated]

Token(env, kid, x5c) ==
    [header |-> Segment(HeaderKeys \cup (IF x5c = None THEN {} ELSE {"x5c"}), FALSE),
     typ |-> "capability", kid |-> kid, x5c |-> x5c, key |-> Key(env, kid), issuer |-> env,
     claims |-> Segment(ClaimKeys, FALSE), connector |-> "self", target |-> "target"]

Plain == Token("prod", "a", None)
Chained == Token("prod", "a", Certificate("r1", "prod", "a", 0, 9, TRUE))

\* Signed, as nothing keeps a signer from it, by a key that is not what the
\* capability says.
MisSigned ==
    { [Plain EXCEPT !.issuer = "staging"],
      [Plain EXCEPT !.key = Key("staging", "a")],
      [Chained EXCEPT !.key = Key("staging", "a")],
      [Chained EXCEPT !.issuer = "staging"],
      [Chained EXCEPT !.kid = "b"] }

LateTokens ==
    {Plain, Token("prod", "b", None), Token("staging", "a", None)}
    \cup {Token(c.key.env, c.key.kid, c) : c \in Certificates}
    \cup { [Plain EXCEPT !.claims.keys = @ \cup {"a claim to come"}],
           [Plain EXCEPT !.claims.repeated = TRUE],
           [Plain EXCEPT !.header.keys = @ \cup {"crit"}],
           [Plain EXCEPT !.typ = "config"],
           [Plain EXCEPT !.connector = "another"],
           [Plain EXCEPT !.target = "another"] }
    \cup MisSigned

MCTokens == early :> {Plain, Token("staging", "a", None)} @@ late :> LateTokens

Pinned == [kid \in {"a", "b"} |-> Key("prod", kid)]
NoKeys == [kid \in {} |-> Key("prod", kid)]
MCTrusts ==
    { [pinned |-> Pinned, roots |-> {}, issuer |-> "prod"],
      [pinned |-> Pinned, roots |-> {"r1", "r2"}, issuer |-> "prod"],
      [pinned |-> NoKeys, roots |-> {"r1", "r2"}, issuer |-> "prod"],
      [pinned |-> NoKeys, roots |-> {"r1"}, issuer |-> None],
      [pinned |-> NoKeys, roots |-> {}, issuer |-> "prod"] }

Symmetry == Permutations(MCCallers)
=============================================================================
