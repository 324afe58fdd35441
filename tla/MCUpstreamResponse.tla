------------------------- MODULE MCUpstreamResponse -------------------------
(***************************************************************************)
(* upstream.Client for TLC: two requests for one slot, so one waits;       *)
(* rulesets that cover the host by fields and bytes, by bytes, not at all  *)
(* and none, so that a rule stands through a swap that takes the other.    *)
(***************************************************************************)
EXTENDS UpstreamResponse

CONSTANTS r1, r2

MCRequests == {r1, r2}
MCRulesets == { {}, {"other"}, {"field", "byte"}, {"byte", "other"} }
=============================================================================
