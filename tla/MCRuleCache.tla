---------------------------- MODULE MCRuleCache ----------------------------
(* Instance of RuleCache for TLC. *)
EXTENDS RuleCache

CONSTANTS g1, g2, p1, p2, h1, h2, timer, k1, k2, shared
============================================================================
