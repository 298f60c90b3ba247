--------------------------- MODULE MCPolicyStore ---------------------------
\* Two rule ids; a strict and a loose body that Validate accepts, and one it refuses.
EXTENDS PolicyStore

CONSTANTS r1, r2, strict, loose, unsound

OneStrictRule == <<[ruleID |-> r1, body |-> strict]>>
=============================================================================
