---------------------------- MODULE MCPolicyEngine ----------------------------
\* Small instance of PolicyEngine for TLC.
EXTENDS PolicyEngine

CONSTANTS tmp, opt, a1, x1

\* A document beyond the floor, one that drops the floor with the flag, and one
\* that drops it without.
MCDocument ==
  {[deny |-> {tmp, opt}, removal |-> FALSE, wellFormed |-> TRUE],
   [deny |-> {opt}, removal |-> TRUE, wellFormed |-> TRUE],
   [deny |-> {opt}, removal |-> FALSE, wellFormed |-> TRUE]}
=============================================================================
