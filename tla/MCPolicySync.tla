---------------------------- MODULE MCPolicySync ----------------------------
\* Small instances of PolicySync for TLC.  One unit of time is about half a sync
\* interval; the proportions of the deadlines are those of the code.
EXTENDS PolicySync

CONSTANTS v1, v2, v3

\* A clock behind by the TTL, one in step, and one ahead by more than the skew.
MCOffsets == {-3, 0, 2}
=============================================================================
