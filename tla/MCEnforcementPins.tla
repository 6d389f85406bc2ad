-------------------------- MODULE MCEnforcementPins --------------------------
\* Small instance of EnforcementPins for TLC.
EXTENDS EnforcementPins

CONSTANTS m1, m2, m3, tmp, opt

MCMapId == {m1, m2, m3}
MCPrefix == {tmp, opt}
MCBootstrap == <<tmp>>
MCPolicies == {<<opt>>, <<tmp, opt>>}
MCPoliciesOne == {<<opt>>}
MCDirs == 0..3
=============================================================================
