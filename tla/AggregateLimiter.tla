--------------------------- MODULE AggregateLimiter ---------------------------
(***************************************************************************)
(* The token bucket in front of /v1/policy-bundle (ratelimit.go).  Tokens  *)
(* are counted in fractions: a request costs Cost of them, a unit of time  *)
(* brings Rate, so that rates below one request per second are covered.    *)
(* The bucket is refilled by the next request, for the time since the last *)
(* one.                                                                    *)
(***************************************************************************)
EXTENDS Integers

CONSTANTS
  Rate,    \* fractions per unit of time; 0 switches the limiter off
  Second,  \* units of time in a second
  Cost     \* fractions of one request

ASSUME LimiterAssumption == Rate \in Nat /\ Second \in Nat \ {0} /\ Cost \in Nat \ {0}

\* One second of budget, and at least one request.
Burst == IF Rate * Second < Cost THEN Cost ELSE Rate * Second

VARIABLES
  tokens,  \* at the last request
  idle,    \* time since then, up to the time that fills the bucket
  level    \* history: what was granted minus what time allowed, from 0

bucket == <<tokens, idle, level>>

NewLimiter == tokens = Burst /\ idle = 0 /\ level = 0

\* Time passes.
Elapse ==
  /\ idle' = IF idle * Rate < Burst THEN idle + 1 ELSE idle
  /\ level' = IF level > Rate THEN level - Rate ELSE 0
  /\ UNCHANGED tokens

\* Wrong variant: the tokens of a quiet time add up without an end.
Refilled_Uncapped == tokens + idle * Rate

Refilled == IF tokens + idle * Rate > Burst THEN Burst ELSE tokens + idle * Rate

\* Wrong variant: a started token is enough.
Grant_AnyFraction ==
  IF Rate = 0 THEN UNCHANGED bucket
  ELSE /\ Refilled > 0
       /\ tokens' = Refilled - Cost /\ idle' = 0
       /\ level' = level + Cost

\* Allow returns true.
Grant ==
  IF Rate = 0 THEN UNCHANGED bucket
  ELSE /\ Refilled >= Cost
       /\ tokens' = Refilled - Cost /\ idle' = 0
       /\ level' = level + Cost

\* Allow returns false: the refill is kept.
Deny429 ==
  /\ Rate # 0 /\ Refilled < Cost
  /\ tokens' = Refilled /\ idle' = 0
  /\ UNCHANGED level

-----------------------------------------------------------------------------
\* The types of the bucket.
LimiterTypeOK == tokens \in 0..Burst /\ idle \in Nat /\ level \in Nat

\* ratelimit.go: in every interval of time at most one second of budget is granted
\* beyond what the rate allows, however requests and quiet times follow one another.
BudgetKept == level <= Burst
=============================================================================
