-------------------------- MODULE PolicySync_proofs --------------------------
(***************************************************************************)
(* Proofs about the policy-sync task, for every interval, timeout, TTL,    *)
(* backoff and clock.                                                      *)
(*                                                                         *)
(* The bounds on expiry and staleness are not inductive: they say nothing  *)
(* of how far the next look at the clock is.  ExpiryBudget and             *)
(* StaleBudget add it: what is left of a pause and what has passed since   *)
(* the last look together never exceed the longest pause.                  *)
(***************************************************************************)
EXTENDS PolicySync, TLAPS

\* While exceptions are valid, the next look at expires_at comes less than Gap
\* after it.
ExpiryBudget ==
  pc # "down" /\ valid =>
    /\ known /\ pc \in {"idle", "fetch", "apply", "sleep"}
    /\ pc \in {"idle", "sleep"} => ttl + Gap >= 1 + due
    /\ pc \in {"fetch", "sleep"} => ttl + Gap >= 1 + wait
    /\ pc = "apply" => ttl >= 1

\* While the state is not stale, the next look at its age comes in time.
StaleBudget ==
  pc \notin {"down", "broken"} /\ ~stale =>
    /\ pc \in {"idle", "sleep", "off", "locked"} => age + due <= StaleAfter + Gap
    /\ pc = "sleep" => age + wait <= StaleAfter + Gap
    /\ pc = "fetch" => age + wait <= StaleAfter + Gap + Timeout
    /\ pc = "apply" => age <= StaleAfter + Gap + Timeout

\* The slots before the next one hold the list that is being written.
Written == pc = "apply" => target \in Version /\ \A s \in 1..(next - 1) : deny[s] = target

IInv == TypeOK /\ ExpiryBudget /\ StaleBudget /\ Written /\ DenyMatchesVersion

-----------------------------------------------------------------------------
\* Every pause of the task is at most Gap.
LEMMA GapFacts ==
  /\ Gap \in Nat /\ Interval <= Gap /\ MaxBackoff <= Gap /\ Timeout <= Gap
  /\ Larger(Timeout, MaxBackoff) \in Nat
  /\ Timeout <= Larger(Timeout, MaxBackoff)
  /\ MaxBackoff <= Larger(Timeout, MaxBackoff)
BY PolicySyncAssumption DEF PolicySyncAssumption, Gap, Larger

\* The booleans that a failure leaves, and what they say.
LEMMA LateBoolean == Late \in BOOLEAN
BY SMT DEF Late

\* A failure keeps exceptions only within their TTL, and staleness only in time.
LEMMA FailEffect ==
  ASSUME NEW k, NEW t, NEW v, Fail(k, t, v)
  PROVE  /\ valid' \in BOOLEAN /\ stale' \in BOOLEAN
         /\ valid' => v /\ k /\ t > 0
         /\ ~stale' => ~(age > StaleAfter)
         /\ lastVersion' = lastVersion /\ age' = age
<1>1. valid' \in BOOLEAN /\ (valid' => v /\ k /\ t > 0)
  BY Zenon DEF Fail
<1>2. stale' \in BOOLEAN
  BY LateBoolean, Zenon DEF Fail
<1>3. ~stale' => ~(age > StaleAfter)
  BY Zenon DEF Fail, Late
<1> QED
  BY <1>1, <1>2, <1>3 DEF Fail

\* The look at the TTL that a tick begins with.
LEMMA TickEffect ==
  ASSUME Tick
  PROVE  valid' \in BOOLEAN /\ (valid' => valid /\ known /\ ~(ttl <= 0))
BY Zenon DEF Tick, Expired

\* The exceptions after a bundle was accepted are those of a fresh section.
LEMMA AcceptEffect ==
  ASSUME Accept, TypeOK
  PROVE  /\ known' \in BOOLEAN /\ valid' \in BOOLEAN /\ stale' \in BOOLEAN
         /\ valid' => known' /\ Fresh
<1>1. known' \in BOOLEAN /\ valid' \in BOOLEAN
  BY FailEffect, Zenon DEF Accept, Fresh
<1>2. stale' \in BOOLEAN
  BY FailEffect, Zenon DEF Accept, Succeed, state, TypeOK
<1>3. valid' => known' /\ Fresh
  <2>1. known' = Fresh /\ (valid' = Fresh \/ Fail(Fresh, TTL - Issued, Fresh))
    BY Zenon DEF Accept
  <2>2. Fail(Fresh, TTL - Issued, Fresh) => (valid' => Fresh)
    BY Zenon DEF Fail
  <2> QED
    BY <2>1, <2>2, Zenon
<1> QED
  BY <1>1, <1>2, <1>3

\* What time does to the countdowns; it passes only while no step is due.
LEMMA AdvanceEffect ==
  ASSUME TypeOK, Advance
  PROVE  /\ due' \in 0..Interval /\ wait' \in 0..Larger(Timeout, MaxBackoff)
         /\ ttl' \in Int /\ age' \in Nat
         /\ due' = 0 \/ due' = due - 1
         /\ wait' = 0 \/ wait' = wait - 1
         /\ ttl' >= ttl - 1 /\ age' <= age + 1
         /\ pc' = pc /\ known' = known /\ valid' = valid /\ stale' = stale
         /\ pc \in {"idle", "off", "locked"} => due # 0
         /\ pc \in {"fetch", "sleep"} => wait # 0
         /\ pc # "apply"
<1>1. /\ due' = Down(due) /\ wait' = Down(wait)
      /\ ttl' = IF ttl > -Gap THEN ttl - 1 ELSE ttl
      /\ age' = IF age < MaxAge THEN age + 1 ELSE age
  BY DEF Advance
<1>2. /\ due \in 0..Interval /\ wait \in 0..Larger(Timeout, MaxBackoff)
      /\ ttl \in Int /\ age \in Nat
  BY DEF TypeOK
<1>3. ttl' \in Int /\ ttl' >= ttl - 1
  BY <1>1, <1>2, GapFacts
<1>4. age' \in Nat /\ age' <= age + 1
  BY <1>1, <1>2, GapFacts
<1>5. due' \in 0..Interval /\ (due' = 0 \/ due' = due - 1)
  BY <1>1, <1>2, PolicySyncAssumption DEF PolicySyncAssumption, Down
<1>6. wait' \in 0..Larger(Timeout, MaxBackoff) /\ (wait' = 0 \/ wait' = wait - 1)
  BY <1>1, <1>2, GapFacts DEF Down
<1>7. /\ pc' = pc /\ known' = known /\ valid' = valid /\ stale' = stale
      /\ pc \in {"idle", "off", "locked"} => due # 0
      /\ pc \in {"fetch", "sleep"} => wait # 0
      /\ pc # "apply"
  BY DEF Advance, Urgent
<1> QED
  BY <1>3, <1>4, <1>5, <1>6, <1>7
\* Every step keeps the types.
LEMMA TypeStep ==
  ASSUME TypeOK, Next
  PROVE  TypeOK'
<1>1. CASE Advance
  <2>1. reply' = NoReply \/ reply' \in [version : Version, age : Nat]
    BY <1>1 DEF Advance, TypeOK
  <2> QED
    BY <1>1, <2>1, AdvanceEffect DEF Advance, TypeOK, engine, bounds
<1>2. CASE PolicyChange
  BY <1>2, PolicySyncAssumption, GapFacts
     DEF PolicySyncAssumption, TypeOK, Lists, task, identity, state, engine, bounds, PolicyChange
<1>3. CASE Answer
  BY <1>3, PolicySyncAssumption, GapFacts
     DEF PolicySyncAssumption, TypeOK, Lists, task, identity, state, engine, bounds, Answer
<1>4. CASE Tick
  BY <1>4, PolicySyncAssumption, GapFacts, TickEffect
     DEF PolicySyncAssumption, TypeOK, Lists, task, identity, state, engine, bounds, Tick
<1>5. CASE Reject
  BY <1>5, PolicySyncAssumption, GapFacts, FailEffect
     DEF PolicySyncAssumption, TypeOK, Lists, task, identity, state, engine, bounds, Reject
<1>6. CASE Throttle
  BY <1>6, PolicySyncAssumption, GapFacts, FailEffect
     DEF PolicySyncAssumption, TypeOK, Lists, task, identity, state, engine, bounds, Throttle
<1>7. CASE Wake
  BY <1>7, PolicySyncAssumption, GapFacts
     DEF PolicySyncAssumption, TypeOK, Lists, task, identity, state, engine, bounds, Wake
<1>8. CASE RejectTemporal
  BY <1>8, PolicySyncAssumption, GapFacts, FailEffect
     DEF PolicySyncAssumption, TypeOK, Lists, task, identity, state, engine, bounds, RejectTemporal
<1>9. CASE Accept
  <2>1. reply \in [version : Version, age : Nat] /\ reply.version \in Version
    BY <1>9 DEF Accept, TypeOK
  <2>2. Issued \in Int
    BY <2>1, PolicySyncAssumption DEF PolicySyncAssumption, Issued, TypeOK
  <2>3. ttl' \in Int /\ reply' = NoReply
    BY <1>9, <2>2, PolicySyncAssumption DEF PolicySyncAssumption, Accept
  <2>4. pc' \in {"idle", "apply"} /\ target' \in Lists /\ next' \in 1..Slots
    BY <1>9, <2>1, PolicySyncAssumption DEF PolicySyncAssumption, Accept, TypeOK, Lists
  <2>5. lastVersion' \in Lists \cup {Resumed} /\ age' \in Nat
    BY <1>9, FailEffect DEF Accept, Succeed, state, TypeOK
  <2> QED
    BY <1>9, <2>3, <2>4, <2>5, AcceptEffect DEF Accept, TypeOK, engine, bounds
<1>10. CASE WriteSlot
  <2>1. known' \in BOOLEAN /\ valid' \in BOOLEAN /\ stale' \in BOOLEAN
    BY <1>10, Zenon DEF WriteSlot, Succeed, TypeOK, identity, state
  <2> QED
    BY <1>10, <2>1, PolicySyncAssumption, GapFacts
       DEF PolicySyncAssumption, TypeOK, Lists, task, identity, state, engine, bounds, WriteSlot, Succeed
<1>11. CASE WriteFails
  BY <1>11, PolicySyncAssumption, GapFacts, FailEffect
     DEF PolicySyncAssumption, TypeOK, Lists, task, identity, state, engine, bounds, WriteFails
<1>12. CASE OffTick
  <2>1. known' \in BOOLEAN /\ valid' \in BOOLEAN /\ stale' \in BOOLEAN
    BY <1>12, Zenon DEF OffTick, Succeed, TypeOK, identity, state
  <2> QED
    BY <1>12, <2>1, PolicySyncAssumption, GapFacts
       DEF PolicySyncAssumption, TypeOK, Lists, task, identity, state, engine, bounds, OffTick, Succeed
<1>13. CASE LockedTick
  <2>1. known' \in BOOLEAN /\ valid' \in BOOLEAN /\ stale' \in BOOLEAN
    BY <1>13, LateBoolean, Zenon DEF LockedTick, TypeOK, identity, state
  <2> QED
    BY <1>13, <2>1, PolicySyncAssumption, GapFacts
       DEF PolicySyncAssumption, TypeOK, Lists, task, identity, state, engine, bounds, LockedTick, Late
<1>14. CASE Crash
  BY <1>14, PolicySyncAssumption, GapFacts
     DEF PolicySyncAssumption, TypeOK, Lists, task, identity, state, engine, bounds, Crash
<1>15. CASE Restart
  <2>1. known' \in BOOLEAN /\ valid' \in BOOLEAN /\ stale' \in BOOLEAN
    BY <1>15, Zenon DEF Restart, TypeOK, identity, state
  <2> QED
    BY <1>15, <2>1, PolicySyncAssumption, GapFacts
       DEF PolicySyncAssumption, TypeOK, Lists, task, identity, state, engine, bounds, Restart, FirstDue
<1> QED
  BY <1>1, <1>2, <1>3, <1>4, <1>5, <1>6, <1>7, <1>8, <1>9, <1>10, <1>11, <1>12, <1>13, <1>14, <1>15 DEF Next, Task

\* Every step keeps the budget of the exceptions: a look at the TTL restores it, and
\* time takes as much from the pause as from the TTL.
LEMMA ExpiryStep ==
  ASSUME TypeOK, ExpiryBudget, Next
  PROVE  ExpiryBudget'
<1>1. CASE Advance
  <2> SUFFICES ASSUME pc' # "down", valid' PROVE ExpiryBudget'
    BY DEF ExpiryBudget
  <2>1. /\ known /\ pc \in {"idle", "fetch", "sleep"}
        /\ pc \in {"idle", "sleep"} => ttl + Gap >= 1 + due
        /\ pc \in {"fetch", "sleep"} => ttl + Gap >= 1 + wait
    BY <1>1, AdvanceEffect DEF ExpiryBudget
  <2>2. known' /\ pc' = pc
    BY <1>1, <2>1, AdvanceEffect
  <2>3. due \in Nat /\ wait \in Nat /\ ttl \in Int
    BY PolicySyncAssumption, GapFacts DEF PolicySyncAssumption, TypeOK
  <2>5. due' \in Nat /\ wait' \in Nat
    BY <1>1, AdvanceEffect, PolicySyncAssumption, GapFacts DEF PolicySyncAssumption
  <2>4. /\ pc \in {"idle", "sleep"} => ttl' + Gap >= 1 + due'
        /\ pc \in {"fetch", "sleep"} => ttl' + Gap >= 1 + wait'
    BY <1>1, <2>1, <2>3, <2>5, AdvanceEffect, GapFacts
  <2> QED
    BY <2>1, <2>2, <2>4 DEF ExpiryBudget
<1>2. CASE PolicyChange
  BY <1>2, PolicySyncAssumption, GapFacts
     DEF PolicySyncAssumption, TypeOK, ExpiryBudget, task, identity, state, engine, bounds, PolicyChange
<1>3. CASE Answer
  BY <1>3, PolicySyncAssumption, GapFacts
     DEF PolicySyncAssumption, TypeOK, ExpiryBudget, task, identity, state, engine, bounds, Answer
<1>4. CASE Tick
  BY <1>4, PolicySyncAssumption, GapFacts, TickEffect
     DEF PolicySyncAssumption, TypeOK, ExpiryBudget, task, identity, state, engine, bounds, Tick
<1>5. CASE Reject
  BY <1>5, PolicySyncAssumption, GapFacts, FailEffect
     DEF PolicySyncAssumption, TypeOK, ExpiryBudget, task, identity, state, engine, bounds, Reject
<1>6. CASE Throttle
  <2>1. valid' => valid /\ known /\ ttl > 0
    BY <1>6, FailEffect DEF Throttle
  <2>2. /\ pc' = "sleep" /\ wait' \in 0..MaxBackoff
        /\ due' = due /\ ttl' = ttl
    BY <1>6 DEF Throttle
  <2>3. due \in Nat /\ due <= Interval /\ Interval \in Nat /\ MaxBackoff \in Nat /\ ttl \in Int
    BY PolicySyncAssumption DEF PolicySyncAssumption, TypeOK
  <2>4. valid' => known'
    BY <1>6, <2>1, Zenon DEF Throttle
  <2>5. wait' \in Nat /\ wait' <= Gap /\ due <= Gap /\ Gap \in Nat
    BY <2>2, <2>3, GapFacts
  <2>6. ASSUME ttl > 0 PROVE ttl + Gap >= 1 + due /\ ttl + Gap >= 1 + wait'
    <3>1. ttl \in Int /\ ttl >= 1 /\ due \in Nat
      BY <2>3, <2>6
    <3>2. \A n \in Nat : n <= Gap => ttl + Gap >= 1 + n
      BY <3>1, GapFacts
    <3> QED
      BY <2>5, <3>1, <3>2
  <2> QED
    BY <2>1, <2>2, <2>4, <2>6 DEF ExpiryBudget
<1>7. CASE Wake
  BY <1>7, PolicySyncAssumption, GapFacts
     DEF PolicySyncAssumption, TypeOK, ExpiryBudget, task, identity, state, engine, bounds, Wake
<1>8. CASE RejectTemporal
  BY <1>8, PolicySyncAssumption, GapFacts, FailEffect
     DEF PolicySyncAssumption, TypeOK, ExpiryBudget, task, identity, state, engine, bounds, RejectTemporal
<1>9. CASE Accept
  <2>1. reply \in [version : Version, age : Nat] /\ reply.version \in Version
    BY <1>9 DEF Accept, TypeOK
  <2>2. Issued \in Int
    BY <2>1, PolicySyncAssumption DEF PolicySyncAssumption, Issued, TypeOK
  <2>3. Fresh => ttl' \in Int /\ ttl' > 0
    BY <1>9, <2>2, PolicySyncAssumption DEF PolicySyncAssumption, Accept, Fresh
  <2>4. pc' \in {"idle", "apply"} /\ due' = due
    BY <1>9 DEF Accept
  <2> QED
    BY <1>9, <2>3, <2>4, AcceptEffect, PolicySyncAssumption, GapFacts
       DEF PolicySyncAssumption, TypeOK, ExpiryBudget
<1>10. CASE WriteSlot
  BY <1>10, PolicySyncAssumption, GapFacts
     DEF PolicySyncAssumption, TypeOK, ExpiryBudget, task, identity, state, engine, bounds, WriteSlot, Succeed
<1>11. CASE WriteFails
  BY <1>11, PolicySyncAssumption, GapFacts, FailEffect
     DEF PolicySyncAssumption, TypeOK, ExpiryBudget, task, identity, state, engine, bounds, WriteFails
<1>12. CASE OffTick
  BY <1>12, PolicySyncAssumption, GapFacts
     DEF PolicySyncAssumption, TypeOK, ExpiryBudget, task, identity, state, engine, bounds, OffTick, Succeed
<1>13. CASE LockedTick
  BY <1>13, PolicySyncAssumption, GapFacts
     DEF PolicySyncAssumption, TypeOK, ExpiryBudget, task, identity, state, engine, bounds, LockedTick, Late
<1>14. CASE Crash
  BY <1>14, PolicySyncAssumption, GapFacts
     DEF PolicySyncAssumption, TypeOK, ExpiryBudget, task, identity, state, engine, bounds, Crash
<1>15. CASE Restart
  BY <1>15, PolicySyncAssumption, GapFacts
     DEF PolicySyncAssumption, TypeOK, ExpiryBudget, task, identity, state, engine, bounds, Restart, FirstDue
<1> QED
  BY <1>1, <1>2, <1>3, <1>4, <1>5, <1>6, <1>7, <1>8, <1>9, <1>10, <1>11, <1>12, <1>13, <1>14, <1>15 DEF Next, Task

\* Every step keeps the budget of the stale flag.
LEMMA StaleStep ==
  ASSUME TypeOK, StaleBudget, Next
  PROVE  StaleBudget'
<1>1. CASE Advance
  <2>1. due \in Nat /\ wait \in Nat /\ age \in Nat /\ StaleAfter \in Nat /\ Timeout \in Nat
    BY PolicySyncAssumption, GapFacts DEF PolicySyncAssumption, TypeOK
  <2>2. due' \in Nat /\ wait' \in Nat
    BY <1>1, AdvanceEffect, PolicySyncAssumption, GapFacts DEF PolicySyncAssumption
  <2> QED
    BY <1>1, <2>1, <2>2, AdvanceEffect, GapFacts DEF StaleBudget
<1>2. CASE PolicyChange
  BY <1>2, PolicySyncAssumption, GapFacts
     DEF PolicySyncAssumption, TypeOK, StaleBudget, task, identity, state, engine, bounds, PolicyChange
<1>3. CASE Answer
  BY <1>3, PolicySyncAssumption, GapFacts
     DEF PolicySyncAssumption, TypeOK, StaleBudget, task, identity, state, engine, bounds, Answer
<1>4. CASE Tick
  BY <1>4, PolicySyncAssumption, GapFacts, TickEffect
     DEF PolicySyncAssumption, TypeOK, StaleBudget, task, identity, state, engine, bounds, Tick
<1>5. CASE Reject
  BY <1>5, PolicySyncAssumption, GapFacts, FailEffect
     DEF PolicySyncAssumption, TypeOK, StaleBudget, task, identity, state, engine, bounds, Reject
<1>6. CASE Throttle
  BY <1>6, PolicySyncAssumption, GapFacts, FailEffect
     DEF PolicySyncAssumption, TypeOK, StaleBudget, task, identity, state, engine, bounds, Throttle
<1>7. CASE Wake
  BY <1>7, PolicySyncAssumption, GapFacts
     DEF PolicySyncAssumption, TypeOK, StaleBudget, task, identity, state, engine, bounds, Wake
<1>8. CASE RejectTemporal
  BY <1>8, PolicySyncAssumption, GapFacts, FailEffect
     DEF PolicySyncAssumption, TypeOK, StaleBudget, task, identity, state, engine, bounds, RejectTemporal
<1>9. CASE Accept
  BY <1>9, PolicySyncAssumption, GapFacts, FailEffect, AcceptEffect
     DEF PolicySyncAssumption, TypeOK, StaleBudget, task, identity, state, engine, bounds, Accept, Succeed, Fresh, Issued
<1>10. CASE WriteSlot
  BY <1>10, PolicySyncAssumption, GapFacts
     DEF PolicySyncAssumption, TypeOK, StaleBudget, task, identity, state, engine, bounds, WriteSlot, Succeed
<1>11. CASE WriteFails
  BY <1>11, PolicySyncAssumption, GapFacts, FailEffect
     DEF PolicySyncAssumption, TypeOK, StaleBudget, task, identity, state, engine, bounds, WriteFails
<1>12. CASE OffTick
  BY <1>12, PolicySyncAssumption, GapFacts
     DEF PolicySyncAssumption, TypeOK, StaleBudget, task, identity, state, engine, bounds, OffTick, Succeed
<1>13. CASE LockedTick
  <2>1. ~stale' => ~(age > StaleAfter)
    BY <1>13, Zenon DEF LockedTick, Late
  <2> QED
    BY <1>13, <2>1, PolicySyncAssumption, GapFacts
       DEF PolicySyncAssumption, TypeOK, StaleBudget, LockedTick
<1>14. CASE Crash
  BY <1>14, PolicySyncAssumption, GapFacts
     DEF PolicySyncAssumption, TypeOK, StaleBudget, task, identity, state, engine, bounds, Crash
<1>15. CASE Restart
  BY <1>15, PolicySyncAssumption, GapFacts
     DEF PolicySyncAssumption, TypeOK, StaleBudget, task, identity, state, engine, bounds, Restart, FirstDue
<1> QED
  BY <1>1, <1>2, <1>3, <1>4, <1>5, <1>6, <1>7, <1>8, <1>9, <1>10, <1>11, <1>12, <1>13, <1>14, <1>15 DEF Next, Task

\* Every step keeps the deny list that the version names.
LEMMA DenyStep ==
  ASSUME TypeOK, Written, DenyMatchesVersion, Next
  PROVE  Written' /\ DenyMatchesVersion'
<1>1. CASE Advance
  BY <1>1, PolicySyncAssumption, GapFacts
     DEF PolicySyncAssumption, TypeOK, Lists, Written, DenyMatchesVersion, task, identity, state, engine, bounds, Advance, Down, Urgent, MaxAge
<1>2. CASE PolicyChange
  BY <1>2, PolicySyncAssumption, GapFacts
     DEF PolicySyncAssumption, TypeOK, Lists, Written, DenyMatchesVersion, task, identity, state, engine, bounds, PolicyChange
<1>3. CASE Answer
  BY <1>3, PolicySyncAssumption, GapFacts
     DEF PolicySyncAssumption, TypeOK, Lists, Written, DenyMatchesVersion, task, identity, state, engine, bounds, Answer
<1>4. CASE Tick
  BY <1>4, PolicySyncAssumption, GapFacts, TickEffect
     DEF PolicySyncAssumption, TypeOK, Lists, Written, DenyMatchesVersion, task, identity, state, engine, bounds, Tick
<1>5. CASE Reject
  BY <1>5, PolicySyncAssumption, GapFacts, FailEffect
     DEF PolicySyncAssumption, TypeOK, Lists, Written, DenyMatchesVersion, task, identity, state, engine, bounds, Reject
<1>6. CASE Throttle
  BY <1>6, PolicySyncAssumption, GapFacts, FailEffect
     DEF PolicySyncAssumption, TypeOK, Lists, Written, DenyMatchesVersion, task, identity, state, engine, bounds, Throttle
<1>7. CASE Wake
  BY <1>7, PolicySyncAssumption, GapFacts
     DEF PolicySyncAssumption, TypeOK, Lists, Written, DenyMatchesVersion, task, identity, state, engine, bounds, Wake
<1>8. CASE RejectTemporal
  BY <1>8, PolicySyncAssumption, GapFacts, FailEffect
     DEF PolicySyncAssumption, TypeOK, Lists, Written, DenyMatchesVersion, task, identity, state, engine, bounds, RejectTemporal
<1>9. CASE Accept
  BY <1>9, PolicySyncAssumption, GapFacts, FailEffect, AcceptEffect
     DEF PolicySyncAssumption, TypeOK, Lists, Written, DenyMatchesVersion, task, identity, state, engine, bounds, Accept, Succeed, Fresh, Issued
<1>10. CASE WriteSlot
  BY <1>10, PolicySyncAssumption, GapFacts
     DEF PolicySyncAssumption, TypeOK, Lists, Written, DenyMatchesVersion, task, identity, state, engine, bounds, WriteSlot, Succeed
<1>11. CASE WriteFails
  BY <1>11, PolicySyncAssumption, GapFacts, FailEffect
     DEF PolicySyncAssumption, TypeOK, Lists, Written, DenyMatchesVersion, task, identity, state, engine, bounds, WriteFails
<1>12. CASE OffTick
  BY <1>12, PolicySyncAssumption, GapFacts
     DEF PolicySyncAssumption, TypeOK, Lists, Written, DenyMatchesVersion, task, identity, state, engine, bounds, OffTick, Succeed
<1>13. CASE LockedTick
  BY <1>13, PolicySyncAssumption, GapFacts
     DEF PolicySyncAssumption, TypeOK, Lists, Written, DenyMatchesVersion, task, identity, state, engine, bounds, LockedTick, Late
<1>14. CASE Crash
  BY <1>14, PolicySyncAssumption, GapFacts
     DEF PolicySyncAssumption, TypeOK, Lists, Written, DenyMatchesVersion, task, identity, state, engine, bounds, Crash
<1>15. CASE Restart
  BY <1>15, PolicySyncAssumption, GapFacts
     DEF PolicySyncAssumption, TypeOK, Lists, Written, DenyMatchesVersion, task, identity, state, engine, bounds, Restart, FirstDue
<1> QED
  BY <1>1, <1>2, <1>3, <1>4, <1>5, <1>6, <1>7, <1>8, <1>9, <1>10, <1>11, <1>12, <1>13, <1>14, <1>15 DEF Next, Task

\* The initial states.
LEMMA InitIInv == Init => IInv
<1> SUFFICES ASSUME Init PROVE IInv
  OBVIOUS
<1>1. TypeOK
  <2>1. known \in BOOLEAN /\ valid \in BOOLEAN /\ stale \in BOOLEAN
    BY Zenon DEF Init
  <2>2. due \in 0..Interval
    BY PolicySyncAssumption DEF PolicySyncAssumption, Init, FirstDue
  <2> QED
    BY <2>1, <2>2, PolicySyncAssumption, GapFacts DEF PolicySyncAssumption, Init, TypeOK, Lists
<1>2. ExpiryBudget
  BY DEF Init, ExpiryBudget
<1>3. StaleBudget
  BY <1>1, PolicySyncAssumption, GapFacts DEF PolicySyncAssumption, Init, TypeOK, StaleBudget
<1>4. Written /\ DenyMatchesVersion
  BY PolicySyncAssumption DEF PolicySyncAssumption, Init, Written, DenyMatchesVersion
<1> QED
  BY <1>1, <1>2, <1>3, <1>4 DEF IInv

\* The inductive invariant, for every value of the constants.
THEOREM Invariance == Spec => []IInv
<1>1. IInv /\ [Next]_vars => IInv'
  <2> SUFFICES ASSUME IInv, [Next]_vars PROVE IInv'
    OBVIOUS
  <2>1. CASE Next
    BY <2>1, TypeStep, ExpiryStep, StaleStep, DenyStep DEF IInv
  <2>2. CASE UNCHANGED vars
    BY <2>2 DEF vars, task, identity, state, engine, bounds, IInv, TypeOK, ExpiryBudget,
                StaleBudget, Written, DenyMatchesVersion
  <2> QED
    BY <2>1, <2>2
<1> QED
  BY <1>1, InitIInv, PTL DEF Spec

\* policy_sync.rs: the state of the task has its types in every behaviour.
THEOREM TypeCorrect == Spec => []TypeOK
<1>1. IInv => TypeOK
  BY DEF IInv
<1> QED
  BY <1>1, Invariance, PTL

\* invalidate_if_expired: whatever the outages and Retry-After values, the exceptions
\* outlive expires_at by less than the longest pause of the task.
THEOREM ExceptionsOutliveTtlByLessThanGap == Spec => []ExceptionsExpire
<1>1. IInv => ExceptionsExpire
  BY GapFacts, PolicySyncAssumption
     DEF PolicySyncAssumption, IInv, TypeOK, ExpiryBudget, ExceptionsExpire
<1> QED
  BY <1>1, Invariance, PTL

\* refresh_stale_flag: a state without a success for POLICY_STALE_AFTER is called stale
\* at most one pause and one request later.
THEOREM StaleInTime == Spec => []StaleSignalled
<1>1. IInv => StaleSignalled
  BY GapFacts, PolicySyncAssumption
     DEF PolicySyncAssumption, IInv, TypeOK, StaleBudget, StaleSignalled
<1> QED
  BY <1>1, Invariance, PTL

\* sync_once: the version that the task compares with names the list in the maps.
THEOREM VersionNamesTheList == Spec => []DenyMatchesVersion
<1>1. IInv => DenyMatchesVersion
  BY DEF IInv
<1> QED
  BY <1>1, Invariance, PTL
=============================================================================
