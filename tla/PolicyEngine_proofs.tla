-------------------------- MODULE PolicyEngine_proofs --------------------------
(***************************************************************************)
(* Proofs about the policy engine, for every history of the ConfigMap, any *)
(* set of prefixes and clients, any rate and any number of crashes.        *)
(*                                                                         *)
(* That the planes agree says nothing of the middle of an apply: Applying  *)
(* says where each plane is at each of its steps.  That agents never go    *)
(* back rests on Ordered: once the watcher has read the ConfigMap, what it *)
(* applies is at its cursor, and nobody is ahead of the cursor.  The       *)
(* limiter's bound rests on LazyRefill: the tokens a request would find    *)
(* and the level always add up to the burst.                               *)
(***************************************************************************)
EXTENDS PolicyEngine, TLAPS

ApplyLabels == {"reload", "store", "publish", "audit"}

\* Where the planes are at each step of ApplyValidated.
Applying ==
  /\ pc \in ApplyLabels => /\ object \in 1..Latest /\ object = cursor
                           /\ Valid(revisions[object])
  /\ pc = "reload" => old = lkg
  /\ pc = "store" => rego = object /\ lkg = old /\ bundle = old
  /\ pc = "publish" => rego = object /\ lkg = object /\ bundle = old
  /\ pc = "audit" => bundle = object
  /\ pc = "down" => bundle = 0

\* Before the audit of a new policy the floors missing from the old one are reported.
Reported ==
  /\ pc \notin {"audit", "down"} => Floor \ Deny(bundle) \subseteq alarmed
  /\ pc = "audit" => Floor \ Deny(old) \subseteq alarmed

\* Nothing is ahead of the cursor of a watcher that has read the ConfigMap.
Ordered ==
  /\ pc \in ApplyLabels \cup {"open", "watch"} => cursor >= 1
  /\ bundle <= cursor /\ old <= cursor
  /\ \A a \in Agents : /\ cursor >= 1 => seen[a] <= cursor
                       /\ seen[a] <= bundle \/ (bundle = 0 /\ crashes > 0)

\* The tokens the next request would find and the level make up the burst.
LazyRefill == Refilled + level = Burst

IInv == /\ TypeOK /\ PlanesAgree /\ Applying /\ Reported /\ Ordered /\ LazyRefill

-----------------------------------------------------------------------------
(***************************************************************************)
(* The limiter.                                                            *)
(***************************************************************************)
\* What the proofs need to know of the products in Burst and Refilled.
LEMMA LimiterNumbers ==
  ASSUME LimiterTypeOK
  PROVE  /\ Rate \in Nat /\ Cost \in Nat /\ Cost >= 1
         /\ Burst \in Nat /\ Burst >= Cost
         /\ idle * Rate \in Nat /\ (idle + 1) * Rate = idle * Rate + Rate /\ 0 * Rate = 0
<1>1. Rate \in Nat /\ Second \in Nat /\ Cost \in Nat /\ Cost >= 1 /\ idle \in Nat
  BY LimiterAssumption DEF LimiterTypeOK
<1>2. Rate * Second \in Nat /\ idle * Rate \in Nat
  BY <1>1
<1>3. (idle + 1) * Rate = idle * Rate + Rate /\ 0 * Rate = 0
  BY <1>1
<1>. QED  BY <1>1, <1>2, <1>3 DEF Burst

\* A new bucket is full and owes nothing.
LEMMA NewLimiterKeeps ==
  ASSUME tokens = Burst, idle = 0, level = 0
  PROVE  LimiterTypeOK /\ LazyRefill
<1>1. Burst \in Nat /\ 0 * Rate = 0
  BY LimiterAssumption DEF Burst
<1>. QED  BY <1>1 DEF LimiterTypeOK, LazyRefill, Refilled

\* A granted request takes from the tokens what it adds to the level.
LEMMA GrantKeeps ==
  ASSUME LimiterTypeOK, LazyRefill, Grant
  PROVE  LimiterTypeOK' /\ LazyRefill'
<1>1. CASE Rate = 0
  BY <1>1 DEF Grant, bucket, LimiterTypeOK, LazyRefill, Refilled
<1>2. CASE Rate # 0
  <2>1. Refilled \in Nat /\ Refilled <= Burst
    BY LimiterNumbers DEF Refilled, LimiterTypeOK
  <2>2. tokens' = Refilled - Cost /\ idle' = 0 /\ level' = level + Cost /\ Refilled >= Cost
    BY <1>2 DEF Grant
  <2>3. Refilled' = Refilled - Cost
    BY <2>1, <2>2, LimiterNumbers DEF Refilled
  <2>. QED  BY <2>1, <2>2, <2>3, LimiterNumbers DEF LimiterTypeOK, LazyRefill
<1>. QED  BY <1>1, <1>2

\* A refused request only brings the tokens up to date.
LEMMA DenyKeeps ==
  ASSUME LimiterTypeOK, LazyRefill, Deny429
  PROVE  LimiterTypeOK' /\ LazyRefill'
<1>1. Refilled \in Nat /\ Refilled <= Burst
  BY LimiterNumbers DEF Refilled, LimiterTypeOK
<1>2. tokens' = Refilled /\ idle' = 0 /\ level' = level
  BY DEF Deny429
<1>3. Refilled' = Refilled
  BY <1>1, <1>2, LimiterNumbers DEF Refilled
<1>. QED  BY <1>1, <1>2, <1>3, LimiterNumbers DEF LimiterTypeOK, LazyRefill

\* Time adds to the tokens what it takes from the level, up to the burst.
LEMMA ElapseKeeps ==
  ASSUME LimiterTypeOK, LazyRefill, Elapse
  PROVE  LimiterTypeOK' /\ LazyRefill'
<1>1. CASE idle * Rate < Burst
  <2>1. idle' = idle + 1 /\ tokens' = tokens
    BY <1>1 DEF Elapse
  <2>2. idle' * Rate = idle * Rate + Rate
    BY <2>1, LimiterNumbers
  <2>. QED  BY <2>1, <2>2, LimiterNumbers DEF Elapse, Refilled, LimiterTypeOK, LazyRefill
<1>2. CASE ~(idle * Rate < Burst)
  <2>1. idle' = idle /\ tokens' = tokens
    BY <1>2 DEF Elapse
  <2>2. tokens \in Nat /\ Burst \in Nat /\ idle * Rate \in Nat
    BY LimiterNumbers DEF LimiterTypeOK
  <2>3. Refilled = Burst
    BY <1>2, <2>2 DEF Refilled
  <2>4. Refilled' = Burst
    <3>1. idle' * Rate = idle * Rate
      BY <2>1
    <3>. QED  BY <1>2, <2>1, <2>2, <3>1 DEF Refilled
  <2>. QED  BY <2>1, <2>2, <2>3, <2>4, LimiterNumbers DEF Elapse, LimiterTypeOK, LazyRefill
<1>. QED  BY <1>1, <1>2

\* Without a step of the limiter nothing changes.
LEMMA BucketStays ==
  ASSUME LimiterTypeOK, LazyRefill, UNCHANGED bucket
  PROVE  LimiterTypeOK' /\ LazyRefill'
  BY DEF bucket, LimiterTypeOK, LazyRefill, Refilled

-----------------------------------------------------------------------------
(***************************************************************************)
(* The watcher.  WInv is the part of the invariant about it.               *)
(***************************************************************************)
SeenOk == seen \in [Agents -> 0..Latest]

WInv == WatcherTypeOK /\ PlanesAgree /\ Applying /\ Reported /\ SeenOk /\ Ordered

\* A new revision leaves the ones before it as they are.
LEMMA EditKeeps ==
  ASSUME WInv, Edit, UNCHANGED seen
  PROVE  WInv'
<1>1. PICK d \in Document \cup {Absent} : revisions' = Append(revisions, d)
  BY DEF Edit
<1>2. /\ revisions' \in Seq(Document \cup {Absent}) /\ Latest' = Latest + 1 /\ Latest \in Nat
      /\ \A r \in 1..Latest : revisions'[r] = revisions[r]
  BY <1>1 DEF WInv, WatcherTypeOK, Latest
<1>3. UNCHANGED <<pc, from, cursor, object, old, rego, lkg, bundle, alarmed, crashes, failures>>
  BY DEF Edit, local, planes
<1>4. WatcherTypeOK'
  BY <1>2, <1>3, DesiredPolicyAssumption DEF WInv, WatcherTypeOK, Edit
<1>5. \A r \in 0..Latest : Deny(r)' = Deny(r)
  BY <1>2 DEF Deny
<1>6. PlanesAgree' /\ Ordered'
  BY <1>3 DEF WInv, PlanesAgree, Ordered
<1>7. Applying'
  <2>1. pc \in ApplyLabels => revisions'[object] = revisions[object]
    BY <1>2 DEF WInv, Applying
  <2>. QED  BY <1>2, <1>3, <2>1 DEF WInv, Applying, Valid, ApplyLabels
<1>8. Reported'
  <2>1. Deny(bundle)' = Deny(bundle) /\ Deny(old)' = Deny(old)
    BY <1>3, <1>5 DEF WInv, WatcherTypeOK
  <2>. QED  BY <1>3, <2>1 DEF WInv, Reported
<1>9. SeenOk'
  BY <1>2 DEF WInv, SeenOk
<1>. QED  BY <1>4, <1>6, <1>7, <1>8, <1>9 DEF WInv

\* A GET moves the cursor to the latest revision and may start an apply.
LEMMA GetKeeps ==
  ASSUME WInv, Get, UNCHANGED seen
  PROVE  WInv'
<1>1. /\ UNCHANGED <<revisions, rego, lkg, bundle, alarmed, crashes, failures>>
      /\ pc = "get" /\ cursor' = Latest /\ Apply(Latest, "open") /\ Latest' = Latest
      /\ Latest \in Nat /\ Latest >= 1
  BY DEF Get, planes, WInv, WatcherTypeOK, Latest
<1>2. \A r : Deny(r)' = Deny(r) /\ Valid(revisions[r])' = Valid(revisions[r])
  BY <1>1 DEF Deny, Valid
<1>3. CASE Valid(revisions[Latest])
  <2>1. pc' = "reload" /\ from' = "open" /\ object' = Latest /\ old' = lkg
    BY <1>1, <1>3 DEF Apply
  <2>2. WatcherTypeOK' /\ SeenOk'
    BY <1>1, <2>1 DEF WInv, WatcherTypeOK, SeenOk
  <2>3. PlanesAgree' /\ Applying'
    BY <1>1, <1>2, <1>3, <2>1 DEF WInv, WatcherTypeOK, PlanesAgree, Applying, ApplyLabels
  <2>4. Reported'
    BY <1>1, <1>2, <2>1 DEF WInv, Reported
  <2>5. Ordered'
    BY <1>1, <2>1 DEF WInv, WatcherTypeOK, SeenOk, PlanesAgree, Ordered
  <2>. QED  BY <2>2, <2>3, <2>4, <2>5 DEF WInv
<1>4. CASE ~Valid(revisions[Latest])
  <2>1. pc' = "open" /\ UNCHANGED <<from, object, old>>
    BY <1>1, <1>4 DEF Apply
  <2>2. WatcherTypeOK' /\ SeenOk'
    BY <1>1, <2>1 DEF WInv, WatcherTypeOK, SeenOk
  <2>3. PlanesAgree' /\ Applying'
    BY <1>1, <2>1 DEF WInv, PlanesAgree, Applying, ApplyLabels
  <2>4. Reported'
    BY <1>1, <1>2, <2>1 DEF WInv, Reported
  <2>5. Ordered'
    BY <1>1, <2>1 DEF WInv, WatcherTypeOK, SeenOk, Ordered
  <2>. QED  BY <2>2, <2>3, <2>4, <2>5 DEF WInv
<1>. QED  BY <1>3, <1>4

\* An event moves the cursor by one and may start an apply.
LEMMA EventKeeps ==
  ASSUME WInv, Event, UNCHANGED seen
  PROVE  WInv'
<1>1. /\ UNCHANGED <<revisions, rego, lkg, bundle, alarmed, crashes, failures>>
      /\ pc = "watch" /\ cursor' = cursor + 1 /\ Latest' = Latest
      /\ cursor \in Nat /\ cursor + 1 \in 1..Latest /\ Latest \in Nat
  BY DEF Event, planes, WInv, WatcherTypeOK, Latest
<1>2. \A r : Deny(r)' = Deny(r) /\ Valid(revisions[r])' = Valid(revisions[r])
  BY <1>1 DEF Deny, Valid
<1>3. CASE pc' = "reload" /\ from' = "watch" /\ object' = cursor + 1 /\ old' = lkg
           /\ Valid(revisions[cursor + 1])
  <2>2. WatcherTypeOK' /\ SeenOk'
    BY <1>1, <1>3 DEF WInv, WatcherTypeOK, SeenOk
  <2>3. PlanesAgree' /\ Applying'
    BY <1>1, <1>2, <1>3 DEF WInv, WatcherTypeOK, PlanesAgree, Applying, ApplyLabels
  <2>4. Reported'
    BY <1>1, <1>2, <1>3 DEF WInv, Reported
  <2>5. Ordered'
    BY <1>1, <1>3 DEF WInv, WatcherTypeOK, SeenOk, PlanesAgree, Ordered
  <2>. QED  BY <2>2, <2>3, <2>4, <2>5 DEF WInv
<1>4. CASE pc' = "watch" /\ UNCHANGED <<from, object, old>>
  <2>2. WatcherTypeOK' /\ SeenOk'
    BY <1>1, <1>4 DEF WInv, WatcherTypeOK, SeenOk
  <2>3. PlanesAgree' /\ Applying'
    BY <1>1, <1>4 DEF WInv, PlanesAgree, Applying, ApplyLabels
  <2>4. Reported'
    BY <1>1, <1>2, <1>4 DEF WInv, Reported
  <2>5. Ordered'
    BY <1>1, <1>4 DEF WInv, WatcherTypeOK, SeenOk, Ordered
  <2>. QED  BY <2>2, <2>3, <2>4, <2>5 DEF WInv
<1>. QED  BY <1>1, <1>3, <1>4 DEF Event, Apply

\* Failed requests, pauses and the ends of streams touch no plane.
LEMMA ConnectionKeeps ==
  ASSUME WInv, GetFails \/ Wake \/ OpenWatch \/ StreamEnds, UNCHANGED seen
  PROVE  WInv'
<1>1. /\ UNCHANGED <<revisions, from, cursor, object, old, rego, lkg, bundle, alarmed,
                     crashes, failures>>
      /\ Latest' = Latest
      /\ pc \in {"get", "sleep", "open", "watch"} /\ pc' \in {"get", "sleep", "watch"}
      /\ pc' = "watch" => pc = "open"
  BY DEF GetFails, Wake, OpenWatch, StreamEnds, local, planes, Latest
<1>2. \A r : Deny(r)' = Deny(r)
  BY <1>1 DEF Deny
<1>3. WatcherTypeOK' /\ SeenOk' /\ PlanesAgree' /\ Applying' /\ Ordered'
  BY <1>1 DEF WInv, WatcherTypeOK, SeenOk, PlanesAgree, Applying, ApplyLabels, Ordered
<1>4. Reported'
  BY <1>1, <1>2 DEF WInv, Reported
<1>. QED  BY <1>3, <1>4 DEF WInv

\* The steps of ApplyValidated move one plane each.
LEMMA ApplyKeeps ==
  ASSUME WInv, Reload \/ ReloadFails \/ Store \/ Publish, UNCHANGED seen
  PROVE  WInv'
<1>1. UNCHANGED <<revisions, from, cursor, object, old, alarmed, crashes>> /\ Latest' = Latest
  BY DEF Reload, ReloadFails, Store, Publish, local, planes, Latest
<1>2. \A r : Deny(r)' = Deny(r) /\ Valid(revisions[r])' = Valid(revisions[r])
  BY <1>1 DEF Deny, Valid
<1>3. pc \in ApplyLabels /\ object \in 1..Latest /\ object = cursor
  BY DEF WInv, Applying, ApplyLabels, Reload, ReloadFails, Store, Publish
<1>4. WatcherTypeOK' /\ SeenOk'
  BY <1>1, <1>3 DEF WInv, WatcherTypeOK, SeenOk, Reload, ReloadFails, Store, Publish, planes
<1>5. PlanesAgree' /\ Applying'
  BY <1>1, <1>2, <1>3 DEF WInv, WatcherTypeOK, PlanesAgree, Applying, ApplyLabels, Reload,
     ReloadFails, Store, Publish, planes
<1>6. Reported'
  BY <1>1, <1>2, <1>3 DEF WInv, WatcherTypeOK, PlanesAgree, Applying, Reported, Reload,
     ReloadFails, Store, Publish, planes
<1>7. Ordered'
  BY <1>1, <1>3 DEF WInv, WatcherTypeOK, SeenOk, PlanesAgree, Applying, Ordered, ApplyLabels,
     Reload, ReloadFails, Store, Publish, planes
<1>. QED  BY <1>4, <1>5, <1>6, <1>7 DEF WInv

\* The audit reports what the new policy drops; what the old one dropped was
\* reported before, and a document without the flag drops nothing.
LEMMA AuditKeeps ==
  ASSUME WInv, Audit, UNCHANGED seen
  PROVE  WInv'
<1>1. /\ UNCHANGED <<revisions, from, cursor, object, old, rego, lkg, bundle, crashes, failures>>
      /\ Latest' = Latest /\ pc = "audit" /\ pc' = from /\ pc' \in {"open", "watch"}
  BY DEF Audit, local, planes, WInv, WatcherTypeOK, Latest
<1>2. bundle = object /\ object \in 1..Latest /\ Valid(revisions[object])
  BY <1>1 DEF WInv, Applying, ApplyLabels
<1>3. Deny(object) = revisions[object].deny /\ Deny(bundle)' = Deny(object)
  BY <1>1, <1>2 DEF Deny
<1>4. Floor \ Deny(object) \subseteq alarmed'
  <2>1. CASE Floor \subseteq Deny(object)
    BY <2>1
  <2>2. CASE revisions[object].removal
    <3>1. alarmed' = (alarmed \cup ((Floor \cap Deny(old)) \ Deny(object))) \ Deny(object)
      BY <2>2 DEF Audit, RemovedInDiff
    <3>2. Floor \ Deny(old) \subseteq alarmed
      BY <1>1 DEF WInv, Reported
    <3>. QED  BY <3>1, <3>2
  <2>. QED  BY <1>2, <1>3, <2>1, <2>2 DEF Valid
<1>5. alarmed' \subseteq Floor
  BY DEF Audit, RemovedInDiff, WInv, WatcherTypeOK
<1>6. WatcherTypeOK' /\ SeenOk'
  BY <1>1, <1>5 DEF WInv, WatcherTypeOK, SeenOk
<1>7. PlanesAgree' /\ Applying' /\ Ordered'
  BY <1>1 DEF WInv, WatcherTypeOK, PlanesAgree, Applying, Ordered, ApplyLabels
<1>8. Reported'
  BY <1>1, <1>3, <1>4 DEF Reported
<1>. QED  BY <1>6, <1>7, <1>8 DEF WInv

\* A crash forgets everything; the agents keep what they have.
LEMMA CrashKeeps ==
  ASSUME WInv, Crash, UNCHANGED seen
  PROVE  WInv'
<1>1. Latest' = Latest /\ Latest \in Nat
  BY DEF Crash, WInv, WatcherTypeOK, Latest
<1>. QED  BY <1>1 DEF Crash, WInv, WatcherTypeOK, SeenOk, PlanesAgree, Applying, ApplyLabels,
     Reported, Ordered

\* A new process has the bootstrap list on both planes.
LEMMA RestartKeeps ==
  ASSUME WInv, Restart, UNCHANGED seen
  PROVE  WInv'
<1>1. /\ UNCHANGED <<revisions, from, cursor, object, old, rego, lkg, bundle, alarmed,
                     crashes, failures>>
      /\ Latest' = Latest /\ pc = "down" /\ pc' = "get"
  BY DEF Restart, local, planes, Latest
<1>2. WatcherTypeOK' /\ SeenOk' /\ PlanesAgree' /\ Applying' /\ Ordered'
  BY <1>1 DEF WInv, WatcherTypeOK, SeenOk, PlanesAgree, Applying, ApplyLabels, Ordered
<1>3. Reported'
  <2>1. bundle = 0 /\ Deny(bundle)' = Floor
    BY <1>1 DEF WInv, Applying, Deny
  <2>. QED  BY <1>1, <2>1 DEF Reported
<1>. QED  BY <1>2, <1>3 DEF WInv

\* What a step of another part leaves of the watcher's invariant: all of it.
LEMMA WatcherStays ==
  ASSUME WInv, UNCHANGED watcherVars, UNCHANGED seen
  PROVE  WInv'
<1>1. /\ UNCHANGED <<revisions, pc, from, cursor, object, old, rego, lkg, bundle, alarmed,
                     crashes, failures>>
      /\ Latest' = Latest
  BY DEF watcherVars, local, planes, Latest
<1>2. \A r : Deny(r)' = Deny(r) /\ Valid(revisions[r])' = Valid(revisions[r])
  BY <1>1 DEF Deny, Valid
<1>3. WatcherTypeOK' /\ SeenOk' /\ PlanesAgree' /\ Ordered'
  BY <1>1 DEF WInv, WatcherTypeOK, SeenOk, PlanesAgree, Ordered
<1>4. Applying' /\ Reported'
  BY <1>1, <1>2 DEF WInv, Applying, Reported
<1>. QED  BY <1>3, <1>4 DEF WInv

\* An agent that is answered has the bundle plane.
LEMMA AnswerKeeps ==
  ASSUME WInv, UNCHANGED watcherVars, NEW c \in Agents, seen' = [seen EXCEPT ![c] = bundle]
  PROVE  WInv'
<1>1. /\ UNCHANGED <<revisions, pc, from, cursor, object, old, rego, lkg, bundle, alarmed,
                     crashes, failures>>
      /\ Latest' = Latest
  BY DEF watcherVars, local, planes, Latest
<1>2. \A r : Deny(r)' = Deny(r) /\ Valid(revisions[r])' = Valid(revisions[r])
  BY <1>1 DEF Deny, Valid
<1>3. SeenOk' /\ \A a \in Agents : seen'[a] = IF a = c THEN bundle ELSE seen[a]
  BY <1>1 DEF WInv, SeenOk, WatcherTypeOK
<1>4. WatcherTypeOK' /\ PlanesAgree'
  BY <1>1 DEF WInv, WatcherTypeOK, PlanesAgree
<1>5. Ordered'
  BY <1>1, <1>3 DEF WInv, WatcherTypeOK, Ordered
<1>6. Applying' /\ Reported'
  BY <1>1, <1>2 DEF WInv, Applying, Reported
<1>. QED  BY <1>3, <1>4, <1>5, <1>6 DEF WInv

-----------------------------------------------------------------------------
(***************************************************************************)
(* The composition.                                                        *)
(***************************************************************************)
\* The invariant is its two halves.
LEMMA Halves == IInv <=> WInv /\ LimiterTypeOK /\ LazyRefill
  BY DEF IInv, WInv, TypeOK, SeenOk

\* The engine starts with the invariant.
LEMMA Initially == Init => IInv
<1>. SUFFICES ASSUME Init PROVE IInv
  OBVIOUS
<1>1. PICK d \in Document \cup {Absent} : revisions = <<d>>
  BY DEF Init, WatcherInit
<1>2. revisions \in Seq(Document \cup {Absent}) /\ Latest = 1
  BY <1>1 DEF Latest
<1>3. Deny(0) = Floor
  BY DEF Deny
<1>4. WInv
  BY <1>2, <1>3, DesiredPolicyAssumption DEF Init, WatcherInit, WInv, WatcherTypeOK, SeenOk,
     PlanesAgree, Applying, ApplyLabels, Reported, Ordered
<1>5. LimiterTypeOK /\ LazyRefill
  BY NewLimiterKeeps DEF Init, NewLimiter
<1>. QED  BY <1>4, <1>5, Halves

\* Every step keeps the invariant.
LEMMA StepKeeps ==
  ASSUME IInv, [Next]_vars
  PROVE  IInv'
<1>0. WInv /\ LimiterTypeOK /\ LazyRefill
  BY Halves
<1>h. WInv' /\ LimiterTypeOK' /\ LazyRefill' => IInv'
  BY DEF IInv, WInv, TypeOK, SeenOk
<1>1. CASE Engine
  <2>1. UNCHANGED bucket /\ UNCHANGED seen /\ Watcher
    BY <1>1 DEF Engine
  <2>2. LimiterTypeOK' /\ LazyRefill'
    BY <1>0, <2>1, BucketStays
  <2>3. WInv'
    BY <1>0, <2>1, GetKeeps, EventKeeps, ConnectionKeeps, ApplyKeeps, AuditKeeps DEF Watcher
  <2>. QED  BY <1>h, <2>2, <2>3
<1>2. CASE Reboot
  <2>1. WInv'
    BY <1>0, <1>2, RestartKeeps DEF Reboot
  <2>2. LimiterTypeOK' /\ LazyRefill'
    <3>1. tokens' = Burst /\ idle' = 0 /\ level' = 0 /\ Burst \in Nat /\ 0 * Rate = 0
      BY <1>0, <1>2, LimiterNumbers DEF Reboot
    <3>. QED  BY <3>1 DEF LimiterTypeOK, LazyRefill, Refilled
  <2>. QED  BY <1>h, <2>1, <2>2
<1>3. CASE Time
  BY <1>0, <1>3, <1>h, ElapseKeeps, WatcherStays DEF Time
<1>4. CASE (Edit \/ Crash) /\ UNCHANGED <<bucket, seen>>
  <2>1. WInv'
    BY <1>0, <1>4, EditKeeps, CrashKeeps
  <2>2. LimiterTypeOK' /\ LazyRefill'
    BY <1>0, <1>4, BucketStays
  <2>. QED  BY <1>h, <2>1, <2>2
<1>5. CASE \E c \in Client : Serve(c)
  <2>1. LimiterTypeOK' /\ LazyRefill'
    BY <1>0, <1>5, GrantKeeps DEF Serve
  <2>2. WInv'
    BY <1>0, <1>5, AnswerKeeps, WatcherStays DEF Serve
  <2>. QED  BY <1>h, <2>1, <2>2
<1>6. CASE \E c \in Client : Throttled(c)
  <2>1. LimiterTypeOK' /\ LazyRefill'
    BY <1>0, <1>6, DenyKeeps DEF Throttled
  <2>2. WInv'
    BY <1>0, <1>6, WatcherStays DEF Throttled
  <2>. QED  BY <1>h, <2>1, <2>2
<1>7. CASE UNCHANGED vars
  BY <1>0, <1>7, <1>h, BucketStays, WatcherStays DEF vars
<1>. QED  BY <1>1, <1>2, <1>3, <1>4, <1>5, <1>6, <1>7 DEF Next

\* The invariant holds in every state of every behaviour.
LEMMA Invariance == Spec => []IInv
  BY Initially, StepKeeps, PTL DEF Spec

-----------------------------------------------------------------------------
(***************************************************************************)
(* The theorems.                                                           *)
(***************************************************************************)
\* Every state of the engine is well typed; the bucket never owes tokens.
THEOREM TypeCorrect == Spec => []TypeOK
<1>1. IInv => TypeOK
  BY DEF IInv
<1>. QED  BY <1>1, Invariance, PTL

\* Outside an apply both planes come from one revision (store.go, ApplyValidated).
THEOREM PlanesNeverSplit == Spec => []PlanesAgree
<1>1. IInv => PlanesAgree
  BY DEF IInv
<1>. QED  BY <1>1, Invariance, PTL

\* A floor prefix that the bundle lacks was reported by this process (audit.go).
THEOREM FloorRemovalAlwaysReported == Spec => []FloorRemovalReported
<1>1. IInv => FloorRemovalReported
  BY DEF IInv, Reported, FloorRemovalReported
<1>. QED  BY <1>1, Invariance, PTL

\* The limiter never grants more than its burst beyond the rate (ratelimit.go, Allow).
THEOREM BudgetNeverExceeded == Spec => []BudgetKept
<1>1. IInv => BudgetKept
  <2>. SUFFICES ASSUME IInv PROVE BudgetKept
    OBVIOUS
  <2>1. LimiterTypeOK /\ LazyRefill
    BY DEF IInv, TypeOK
  <2>2. Refilled \in Nat /\ Burst \in Nat /\ level \in Nat
    BY <2>1, LimiterNumbers DEF Refilled, LimiterTypeOK
  <2>. QED  BY <2>1, <2>2 DEF LazyRefill, BudgetKept
<1>. QED  BY <1>1, Invariance, PTL

\* An agent goes back only to the bootstrap, and only after a crash (watch.go, Run).
THEOREM AgentsMonotone == Spec => AgentsNeverGoBack
<1>1. ASSUME IInv, [Next]_vars, NEW a \in Agents, seen'[a] < seen[a]
      PROVE  seen'[a] = 0 /\ crashes > 0
  <2>1. \/ \E c \in Client : c \in Agents /\ seen' = [seen EXCEPT ![c] = bundle]
        \/ seen' = seen
    BY <1>1 DEF Next, vars, Engine, Reboot, Time, Serve, Throttled
  <2>2. seen \in [Agents -> 0..Latest] /\ Latest \in Nat /\ bundle \in 0..Latest
    BY <1>1 DEF IInv, TypeOK, WatcherTypeOK
  <2>3. seen'[a] = bundle /\ seen[a] > bundle
    BY <1>1, <2>1, <2>2
  <2>. QED  BY <1>1, <2>2, <2>3 DEF IInv, Ordered
<1>2. IInv /\ [Next]_vars =>
        [\A a \in Agents : seen'[a] < seen[a] => seen'[a] = 0 /\ crashes > 0]_vars
  BY <1>1
<1>. QED  BY <1>2, Invariance, PTL DEF Spec, AgentsNeverGoBack
=============================================================================
