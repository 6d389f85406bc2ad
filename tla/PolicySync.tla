----------------------------- MODULE PolicySync -----------------------------
(***************************************************************************)
(* The policy-sync task (policy_sync.rs, identity_allow.rs, path_deny.rs)  *)
(* in real time: one request per interval, the deny list and the VALID     *)
(* flag of the identity exceptions it applies, outages, throttling, and a  *)
(* process that dies and comes back under a program that stays attached.   *)
(*                                                                         *)
(* Time is kept in countdowns, so that behaviours are not cut off by a     *)
(* last instant: due is what is left of the interval, ttl is expires_at    *)
(* minus now, age is last_success.elapsed().  ttl and age stop at values   *)
(* that no test of the code and no property tells from later ones.  Steps  *)
(* of the task take no time except the request and the backoff.            *)
(***************************************************************************)
EXTENDS Integers

CONSTANTS
  Version,     \* content versions of a bundle, each a deny list and a section
  Bootstrap,   \* last_version "bootstrap" and the list it stands for
  Resumed,     \* last_version "pinned-resume"
  Unusable,    \* versions whose deny list is too long or has a prefix too long
  WithSection, \* versions whose identity section has the required scope
  Slots,       \* writes of one apply: the entries, the count, the cleared slots
  Modes,       \* what a process finds: all it needs (idle), no URL (off), no
               \* token or no key (locked), no HTTP client (broken)
  Interval,    \* POLICY_SYNC_INTERVAL
  Timeout,     \* of the HTTP request
  TTL,         \* IdentityExceptionTTL
  Window,      \* DefaultBundleValidityWindow
  Skew,        \* BUNDLE_CLOCK_SKEW
  MaxBackoff,  \* cap of Retry-After
  StaleAfter,  \* POLICY_STALE_AFTER
  Offsets,     \* clock of the policy engine minus clock of the node
  MaxCrashes,  \* bound: deaths of the process
  MaxFailures, \* bound: failing writes of the deny list
  NoReply

Larger(a, b) == IF a >= b THEN a ELSE b

\* The longest time between two looks at expires_at.
Gap == Larger(Interval, Larger(MaxBackoff, Timeout))

ASSUME PolicySyncAssumption ==
  /\ Slots \in Nat \ {0} /\ Interval \in Nat \ {0} /\ Timeout \in Nat
  /\ TTL \in Nat \ {0} /\ Window \in Nat /\ Skew \in Nat
  /\ MaxBackoff \in Nat /\ StaleAfter \in Nat /\ Offsets \subseteq Int
  /\ MaxCrashes \in Nat /\ MaxFailures \in Nat
  /\ Modes \subseteq {"idle", "off", "locked", "broken"} /\ Modes # {}
  /\ Unusable \subseteq Version /\ WithSection \subseteq Version
  /\ Bootstrap \notin Version /\ Resumed \notin Version
  /\ Resumed # Bootstrap
  /\ NoReply \notin [version : Version, age : Nat]

VARIABLES
  pc,          \* the task: idle, fetch, apply, sleep, or a mode without sync;
               \* down without a process
  due, wait,   \* until the next tick; until the timeout or the end of the backoff
  reply,       \* the bundle on its way, and since when
  known, ttl,  \* identity_expires_at is Some; minus now
  valid,       \* ID_EXCEPT_VALID of the attached program
  deny,        \* the list that each written element of the maps belongs to
  target, next,\* apply_deny_entries: the list and the slot
  lastVersion, age, stale,  \* PolicySyncState
  served, offset,           \* the policy engine
  crashes, failures

task == <<pc, due, wait, next, target>>
identity == <<known, ttl, valid>>
state == <<lastVersion, age, stale>>
engine == <<served, offset>>
bounds == <<crashes, failures>>
vars == <<task, reply, identity, deny, state, engine, bounds>>

\* The first tick of the interval is at once; the modes without sync sleep first.
FirstDue(m) == IF m = "idle" THEN 0 ELSE Interval

Init ==
  /\ pc \in Modes /\ due = FirstDue(pc) /\ wait = 0 /\ reply = NoReply
  /\ known = FALSE /\ ttl = 0 /\ valid = FALSE
  /\ deny = [s \in 1..Slots |-> Bootstrap] /\ target = Bootstrap /\ next = 1
  /\ lastVersion = Bootstrap /\ age = 0 /\ stale = FALSE
  /\ served \in Version /\ offset \in Offsets
  /\ crashes = 0 /\ failures = 0

-----------------------------------------------------------------------------
MaxAge == StaleAfter + Gap + Timeout + 1

\* A step of the task is waiting to be taken.
Urgent ==
  \/ pc \in {"idle", "off", "locked"} /\ due = 0
  \/ pc \in {"fetch", "sleep"} /\ wait = 0
  \/ pc = "apply"

Down(n) == IF n > 0 THEN n - 1 ELSE 0

Advance ==
  /\ ~Urgent
  /\ due' = Down(due) /\ wait' = Down(wait)
  /\ ttl' = IF ttl > -Gap THEN ttl - 1 ELSE ttl
  /\ age' = IF age < MaxAge THEN age + 1 ELSE age
  /\ reply' = IF reply = NoReply THEN NoReply ELSE [reply EXCEPT !.age = @ + 1]
  /\ UNCHANGED <<pc, target, next, known, valid, deny, lastVersion, stale, engine,
                 bounds>>

PolicyChange ==
  /\ served' \in Version \ {served}
  /\ UNCHANGED <<task, reply, identity, deny, state, offset, bounds>>

\* CurrentAt mints the timestamps when the request is answered.
Answer ==
  /\ pc = "fetch" /\ reply = NoReply
  /\ reply' = [version |-> served, age |-> 0]
  /\ UNCHANGED <<task, identity, deny, state, engine, bounds>>

-----------------------------------------------------------------------------
\* invalidate_if_expired: no section, or its time is over.
Expired == ~known \/ ttl <= 0

\* Wrong variant: the TTL is looked at when a request fails, not on every tick.
Tick_NoTtlCheck ==
  /\ pc = "idle" /\ due = 0
  /\ pc' = "fetch" /\ due' = Interval /\ wait' = Timeout
  /\ UNCHANGED <<valid, reply, known, ttl, deny, target, next, state, engine, bounds>>

\* A tick: a late one starts a full interval (MissedTickBehavior::Delay).
Tick ==
  /\ pc = "idle" /\ due = 0
  /\ valid' = (valid /\ ~Expired)
  /\ pc' = "fetch" /\ due' = Interval /\ wait' = Timeout
  /\ UNCHANGED <<reply, known, ttl, deny, target, next, state, engine, bounds>>

\* refresh_stale_flag
Late == age > StaleAfter

\* The error branch: the stale flag and the TTL are looked at again.
Fail(k, t, v) ==
  /\ stale' = Late
  /\ valid' = (v /\ k /\ t > 0)
  /\ UNCHANGED <<lastVersion, age>>

\* No answer, an error status, a bad signature, a body that does not parse, or
\* VALID that cannot be written.
Reject ==
  /\ pc = "fetch" /\ pc' = "idle" /\ reply' = NoReply
  /\ Fail(known, ttl, valid)
  /\ UNCHANGED <<due, wait, known, ttl, deny, target, next, engine, bounds>>

\* Wrong variant: Retry-After is taken as it comes.
Throttle_Uncapped ==
  /\ pc = "fetch" /\ pc' = "sleep" /\ reply' = NoReply
  /\ wait' \in 0..(2 * MaxBackoff)
  /\ Fail(known, ttl, valid)
  /\ UNCHANGED <<due, known, ttl, deny, target, next, engine, bounds>>

\* HTTP 429: Retry-After in seconds, capped, or the default backoff.
Throttle ==
  /\ pc = "fetch" /\ pc' = "sleep" /\ reply' = NoReply
  /\ wait' \in 0..MaxBackoff
  /\ Fail(known, ttl, valid)
  /\ UNCHANGED <<due, known, ttl, deny, target, next, engine, bounds>>

Wake ==
  /\ pc = "sleep" /\ wait = 0 /\ pc' = "idle"
  /\ UNCHANGED <<due, wait, reply, identity, deny, target, next, state, engine, bounds>>

\* now minus not_before, and what is left of the identity section, on the node.
Issued == reply.age - offset
TemporalOk == -Issued <= Skew /\ Issued <= Window + Skew
Fresh == reply.version \in WithSection /\ TTL - Issued > 0

\* verify_bundle_temporal fails: as any other failure, nothing is applied.
RejectTemporal ==
  /\ pc = "fetch" /\ reply # NoReply /\ ~TemporalOk
  /\ pc' = "idle" /\ reply' = NoReply
  /\ Fail(known, ttl, valid)
  /\ UNCHANGED <<due, wait, known, ttl, deny, target, next, engine, bounds>>

\* Wrong variant: an unchanged version does not restart the age.
Succeed_KeepsAge(v) ==
  /\ lastVersion' = v /\ stale' = FALSE
  /\ age' = IF v = lastVersion THEN age ELSE 0

\* mark_success
Succeed(v) == lastVersion' = v /\ age' = 0 /\ stale' = FALSE

\* Wrong variant: a bundle without a fresh identity section is refused as a whole.
Accept_NeedsSection ==
  /\ pc = "fetch" /\ reply # NoReply /\ TemporalOk
  /\ reply' = NoReply
  /\ known' = Fresh
  /\ ttl' = IF Fresh THEN TTL - Issued ELSE 0
  /\ \/ /\ reply.version = lastVersion
        /\ pc' = "idle" /\ valid' = Fresh /\ Succeed(lastVersion)
        /\ UNCHANGED <<target, next>>
     \/ /\ reply.version # lastVersion /\ (reply.version \in Unusable \/ ~Fresh)
        /\ pc' = "idle" /\ Fail(Fresh, TTL - Issued, Fresh)
        /\ UNCHANGED <<target, next>>
     \/ /\ reply.version # lastVersion /\ reply.version \notin Unusable /\ Fresh
        /\ pc' = "apply" /\ valid' = Fresh /\ target' = reply.version /\ next' = 1
        /\ UNCHANGED state
  /\ UNCHANGED <<due, wait, deny, engine, bounds>>

\* sync_once from the temporal check on: the identity section is applied before
\* the deny list is even looked at.
Accept ==
  /\ pc = "fetch" /\ reply # NoReply /\ TemporalOk
  /\ reply' = NoReply
  /\ known' = Fresh
  /\ ttl' = IF Fresh THEN TTL - Issued ELSE 0
  /\ \/ /\ reply.version = lastVersion
        /\ pc' = "idle" /\ valid' = Fresh /\ Succeed(lastVersion)
        /\ UNCHANGED <<target, next>>
     \/ /\ reply.version # lastVersion /\ reply.version \in Unusable
        /\ pc' = "idle" /\ Fail(Fresh, TTL - Issued, Fresh)
        /\ UNCHANGED <<target, next>>
     \/ /\ reply.version # lastVersion /\ reply.version \notin Unusable
        /\ pc' = "apply" /\ valid' = Fresh /\ target' = reply.version /\ next' = 1
        /\ UNCHANGED state
  /\ UNCHANGED <<due, wait, deny, engine, bounds>>

\* Wrong variant: the loop stops before the last write.
WriteSlot_Short ==
  /\ pc = "apply"
  /\ deny' = [deny EXCEPT ![next] = target]
  /\ \/ next < Slots - 1 /\ next' = next + 1 /\ UNCHANGED <<pc, state>>
     \/ next >= Slots - 1 /\ pc' = "idle" /\ Succeed(target) /\ UNCHANGED next
  /\ UNCHANGED <<due, wait, target, reply, identity, engine, bounds>>

\* apply_deny_entries, slot by slot; the last one marks the success.
WriteSlot ==
  /\ pc = "apply"
  /\ deny' = [deny EXCEPT ![next] = target]
  /\ \/ next < Slots /\ next' = next + 1 /\ UNCHANGED <<pc, state>>
     \/ next = Slots /\ pc' = "idle" /\ Succeed(target) /\ UNCHANGED next
  /\ UNCHANGED <<due, wait, target, reply, identity, engine, bounds>>

\* A write of the map fails: the slots before it keep the new list.
WriteFails ==
  /\ pc = "apply" /\ failures < MaxFailures
  /\ failures' = failures + 1
  /\ pc' = "idle" /\ Fail(known, ttl, valid)
  /\ UNCHANGED <<due, wait, target, next, reply, known, ttl, deny, engine, crashes>>

\* Without a URL the task marks a success of the bootstrap list; without a token or
\* a key it only looks at its age.
OffTick ==
  /\ pc = "off" /\ due = 0 /\ due' = Interval
  /\ Succeed(Bootstrap)
  /\ UNCHANGED <<pc, wait, target, next, reply, identity, deny, engine, bounds>>

LockedTick ==
  /\ pc = "locked" /\ due = 0 /\ due' = Interval
  /\ stale' = Late
  /\ UNCHANGED <<pc, wait, target, next, reply, identity, deny, lastVersion, age,
                 engine, bounds>>

-----------------------------------------------------------------------------
\* The process ends: the pinned link keeps the program, and with it its maps.
Crash ==
  /\ pc # "down" /\ crashes < MaxCrashes
  /\ pc' = "down" /\ crashes' = crashes + 1 /\ reply' = NoReply
  /\ UNCHANGED <<due, wait, target, next, identity, deny, state, engine, failures>>

\* A new process: the list is resumed from its pins, and the hand-off puts a
\* program with new identity maps in the place of the old one.
Restart ==
  /\ pc = "down" /\ pc' \in Modes
  /\ due' = FirstDue(pc') /\ wait' = 0 /\ next' = 1
  /\ known' = FALSE /\ ttl' = 0 /\ valid' = FALSE
  /\ lastVersion' = Resumed /\ age' = StaleAfter + 1 /\ stale' = TRUE
  /\ UNCHANGED <<target, reply, deny, engine, bounds>>

Task == \/ Tick \/ Reject \/ Throttle \/ Wake \/ RejectTemporal \/ Accept
        \/ WriteSlot \/ WriteFails \/ OffTick \/ LockedTick

Next == Advance \/ PolicyChange \/ Answer \/ Task \/ Crash \/ Restart

Spec == Init /\ [][Next]_vars

\* Time passes, the task is scheduled, the kubelet restarts the agent, and the
\* policy engine's answer arrives again and again.
Fairness == /\ WF_vars(Advance) /\ WF_vars(Task) /\ WF_vars(Restart)
            /\ SF_vars(Answer) /\ SF_vars(Accept)

FairSpec == Spec /\ Fairness
-----------------------------------------------------------------------------
(***************************************************************************)
(* Properties.                                                             *)
(***************************************************************************)
Lists == Version \cup {Bootstrap}

\* The types of the state, with the range of every countdown.
TypeOK ==
  /\ pc \in Modes \cup {"idle", "fetch", "apply", "sleep", "down"}
  /\ due \in 0..Interval /\ wait \in 0..Larger(Timeout, MaxBackoff)
  /\ reply = NoReply \/ reply \in [version : Version, age : Nat]
  /\ known \in BOOLEAN /\ ttl \in Int /\ valid \in BOOLEAN
  /\ deny \in [1..Slots -> Lists] /\ target \in Lists /\ next \in 1..Slots
  /\ lastVersion \in Lists \cup {Resumed} /\ age \in Nat /\ stale \in BOOLEAN
  /\ served \in Version /\ offset \in Offsets
  /\ crashes \in Nat /\ failures \in Nat

\* threat-model.md "When exceeded -> VALID=0 for ALL exceptions": whatever the
\* outages, error statuses and Retry-After values, while the agent runs the
\* exceptions outlive expires_at by less than the longest pause of the task.
ExceptionsExpire == pc # "down" /\ valid => known /\ ttl > -Gap

\* threat-model.md "After 5 minutes without a successful sync state is STALE": the
\* flag that /healthz reports lags by at most one pause and one request, in every
\* mode but the one whose task has ended.
StaleSignalled == pc \notin {"down", "broken"} /\ ~stale => age <= StaleAfter + Gap + Timeout

\* policy_sync.rs: last_version names the list that is enforced, so that the test
\* on an unchanged version may skip the write (unless a write of the map failed).
DenyMatchesVersion ==
  pc \in {"idle", "fetch", "sleep"} /\ lastVersion \in Lists /\ failures = 0 =>
    \A s \in 1..Slots : deny[s] = lastVersion

\* policy_sync.rs: a usable policy that is served from some time on is enforced
\* from some time on, through outages, throttling and deaths of the agent, when
\* the agent runs with sync in the end, the clocks agree and no write of the maps
\* fails.
ClocksAgree == offset <= Skew /\ Timeout - offset <= Window + Skew

PolicyConverges ==
  <>[](pc \notin {"off", "locked", "broken"}) /\ [](ClocksAgree /\ failures = 0) =>
    \A v \in Version \ Unusable :
      <>[](served = v) => <>[](\A s \in 1..Slots : deny[s] = v)

\* startup.rs:242-243 "Fail-closed on agent exit: exceptions die with the process".
ExceptionsDieWithTheAgent == pc = "down" => ~valid
=============================================================================
