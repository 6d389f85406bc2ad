# Neuromesh: TLA+ models, model checking and proofs

This directory models the parts of Neuromesh whose correctness depends on the
order of events: what is enforced while the agent is upgraded, killed and
restarted, which identities are exempt while pods, cgroups and policies change
under it, what becomes of an exec or a connection between the kernel and the
SIEM, and what an agent checks before and while it runs. Paths below are
relative to the repository root.

## 1. The system

Neuromesh is a node agent that denies the execution of binaries under
configured path prefixes with an LSM program, a policy engine that serves the
prefixes and the exempt identities, and services around them.

| Component | State it keeps | Operations | Hard behaviour |
|---|---|---|---|
| Agent start-up and pins (`pin_abi.rs`, `lsm_pin.rs`, `bpf_pin.rs`, `startup.rs`) | bpffs pins: deny maps, staging directories, link, temporary link | assess, stage, resume, load, seed, hand over the link, clean up | kill between any two system calls; upgrade from an older map layout |
| Path deny list (`path_deny.rs`) | deny slots and their count | write slots, count, clear the rest | rewritten under a running LSM program |
| Policy sync (`policy_sync.rs`, `identity_allow.rs`) | last version, staleness, identity TTL, `IDENTITY_EXCEPTIONS_VALID` | tick: fetch, verify, apply, invalidate | TTL expiry between ticks, replayed or refused bundles, locks across an HTTP request |
| Identity correlator (`identity_correlator/`) | side table cgroup -> pod, allow map, allowlist cache, inotify watches | pod add/update/delete, cgroup teardown, overflow resync, revocation | several tasks over shared tables; recycled cgroup ids; lost events |
| Attestation and BTF (`bytecode_attestation.rs`, `btf_offsets.rs`) | none | verify the manifest, resolve three offsets | every order of failures; bit arithmetic of offsets |
| LSM program and tracepoints (`ebpf/src/main.rs`, `bpf/*.bpf.c`) | ring buffers, token bucket, counters | record execs and connections, deny | full rings, fields that cannot be read |
| Ring buffers and monitors (`ringbuf_async_io.rs`, `monitoring/`) | readiness of a descriptor, two channels, the names of processes | drain, decode, forward, drop | lost wake-ups, overload, shutdown during a drain |
| Event loop, normalizer, rules (`event_loop.rs`, `pipeline.rs`, `normalizer.rs`, `rules.rs`) | spawn buckets, batch | select, detect bursts, match, alert | pruning while counting; two sources of one exec |
| Ingestion channel (`ingestion/`) | bounded channel and a counter beside it | offer, send, receive, count | the counter lags behind the channel in both directions |
| Integrity monitor, health (`integrity.rs`, `observability/`) | baseline digest, reported reasons, exported drops | tick, sample, answer | files that change between two ticks |
| Telemetry stream (`telemetry_stream.rs`) | queue, Kafka client, counters | enqueue, connect, encode, produce | a produce that fails after it was written; restart |
| SIEM forwarders (`datadog-forwarder/`, `splunk-hec-forwarder/`) | Kafka offset, queue, attempts, backoff | fetch, enqueue, post, retry | gaps and retention in the log, full queue, lost answers, restart |
| Policy engine (`zt-policy-engine/`) | last known good policy, compiled Rego, token buckets | watch a ConfigMap, validate, apply to two planes, serve bundles | watch loss, half-applied updates, restart |
| Admission webhook (`k8s-admission-webhook/`) | none | mutate and verify pods | - |
| AI threat detector (`ai-threat-detector/`) | consumer offsets | poll, handle, commit | - |
| Dashboard (`security-dashboard/`) | socket, reconnect timer, graph | connect, reconnect, render | - |

The kernel programs hand records to the monitors through ring buffers; the
process monitor and the network monitor hand them on through bounded channels;
the event loop raises alerts into the telemetry stream, the stream writes them
to a Kafka topic, the forwarders read the topic. Policy sync, correlator and
start-up share kernel maps with the LSM program. The policy engine is polled.

### What makes each component correct

- **Start-up and pins.** A program that is attached never enforces an empty,
  half-written or wrong-layout list; the list in force survives upgrade,
  restart and a kill at any system call; an enforcing node is never left with
  pins that every later start refuses; the link hand-off overlaps.
- **Path deny list.** While it is rewritten the LSM loop reads no cleared slot.
- **Policy sync.** Exceptions do not outlive their TTL (by more than a known
  pause), staleness is signalled in time, the recorded version names the list
  that is enforced, a usable policy that stays is enforced in the end.
- **Identity correlator.** The two indexes describe the rows; every key belongs
  to a live, tracked cgroup; a deleted pod does not come back; a revoked
  identity loses its rows; a live manual seed loses its row only by an Invalid
  section, the deletion of its pod or an upsert of its pod.
- **Policy engine.** The verdicts and the bundle come from one revision; agents
  are not sent back to older revisions; no floor prefix goes without a report;
  a valid policy that stays reaches both planes; the limiter keeps its budget.
- **One life of an agent.** Nothing unattested is loaded, and a good node is
  not refused; no record is stranded in a ring or lost without a count; bursts
  are exactly the bursts of the history; alerts say what the exec did; the drop
  policy acts on real pressure; tampering and blocked execs are reported.
- **Delivery of alerts.** Every alert is counted once; the topic holds them in
  the order they were raised, and a copy only where a request failed; a forwarder passes no record; each hop is a channel
  that loses and counts, and neither invents nor reorders; what a worker takes
  is settled.

The places where this is hard to test are listed in `PROJECT.json` under
`hazards`, each with its line and the properties that cover it.

## 2. Plan

| Step | Modules | State |
|---|---|---|
| A. Pins and start-up | `EnforcementPins`, `MCEnforcementPins`, `EnforcementPins_proofs`, `PinsSurvival_proofs` | checked, every safety property proved |
| B. Identity correlator | `SideTable`, `IdentityCorrelator` (composes it), `MCIdentityCorrelator`, `IdentityCorrelator_proofs` | checked, every safety property proved |
| C. Policy sync | `PolicySync`, `MCPolicySync`, `PolicySync_proofs` | checked, proved |
| D. Policy engine | `DesiredPolicy`, `AggregateLimiter`, `PolicyEngine` (composes them), `MCPolicyEngine`, `PolicyEngine_proofs` | checked, proved |
| E. Delivery of alerts | `KafkaLog`, `TelemetryStream`, `SiemForwarder`, `AlertDelivery` (composes them), `LossyChannel` (abstract), `MCAlertDelivery`, `AlertDelivery_proofs` | checked, proved, refinement proved |
| F. One life of an agent | `RingBuf`, `ExecCapture`, `ExecTelemetry`, `NetworkIngestion`, `BytecodeAttestation`, `BtfOffsets`, `IntegrityMonitor`, `AgentRuntime` (composes them), `MCAgentRuntime`, `AgentRuntime_proofs`, `RuntimeAlerts_proofs` | checked, every safety property proved |
| G. What is left | the Rego decision beside the LSM verdict, the admission checks, the detector's consumer, the dashboard's socket, bearer token rotation | not modelled, see section 7 |

The order is by consequence: A and C decide what is denied on a node, B who is
exempt, D what every node is told, E and F what is reported of it.

## 3. Modules and the code

`PROJECT.json` (`map`) gives the source lines of every definition. In all
modules a death of the process is an action that may happen at any step; a
definition named `X_Something` and marked "Wrong variant" is a deliberate
mistake in `X`, kept to show that a property is able to fail.

### 3.1 EnforcementPins

State: the kernel's map objects (`lists`, `counts`), the bpffs tree (`pin`,
`staged`, `dirs`, `proc`, `procStaged`), the pinned links (`link`, `linkTmp`),
and the process: `pc` and the local variables of `prepare_pin_root_for_load`,
`attest_and_load_enforcement` and `attach_and_pin_lsm_fail_closed`. Each action
is one system call that changes bpffs or a map: assessing (`AssessKeep`,
`AssessLegacy`, `AssessResume`, `AssessIncompatible`), staging (`StageCount`,
`StageList`), resuming an interrupted staging (`CompleteList`,
`CompleteCount`, `ReadStaged`, `FreeList`, `FreeCount`), `RecreateProc`,
`Classify`, `LoadMap`, `Seed`, `WriteSlot`, `WriteCount`, `ClearRest`,
`LsmLoad`, the hand-off (`RemoveStaleTmp`, `Attach`, `PinTmp`,
`RemoveOldLink`, `RenameLink`, `Reopen`), `CleanupDir`, `FinishStart`.
`SyncPolicy` rewrites the list of a running agent. `Crash` drops the file
descriptors; what no pin and no file descriptor refers to ceases to exist.
A list entry is a prefix, a layout is `legacy`, `current` or `unknown`.

### 3.2 SideTable and IdentityCorrelator

`SideTable` holds the operators of `side_table.rs`: the rows and the two
indexes, with `Insert`, `RemoveRows`, `RemoveByPod`, `Revoked` exactly as they
update each of the three maps. `IdentityCorrelator` runs four tasks over that
table, the allow map and the allowlist: the correlator (`ListPods`, `Sweep`,
`SpawnPodWatch`, `TakeBatch`, `Teardown`, `TakeDeleted`, `TakeUpsert`,
`Resolve`, `InsertRow`, `Seed`, `SendWatch`), the policy sync as far as it
touches identities (`Fetch` ... `RevokeKeys`, holding the map lock from `Fetch`
to the end of the request), the inotify worker (`Command`, `Poll`, `Drain`) and
main registering manual seeds. An action ends where the code gives up a lock or
awaits. The environment creates and removes container leaves, recycles inodes,
changes and deletes pods, loses the pod watch, overflows the inotify queue and
changes the served section. The variable `holes` records, for each leaf, why
the code can no longer see its removal.

### 3.3 PolicySync

The task of `spawn_policy_sync` in discrete real time: `due` and `wait` count
down to the next tick, the request's timeout or the end of a pause; `ttl` is
`identity_expires_at` minus now. `Advance` lets one unit pass and is disabled
while something is due, so that deadlines are met exactly. One action per
outcome of a tick: `Fail`, `Reject`, `Throttle`, `RejectTemporal`, `Accept`,
then `WriteSlot`/`WriteFails` for each element of `apply_deny_entries`.
`OffTick` and `LockedTick` are the modes without a URL and without a token or
key; a task that could not build its HTTP client is the mode `broken`. The
clock of the policy engine differs from the node's by `offset`.

### 3.4 DesiredPolicy, AggregateLimiter, PolicyEngine

`DesiredPolicy` is the watcher: `Get` (`fetchAndApply`), `OpenWatch`, `Event`
and `StreamEnds` (`watchLoop`), `GetFails` and `Wake`, and the apply as four
steps that requests may fall between: `Reload` or `ReloadFails` (Rego plane),
`Store` (snapshot), `Publish` (bundle plane), `Audit`. A revision is a position
in the history of the ConfigMap. `AggregateLimiter` is the token bucket with
its lazy refill; tokens are counted in fractions so that the arithmetic is
exact, `level` is a history variable that accounts for the same requests
independently. `PolicyEngine` composes both behind `GET /v1/policy-bundle`:
`Serve` spends a token before the bearer check, as `AggregateRateLimit` wraps
the handler.

### 3.5 KafkaLog, TelemetryStream, SiemForwarder, AlertDelivery, LossyChannel

`KafkaLog` (external: a broker, modelled from how both sides use it) is one
partition: a sequence of records whose head retention removes (`logStart`) and
whose middle compaction thins out (`gaps`), with foreign producers. It also
holds the budget of faults, from which every failure below takes one.

`TelemetryStream` is `telemetry_stream.rs`: `Raise` is `try_enqueue` from the
event loop and `CountEnqueued` its counter, which the worker may overtake; then
one action per step of `kafka_publisher_loop`: `Recv`,
`ConnectOk`/`ConnectFail`, `Wake`, `Encode`/`EncodeFail`, and a produce() as the
requests inside it: `ProduceRetry` for one that failed and is repeated (external:
rskafka), `ProduceOk`/`ProduceErr` for the last. A request that failed may have
been written all the same. Without brokers `NoopDrain` empties the queue. `AgentRestart` loses the
queue and what the worker holds.

`SiemForwarder` is both forwarders, whose control is the same and which differ
in configuration, record validation and which answers they retry: `Start`,
`Connect`, `Fetch` (one batch from `next_offset`), `HandleRecord` and `CountRecord`
for each of its records, `Advance`, and beside it the worker: `WorkerRecv`, `Post` with
every answer of the intake, `WorkerWake`. `FetchOutOfRange` and
`ConsumerFails` end the process, and nothing of it survives.

`AlertDelivery` composes stream, topic and forwarder. `LossyChannel` is what
each hop promises: what was put in is settled in order, delivered or lost, with
a bounded number of tries; `StreamChannel` and `ForwarderChannel` instantiate
it, the pending messages being what is in hand and in the queue.

### 3.6 RingBuf ... AgentRuntime

`RingBuf` is a BPF ring buffer with the tokio task that drains it: the kernel
notifies only for the first record of an empty ring (`Commit`), tokio's
readiness is kept or given back according to `ringbuf_drain_outcome` (`Leave`).
`ExecCapture` says what the two kernel programs record of an exec, bit by bit of
its status words, and what `exec_event_to_security_telemetry` makes of it: a place
of `argv` or `envp` that cannot be read, a string that cannot, and a value that is
no text are each a case of their own.
`ExecTelemetry` is the way of an exec: `SysEnter` and `BprmCheck` in the kernel;
`PollerEnter`, `PollerNext`, `PollerLeave`, `WorkerStep` of the process monitor;
`LoopEnter`, `LoopNext`, `LoopLeave`, `LoopDetect` of the event loop with
`Process` (normalizer, rules, alerts); `HealthSample`, `LoopSignal`,
`MonitorExit`. `NetworkIngestion` is the way of a connection: `TcpConnect`,
`NetEnter`, `NetNext`, `NetLeave`, then `try_enqueue` in its three steps
`CheckPressure`, `TrySend`, `RecordEnqueued`, and the publisher `PubRecv`,
`DecrementQueued`, `Publish`; the counter is taken modulo the word size.
`BytecodeAttestation` and `BtfOffsets` are pure: `VerifyStartup` and
`ResolveOffsets` return the first error in the order of the code, or the result.
`IntegrityMonitor` holds the four checks and what they look at.
`AgentRuntime` composes them: `Attest`, `ArmVisibility`, the event loop and
every way to end. A behaviour is driven by a `plan`, chosen at the start: which
processes exec and connect, what an earlier agent left in the pinned ring, what
lies on the node for attestation and integrity, and how long it all takes.

## 4. Runs

| Run | Checks | Shows |
|---|---|---|
| `pins` | `TypeOK`, `AttachedProgramsDeny`, `PolicySurvivesRestart`, `EnforcingNodeNeverRefuses`, `HandOffOverlaps`, `UnknownLayoutUntouched`, `EnforcingNodeRecovers` | upgrade and restart with kills at any system call, and a node that comes back when they stop |
| `pins_gap` (violated) | `NoEnforcementGap` | finding 1 |
| `correlator_teardown` | `KeysBacked`, `TrackedLeavesWatched`, `LiveSeedsStay` | two leaves under one parent, one manual seed, an overflow, a section that allows, revokes or is invalid: every stray key has one of five named causes, a live seed keeps its row |
| `correlator_revoke` | `TypeOK`, `IndexCoherent`, `KeysBacked`, `DeletedPodsStayOut` | two pods, recycled inodes, a full table, a revocation |
| `correlator_revoked_rows_go` | `RevokedRowsGo` | a row inserted behind a revocation is removed by the next one |
| `correlator_late_seed` (violated) | `RevocationInvalidates` | finding 2 |
| `sync` | `TypeOK`, `ExceptionsExpire`, `StaleSignalled`, `DenyMatchesVersion`, `PolicyConverges` | the task through outages, throttling, refusals, skewed clocks, deaths |
| `sync_exit` (violated) | `ExceptionsDieWithTheAgent` | finding 3 |
| `engine` | `TypeOK`, `PlanesAgree`, `FloorRemovalReported`, `BudgetKept`, `AgentsNeverGoBack`, `PlanesConverge` | watcher, planes and limiter through edits, lost streams, a failing reload, a crash |
| `delivery` | `TypeOK`, `Accounted`, `LoggedInOrder`, `NothingSkipped`, `HopsAreLossyChannels`, `RecordsSettle` | alerts through lost connections and answers, foreign records, gaps, retention, refusals and restarts; both hops implement `LossyChannel` |
| `runtime` | `TypeOK`, `EventsAccounted`, `BurstsAreExact`, `AlertsAreHonest`, `OnlyAttestedCodeRuns`, `PressureDropsAreReal`, `TamperingReported`, `BlockedExecsAlert` | one life of an agent over about 2 500 plans |
| `env_loss` (violated) | `NoSilentEnvLoss` | finding 4 |

Run one with `tlc -config <cfg> <MC module>` in this directory.

### Bounds, and why they are enough

- *Pins.* Three identities of lists and three of counts: the old object, the
  new one and one more, for every pair the code can mix up. Directories cover a
  staged pair, a half-removed one, a decoy and a free name. Two kills allow an
  interrupted migration and an interrupted recovery of it.
- *Correlator.* The teardown instance has two leaves of one pod, because leaves
  of one pod share the watch on their parent, and three sections that may be
  served, one of them for the whole behaviour: with a change of the section on
  top the instance is out of reach, and the revoke instance has one; the revoke instance has two pods
  and one row, because capacity and recycling need a competitor. One or two
  events of each kind are enough for an event between any two steps of a task.
  Inodes are only compared, hence the symmetry.
- *Policy sync.* The deadlines keep the order of the code's (request timeout <
  interval < TTL <= longest pause, validity window and stale limit); clocks are
  behind by the TTL, in step, and ahead by more than the skew. Two slots make a
  torn list. The proof has no such bounds.
- *Engine.* Three revisions: a policy, the one that replaces it and one that is
  rejected or deleted in between; the documents are one above the floor, one
  that drops the floor with the flag and one without it. The bucket's numbers
  (rate 1, cost 2, burst 3) leave a remainder, so that partial tokens occur. Crashes
  and reload failures: one each, at any step.
- *Delivery.* Three inputs, each of them an alert, a foreign record, a trim or a
  compaction (`MaxInputs`), and one fault: a failing request of any kind or the
  death of a process. Queues of two behind a worker with one in hand let an alert
  be overtaken, and the forwarder's queue overflows; batches of up to two can
  straddle a gap.
  Deployments are a working forwarder of each kind and one for each thing that a
  forwarder can lack. The proofs have no such bounds.
- *Runtime.* Three processes, rings of two and channels of one, so that each of
  them is full in some behaviour. A channel of three with a threshold of 90 %
  lets the counter be wrong by one on either side of the threshold, and with a
  modulus of 8 it wraps. Plans vary one thing at a time: attestation (every kind
  of key, signature, file and manifest, artifact lists of two to four entries),
  type information (headers, doubled, missing, misplaced and damaged types,
  offsets around the limits of a byte, a struct and a bitfield), integrity
  configurations under two changes of files, and mixes of execs and connections
  with signals, failures and what an earlier agent left. No execs happen in an
  attestation plan and no attestation fails in an exec plan, because nothing is
  shared but the step from one to the other.

`CHECK_DEADLOCK FALSE` is set where the system really stops: an agent that ended
is not restarted in `AgentRuntime`, an unconfigured forwarder ends for good, and
bounded environments run out of events.

### Fairness

- *Pins:* weak fairness of the start-up's own steps (a sequential program) and
  of `Start` (the kubelet restarts the container of a DaemonSet). Nothing is
  assumed of `Crash`, which its bound ends.
- *Correlator:* weak fairness of each task (tokio tasks and a thread that are
  always polled); strong fairness of `FetchOk`, the policy engine answers again
  and again. No fairness for the environment.
- *Policy sync:* weak fairness of time, task and restart; strong fairness of
  `Answer` and `Accept`, the network delivers again and again.
- *Engine:* weak fairness of the watcher and the restart; of `StreamEnds`,
  because the API server ends every watch after its request timeout; strong
  fairness of `Get`. The last one also assumes that the API server keeps
  accepting the service-account token, which `newWatcherFromEnv` reads once:
  see the observations.
- *Delivery:* weak fairness of the stream's worker, of the forwarder's start
  and connection, of its consumer and of its worker: tokio tasks that are polled,
  a Deployment that is restarted. Which answer a request gets is left open:
  `RecordsSettle` holds because attempts are counted.
- *Runtime:* weak fairness of the start-up, the event loop and the timer of the
  integrity monitor. Nothing is assumed of the kernel, the monitors or Kafka.
  A select with several ready branches may starve one of them: `BlockedExecsAlert`
  needs only that the loop goes on, because detections are bounded by the execs.

## 5. Proofs

Eight modules hold theorems checked by TLAPS for every value of the constants that
satisfies the named assumptions (`PinAssumption`, `SideTableAssumption`, `CorrelatorAssumption`,
`PolicySyncAssumption`,
`DesiredPolicyAssumption`, `LimiterAssumption`, `ClientAssumption`,
`LogAssumption`, `StreamAssumption`, `ForwarderAssumption`,
`CaptureAssumption`, `TelemetryAssumption`, `IngestionAssumption`,
`IntegrityAssumption`, `PlanAssumption`). These say that bounds are numbers,
that capacities are positive, that distinguished values are distinct, that deny
lists fit the map and are not empty (as `bootstrap_entries` and the validation of
bundles guarantee), that a machine word can count one more than a channel
holds, and that a plan of the runtime is made of execs, a release and a type
section of the right shape (`PlanAssumption`); what these contain is left open.
TLC evaluates each of them in the runs of its module. One theorem,
`NodeNeverRefuses`, has a hypothesis of its own, `DirsSuffice`.

- **Pins** (`TypeCorrect`, `DenyListNeverEmpty`, `HandOffNeverDropsTheLink`).
  `AttachedProgramsDeny` is not inductive: it says nothing of maps that no
  program uses yet. The strengthening follows the pair of canonical pins: an
  attached program of this version reads a complete list (`ProgramsGood`), and
  both of the canonical maps or neither (`ProgramsPaired`), so that an update
  never changes half of what it reads; canonical maps of this layout have no
  cleared slot below their count, also when a kill left them without a program
  (`CanonicalFilled`); during a staging or a resumption a canonical list is a
  legacy one or its count is 0 (`Migrating`); a plan is made and entries are
  in memory before they are needed (`EntriesReady`); the opened maps are the
  pinned ones (`OpenMaps`); and a write in progress has filled the slots
  before `idx` (`WriterProgress`).
- **What survives** (`PolicySurvives`, `UnknownUntouched` in `PinsSurvival_proofs`).
  Until a served list is applied, what was promised is at two places at most: in
  the canonical maps (`Canon`), or in the maps of the legacy link (`LegacyLink`),
  which are then both canonical (`Unstaged`), one of them staged (`HalfStaged`) or
  both staged with only new, empty maps beside them (`FullyStaged`). `Progress`
  says which of these holds at each label and that the entries in memory are
  what was promised once they have been read (`Carried`); a kill anywhere leaves
  one of the cases the next assessment recognises (`Recoverable`). The step that
  matters is the write of the count: it makes the canonical maps hold the promise
  at once, while the legacy link still reads its own maps. `ProgramsKeep` says
  that programs of this version read the canonical maps only after that step.
- **An enforcing node is accepted** (`NodeNeverRefuses` in `PinsSurvival_proofs`).
  The promise above is about readable lists; this theorem is about every legacy
  pair, readable or not, and about nodes that synced. `Resumable` (canonical maps
  of this version with a count that is not 0) never becomes false again, and none of
  the six refusals (`Refusing`) can meet it. Until it holds, the link is a legacy
  program and its pair is at the place that `Stages` gives for the label
  (`Upgrading`); each step keeps that, or is the write of the count that makes the
  maps resumable. The remaining refusal is that of `next_legacy_dir_name`, which
  gives up after `legacy_abi_1024`: a start that is killed before its first rename leaves
  an empty directory, so `DirsCounted` bounds their number by the kills, and
  `DirsSuffice` asks for more names than kills. Without it the property is false.
- **Correlator** (`TypeCorrect`, `IndexesDescribeRows`, `DeletedPodsNeverReturn`,
  `NoKeyOutlivesItsLeaf`, `TrackedLeavesStayWatched`, `SeedsStay`). Lemmas about the side table come first: removing rows
  keeps both indexes, `RemoveByPod` is the removal of the rows of the pod as long
  as the index is right, and an insertion keeps the indexes only if no other row
  names its path. Why no other row ever does is the point of `Named`: a row
  lies under the inode of its leaf, and a leaf keeps its inode once it exists, so
  a recycled inode overwrites a row and never splits one path over two.
  `Deletions` says that behind a DELETED event, in the queue or in the task's
  hands, there is nothing of that pod; hence a handled deletion is final.
  The next two theorems say something only of quiescent states, so their invariant
  `Followed` has to say where every key is while things are in flight. `Armed` is
  the watch of a leaf after the commands in the worker's queue, which is what makes
  an Unwatch overtaken by a new Watch harmless. `KeyKnown` gives the reason for
  each key: a task is about to take it out (`Pending`), its loss is recorded or main
  has yet to register it, or its row names a leaf that is `Tracked`: armed, about
  to be, or gone with its removal on the way (`Reaching`) through the batches,
  the task's hands or a sweep. `Noticed` says that the kernel has an event for a
  watched leaf that is gone. In a quiescent state (`AtRest`) all of these but the
  live, watched leaf and the recorded causes are empty.
  `SeedsStay` is about every step that writes the table, and needs to know why
  each of them passes over a live seed (`SeedsInv`): an insertion under its inode
  is for the same leaf (`SeedInodes`: the inode of a live seed was never another's);
  a torn down path is gone (`TornDown`, through the batches back to the kernel's
  queue); a pod that the list of a resync lacks was deleted (`Listing`); a full map
  takes back only a row the task inserted itself (`OwnRow`), because no identity is
  allowed until main has registered the seeds (`Unsynced`).
- **Policy sync** (`TypeCorrect`, `ExceptionsOutliveTtlByLessThanGap`,
  `StaleInTime`, `VersionNamesTheList`). The TTL and the age are bounded through
  budgets: what is left of the current pause plus the time since the task last
  looked is at most `Gap`. Each `Advance` takes one unit from the pause and adds
  it to the other, each look starts the budget again.
- **Policy engine** (`TypeCorrect`, `PlanesNeverSplit`,
  `FloorRemovalAlwaysReported`, `BudgetNeverExceeded`, `AgentsMonotone`).
  `Applying` says where each plane is at each step of an apply; `Reported`
  carries the floors missing from the old policy across the moment between
  publication and audit; `Ordered` says that nothing is ahead of a cursor that
  has read the ConfigMap; `LazyRefill` says that the tokens a request would find
  and the history level always add up to the burst.
- **Delivery** (`TypeCorrect`, `NothingUncounted`, `TopicInOrder`,
  `ForwarderSkipsNothing`). `TopicOrder` and `Ordered` say that the identities
  of alerts do not shrink from the topic through the worker's hand to the end of
  the queue, and that in the topic they are at most that of the hand, so that a
  request can only append the largest one again or a new and larger one. `Paid`
  counts the copies in the topic, and one more while the alert in hand already
  stands there: only a request that failed puts it there without finishing with
  it, so the faults cover them. For the forwarder, `Batch` says
  that the batch in hand lists, in increasing order, every record of the topic
  from `next_offset` to its last one, except what compaction and retention removed. The step that matters is
  `next_offset += records.len()`: `Spread` is the argument that n increasing
  offsets starting at or after `next_offset` end at or after `next_offset + n - 1`,
  hence the sum passes no record that was not handed over; a gap makes the
  forwarder read records again, never miss one. The accounts are an equality of
  counters, queue, hand and the one alert whose counter is still to be written,
  carried through each step.
- **Refinement** (`HopsRefine` in `AlertDelivery_proofs`). Stream and forwarder
  each implement `LossyChannel`: initial states map to initial states, and every
  step maps to a step of the channel or a stutter (`StreamRefines`,
  `ForwarderRefines`). A restart is a loss of everything pending. The attempts of
  the stream's channel are bounded by the faults, those of the forwarder's by
  `MAX_ATTEMPTS`: that rskafka gives up after a time is not in the repository.
- **Runtime** (`CounterInvariant`, `PressureDropsReal`, `NoEventLost`).
  `Counter`: the number beside the channel is the channel's length plus what the
  publisher has taken and not counted yet, except between a send and its count,
  where it is one less and may wrap below zero for a moment; the modulus is larger than the
  capacity plus one, so the next count brings it back. `NoEventLost` rests on
  five parts: `Metrics` (the exported number of drops is what the health task has
  seen of the two counters), `Pollers` (a drain runs in a task that runs, and
  began with the descriptor ready, so that a drain broken off leaves it ready),
  `Before` (before the monitors start nothing runs, and the pinned ring holds
  whole records of an earlier agent only), `Awake` (no poller sleeps over
  records) and `Books` (execs put into the ring = dropped in user space +
  processed + in the channel + whole records in the ring). The whole
  records of a ring are a set of positions; `LiveAppend` and `LiveTail` say how an
  append and a removal of the head change them.

- **What is loaded and what is reported** (`OnlyAttested`, `AlertsHonest`,
  `ExactBursts`, `Typed` in `RuntimeAlerts_proofs`). These are about definitions that search or
  compute along a sequence: the first faulty type of a section, the slots filled
  by a scan of the environment, the timestamps a bucket retains. An induction
  theorem with an operator parameter cannot be used here; each such lemma
  takes the least counterexample instead (`LeastNat`, from `WFMin`) and shows that
  the one before it is not the last. `Life` says that an agent beyond
  its start passed `VerifyStartup` and `ResolveOffsets`, whose results are
  characterised for every input. `Items` says that everything in the rings and
  channels was made from an exec of the plan and that the ring of the LSM program
  holds only reported ones, hence `HonestSeq`: what `ArgvOf`, `EnvOf` and `Redact`
  make of any exec, unreadable places and values that are not text included. `Windows` is the invariant behind the bursts:
  for every moment c in the window a bucket has as many entries later than c as the
  whole history has events, so that pruning can be forgotten. `Clock`,
  `Queues` and `Files` complete the types.

Only model-checked: all liveness (`EnforcingNodeRecovers`, `RevokedRowsGo`,
`PolicyConverges`, `PlanesConverge`, `RecordsSettle`, `TamperingReported`,
`BlockedExecsAlert`), which is out of the prover's reach. Every invariant and every
action property that a passing run checks is also a theorem. The four runs that
end in a violation have no theorem.

## 6. Findings

Each is a run that violates a sentence of the repository.

1. `pins_gap`: a kill between the removal of the old link pin and the rename
   leaves the temporary pin as the only attachment; the next start removes it
   before it attaches (`lsm_pin.rs:169`; ADR-002 says "No enforcement gap").
2. `correlator_late_seed`: a revocation between the insertion of a row and the
   write of its key leaves a key that nothing removes later
   (`reconcile.rs:208`; `identity_correlator/mod.rs:4`).
3. `sync_exit`: the program behind the pinned link keeps its identity maps, so
   VALID=1 survives the agent (`startup.rs:242`; `startup.rs:243`).
4. `env_loss`: the kernel program keeps an allowlisted variable in the slot of
   its name and counts the filled slots, the mapper copies that many slots from
   the first: a variable in a later slot is not copied and nothing is marked
   (`exec_mapper.rs:305`; `exec_mapper.rs:98` says "without silent data loss").

Observations made while modelling, without a run of their own:

*Enforcement, correlator, policy.*

- Between two looks, up to a Retry-After pause of 300 s, VALID stays 1 after
  `expires_at` (`policy_sync.rs:661`; `ebpf/src/main.rs:86`, `threat-model.md:286`).
  `ExceptionsExpire` bounds the delay.
- When the pod list fails after an inotify overflow, nothing is swept and nothing
  retries (`identity_correlator/mod.rs:663`; `threat-model.md:351`).
- The allowlist is empty until the first policy sync: an ADDED event that is
  handled before it purges the rows of a pod with a manual seed, and nothing
  registers the seed again (`reconcile.rs:123`). `LiveSeedsStay` names the case.
- A watch requested after the leaf was removed is refused and only logged; the
  key then stays until the pod is deleted or a resync sweeps it (`lateWatch`).
- A failing write leaves a mixed deny list under the old version; a policy that
  is rolled back to that version is skipped as unchanged.
- Without a policy URL a restart over pinned maps keeps the resumed list but
  reports the version "bootstrap".
- A task that cannot build its HTTP client ends, and the stale flag is never set.
- A restarted policy engine serves the bootstrap list until its first GET is
  applied, also when the ConfigMap is missing or invalid at that time: the last
  known good policy is only in memory.
- A reload that fails is tried again only at the next event or when the
  stream ends.
- The watcher has no timeout on its GET and reads its service-account token
  once; after the token's expiry every request fails until a restart.
- `validate.go` accepts prefixes longer than the 32 bytes agents accept.
- The limiter spends budget on requests without a token; and its comment
  speaks of a synchronized fleet tick within one burst (1000) while the design
  envelope above it is 5000 agents.

*Delivery.*

- The producer is not idempotent: a request that rskafka repeats, or an alert
  counted as failed whose request did arrive, leaves copies or uncounted records
  in the topic.
- Without brokers the stream counts the alerts it discards as published.
- An alert whose connection fails is dropped, although the log line says that
  the connection will be retried: the next alert retries it.
- A forwarder keeps no offset: every start reads from 0 and sends everything
  again. Once retention has moved past 0, the first fetch is out of range, the
  process ends, and so does every restart of it.
- A gap in the log makes the forwarder fetch records again that it handed over.
- The backoff of one alert is carried to the next; 408 is retried only by the
  Datadog forwarder; a forwarder without configuration exits with status 0.

*One life of an agent.*

- A blocked exec is reported by the LSM program and by the tracepoint: two
  alerts under a temporary directory, and it counts twice towards a burst.
- A blocked exec under a synced prefix outside `/tmp/`, `/dev/shm/` and
  `/var/tmp/` raises no SIEM alert.
- An exec that is denied or fails renames its process in the correlation map;
  nothing is ever evicted from that map.
- LSM events mark the effective user unknown, and the alert made of them says 0;
  they carry an empty argument list that is not marked as truncated.
- A value of the environment that is not UTF-8 is not inspected for redaction
  (`env_capture.rs:86`; lines 5-6 say that secret shapes are redacted before the
  SIEM); a character that the end of the 32-byte slot cuts is enough.
- Arguments beyond the eighth are dropped without a mark when the place of the
  ninth pointer cannot be read (`sys_exec.bpf.c:385`; `exec_mapper.rs:98` says
  "without silent data loss"). `AlertsAreHonest` names both cases.
- Exec records lost because the ring is full, or discarded by the decoder, are in
  no exported metric.
- A channel of capacity 1 gives a threshold of 0: the drop policy refuses every
  connection.
- A termination signal that arrives while the body of the event loop runs is not
  seen: the listener is created anew for each `select!`.

## 7. Not modelled

- Signatures, JSON decoding and certificate checks are an accept or a refusal.
- The WASM scaffold: nothing calls it.
- The engine's Rego decision, identity mapping and search: stateless calls of
  libraries.
- The admission webhook: a pure function of one pod and a call of a registry.
- The AI threat detector: Python around a consumer library whose commit
  behaviour decides what is lost; it only reads the topic.
- The dashboard: rendering and a reconnecting socket of a browser.
- Rotation of the bearer token; manual seeds of cgroups outside pods; failures to
  set up inotify at all.
- Timer latency and waiting for locks are neglected in `PolicySync`; the write
  of VALID is taken not to fail. Floating-point rounding in the token bucket.
- Text of metrics and logs, deployment manifests.

Simplifications inside the models: produce() has one request in flight, so that a
repeated request may write a copy but none arrives after the call has returned
(rskafka is modelled from how `telemetry_stream.rs` calls it); the notification of a
ring reaches tokio with the commit; one CPU writes a ring; a path is a directory
and a name; a start of the agent ends with one life in `AgentRuntime`, restarts
are in `EnforcementPins` and `AlertDelivery`.
