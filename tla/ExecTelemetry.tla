--------------------------- MODULE ExecTelemetry ---------------------------
(***************************************************************************)
(* The way of an exec through the agent.  The tracepoint records every     *)
(* exec in PROCESS_EVENTS (sys_exec.bpf.c), the LSM program records the    *)
(* ones it denies in TELEM_RINGBUF (ebpf/src/main.rs).  The process        *)
(* monitor drains the first ring into a channel and a worker passes it on  *)
(* to the event loop, which drains the second ring itself and runs both    *)
(* through the normalizer and the rules.                                   *)
(***************************************************************************)
EXTENDS RingBuf, ExecCapture

CONSTANTS
  Task,          \* the processes of the node, positive numbers
  RingCapacity,  \* records a ring buffer holds
  ProcCapacity,  \* NEUROMESH_PROCESS_CHANNEL_CAPACITY
  DetCapacity,   \* capacity of the detection channel
  MaxTokens,     \* tokens of the rate limiter
  DenyDirs,      \* the deny list in force
  Window,        \* the window of the normalizer
  BurstThreshold,\* spawns in a window that are a burst
  BatchLimit     \* batch_limit

ASSUME TelemetryAssumption ==
  /\ Task \subseteq Nat \ {0}
  /\ {RingCapacity, ProcCapacity, DetCapacity} \subseteq Nat \ {0}
  /\ {MaxTokens, Window, BurstThreshold, BatchLimit} \subseteq Nat \ {0}

VARIABLES
  plan,       \* what happens on the node in this behaviour
  task,       \* how far the exec of a process is
  now,        \* seconds
  bucket,     \* RLIMIT_BUCKET of the CPU
  procRing,   \* PROCESS_EVENTS and its poller
  telemRing,  \* TELEM_RINGBUF and its poller, the event loop
  procCh,     \* event_tx .. event_rx
  detCh,      \* detection_tx .. detection_rx
  names,      \* CorrelationEngine.processes
  monitor,    \* which tasks of the monitors run
  loop,       \* the agent: start, enforcing, monitoring; its event loop: select, sleep; end
  spawns,     \* parent_spawns and unresolved_comm_spawns
  batched,    \* length of the batch
  alerts,     \* alerts handed to the telemetry stream
  counts,     \* what happened to the records of the tracepoint, and the metrics
  hist        \* every event the normalizer saw: its key, when, and whether it alerted

kernelvars == <<plan, task, now, bucket>>
pipevars   == <<loop, spawns, batched, alerts, hist>>
execvars   == <<kernelvars, procRing, telemRing, procCh, detCh, names, monitor, counts,
                pipevars>>

\* The states of the agent in which the probes are attached.
Running == {"monitoring", "select", "sleep"}

\* The exec of process t; plan.execs says which processes exec what.
Exec(t) == plan.execs[t]

\* PROCESS_EVENTS is pinned: it may hold records of execs, plan.left, that an
\* earlier agent did not read.
ExecInit ==
  /\ task = [t \in Task |-> CASE t \notin DOMAIN plan.execs -> "none"
                             [] t \in Range(plan.left) -> "runs"
                             [] OTHER -> "start"]
  /\ now = 0 /\ bucket = [last |-> 0, tokens |-> MaxTokens]
  /\ procRing = [EmptyRing EXCEPT
       !.q = [i \in DOMAIN plan.left |-> TraceEvent(plan.left[i], Exec(plan.left[i]))]]
  /\ counts = [ring |-> Len(plan.left), rate |-> 0, full |-> 0, fails |-> 0, user |-> 0,
               processed |-> 0, shown |-> 0, lastRate |-> 0, lastUser |-> 0]
  /\ telemRing = EmptyRing /\ procCh = <<>> /\ detCh = <<>>
  /\ names = <<>> /\ monitor = {} /\ loop = "start"
  /\ spawns = <<>> /\ batched = 0 /\ alerts = <<>> /\ hist = <<>>

-----------------------------------------------------------------------------
(* The kernel.                                                             *)

\* rate_limit_allow, with a token a second: the bucket after the refill.
Refilled ==
  IF now > bucket.last
    THEN [last   |-> now,
          tokens |-> IF bucket.tokens + now - bucket.last > MaxTokens
                       THEN MaxTokens ELSE bucket.tokens + now - bucket.last]
    ELSE bucket

\* What becomes of a record of emit_exec_event: no token is left, the ring is
\* full, the path cannot be read, or it is in the ring.
Fate(t) ==
  IF Refilled.tokens = 0 THEN "rate"
  ELSE IF Len(procRing.q) >= RingCapacity THEN "full"
  ELSE IF "FILENAME" \in Exec(t).faults THEN "fails"
  ELSE "ring"

\* sys_enter_execve, sys_enter_execveat: attached while the monitors run.
\* Only drops for want of a token (RLIMIT_DROPS) and paths that cannot be read
\* (CAPTURE_FAILS) are counted by the program.
SysEnter(t) ==
  /\ task[t] = "start"
  /\ task' = [task EXCEPT ![t] = "check"]
  /\ IF loop \notin Running
       THEN UNCHANGED <<bucket, procRing, counts>>
       ELSE /\ counts' = [counts EXCEPT ![Fate(t)] = @ + 1]
            /\ bucket' = IF Fate(t) = "rate" THEN Refilled
                                             ELSE [Refilled EXCEPT !.tokens = @ - 1]
            /\ procRing' = CASE Fate(t) = "fails" -> Commit(procRing, Discarded)
                            [] Fate(t) = "ring" -> Commit(procRing, TraceEvent(t, Exec(t)))
                            [] OTHER -> procRing
  /\ UNCHANGED <<plan, now, telemRing, procCh, detCh, names, monitor, pipevars>>

IDENTITY_EXCEPTION_SCOPE_PREFIX == "/tmp/"

\* try_nm_lsm_bprm and nm_lsm_bprm: a path that cannot be read is denied.  The
\* program is pinned: it outlives the agent.
LsmVerdict(t) ==
  IF loop = "start" THEN "allow"
  ELSE IF "BPRM" \in Exec(t).faults THEN "deny"
  ELSE IF Exec(t).bprm.dir \notin DenyDirs THEN "allow"
  ELSE IF Exec(t).bprm.dir = IDENTITY_EXCEPTION_SCOPE_PREFIX /\ Exec(t).excepted THEN "allow"
  ELSE "report"

\* bprm_check_security.
BprmCheck(t) ==
  /\ task[t] = "check"
  /\ IF LsmVerdict(t) = "report" /\ Len(telemRing.q) < RingCapacity
       THEN /\ telemRing' = Commit(telemRing, BlockedEvent(t, Exec(t)))
            /\ task' = [task EXCEPT ![t] = "reported"]
       ELSE /\ telemRing' = telemRing
            /\ task' = [task EXCEPT ![t] =
                          CASE LsmVerdict(t) = "allow" -> "runs"
                            [] LsmVerdict(t) = "deny" -> "denied"
                            [] OTHER -> "lost"]
  /\ UNCHANGED <<counts, plan, now, bucket, procRing, procCh, detCh, names, monitor, pipevars>>

\* plan.seconds bounds the clock.
Tick ==
  /\ now < plan.seconds /\ now' = now + 1
  /\ UNCHANGED <<counts, plan, task, bucket, procRing, telemRing, procCh, detCh, names,
                 monitor, pipevars>>

-----------------------------------------------------------------------------
(* The process monitor.                                                    *)

\* load_with_map_pinning: a pinned ring of another layout is made anew.
ReusedRing == IF plan.ringAbi = "current" THEN procRing ELSE EmptyRing

\* start_process_monitor and start_network_monitor: probes, channel, tasks.
\* A ring with records makes its descriptor ready when it is registered.
StartMonitors ==
  /\ loop = "enforcing" /\ loop' = "monitoring"
  /\ procRing' = [ReusedRing EXCEPT !.ready = ReusedRing.q # <<>>]
  /\ counts' = [counts EXCEPT !.ring = Len(ReusedRing.q)]
  /\ monitor' = {"poller", "worker", "network"}
  /\ UNCHANGED <<kernelvars, telemRing, procCh, detCh, names,
                 spawns, batched, alerts, hist>>

\* AsyncFd::new and event_loop::run.  Records that the LSM program committed
\* before make the descriptor ready when it is registered.
StartLoop ==
  /\ loop = "monitoring" /\ loop' = "select"
  /\ telemRing' = [telemRing EXCEPT !.ready = telemRing.q # <<>>]
  /\ UNCHANGED <<counts, kernelvars, procRing, procCh, detCh, names, monitor,
                 spawns, batched, alerts, hist>>

PollerEnter ==
  /\ "poller" \in monitor /\ CanEnter(procRing)
  /\ procRing' = Enter(procRing)
  /\ UNCHANGED <<counts, kernelvars, telemRing, procCh, detCh, names, monitor, pipevars>>

\* Wrong variant: a full channel ends the drain and gives the readiness back.
PollerNext_BackPressure ==
  /\ procRing.drain /\ procRing.q # <<>>
  /\ IF Head(procRing.q) = Discarded
       THEN procRing' = Consume(procRing) /\ procCh' = procCh
       ELSE IF Len(procCh) < ProcCapacity /\ "worker" \in monitor
         THEN procRing' = Consume(procRing) /\ procCh' = Append(procCh, Head(procRing.q))
         ELSE /\ procRing' = [procRing EXCEPT !.drain = FALSE, !.ready = procRing.fresh]
              /\ procCh' = procCh
  /\ UNCHANGED <<counts, kernelvars, telemRing, detCh, names, monitor, pipevars>>

\* One record of the drain: skipped, sent, or dropped when the channel is full.
\* Once the worker has gone the drain ends.
PollerNext ==
  /\ procRing.drain /\ procRing.q # <<>>
  /\ LET e    == Head(procRing.q)
         skip == e = Discarded \/ ~ Decodes(e)
         sent == ~ skip /\ "worker" \in monitor /\ Len(procCh) < ProcCapacity
         full == ~ skip /\ "worker" \in monitor /\ Len(procCh) >= ProcCapacity
     IN  /\ procRing' = IF skip \/ sent \/ full THEN Consume(procRing)
                                                ELSE Abandon(Consume(procRing))
         /\ procCh' = IF sent THEN Append(procCh, e) ELSE procCh
         /\ counts' = IF full THEN [counts EXCEPT !.user = @ + 1] ELSE counts
  /\ UNCHANGED <<kernelvars, telemRing, detCh, names, monitor, pipevars>>

PollerLeave ==
  /\ procRing.drain /\ procRing.q = <<>>
  /\ procRing' = Leave(procRing)
  /\ UNCHANGED <<counts, kernelvars, telemRing, procCh, detCh, names, monitor, pipevars>>

\* HashMap::insert.
Insert(map, key, value) ==
  [k \in DOMAIN map \cup {key} |-> IF k = key THEN value ELSE map[k]]

\* register_process: process 0 is not registered.
RegisterProcess(e) == IF e.pid = 0 THEN names ELSE Insert(names, e.pid, e.filename)

\* Wrong variant: the detection channel takes any number of events.
WorkerStep_Unbounded ==
  /\ "worker" \in monitor /\ procCh # <<>>
  /\ procCh' = Tail(procCh)
  /\ names' = RegisterProcess(Head(procCh))
  /\ detCh' = Append(detCh, Telemetry(Head(procCh)))
  /\ counts' = [counts EXCEPT !.processed = @ + 1]
  /\ UNCHANGED <<kernelvars, procRing, telemRing, monitor, pipevars>>

\* The worker registers the process and offers the event to the event loop.
WorkerStep ==
  /\ "worker" \in monitor /\ procCh # <<>>
  /\ procCh' = Tail(procCh)
  /\ names' = RegisterProcess(Head(procCh))
  /\ detCh' = IF Len(detCh) < DetCapacity
                THEN Append(detCh, Telemetry(Head(procCh))) ELSE detCh
  /\ counts' = [counts EXCEPT !.processed = @ + 1]
  /\ UNCHANGED <<kernelvars, procRing, telemRing, monitor, pipevars>>

\* A sample of spawn_health_monitor; RLIMIT_DROPS may be unreadable.
HealthSample ==
  /\ loop \in Running
  /\ \E readable \in {TRUE, ~ plan.fails} :
       LET rate == IF readable THEN counts.rate ELSE counts.lastRate
       IN  counts' = [counts EXCEPT
                        !.shown = @ + (rate - counts.lastRate) + (counts.user - counts.lastUser),
                        !.lastRate = rate, !.lastUser = counts.user]
  /\ UNCHANGED <<kernelvars, procRing, telemRing, procCh, detCh, names, monitor, pipevars>>

\* The token is cancelled: each task ends when select! picks that branch.  The
\* closure of a drain runs to its end first.
MonitorExit ==
  /\ loop = "sleep"
  /\ \E m \in monitor \cap {"poller", "worker"} :
       /\ m = "poller" => ~ procRing.drain
       /\ monitor' = monitor \ {m}
       /\ procCh' = IF m = "worker" THEN <<>> ELSE procCh
  /\ UNCHANGED <<counts, kernelvars, procRing, telemRing, detCh, names, pipevars>>

-----------------------------------------------------------------------------
(* The pipeline.                                                           *)

WHITELIST_PATHS ==
  {[dir |-> "/bin/", name |-> "ls"], [dir |-> "/bin/", name |-> "cat"],
   [dir |-> "/usr/bin/", name |-> "git"], [dir |-> "/usr/bin/", name |-> "bash"]}
BLACKLIST_PREFIXES == {"/tmp/", "/dev/shm/", "/var/tmp/"}

\* The bucket an event is counted in: its parent, or its comm when the parent is
\* not known.
SpawnKey(ev) == IF ev.ppid_unresolved THEN <<"comm", ev.comm>> ELSE <<"ppid", ev.ppid>>

\* A parent 0 that was really read is not counted.
Counted(key) == key # <<"ppid", 0>>

\* entries.retain: what is not older than a time span, in its order.
Retain(entries, span) ==
  LET kept[i \in 0 .. Len(entries)] ==
        IF i = 0 THEN <<>>
        ELSE IF now - entries[i] < span THEN Append(kept[i - 1], entries[i])
        ELSE kept[i - 1]
  IN  kept[Len(entries)]

\* Wrong variant: the window is one second too long.
Recent_Inclusive(key) ==
  IF key \in DOMAIN spawns THEN Retain(spawns[key], Window + 1) ELSE <<>>

\* The earlier spawns of a bucket that are still in the window.
Recent(key) ==
  IF key \in DOMAIN spawns THEN Retain(spawns[key], Window) ELSE <<>>

Burst(key) == Counted(key) /\ Len(Recent(key)) + 1 >= BurstThreshold

BehaviorAlert(ev) ==
  [severity |-> "BEHAVIOR_ALERT", pid |-> ev.pid, key |-> SpawnKey(ev),
   path |-> ev.filename, spawn_count |-> Len(Recent(SpawnKey(ev))) + 1]

\* RuleEngine::evaluate.
Blacklisted(path) == path \notin WHITELIST_PATHS /\ path.dir \in BLACKLIST_PREFIXES

SiemAlert(ev) ==
  [severity |-> "CRITICAL_ALERT", pid |-> ev.pid, path |-> ev.filename,
   argv |-> ev.argv, argv_truncated |-> ev.argv_truncated,
   env |-> ev.env, env_truncated |-> ev.env_truncated,
   env_redacted |-> ev.env_redacted]

\* Wrong variant: an event that is part of a burst is not looked at by the rules.
Process_BurstOnly(ev) ==
  LET key == SpawnKey(ev)
  IN  /\ batched' = IF batched + 1 >= BatchLimit THEN 0 ELSE batched + 1
      /\ spawns' = IF Counted(key) THEN Insert(spawns, key, Append(Recent(key), now))
                                   ELSE spawns
      /\ hist' = Append(hist, [key |-> key, at |-> now, burst |-> Burst(key)])
      /\ alerts' = alerts \o (IF Burst(key) THEN <<BehaviorAlert(ev)>>
                              ELSE IF Blacklisted(ev.filename) THEN <<SiemAlert(ev)>> ELSE <<>>)

\* emit_pipeline_output: DataNormalizer::ingest, then the rules, then the alerts
\* are handed on.  A full batch is cleared, its last event is the one at hand.
Process(ev) ==
  LET key == SpawnKey(ev)
  IN  /\ batched' = IF batched + 1 >= BatchLimit THEN 0 ELSE batched + 1
      /\ spawns' = IF Counted(key) THEN Insert(spawns, key, Append(Recent(key), now))
                                   ELSE spawns
      /\ hist' = Append(hist, [key |-> key, at |-> now, burst |-> Burst(key)])
      /\ alerts' = alerts \o (IF Burst(key) THEN <<BehaviorAlert(ev)>> ELSE <<>>)
                          \o (IF Blacklisted(ev.filename) THEN <<SiemAlert(ev)>> ELSE <<>>)

-----------------------------------------------------------------------------
(* The event loop.                                                         *)

\* async_io_mut is one branch of the select!.
LoopEnter ==
  /\ loop = "select" /\ CanEnter(telemRing)
  /\ telemRing' = Enter(telemRing)
  /\ UNCHANGED <<counts, kernelvars, procRing, procCh, detCh, names, monitor, pipevars>>

LoopNext ==
  /\ telemRing.drain /\ telemRing.q # <<>>
  /\ telemRing' = Consume(telemRing)
  /\ IF Decodes(Head(telemRing.q))
       THEN Process(Telemetry(Head(telemRing.q))) /\ loop' = loop
       ELSE UNCHANGED pipevars
  /\ UNCHANGED <<counts, kernelvars, procRing, procCh, detCh, names, monitor>>

LoopLeave ==
  /\ telemRing.drain /\ telemRing.q = <<>>
  /\ telemRing' = Leave(telemRing)
  /\ UNCHANGED <<counts, kernelvars, procRing, procCh, detCh, names, monitor, pipevars>>

\* detection_rx.recv().
LoopDetect ==
  /\ loop = "select" /\ ~ telemRing.drain /\ detCh # <<>>
  /\ detCh' = Tail(detCh) /\ Process(Head(detCh)) /\ loop' = loop
  /\ UNCHANGED <<counts, kernelvars, procRing, telemRing, procCh, names, monitor>>

\* SIGTERM or SIGINT.  The receiver lives in the select!: a signal that comes
\* while the loop is busy finds none.
LoopSignal ==
  /\ plan.signal /\ loop = "select" /\ ~ telemRing.drain
  /\ loop' = "sleep"
  /\ UNCHANGED <<counts, kernelvars, procRing, telemRing, procCh, detCh, names, monitor,
                 spawns, batched, alerts, hist>>

\* The process ends, and everything in it.
ExecEnd ==
  /\ loop' = "end"
  /\ monitor' = {} /\ procCh' = <<>> /\ detCh' = <<>>
  /\ procRing' = [procRing EXCEPT !.drain = FALSE]
  /\ telemRing' = [telemRing EXCEPT !.drain = FALSE]
  /\ UNCHANGED <<counts, kernelvars, names, spawns, batched, alerts, hist>>

LoopStep == LoopEnter \/ LoopNext \/ LoopLeave \/ LoopDetect

ExecSteps ==
  \/ \E t \in Task : SysEnter(t) \/ BprmCheck(t)
  \/ Tick
  \/ StartLoop
  \/ PollerEnter \/ PollerNext \/ PollerLeave \/ WorkerStep \/ MonitorExit
  \/ HealthSample
  \/ LoopStep \/ LoopSignal
=============================================================================
