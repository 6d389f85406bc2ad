---------------------------- MODULE AgentRuntime ----------------------------
(***************************************************************************)
(* One life of an agent: it attests its bytecode, attaches the LSM         *)
(* program, starts the monitors and the event loop, and ends with a        *)
(* signal, an error or a failed integrity check.  The pins and the policy  *)
(* are modelled in EnforcementPins and PolicySync; here the deny list      *)
(* stands still.                                                           *)
(***************************************************************************)
EXTENDS NetworkIngestion, BytecodeAttestation, BtfOffsets, IntegrityMonitor

CONSTANT Plans   \* what may happen on the node, one chosen for a behaviour

\* The processes that exec are known, what an earlier agent left in the ring are
\* records of their execs, and the files are what their formats say.
ASSUME PlanAssumption ==
  \A p \in Plans :
    /\ DOMAIN p.execs \subseteq Task
    /\ p.left \in Seq(DOMAIN p.execs) /\ Len(p.left) <= RingCapacity
    /\ p.execs \in [DOMAIN p.execs -> ExecImage]
    /\ p.attest \in Release /\ p.btf \in BtfBlob /\ p.seconds \in Nat

VARIABLES
  offsets,  \* where the LSM program was told to find its fields
  exit      \* how the process ended: "", ok, error, refused, killed, 78

agentvars == <<offsets, exit>>
vars == <<execvars, netvars, integrityvars, agentvars>>

\* A plan says who execs and connects, what an earlier agent left in the pinned
\* ring, whether Kafka is configured and a signal comes, what lies on the node for
\* attestation, offsets and integrity, whether files may change, and how long it
\* all takes.
Init ==
  /\ plan \in Plans
  /\ ExecInit /\ NetInit /\ IntegrityInit
  /\ offsets = [f \in DOMAIN Fields |-> 0] /\ exit = ""

\* attest_and_load_enforcement: both happen before anything is loaded.
MayLoad == VerifyStartup(plan.attest) = "Ok" /\ ResolveOffsets(plan.btf).error = ""

\* attest_and_load_enforcement and arm_correlator_deny_and_lsm.
Attest ==
  /\ loop = "start" /\ offsets' = ResolveOffsets(plan.btf).at
  /\ \/ MayLoad /\ loop' = "enforcing" /\ exit' = exit
     \/ ~ MayLoad /\ loop' = "end" /\ exit' = "refused"
  /\ UNCHANGED <<counts, kernelvars, procRing, telemRing, procCh, detCh, names, monitor,
                 spawns, batched, alerts, hist, netvars, integrityvars>>

\* arm_visibility_and_observability arms the integrity monitor first.
ArmVisibility ==
  /\ StartMonitors /\ ArmIntegrity(plan.integrity)
  /\ UNCHANGED <<netvars, agentvars>>

\* The process ends; the LSM program stays.
End(code) ==
  /\ ExecEnd /\ NetEnd /\ exit' = code /\ UNCHANGED offsets

\* Any of its steps may report an error, which ends the process.
ArmVisibilityFails ==
  /\ \/ loop = "enforcing" /\ ~ ConfigOk(plan.integrity)
     \/ loop \in {"enforcing", "monitoring"} /\ plan.fails
  /\ End("error") /\ UNCHANGED integrityvars

\* log_health_metrics cannot read the counters, or the ring cannot be polled.
LoopFails ==
  /\ plan.fails /\ loop = "select" /\ ~ telemRing.drain
  /\ End("error") /\ UNCHANGED integrityvars

\* The drain window after the signal is over.
LoopEnd == loop = "sleep" /\ End("ok") /\ UNCHANGED integrityvars

\* The kubelet asks GET /healthz and ends an agent that is not healthy: its SIGTERM
\* finds the event loop waiting, or the grace period runs out.
LivenessProbe ==
  /\ loop \in {"monitoring", "select"} /\ ~ Healthy
  /\ \/ /\ loop = "select" /\ ~ telemRing.drain /\ loop' = "sleep"
        /\ UNCHANGED <<counts, kernelvars, procRing, telemRing, procCh, detCh, names,
                       monitor, spawns, batched, alerts, hist, netvars, agentvars>>
     \/ End("killed")
  /\ UNCHANGED integrityvars

Armed == baseline # "" /\ loop # "end"

\* A tick of the integrity monitor.  It may still come in the drain window.
IntegrityTick ==
  /\ Armed /\ RecordFailures /\ UNCHANGED <<files, tampers, baseline>>
  /\ IF MustExit(plan.integrity)
       THEN End("78")
       ELSE UNCHANGED <<execvars, netvars, agentvars>>

Next ==
  \/ Attest
  \/ ArmVisibility
  \/ ArmVisibilityFails
  \/ LoopFails
  \/ LoopEnd
  \/ IntegrityTick
  \/ LivenessProbe
  \/ plan.tampers /\ Tamper /\ UNCHANGED <<execvars, netvars, agentvars>>
  \/ ExecSteps /\ UNCHANGED <<netvars, integrityvars, agentvars>>
  \/ NetSteps /\ UNCHANGED <<execvars, integrityvars, agentvars>>
  \/ NetExit /\ UNCHANGED <<integrityvars, agentvars>>

Spec == Init /\ [][Next]_vars

\* tokio runs the start-up and the event loop, and the timer of the integrity
\* monitor fires.  Nothing is assumed of the kernel, the monitors or Kafka.
Fairness ==
  /\ WF_vars(ArmVisibility) /\ WF_vars(ArmVisibilityFails)
  /\ WF_vars(LoopEnd) /\ WF_vars(IntegrityTick)
  /\ WF_vars((StartLoop \/ LoopStep) /\ UNCHANGED <<netvars, integrityvars, agentvars>>)

FairSpec == Spec /\ Fairness

-----------------------------------------------------------------------------
Loops == {"start", "enforcing", "monitoring", "select", "sleep", "end"}

\* Rings, channels and counters have their types and stay within their
\* capacities, and the tasks run only while the process does.
TypeOK ==
  /\ now \in 0 .. plan.seconds /\ loop \in Loops
  /\ counts \in [DOMAIN counts -> Nat]
  /\ bucket.last \in 0 .. now /\ bucket.tokens \in 0 .. MaxTokens
  /\ Len(procRing.q) <= RingCapacity /\ Len(telemRing.q) <= RingCapacity
  /\ Len(netRing.q) <= RingCapacity
  /\ Len(procCh) <= ProcCapacity /\ Len(detCh) <= DetCapacity
  /\ Len(netCh) <= ChannelCapacity /\ queued \in 0 .. UsizeModulus - 1
  /\ DOMAIN names \subseteq Task
  /\ monitor \subseteq {"poller", "worker", "network"}
  /\ monitor # {} => loop \in Running
  /\ telemRing.drain => loop = "select"
  /\ batched \in 0 .. BatchLimit - 1
  /\ files \in FileState /\ offsets \in [DOMAIN Fields -> Nat]
  /\ exit \in {"", "ok", "error", "refused", "killed", "78"}
  /\ (exit # "") = (loop = "end")

\* No event goes missing between the ring and the worker.  A poller that sleeps
\* never leaves records behind: the kernel wakes it only for the first record of
\* an empty ring, so a drain that gives its readiness back must have seen the
\* ring empty after the last wake-up.  And every exec record that the tracepoint
\* submitted, or an earlier agent left behind, is still under way or counted once,
\* as processed or as dropped, and the exported drops are those of the two
\* counters as they were last read (ringbuf_async_io.rs, process_monitor.rs,
\* network_monitor.rs, event_loop.rs, health.rs).
EventsAccounted ==
  /\ "poller" \in monitor => Wakeful(procRing)
  /\ "network" \in monitor => Wakeful(netRing)
  /\ loop = "select" => Wakeful(telemRing)
  /\ loop \in {"monitoring", "select"} =>
       counts.ring = counts.user + counts.processed + Len(procCh)
                       + Cardinality({i \in DOMAIN procRing.q : procRing.q[i] # Discarded})
  /\ counts.shown = counts.lastRate + counts.lastUser
  /\ counts.lastRate <= counts.rate /\ counts.lastUser <= counts.user

\* A connection that the drop policy refuses met a channel that was really as
\* full as the threshold says, although its counter is changed apart from it and
\* may wrap below zero (channel.rs).  When the publisher is gone the channel is
\* closed anyway.
PressureDropsAreReal ==
  [][ offer.at = "check" /\ offer'.at = "idle" /\ loop' # "end"
        => Len(netCh) + (IF pub = "count" THEN 1 ELSE 0) >= DropThreshold
             \/ pub = "gone" ]_vars

\* The normalizer prunes its buckets as it goes, and still alerts exactly when
\* the whole history has enough spawns of the same parent (or comm) in the
\* window that ends with the event (normalizer.rs).
BurstsAreExact ==
  \A i \in DOMAIN hist :
    hist[i].burst <=>
      /\ hist[i].key # <<"ppid", 0>>
      /\ BurstThreshold <=
           Cardinality({j \in 1 .. i : /\ hist[j].key = hist[i].key
                                       /\ hist[i].at - hist[j].at < Window})

\* A critical alert never says more than the exec it is about and never less
\* without saying so.  Its arguments are all of them, or marked as truncated, or
\* none because the LSM program reported the exec; only where the place behind the
\* last slot cannot be read are they the first ones without a mark.  Each variable
\* it shows is an allowlisted one of the exec, and a value that begins like a
\* secret is redacted wherever its slot is text (sys_exec.bpf.c, exec_mapper.rs,
\* env_capture.rs, rules.rs).
AlertsAreHonest ==
  \A i \in DOMAIN alerts :
    LET a == alerts[i]
        x == Exec(a.pid)
    IN  a.severity = "CRITICAL_ALERT" =>
          /\ \/ a.argv = x.argv \/ a.argv_truncated
             \/ a.argv = <<>> /\ task[a.pid] = "reported"
             \/ /\ a.argv = SubSeq(x.argv, 1, ArgSlots)
                /\ Len(x.argv) > ArgSlots /\ x.argv[ArgSlots + 1] = "no_pointer"
          /\ \A j \in DOMAIN a.env :
               \/ a.env[j] = EmptySlot
               \/ \E k \in DOMAIN x.envp :
                    /\ x.envp[k].name \in DOMAIN EnvSlot
                    /\ a.env[j].name = x.envp[k].name
                    /\ \/ a.env[j].value = {"REDACTED"} /\ "secret" \in x.envp[k].value
                       \/ /\ a.env[j].value = x.envp[k].value
                          /\ "secret" \in a.env[j].value => "not_utf8" \in a.env[j].value

\* The manifest is signed with the key and lists exactly the embedded objects, each
\* once and with its digest.
Attested(a) ==
  /\ a.absolute /\ a.key \in {"p256", "ed25519"} /\ a.signature = a.key
  /\ \A f \in DOMAIN a.files : a.files[f] = "read"
  /\ a.manifest.parses /\ a.manifest.schema_version = 1
  /\ a.manifest.git_sha # "" /\ a.manifest.build_timestamp # ""
  /\ \E order \in [1 .. 3 -> REQUIRED_ARTIFACT_NAMES] :
       /\ \A n \in REQUIRED_ARTIFACT_NAMES : a.embedded[n] # "" /\ \E i \in 1 .. 3 : order[i] = n
       /\ a.manifest.artifacts
            = [i \in 1 .. 3 |-> [name |-> order[i], digest |-> a.embedded[order[i]]]]

\* A member that lies on a byte inside its struct and is no bitfield.
PlainMember(t, j) ==
  LET raw == t.members[j].offset
  IN  (t.kind_flag => raw < 2^24) /\ raw % 8 = 0 /\ raw < 8 * t.size

HasPlain(t, name) ==
  /\ \E j \in DOMAIN t.members : t.members[j].name = name
  /\ \A j \in DOMAIN t.members :
       t.members[j].name # BadName /\ (t.members[j].name = name => PlainMember(t, j))

\* A kernel whose type information can be used.
Describes(btf) ==
  /\ btf.header = [whole |-> TRUE, magic |-> "0xEB9F", version |-> 1,
                   hdr_len |-> btf.header.hdr_len, sections |-> TRUE]
  /\ btf.header.hdr_len >= 24
  /\ \A i \in DOMAIN btf.types :
       /\ btf.types[i].kind <= 19 /\ btf.types[i].fits
       /\ btf.types[i].kind = BTF_KIND_STRUCT => btf.types[i].name # BadName

\* Nothing is loaded, attached or started unless the objects are attested and the
\* three offsets given to the LSM program are those of plain members of the two
\* structs, and an agent is refused only when the manifest, the signature, the
\* objects or the type information are at fault (bytecode_attestation.rs,
\* btf_offsets.rs, startup.rs).
OnlyAttestedCodeRuns ==
  /\ loop # "start" /\ exit # "refused" =>
       /\ Attested(plan.attest) /\ Describes(plan.btf)
       /\ \A f \in DOMAIN Fields :
            \E i \in DOMAIN plan.btf.types :
              LET t == plan.btf.types[i]
              IN  /\ t.kind = BTF_KIND_STRUCT /\ t.name = Fields[f][1]
                  /\ \E j \in DOMAIN t.members :
                       /\ t.members[j].name = Fields[f][2]
                       /\ PlainMember(t, j)
                       /\ t.members[j].offset = 8 * offsets[f]
  /\ exit = "refused" =>
       \/ ~ Attested(plan.attest)
       \/ ~ Describes(plan.btf)
       \/ \E f \in DOMAIN Fields :
            LET structs == {t \in Range(plan.btf.types) :
                              t.kind = BTF_KIND_STRUCT /\ t.name = Fields[f][1]}
            IN  structs = {} \/ \E t \in structs : ~ HasPlain(t, Fields[f][2])

\* The reason a check reports for each of the files.
Reason ==
  [exe |-> "exe_digest", disk |-> "on_disk_binary", link |-> "lsm_link",
   list |-> "pinned_map", count |-> "pinned_map"]
Bad(f) == IF f \in {"exe", "disk"} THEN files[f] # baseline ELSE files[f] # "ok"

\* A file that is and stays changed under a running agent is reported, whatever
\* else is wrong at the same time (integrity.rs).
TamperingReported ==
  \A f \in DOMAIN Pristine :
    []<>(Armed /\ Bad(f) => Reason[f] \in reported \/ loop = "sleep")

\* An exec that the LSM program denies in a directory of the rules becomes a
\* critical alert, unless the ring was full and the event is counted as lost, or
\* the agent ends (ebpf/src/main.rs, event_loop.rs).
BlockedExecsAlert ==
  \A t \in Task :
    []<>( task[t] = "reported" /\ "LSM_FILENAME" \notin Exec(t).faults
            /\ Exec(t).bprm.dir \in BLACKLIST_PREFIXES
    => \/ \E i \in DOMAIN alerts :
            /\ alerts[i].severity = "CRITICAL_ALERT"
            /\ alerts[i].pid = t /\ alerts[i].path = Exec(t).bprm
       \/ loop \in {"sleep", "end"} )

\* Every allowlisted variable that the kernel stored for an exec reaches the
\* telemetry, or the telemetry says that its environment is truncated
\* (exec_mapper.rs).
NoSilentEnvLoss ==
  \A i \in DOMAIN detCh :
    LET x == Exec(detCh[i].pid)
    IN  "ENVP_NULL" \notin x.faults /\ ~ detCh[i].env_truncated =>
          \A j \in DOMAIN x.envp :
            x.envp[j].name \in DOMAIN EnvSlot =>
              \E k \in DOMAIN detCh[i].env : detCh[i].env[k].name = x.envp[j].name
=============================================================================
