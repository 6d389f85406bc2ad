--------------------------- MODULE MCAgentRuntime ---------------------------
\* A small instance of AgentRuntime for TLC: a few things to happen at a time.
EXTENDS AgentRuntime

In(dir) == [dir |-> dir, name |-> "x"]

\* An exec of the file in dir, with nothing special about it.
Plain(dir) ==
  [via |-> "execve", file |-> In(dir), bprm |-> In(dir), excepted |-> FALSE,
   ppid |-> 7, comm |-> "sh", argv |-> <<"arg">>, envp |-> <<>>, faults |-> {}]

Var(name, value) == [name |-> name, value |-> value]

\* By descriptor, with more arguments and variables than are recorded.
ByDescriptor ==
  [Plain("/dev/fd/") EXCEPT
     !.via = "execveat", !.file = NoPath, !.argv = <<"arg", "long", "arg">>,
     !.faults = {"PPID", "ENVP_NULL"}]
Loaded ==
  [Plain("/tmp/") EXCEPT
     !.argv = <<"arg", "arg", "arg">>, !.excepted = TRUE, !.faults = {"PPID", "COMM"},
     !.envp = <<Var("LD_PRELOAD", {"secret"}), Var("HOME", {}),
                Var("SSLKEYLOGFILE", {"long"})>>]

\* With places and strings that cannot be read, and a secret that the slot cuts.
Unreadable ==
  [Plain("/tmp/") EXCEPT
     !.argv = <<"arg", "arg", "no_pointer">>,
     !.envp = <<Var("LD_PRELOAD", {"secret", "long", "not_utf8"}), EnvFault,
                Var("LD_AUDIT", {"secret", "long"}), NoPointer>>]
Hidden ==
  [Plain("/dev/shm/") EXCEPT
     !.argv = <<"arg", "fault">>,
     !.envp = <<Var("LD_PRELOAD", {"secret"}), NoPointer, Var("LD_PRELOAD", {})>>]

Digests == [n \in REQUIRED_ARTIFACT_NAMES |-> n]
Artifact(n) == [name |-> n, digest |-> n]
GoodManifest ==
  [parses |-> TRUE, schema_version |-> 1, git_sha |-> "sha", build_timestamp |-> "t",
   artifacts |-> <<Artifact("network_filter.bpf.o"), Artifact("sys_exec.bpf.o"),
                   Artifact("agent-ebpf-sensor-ebpf")>>]
AllRead == [key |-> "read", manifest |-> "read", signature |-> "read"]
GoodAttest ==
  [absolute |-> TRUE, files |-> AllRead, key |-> "p256", signature |-> "p256", manifest |-> GoodManifest,
   embedded |-> Digests]

Manifests ==
  {[GoodManifest EXCEPT !.parses = FALSE], [GoodManifest EXCEPT !.schema_version = 2],
   [GoodManifest EXCEPT !.git_sha = ""], [GoodManifest EXCEPT !.build_timestamp = ""]}
  \cup {[GoodManifest EXCEPT !.artifacts = s] :
          s \in UNION {[1 .. k -> {Artifact(n) : n \in REQUIRED_ARTIFACT_NAMES}
                                  \cup {[name |-> "sys_exec.bpf.o", digest |-> "md5"],
                                        [name |-> "sys_exec.bpf.o", digest |-> "old"],
                                        Artifact("extra.bpf.o")}] : k \in 2 .. 4}}

Attests ==
  [absolute : BOOLEAN, files : [{"key", "manifest", "signature"} -> {"read", "missing"}],
   key : {"garbage", "p256", "ed25519"},
   signature : {"", "not_base64", "other", "p256", "ed25519"},
   manifest : {GoodManifest}, embedded : {Digests}]
  \cup {[GoodAttest EXCEPT !.manifest = m] : m \in Manifests}
  \cup {[GoodAttest EXCEPT !.embedded["sys_exec.bpf.o"] = d] : d \in {"", "v2"}}

Struct(name, members) ==
  [kind |-> 4, name |-> name, size |-> 16, kind_flag |-> TRUE, fits |-> TRUE, members |-> members]
Member(name, offset) == [name |-> name, offset |-> offset]
TaskStruct == Struct("task_struct", <<Member("pid", 0), Member("tgid", 32), Member("real_parent", 64)>>)
Binprm == Struct("linux_binprm", <<Member("filename", 120)>>)
IntType == [kind |-> 1, name |-> "int", size |-> 4, kind_flag |-> FALSE, fits |-> TRUE, members |-> <<>>]
GoodHeader == [whole |-> TRUE, magic |-> "0xEB9F", version |-> 1, hdr_len |-> 24, sections |-> TRUE]
GoodBtf == [header |-> GoodHeader, types |-> <<IntType, TaskStruct, Binprm>>]

Headers ==
  [whole : BOOLEAN, magic : {"0xEB9F", "swapped", "zero"}, version : {1, 2}, hdr_len : {23, 24, 28},
   sections : BOOLEAN]
Types ==
  {IntType, TaskStruct, Binprm, [IntType EXCEPT !.kind = 20], [IntType EXCEPT !.fits = FALSE],
   [IntType EXCEPT !.name = BadName], [Binprm EXCEPT !.name = BadName],
   [TaskStruct EXCEPT !.members[2].name = BadName], [TaskStruct EXCEPT !.members[3].name = "parent"],
   [Binprm EXCEPT !.kind_flag = FALSE]}
  \cup {[Binprm EXCEPT !.members[1].offset = o, !.kind_flag = k] :
          o \in {0, 4, 127, 128, 136, 2^24, 2^24 + 64}, k \in BOOLEAN}

\* Type information of a kernel: good, with a bad header, or with types that are
\* missing, doubled, misplaced or damaged.
Btfs ==
  {[GoodBtf EXCEPT !.header = h] : h \in Headers}
  \cup {[GoodBtf EXCEPT !.types = s] : s \in {<<a, b>> : a, b \in Types} \cup {<<IntType, TaskStruct, b>> : b \in Types}
                                                  \cup {<<a, TaskStruct, Binprm>> : a \in Types}}

Quiet ==
  [execs |-> <<>>, left |-> <<>>, ringAbi |-> "current", btf |-> GoodBtf, connects |-> <<>>, brokers |-> FALSE, signal |-> FALSE, fails |-> FALSE,
   tampers |-> FALSE, seconds |-> 0, attest |-> GoodAttest,
   integrity |-> [digest |-> "", path |-> "", exit_on_failure |-> TRUE]]

MCPlans ==
  {[Quiet EXCEPT !.attest = a] : a \in Attests}
  \cup {[Quiet EXCEPT !.btf = b] : b \in Btfs}
  \cup {[Quiet EXCEPT !.tampers = TRUE, !.integrity = [digest |-> d, path |-> p, exit_on_failure |-> e]] :
          d \in {"", "v1", "malformed"}, p \in {"", "relative"}, e \in BOOLEAN}
  \cup {[Quiet EXCEPT !.execs = <<Plain("/tmp/"), Plain("/dev/shm/"), Plain("/tmp/")>>],
        [Quiet EXCEPT !.execs = <<Plain("/tmp/"), Plain("/opt/")>>, !.seconds = 2],
        [Quiet EXCEPT !.execs = <<ByDescriptor, Loaded>>, !.seconds = 1],
        [Quiet EXCEPT !.execs = <<Unreadable, Hidden>>],
        [Quiet EXCEPT !.execs = <<[Plain("/opt/") EXCEPT !.faults = {"FILENAME", "BPRM"}],
                                  [Plain("/tmp/") EXCEPT !.ppid = 0]>>,
                      !.signal = TRUE],
        [Quiet EXCEPT !.execs = <<Plain("/dev/shm/")>>, !.signal = TRUE, !.fails = TRUE],
        [Quiet EXCEPT !.execs = <<Plain("/tmp/"), Plain("/opt/")>>, !.left = <<2>>],
        [Quiet EXCEPT !.execs = <<Plain("/tmp/"), Plain("/opt/")>>, !.left = <<2>>, !.ringAbi = "old"],
        [Quiet EXCEPT !.execs = <<Plain("/opt/")>>, !.connects = <<3>>, !.brokers = TRUE],
        [Quiet EXCEPT !.execs = <<Plain("/opt/")>>, !.connects = <<2>>, !.signal = TRUE]}

\* An exec whose environment holds one variable of the allowlist, or two.
MCEnvPlans ==
  {[Quiet EXCEPT !.execs = <<[Plain("/opt/") EXCEPT !.envp = e]>>] :
     e \in {<<Var("LD_PRELOAD", {})>>, <<Var("HOME", {}), Var("PATH", {})>>,
            <<Var("PATH", {}), Var("LD_PRELOAD", {})>>}}
=============================================================================
