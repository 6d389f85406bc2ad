---------------------------- MODULE ExecCapture ----------------------------
(***************************************************************************)
(* What the kernel programs record of an exec and what the agent makes of  *)
(* the record: sys_exec.bpf.c and ebpf/src/main.rs fill an ExecEvent,      *)
(* exec_mapper.rs turns it into telemetry.  Bits of a status word are      *)
(* members of a set; a slot is the string in it, or Empty.                 *)
(***************************************************************************)
EXTENDS Naturals, Sequences, FiniteSets, SequencesExt

CONSTANTS
  ArgSlots,  \* MAX_ARGS_CAPTURE
  EnvScan    \* MAX_ENV_SCAN

ASSUME CaptureAssumption == ArgSlots \in Nat \ {0} /\ EnvScan \in Nat \ {0}

Unknown == "UNKNOWN"
Empty   == ""

\* A path is the directory it lies in and a name.
Path        == [dir : STRING, name : STRING]
NoPath      == [dir |-> Empty, name |-> Empty]
UnknownPath == [dir |-> Empty, name |-> Unknown]

\* A variable is its name and what is the case for its value.
EnvVar == [name : STRING, value : SUBSET STRING]

\* An exec as the kernel programs meet it: the system call, the file it names and
\* the one the LSM hook sees, whether an identity exception covers it, the parent,
\* the comm, the arguments, the environment, and what cannot be read.
ExecImage ==
  [via : {"execve", "execveat"}, file : Path, bprm : Path, excepted : BOOLEAN,
   ppid : Nat, comm : STRING, argv : Seq(STRING),
   envp : Seq(EnvVar), faults : SUBSET STRING]

-----------------------------------------------------------------------------
(* The arguments, as a probe of each place of argv finds them: "arg",      *)
(* "long" (it fills its slot), "fault" (the string cannot be read) or      *)
(* "no_pointer" (the place itself cannot be read).                         *)

\* The bit of a status word that is set when something failed.
Marked(bit, failed) == IF failed THEN {bit} ELSE {}

\* capture_argv stops at the first argument it cannot read.
CopiedArgs(argv) ==
  {i \in 1 .. ArgSlots : /\ i <= Len(argv)
                         /\ \A j \in 1 .. i : argv[j] \notin {"fault", "no_pointer"}}

\* The place behind the slots holds a pointer, and it can be read.
MoreArgs(argv) == ArgSlots < Len(argv) /\ argv[ArgSlots + 1] # "no_pointer"

\* Wrong variant: arguments beyond the slots are not marked.
ArgvOf_CountUnmarked(argv, null) ==
  IF null
    THEN [slots |-> <<>>, trunc |-> {}, flags |-> {"PROBE_FAULT"}]
    ELSE LET n == Cardinality(CopiedArgs(argv))
         IN  [slots |-> SubSeq(argv, 1, n),
              trunc |-> {i \in 1 .. n : argv[i] = "long"},
              flags |-> Marked("PROBE_FAULT", n < ArgSlots /\ n < Len(argv))]

ArgvOf(argv, null) ==
  IF null
    THEN [slots |-> <<>>, trunc |-> {}, flags |-> {"PROBE_FAULT"}]
    ELSE LET n == Cardinality(CopiedArgs(argv))
         IN  [slots |-> SubSeq(argv, 1, n),
              trunc |-> {i \in 1 .. n : argv[i] = "long"},
              flags |-> Marked("PROBE_FAULT", n < ArgSlots /\ n < Len(argv))
                          \cup Marked("ARGC_TRUNCATED", n = ArgSlots /\ MoreArgs(argv))]

-----------------------------------------------------------------------------
(* The environment.  A value may be "secret" (it begins like one), "long"  *)
(* (it fills its slot) and "not_utf8" (the bytes in the slot are no text,  *)
(* for which a character that the end of the slot cuts is enough).         *)

\* The slots of env_match_store: each allowlisted name has its own, the last
\* one is shared.
EnvSlot ==
  [LD_PRELOAD |-> 1, LD_AUDIT |-> 2, LD_LIBRARY_PATH |-> 3, PATH |-> 4,
   NODE_OPTIONS |-> 5, PYTHONPATH |-> 6, BASH_ENV |-> 7,
   PROMPT_COMMAND |-> 8, SSLKEYLOGFILE |-> 8]
EnvSlots == 8
EnvFault  == [name |-> Empty, value |-> {"fault"}]       \* an unreadable string
NoPointer == [name |-> Empty, value |-> {"no_pointer"}]  \* an unreadable place
EmptySlot == [name |-> Empty, value |-> {}]

\* One turn of the loop of capture_envp: the last of a name wins, and
\* SSLKEYLOGFILE does not take an occupied slot.
StoreEnv(env, v) ==
  IF v = EnvFault THEN [env EXCEPT !.flags = @ \cup {"PROBE_FAULT"}]
  ELSE IF v.name \notin DOMAIN EnvSlot THEN env
  ELSE IF v.name = "SSLKEYLOGFILE" /\ env.slots[8] # EmptySlot
    THEN [env EXCEPT !.flags = @ \cup {"SLOTS_FULL"}]
  ELSE [env EXCEPT !.slots[EnvSlot[v.name]] = v,
                   !.trunc = IF "long" \in v.value THEN @ \cup {EnvSlot[v.name]} ELSE @]

NoEnv == [slots |-> [i \in 1 .. EnvSlots |-> EmptySlot], trunc |-> {}, flags |-> {}]

\* capture_envp stops at the first place it cannot read; a string it cannot read
\* is passed over.
ScannedVars(envp) ==
  {i \in 1 .. EnvScan : i <= Len(envp) /\ \A j \in 1 .. i : envp[j] # NoPointer}

\* capture_envp.
EnvOf(envp, null) ==
  IF null
    THEN [NoEnv EXCEPT !.flags = {"PROBE_FAULT"}]
    ELSE LET n    == Cardinality(ScannedVars(envp))
             scan[j \in 0 .. n] ==
               IF j = 0 THEN NoEnv ELSE StoreEnv(scan[j - 1], envp[j])
         IN  [scan[n] EXCEPT
                !.flags = @ \cup Marked("PROBE_FAULT", n < EnvScan /\ n < Len(envp))
                            \cup Marked("COUNT_TRUNCATED", n = EnvScan)]

\* env_len is the number of slots that are filled.
EnvLen(env) == Cardinality({i \in 1 .. EnvSlots : env.slots[i] # EmptySlot})

-----------------------------------------------------------------------------
(* The two records of an exec.                                             *)

\* emit_exec_event: an execveat with an empty path names its file by a
\* descriptor.
TraceEvent(pid, x) ==
  LET argv   == ArgvOf(x.argv, "ARGV_NULL" \in x.faults)
      env    == EnvOf(x.envp, "ENVP_NULL" \in x.faults)
      fromFd == x.via = "execveat" /\ x.file = NoPath
  IN  [schema   |-> 3,
       pid      |-> pid,
       action   |-> "allowed",
       flags    |-> Marked("EXECVEAT", x.via = "execveat")
                      \cup Marked("PATH_FROM_FD", fromFd),
       ppid     |-> IF "PPID" \in x.faults THEN 0 ELSE x.ppid,
       comm     |-> IF "COMM" \in x.faults THEN Unknown ELSE x.comm,
       filename |-> IF fromFd THEN UnknownPath ELSE x.file,
       argv     |-> argv,
       env      |-> env,
       status   |-> (x.faults \cap {"PPID", "COMM"})
                      \cup Marked("FILENAME", fromFd)
                      \cup Marked("ARGV", argv.trunc # {} \/ argv.flags # {})
                      \cup Marked("ENV", env.trunc # {} \/ env.flags # {})]

\* emit_blocked_exec_event: neither arguments nor environment.
BlockedEvent(pid, x) ==
  [schema   |-> 3,
   pid      |-> pid,
   action   |-> "blocked",
   flags    |-> {},
   ppid     |-> IF "PPID" \in x.faults THEN 0 ELSE x.ppid,
   comm     |-> IF "COMM" \in x.faults THEN Unknown ELSE x.comm,
   filename |-> IF "LSM_FILENAME" \in x.faults THEN UnknownPath ELSE x.bprm,
   argv     |-> [slots |-> <<>>, trunc |-> {}, flags |-> {}],
   env      |-> NoEnv,
   status   |-> (x.faults \cap {"PPID", "COMM"})
                  \cup Marked("FILENAME", "LSM_FILENAME" \in x.faults)]

\* ExecEvent::is_valid: the schema is written last, a torn record has none.
Decodes(e) == e.schema = 3

-----------------------------------------------------------------------------
(* Telemetry.                                                              *)

\* value_needs_redact and redact_env_slot: a value that begins like a secret, in a
\* slot that is text.  Any other slot is left as it is.
Redact(slot) ==
  IF "secret" \in slot.value /\ "not_utf8" \notin slot.value
    THEN [slot EXCEPT !.value = {"REDACTED"}]
    ELSE slot

\* env_field: the first env_len slots.
EnvField(env) == [i \in 1 .. EnvLen(env) |-> Redact(env.slots[i])]

\* string_field: a field that was not captured is the sentinel.
StringField(value, sentinel, bit, e) == IF bit \in e.status THEN sentinel ELSE value

\* scalar_or_zero.
ScalarOrZero(value, bit, e) == IF bit \in e.status THEN 0 ELSE value

\* exec_event_to_security_telemetry.
Telemetry(e) ==
  [pid             |-> e.pid,
   ppid            |-> ScalarOrZero(e.ppid, "PPID", e),
   ppid_unresolved |-> "PPID" \in e.status,
   comm            |-> StringField(e.comm, Unknown, "COMM", e),
   filename        |-> StringField(e.filename, UnknownPath, "FILENAME", e),
   argv            |-> e.argv.slots,
   argv_truncated  |-> e.argv.trunc # {} \/ e.argv.flags # {} \/ "ARGV" \in e.status,
   env             |-> EnvField(e.env),
   env_truncated   |-> e.env.trunc # {} \/ e.env.flags # {} \/ "ENV" \in e.status,
   env_redacted    |-> \E i \in 1 .. EnvLen(e.env) : Redact(e.env.slots[i]) # e.env.slots[i]]
=============================================================================
