------------------------------ MODULE KafkaLog ------------------------------
(***************************************************************************)
(* The one partition of the telemetry topic, as the producer and the       *)
(* consumers use it: records get consecutive offsets, retention moves the  *)
(* first offset that is kept, compaction leaves gaps.                      *)
(***************************************************************************)
EXTENDS Naturals, Sequences, FiniteSets

CONSTANTS
  MaxInputs,  \* bound: alerts raised, records of others and removals, together
  MaxFaults   \* bound: failing requests, and deaths of a process

ASSUME LogAssumption == MaxInputs \in Nat /\ MaxFaults \in Nat

VARIABLES
  log,       \* every record ever appended; offset o is log[o + 1]
  logStart,  \* the first offset that is kept
  gaps,      \* offsets that compaction removed
  faults     \* faults so far

SCHEMA_VERSION == "neuromesh.telemetry.v1"
BEHAVIOR_ALERT == "BEHAVIOR_ALERT"
CRITICAL_ALERT == "CRITICAL_ALERT"

\* A record somebody else put on the topic: alert 0, of another schema or type.
ForeignRecord ==
  {[id |-> 0, schema |-> "other", type |-> BEHAVIOR_ALERT],
   [id |-> 0, schema |-> SCHEMA_VERSION, type |-> "other"]}

Record == [id : Nat, schema : {SCHEMA_VERSION, "other"},
           type : {BEHAVIOR_ALERT, CRITICAL_ALERT, "other"}]

HighWatermark == Len(log)

\* The value of a broker variable, split at its commas and trimmed, and the
\* brokers it names: blanks do not count.
BrokerLists == {<<>>, <<"">>, <<"", "kafka:9092">>}
Brokers(list) == {list[i] : i \in DOMAIN list} \ {""}

\* The offsets that a fetch from offset o can return.
Readable(o) == {p \in o .. HighWatermark - 1 : p >= logStart /\ p \notin gaps}

LogInit == log = <<>> /\ logStart = 0 /\ gaps = {} /\ faults = 0

Fault == faults < MaxFaults /\ faults' = faults + 1

\* What happened to the topic besides the agent's records.
Upsets ==
  logStart + Cardinality(gaps) + Cardinality({i \in DOMAIN log : log[i].id = 0})

ForeignAppend ==
  /\ \E r \in ForeignRecord : log' = Append(log, r)
  /\ UNCHANGED <<logStart, gaps, faults>>

\* Retention deletes the oldest record.
Retain ==
  /\ logStart < HighWatermark
  /\ logStart' = logStart + 1
  /\ UNCHANGED <<log, gaps, faults>>

\* Compaction removes a record that is not the newest.
Compact ==
  /\ \E o \in Readable(0) : o < HighWatermark - 1 /\ gaps' = gaps \cup {o}
  /\ UNCHANGED <<log, logStart, faults>>

LogTypeOK ==
  /\ log \in Seq(Record) /\ logStart \in 0 .. Len(log)
  /\ gaps \subseteq 0 .. Len(log) /\ faults \in 0 .. MaxFaults
=============================================================================
