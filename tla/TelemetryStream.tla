-------------------------- MODULE TelemetryStream --------------------------
(***************************************************************************)
(* The slow path of the agent (telemetry_stream.rs): the event loop offers *)
(* alerts to a bounded queue and never waits; one worker publishes them,   *)
(* connecting when it has an alert and no client.                          *)
(***************************************************************************)
EXTENDS KafkaLog

CONSTANTS
  StreamCapacity,   \* NEUROMESH_KAFKA_CHANNEL_CAPACITY
  Severities        \* severities of the alerts of this run

ASSUME StreamAssumption ==
  /\ StreamCapacity \in Nat \ {0}
  /\ Severities \subseteq {BEHAVIOR_ALERT, CRITICAL_ALERT}

VARIABLES
  smode,    \* kafka, or noop when no broker is configured
  squeue,   \* the channel: alerts, numbered as they were raised
  scur,     \* the alert the worker holds, as a sequence of at most one
  spc,      \* the worker: recv, connect, sleep, encode, produce
  sclient,  \* partition_client.is_some()
  stries,   \* requests of the running produce() that failed
  soffer,   \* the event loop: send, or count an alert it has sent
  sstats,   \* TelemetryStreamStats
  raised    \* alerts so far

svars == <<smode, squeue, scur, spc, sclient, stries, soffer, sstats, raised>>

ZeroStats == [enqueued |-> 0, dropped |-> 0, published |-> 0, failed |-> 0]

Add(stats, field) == [stats EXCEPT ![field] = @ + 1]

\* What kafka_publisher_loop writes for an alert: encode_behavior_alert and
\* encode_critical_alert name the alert and take its severity for the type.
EncodeAlert(a) ==
  [id |-> a.id, schema |-> SCHEMA_VERSION, type |-> a.severity]

\* TelemetryStreamConfig::from_env and spawn_from_env: without brokers nothing is
\* sent anywhere.
StreamMode(list) == IF Brokers(list) = {} THEN "noop" ELSE "kafka"

StreamInit ==
  /\ \E list \in BrokerLists : smode = StreamMode(list)
  /\ squeue = <<>> /\ scur = <<>> /\ spc = "recv" /\ sclient = FALSE
  /\ stries = 0 /\ soffer = "send" /\ sstats = ZeroStats /\ raised = 0

\* Wrong variant: the queue has no bound.
TryEnqueue_Unbounded(a) ==
  squeue' = Append(squeue, a) /\ soffer' = "count" /\ UNCHANGED sstats

\* try_enqueue: a full channel drops the alert and counts it.  An alert that was
\* sent is counted afterwards, and the worker may take it before.
TryEnqueue(a) ==
  IF Len(squeue) < StreamCapacity
    THEN squeue' = Append(squeue, a) /\ soffer' = "count" /\ UNCHANGED sstats
    ELSE sstats' = Add(sstats, "dropped") /\ UNCHANGED <<squeue, soffer>>

\* The event loop offers an alert.
Raise ==
  /\ soffer = "send" /\ raised + Upsets < MaxInputs
  /\ raised' = raised + 1
  /\ \E s \in Severities : TryEnqueue([id |-> raised + 1, severity |-> s])
  /\ UNCHANGED <<smode, scur, spc, sclient, stries, log, logStart, gaps, faults>>

\* enqueued.fetch_add of an alert that was sent.
CountEnqueued ==
  /\ soffer = "count"
  /\ soffer' = "send" /\ sstats' = Add(sstats, "enqueued")
  /\ UNCHANGED <<smode, squeue, scur, spc, sclient, stries, raised,
                 log, logStart, gaps, faults>>

\* spawn_noop: alerts are drained, and counted as published.
NoopDrain ==
  /\ smode = "noop" /\ squeue # <<>>
  /\ squeue' = Tail(squeue) /\ sstats' = Add(sstats, "published")
  /\ UNCHANGED <<smode, scur, spc, sclient, stries, soffer, raised,
                 log, logStart, gaps, faults>>

\* rx.recv() and the test for a client.
Recv ==
  /\ smode = "kafka" /\ spc = "recv" /\ squeue # <<>>
  /\ scur' = <<Head(squeue)>> /\ squeue' = Tail(squeue)
  /\ spc' = IF sclient THEN "encode" ELSE "connect"
  /\ UNCHANGED <<smode, sclient, stries, soffer, sstats, raised,
                 log, logStart, gaps, faults>>

ConnectOk ==
  /\ spc = "connect"
  /\ sclient' = TRUE /\ spc' = "encode"
  /\ UNCHANGED <<smode, squeue, scur, stries, soffer, sstats, raised,
                 log, logStart, gaps, faults>>

\* Wrong variant: the alert in hand goes back to the end of the queue.
ConnectFail_Requeues ==
  /\ spc = "connect" /\ Fault
  /\ sstats' = Add(sstats, "failed") /\ scur' = <<>> /\ spc' = "sleep"
  /\ squeue' = squeue \o scur
  /\ UNCHANGED <<smode, sclient, stries, soffer, raised, log, logStart, gaps>>

\* The alert in hand is given up, and the worker sleeps.
ConnectFail ==
  /\ spc = "connect" /\ Fault
  /\ sstats' = Add(sstats, "failed") /\ scur' = <<>> /\ spc' = "sleep"
  /\ UNCHANGED <<smode, squeue, sclient, stries, soffer, raised, log, logStart, gaps>>

Wake ==
  /\ spc = "sleep" /\ spc' = "recv"
  /\ UNCHANGED <<smode, squeue, scur, sclient, stries, soffer, sstats, raised,
                 log, logStart, gaps, faults>>

Encode ==
  /\ spc = "encode" /\ spc' = "produce"
  /\ UNCHANGED <<smode, squeue, scur, sclient, stries, soffer, sstats, raised,
                 log, logStart, gaps, faults>>

\* encode_alert or serde_json::to_vec reports an error.
EncodeFail ==
  /\ spc = "encode" /\ Fault
  /\ sstats' = Add(sstats, "failed") /\ scur' = <<>> /\ spc' = "recv"
  /\ UNCHANGED <<smode, squeue, sclient, stries, soffer, raised, log, logStart, gaps>>

\* produce() sends the record, one request at a time.  Inside the call rskafka
\* repeats a request whose connection or answer is lost, and without idempotence
\* the broker may have each of them.
ProduceRetry ==
  /\ spc = "produce" /\ Fault
  /\ log' \in {log, Append(log, EncodeAlert(scur[1]))}
  /\ stries' = stries + 1
  /\ UNCHANGED <<smode, squeue, scur, spc, sclient, soffer, sstats, raised,
                 logStart, gaps>>

\* A request was acknowledged.
ProduceOk ==
  /\ spc = "produce"
  /\ log' = Append(log, EncodeAlert(scur[1])) /\ stries' = 0
  /\ sstats' = Add(sstats, "published") /\ scur' = <<>> /\ spc' = "recv"
  /\ UNCHANGED <<smode, squeue, sclient, soffer, raised, logStart, gaps, faults>>

\* Wrong variant: the alert goes back to the end of the queue.
ProduceErr_Requeues ==
  /\ spc = "produce" /\ Fault
  /\ log' \in {log, Append(log, EncodeAlert(scur[1]))} /\ stries' = 0
  /\ sstats' = Add(sstats, "failed") /\ scur' = <<>> /\ spc' = "recv"
  /\ sclient' = FALSE /\ squeue' = squeue \o scur
  /\ UNCHANGED <<smode, soffer, raised, logStart, gaps>>

\* produce() gives up: the last request may have reached the broker all the same.
ProduceErr ==
  /\ spc = "produce" /\ Fault
  /\ log' \in {log, Append(log, EncodeAlert(scur[1]))} /\ stries' = 0
  /\ sstats' = Add(sstats, "failed") /\ scur' = <<>> /\ spc' = "recv"
  /\ sclient' = FALSE
  /\ UNCHANGED <<smode, squeue, soffer, raised, logStart, gaps>>

\* The agent ends (a signal, exit 78, a crash) and starts again.
AgentRestart ==
  /\ Fault
  /\ squeue' = <<>> /\ scur' = <<>> /\ spc' = "recv" /\ sclient' = FALSE
  /\ stries' = 0 /\ soffer' = "send" /\ sstats' = ZeroStats
  /\ UNCHANGED <<smode, raised, log, logStart, gaps>>

StreamWorker ==
  \/ NoopDrain
  \/ Recv
  \/ ConnectOk
  \/ ConnectFail
  \/ Wake
  \/ Encode
  \/ EncodeFail
  \/ ProduceRetry
  \/ ProduceOk
  \/ ProduceErr

StreamNext == Raise \/ CountEnqueued \/ StreamWorker \/ AgentRestart

Alert == [id : Nat \ {0}, severity : {BEHAVIOR_ALERT, CRITICAL_ALERT}]

StreamTypeOK ==
  /\ smode \in {"kafka", "noop"} /\ sclient \in BOOLEAN /\ raised \in Nat
  /\ squeue \in Seq(Alert) /\ Len(squeue) <= StreamCapacity
  /\ scur \in Seq(Alert) /\ Len(scur) <= 1
  /\ spc \in {"recv", "connect", "sleep", "encode", "produce"}
  /\ (scur # <<>> <=> spc \in {"connect", "encode", "produce"})
  /\ stries \in 0 .. faults /\ (stries # 0 => spc = "produce")
  /\ soffer \in {"send", "count"}
  /\ sstats \in [{"enqueued", "dropped", "published", "failed"} -> Nat]
=============================================================================
