--------------------------- MODULE SiemForwarder ---------------------------
(***************************************************************************)
(* A SIEM forwarder (datadog-forwarder, splunk-hec-forwarder): a consumer  *)
(* that fetches the telemetry topic from offset 0, a bounded queue, and a  *)
(* worker that posts one alert at a time with at most four attempts.  The  *)
(* two programs have the same control; sink says which one this is.        *)
(***************************************************************************)
EXTENDS KafkaLog

CONSTANTS
  QueueCapacity,   \* queue_capacity
  MaxBatch,        \* records that one fetch returns
  InitialBackoff,  \* 250 ms
  BackoffCap,      \* 30 s
  Deployments      \* the programs deployed, each with its environment

MAX_ATTEMPTS == 4

KnownSites == {"us1", "us3", "us5", "eu1", "ap1", "ap2", "uk1", "us1-fed",
               "us2-fed"}

\* The environment variables; one is "" when it is unset or blank.
ForwarderEnv ==
  [url : {"", "custom"}, site : KnownSites \cup {"", "unknown"},
   keyFile : {"unset", "relative", "unreadable", "empty", "key"},
   brokers : BrokerLists]

ASSUME ForwarderAssumption ==
  /\ QueueCapacity \in Nat \ {0} /\ MaxBatch \in Nat \ {0}
  /\ InitialBackoff \in Nat \ {0} /\ BackoffCap \in Nat
  /\ InitialBackoff <= BackoffCap
  /\ Deployments \subseteq {"datadog", "splunk"} \X ForwarderEnv

VARIABLES
  sink,       \* datadog or splunk
  fenv,       \* its environment
  fpc,        \* the consumer: down, connect, fetch, handle, inactive
  nextOffset, \* next_offset
  batch, pos, \* offsets of the records fetched; how many are handled
  foffer,     \* the consumer: send, or count an envelope it has sent
  fqueue,     \* the queue: offsets, standing for the envelopes
  fcur,       \* what the worker holds, as a sequence of at most one
  wpc,        \* the worker: wait, post, sleep
  attempt,    \* failed attempts for fcur
  backoff,    \* carried from alert to alert
  fstats,     \* ForwarderStats, with the drops of the metrics
  intake,     \* what the SIEM received, in order
  seen        \* offsets this process has handled

fvars == <<sink, fenv, fpc, nextOffset, batch, pos, foffer, fqueue,
           fcur, wpc, attempt, backoff, fstats, intake, seen>>

ZeroForwarderStats ==
  [enqueued |-> 0, dropped |-> 0, malformed |-> 0, forwarded |-> 0, failed |-> 0]

Count(field) == [fstats EXCEPT ![field] = @ + 1]

-----------------------------------------------------------------------------
(* Configuration.                                                          *)

\* intake_url_for_site: a site nobody knows has no intake.
IntakeForSite(site) == IF site \in KnownSites THEN site ELSE ""

\* resolve_logs_url: an explicit URL wins over the site.
DatadogUrl(env) == IF env.url # "" THEN env.url ELSE IntakeForSite(env.site)

\* Splunk knows an explicit URL only.
SplunkUrl(env) == env.url

\* load_api_key_file and load_hec_token_file: an absolute path of a readable
\* file that is not blank.
DatadogKey(env) == env.keyFile = "key"
SplunkToken(env) == env.keyFile = "key"

\* ForwarderConfig::from_env: all or nothing.
DatadogConfig(env) ==
  DatadogUrl(env) # "" /\ DatadogKey(env) /\ Brokers(env.brokers) # {}
SplunkConfig(env) ==
  SplunkUrl(env) # "" /\ SplunkToken(env) /\ Brokers(env.brokers) # {}

Configured ==
  IF sink = "datadog" THEN DatadogConfig(fenv) ELSE SplunkConfig(fenv)

-----------------------------------------------------------------------------
(* One record, one answer.                                                 *)

\* TelemetryEnvelope::parse_json and validate.
DatadogAccepts(r) ==
  r.schema = SCHEMA_VERSION /\ r.type \in {BEHAVIOR_ALERT, CRITICAL_ALERT}
SplunkAccepts(r) ==
  r.schema = SCHEMA_VERSION /\ r.type \in {BEHAVIOR_ALERT, CRITICAL_ALERT}

Accepts(r) == IF sink = "datadog" THEN DatadogAccepts(r) ELSE SplunkAccepts(r)

\* The answers of the intake; "error" is a request that got none in 15 s.
Answer == {"2xx", "408", "429", "5xx", "other", "error"}

\* DatadogLogClient::send and SplunkHecClient::send: only Datadog's client
\* takes 408 for a passing trouble.
DatadogOutcome(answer) ==
  CASE answer = "2xx" -> "success"
    [] answer \in {"429", "408", "5xx"} -> "retryable"
    [] answer = "error" -> "network"
    [] OTHER -> "non_retryable"
SplunkOutcome(answer) ==
  CASE answer = "2xx" -> "success"
    [] answer \in {"429", "5xx"} -> "retryable"
    [] answer = "error" -> "network"
    [] OTHER -> "non_retryable"

Outcome(answer) ==
  IF sink = "datadog" THEN DatadogOutcome(answer) ELSE SplunkOutcome(answer)

-----------------------------------------------------------------------------
(* The process.                                                            *)

\* Nothing of a process survives it: next_offset is not stored anywhere.
FreshProcess ==
  /\ nextOffset' = 0 /\ batch' = <<>> /\ pos' = 0
  /\ fqueue' = <<>> /\ fcur' = <<>> /\ wpc' = "wait" /\ attempt' = 0
  /\ backoff' = InitialBackoff /\ fstats' = ZeroForwarderStats /\ seen' = {}
  /\ foffer' = "send"

ForwarderInit ==
  /\ \E d \in Deployments : sink = d[1] /\ fenv = d[2]
  /\ fpc = "down" /\ nextOffset = 0 /\ batch = <<>> /\ pos = 0
  /\ fqueue = <<>> /\ fcur = <<>> /\ wpc = "wait" /\ attempt = 0
  /\ backoff = InitialBackoff /\ fstats = ZeroForwarderStats
  /\ foffer = "send" /\ seen = {} /\ intake = <<>>

\* main: an unconfigured forwarder ends at once, and with it the container.
Start ==
  /\ fpc = "down"
  /\ fpc' = IF Configured THEN "connect" ELSE "inactive"
  /\ UNCHANGED <<sink, fenv, foffer, nextOffset, batch, pos, fqueue, fcur, wpc,
                 attempt, backoff, fstats, intake, seen,
                 log, logStart, gaps, faults>>

StartDatadog == sink = "datadog" /\ Start
StartSplunk  == sink = "splunk"  /\ Start

Connect ==
  /\ fpc = "connect" /\ fpc' = "fetch"
  /\ UNCHANGED <<sink, fenv, foffer, nextOffset, batch, pos, fqueue, fcur, wpc,
                 attempt, backoff, fstats, intake, seen,
                 log, logStart, gaps, faults>>

\* run_kafka_consumer returns an error, main returns it, the queue is lost.
Exit ==
  /\ fpc' = "down" /\ FreshProcess
  /\ UNCHANGED <<sink, fenv, intake, log, logStart, gaps>>

\* The broker does not answer, or the process is killed.
ConsumerFails == fpc \in {"connect", "fetch", "handle"} /\ Fault /\ Exit

\* OffsetOutOfRange: what the offset names has been deleted.
FetchOutOfRange ==
  fpc = "fetch" /\ nextOffset < logStart /\ Exit /\ UNCHANGED faults

\* The first records at next_offset or after it, in one fetch.
Fetch ==
  /\ fpc = "fetch" /\ nextOffset >= logStart /\ Readable(nextOffset) # {}
  /\ \E k \in 1 .. MaxBatch :
       batch' \in {b \in [1 .. k -> Readable(nextOffset)] :
                    /\ \A i, j \in 1 .. k : i < j => b[i] < b[j]
                    /\ \A o \in Readable(nextOffset) :
                         o < b[k] => \E i \in 1 .. k : b[i] = o}
  /\ pos' = 0 /\ fpc' = "handle"
  /\ UNCHANGED <<sink, fenv, foffer, nextOffset, fqueue, fcur, wpc, attempt, backoff,
                 fstats, intake, seen, log, logStart, gaps, faults>>

\* Wrong variant: malformed records are skipped in silence.
HandleRecord_MalformedUncounted ==
  /\ fpc = "handle" /\ foffer = "send" /\ pos < Len(batch)
  /\ LET o == batch[pos + 1]
     IN  /\ IF ~ Accepts(log[o + 1])
              THEN UNCHANGED <<fstats, fqueue, foffer>>
              ELSE IF Len(fqueue) < QueueCapacity
                THEN /\ fqueue' = Append(fqueue, o) /\ foffer' = "count"
                     /\ UNCHANGED fstats
                ELSE fstats' = Count("dropped") /\ UNCHANGED <<fqueue, foffer>>
         /\ seen' = seen \cup {o}
  /\ pos' = pos + 1
  /\ UNCHANGED <<sink, fenv, fpc, nextOffset, batch, fcur, wpc, attempt,
                 backoff, intake, log, logStart, gaps, faults>>

\* One turn of the loop over the records: malformed, or try_enqueue.  An envelope
\* that was sent is counted afterwards, and the worker may take it before.
HandleRecord ==
  /\ fpc = "handle" /\ foffer = "send" /\ pos < Len(batch)
  /\ LET o == batch[pos + 1]
     IN  /\ IF ~ Accepts(log[o + 1])
              THEN fstats' = Count("malformed") /\ UNCHANGED <<fqueue, foffer>>
              ELSE IF Len(fqueue) < QueueCapacity
                THEN /\ fqueue' = Append(fqueue, o) /\ foffer' = "count"
                     /\ UNCHANGED fstats
                ELSE fstats' = Count("dropped") /\ UNCHANGED <<fqueue, foffer>>
         /\ seen' = seen \cup {o}
  /\ pos' = pos + 1
  /\ UNCHANGED <<sink, fenv, fpc, nextOffset, batch, fcur, wpc, attempt,
                 backoff, intake, log, logStart, gaps, faults>>

\* enqueued.fetch_add of an envelope that was sent.
CountRecord ==
  /\ foffer = "count" /\ foffer' = "send" /\ fstats' = Count("enqueued")
  /\ UNCHANGED <<sink, fenv, fpc, nextOffset, batch, pos, fqueue, fcur, wpc,
                 attempt, backoff, intake, seen, log, logStart, gaps, faults>>

\* Wrong variant: the offset moves one too far.
Advance_PastTheLast ==
  /\ fpc = "handle" /\ foffer = "send" /\ pos = Len(batch)
  /\ nextOffset' = nextOffset + Len(batch) + 1
  /\ batch' = <<>> /\ pos' = 0 /\ fpc' = "fetch"
  /\ UNCHANGED <<sink, fenv, foffer, fqueue, fcur, wpc, attempt, backoff, fstats,
                 intake, seen, log, logStart, gaps, faults>>

\* next_offset += records.len(): a number of records, not an offset.
Advance ==
  /\ fpc = "handle" /\ foffer = "send" /\ pos = Len(batch)
  /\ nextOffset' = nextOffset + Len(batch)
  /\ batch' = <<>> /\ pos' = 0 /\ fpc' = "fetch"
  /\ UNCHANGED <<sink, fenv, foffer, fqueue, fcur, wpc, attempt, backoff, fstats,
                 intake, seen, log, logStart, gaps, faults>>

DatadogConsumer == sink = "datadog" /\ (Fetch \/ HandleRecord \/ CountRecord \/ Advance)
SplunkConsumer  == sink = "splunk"  /\ (Fetch \/ HandleRecord \/ CountRecord \/ Advance)

\* worker_loop takes the next envelope.
WorkerRecv ==
  /\ wpc = "wait" /\ fqueue # <<>>
  /\ fcur' = <<Head(fqueue)>> /\ fqueue' = Tail(fqueue)
  /\ wpc' = "post" /\ attempt' = 0
  /\ UNCHANGED <<sink, fenv, foffer, fpc, nextOffset, batch, pos, backoff, fstats,
                 intake, seen, log, logStart, gaps, faults>>

\* The worker is done with its alert.
Finish(field) ==
  /\ fstats' = Count(field) /\ fcur' = <<>> /\ wpc' = "wait" /\ attempt' = 0

\* A success resets the backoff; nothing else does.
Success ==
  /\ intake' = Append(intake, fcur[1]) /\ Finish("forwarded")
  /\ backoff' = InitialBackoff /\ UNCHANGED faults

\* Wrong variant: attempts are not counted.
TryAgain_Endless ==
  attempt' = attempt /\ wpc' = "sleep" /\ UNCHANGED <<fstats, fcur, backoff>>

\* The attempts are exhausted, or the worker sleeps before the next one.
TryAgain ==
  IF attempt + 1 >= MAX_ATTEMPTS
    THEN Finish("failed") /\ UNCHANGED backoff
    ELSE /\ attempt' = attempt + 1 /\ wpc' = "sleep"
         /\ UNCHANGED <<fstats, fcur, backoff>>

\* One attempt of send_with_retry.  A request without an answer may have been
\* received; that takes a fault.
Post ==
  /\ wpc = "post"
  /\ \E answer \in Answer :
       \/ Outcome(answer) = "success" /\ Success
       \/ /\ Outcome(answer) = "non_retryable" /\ Finish("failed")
          /\ UNCHANGED <<backoff, intake, faults>>
       \/ Outcome(answer) = "retryable" /\ TryAgain /\ UNCHANGED <<intake, faults>>
       \/ /\ Outcome(answer) = "network" /\ TryAgain
          /\ \/ intake' = intake /\ UNCHANGED faults
             \/ intake' = Append(intake, fcur[1]) /\ Fault
  /\ UNCHANGED <<sink, fenv, foffer, fpc, nextOffset, batch, pos, fqueue, seen,
                 log, logStart, gaps>>

\* The sleep is over, and the next one is twice as long, up to the cap.
WorkerWake ==
  /\ wpc = "sleep" /\ wpc' = "post"
  /\ backoff' = IF 2 * backoff < BackoffCap THEN 2 * backoff ELSE BackoffCap
  /\ UNCHANGED <<sink, fenv, foffer, fpc, nextOffset, batch, pos, fqueue, fcur,
                 attempt, fstats, intake, seen, log, logStart, gaps, faults>>

DatadogWorker == sink = "datadog" /\ (WorkerRecv \/ Post \/ WorkerWake)
SplunkWorker  == sink = "splunk"  /\ (WorkerRecv \/ Post \/ WorkerWake)

ForwarderNext ==
  \/ StartDatadog \/ StartSplunk
  \/ Connect \/ ConsumerFails \/ FetchOutOfRange
  \/ DatadogConsumer \/ SplunkConsumer
  \/ DatadogWorker \/ SplunkWorker

ForwarderTypeOK ==
  /\ <<sink, fenv>> \in Deployments
  /\ fpc \in {"down", "connect", "fetch", "handle", "inactive"}
  /\ foffer \in {"send", "count"} /\ (foffer = "count" => fpc = "handle")
  /\ nextOffset \in Nat /\ pos \in 0 .. Len(batch)
  /\ batch \in Seq(Nat) /\ fqueue \in Seq(Nat) /\ Len(fqueue) <= QueueCapacity
  /\ fcur \in Seq(Nat) /\ Len(fcur) <= 1
  /\ wpc \in {"wait", "post", "sleep"} /\ (fcur # <<>> <=> wpc # "wait")
  /\ attempt \in 0 .. MAX_ATTEMPTS - 1
  /\ backoff \in InitialBackoff .. BackoffCap
  /\ fstats \in [{"enqueued", "dropped", "malformed", "forwarded", "failed"} -> Nat]
  /\ intake \in Seq(Nat) /\ seen \subseteq Nat
=============================================================================
