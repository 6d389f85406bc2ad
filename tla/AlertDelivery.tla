--------------------------- MODULE AlertDelivery ---------------------------
(***************************************************************************)
(* The way of an alert: the telemetry stream of an agent, the Kafka topic, *)
(* and one SIEM forwarder that reads it.                                   *)
(***************************************************************************)
EXTENDS TelemetryStream, SiemForwarder

logvars == <<log, logStart, gaps, faults>>
vars == <<logvars, svars, fvars>>

Init == LogInit /\ StreamInit /\ ForwarderInit

Next ==
  \/ StreamNext /\ UNCHANGED fvars
  \/ ForwarderNext /\ UNCHANGED svars
  \/ /\ raised + Upsets < MaxInputs
     /\ ForeignAppend \/ Retain \/ Compact
     /\ UNCHANGED <<svars, fvars>>

Spec == Init /\ [][Next]_vars

\* tokio polls both tasks of a forwarder and the worker of the stream, and the
\* kubelet starts a forwarder that ended.  Requests need not succeed.
Fairness ==
  /\ WF_vars(StreamWorker /\ UNCHANGED fvars)
  /\ WF_vars((StartDatadog \/ StartSplunk) /\ UNCHANGED svars)
  /\ WF_vars(Connect /\ UNCHANGED svars)
  /\ WF_vars((DatadogConsumer \/ SplunkConsumer) /\ UNCHANGED svars)
  /\ WF_vars((DatadogWorker \/ SplunkWorker) /\ UNCHANGED svars)

FairSpec == Spec /\ Fairness

-----------------------------------------------------------------------------
AlertRecord ==
  [id : Nat \ {0}, schema : {SCHEMA_VERSION},
   type : {BEHAVIOR_ALERT, CRITICAL_ALERT}]

\* Queues, workers, counters and offsets have their types, and the queues stay
\* within the capacities of their channels.
TypeOK == LogTypeOK /\ StreamTypeOK /\ ForwarderTypeOK

\* An alert was sent to a queue and fetch_add has not counted it yet.
Uncounted(offer) == IF offer = "count" THEN 1 ELSE 0

\* Nothing disappears between the counters: every alert that entered the queue
\* of the stream was published, counted as failed, or is still queued or in the
\* worker's hand, and only the alert sent last may not be counted yet
\* (telemetry_stream.rs).  The same holds for a forwarder (forwarder.rs), whose
\* consumer counts every record it passes as enqueued, dropped or malformed
\* (kafka.rs).
Accounted ==
  /\ sstats.enqueued + Uncounted(soffer)
       = sstats.published + sstats.failed + Len(squeue) + Len(scur)
  /\ fstats.enqueued + Uncounted(foffer)
       = fstats.forwarded + fstats.failed + Len(fqueue) + Len(fcur)
  /\ nextOffset + pos
       = fstats.enqueued + Uncounted(foffer) + fstats.dropped + fstats.malformed

\* The records that repeat an alert which stands in the topic before them.
Repeats ==
  {j \in DOMAIN log : log[j].id # 0 /\ \E i \in 1 .. j - 1 : log[i].id = log[j].id}

\* Whatever fails in between, alerts stand in the topic in the order in which
\* they were raised: no alert comes after a later one.  An alert may stand there
\* more than once, but every repetition is paid for by a fault, and a topic
\* written without faults repeats nothing.
LoggedInOrder ==
  /\ \A i, j \in DOMAIN log :
       i < j /\ log[i].id # 0 /\ log[j].id # 0 => log[i].id <= log[j].id
  /\ Cardinality(Repeats) <= faults

\* A forwarder that counts records instead of reading offsets never passes a
\* record it did not handle: what lies below next_offset has been handled by
\* this process or is gone from the topic.
NothingSkipped ==
  \A o \in 0 .. Len(log) - 1 :
    o < nextOffset => o \in seen \/ o \in gaps \/ o < logStart

\* The alerts of q as they will stand in the topic.
Encoded(q) == [i \in 1 .. Len(q) |-> EncodeAlert(q[i])]

\* The stream promises the lossy channel to the topic: in order, with as many
\* requests for the alert at its head as faults make necessary (produce() repeats
\* them), and none for an alert that is behind it or settled.
StreamChannel ==
  INSTANCE LossyChannel WITH
    Item    <- AlertRecord,
    Foreign <- ForeignRecord,
    Tries   <- MaxFaults + 1,
    pending <- Encoded(scur \o squeue),
    tries   <- stries,
    out     <- log

StreamIsLossyChannel == StreamChannel!Spec

\* A forwarder promises the lossy channel to the SIEM, with at most four posts
\* of an alert: an alert is never posted after the one behind it.
ForwarderChannel ==
  INSTANCE LossyChannel WITH
    Item    <- Nat,
    Foreign <- {},
    Tries   <- MAX_ATTEMPTS,
    pending <- fcur \o fqueue,
    tries   <- attempt,
    out     <- intake

ForwarderIsLossyChannel == ForwarderChannel!Spec

\* Both hops of an alert lose and repeat, but they never reorder: copies of an
\* alert stand together, and an alert that was finished with does not come back.
HopsAreLossyChannels == StreamIsLossyChannel /\ ForwarderIsLossyChannel

\* A record of the topic is settled when a forwarder counted it as dropped,
\* malformed, forwarded or failed.
Settled(o) ==
  o \in seen /\ \A i \in DOMAIN (fcur \o fqueue) : (fcur \o fqueue)[i] # o

\* Unless retention deletes the beginning of the topic, every record is settled
\* again and again, after every death of the forwarder and behind every gap.
RecordsSettle ==
  Configured =>
    \A o \in 0 .. MaxInputs + MaxFaults - 1 :
      []<>(o < Len(log) => Settled(o) \/ o \in gaps \/ logStart > 0)
=============================================================================
