-------------------------- MODULE NetworkIngestion --------------------------
(***************************************************************************)
(* The way of a connection: the kprobe records it in NETWORK_EVENTS, the   *)
(* network monitor joins it with the process it knows for the pid and      *)
(* offers it to the ingestion channel (ingestion/channel.rs), which a      *)
(* publisher empties into Kafka (ingestion/mod.rs).  The occupancy of the  *)
(* channel is a counter apart from the channel, changed after the sending  *)
(* and after the receiving.                                                *)
(***************************************************************************)
EXTENDS ExecTelemetry

CONSTANTS
  ChannelCapacity,  \* NEUROMESH_KAFKA_CHANNEL_CAPACITY
  ThresholdPct,     \* PRESSURE_DROP_THRESHOLD_PCT
  UsizeModulus      \* usize counts modulo this; 2^64

ASSUME IngestionAssumption ==
  /\ ChannelCapacity \in Nat \ {0} /\ ThresholdPct \in 0 .. 99
  /\ UsizeModulus \in Nat /\ UsizeModulus > ChannelCapacity + 1

VARIABLES
  connects,  \* connections each process still makes
  netRing,   \* NETWORK_EVENTS and its poller
  offer,     \* try_enqueue in progress: what it holds and where it is
  netCh,     \* the channel
  queued,    \* stats.queued
  pub        \* the publisher: noop, new, recv, count, send, sleep, gone

netvars == <<connects, netRing, offer, netCh, queued, pub>>

NoOffer == [at |-> "idle", event |-> 0]

\* spawn_from_env: without brokers the channel is drained.
NetInit ==
  /\ connects = [t \in Task |-> IF t \in DOMAIN plan.connects THEN plan.connects[t] ELSE 0]
  /\ netRing = EmptyRing /\ offer = NoOffer /\ netCh = <<>> /\ queued = 0
  /\ pub = IF plan.brokers THEN "new" ELSE "noop"

\* pressure_drop_threshold.
DropThreshold == (ChannelCapacity * ThresholdPct) \div 100

\* nm_tcp_connect: a full ring counts the event as dropped.
TcpConnect(t) ==
  /\ connects[t] > 0 /\ loop \in Running
  /\ connects' = [connects EXCEPT ![t] = @ - 1]
  /\ netRing' = IF Len(netRing.q) < RingCapacity THEN Commit(netRing, [pid |-> t]) ELSE netRing
  /\ UNCHANGED <<offer, netCh, queued, pub>>

-----------------------------------------------------------------------------
(* The network monitor.  It is the only caller of try_enqueue.             *)

NetEnter ==
  /\ "network" \in monitor /\ CanEnter(netRing)
  /\ netRing' = Enter(netRing)
  /\ UNCHANGED <<connects, offer, netCh, queued, pub>>

\* correlate: the process of the connection is known, from a pid that is not 0.
Correlated(e) == e.pid # 0 /\ e.pid \in DOMAIN names

\* One record: it is offered to the channel, or ends here.
NetNext ==
  /\ netRing.drain /\ offer.at = "idle" /\ netRing.q # <<>>
  /\ netRing' = Consume(netRing)
  /\ offer' = IF Correlated(Head(netRing.q))
                THEN [at |-> "check", event |-> Head(netRing.q).pid] ELSE NoOffer
  /\ UNCHANGED <<connects, netCh, queued, pub>>

NetLeave ==
  /\ netRing.drain /\ offer.at = "idle" /\ netRing.q = <<>>
  /\ netRing' = Leave(netRing)
  /\ UNCHANGED <<connects, offer, netCh, queued, pub>>

\* should_apply_drop_policy.
CheckPressure ==
  /\ offer.at = "check"
  /\ offer' = IF queued >= DropThreshold THEN NoOffer ELSE [offer EXCEPT !.at = "send"]
  /\ UNCHANGED <<connects, netRing, netCh, queued, pub>>

\* tx.try_send: the channel is full or closed, or it takes the event.
TrySend ==
  /\ offer.at = "send"
  /\ IF pub # "gone" /\ Len(netCh) < ChannelCapacity
       THEN netCh' = Append(netCh, offer.event) /\ offer' = [offer EXCEPT !.at = "count"]
       ELSE netCh' = netCh /\ offer' = NoOffer
  /\ UNCHANGED <<connects, netRing, queued, pub>>

\* Wrong variant: the event is sent and never counted.
RecordEnqueued_OnlyEnqueued ==
  /\ offer.at = "count"
  /\ queued' = queued /\ offer' = NoOffer
  /\ UNCHANGED <<connects, netRing, netCh, pub>>

\* record_enqueued.
RecordEnqueued ==
  /\ offer.at = "count"
  /\ queued' = (queued + 1) % UsizeModulus /\ offer' = NoOffer
  /\ UNCHANGED <<connects, netRing, netCh, pub>>

-----------------------------------------------------------------------------
(* The publisher.                                                          *)

\* KafkaProducerManager::new: without a producer the task ends and the channel
\* is closed.
NewProducer ==
  /\ pub = "new"
  /\ \/ pub' = "recv" /\ netCh' = netCh
     \/ pub' = "gone" /\ netCh' = <<>>
  /\ UNCHANGED <<connects, netRing, offer, queued>>

PubRecv ==
  /\ pub \in {"recv", "noop"} /\ netCh # <<>>
  /\ netCh' = Tail(netCh) /\ pub' = "count"
  /\ UNCHANGED <<connects, netRing, offer, queued>>

\* decrement_queued; spawn_noop is done with that.
DecrementQueued ==
  /\ pub = "count"
  /\ queued' = (queued + UsizeModulus - 1) % UsizeModulus
  /\ pub' = IF plan.brokers THEN "send" ELSE "noop"
  /\ UNCHANGED <<connects, netRing, offer, netCh>>

\* encode and send; after a failure that the health check confirms the task sleeps.
Publish ==
  /\ pub = "send" /\ pub' \in {"recv", "sleep"}
  /\ UNCHANGED <<connects, netRing, offer, netCh, queued>>

PubWake ==
  /\ pub = "sleep" /\ pub' = "recv"
  /\ UNCHANGED <<connects, netRing, offer, netCh, queued>>

\* The token is cancelled.
NetExit ==
  /\ loop = "sleep" /\ "network" \in monitor /\ ~ netRing.drain
  /\ monitor' = monitor \ {"network"}
  /\ UNCHANGED <<counts, kernelvars, procRing, telemRing, procCh, detCh, names, pipevars, netvars>>

\* The process ends.
NetEnd ==
  /\ netRing' = [netRing EXCEPT !.drain = FALSE] /\ offer' = NoOffer
  /\ netCh' = <<>> /\ pub' = "gone" /\ queued' = 0
  /\ UNCHANGED connects

NetSteps ==
  \/ \E t \in Task : TcpConnect(t)
  \/ NetEnter \/ NetNext \/ NetLeave
  \/ CheckPressure \/ TrySend \/ RecordEnqueued
  \/ NewProducer \/ PubRecv \/ DecrementQueued \/ Publish \/ PubWake
=============================================================================
