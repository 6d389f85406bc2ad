------------------------ MODULE AlertDelivery_proofs ------------------------
(***************************************************************************)
(* Proofs about the way of an alert, for queues of any capacity, any       *)
(* number of alerts, records, gaps, faults and attempts, and both          *)
(* forwarders.                                                             *)
(*                                                                         *)
(* The topic is in order because everything on its way is: Ordered says    *)
(* that ids grow from the topic over the worker's hand to the end of the   *)
(* queue, and only the alert in hand may stand in the topic already.  Then *)
(* its next request can repeat it, which Paid puts down in advance: the    *)
(* repetitions, and this one, are no more than the faults.  That a         *)
(* forwarder skips nothing although it adds numbers of records to an       *)
(* offset rests on Batch: a batch holds all that is readable up to its     *)
(* last record, and Len(batch) different offsets from nextOffset on reach  *)
(* at least to nextOffset + Len(batch) - 1.                                *)
(***************************************************************************)
EXTENDS AlertDelivery, SequenceTheorems, FiniteSetTheorems, TLAPS

\* The accounts of the stream and of a forwarder.
StreamAccounted ==
  sstats.enqueued + Uncounted(soffer)
    = sstats.published + sstats.failed + Len(squeue) + Len(scur)
ForwarderAccounted ==
  /\ fstats.enqueued + Uncounted(foffer)
       = fstats.forwarded + fstats.failed + Len(fqueue) + Len(fcur)
  /\ nextOffset + pos
       = fstats.enqueued + Uncounted(foffer) + fstats.dropped + fstats.malformed

\* Ids grow from the topic to the hand of the worker to the end of the queue;
\* requests of the running produce() may have put the hand into the topic.
Ordered ==
  /\ \A i \in 1 .. Len(squeue) : squeue[i].id <= raised
  /\ \A i, j \in 1 .. Len(squeue) : i < j => squeue[i].id < squeue[j].id
  /\ Len(scur) = 1 => /\ scur[1].id <= raised
                      /\ \A j \in 1 .. Len(squeue) : scur[1].id < squeue[j].id
                      /\ \A k \in 1 .. Len(log) : log[k].id <= scur[1].id
  /\ \A k \in 1 .. Len(log) :
       log[k].id <= raised /\ \A j \in 1 .. Len(squeue) : log[k].id < squeue[j].id

\* The topic is in the order of the ids.
TopicOrder ==
  \A i, j \in 1 .. Len(log) :
    i < j /\ log[i].id # 0 /\ log[j].id # 0 => log[i].id <= log[j].id

\* A request for the alert in hand would repeat it.
HandInTopic == Len(scur) = 1 /\ \E k \in 1 .. Len(log) : log[k].id = scur[1].id

\* Faults have paid for the repetitions, and for one of the hand.
Paid == Cardinality(Repeats) + (IF HandInTopic THEN 1 ELSE 0) <= faults

SInv == StreamTypeOK /\ StreamAccounted /\ Ordered /\ TopicOrder /\ Paid

-----------------------------------------------------------------------------
(***************************************************************************)
(* Sequences and counters.                                                 *)
(***************************************************************************)
\* The empty sequence is a sequence of anything.
LEMMA Empty == ASSUME NEW S PROVE <<>> \in Seq(S) /\ Len(<<>>) = 0
BY EmptySeq

\* A sequence that is not empty has a first element.
LEMMA NotEmpty ==
  ASSUME NEW S, NEW q \in Seq(S), q # <<>> PROVE Len(q) \in Nat /\ Len(q) >= 1 /\ q[1] \in S
BY EmptySeq, HeadTailProperties

\* Counting keeps the counters numbers, and counts.
LEMMA Counting ==
  ASSUME NEW F, NEW st \in [F -> Nat], NEW f \in F
  PROVE  LET new == [st EXCEPT ![f] = @ + 1]
         IN  /\ new \in [F -> Nat] /\ new[f] = st[f] + 1
             /\ \A g \in F : g # f => new[g] = st[g]
OBVIOUS

\* An alert that was sent and not counted is one.
LEMMA OneUncounted ==
  /\ \A offer : Uncounted(offer) \in Nat
  /\ Uncounted("send") = 0 /\ Uncounted("count") = 1
BY DEF Uncounted

\* The counters of a stream are functions of its four fields.
StreamField == {"enqueued", "dropped", "published", "failed"}

-----------------------------------------------------------------------------
(***************************************************************************)
(* The log.                                                                *)
(***************************************************************************)
LEMMA LogInitOK == LogInit => LogTypeOK
BY LogAssumption DEF LogInit, LogTypeOK

\* A log that gains a record, or keeps its records, keeps its type.
LEMMA LogAppendOK ==
  ASSUME LogTypeOK, NEW r \in Record, log' = Append(log, r), logStart' = logStart,
         gaps' = gaps, faults' \in 0 .. MaxFaults
  PROVE  LogTypeOK'
BY DEF LogTypeOK

\* Faults stay within their bound.
LEMMA FaultOK == LogTypeOK /\ Fault => faults' \in 0 .. MaxFaults
BY LogAssumption DEF LogTypeOK, Fault

\* Faults only grow.
FaultsGrow == faults \in Nat /\ faults' \in Nat /\ faults <= faults'

\* A step keeps their number or adds one.
LEMMA FaultsGrowOK == LogTypeOK /\ (faults' = faults \/ Fault) => FaultsGrow
BY LogAssumption DEF LogTypeOK, Fault, FaultsGrow

\* The places of a log.
LEMMA Places == LogTypeOK => DOMAIN log = 1 .. Len(log) /\ Len(log) \in Nat
BY DEF LogTypeOK

\* There are finitely many repetitions.
LEMMA RepeatsFinite ==
  ASSUME LogTypeOK
  PROVE  /\ IsFiniteSet(Repeats) /\ Cardinality(Repeats) \in Nat
         /\ Len(log) + 1 \notin Repeats
<1>1. Repeats \subseteq 1 .. Len(log) /\ Len(log) \in Nat
  BY Places DEF Repeats
<1>2. IsFiniteSet(1 .. Len(log))
  BY <1>1, FS_Interval
<1>3. IsFiniteSet(Repeats)
  BY <1>1, <1>2, FS_Subset
<1>. QED  BY <1>1, <1>3, FS_CardinalityType

\* A record of an alert that the topic has is one more repetition; any other
\* record is none.
LEMMA RepeatsAppend ==
  ASSUME LogTypeOK, NEW r \in Record, log' = Append(log, r)
  PROVE  Repeats' = IF r.id # 0 /\ \E k \in 1 .. Len(log) : log[k].id = r.id
                      THEN Repeats \cup {Len(log) + 1} ELSE Repeats
<1>1. /\ DOMAIN log = 1 .. Len(log) /\ Len(log) \in Nat
      /\ DOMAIN log' = 1 .. Len(log) + 1 /\ log'[Len(log) + 1] = r
      /\ \A k \in 1 .. Len(log) : log'[k] = log[k]
  BY Places DEF LogTypeOK
<1>2. ASSUME NEW j \in 1 .. Len(log) PROVE j \in Repeats' <=> j \in Repeats
  <2>1. \A i \in 1 .. j - 1 : i \in 1 .. Len(log)
    BY <1>1
  <2>. QED  BY <1>1, <2>1 DEF Repeats
<1>3. Len(log) + 1 \in Repeats' <=>
        r.id # 0 /\ \E k \in 1 .. Len(log) : log[k].id = r.id
  <2>1. 1 .. (Len(log) + 1) - 1 = 1 .. Len(log)
    BY <1>1
  <2>. QED  BY <1>1, <2>1 DEF Repeats
<1>4. \A j \in Repeats' : j \in 1 .. Len(log) \/ j = Len(log) + 1
  BY <1>1 DEF Repeats
<1>5. \A j \in Repeats : j \in 1 .. Len(log)
  BY <1>1 DEF Repeats
<1>. QED  BY <1>2, <1>3, <1>4, <1>5

\* What others write are records.
LEMMA ForeignIsRecord == ForeignRecord \subseteq Record
BY DEF ForeignRecord, Record

\* What the stream writes are records.
LEMMA EncodedIsRecord ==
  ASSUME NEW a \in Alert  PROVE EncodeAlert(a) \in Record /\ EncodeAlert(a).id = a.id
BY DEF Alert, EncodeAlert, Record

-----------------------------------------------------------------------------
(***************************************************************************)
(* The telemetry stream.                                                   *)
(***************************************************************************)
LEMMA StreamInitOK == Init => SInv
<1>. SUFFICES ASSUME Init PROVE SInv
  OBVIOUS
<1>. USE StreamAssumption DEF Init, LogInit, StreamInit, ZeroStats
<1>1. StreamTypeOK
  <2>1. <<>> \in Seq(Alert) /\ Len(<<>>) = 0
    BY Empty
  <2>2. sstats \in [{"enqueued", "dropped", "published", "failed"} -> Nat]
    BY SMT
  <2>3. smode \in {"kafka", "noop"}
    BY Zenon DEF StreamMode
  <2>4. scur = <<>> /\ spc = "recv"
    OBVIOUS
  <2>5. (scur # <<>> <=> spc \in {"connect", "encode", "produce"})
    BY <2>4
  <2>9. raised = 0 /\ squeue = <<>>
    OBVIOUS
  <2>10. sclient \in BOOLEAN
    BY Zenon
  <2>11. raised \in Nat /\ stries \in 0 .. faults /\ (stries # 0 => spc = "produce")
    BY <2>9
  <2>12. soffer \in {"send", "count"}
    OBVIOUS
  <2>6. squeue = <<>> /\ sclient \in BOOLEAN
    BY <2>9, <2>10
  <2>7. Len(squeue) <= StreamCapacity /\ Len(scur) <= 1
    BY <2>1, <2>4, <2>6
  <2>8. squeue \in Seq(Alert) /\ scur \in Seq(Alert)
    BY <2>1, <2>4, <2>6
  <2>. QED  BY <2>2, <2>3, <2>4, <2>5, <2>6, <2>7, <2>8, <2>11, <2>12, Zenon
            DEF StreamTypeOK
<1>2. StreamAccounted
  BY OneUncounted DEF StreamAccounted
<1>3. Ordered /\ TopicOrder
  BY DEF Ordered, TopicOrder
<1>4. Paid
  <2>1. Repeats = {} /\ ~ HandInTopic
    BY DEF Repeats, HandInTopic
  <2>. QED  BY <2>1, FS_EmptySet DEF Paid
<1>. QED  BY <1>1, <1>2, <1>3, <1>4 DEF SInv

\* Ids are numbers, and a full hand holds one alert.
LEMMA Ids ==
  ASSUME StreamTypeOK, LogTypeOK
  PROVE  /\ raised \in Nat /\ Len(squeue) \in Nat /\ Len(log) \in Nat
         /\ \A i \in 1 .. Len(squeue) : squeue[i] \in Alert /\ squeue[i].id \in Nat
         /\ \A k \in 1 .. Len(log) : log[k].id \in Nat
         /\ scur = <<>> => Len(scur) = 0
         /\ scur # <<>> => Len(scur) = 1 /\ scur[1] \in Alert /\ scur[1].id \in Nat
<1>1. raised \in Nat /\ Len(squeue) \in Nat /\ Len(log) \in Nat
  BY StreamAssumption DEF StreamTypeOK, LogTypeOK
<1>2. \A i \in 1 .. Len(squeue) : squeue[i] \in Alert
  BY DEF StreamTypeOK
<1>3. \A k \in 1 .. Len(log) : log[k] \in Record
  BY DEF LogTypeOK
<1>4. scur # <<>> => Len(scur) = 1 /\ scur[1] \in Alert
  <2>1. scur \in Seq(Alert) /\ Len(scur) <= 1
    BY DEF StreamTypeOK
  <2>2. ASSUME scur # <<>> PROVE Len(scur) \in Nat /\ Len(scur) >= 1 /\ scur[1] \in Alert
    BY <2>1, <2>2, NotEmpty
  <2>. QED  BY <2>1, <2>2
<1>7. Len(<<>>) = 0
  BY Empty
<1>5. \A a \in Alert : a.id \in Nat
  BY DEF Alert
<1>6. \A r \in Record : r.id \in Nat
  BY DEF Record
<1>. QED  BY <1>1, <1>2, <1>3, <1>4, <1>5, <1>6, <1>7

\* A step that writes nothing, and takes in hand nothing that was written, repeats
\* nothing.
LEMMA NothingWritten ==
  ASSUME SInv, LogTypeOK, FaultsGrow, log' = log, HandInTopic' => HandInTopic
  PROVE  TopicOrder' /\ Paid'
<1>1. TopicOrder'
  BY DEF SInv, TopicOrder
<1>2. Repeats' = Repeats
  BY DEF Repeats
<1>3. Cardinality(Repeats') = Cardinality(Repeats) /\ Cardinality(Repeats) \in Nat
  BY <1>2, RepeatsFinite
<1>4. Paid'
  BY <1>3 DEF SInv, Paid, FaultsGrow
<1>. QED  BY <1>1, <1>4

\* A request that arrives adds the alert in hand to the topic: a repetition was
\* paid for, and when the hand keeps the alert this request is the next fault.
LEMMA HandWritten ==
  ASSUME SInv, LogTypeOK, spc = "produce", FaultsGrow,
         log' = Append(log, EncodeAlert(scur[1])),
         scur' = <<>> \/ (scur' = scur /\ faults' = faults + 1)
  PROVE  /\ TopicOrder' /\ Paid'
         /\ Len(log') = Len(log) + 1 /\ log'[Len(log) + 1].id = scur[1].id
         /\ \A k \in 1 .. Len(log) : log'[k] = log[k]
<1>1. Len(scur) = 1 /\ scur # <<>> /\ scur[1] \in Alert
  BY Ids DEF SInv, StreamTypeOK
<1>. DEFINE r == EncodeAlert(scur[1])
<1>4. r \in Record /\ r.id = scur[1].id /\ r.id # 0
  BY <1>1, EncodedIsRecord DEF Alert
<1>. HIDE DEF r
<1>5. /\ Len(log') = Len(log) + 1 /\ log'[Len(log) + 1] = r
      /\ \A k \in 1 .. Len(log) : log'[k] = log[k]
      /\ Len(log) \in Nat
  BY <1>4 DEF LogTypeOK, r
<1>7. TopicOrder'
  <2>. SUFFICES ASSUME NEW i \in 1 .. Len(log) + 1, NEW j \in 1 .. Len(log) + 1,
                       i < j, log'[i].id # 0, log'[j].id # 0
                PROVE  log'[i].id <= log'[j].id
    BY <1>5 DEF TopicOrder
  <2>1. i \in 1 .. Len(log) /\ log'[i] = log[i]
    BY <1>5
  <2>2. CASE j = Len(log) + 1
    BY <1>1, <1>4, <1>5, <2>1, <2>2 DEF SInv, Ordered
  <2>3. CASE j \in 1 .. Len(log)
    BY <1>5, <2>1, <2>3 DEF SInv, TopicOrder
  <2>. QED  BY <1>5, <2>2, <2>3
<1>8. Paid'
  <2>1. Repeats' = IF HandInTopic THEN Repeats \cup {Len(log) + 1} ELSE Repeats
    BY <1>1, <1>4, RepeatsAppend DEF r, HandInTopic
  <2>2. /\ IsFiniteSet(Repeats) /\ Cardinality(Repeats) \in Nat
        /\ Cardinality(Repeats \cup {Len(log) + 1}) = Cardinality(Repeats) + 1
    BY RepeatsFinite, FS_AddElement
  <2>3. scur' = <<>> => ~ HandInTopic'
    BY Empty DEF HandInTopic
  <2>4. Cardinality(Repeats') = Cardinality(Repeats) + (IF HandInTopic THEN 1 ELSE 0)
    BY <2>1, <2>2
  <2>5. CASE scur' = <<>>
    BY <2>2, <2>3, <2>4, <2>5 DEF SInv, Paid, FaultsGrow
  <2>6. CASE scur' = scur /\ faults' = faults + 1
    BY <2>2, <2>4, <2>6 DEF SInv, Paid, FaultsGrow
  <2>. QED  BY <2>5, <2>6
<1>. QED  BY <1>4, <1>5, <1>7, <1>8

\* An alert enters the queue or is counted as dropped.
LEMMA RaiseOK ==
  ASSUME SInv, LogTypeOK, Raise PROVE SInv'
<1>. PICK s \in Severities : TryEnqueue([id |-> raised + 1, severity |-> s])
  BY DEF Raise
<1>. DEFINE a == [id |-> raised + 1, severity |-> s]
<1>1. /\ soffer = "send" /\ raised' = raised + 1
      /\ UNCHANGED <<smode, scur, spc, sclient, stries, log, faults>>
  BY DEF Raise
<1>5. TopicOrder' /\ Paid'
  BY <1>1, NothingWritten, FaultsGrowOK DEF HandInTopic
<1>2. a \in Alert /\ a.id = raised + 1
  BY StreamAssumption, SMT DEF SInv, StreamTypeOK, Alert
<1>3. CASE Len(squeue) < StreamCapacity
  <2>1. squeue' = Append(squeue, a) /\ soffer' = "count" /\ sstats' = sstats
    BY <1>3 DEF TryEnqueue
  <2>. HIDE DEF a
  <2>2. StreamTypeOK'
    BY <1>1, <1>2, <1>3, <2>1, StreamAssumption DEF SInv, StreamTypeOK
  <2>3. StreamAccounted'
    BY <1>1, <1>2, <2>1, OneUncounted DEF SInv, StreamTypeOK, StreamAccounted
  <2>4. Ordered'
    <3>1. /\ Len(squeue') = Len(squeue) + 1 /\ squeue'[Len(squeue) + 1] = a
          /\ \A i \in 1 .. Len(squeue) : squeue'[i] = squeue[i]
      BY <1>2, <2>1 DEF SInv, StreamTypeOK
    <3>2. \A i \in 1 .. Len(squeue') : i \in 1 .. Len(squeue) \/ i = Len(squeue) + 1
      BY <3>1, Ids DEF SInv
    <3>3. raised \in Nat /\ Len(squeue) \in Nat
      BY Ids DEF SInv
    <3>4. \A i \in 1 .. Len(squeue) : squeue[i].id \in Nat /\ squeue[i].id <= raised
      BY Ids DEF SInv, Ordered
    <3>5. \A i \in 1 .. Len(squeue') : squeue'[i].id <= raised'
      BY <1>1, <1>2, <3>1, <3>2, <3>3, <3>4
    <3>6. \A i, j \in 1 .. Len(squeue') : i < j => squeue'[i].id < squeue'[j].id
      <4>1. ASSUME NEW i \in 1 .. Len(squeue'), NEW j \in 1 .. Len(squeue'), i < j
            PROVE  squeue'[i].id < squeue'[j].id
        <5>1. i \in 1 .. Len(squeue)
          BY <3>1, <3>3, <4>1
        <5>2. CASE j \in 1 .. Len(squeue)
          BY <3>1, <4>1, <5>1, <5>2 DEF SInv, Ordered
        <5>3. CASE j = Len(squeue) + 1
          BY <1>2, <3>1, <3>3, <3>4, <5>1, <5>3
        <5>. QED  BY <3>2, <5>2, <5>3
      <4>. QED  BY <4>1
    <3>7. \A k \in 1 .. Len(log) : log[k].id \in Nat /\ log[k].id <= raised
      BY Ids DEF SInv, Ordered
    <3>8. \A k \in 1 .. Len(log') :
            log'[k].id <= raised' /\ \A j \in 1 .. Len(squeue') : log'[k].id < squeue'[j].id
      BY <1>1, <1>2, <3>1, <3>2, <3>3, <3>7 DEF SInv, Ordered
    <3>9. Len(scur) = 1 => scur[1].id \in Nat /\ scur[1].id <= raised
      BY Ids DEF SInv, Ordered
    <3>10. Len(scur') = 1 => /\ scur'[1].id <= raised'
                             /\ \A j \in 1 .. Len(squeue') : scur'[1].id < squeue'[j].id
                             /\ \A k \in 1 .. Len(log') : log'[k].id <= scur'[1].id
      BY <1>1, <1>2, <3>1, <3>2, <3>3, <3>9 DEF SInv, Ordered
    <3>. QED  BY <3>5, <3>6, <3>8, <3>10 DEF Ordered
  <2>. QED  BY <1>5, <2>2, <2>3, <2>4 DEF SInv
<1>4. CASE ~ (Len(squeue) < StreamCapacity)
  <2>1. /\ squeue' = squeue /\ soffer' = soffer
        /\ sstats' = [sstats EXCEPT !["dropped"] = @ + 1]
    BY <1>4 DEF TryEnqueue, Add
  <2>2. StreamTypeOK'
    BY <1>1, <2>1, StreamAssumption DEF SInv, StreamTypeOK
  <2>3. StreamAccounted'
    BY <1>1, <2>1, OneUncounted DEF SInv, StreamTypeOK, StreamAccounted
  <2>4. Ordered'
    BY <1>1, <2>1, Ids DEF SInv, Ordered
  <2>. QED  BY <1>5, <2>2, <2>3, <2>4 DEF SInv
<1>. QED  BY <1>3, <1>4

\* The event loop counts what it has sent.
LEMMA CountEnqueuedOK ==
  ASSUME SInv, LogTypeOK, CountEnqueued PROVE SInv'
<1>1. /\ soffer = "count" /\ soffer' = "send"
      /\ sstats' = [sstats EXCEPT !["enqueued"] = @ + 1]
      /\ UNCHANGED <<smode, squeue, scur, spc, sclient, stries, raised, log, faults>>
  BY DEF CountEnqueued, Add
<1>2. StreamTypeOK'
  BY <1>1 DEF SInv, StreamTypeOK
<1>3. StreamAccounted'
  BY <1>1, OneUncounted DEF SInv, StreamTypeOK, StreamAccounted
<1>4. Ordered'
  BY <1>1 DEF SInv, Ordered
<1>5. TopicOrder' /\ Paid'
  BY <1>1, NothingWritten, FaultsGrowOK DEF HandInTopic
<1>. QED  BY <1>2, <1>3, <1>4, <1>5 DEF SInv

\* A queue that loses its head.
TailFacts(q) ==
  /\ Len(q) >= 1 /\ Head(q) = q[1] /\ Tail(q) \in Seq(Alert) /\ Len(Tail(q)) = Len(q) - 1
  /\ \A i \in 1 .. Len(q) - 1 : Tail(q)[i] = q[i + 1]

\* It keeps the rest in order.
LEMMA TailIs ==
  ASSUME NEW q \in Seq(Alert), q # <<>>  PROVE TailFacts(q)
BY HeadTailProperties DEF TailFacts

\* Without brokers an alert is taken and counted.
LEMMA NoopDrainOK ==
  ASSUME SInv, LogTypeOK, NoopDrain PROVE SInv'
<1>1. /\ squeue # <<>> /\ squeue' = Tail(squeue)
      /\ sstats' = [sstats EXCEPT !["published"] = @ + 1]
      /\ UNCHANGED <<smode, scur, spc, sclient, stries, soffer, raised, log, faults>>
  BY DEF NoopDrain, Add
<1>a. TailFacts(squeue)
  BY <1>1, TailIs DEF SInv, StreamTypeOK
<1>2. StreamTypeOK'
  <2>1. sstats' \in [{"enqueued", "dropped", "published", "failed"} -> Nat]
    BY <1>1 DEF SInv, StreamTypeOK
  <2>2. squeue' \in Seq(Alert) /\ Len(squeue') <= StreamCapacity
    BY <1>1, <1>a, StreamAssumption DEF SInv, StreamTypeOK, TailFacts
  <2>. QED  BY <1>1, <2>1, <2>2 DEF SInv, StreamTypeOK
<1>3. StreamAccounted'
  BY <1>1, <1>a, OneUncounted DEF SInv, StreamTypeOK, StreamAccounted, TailFacts
<1>4. Ordered'
  BY <1>1, <1>a, Ids DEF SInv, Ordered, TailFacts
<1>5. TopicOrder' /\ Paid'
  BY <1>1, NothingWritten, FaultsGrowOK DEF HandInTopic
<1>. QED  BY <1>2, <1>3, <1>4, <1>5 DEF SInv

\* The worker takes the head of the queue.
LEMMA RecvOK ==
  ASSUME SInv, LogTypeOK, Recv PROVE SInv'
<1>1. /\ spc = "recv" /\ squeue # <<>> /\ squeue' = Tail(squeue)
      /\ scur' = <<Head(squeue)>>
      /\ spc' = IF sclient THEN "encode" ELSE "connect"
      /\ UNCHANGED <<smode, sclient, stries, soffer, sstats, raised, log, faults>>
  BY DEF Recv
<1>2. scur = <<>>
  BY <1>1 DEF SInv, StreamTypeOK
<1>3. TailFacts(squeue)
  BY <1>1, TailIs DEF SInv, StreamTypeOK
<1>a. scur' \in Seq(Alert) /\ Len(scur') = 1 /\ scur'[1] = squeue[1] /\ scur' # <<>>
  BY <1>1, <1>3, Ids DEF TailFacts, SInv
<1>4. StreamTypeOK'
  <2>1. squeue' \in Seq(Alert) /\ Len(squeue') <= StreamCapacity
    BY <1>1, <1>3, StreamAssumption DEF SInv, StreamTypeOK, TailFacts
  <2>2. spc' \in {"connect", "encode"}
    BY <1>1
  <2>. QED  BY <1>1, <1>a, <2>1, <2>2 DEF SInv, StreamTypeOK
<1>5. StreamAccounted'
  BY <1>1, <1>2, <1>3, <1>a, OneUncounted DEF SInv, StreamTypeOK, StreamAccounted, TailFacts
<1>6. Ordered'
  BY <1>1, <1>3, <1>a, Ids DEF SInv, Ordered, TailFacts
<1>7. TopicOrder' /\ Paid'
  <2>1. ASSUME NEW k \in 1 .. Len(log) PROVE log[k].id < squeue[1].id /\ log[k].id \in Nat
    <3>1. 1 \in 1 .. Len(squeue)
      BY <1>3, Ids DEF TailFacts, SInv
    <3>. QED  BY <3>1, Ids DEF SInv, Ordered
  <2>2. squeue[1].id \in Nat
    BY <1>3, Ids DEF TailFacts, SInv
  <2>3. ~ HandInTopic'
    BY <1>1, <1>a, <2>1, <2>2 DEF HandInTopic
  <2>. QED  BY <1>1, <2>3, NothingWritten, FaultsGrowOK
<1>. QED  BY <1>4, <1>5, <1>6, <1>7 DEF SInv

\* The alert in hand is given up.
LEMMA GiveUpOK ==
  ASSUME SInv, LogTypeOK, spc \in {"connect", "encode", "produce"},
         sstats' = Add(sstats, "failed"), scur' = <<>>,
         spc' \in {"recv", "sleep"}, sclient' \in BOOLEAN, stries' = 0, FaultsGrow,
         UNCHANGED <<smode, squeue, soffer, raised, log>>
  PROVE  SInv'
<1>1. Len(scur) = 1
  BY Ids DEF SInv, StreamTypeOK
<1>2. StreamTypeOK'
  BY DEF SInv, StreamTypeOK, Add, FaultsGrow
<1>3. StreamAccounted'
  BY <1>1, OneUncounted DEF SInv, StreamTypeOK, StreamAccounted, Add
<1>6. Len(scur') = 0
  BY Empty
<1>4. Ordered'
  BY <1>6 DEF SInv, Ordered
<1>5. TopicOrder' /\ Paid'
  BY <1>6, NothingWritten DEF HandInTopic
<1>. QED  BY <1>2, <1>3, <1>4, <1>5 DEF SInv

\* The alert in hand is in the topic.
LEMMA ProducedOK ==
  ASSUME SInv, LogTypeOK, spc = "produce",
         NEW field \in {"published", "failed"},
         sstats' = Add(sstats, field), scur' = <<>>, spc' = "recv", sclient' \in BOOLEAN,
         log' = Append(log, EncodeAlert(scur[1])), stries' = 0, FaultsGrow,
         UNCHANGED <<smode, squeue, soffer, raised>>
  PROVE  SInv'
<1>1. Len(scur) = 1 /\ scur # <<>> /\ scur[1] \in Alert
  BY Ids DEF SInv, StreamTypeOK
<1>2. StreamTypeOK'
  BY DEF SInv, StreamTypeOK, Add, FaultsGrow
<1>3. StreamAccounted'
  <2>1. Len(scur') = 0
    BY Empty
  <2>2. sstats \in [StreamField -> Nat] /\ field \in StreamField /\ squeue \in Seq(Alert)
    BY DEF SInv, StreamTypeOK, StreamField
  <2>3. CASE field = "published"
    BY <1>1, <2>1, <2>2, <2>3, OneUncounted DEF SInv, StreamAccounted, StreamField, Add
  <2>4. CASE field = "failed"
    BY <1>1, <2>1, <2>2, <2>4, OneUncounted DEF SInv, StreamAccounted, StreamField, Add
  <2>. QED  BY <2>3, <2>4
<1>4. /\ TopicOrder' /\ Paid'
      /\ Len(log') = Len(log) + 1 /\ log'[Len(log) + 1].id = scur[1].id
      /\ \A k \in 1 .. Len(log) : log'[k] = log[k]
  BY HandWritten
<1>5. Ordered'
  BY <1>1, <1>4, Ids DEF SInv, Ordered
<1>. QED  BY <1>2, <1>3, <1>4, <1>5 DEF SInv

\* A request fails and is sent again; the broker may have it.
LEMMA ProduceRetryOK ==
  ASSUME SInv, LogTypeOK, ProduceRetry PROVE SInv'
<1>1. /\ spc = "produce" /\ faults' = faults + 1 /\ FaultsGrow /\ stries' = stries + 1
      /\ UNCHANGED <<smode, squeue, scur, spc, sclient, soffer, sstats, raised>>
  BY FaultsGrowOK DEF ProduceRetry, Fault
<1>2. Len(scur) = 1 /\ scur[1] \in Alert
  BY <1>1, Ids DEF SInv, StreamTypeOK
<1>3. StreamTypeOK' /\ StreamAccounted'
  BY <1>1 DEF SInv, StreamTypeOK, StreamAccounted, FaultsGrow
<1>4. CASE log' = log
  <2>1. TopicOrder' /\ Paid'
    BY <1>1, <1>4, NothingWritten DEF HandInTopic
  <2>. QED  BY <1>1, <1>3, <1>4, <2>1 DEF SInv, Ordered
<1>5. CASE log' = Append(log, EncodeAlert(scur[1]))
  <2>1. /\ TopicOrder' /\ Paid'
        /\ Len(log') = Len(log) + 1 /\ log'[Len(log) + 1].id = scur[1].id
        /\ \A k \in 1 .. Len(log) : log'[k] = log[k]
    BY <1>1, <1>5, HandWritten
  <2>2. \A k \in 1 .. Len(log') : k \in 1 .. Len(log) \/ k = Len(log) + 1
    BY <2>1, Ids DEF SInv
  <2>3. /\ scur[1].id \in Nat /\ raised \in Nat /\ scur[1].id <= raised
        /\ \A j \in 1 .. Len(squeue) : scur[1].id < squeue[j].id
    BY <1>2, Ids DEF SInv, Ordered, Alert
  <2>4. \A k \in 1 .. Len(log') : log'[k].id <= scur[1].id /\ log'[k].id <= raised
    BY <1>2, <2>1, <2>2, <2>3 DEF SInv, Ordered
  <2>5. \A k \in 1 .. Len(log'), j \in 1 .. Len(squeue) : log'[k].id < squeue[j].id
    BY <2>1, <2>2, <2>3 DEF SInv, Ordered
  <2>6. Ordered'
    BY <1>1, <2>4, <2>5 DEF SInv, Ordered
  <2>. QED  BY <1>3, <2>1, <2>6 DEF SInv
<1>. QED  BY <1>4, <1>5 DEF ProduceRetry

\* Every step of the stream keeps its invariant.
LEMMA StreamNextOK ==
  ASSUME SInv, LogTypeOK, StreamNext PROVE SInv'
<1>1. CASE Raise
  BY <1>1, RaiseOK
<1>2. CASE NoopDrain
  BY <1>2, NoopDrainOK
<1>3. CASE Recv
  BY <1>3, RecvOK
<1>4. CASE ConnectOk
  <2>1. StreamTypeOK'
    BY <1>4 DEF ConnectOk, SInv, StreamTypeOK
  <2>2. TopicOrder' /\ Paid'
    BY <1>4, NothingWritten, FaultsGrowOK DEF ConnectOk, HandInTopic
  <2>. QED  BY <1>4, <2>1, <2>2 DEF ConnectOk, SInv, StreamAccounted, Ordered
<1>5. CASE ConnectFail
  <2>1. stries' = 0 /\ FaultsGrow
    BY <1>5, FaultsGrowOK DEF ConnectFail, SInv, StreamTypeOK
  <2>. QED  BY <1>5, <2>1, GiveUpOK DEF ConnectFail, SInv, StreamTypeOK
<1>6. CASE Wake
  <2>1. StreamTypeOK'
    BY <1>6 DEF Wake, SInv, StreamTypeOK
  <2>2. TopicOrder' /\ Paid'
    BY <1>6, NothingWritten, FaultsGrowOK DEF Wake, HandInTopic
  <2>. QED  BY <1>6, <2>1, <2>2 DEF Wake, SInv, StreamAccounted, Ordered
<1>7. CASE Encode
  <2>1. StreamTypeOK'
    BY <1>7 DEF Encode, SInv, StreamTypeOK
  <2>2. TopicOrder' /\ Paid'
    BY <1>7, NothingWritten, FaultsGrowOK DEF Encode, HandInTopic
  <2>. QED  BY <1>7, <2>1, <2>2 DEF Encode, SInv, StreamAccounted, Ordered
<1>8. CASE EncodeFail
  <2>1. stries' = 0 /\ FaultsGrow
    BY <1>8, FaultsGrowOK DEF EncodeFail, SInv, StreamTypeOK
  <2>. QED  BY <1>8, <2>1, GiveUpOK DEF EncodeFail, SInv, StreamTypeOK
<1>9. CASE ProduceOk
  <2>1. FaultsGrow
    BY <1>9, FaultsGrowOK DEF ProduceOk
  <2>. QED  BY <1>9, <2>1, ProducedOK DEF ProduceOk, SInv, StreamTypeOK
<1>10. CASE ProduceErr
  <2>3. FaultsGrow
    BY <1>10, FaultsGrowOK DEF ProduceErr
  <2>1. CASE log' = log
    BY <1>10, <2>1, <2>3, GiveUpOK DEF ProduceErr
  <2>2. CASE log' = Append(log, EncodeAlert(scur[1]))
    BY <1>10, <2>2, <2>3, ProducedOK DEF ProduceErr
  <2>. QED  BY <1>10, <2>1, <2>2 DEF ProduceErr
<1>11. CASE AgentRestart
  <2>a. <<>> \in Seq(Alert) /\ Len(<<>>) = 0
    BY Empty
  <2>b. sstats' \in [{"enqueued", "dropped", "published", "failed"} -> Nat]
    BY <1>11 DEF AgentRestart, ZeroStats
  <2>c. /\ squeue' = <<>> /\ scur' = <<>> /\ spc' = "recv" /\ sclient' = FALSE
        /\ stries' = 0 /\ soffer' = "send" /\ FaultsGrow /\ UNCHANGED <<smode, raised, log>>
    BY <1>11, FaultsGrowOK DEF AgentRestart
  <2>e. (scur' # <<>> <=> spc' \in {"connect", "encode", "produce"})
    BY <2>c
  <2>f. Len(squeue') <= StreamCapacity /\ Len(scur') <= 1
    BY <2>a, <2>c, StreamAssumption
  <2>g. stries' \in 0 .. faults' /\ (stries' # 0 => spc' = "produce")
    BY <2>c DEF FaultsGrow
  <2>1. StreamTypeOK'
    BY <2>a, <2>b, <2>c, <2>e, <2>f, <2>g, Zenon DEF SInv, StreamTypeOK
  <2>d. StreamAccounted'
    BY <1>11, <2>a, <2>c, OneUncounted DEF AgentRestart, ZeroStats, StreamAccounted
  <2>2. Ordered'
    BY <2>a, <2>c DEF SInv, Ordered
  <2>3. TopicOrder' /\ Paid'
    BY <2>a, <2>c, NothingWritten DEF HandInTopic
  <2>. QED  BY <2>1, <2>2, <2>3, <2>d DEF SInv
<1>12. CASE CountEnqueued
  BY <1>12, CountEnqueuedOK
<1>13. CASE ProduceRetry
  BY <1>13, ProduceRetryOK
<1>. QED  BY <1>1, <1>2, <1>3, <1>4, <1>5, <1>6, <1>7, <1>8, <1>9, <1>10, <1>11,
             <1>12, <1>13
          DEF StreamNext, StreamWorker


-----------------------------------------------------------------------------
(***************************************************************************)
(* A forwarder.                                                            *)
(***************************************************************************)
ForwarderField == {"enqueued", "dropped", "malformed", "forwarded", "failed"}

\* What lies between next_offset and the last record of a batch is in the
\* batch or cannot be read, and what is handled has been seen.
Batch ==
  /\ nextOffset <= Len(log)
  /\ fpc # "handle" => batch = <<>> /\ pos = 0
  /\ fpc = "handle" =>
       /\ Len(batch) >= 1
       /\ \A i \in 1 .. Len(batch) : batch[i] >= nextOffset /\ batch[i] < Len(log)
       /\ \A i, j \in 1 .. Len(batch) : i < j => batch[i] < batch[j]
       /\ \A o \in nextOffset .. batch[Len(batch)] :
            o \in gaps \/ o < logStart \/ \E i \in 1 .. Len(batch) : batch[i] = o
       /\ \A i \in 1 .. pos : batch[i] \in seen

FInv == ForwarderTypeOK /\ ForwarderAccounted /\ Batch /\ NothingSkipped

\* Everything a process starts with.
FreshFacts ==
  /\ nextOffset = 0 /\ batch = <<>> /\ pos = 0 /\ fqueue = <<>> /\ fcur = <<>>
  /\ wpc = "wait" /\ attempt = 0 /\ backoff = InitialBackoff
  /\ fstats = ZeroForwarderStats /\ seen = {} /\ foffer = "send"
  /\ fpc \in {"down", "connect", "inactive"}

\* A fresh process satisfies the invariant.
LEMMA FreshOK ==
  LogTypeOK /\ FreshFacts /\ <<sink, fenv>> \in Deployments /\ intake \in Seq(Nat) => FInv
<1>. SUFFICES ASSUME LogTypeOK, FreshFacts, <<sink, fenv>> \in Deployments, intake \in Seq(Nat)
              PROVE  FInv
  OBVIOUS
<1>1. <<>> \in Seq(Nat) /\ Len(<<>>) = 0
  BY Empty
<1>2. Len(fqueue) = 0 /\ Len(fcur) = 0 /\ Len(batch) = 0
  BY <1>1 DEF FreshFacts
<1>3. fstats \in [ForwarderField -> Nat]
  BY DEF FreshFacts, ZeroForwarderStats, ForwarderField
<1>4. (fcur # <<>> <=> wpc # "wait")
  BY DEF FreshFacts
<1>5. /\ Len(fqueue) <= QueueCapacity /\ Len(fcur) <= 1 /\ pos \in 0 .. Len(batch)
      /\ attempt \in 0 .. MAX_ATTEMPTS - 1 /\ backoff \in InitialBackoff .. BackoffCap
  BY <1>2, ForwarderAssumption DEF FreshFacts, MAX_ATTEMPTS
<1>6. ForwarderTypeOK
  BY <1>1, <1>3, <1>4, <1>5 DEF FreshFacts, ForwarderTypeOK, ForwarderField
<1>7. ForwarderAccounted
  BY <1>2, OneUncounted DEF FreshFacts, ForwarderAccounted, ZeroForwarderStats
<1>8. Len(log) \in Nat
  BY DEF LogTypeOK
<1>9. Batch
  BY <1>8 DEF FreshFacts, Batch
<1>10. NothingSkipped
  BY <1>8 DEF FreshFacts, NothingSkipped
<1>. QED  BY <1>6, <1>7, <1>9, <1>10 DEF FInv

\* The topic only grows, at both ends, and only gains gaps.
LogGrows ==
  /\ Len(log) \in Nat /\ Len(log') \in Nat /\ Len(log) <= Len(log')
  /\ logStart \in Nat /\ logStart' \in Nat /\ logStart <= logStart'
  /\ gaps \subseteq gaps'

\* What others do to the topic does not disturb a forwarder.
LEMMA LogGrowsOK ==
  ASSUME FInv, LogGrows, UNCHANGED fvars PROVE FInv'
<1>. USE DEF fvars
<1>1. ForwarderTypeOK'
  BY DEF FInv, ForwarderTypeOK
<1>2. ForwarderAccounted'
  BY DEF FInv, ForwarderAccounted
<1>3. nextOffset \in Nat /\ nextOffset <= Len(log) /\ batch \in Seq(Nat)
  BY DEF FInv, Batch, ForwarderTypeOK
<1>4. NothingSkipped'
  BY <1>3 DEF FInv, NothingSkipped, LogGrows
<1>5. nextOffset' <= Len(log')
  BY <1>3 DEF LogGrows
<1>6. ASSUME fpc = "handle"
      PROVE  /\ \A i \in 1 .. Len(batch) : batch[i] < Len(log')
             /\ \A o \in nextOffset .. batch[Len(batch)] :
                  o \in gaps' \/ o < logStart' \/ \E i \in 1 .. Len(batch) : batch[i] = o
  <2>1. \A i \in 1 .. Len(batch) : batch[i] \in Nat /\ batch[i] < Len(log)
    BY <1>3, <1>6 DEF FInv, Batch
  <2>2. \A i \in 1 .. Len(batch) : batch[i] < Len(log')
    BY <2>1 DEF LogGrows
  <2>. QED  BY <1>3, <1>6, <2>2 DEF FInv, Batch, LogGrows
<1>7. Batch'
  BY <1>5, <1>6 DEF FInv, Batch
<1>. QED  BY <1>1, <1>2, <1>4, <1>7 DEF FInv

\* Connect, and the start of a configured or unconfigured forwarder.
LEMMA StartOK ==
  ASSUME FInv, LogTypeOK, Start \/ Connect PROVE FInv'
<1>1. /\ fpc # "handle" /\ fpc' \in {"connect", "inactive", "fetch"}
      /\ UNCHANGED <<sink, fenv, foffer, nextOffset, batch, pos, fqueue, fcur, wpc,
                     attempt, backoff, fstats, intake, seen, log, logStart, gaps>>
  BY DEF Start, Connect
<1>2. ForwarderTypeOK'
  BY <1>1 DEF FInv, ForwarderTypeOK
<1>3. ForwarderAccounted'
  BY <1>1 DEF FInv, ForwarderAccounted
<1>4. Batch'
  BY <1>1 DEF FInv, Batch
<1>5. NothingSkipped'
  BY <1>1 DEF FInv, NothingSkipped
<1>. QED  BY <1>2, <1>3, <1>4, <1>5 DEF FInv

\* The end of a process.
LEMMA ExitOK ==
  ASSUME FInv, LogTypeOK', Exit PROVE FInv'
<1>1. FreshFacts' /\ UNCHANGED <<sink, fenv, intake>>
  BY DEF Exit, FreshProcess, FreshFacts
<1>2. <<sink', fenv'>> \in Deployments /\ intake' \in Seq(Nat)
  BY <1>1 DEF FInv, ForwarderTypeOK
<1>3. /\ LogTypeOK' /\ FreshFacts' /\ (<<sink, fenv>> \in Deployments)'
      /\ (intake \in Seq(Nat))'
  BY <1>1, <1>2
<1>. QED  BY <1>3, FreshOK, PTL

\* A fetch returns the first readable records, so everything it leaves out
\* before its last record is not readable.
LEMMA FetchOK ==
  ASSUME FInv, LogTypeOK, Fetch PROVE FInv'
<1>1. /\ fpc' = "handle" /\ pos' = 0
      /\ UNCHANGED <<sink, fenv, foffer, nextOffset, fqueue, fcur, wpc, attempt, backoff,
                     fstats, intake, seen, log, logStart, gaps>>
  BY DEF Fetch
<1>. PICK k \in 1 .. MaxBatch :
       batch' \in {b \in [1 .. k -> Readable(nextOffset)] :
                    /\ \A i, j \in 1 .. k : i < j => b[i] < b[j]
                    /\ \A o \in Readable(nextOffset) :
                         o < b[k] => \E i \in 1 .. k : b[i] = o}
  BY DEF Fetch
<1>2. /\ batch' \in [1 .. k -> Readable(nextOffset)]
      /\ \A i, j \in 1 .. k : i < j => batch'[i] < batch'[j]
      /\ \A o \in Readable(nextOffset) : o < batch'[k] => \E i \in 1 .. k : batch'[i] = o
  OBVIOUS
<1>3. k \in Nat /\ k >= 1 /\ nextOffset \in Nat /\ Len(log) \in Nat /\ logStart \in Nat
  BY ForwarderAssumption DEF FInv, ForwarderTypeOK, LogTypeOK
<1>4. \A o : o \in Readable(nextOffset) <=>
        /\ o \in Nat /\ o >= nextOffset /\ o < Len(log) /\ o >= logStart /\ o \notin gaps
  BY <1>3 DEF Readable, HighWatermark
<1>5. batch' \in Seq(Nat) /\ Len(batch') = k
  BY <1>2, <1>3, <1>4
<1>6. ForwarderTypeOK'
  BY <1>1, <1>3, <1>5 DEF FInv, ForwarderTypeOK
<1>7. ForwarderAccounted'
  <2>1. pos = 0
    BY DEF FInv, Batch, Fetch
  <2>. QED  BY <1>1, <2>1 DEF FInv, ForwarderAccounted
<1>8. Batch'
  <2>1. \A i \in 1 .. k : batch'[i] \in Readable(nextOffset)
    BY <1>2
  <2>2. ASSUME NEW o \in nextOffset .. batch'[k]
        PROVE  o \in gaps \/ o < logStart \/ \E i \in 1 .. k : batch'[i] = o
    <3>1. batch'[k] \in Nat /\ batch'[k] < Len(log)
      BY <1>3, <1>4, <2>1
    <3>2. CASE o = batch'[k]
      BY <1>3, <3>2
    <3>3. CASE o < batch'[k]
      BY <1>2, <1>3, <1>4, <3>1, <3>3
    <3>. QED  BY <1>3, <3>1, <3>2, <3>3
  <2>3. \A i \in 1 .. k : batch'[i] >= nextOffset /\ batch'[i] < Len(log)
    BY <1>4, <2>1
  <2>4. nextOffset <= Len(log)
    BY DEF FInv, Batch
  <2>. QED  BY <1>1, <1>2, <1>3, <1>5, <2>2, <2>3, <2>4 DEF Batch
<1>9. NothingSkipped'
  BY <1>1 DEF FInv, NothingSkipped
<1>. QED  BY <1>6, <1>7, <1>8, <1>9 DEF FInv

\* A record is counted once, under one of three names, and has been seen.
LEMMA HandleRecordOK ==
  ASSUME FInv, LogTypeOK, HandleRecord PROVE FInv'
<1>. DEFINE o == batch[pos + 1]
<1>1. /\ fpc = "handle" /\ foffer = "send"
      /\ pos < Len(batch) /\ pos' = pos + 1 /\ seen' = seen \cup {o}
      /\ UNCHANGED <<sink, fenv, fpc, nextOffset, batch, fcur, wpc, attempt,
                     backoff, intake, log, logStart, gaps>>
  BY DEF HandleRecord
<1>2. \/ fqueue' = fqueue /\ fstats' = Count("malformed") /\ foffer' = "send"
      \/ fqueue' = fqueue /\ fstats' = Count("dropped") /\ foffer' = "send"
      \/ /\ Len(fqueue) < QueueCapacity
         /\ fqueue' = Append(fqueue, o) /\ fstats' = fstats /\ foffer' = "count"
  BY DEF HandleRecord
<1>3. batch \in Seq(Nat) /\ pos \in Nat /\ Len(batch) \in Nat /\ pos + 1 \in 1 .. Len(batch)
  BY <1>1 DEF FInv, ForwarderTypeOK
<1>4. o \in Nat
  BY <1>3
<1>. HIDE DEF o
<1>5. /\ fqueue \in Seq(Nat) /\ Len(fqueue) \in Nat /\ Len(fqueue) <= QueueCapacity
      /\ fstats \in [ForwarderField -> Nat] /\ fcur \in Seq(Nat) /\ Len(fcur) \in Nat
  BY DEF FInv, ForwarderTypeOK, ForwarderField
<1>6. /\ fstats' \in [ForwarderField -> Nat]
      /\ fqueue' \in Seq(Nat) /\ Len(fqueue') <= QueueCapacity
  <2>1. CASE fqueue' = fqueue
    <3>1. fstats' \in [ForwarderField -> Nat]
      BY <1>2, <1>5 DEF Count, ForwarderField
    <3>. QED  BY <1>5, <2>1, <3>1
  <2>2. CASE Len(fqueue) < QueueCapacity /\ fqueue' = Append(fqueue, o) /\ fstats' = fstats
    <3>1. fstats' \in [ForwarderField -> Nat]
      BY <1>5, <2>2
    <3>2. fqueue' \in Seq(Nat) /\ Len(fqueue') = Len(fqueue) + 1
      BY <1>4, <1>5, <2>2
    <3>. QED  BY <1>5, <2>2, <3>1, <3>2, ForwarderAssumption
  <2>. QED  BY <1>2, <2>1, <2>2
<1>7. ForwarderTypeOK'
  <2>1. pos' \in 0 .. Len(batch') /\ seen' \subseteq Nat
    BY <1>1, <1>3, <1>4 DEF FInv, ForwarderTypeOK
  <2>2. foffer' \in {"send", "count"} /\ fpc' = "handle"
    BY <1>1, <1>2
  <2>. QED  BY <1>1, <1>6, <2>1, <2>2 DEF FInv, ForwarderTypeOK, ForwarderField
<1>8. ForwarderAccounted'
  <2>1. /\ fstats.enqueued = fstats.forwarded + fstats.failed + Len(fqueue) + Len(fcur)
        /\ nextOffset + pos = fstats.enqueued + fstats.dropped + fstats.malformed
        /\ nextOffset \in Nat
    BY <1>1, <1>5, OneUncounted DEF FInv, ForwarderAccounted, ForwarderTypeOK, ForwarderField
  <2>2. /\ fstats.enqueued \in Nat /\ fstats.dropped \in Nat /\ fstats.malformed \in Nat
        /\ fstats.forwarded \in Nat /\ fstats.failed \in Nat
    BY <1>5 DEF ForwarderField
  <2>a. /\ Len(fcur') = Len(fcur) /\ Len(fcur) \in Nat /\ Len(fqueue) \in Nat
        /\ nextOffset' + pos' = (nextOffset + pos) + 1
    BY <1>1, <1>3, <1>5, <2>1
  <2>3. CASE fqueue' = fqueue /\ fstats' = Count("malformed") /\ foffer' = "send"
    <3>1. /\ fstats'.malformed = fstats.malformed + 1 /\ fstats'.dropped = fstats.dropped
          /\ fstats'.enqueued = fstats.enqueued /\ fstats'.forwarded = fstats.forwarded
          /\ fstats'.failed = fstats.failed
      BY <1>5, <2>3 DEF Count, ForwarderField
    <3>2. Len(fqueue') = Len(fqueue) /\ Uncounted(foffer') = 0
      BY <2>3, OneUncounted
    <3>3. fstats'.enqueued + Uncounted(foffer')
            = fstats'.forwarded + fstats'.failed + Len(fqueue') + Len(fcur')
      BY <2>a, <2>1, <2>2, <3>1, <3>2
    <3>4. nextOffset' + pos'
            = fstats'.enqueued + Uncounted(foffer') + fstats'.dropped + fstats'.malformed
      <4>1. nextOffset' + pos' = (fstats.enqueued + fstats.dropped + fstats.malformed) + 1
        BY <2>a, <2>1
      <4>. QED  BY <2>2, <3>1, <3>2, <4>1
    <3>. QED  BY <3>3, <3>4 DEF ForwarderAccounted
  <2>4. CASE fqueue' = fqueue /\ fstats' = Count("dropped") /\ foffer' = "send"
    <3>1. /\ fstats'.malformed = fstats.malformed /\ fstats'.dropped = fstats.dropped + 1
          /\ fstats'.enqueued = fstats.enqueued /\ fstats'.forwarded = fstats.forwarded
          /\ fstats'.failed = fstats.failed
      BY <1>5, <2>4 DEF Count, ForwarderField
    <3>2. Len(fqueue') = Len(fqueue) /\ Uncounted(foffer') = 0
      BY <2>4, OneUncounted
    <3>3. fstats'.enqueued + Uncounted(foffer')
            = fstats'.forwarded + fstats'.failed + Len(fqueue') + Len(fcur')
      BY <2>a, <2>1, <2>2, <3>1, <3>2
    <3>4. nextOffset' + pos'
            = fstats'.enqueued + Uncounted(foffer') + fstats'.dropped + fstats'.malformed
      <4>1. nextOffset' + pos' = (fstats.enqueued + fstats.dropped + fstats.malformed) + 1
        BY <2>a, <2>1
      <4>. QED  BY <2>2, <3>1, <3>2, <4>1
    <3>. QED  BY <3>3, <3>4 DEF ForwarderAccounted
  <2>5. CASE fqueue' = Append(fqueue, o) /\ fstats' = fstats /\ foffer' = "count"
    <3>2. Len(fqueue') = Len(fqueue) + 1 /\ Uncounted(foffer') = 1
      BY <1>4, <1>5, <2>5, OneUncounted
    <3>1. /\ fstats'.malformed = fstats.malformed /\ fstats'.dropped = fstats.dropped
          /\ fstats'.enqueued = fstats.enqueued /\ fstats'.forwarded = fstats.forwarded
          /\ fstats'.failed = fstats.failed
      BY <2>5
    <3>3. fstats'.enqueued + Uncounted(foffer')
            = fstats'.forwarded + fstats'.failed + Len(fqueue') + Len(fcur')
      <4>1. fstats.enqueued = fstats.forwarded + fstats.failed + Len(fqueue) + Len(fcur)
        BY <2>1
      <4>2. Len(fcur') = Len(fcur) /\ Len(fcur) \in Nat /\ Len(fqueue) \in Nat
        BY <2>a
      <4>. QED  BY <2>2, <3>1, <3>2, <4>1, <4>2
    <3>4. nextOffset' + pos'
            = fstats'.enqueued + Uncounted(foffer') + fstats'.dropped + fstats'.malformed
      <4>1. nextOffset' + pos' = (fstats.enqueued + fstats.dropped + fstats.malformed) + 1
        BY <2>a, <2>1
      <4>. QED  BY <2>2, <3>1, <3>2, <4>1
    <3>. QED  BY <3>3, <3>4 DEF ForwarderAccounted
  <2>. QED  BY <1>2, <2>3, <2>4, <2>5
<1>9. Batch'
  <2>1. \A i \in 1 .. pos' : batch'[i] \in seen'
    BY <1>1, <1>3 DEF FInv, Batch, o
  <2>. QED  BY <1>1, <2>1 DEF FInv, Batch
<1>10. NothingSkipped'
  BY <1>1 DEF FInv, NothingSkipped
<1>. QED  BY <1>7, <1>8, <1>9, <1>10 DEF FInv

\* The consumer counts what it has sent.
LEMMA CountRecordOK ==
  ASSUME FInv, CountRecord PROVE FInv'
<1>1. /\ foffer = "count" /\ foffer' = "send" /\ fstats' = Count("enqueued")
      /\ UNCHANGED <<sink, fenv, fpc, nextOffset, batch, pos, fqueue, fcur, wpc,
                     attempt, backoff, intake, seen, log, logStart, gaps>>
  BY DEF CountRecord
<1>2. fstats \in [ForwarderField -> Nat]
  BY DEF FInv, ForwarderTypeOK, ForwarderField
<1>3. /\ fstats' \in [ForwarderField -> Nat]
      /\ fstats'.malformed = fstats.malformed /\ fstats'.dropped = fstats.dropped
      /\ fstats'.enqueued = fstats.enqueued + 1 /\ fstats'.forwarded = fstats.forwarded
      /\ fstats'.failed = fstats.failed
  BY <1>1, <1>2 DEF Count, ForwarderField
<1>4. ForwarderTypeOK'
  BY <1>1, <1>3 DEF FInv, ForwarderTypeOK, ForwarderField
<1>5. fstats.enqueued + Uncounted(foffer) = fstats'.enqueued + Uncounted(foffer')
  <2>1. fstats.enqueued \in Nat
    BY <1>2 DEF ForwarderField
  <2>. QED  BY <1>1, <1>3, <2>1, OneUncounted
<1>6. ForwarderAccounted'
  BY <1>1, <1>3, <1>5 DEF FInv, ForwarderAccounted
<1>7. Batch' /\ NothingSkipped'
  BY <1>1 DEF FInv, Batch, NothingSkipped
<1>. QED  BY <1>4, <1>6, <1>7 DEF FInv

\* Increasing offsets from n on: the last one is at least n + their number - 1.
LEMMA Spread ==
  ASSUME NEW n \in Nat, NEW k \in Nat, k >= 1, NEW b \in [1 .. k -> Nat],
         NEW m \in Nat, b[k] = m,
         \A i \in 1 .. k : b[i] >= n,
         \A i, j \in 1 .. k : i < j => b[i] < b[j]
  PROVE  n + k - 1 <= m
<1>1. k \in 1 .. k /\ m >= n
  OBVIOUS
<1>2. ASSUME NEW i \in 1 .. k PROVE b[i] \in n .. m
  <2>1. i = k \/ i < k
    OBVIOUS
  <2>. QED  BY <1>1, <2>1
<1>3. \A i, j \in 1 .. k : b[i] = b[j] => i = j
  <2>1. ASSUME NEW i \in 1 .. k, NEW j \in 1 .. k, b[i] = b[j] PROVE i = j
    <3>1. ~ (b[i] < b[j]) /\ ~ (b[j] < b[i])
      BY <2>1
    <3>. QED  BY <3>1
  <2>. QED  BY <2>1
<1>4. b \in Injection(1 .. k, n .. m)
  BY <1>2, <1>3 DEF Injection, IsInjective
<1>5. IsFiniteSet(n .. m) /\ Cardinality(n .. m) = m - n + 1
  BY <1>1, FS_Interval
<1>6. Cardinality(1 .. k) = k
  BY FS_Interval
<1>7. Cardinality(1 .. k) <= Cardinality(n .. m)
  BY <1>4, <1>5, FS_Injection
<1>. QED  BY <1>5, <1>6, <1>7

\* next_offset += records.len() stays behind the last record of the batch.
LEMMA AdvanceOK ==
  ASSUME FInv, LogTypeOK, Advance PROVE FInv'
<1>1. /\ fpc = "handle" /\ foffer = "send"
      /\ pos = Len(batch) /\ nextOffset' = nextOffset + Len(batch)
      /\ batch' = <<>> /\ pos' = 0 /\ fpc' = "fetch"
      /\ UNCHANGED <<sink, fenv, foffer, fqueue, fcur, wpc, attempt, backoff, fstats,
                     intake, seen, log, logStart, gaps>>
  BY DEF Advance
<1>2. batch \in Seq(Nat) /\ Len(batch) \in Nat /\ nextOffset \in Nat /\ Len(log) \in Nat
  BY DEF FInv, ForwarderTypeOK, LogTypeOK
<1>3. <<>> \in Seq(Nat) /\ Len(<<>>) = 0
  BY Empty
<1>4. ForwarderTypeOK'
  <2>1. nextOffset' \in Nat /\ pos' \in 0 .. Len(batch') /\ batch' \in Seq(Nat)
    BY <1>1, <1>2, <1>3
  <2>. QED  BY <1>1, <2>1 DEF FInv, ForwarderTypeOK
<1>5. ForwarderAccounted'
  BY <1>1, <1>2 DEF FInv, ForwarderAccounted
<1>6. /\ Len(batch) >= 1
      /\ \A i \in 1 .. Len(batch) : batch[i] >= nextOffset /\ batch[i] < Len(log)
      /\ \A i, j \in 1 .. Len(batch) : i < j => batch[i] < batch[j]
      /\ \A o \in nextOffset .. batch[Len(batch)] :
           o \in gaps \/ o < logStart \/ \E i \in 1 .. Len(batch) : batch[i] = o
      /\ \A i \in 1 .. Len(batch) : batch[i] \in seen
  BY <1>1 DEF FInv, Batch
<1>7. nextOffset + Len(batch) - 1 <= batch[Len(batch)] /\ batch[Len(batch)] \in Nat
  <2>1. Len(batch) \in 1 .. Len(batch) /\ batch \in [1 .. Len(batch) -> Nat]
    BY <1>2, <1>6
  <2>. QED  BY <1>2, <1>6, <2>1, Spread
<1>8. Batch'
  <2>1. nextOffset' <= Len(log')
    BY <1>1, <1>2, <1>6, <1>7
  <2>. QED  BY <1>1, <2>1 DEF Batch
<1>9. NothingSkipped'
  <2>. SUFFICES ASSUME NEW o \in 0 .. Len(log) - 1, o < nextOffset + Len(batch)
                PROVE  o \in seen \/ o \in gaps \/ o < logStart
    BY <1>1 DEF NothingSkipped
  <2>1. CASE o < nextOffset
    BY <2>1 DEF FInv, NothingSkipped
  <2>2. CASE o >= nextOffset
    <3>1. o \in nextOffset .. batch[Len(batch)]
      BY <1>2, <1>7, <2>2
    <3>. QED  BY <1>6, <3>1
  <2>. QED  BY <1>2, <2>1, <2>2
<1>. QED  BY <1>4, <1>5, <1>8, <1>9 DEF FInv

\* The worker's steps leave the consumer alone.
ConsumerSame ==
  UNCHANGED <<sink, fenv, fpc, foffer, nextOffset, batch, pos, seen, log, logStart, gaps>>

\* So what the consumer knows is kept.
LEMMA WorkerKeeps ==
  ASSUME FInv, ConsumerSame PROVE Batch' /\ NothingSkipped'
<1>1. Batch'
  BY DEF FInv, ConsumerSame, Batch
<1>2. NothingSkipped'
  BY DEF FInv, ConsumerSame, NothingSkipped
<1>. QED  BY <1>1, <1>2

\* The accounts of the worker are numbers.
LEMMA ForwarderNumbers ==
  ASSUME FInv
  PROVE  /\ fstats \in [ForwarderField -> Nat]
         /\ fstats.enqueued \in Nat /\ fstats.dropped \in Nat /\ fstats.malformed \in Nat
         /\ fstats.forwarded \in Nat /\ fstats.failed \in Nat
         /\ fqueue \in Seq(Nat) /\ Len(fqueue) \in Nat /\ Len(fqueue) <= QueueCapacity
         /\ fcur \in Seq(Nat) /\ Len(fcur) \in Nat
         /\ wpc # "wait" => Len(fcur) = 1 /\ fcur[1] \in Nat
         /\ wpc = "wait" => Len(fcur) = 0
<1>1. /\ fstats \in [ForwarderField -> Nat] /\ fqueue \in Seq(Nat) /\ fcur \in Seq(Nat)
      /\ Len(fcur) <= 1 /\ (fcur # <<>> <=> wpc # "wait") /\ Len(fqueue) <= QueueCapacity
  BY DEF FInv, ForwarderTypeOK, ForwarderField
<1>2. /\ fstats.enqueued \in Nat /\ fstats.dropped \in Nat /\ fstats.malformed \in Nat
      /\ fstats.forwarded \in Nat /\ fstats.failed \in Nat
  BY <1>1 DEF ForwarderField
<1>3. Len(fqueue) \in Nat /\ Len(fcur) \in Nat /\ Len(<<>>) = 0
  BY <1>1, Empty
<1>4. ASSUME fcur # <<>> PROVE Len(fcur) \in Nat /\ Len(fcur) >= 1 /\ fcur[1] \in Nat
  BY <1>1, <1>4, NotEmpty
<1>5. wpc # "wait" => Len(fcur) = 1 /\ fcur[1] \in Nat
  <2>1. ASSUME wpc # "wait" PROVE fcur # <<>>
    BY <1>1, <2>1, Zenon
  <2>2. fcur # <<>> => Len(fcur) = 1 /\ fcur[1] \in Nat
    <3>1. fcur \in Seq(Nat) /\ Len(fcur) <= 1
      BY <1>1
    <3>2. fcur # <<>> => Len(fcur) = 1
      <4>1. ASSUME NEW n \in Nat, n <= 1, n >= 1 PROVE n = 1
        BY <4>1
      <4>2. ASSUME fcur # <<>> PROVE Len(fcur) = 1
        BY <1>4, <3>1, <4>1, <4>2, Zenon
      <4>. QED  BY <4>2
    <3>3. fcur # <<>> => fcur[1] \in Nat
      BY <1>4
    <3>. QED  BY <3>2, <3>3
  <2>. QED  BY <2>1, <2>2
<1>6. wpc = "wait" => Len(fcur) = 0
  <2>1. ASSUME wpc = "wait" PROVE fcur = <<>>
    BY <1>1, <2>1, Zenon
  <2>. QED  BY <1>3, <2>1
<1>. QED  BY <1>1, <1>2, <1>3, <1>5, <1>6

\* The worker takes the head of the queue.
LEMMA WorkerRecvOK ==
  ASSUME FInv, WorkerRecv PROVE FInv'
<1>1. /\ wpc = "wait" /\ fqueue # <<>> /\ fcur' = <<Head(fqueue)>> /\ fqueue' = Tail(fqueue)
      /\ wpc' = "post" /\ attempt' = 0 /\ ConsumerSame
      /\ UNCHANGED <<backoff, fstats, intake>>
  BY DEF WorkerRecv, ConsumerSame
<1>2. /\ fqueue \in Seq(Nat) /\ Len(fqueue) \in Nat /\ Len(fqueue) <= QueueCapacity
      /\ Len(fcur) = 0
  BY <1>1, ForwarderNumbers
<1>3. /\ fqueue' \in Seq(Nat) /\ Len(fqueue') = Len(fqueue) - 1 /\ Head(fqueue) \in Nat
  BY <1>1, <1>2, HeadTailProperties
<1>4. fcur' \in Seq(Nat) /\ Len(fcur') = 1 /\ fcur' # <<>>
  BY <1>1, <1>3
<1>5. ForwarderTypeOK'
  <2>1. /\ attempt' \in 0 .. MAX_ATTEMPTS - 1 /\ Len(fqueue') <= QueueCapacity
        /\ Len(fcur') <= 1
    BY <1>1, <1>2, <1>3, <1>4, ForwarderAssumption DEF MAX_ATTEMPTS
  <2>. QED  BY <1>1, <1>3, <1>4, <2>1 DEF FInv, ForwarderTypeOK, ConsumerSame
<1>6. ForwarderAccounted'
  <2>1. /\ fstats' = fstats /\ nextOffset' = nextOffset /\ pos' = pos /\ foffer' = foffer
        /\ Len(fqueue') + Len(fcur') = Len(fqueue) + Len(fcur)
        /\ Len(fqueue') \in Nat /\ Len(fcur') \in Nat
    BY <1>1, <1>2, <1>3, <1>4 DEF ConsumerSame
  <2>2. fstats'.enqueued + Uncounted(foffer')
          = fstats'.forwarded + fstats'.failed + Len(fqueue') + Len(fcur')
    <3>1. fstats.enqueued + Uncounted(foffer)
            = fstats.forwarded + fstats.failed + Len(fqueue) + Len(fcur)
      BY DEF FInv, ForwarderAccounted
    <3>2. fstats.forwarded \in Nat /\ fstats.failed \in Nat
      BY ForwarderNumbers
    <3>3. fstats' = fstats /\ foffer' = foffer
      BY <2>1
    <3>4. fstats.enqueued + Uncounted(foffer)
            = fstats.forwarded + fstats.failed + Len(fqueue') + Len(fcur')
      <4>1. Len(fqueue') = Len(fqueue) - 1 /\ Len(fcur') = 1 /\ Len(fcur) = 0
        BY <1>2, <1>3, <1>4
      <4>2. Len(fqueue) \in Nat
        BY <1>2
      <4>. QED  BY <3>1, <3>2, <4>1, <4>2
    <3>. QED  BY <3>3, <3>4
  <2>3. nextOffset' + pos'
          = fstats'.enqueued + Uncounted(foffer') + fstats'.dropped + fstats'.malformed
    BY <2>1 DEF FInv, ForwarderAccounted
  <2>. QED  BY <2>2, <2>3 DEF ForwarderAccounted
<1>. QED  BY <1>1, <1>5, <1>6, WorkerKeeps DEF FInv

\* The worker is done with its alert, in success or not.
LEMMA FinishOK ==
  ASSUME FInv, wpc = "post", NEW field \in {"forwarded", "failed"}, Finish(field),
         backoff' \in InitialBackoff .. BackoffCap, intake' \in Seq(Nat),
         fqueue' = fqueue, ConsumerSame
  PROVE  FInv'
<1>1. fstats' = Count(field) /\ fcur' = <<>> /\ wpc' = "wait" /\ attempt' = 0
  BY DEF Finish
<1>2. <<>> \in Seq(Nat) /\ Len(fcur') = 0 /\ Len(fcur) = 1
  BY <1>1, Empty, ForwarderNumbers
<1>3. /\ fstats' \in [ForwarderField -> Nat]
      /\ fstats'.malformed = fstats.malformed /\ fstats'.dropped = fstats.dropped
      /\ fstats'.enqueued = fstats.enqueued
      /\ fstats'.forwarded + fstats'.failed = fstats.forwarded + fstats.failed + 1
  <2>1. fstats \in [ForwarderField -> Nat]
    BY ForwarderNumbers
  <2>2. CASE field = "forwarded"
    <3>1. /\ fstats' \in [ForwarderField -> Nat]
          /\ fstats'.malformed = fstats.malformed /\ fstats'.dropped = fstats.dropped
          /\ fstats'.enqueued = fstats.enqueued /\ fstats'.failed = fstats.failed
      BY <1>1, <2>1, <2>2 DEF Count, ForwarderField
    <3>2. fstats'.forwarded = fstats.forwarded + 1
      BY <1>1, <2>1, <2>2 DEF Count, ForwarderField
    <3>3. fstats.forwarded \in Nat /\ fstats.failed \in Nat
      BY ForwarderNumbers
    <3>4. fstats'.forwarded + fstats'.failed = fstats.forwarded + fstats.failed + 1
      BY <3>1, <3>2, <3>3
    <3>. QED  BY <3>1, <3>4
  <2>3. CASE field = "failed"
    BY <1>1, <2>1, <2>3 DEF Count, ForwarderField
  <2>. QED  BY <2>2, <2>3
<1>4. ForwarderTypeOK'
  <2>1. attempt' \in 0 .. MAX_ATTEMPTS - 1 /\ Len(fcur') <= 1
    BY <1>1, <1>2 DEF MAX_ATTEMPTS
  <2>2. (fcur' # <<>> <=> wpc' # "wait")
    BY <1>1
  <2>. QED  BY <1>1, <1>2, <1>3, <2>1, <2>2
            DEF FInv, ForwarderTypeOK, ConsumerSame, ForwarderField
<1>5. ForwarderAccounted'
  <2>1. /\ nextOffset' = nextOffset /\ pos' = pos /\ Len(fqueue') = Len(fqueue)
        /\ foffer' = foffer /\ Uncounted(foffer) \in Nat
    BY OneUncounted DEF ConsumerSame
  <2>2. fstats'.enqueued + Uncounted(foffer')
          = fstats'.forwarded + fstats'.failed + Len(fqueue') + Len(fcur')
    <3>1. fstats.enqueued + Uncounted(foffer)
            = fstats.forwarded + fstats.failed + Len(fqueue) + 1
      BY <1>2 DEF FInv, ForwarderAccounted
    <3>. QED  BY <1>2, <1>3, <2>1, <3>1, ForwarderNumbers
  <2>3. nextOffset' + pos'
          = fstats'.enqueued + Uncounted(foffer') + fstats'.dropped + fstats'.malformed
    BY <1>3, <2>1 DEF FInv, ForwarderAccounted
  <2>. QED  BY <2>2, <2>3 DEF ForwarderAccounted
<1>. QED  BY <1>4, <1>5, WorkerKeeps DEF FInv

\* The alert stays in hand for another attempt.
LEMMA SleepOK ==
  ASSUME FInv, wpc # "wait", wpc' # "wait", wpc' \in {"wait", "post", "sleep"},
         attempt' \in 0 .. MAX_ATTEMPTS - 1,
         backoff' \in InitialBackoff .. BackoffCap, intake' \in Seq(Nat),
         UNCHANGED <<fqueue, fcur, fstats>>, ConsumerSame
  PROVE  FInv'
<1>1. ForwarderTypeOK'
  BY DEF FInv, ForwarderTypeOK, ConsumerSame
<1>2. ForwarderAccounted'
  BY DEF FInv, ForwarderAccounted, ConsumerSame
<1>. QED  BY <1>1, <1>2, WorkerKeeps DEF FInv

\* One attempt ends in success, in failure, or in a sleep.
LEMMA PostOK ==
  ASSUME FInv, Post PROVE FInv'
<1>1. wpc = "post" /\ fqueue' = fqueue /\ ConsumerSame
  BY DEF Post, ConsumerSame
<1>2. /\ backoff \in InitialBackoff .. BackoffCap /\ intake \in Seq(Nat)
      /\ attempt \in 0 .. MAX_ATTEMPTS - 1 /\ fcur[1] \in Nat
  BY <1>1, ForwarderNumbers DEF FInv, ForwarderTypeOK
<1>3. \/ Success
      \/ Finish("failed") /\ backoff' = backoff /\ intake' = intake
      \/ TryAgain /\ (intake' = intake \/ intake' = Append(intake, fcur[1]))
  BY DEF Post
<1>4. CASE Success
  <2>1. backoff' = InitialBackoff /\ intake' = Append(intake, fcur[1]) /\ Finish("forwarded")
    BY <1>4 DEF Success
  <2>2. backoff' \in InitialBackoff .. BackoffCap /\ intake' \in Seq(Nat)
    BY <1>2, <2>1, ForwarderAssumption
  <2>. QED  BY <1>1, <2>1, <2>2, FinishOK
<1>5. CASE Finish("failed") /\ backoff' = backoff /\ intake' = intake
  BY <1>1, <1>2, <1>5, FinishOK
<1>6. CASE TryAgain /\ (intake' = intake \/ intake' = Append(intake, fcur[1]))
  <2>1. intake' \in Seq(Nat)
    BY <1>2, <1>6
  <2>2. CASE attempt + 1 >= MAX_ATTEMPTS
    <3>1. Finish("failed") /\ backoff' = backoff
      BY <1>6, <2>2 DEF TryAgain
    <3>. QED  BY <1>1, <1>2, <2>1, <3>1, FinishOK
  <2>3. CASE ~ (attempt + 1 >= MAX_ATTEMPTS)
    <3>1. /\ attempt' = attempt + 1 /\ wpc' = "sleep"
          /\ UNCHANGED <<fstats, fcur, backoff>>
      BY <1>6, <2>3 DEF TryAgain
    <3>2. attempt' \in 0 .. MAX_ATTEMPTS - 1
      BY <1>2, <2>3, <3>1 DEF MAX_ATTEMPTS
    <3>. QED  BY <1>1, <1>2, <2>1, <3>1, <3>2, SleepOK
  <2>. QED  BY <2>2, <2>3
<1>. QED  BY <1>3, <1>4, <1>5, <1>6

\* The worker goes on after its sleep.
LEMMA WorkerWakeOK ==
  ASSUME FInv, WorkerWake PROVE FInv'
<1>1. /\ wpc = "sleep" /\ wpc' = "post" /\ ConsumerSame
      /\ backoff' = (IF 2 * backoff < BackoffCap THEN 2 * backoff ELSE BackoffCap)
      /\ UNCHANGED <<fqueue, fcur, fstats, attempt, intake>>
  BY DEF WorkerWake, ConsumerSame
<1>2. /\ backoff \in InitialBackoff .. BackoffCap /\ intake \in Seq(Nat)
      /\ attempt \in 0 .. MAX_ATTEMPTS - 1
  BY DEF FInv, ForwarderTypeOK
<1>3. backoff' \in InitialBackoff .. BackoffCap
  BY <1>1, <1>2, ForwarderAssumption
<1>. QED  BY <1>1, <1>2, <1>3, SleepOK

\* Every step of a forwarder keeps its invariant.
LEMMA ForwarderNextOK ==
  ASSUME FInv, LogTypeOK, LogTypeOK', ForwarderNext PROVE FInv'
<1>1. CASE Start \/ Connect
  BY <1>1, StartOK
<1>2. CASE Exit
  BY <1>2, ExitOK
<1>3. CASE Fetch
  BY <1>3, FetchOK
<1>4. CASE HandleRecord
  BY <1>4, HandleRecordOK
<1>5. CASE Advance
  BY <1>5, AdvanceOK
<1>6. CASE WorkerRecv
  BY <1>6, WorkerRecvOK
<1>7. CASE Post
  BY <1>7, PostOK
<1>8. CASE WorkerWake
  BY <1>8, WorkerWakeOK
<1>9. CASE CountRecord
  BY <1>9, CountRecordOK
<1>. QED  BY <1>1, <1>2, <1>3, <1>4, <1>5, <1>6, <1>7, <1>8, <1>9
          DEF ForwarderNext, StartDatadog, StartSplunk, ConsumerFails, FetchOutOfRange,
              DatadogConsumer, SplunkConsumer, DatadogWorker, SplunkWorker

-----------------------------------------------------------------------------
(***************************************************************************)
(* The composition.                                                        *)
(***************************************************************************)
\* The worker of the stream appends what it holds, or nothing.
LEMMA StreamLog ==
  ASSUME SInv, LogTypeOK, StreamNext
  PROVE  LogTypeOK' /\ LogGrows /\ UNCHANGED <<logStart, gaps>>
<1>1. UNCHANGED <<logStart, gaps>> /\ (faults' = faults \/ Fault)
  BY DEF StreamNext, StreamWorker, Raise, CountEnqueued, ProduceRetry,
         NoopDrain, Recv, ConnectOk, ConnectFail, Wake,
         Encode, EncodeFail, ProduceOk, ProduceErr, AgentRestart
<1>2. faults' \in 0 .. MaxFaults
  BY <1>1, FaultOK DEF LogTypeOK
<1>3. log' = log \/ (spc = "produce" /\ log' = Append(log, EncodeAlert(scur[1])))
  <2>1. CASE ProduceOk \/ ProduceErr \/ ProduceRetry
    BY <2>1, Zenon DEF ProduceOk, ProduceErr, ProduceRetry
  <2>2. CASE ~ (ProduceOk \/ ProduceErr \/ ProduceRetry)
    <3>1. log' = log
      BY <2>2 DEF StreamNext, StreamWorker, Raise, CountEnqueued, NoopDrain,
                  Recv, ConnectOk, ConnectFail,
                  Wake, Encode, EncodeFail, AgentRestart
    <3>. QED  BY <3>1
  <2>. QED  BY <2>1, <2>2
<1>4. CASE log' = log
  BY <1>1, <1>2, <1>4 DEF LogTypeOK, LogGrows
<1>5. CASE spc = "produce" /\ log' = Append(log, EncodeAlert(scur[1]))
  <2>1. scur[1] \in Alert
    BY <1>5, Ids DEF SInv, StreamTypeOK
  <2>2. EncodeAlert(scur[1]) \in Record
    BY <2>1, EncodedIsRecord
  <2>3. LogTypeOK'
    BY <1>1, <1>2, <1>5, <2>2, LogAppendOK
  <2>4. Len(log') = Len(log) + 1 /\ Len(log) \in Nat /\ logStart \in Nat
    BY <1>5, <2>2 DEF LogTypeOK
  <2>. QED  BY <1>1, <2>3, <2>4 DEF LogGrows
<1>. QED  BY <1>3, <1>4, <1>5

\* A forwarder only reads the topic.
LEMMA ForwarderLog ==
  ASSUME LogTypeOK, ForwarderNext
  PROVE  LogTypeOK' /\ UNCHANGED <<log, logStart, gaps>> /\ (faults' = faults \/ Fault)
<1>1. UNCHANGED <<log, logStart, gaps>> /\ (faults' = faults \/ Fault)
  BY DEF ForwarderNext, StartDatadog, StartSplunk, Start, Connect, ConsumerFails, Exit,
         FetchOutOfRange, DatadogConsumer, SplunkConsumer, Fetch, HandleRecord,
         CountRecord, Advance,
         DatadogWorker, SplunkWorker, WorkerRecv, Post, Success, WorkerWake
<1>. QED  BY <1>1, FaultOK DEF LogTypeOK

\* Other producers, retention and compaction.
LEMMA BrokerLog ==
  ASSUME LogTypeOK, ForeignAppend \/ Retain \/ Compact
  PROVE  LogTypeOK' /\ LogGrows
<1>0. /\ log \in Seq(Record) /\ Len(log) \in Nat /\ logStart \in 0 .. Len(log)
      /\ gaps \subseteq 0 .. Len(log) /\ faults \in 0 .. MaxFaults
  BY DEF LogTypeOK
<1>1. CASE ForeignAppend
  <2>. PICK r \in ForeignRecord : log' = Append(log, r) /\ UNCHANGED <<logStart, gaps, faults>>
    BY <1>1 DEF ForeignAppend
  <2>1. r \in Record
    BY ForeignIsRecord
  <2>2. LogTypeOK'
    BY <1>0, <2>1, LogAppendOK
  <2>3. Len(log') = Len(log) + 1
    BY <1>0, <2>1
  <2>. QED  BY <1>0, <2>2, <2>3 DEF LogGrows
<1>2. CASE Retain
  BY <1>0, <1>2 DEF Retain, HighWatermark, LogTypeOK, LogGrows
<1>3. CASE Compact
  <2>1. UNCHANGED <<log, logStart, faults>>
    BY <1>3 DEF Compact
  <2>2. gaps \subseteq gaps' /\ gaps' \subseteq 0 .. Len(log)
    BY <1>0, <1>3 DEF Compact, Readable, HighWatermark
  <2>. QED  BY <1>0, <2>1, <2>2 DEF LogTypeOK, LogGrows
<1>. QED  BY <1>1, <1>2, <1>3

\* A step beside the stream that writes nothing keeps the stream's invariant.
LEMMA StreamIdle ==
  ASSUME SInv, LogTypeOK, FaultsGrow, log' = log, UNCHANGED svars PROVE SInv'
<1>. USE DEF svars
<1>1. TopicOrder' /\ Paid'
  BY NothingWritten DEF HandInTopic
<1>2. StreamTypeOK' /\ StreamAccounted'
  BY DEF SInv, StreamTypeOK, StreamAccounted, FaultsGrow
<1>3. Ordered'
  BY DEF SInv, Ordered
<1>. QED  BY <1>1, <1>2, <1>3 DEF SInv

\* What others append has no id, so the order of alerts is kept.
LEMMA BrokerKeepsOrder ==
  ASSUME SInv, LogTypeOK, ForeignAppend \/ Retain \/ Compact, UNCHANGED svars
  PROVE  SInv'
<1>. USE DEF svars
<1>0. FaultsGrow /\ faults' = faults
  BY FaultsGrowOK DEF ForeignAppend, Retain, Compact
<1>1. StreamTypeOK' /\ StreamAccounted'
  BY <1>0 DEF SInv, StreamTypeOK, StreamAccounted
<1>2. CASE log' = log
  BY <1>0, <1>2, StreamIdle
<1>3. CASE ForeignAppend
  <2>. PICK r \in ForeignRecord : log' = Append(log, r)
    BY <1>3 DEF ForeignAppend
  <2>1. r \in Record /\ r.id = 0
    BY ForeignIsRecord DEF ForeignRecord
  <2>2. /\ Len(log') = Len(log) + 1 /\ log'[Len(log) + 1] = r /\ Len(log) \in Nat
        /\ \A k \in 1 .. Len(log) : log'[k] = log[k]
        /\ DOMAIN log' = 1 .. Len(log) + 1 /\ DOMAIN log = 1 .. Len(log)
    BY <2>1 DEF LogTypeOK
  <2>3. \A k \in 1 .. Len(log') : k \in 1 .. Len(log) \/ k = Len(log) + 1
    BY <2>2
  <2>4. \A a \in Alert : 0 < a.id
    BY DEF Alert
  <2>5. /\ raised \in Nat
        /\ \A j \in 1 .. Len(squeue) : squeue[j] \in Alert
        /\ Len(scur) = 1 => scur[1] \in Alert
    BY Ids DEF SInv
  <2>6. \A k \in 1 .. Len(log') :
          log'[k].id <= raised /\ \A j \in 1 .. Len(squeue) : log'[k].id < squeue[j].id
    BY <2>1, <2>2, <2>3, <2>4, <2>5 DEF SInv, Ordered
  <2>7. Len(scur) = 1 => \A k \in 1 .. Len(log') : log'[k].id <= scur[1].id
    <3>1. ASSUME Len(scur) = 1, NEW k \in 1 .. Len(log') PROVE log'[k].id <= scur[1].id
      <4>1. CASE k \in 1 .. Len(log)
        BY <2>2, <3>1, <4>1 DEF SInv, Ordered
      <4>2. CASE k = Len(log) + 1
        <5>1. scur[1].id \in Nat
          BY <2>5, <3>1 DEF Alert
        <5>. QED  BY <2>1, <2>2, <4>2, <5>1
      <4>. QED  BY <2>3, <4>1, <4>2
    <3>. QED  BY <3>1
  <2>8. Ordered'
    BY <2>6, <2>7 DEF SInv, Ordered
  <2>9. TopicOrder'
    BY <2>1, <2>2, <2>3 DEF SInv, TopicOrder
  <2>10. Repeats' = Repeats
    BY <2>1, RepeatsAppend
  <2>11. HandInTopic' <=> HandInTopic
    BY <2>1, <2>2, <2>3, <2>4, <2>5 DEF HandInTopic
  <2>12. Paid'
    BY <1>0, <2>10, <2>11 DEF SInv, Paid
  <2>. QED  BY <1>1, <2>8, <2>9, <2>12 DEF SInv
<1>. QED  BY <1>2, <1>3 DEF Retain, Compact

Inv == LogTypeOK /\ SInv /\ FInv

\* The invariant holds at the start.
LEMMA InitInv == Init => Inv
<1>. SUFFICES ASSUME Init PROVE Inv
  OBVIOUS
<1>1. LogTypeOK /\ SInv
  BY LogInitOK, StreamInitOK DEF Init
<1>2. FreshFacts /\ intake = <<>>
  BY DEF Init, ForwarderInit, FreshFacts
<1>3. <<sink, fenv>> \in Deployments
  <2>1. PICK d \in Deployments : sink = d[1] /\ fenv = d[2]
    BY DEF Init, ForwarderInit
  <2>2. d = <<d[1], d[2]>>
    BY ForwarderAssumption
  <2>. QED  BY <2>1, <2>2
<1>4. intake \in Seq(Nat)
  BY <1>2, Empty
<1>. QED  BY <1>1, <1>2, <1>3, <1>4, FreshOK DEF Inv

\* Every step of the whole keeps it.
LEMMA NextInv == Inv /\ [Next]_vars => Inv'
<1>. SUFFICES ASSUME Inv, [Next]_vars PROVE Inv'
  OBVIOUS
<1>1. CASE StreamNext /\ UNCHANGED fvars
  BY <1>1, StreamLog, StreamNextOK, LogGrowsOK DEF Inv
<1>2. CASE ForwarderNext /\ UNCHANGED svars
  <2>1. LogTypeOK' /\ UNCHANGED <<log, logStart, gaps>> /\ FaultsGrow
    BY <1>2, ForwarderLog, FaultsGrowOK DEF Inv
  <2>2. FInv'
    BY <1>2, <2>1, ForwarderNextOK DEF Inv
  <2>3. SInv'
    BY <1>2, <2>1, StreamIdle DEF Inv
  <2>. QED  BY <2>1, <2>2, <2>3 DEF Inv
<1>3. CASE (ForeignAppend \/ Retain \/ Compact) /\ UNCHANGED <<svars, fvars>>
  BY <1>3, BrokerLog, BrokerKeepsOrder, LogGrowsOK DEF Inv
<1>4. CASE UNCHANGED vars
  <2>1. UNCHANGED <<log, logStart, gaps, faults>> /\ UNCHANGED svars /\ UNCHANGED fvars
    BY <1>4 DEF vars, logvars
  <2>2. LogTypeOK' /\ LogGrows
    BY <2>1 DEF Inv, LogTypeOK, LogGrows
  <2>3. SInv'
    BY <2>1, StreamIdle, FaultsGrowOK DEF Inv
  <2>. QED  BY <2>1, <2>2, <2>3, LogGrowsOK DEF Inv
<1>. QED  BY <1>1, <1>2, <1>3, <1>4 DEF Next

\* In every behaviour the inductive invariant holds.
THEOREM Invariance == Spec => []Inv
<1>. QED  BY InitInv, NextInv, PTL DEF Spec

\* Queues, workers, counters and offsets have their types, and no queue grows
\* past its capacity.
THEOREM TypeCorrect == Spec => []TypeOK
<1>1. Inv => TypeOK
  BY DEF Inv, SInv, FInv, TypeOK
<1>. QED  BY <1>1, Invariance, PTL

\* No alert disappears between the counters of the stream or of a forwarder,
\* whatever fails and restarts.
THEOREM NothingUncounted == Spec => []Accounted
<1>1. Inv => Accounted
  BY DEF Inv, SInv, FInv, Accounted, StreamAccounted, ForwarderAccounted
<1>. QED  BY <1>1, Invariance, PTL

\* Alerts stand in the topic in the order they were raised, and there are no
\* more repetitions than faults, although every request of a produce() that is
\* taken for lost may have been stored.
THEOREM TopicInOrder == Spec => []LoggedInOrder
<1>1. Inv => LoggedInOrder
  <2>. SUFFICES ASSUME Inv PROVE LoggedInOrder
    OBVIOUS
  <2>1. DOMAIN log = 1 .. Len(log) /\ Cardinality(Repeats) \in Nat /\ faults \in Nat
    BY Places, RepeatsFinite DEF Inv, LogTypeOK
  <2>2. Cardinality(Repeats) <= faults
    BY <2>1 DEF Inv, SInv, Paid
  <2>. QED  BY <2>1, <2>2 DEF Inv, SInv, TopicOrder, LoggedInOrder
<1>. QED  BY <1>1, Invariance, PTL

\* A forwarder that adds record counts to an offset passes no readable record
\* that it has not handled.
THEOREM ForwarderSkipsNothing == Spec => []NothingSkipped
<1>1. Inv => NothingSkipped
  BY DEF Inv, FInv
<1>. QED  BY <1>1, Invariance, PTL

-----------------------------------------------------------------------------
(***************************************************************************)
(* Both hops of an alert implement the lossy channel.  What is pending is  *)
(* what the worker holds, then what is queued; every step of the detailed  *)
(* specification puts an item in, tries the head again, settles the head,  *)
(* loses everything, or leaves the channel alone.                          *)
(***************************************************************************)

(***************************************************************************)
(* A hand of at most one item before a queue.                              *)
(***************************************************************************)
\* What is queued is the last of all that is pending.
LEMMA PendingAppend ==
  ASSUME NEW S, NEW c \in Seq(S), NEW q \in Seq(S), NEW a \in S
  PROVE  c \o Append(q, a) = Append(c \o q, a)
<1>1. <<a>> \in Seq(S) /\ Append(q, a) = q \o <<a>>
  BY AppendIsConcat
<1>2. c \o q \in Seq(S)
  BY ConcatProperties
<1>3. Append(c \o q, a) = (c \o q) \o <<a>>
  BY <1>2, AppendIsConcat
<1>4. (c \o q) \o <<a>> = c \o (q \o <<a>>)
  BY <1>1, ConcatAssociative
<1>. QED  BY <1>1, <1>3, <1>4

\* Taking the head of the queue into the hand changes nothing.
LEMMA PendingTake ==
  ASSUME NEW S, NEW q \in Seq(S), q # <<>>  PROVE <<Head(q)>> \o Tail(q) = q
<1>1. Len(q) \in Nat /\ Len(q) >= 1
  BY NotEmpty
<1>2. SubSeq(q, 1, Len(q)) = <<q[1]>> \o SubSeq(q, 2, Len(q))
  <2>1. 1 \in 1 .. Len(q) /\ Len(q) \in 1 .. Len(q) /\ 1 + 1 = 2
    BY <1>1
  <2>. QED  BY <2>1, SubSeqRecursiveFirst
<1>3. SubSeq(q, 1, Len(q)) = q /\ Tail(q) = SubSeq(q, 2, Len(q))
  BY SubSeqFull, TailIsSubSeq
<1>4. Head(q) = q[1]
  BY <1>1
<1>. QED  BY <1>2, <1>3, <1>4

\* What the hand holds is the head of all that is pending.
LEMMA PendingDrop ==
  ASSUME NEW S, NEW c \in Seq(S), NEW q \in Seq(S), Len(c) = 1
  PROVE  c \o q # <<>> /\ Head(c \o q) = c[1] /\ Tail(c \o q) = q
<1>. DEFINE p == c \o q
<1>1. /\ p \in Seq(S) /\ Len(p) = 1 + Len(q) /\ Len(q) \in Nat
      /\ \A i \in 1 .. 1 + Len(q) : p[i] = IF i <= 1 THEN c[i] ELSE q[i - 1]
  <2>1. /\ c \o q \in Seq(S) /\ Len(c \o q) = Len(c) + Len(q)
        /\ \A i \in 1 .. Len(c) + Len(q) :
             (c \o q)[i] = IF i <= Len(c) THEN c[i] ELSE q[i - Len(c)]
    BY ConcatProperties
  <2>2. Len(q) \in Nat
    OBVIOUS
  <2>. QED  BY <2>1, <2>2, Zenon
<1>. HIDE DEF p
<1>2. p # <<>>
  BY <1>1, Empty
<1>3. p[1] = c[1]
  BY <1>1
<1>4. Head(p) = p[1]
  BY <1>1
<1>5. /\ Tail(p) \in Seq(S) /\ Len(Tail(p)) = Len(p) - 1
      /\ \A i \in 1 .. Len(Tail(p)) : Tail(p)[i] = p[i + 1]
  BY <1>1, <1>2, HeadTailProperties
<1>6. Len(Tail(p)) = Len(q)
  BY <1>1, <1>5
<1>7. ASSUME NEW i \in 1 .. Len(Tail(p)) PROVE Tail(p)[i] = q[i]
  <2>1. i + 1 \in 1 .. 1 + Len(q) /\ ~ (i + 1 <= 1) /\ i + 1 - 1 = i
    BY <1>1, <1>6
  <2>2. p[i + 1] = q[i]
    BY <1>1, <2>1
  <2>. QED  BY <1>5, <2>2
<1>8. Tail(p) = q
  BY <1>5, <1>6, <1>7, SeqEqual
<1>. QED  BY <1>2, <1>3, <1>4, <1>8 DEF p

\* Encoding keeps a queue's length and order.
LEMMA EncodedIs ==
  ASSUME NEW q \in Seq(Alert)
  PROVE  /\ Encoded(q) \in Seq(AlertRecord) /\ Len(Encoded(q)) = Len(q) /\ Len(q) \in Nat
         /\ \A i \in 1 .. Len(q) : Encoded(q)[i] = EncodeAlert(q[i])
<1>1. \A a \in Alert : EncodeAlert(a) \in AlertRecord
  BY DEF Alert, EncodeAlert, AlertRecord
<1>2. \A i \in 1 .. Len(q) : q[i] \in Alert
  OBVIOUS
<1>3. Encoded(q) \in [1 .. Len(q) -> AlertRecord]
  BY <1>1, <1>2 DEF Encoded
<1>4. Len(q) \in Nat
  OBVIOUS
<1>5. Encoded(q) \in Seq(AlertRecord) /\ Len(Encoded(q)) = Len(q)
  BY <1>3, <1>4
<1>. QED  BY <1>4, <1>5 DEF Encoded

\* Encoding a longer queue appends one record.
LEMMA EncodedAppend ==
  ASSUME NEW q \in Seq(Alert), NEW a \in Alert
  PROVE  /\ EncodeAlert(a) \in AlertRecord
         /\ Encoded(Append(q, a)) = Append(Encoded(q), EncodeAlert(a))
<1>. DEFINE e == EncodeAlert(a)  s == Encoded(Append(q, a))  t == Append(Encoded(q), e)
<1>1. e \in AlertRecord
  BY DEF Alert, EncodeAlert, AlertRecord
<1>2. /\ Append(q, a) \in Seq(Alert) /\ Len(Append(q, a)) = Len(q) + 1
      /\ \A i \in 1 .. Len(q) : Append(q, a)[i] = q[i]
      /\ Append(q, a)[Len(q) + 1] = a
  BY AppendProperties
<1>3. /\ s \in Seq(AlertRecord) /\ Len(s) = Len(q) + 1 /\ Len(q) \in Nat
      /\ \A i \in 1 .. Len(q) + 1 : s[i] = EncodeAlert(Append(q, a)[i])
  BY <1>2, EncodedIs
<1>4. /\ Encoded(q) \in Seq(AlertRecord) /\ Len(Encoded(q)) = Len(q)
      /\ \A i \in 1 .. Len(q) : Encoded(q)[i] = EncodeAlert(q[i])
  BY EncodedIs
<1>. HIDE DEF e
<1>5. /\ t \in Seq(AlertRecord) /\ Len(t) = Len(q) + 1
      /\ \A i \in 1 .. Len(q) : t[i] = Encoded(q)[i]
      /\ t[Len(q) + 1] = e
  BY <1>1, <1>4, AppendProperties
<1>6. ASSUME NEW i \in 1 .. Len(q) + 1 PROVE s[i] = t[i]
  <2>1. i \in 1 .. Len(q) \/ i = Len(q) + 1
    BY <1>3
  <2>2. CASE i \in 1 .. Len(q)
    <3>. HIDE DEF s, t
    <3>. QED  BY <1>2, <1>3, <1>4, <1>5, <2>2
  <2>3. CASE i = Len(q) + 1
    <3>1. s[i] = EncodeAlert(a)
      <4>. HIDE DEF s
      <4>. QED  BY <1>2, <1>3, <2>3
    <3>2. t[i] = EncodeAlert(a)
      <4>. HIDE DEF t
      <4>. QED  BY <1>5, <2>3 DEF e
    <3>. QED  BY <3>1, <3>2
  <2>. QED  BY <2>1, <2>2, <2>3
<1>. HIDE DEF s, t
<1>7. s = t
  BY <1>3, <1>5, <1>6, SeqEqual
<1>. QED  BY <1>1, <1>7 DEF s, t, e

\* Encoding what is left after the head is what is left of the encoding.
LEMMA EncodedTail ==
  ASSUME NEW q \in Seq(Alert), q # <<>>
  PROVE  /\ Encoded(q) # <<>> /\ Head(Encoded(q)) = EncodeAlert(Head(q))
         /\ Encoded(Tail(q)) = Tail(Encoded(q))
<1>1. Len(q) \in Nat /\ Len(q) >= 1 /\ Head(q) = q[1]
  BY NotEmpty
<1>2. /\ Tail(q) \in Seq(Alert) /\ Len(Tail(q)) = Len(q) - 1
      /\ \A i \in 1 .. Len(q) - 1 : Tail(q)[i] = q[i + 1]
  BY HeadTailProperties
<1>. DEFINE p == Encoded(q)  r == Encoded(Tail(q))
<1>3. /\ p \in Seq(AlertRecord) /\ Len(p) = Len(q)
      /\ \A i \in 1 .. Len(q) : p[i] = EncodeAlert(q[i])
  BY EncodedIs
<1>4. /\ r \in Seq(AlertRecord) /\ Len(r) = Len(q) - 1
      /\ \A i \in 1 .. Len(q) - 1 : r[i] = EncodeAlert(Tail(q)[i])
  BY <1>2, EncodedIs
<1>. HIDE DEF p, r
<1>5. p # <<>> /\ Head(p) = p[1]
  <2>1. p # <<>>
    BY <1>1, <1>3, Empty
  <2>. QED  BY <1>1, <1>3, <2>1
<1>6. /\ Tail(p) \in Seq(AlertRecord) /\ Len(Tail(p)) = Len(q) - 1
      /\ \A i \in 1 .. Len(q) - 1 : Tail(p)[i] = p[i + 1]
  BY <1>3, <1>5, HeadTailProperties
<1>7. ASSUME NEW i \in 1 .. Len(r) PROVE r[i] = Tail(p)[i]
  <2>1. i \in 1 .. Len(q) - 1 /\ i + 1 \in 1 .. Len(q)
    BY <1>1, <1>4
  <2>. QED  BY <1>2, <1>3, <1>4, <1>6, <2>1
<1>8. r = Tail(p)
  BY <1>4, <1>6, <1>7, SeqEqual
<1>9. p[1] = EncodeAlert(Head(q))
  BY <1>1, <1>3
<1>. QED  BY <1>5, <1>8, <1>9 DEF p, r

\* There is nothing to encode in an empty queue.
LEMMA EncodedEmpty == Encoded(<<>>) = <<>>
<1>1. <<>> \in Seq(Alert) /\ Len(<<>>) = 0
  BY Empty
<1>2. Encoded(<<>>) \in Seq(AlertRecord) /\ Len(Encoded(<<>>)) = 0
  BY <1>1, EncodedIs
<1>3. \A s \in Seq(AlertRecord) : s # <<>> => Len(s) \in Nat \ {0}
  BY EmptySeq
<1>. QED  BY <1>2, <1>3

-----------------------------------------------------------------------------
(***************************************************************************)
(* Two facts about the workers that the mapping needs.                     *)
(***************************************************************************)
\* A noop stream has no worker, and attempts are counted for what is in hand.
Modes ==
  /\ smode = "noop" => spc = "recv"
  /\ wpc = "wait" => attempt = 0

\* It holds at the start.
LEMMA ModesInit == Init => Modes
BY DEF Init, StreamInit, ForwarderInit, Modes

\* Every step keeps it.
LEMMA ModesNext == Modes /\ Inv /\ [Next]_vars => Modes'
<1>. SUFFICES ASSUME Modes, Inv, [Next]_vars PROVE Modes'
  OBVIOUS
<1>1. smode' = "noop" => spc' = "recv"
  <2>1. CASE StreamNext
    <3>1. smode' = smode
      BY <2>1 DEF StreamNext, StreamWorker, Raise, CountEnqueued, ProduceRetry,
                  NoopDrain, Recv, ConnectOk, ConnectFail,
                  Wake, Encode, EncodeFail, ProduceOk, ProduceErr, AgentRestart
    <3>2. smode = "noop" => spc' = "recv"
      BY <2>1 DEF StreamNext, StreamWorker, Raise, CountEnqueued, ProduceRetry,
                  NoopDrain, Recv, ConnectOk, ConnectFail,
                  Wake, Encode, EncodeFail, ProduceOk, ProduceErr, AgentRestart, Modes
    <3>. QED  BY <3>1, <3>2
  <2>2. CASE UNCHANGED svars
    BY <2>2 DEF svars, Modes
  <2>. QED  BY <2>1, <2>2 DEF Next, vars
<1>2. wpc' = "wait" => attempt' = 0
  <2>1. CASE ForwarderNext
    <3>1. CASE Post
      BY <3>1 DEF Post, Success, Finish, TryAgain
    <3>2. CASE ~ Post
      BY <2>1, <3>2 DEF ForwarderNext, StartDatadog, StartSplunk, Start, Connect,
           ConsumerFails, Exit, FreshProcess, FetchOutOfRange, DatadogConsumer,
           SplunkConsumer, Fetch, HandleRecord, CountRecord, Advance, DatadogWorker, SplunkWorker,
           WorkerRecv, WorkerWake, Modes
    <3>. QED  BY <3>1, <3>2
  <2>2. CASE UNCHANGED fvars
    BY <2>2 DEF fvars, Modes
  <2>. QED  BY <2>1, <2>2 DEF Next, vars
<1>. QED  BY <1>1, <1>2 DEF Modes

-----------------------------------------------------------------------------
(***************************************************************************)
(* The stream.                                                             *)
(***************************************************************************)
SPending == Encoded(scur \o squeue)

\* The steps of the channel, in terms of the stream.
LEMMA StreamPut ==
  ASSUME NEW x \in AlertRecord, SPending \in Seq(AlertRecord),
         SPending' = Append(SPending, x), log' = log, stries' = stries
  PROVE  StreamChannel!Next
<1>1. SPending' # <<>> /\ SPending'[Len(SPending')] = x
  BY AppendProperties
<1>. QED  BY <1>1 DEF StreamChannel!Next, StreamChannel!Put, SPending

\* The first of what is pending is settled.
LEMMA StreamSettle ==
  ASSUME SPending # <<>>, SPending' = Tail(SPending), stries' = 0,
         stries < MaxFaults + 1, log' = log \/ log' = Append(log, Head(SPending))
  PROVE  StreamChannel!Next
BY DEF StreamChannel!Next, StreamChannel!Settle, StreamChannel!Attempt, SPending

\* Nothing the channel sees has changed.
LEMMA StreamSame ==
  ASSUME SPending' = SPending, log' = log, stries' = stries
  PROVE  UNCHANGED StreamChannel!cvars
BY DEF StreamChannel!cvars, SPending

\* There are no more requests than faults, so another one may be sent.
LEMMA TriesLeft ==
  ASSUME SInv, LogTypeOK
  PROVE  stries < MaxFaults + 1 /\ (Fault => stries + 1 < MaxFaults + 1)
BY LogAssumption DEF SInv, StreamTypeOK, LogTypeOK, Fault

\* What the worker holds is the head of what is pending.
LEMMA HandIsHead ==
  ASSUME SInv, LogTypeOK, spc \in {"connect", "encode", "produce"}
  PROVE  /\ SPending # <<>> /\ Head(SPending) = EncodeAlert(scur[1])
         /\ Encoded(squeue) = Tail(SPending)
<1>1. scur \in Seq(Alert) /\ squeue \in Seq(Alert) /\ Len(scur) = 1
  BY Ids DEF SInv, StreamTypeOK
<1>2. /\ scur \o squeue # <<>> /\ Head(scur \o squeue) = scur[1]
      /\ Tail(scur \o squeue) = squeue
  BY <1>1, PendingDrop
<1>3. scur \o squeue \in Seq(Alert)
  BY <1>1, ConcatProperties
<1>. QED  BY <1>2, <1>3, EncodedTail DEF SPending

\* The worker gives up or publishes what it holds.
LEMMA HandSettles ==
  ASSUME SInv, spc \in {"connect", "encode", "produce"}, scur' = <<>>, squeue' = squeue,
         log' = log \/ log' = Append(log, EncodeAlert(scur[1])), LogTypeOK, stries' = 0
  PROVE  StreamChannel!Next
<1>1. squeue \in Seq(Alert)
  BY DEF SInv, StreamTypeOK
<1>2. scur' \o squeue' = squeue
  BY <1>1, ConcatEmptySeq
<1>3. SPending' = Tail(SPending)
  BY <1>2, HandIsHead DEF SPending
<1>. QED  BY <1>3, HandIsHead, TriesLeft, StreamSettle

\* A request of produce() fails, and another one follows.
LEMMA HandRetries ==
  ASSUME SInv, LogTypeOK, ProduceRetry PROVE StreamChannel!Next
<1>1. /\ spc = "produce" /\ stries' = stries + 1 /\ scur' = scur /\ squeue' = squeue
      /\ log' = log \/ log' = Append(log, EncodeAlert(scur[1]))
  BY DEF ProduceRetry
<1>2. stries + 1 < MaxFaults + 1
  BY TriesLeft DEF ProduceRetry
<1>3. SPending # <<>> /\ Head(SPending) = EncodeAlert(scur[1])
  BY <1>1, HandIsHead
<1>. QED  BY <1>1, <1>2, <1>3
          DEF StreamChannel!Next, StreamChannel!Retry, StreamChannel!Attempt, SPending

\* What each step of the stream is to the channel.
LEMMA StreamSteps ==
  ASSUME SInv, LogTypeOK, Modes, StreamNext
  PROVE  StreamChannel!Next \/ UNCHANGED StreamChannel!cvars
<1>1. scur \in Seq(Alert) /\ squeue \in Seq(Alert)
  BY DEF SInv, StreamTypeOK
<1>2. scur \o squeue \in Seq(Alert) /\ SPending \in Seq(AlertRecord)
  BY <1>1, ConcatProperties, EncodedIs DEF SPending
<1>3. CASE Raise
  <2>. PICK s \in Severities : TryEnqueue([id |-> raised + 1, severity |-> s])
    BY <1>3 DEF Raise
  <2>. DEFINE a == [id |-> raised + 1, severity |-> s]
  <2>1. scur' = scur /\ log' = log /\ stries' = stries
    BY <1>3 DEF Raise
  <2>2. a \in Alert
    BY StreamAssumption DEF SInv, StreamTypeOK, Alert
  <2>3. squeue' = squeue \/ squeue' = Append(squeue, a)
    BY DEF TryEnqueue
  <2>. HIDE DEF a
  <2>4. CASE squeue' = squeue
    BY <2>1, <2>4, StreamSame DEF SPending
  <2>5. CASE squeue' = Append(squeue, a)
    <3>1. scur' \o squeue' = Append(scur \o squeue, a)
      BY <1>1, <2>1, <2>2, <2>5, PendingAppend
    <3>2. /\ EncodeAlert(a) \in AlertRecord
          /\ Encoded(Append(scur \o squeue, a)) = Append(SPending, EncodeAlert(a))
      BY <1>2, <2>2, EncodedAppend DEF SPending
    <3>3. SPending' = Append(SPending, EncodeAlert(a))
      BY <3>1, <3>2 DEF SPending
    <3>. QED  BY <1>2, <2>1, <3>2, <3>3, StreamPut
  <2>. QED  BY <2>3, <2>4, <2>5
<1>4. CASE NoopDrain
  <2>1. /\ squeue # <<>> /\ squeue' = Tail(squeue) /\ scur' = scur /\ log' = log
        /\ stries' = stries
    BY <1>4 DEF NoopDrain
  <2>2. scur = <<>> /\ stries = 0
    BY <1>4 DEF NoopDrain, Modes, SInv, StreamTypeOK
  <2>3. Tail(squeue) \in Seq(Alert)
    BY <1>1, <2>1, HeadTailProperties
  <2>4. scur \o squeue = squeue /\ scur' \o squeue' = Tail(squeue)
    BY <1>1, <2>1, <2>2, <2>3, ConcatEmptySeq
  <2>5. Encoded(squeue) # <<>> /\ Encoded(Tail(squeue)) = Tail(Encoded(squeue))
    BY <1>1, <2>1, EncodedTail
  <2>. QED  BY <2>1, <2>2, <2>4, <2>5, TriesLeft, StreamSettle DEF SPending
<1>5. CASE Recv
  <2>1. /\ squeue # <<>> /\ squeue' = Tail(squeue) /\ scur' = <<Head(squeue)>>
        /\ log' = log /\ stries' = stries /\ spc = "recv"
    BY <1>5 DEF Recv
  <2>2. scur = <<>>
    BY <2>1 DEF SInv, StreamTypeOK
  <2>3. scur \o squeue = squeue
    BY <1>1, <2>2, ConcatEmptySeq
  <2>4. scur' \o squeue' = squeue
    BY <1>1, <2>1, PendingTake
  <2>. QED  BY <2>1, <2>3, <2>4, StreamSame DEF SPending
<1>6. CASE ConnectOk \/ Wake \/ Encode \/ CountEnqueued
  <2>1. scur' = scur /\ squeue' = squeue /\ log' = log /\ stries' = stries
    BY <1>6 DEF ConnectOk, Wake, Encode, CountEnqueued
  <2>. QED  BY <2>1, StreamSame DEF SPending
<1>7. CASE ConnectFail \/ EncodeFail \/ ProduceOk \/ ProduceErr
  <2>1. /\ spc \in {"connect", "encode", "produce"} /\ scur' = <<>> /\ squeue' = squeue
        /\ log' = log \/ log' = Append(log, EncodeAlert(scur[1]))
    BY <1>7 DEF ConnectFail, EncodeFail, ProduceOk, ProduceErr
  <2>2. stries' = 0
    BY <1>7 DEF ConnectFail, EncodeFail, ProduceOk, ProduceErr, SInv, StreamTypeOK
  <2>. QED  BY <2>1, <2>2, HandSettles
<1>8. CASE AgentRestart
  <2>1. squeue' = <<>> /\ scur' = <<>> /\ log' = log /\ stries' = 0
    BY <1>8 DEF AgentRestart
  <2>2. scur' \o squeue' = <<>>
    BY <2>1, ConcatEmptySeq, Empty
  <2>3. SPending' = <<>>
    BY <2>2, EncodedEmpty DEF SPending
  <2>. QED  BY <2>1, <2>3 DEF StreamChannel!Next, StreamChannel!Lose, SPending
<1>9. CASE ProduceRetry
  BY <1>9, HandRetries
<1>. QED  BY <1>3, <1>4, <1>5, <1>6, <1>7, <1>8, <1>9 DEF StreamNext, StreamWorker

\* Every step of the whole is a step of the stream's channel, or none.
LEMMA StreamSimulation ==
  Inv /\ Modes /\ [Next]_vars => [StreamChannel!Next]_(StreamChannel!cvars)
<1>. SUFFICES ASSUME Inv, Modes, [Next]_vars
              PROVE  StreamChannel!Next \/ UNCHANGED StreamChannel!cvars
  OBVIOUS
<1>1. CASE StreamNext
  BY <1>1, StreamSteps DEF Inv
<1>2. CASE UNCHANGED svars /\ log' = log
  BY <1>2, StreamSame DEF svars, SPending
<1>3. CASE ForeignAppend /\ UNCHANGED svars
  <2>. PICK r \in ForeignRecord : log' = Append(log, r)
    BY <1>3 DEF ForeignAppend
  <2>1. log \in Seq(Record) /\ r \in Record
    BY ForeignIsRecord DEF Inv, LogTypeOK
  <2>2. log' # <<>> /\ log'[Len(log')] = r
    BY <2>1, AppendProperties
  <2>3. SPending' = SPending /\ stries' = stries
    BY <1>3 DEF svars, SPending
  <2>. QED  BY <2>2, <2>3 DEF StreamChannel!Next, StreamChannel!Other, SPending
<1>4. CASE ForwarderNext /\ UNCHANGED svars
  BY <1>2, <1>4, ForwarderLog DEF Inv
<1>5. CASE (Retain \/ Compact) /\ UNCHANGED svars
  BY <1>2, <1>5 DEF Retain, Compact
<1>6. CASE UNCHANGED vars
  BY <1>2, <1>6 DEF vars, logvars
<1>. QED  BY <1>1, <1>3, <1>4, <1>5, <1>6 DEF Next

\* The telemetry stream implements the lossy channel to the topic.
THEOREM StreamRefines == Spec => StreamIsLossyChannel
<1>1. Init => StreamChannel!Init
  <2>. SUFFICES ASSUME Init PROVE StreamChannel!Init
    OBVIOUS
  <2>1. scur = <<>> /\ squeue = <<>> /\ log = <<>> /\ stries = 0
    BY DEF Init, StreamInit, LogInit
  <2>2. scur \o squeue = <<>>
    BY <2>1, ConcatEmptySeq, Empty
  <2>. QED  BY <2>1, <2>2, EncodedEmpty DEF StreamChannel!Init
<1>2. Spec => []Modes
  BY ModesInit, ModesNext, Invariance, PTL DEF Spec
<1>. QED  BY <1>1, <1>2, StreamSimulation, Invariance, PTL
          DEF Spec, StreamIsLossyChannel, StreamChannel!Spec

-----------------------------------------------------------------------------
(***************************************************************************)
(* A forwarder.                                                            *)
(***************************************************************************)
FPending == fcur \o fqueue

\* Nothing the channel of the forwarder sees has changed.
LEMMA ForwarderSame ==
  ASSUME FPending' = FPending, attempt' = attempt, intake' = intake
  PROVE  UNCHANGED ForwarderChannel!cvars
BY DEF ForwarderChannel!cvars, FPending

\* An attempt after which the alert in hand is finished with.
LEMMA PostSettles ==
  ASSUME FInv, wpc = "post", fcur' = <<>>, fqueue' = fqueue, attempt' = 0,
         intake' = intake \/ intake' = Append(intake, fcur[1])
  PROVE  ForwarderChannel!Next
<1>1. fcur \in Seq(Nat) /\ fqueue \in Seq(Nat) /\ Len(fcur) = 1
  BY ForwarderNumbers
<1>2. FPending # <<>> /\ Head(FPending) = fcur[1] /\ Tail(FPending) = fqueue
  BY <1>1, PendingDrop DEF FPending
<1>3. FPending' = fqueue
  BY <1>1, ConcatEmptySeq DEF FPending
<1>4. attempt < MAX_ATTEMPTS
  BY DEF FInv, ForwarderTypeOK, MAX_ATTEMPTS
<1>. QED  BY <1>2, <1>3, <1>4
          DEF ForwarderChannel!Next, ForwarderChannel!Settle, ForwarderChannel!Attempt, FPending

\* An attempt after which the alert stays in hand.
LEMMA PostRetries ==
  ASSUME FInv, wpc = "post", fcur' = fcur, fqueue' = fqueue,
         attempt' = attempt + 1, attempt + 1 < MAX_ATTEMPTS,
         intake' = intake \/ intake' = Append(intake, fcur[1])
  PROVE  ForwarderChannel!Next
<1>1. fcur \in Seq(Nat) /\ fqueue \in Seq(Nat) /\ Len(fcur) = 1
  BY ForwarderNumbers
<1>2. FPending # <<>> /\ Head(FPending) = fcur[1]
  BY <1>1, PendingDrop DEF FPending
<1>. QED  BY <1>2
          DEF ForwarderChannel!Next, ForwarderChannel!Retry, ForwarderChannel!Attempt, FPending

\* An attempt settles what is in hand, or tries again.
LEMMA PostSteps ==
  ASSUME FInv, Post PROVE ForwarderChannel!Next
<1>1. wpc = "post" /\ fqueue' = fqueue
  BY DEF Post
<1>2. \/ Success
      \/ Finish("failed") /\ intake' = intake
      \/ TryAgain /\ (intake' = intake \/ intake' = Append(intake, fcur[1]))
  BY DEF Post
<1>3. CASE Success
  BY <1>1, <1>3, PostSettles DEF Success, Finish
<1>4. CASE Finish("failed") /\ intake' = intake
  BY <1>1, <1>4, PostSettles DEF Finish
<1>5. CASE TryAgain /\ (intake' = intake \/ intake' = Append(intake, fcur[1]))
  <2>1. CASE attempt + 1 >= MAX_ATTEMPTS
    BY <1>1, <1>5, <2>1, PostSettles DEF TryAgain, Finish
  <2>2. CASE ~ (attempt + 1 >= MAX_ATTEMPTS)
    <3>1. attempt' = attempt + 1 /\ fcur' = fcur
      BY <1>5, <2>2 DEF TryAgain
    <3>2. attempt + 1 < MAX_ATTEMPTS
      BY <2>2 DEF FInv, ForwarderTypeOK, MAX_ATTEMPTS
    <3>. QED  BY <1>1, <1>5, <3>1, <3>2, PostRetries
  <2>. QED  BY <2>1, <2>2
<1>. QED  BY <1>2, <1>3, <1>4, <1>5

\* What each step of a forwarder is to its channel.
LEMMA ForwarderSteps ==
  ASSUME FInv, Modes, ForwarderNext
  PROVE  ForwarderChannel!Next \/ UNCHANGED ForwarderChannel!cvars
<1>1. fcur \in Seq(Nat) /\ fqueue \in Seq(Nat) /\ FPending \in Seq(Nat)
  BY ForwarderNumbers, ConcatProperties DEF FPending
<1>2. CASE Start \/ Connect \/ Fetch \/ CountRecord \/ Advance \/ WorkerWake
  <2>1. UNCHANGED <<fcur, fqueue, attempt, intake>>
    BY <1>2 DEF Start, Connect, Fetch, CountRecord, Advance, WorkerWake
  <2>. QED  BY <2>1, ForwarderSame DEF FPending
<1>3. CASE Exit
  <2>1. fcur' = <<>> /\ fqueue' = <<>> /\ attempt' = 0 /\ intake' = intake
    BY <1>3 DEF Exit, FreshProcess
  <2>2. FPending' = <<>>
    BY <2>1, ConcatEmptySeq, Empty DEF FPending
  <2>. QED  BY <2>1, <2>2 DEF ForwarderChannel!Next, ForwarderChannel!Lose, FPending
<1>4. CASE HandleRecord
  <2>. DEFINE o == batch[pos + 1]
  <2>1. UNCHANGED <<fcur, attempt, intake>> /\ pos < Len(batch)
    BY <1>4 DEF HandleRecord
  <2>2. fqueue' = fqueue \/ fqueue' = Append(fqueue, o)
    BY <1>4 DEF HandleRecord
  <2>3. o \in Nat
    <3>1. batch \in Seq(Nat) /\ pos \in 0 .. Len(batch) /\ Len(batch) \in Nat
      BY DEF FInv, ForwarderTypeOK
    <3>2. pos + 1 \in 1 .. Len(batch)
      BY <2>1, <3>1
    <3>. QED  BY <3>1, <3>2, ElementOfSeq
  <2>. HIDE DEF o
  <2>4. CASE fqueue' = fqueue
    BY <2>1, <2>4, ForwarderSame DEF FPending
  <2>5. CASE fqueue' = Append(fqueue, o)
    <3>1. FPending' = Append(FPending, o)
      BY <1>1, <2>1, <2>3, <2>5, PendingAppend DEF FPending
    <3>2. FPending' # <<>> /\ FPending'[Len(FPending')] = o
      <4>1. ASSUME NEW p \in Seq(Nat)
            PROVE  Append(p, o) # <<>> /\ Append(p, o)[Len(Append(p, o))] = o
        BY <2>3, AppendProperties
      <4>. QED  BY <1>1, <3>1, <4>1
    <3>. QED  BY <2>1, <2>3, <3>1, <3>2
              DEF ForwarderChannel!Next, ForwarderChannel!Put, FPending
  <2>. QED  BY <2>2, <2>4, <2>5
<1>5. CASE WorkerRecv
  <2>1. /\ wpc = "wait" /\ fqueue # <<>> /\ fcur' = <<Head(fqueue)>>
        /\ fqueue' = Tail(fqueue) /\ attempt' = 0 /\ intake' = intake
    BY <1>5 DEF WorkerRecv
  <2>2. attempt = 0
    BY <2>1 DEF Modes
  <2>3. fcur = <<>>
    BY <2>1 DEF FInv, ForwarderTypeOK
  <2>4. FPending = fqueue
    BY <1>1, <2>3, ConcatEmptySeq DEF FPending
  <2>5. FPending' = fqueue
    BY <1>1, <2>1, PendingTake DEF FPending
  <2>. QED  BY <2>1, <2>2, <2>4, <2>5, ForwarderSame
<1>6. CASE Post
  BY <1>6, PostSteps
<1>. QED  BY <1>2, <1>3, <1>4, <1>5, <1>6
          DEF ForwarderNext, StartDatadog, StartSplunk, ConsumerFails, FetchOutOfRange,
              DatadogConsumer, SplunkConsumer, DatadogWorker, SplunkWorker

\* Every step of the whole is a step of the forwarder's channel, or none.
LEMMA ForwarderSimulation ==
  Inv /\ Modes /\ [Next]_vars => [ForwarderChannel!Next]_(ForwarderChannel!cvars)
<1>. SUFFICES ASSUME Inv, Modes, [Next]_vars
              PROVE  ForwarderChannel!Next \/ UNCHANGED ForwarderChannel!cvars
  OBVIOUS
<1>1. CASE ForwarderNext
  BY <1>1, ForwarderSteps DEF Inv
<1>2. CASE UNCHANGED fvars
  BY <1>2, ForwarderSame DEF fvars, FPending
<1>. QED  BY <1>1, <1>2 DEF Next, vars

\* A forwarder implements the lossy channel to the SIEM, with MAX_ATTEMPTS tries.
THEOREM ForwarderRefines == Spec => ForwarderIsLossyChannel
<1>1. Init => ForwarderChannel!Init
  <2>. SUFFICES ASSUME Init PROVE ForwarderChannel!Init
    OBVIOUS
  <2>1. fcur = <<>> /\ fqueue = <<>> /\ intake = <<>> /\ attempt = 0
    BY DEF Init, ForwarderInit
  <2>2. fcur \o fqueue = <<>>
    BY <2>1, ConcatEmptySeq, Empty
  <2>. QED  BY <2>1, <2>2 DEF ForwarderChannel!Init
<1>2. Spec => []Modes
  BY ModesInit, ModesNext, Invariance, PTL DEF Spec
<1>. QED  BY <1>1, <1>2, ForwarderSimulation, Invariance, PTL
          DEF Spec, ForwarderIsLossyChannel, ForwarderChannel!Spec

\* Both hops lose and repeat alerts, but neither reorders them: an alert is put
\* out only while it is the oldest, at most MAX_ATTEMPTS times by a forwarder and
\* at most once more than there are faults by the stream.
THEOREM HopsRefine == Spec => HopsAreLossyChannels
BY StreamRefines, ForwarderRefines, PTL DEF HopsAreLossyChannels
=============================================================================
