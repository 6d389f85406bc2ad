------------------------ MODULE AgentRuntime_proofs ------------------------
(***************************************************************************)
(* Proofs about one life of an agent, for rings, channels, thresholds and  *)
(* plans of any size.                                                      *)
(***************************************************************************)
EXTENDS AgentRuntime, SequenceTheorems, FiniteSetTheorems, TLAPS

-----------------------------------------------------------------------------
(***************************************************************************)
(* Ring buffers.                                                           *)
(***************************************************************************)
RingShape(Item) ==
  [q : Seq(Item), ready : BOOLEAN, fresh : BOOLEAN, drain : BOOLEAN, drained : BOOLEAN]

\* A commit appends, and wakes the poller of an empty ring.
LEMMA RingCommit ==
  ASSUME NEW Item, NEW r \in RingShape(Item), NEW x \in Item
  PROVE  /\ Commit(r, x) \in RingShape(Item) /\ Commit(r, x).q = Append(r.q, x)
         /\ Commit(r, x).drain = r.drain /\ (r.ready => Commit(r, x).ready)
         /\ Wakeful(r) => Wakeful(Commit(r, x))
<1>1. Append(r.q, x) \in Seq(Item)
  BY DEF RingShape
<1>2. (r.ready \/ r.q = <<>>) \in BOOLEAN /\ (r.fresh \/ r.q = <<>>) \in BOOLEAN
  OBVIOUS
<1>. QED  BY <1>1, <1>2 DEF RingShape, Commit, Wakeful

\* A drain begins with the ring as it is and the descriptor ready.
LEMMA RingEnter ==
  ASSUME NEW Item, NEW r \in RingShape(Item), CanEnter(r)
  PROVE  /\ Enter(r) \in RingShape(Item) /\ Enter(r).q = r.q
         /\ Enter(r).drain /\ Enter(r).ready /\ Wakeful(Enter(r))
BY DEF RingShape, CanEnter, Enter, Wakeful

\* A drain takes the first record.
LEMMA RingConsume ==
  ASSUME NEW Item, NEW r \in RingShape(Item), r.q # <<>>
  PROVE  /\ Consume(r) \in RingShape(Item) /\ Consume(r).q = Tail(r.q)
         /\ Consume(r).drain = r.drain /\ Consume(r).ready = r.ready
         /\ Head(r.q) \in Item
<1>1. r.q \in Seq(Item)
  BY DEF RingShape
<1>2. Tail(r.q) \in Seq(Item) /\ Head(r.q) \in Item
  BY <1>1, HeadTailProperties
<1>3. (r.drained \/ Head(r.q) # Discarded) \in BOOLEAN
  OBVIOUS
<1>. QED  BY <1>2, <1>3 DEF RingShape, Consume

\* A drain that ends keeps the records.
LEMMA RingLeave ==
  ASSUME NEW Item, NEW r \in RingShape(Item)
  PROVE  /\ Leave(r) \in RingShape(Item) /\ Leave(r).q = r.q /\ ~ Leave(r).drain
         /\ Abandon(r) \in RingShape(Item) /\ Abandon(r).q = r.q /\ ~ Abandon(r).drain
         /\ Abandon(r).ready = r.ready
BY DEF RingShape, Leave, Abandon, ringbuf_drain_outcome

-----------------------------------------------------------------------------
(***************************************************************************)
(* The pressure counter of the ingestion channel.                          *)
(***************************************************************************)
\* The publisher has taken an event and not yet counted it.
Taken == IF pub = "count" THEN 1 ELSE 0

\* The counter is the length of the channel with what the publisher has in
\* hand, but for an event that is sent and not yet counted.  In that moment it
\* may be one below zero, which wraps.
Counter ==
  /\ queued \in 0 .. UsizeModulus - 1
  /\ netCh \in Seq(Task) /\ Len(netCh) <= ChannelCapacity
  /\ pub \in {"noop", "new", "recv", "count", "send", "sleep", "gone"}
  /\ offer \in [at : {"idle", "check", "send", "count"}, event : Task \cup {0}]
  /\ offer.at # "idle" => offer.event \in Task
  /\ netRing \in RingShape([pid : Task])
  /\ pub # "gone" =>
       /\ offer.at # "count" => queued = Len(netCh) + Taken
       /\ offer.at = "count" =>
            \/ queued + 1 = Len(netCh) + Taken
            \/ Len(netCh) + Taken = 0 /\ queued = UsizeModulus - 1

\* Counting modulo the word size.
LEMMA Wrap ==
  ASSUME NEW x \in 0 .. UsizeModulus - 1
  PROVE  /\ (x + 1) % UsizeModulus = IF x = UsizeModulus - 1 THEN 0 ELSE x + 1
         /\ (x + UsizeModulus - 1) % UsizeModulus = IF x = 0 THEN UsizeModulus - 1 ELSE x - 1
<1>1. UsizeModulus \in Nat /\ UsizeModulus > 1
  BY IngestionAssumption
<1>2. \A m \in Nat : \A y \in 0 .. m - 1 : y % m = y
  OBVIOUS
<1>3. \A m \in Nat : \A y \in 0 .. m - 1 : (y + m) % m = y
  OBVIOUS
<1>4. (x + 1) % UsizeModulus = IF x = UsizeModulus - 1 THEN 0 ELSE x + 1
  <2>1. CASE x = UsizeModulus - 1
    <3>1. x + 1 = 0 + UsizeModulus /\ 0 \in 0 .. UsizeModulus - 1
      BY <1>1, <2>1
    <3>. QED  BY <1>1, <1>3, <2>1, <3>1
  <2>2. CASE x # UsizeModulus - 1
    <3>1. x + 1 \in 0 .. UsizeModulus - 1
      BY <1>1, <2>2
    <3>. QED  BY <1>1, <1>2, <2>2, <3>1
  <2>. QED  BY <2>1, <2>2
<1>5. (x + UsizeModulus - 1) % UsizeModulus = IF x = 0 THEN UsizeModulus - 1 ELSE x - 1
  <2>1. CASE x = 0
    <3>1. x + UsizeModulus - 1 = UsizeModulus - 1 /\ UsizeModulus - 1 \in 0 .. UsizeModulus - 1
      BY <1>1, <2>1
    <3>. QED  BY <1>1, <1>2, <2>1, <3>1
  <2>2. CASE x # 0
    <3>1. x + UsizeModulus - 1 = (x - 1) + UsizeModulus /\ x - 1 \in 0 .. UsizeModulus - 1
      BY <1>1, <2>2
    <3>. QED  BY <1>1, <1>3, <2>2, <3>1
  <2>. QED  BY <2>1, <2>2
<1>. QED  BY <1>4, <1>5

\* It holds when the agent starts.
LEMMA CounterInit == Init => Counter
<1>. SUFFICES ASSUME Init PROVE Counter
  OBVIOUS
<1>1. <<>> \in Seq(Task) /\ <<>> \in Seq([pid : Task]) /\ Len(<<>>) = 0
  BY EmptySeq
<1>2. netRing = EmptyRing /\ offer = NoOffer /\ netCh = <<>> /\ queued = 0
  BY DEF Init, NetInit
<1>3. pub \in {"noop", "new"}
  BY DEF Init, NetInit
<1>4. Taken = 0 /\ offer.at = "idle"
  BY <1>2, <1>3 DEF Taken, NoOffer
<1>5. /\ queued \in 0 .. UsizeModulus - 1 /\ Len(netCh) <= ChannelCapacity
      /\ queued = Len(netCh) + Taken
  BY <1>1, <1>2, <1>4, IngestionAssumption
<1>6. offer \in [at : {"idle", "check", "send", "count"}, event : Task \cup {0}]
  BY <1>2 DEF NoOffer
<1>7. netRing \in RingShape([pid : Task])
  BY <1>1, <1>2 DEF EmptyRing, RingShape
<1>. QED  BY <1>1, <1>2, <1>3, <1>4, <1>5, <1>6, <1>7 DEF Counter

\* What NetSteps does not concern is left alone, or the process ends.
LEMMA NetUntouched ==
  ASSUME Next, ~ NetSteps
  PROVE  UNCHANGED netvars \/ NetEnd
<1>. QED
  BY DEF Next, Attest, ArmVisibility, ArmVisibilityFails, LoopFails, LoopEnd, IntegrityTick,
         LivenessProbe, NetExit, End

\* Every step keeps the counter.
LEMMA CounterStep == Counter /\ [Next]_vars => Counter'
<1>. SUFFICES ASSUME Counter, [Next]_vars PROVE Counter'
  OBVIOUS
<1>. USE IngestionAssumption
<1>0. /\ UsizeModulus \in Nat /\ UsizeModulus > ChannelCapacity + 1 /\ ChannelCapacity \in Nat
      /\ Len(netCh) \in Nat /\ queued \in Nat
  BY DEF Counter
<1>a. CASE UNCHANGED netvars
  BY <1>a DEF Counter, Taken, netvars
<1>b. CASE NetEnd
  <2>1. netRing' \in RingShape([pid : Task])
    BY <1>b DEF Counter, NetEnd, RingShape
  <2>2. <<>> \in Seq(Task) /\ Len(<<>>) = 0
    BY EmptySeq
  <2>. QED  BY <1>0, <1>b, <2>1, <2>2 DEF Counter, NetEnd, NoOffer
<1>1. ASSUME NEW t \in Task, TcpConnect(t) PROVE Counter'
  <2>1. [pid |-> t] \in [pid : Task]
    BY <1>1
  <2>. QED  BY <1>1, <2>1, RingCommit DEF Counter, Taken, TcpConnect
<1>2. CASE NetEnter
  BY <1>2, RingEnter DEF Counter, Taken, NetEnter
<1>3. CASE NetNext
  <2>1. /\ Consume(netRing) \in RingShape([pid : Task])
        /\ Head(netRing.q).pid \in Task
    <3>1. netRing \in RingShape([pid : Task]) /\ netRing.q # <<>>
      BY <1>3 DEF Counter, NetNext
    <3>2. Consume(netRing) \in RingShape([pid : Task]) /\ Head(netRing.q) \in [pid : Task]
      BY <3>1, RingConsume
    <3>. QED  BY <3>2
  <2>. QED  BY <1>3, <2>1 DEF Counter, Taken, NetNext, NoOffer
<1>4. CASE NetLeave
  BY <1>4, RingLeave DEF Counter, Taken, NetLeave
<1>5. CASE CheckPressure
  BY <1>5 DEF Counter, Taken, CheckPressure, NoOffer
<1>6. CASE TrySend
  <2>1. CASE pub # "gone" /\ Len(netCh) < ChannelCapacity
    <3>1. netCh' = Append(netCh, offer.event) /\ offer' = [offer EXCEPT !.at = "count"]
      BY <1>6, <2>1 DEF TrySend
    <3>2. netCh' \in Seq(Task) /\ Len(netCh') = Len(netCh) + 1
      BY <1>6, <3>1 DEF Counter, TrySend
    <3>3. queued + 1 = Len(netCh') + Taken'
      BY <1>0, <1>6, <2>1, <3>2 DEF Counter, Taken, TrySend
    <3>. QED  BY <1>0, <1>6, <2>1, <3>1, <3>2, <3>3 DEF Counter, Taken, TrySend
  <2>2. CASE ~ (pub # "gone" /\ Len(netCh) < ChannelCapacity)
    BY <1>6, <2>2 DEF Counter, Taken, TrySend, NoOffer
  <2>. QED  BY <2>1, <2>2
<1>7. CASE RecordEnqueued
  <2>1. queued' = IF queued = UsizeModulus - 1 THEN 0 ELSE queued + 1
    BY <1>7, Wrap DEF Counter, RecordEnqueued
  <2>2. pub # "gone" => queued' = Len(netCh) + Taken
    BY <1>0, <1>7, <2>1 DEF Counter, Taken, RecordEnqueued
  <2>3. queued' \in 0 .. UsizeModulus - 1
    BY <1>0, <2>1 DEF Counter
  <2>. QED  BY <1>7, <2>2, <2>3 DEF Counter, Taken, RecordEnqueued, NoOffer
<1>8. CASE NewProducer
  <2>1. <<>> \in Seq(Task) /\ Len(<<>>) = 0
    BY EmptySeq
  <2>2. CASE pub' = "recv" /\ netCh' = netCh
    BY <1>8, <2>2 DEF Counter, Taken, NewProducer
  <2>3. CASE pub' = "gone" /\ netCh' = <<>>
    BY <1>0, <1>8, <2>1, <2>3 DEF Counter, NewProducer
  <2>. QED  BY <1>8, <2>2, <2>3 DEF NewProducer
<1>9. CASE PubRecv
  <2>1. netCh' \in Seq(Task) /\ Len(netCh') = Len(netCh) - 1 /\ Len(netCh) > 0
    BY <1>9 DEF Counter, PubRecv
  <2>3. Taken = 0 /\ Taken' = 1
    BY <1>9 DEF Taken, PubRecv
  <2>2. Len(netCh') + Taken' = Len(netCh) + Taken
    BY <1>0, <2>1, <2>3
  <2>. QED  BY <1>0, <1>9, <2>1, <2>2 DEF Counter, PubRecv
<1>10. CASE DecrementQueued
  <2>1. queued' = IF queued = 0 THEN UsizeModulus - 1 ELSE queued - 1
    BY <1>10, Wrap DEF Counter, DecrementQueued
  <2>2. pub' \in {"send", "noop"} /\ Taken = 1 /\ Taken' = 0
    BY <1>10 DEF DecrementQueued, Taken
  <2>3. queued' \in 0 .. UsizeModulus - 1
    BY <1>0, <2>1 DEF Counter
  <2>4. CASE offer.at = "count"
    BY <1>0, <1>10, <2>1, <2>2, <2>3, <2>4 DEF Counter, DecrementQueued
  <2>5. CASE offer.at # "count"
    BY <1>0, <1>10, <2>1, <2>2, <2>3, <2>5 DEF Counter, DecrementQueued
  <2>. QED  BY <2>4, <2>5
<1>11. CASE Publish
  BY <1>11 DEF Counter, Taken, Publish
<1>12. CASE PubWake
  BY <1>12 DEF Counter, Taken, PubWake
<1>13. CASE NetSteps
  BY <1>13, <1>1, <1>2, <1>3, <1>4, <1>5, <1>6, <1>7, <1>8, <1>9, <1>10, <1>11, <1>12 DEF NetSteps
<1>14. CASE Next /\ ~ NetSteps
  BY <1>14, NetUntouched, <1>a, <1>b
<1>15. CASE UNCHANGED vars
  BY <1>15, <1>a DEF vars, netvars
<1>. QED  BY <1>13, <1>14, <1>15

\* What the counter says is what the channel holds, whenever nobody is between
\* sending an event and counting it (channel.rs).
THEOREM CounterInvariant == Spec => []Counter
BY CounterInit, CounterStep, PTL DEF Spec

\* A connection that the drop policy refuses met a channel as full as the
\* threshold says (channel.rs), for every capacity, threshold and word size.
THEOREM PressureDropsReal == Spec => PressureDropsAreReal
<1>1. ASSUME Counter, [Next]_vars
      PROVE  [offer.at = "check" /\ offer'.at = "idle" /\ loop' # "end"
                => Len(netCh) + (IF pub = "count" THEN 1 ELSE 0) >= DropThreshold
                     \/ pub = "gone"]_vars
  <2>. SUFFICES ASSUME Next, offer.at = "check", offer'.at = "idle", loop' # "end", pub # "gone"
                PROVE  Len(netCh) + (IF pub = "count" THEN 1 ELSE 0) >= DropThreshold
    BY <1>1
  <2>1. queued = Len(netCh) + (IF pub = "count" THEN 1 ELSE 0)
    BY <1>1 DEF Counter, Taken
  <2>2. CASE CheckPressure
    <3>1. CASE queued >= DropThreshold
      BY <2>1, <3>1
    <3>2. CASE ~ (queued >= DropThreshold)
      BY <1>1, <2>2, <3>2 DEF CheckPressure, Counter
    <3>. QED  BY <3>1, <3>2
  <2>3. CASE ~ NetSteps
    <3>1. CASE UNCHANGED netvars
      BY <3>1 DEF netvars
    <3>2. CASE NetEnd
      <4>1. loop' = "end" \/ UNCHANGED netvars
        BY <2>3 DEF Next, Attest, ArmVisibility, ArmVisibilityFails, LoopFails, LoopEnd,
                    IntegrityTick, LivenessProbe, NetExit, End, ExecEnd
      <4>. QED  BY <4>1, <3>1
    <3>. QED  BY <2>3, <3>1, <3>2, NetUntouched
  <2>4. CASE NetSteps /\ ~ CheckPressure
    BY <2>4 DEF NetSteps, TcpConnect, NetEnter, NetNext, NetLeave, TrySend, RecordEnqueued,
                NewProducer, PubRecv, DecrementQueued, Publish, PubWake
  <2>. QED  BY <2>2, <2>3, <2>4
<1>. QED  BY <1>1, CounterInvariant, PTL DEF Spec, PressureDropsAreReal

-----------------------------------------------------------------------------
(***************************************************************************)
(* The records of the tracepoint.                                          *)
(***************************************************************************)
\* The records of a ring that were not discarded.
Live(q) == {i \in DOMAIN q : q[i] # Discarded}

\* There are finitely many of them.
LEMMA LiveFinite ==
  ASSUME NEW Item, NEW q \in Seq(Item)
  PROVE  IsFiniteSet(Live(q)) /\ Cardinality(Live(q)) \in Nat
<1>1. IsFiniteSet(1 .. Len(q)) /\ Live(q) \in SUBSET (1 .. Len(q))
  BY FS_Interval DEF Live
<1>2. IsFiniteSet(Live(q))
  BY <1>1, FS_Subset
<1>. QED  BY <1>2, FS_CardinalityType

\* In a ring without discarded records all are live.
LEMMA LiveAll ==
  ASSUME NEW Item, NEW q \in Seq(Item), \A i \in DOMAIN q : q[i] # Discarded
  PROVE  Cardinality(Live(q)) = Len(q)
<1>1. Live(q) = 1 .. Len(q) /\ Len(q) \in Nat
  BY DEF Live
<1>2. Cardinality(1 .. Len(q)) = IF 1 > Len(q) THEN 0 ELSE Len(q) - 1 + 1
  BY <1>1, FS_Interval
<1>. QED  BY <1>1, <1>2

\* A new record is live unless it is discarded.
LEMMA LiveAppend ==
  ASSUME NEW Item, NEW q \in Seq(Item), NEW x \in Item
  PROVE  Cardinality(Live(Append(q, x)))
           = IF x = Discarded THEN Cardinality(Live(q)) ELSE Cardinality(Live(q)) + 1
<1>1. /\ DOMAIN Append(q, x) = 1 .. Len(q) + 1 /\ Len(q) \in Nat /\ DOMAIN q = 1 .. Len(q)
      /\ \A i \in 1 .. Len(q) : Append(q, x)[i] = q[i]
      /\ Append(q, x)[Len(q) + 1] = x
  OBVIOUS
<1>2. CASE x = Discarded
  <2>1. Live(Append(q, x)) = Live(q)
    BY <1>1, <1>2 DEF Live
  <2>. QED  BY <1>2, <2>1
<1>3. CASE x # Discarded
  <2>1. Live(Append(q, x)) = Live(q) \cup {Len(q) + 1} /\ Len(q) + 1 \notin Live(q)
    BY <1>1, <1>3 DEF Live
  <2>. QED  BY <1>3, <2>1, LiveFinite, FS_AddElement
<1>. QED  BY <1>2, <1>3

\* Taking the first record takes one that was live, or a discarded one.
LEMMA LiveTail ==
  ASSUME NEW Item, NEW q \in Seq(Item), q # <<>>
  PROVE  Cardinality(Live(q))
           = IF Head(q) = Discarded THEN Cardinality(Live(Tail(q)))
                                    ELSE Cardinality(Live(Tail(q))) + 1
<1>1. /\ Len(q) \in Nat \ {0} /\ DOMAIN q = 1 .. Len(q)
      /\ Tail(q) \in Seq(Item) /\ DOMAIN Tail(q) = 1 .. Len(q) - 1
      /\ Head(q) = q[1]
      /\ \A i \in 1 .. Len(q) - 1 : Tail(q)[i] = q[i + 1]
  BY HeadTailProperties
<1>. DEFINE Rest == Live(q) \ {1}
            move == [i \in Live(Tail(q)) |-> i + 1]
<1>2. move \in Bijection(Live(Tail(q)), Rest)
  <2>1. move \in [Live(Tail(q)) -> Rest]
    BY <1>1 DEF Live
  <2>2. \A i, j \in Live(Tail(q)) : move[i] = move[j] => i = j
    BY <1>1 DEF Live
  <2>3. ASSUME NEW k \in Rest PROVE \E i \in Live(Tail(q)) : move[i] = k
    <3>1. k \in 2 .. Len(q) /\ q[k] # Discarded
      BY <1>1 DEF Live
    <3>2. k - 1 \in 1 .. Len(q) - 1 /\ Tail(q)[k - 1] = q[k]
      BY <1>1, <3>1
    <3>3. k - 1 \in Live(Tail(q))
      BY <1>1, <3>1, <3>2 DEF Live
    <3>. QED  BY <3>1, <3>3
  <2>4. move \in Injection(Live(Tail(q)), Rest)
    <3>1. DOMAIN move = Live(Tail(q))
      OBVIOUS
    <3>. HIDE DEF move, Rest
    <3>. QED  BY <2>1, <2>2, <3>1 DEF Injection, IsInjective
  <2>5. move \in Surjection(Live(Tail(q)), Rest)
    <3>. HIDE DEF move, Rest
    <3>. QED  BY <2>1, <2>3 DEF Surjection
  <2>. QED  BY <2>4, <2>5 DEF Bijection
<1>3. IsFiniteSet(Live(Tail(q))) /\ Cardinality(Live(Tail(q))) \in Nat
  BY <1>1, LiveFinite
<1>4. Cardinality(Rest) = Cardinality(Live(Tail(q)))
  <2>1. ExistsBijection(Live(Tail(q)), Rest)
    BY <1>2 DEF ExistsBijection
  <2>. QED  BY <1>3, <2>1, FS_Bijection
<1>5. IsFiniteSet(Live(q)) /\ Cardinality(Live(q)) \in Nat
  BY LiveFinite
<1>6. Cardinality(Rest) = IF 1 \in Live(q) THEN Cardinality(Live(q)) - 1
                                           ELSE Cardinality(Live(q))
  BY <1>5, FS_RemoveElement
<1>7. 1 \in Live(q) <=> Head(q) # Discarded
  BY <1>1 DEF Live
<1>. QED  BY <1>3, <1>4, <1>5, <1>6, <1>7

\* What PROCESS_EVENTS and TELEM_RINGBUF hold.
ProcItem  == {Discarded} \cup {TraceEvent(t, Exec(t)) : t \in Task}
TelemItem == {BlockedEvent(t, Exec(t)) : t \in Task}

\* The counters are natural numbers, and the exported drops are those last read.
Metrics ==
  /\ counts \in [ring : Nat, rate : Nat, full : Nat, fails : Nat, user : Nat,
                 processed : Nat, shown : Nat, lastRate : Nat, lastUser : Nat]
  /\ counts.shown = counts.lastRate + counts.lastUser
  /\ counts.lastRate <= counts.rate /\ counts.lastUser <= counts.user

\* A drain runs in a task that runs, and was entered with the descriptor ready:
\* so a drain that is broken off leaves it ready.
Pollers ==
  /\ procRing \in RingShape(ProcItem) /\ telemRing \in RingShape(TelemItem)
  /\ procRing.drain => procRing.ready /\ "poller" \in monitor
  /\ telemRing.drain => loop = "select"
  /\ loop \in {"monitoring", "select"} => "worker" \in monitor

\* Before the monitors start nothing runs, and what is in the pinned ring are
\* whole records.
Before ==
  loop \in {"start", "enforcing"} =>
    /\ monitor = {} /\ netRing.q = <<>> /\ procCh = <<>>
    /\ counts.user = 0 /\ counts.processed = 0
    /\ \A i \in DOMAIN procRing.q : procRing.q[i] # Discarded

\* No poller sleeps over records.
Awake ==
  /\ "poller" \in monitor => Wakeful(procRing)
  /\ "network" \in monitor => Wakeful(netRing)
  /\ loop = "select" => Wakeful(telemRing)

\* Every record is under way or counted.
Books ==
  /\ procCh \in Seq(ProcItem)
  /\ loop \in {"monitoring", "select"} =>
       counts.ring = counts.user + counts.processed + Len(procCh)
                       + Cardinality(Live(procRing.q))

Flow == Metrics /\ Pollers /\ Before /\ Awake /\ Books

\* Flow says more than the property.
LEMMA FlowAccounts == Flow => EventsAccounted
BY DEF Flow, Metrics, Awake, Books, Live, EventsAccounted

\* A record of an exec is none that was discarded, and it decodes.
LEMMA WholeRecord ==
  ASSUME NEW t, NEW x
  PROVE  TraceEvent(t, x) # Discarded /\ Decodes(TraceEvent(t, x))
<1>1. TraceEvent(t, x).schema = 3 /\ "schema" \in DOMAIN TraceEvent(t, x)
  BY DEF TraceEvent
<1>2. "schema" \notin DOMAIN Discarded
  BY DEF Discarded
<1>. QED  BY <1>1, <1>2 DEF Decodes

\* The steps, by what they do to the records.
LEMMA Steps ==
  ASSUME Next
  PROVE  \/ Attest
         \/ ArmVisibility
         \/ ExecEnd /\ NetEnd
         \/ UNCHANGED execvars /\ (UNCHANGED netvars \/ NetSteps)
         \/ /\ loop' = "sleep" /\ ~ telemRing.drain
            /\ UNCHANGED <<counts, kernelvars, procRing, telemRing, procCh, detCh, names, monitor,
                           spawns, batched, alerts, hist, netvars>>
         \/ ExecSteps /\ UNCHANGED netvars
         \/ NetExit
<1>1. ASSUME NEW code, End(code) PROVE ExecEnd /\ NetEnd
  BY <1>1 DEF End
<1>. QED
  BY <1>1 DEF Next, ArmVisibilityFails, LoopFails, LoopEnd, IntegrityTick, LivenessProbe

\* The agent finds whole records, or none.
LEMMA FlowInit == Init => Flow
<1>. SUFFICES ASSUME Init PROVE Flow
  OBVIOUS
<1>1. plan.left \in Seq(Task)
  <2>1. plan.left \in Seq(DOMAIN plan.execs) /\ DOMAIN plan.execs \subseteq Task
    BY PlanAssumption DEF Init
  <2>. QED  BY <2>1
<1>. DEFINE left == [i \in DOMAIN plan.left |-> TraceEvent(plan.left[i], Exec(plan.left[i]))]
<1>2. /\ loop = "start" /\ monitor = {} /\ procCh = <<>> /\ telemRing = EmptyRing
      /\ procRing = [EmptyRing EXCEPT !.q = left] /\ netRing = EmptyRing
  BY DEF Init, ExecInit, NetInit
<1>3. counts = [ring |-> Len(plan.left), rate |-> 0, full |-> 0, fails |-> 0, user |-> 0,
                processed |-> 0, shown |-> 0, lastRate |-> 0, lastUser |-> 0]
  BY DEF Init, ExecInit
<1>4. Len(plan.left) \in Nat /\ DOMAIN plan.left = 1 .. Len(plan.left)
      /\ \A i \in DOMAIN plan.left : plan.left[i] \in Task
  BY <1>1
<1>5. \A i \in DOMAIN plan.left : left[i] \in ProcItem /\ left[i] # Discarded
  BY <1>4, WholeRecord DEF ProcItem
<1>6. left \in Seq(ProcItem)
  <2>1. left = [i \in 1 .. Len(plan.left) |-> left[i]]
    BY <1>4
  <2>2. \A i \in 1 .. Len(plan.left) : left[i] \in ProcItem
    BY <1>4, <1>5
  <2>. HIDE DEF left
  <2>. QED  BY <1>4, <2>1, <2>2, IsASeq
<1>7. /\ procRing = [q |-> left, ready |-> FALSE, fresh |-> FALSE, drain |-> FALSE, drained |-> FALSE]
      /\ telemRing.q = <<>> /\ netRing.q = <<>> /\ ~ telemRing.drain
  BY <1>2 DEF EmptyRing
<1>8. Metrics
  BY <1>3, <1>4 DEF Metrics
<1>9. Pollers
  <2>1. <<>> \in Seq(TelemItem)
    BY EmptySeq
  <2>2. telemRing \in RingShape(TelemItem)
    BY <1>2, <2>1 DEF EmptyRing, RingShape
  <2>. HIDE DEF left
  <2>. QED  BY <1>2, <1>6, <1>7, <2>2 DEF Pollers, RingShape
<1>10. Before
  BY <1>2, <1>3, <1>5, <1>7 DEF Before
<1>11. Awake
  BY <1>2 DEF Awake
<1>12. Books
  BY <1>2, EmptySeq DEF Books
<1>. QED  BY <1>8, <1>9, <1>10, <1>11, <1>12 DEF Flow

\* Nothing that Flow is about has changed, but for the detection side.
LEMMA FlowFrame ==
  ASSUME Flow, UNCHANGED <<counts, plan, procRing, telemRing, procCh, monitor, loop, netRing>>
  PROVE  Flow'
BY DEF Flow, Metrics, Pollers, Before, Awake, Books, ProcItem, TelemItem, Exec, Wakeful, Live

\* The end of the process, and the wait before it.
LEMMA FlowEnd == Flow /\ ExecEnd /\ NetEnd => Flow'
<1>. SUFFICES ASSUME Flow, ExecEnd, NetEnd PROVE Flow'
  OBVIOUS
<1>1. /\ plan' = plan /\ counts' = counts /\ loop' = "end" /\ monitor' = {} /\ procCh' = <<>>
      /\ procRing' = Abandon(procRing) /\ telemRing' = Abandon(telemRing)
  BY DEF ExecEnd, kernelvars, Abandon
<1>2. ProcItem' = ProcItem /\ TelemItem' = TelemItem
  BY <1>1 DEF ProcItem, TelemItem, Exec
<1>3. /\ procRing' \in RingShape(ProcItem) /\ telemRing' \in RingShape(TelemItem)
      /\ ~ procRing'.drain /\ ~ telemRing'.drain
  BY <1>1, RingLeave DEF Flow, Pollers
<1>4. Metrics' /\ Before' /\ Awake'
  BY <1>1 DEF Flow, Metrics, Before, Awake
<1>5. Pollers'
  BY <1>1, <1>2, <1>3 DEF Pollers
<1>6. Books'
  BY <1>1, <1>2, EmptySeq DEF Books
<1>. QED  BY <1>4, <1>5, <1>6 DEF Flow

\* A signal, or the liveness probe.
LEMMA FlowSleep ==
  ASSUME Flow, loop' = "sleep", ~ telemRing.drain,
         UNCHANGED <<counts, kernelvars, procRing, telemRing, procCh, monitor, netvars>>
  PROVE  Flow'
BY DEF Flow, Metrics, Pollers, Before, Awake, Books, ProcItem, TelemItem, Exec, Wakeful, Live,
       kernelvars, netvars

\* Attestation starts nothing.
LEMMA FlowAttest == Flow /\ Attest => Flow'
<1>. SUFFICES ASSUME Flow, Attest PROVE Flow'
  OBVIOUS
<1>1. /\ UNCHANGED <<counts, plan, procRing, telemRing, procCh, monitor, netRing>>
      /\ loop = "start" /\ loop' \in {"enforcing", "end"}
  BY DEF Attest, kernelvars, netvars
<1>. QED
  BY <1>1 DEF Flow, Metrics, Pollers, Before, Awake, Books, ProcItem, TelemItem, Exec, Wakeful

\* The monitors start with the records of the pinned ring, or with an empty one.
LEMMA FlowArm == Flow /\ ArmVisibility => Flow'
<1>. SUFFICES ASSUME Flow, ArmVisibility PROVE Flow'
  OBVIOUS
<1>1. /\ loop = "enforcing" /\ loop' = "monitoring"
      /\ UNCHANGED <<plan, telemRing, procCh, netRing>>
      /\ procRing' = [ReusedRing EXCEPT !.ready = ReusedRing.q # <<>>]
      /\ counts' = [counts EXCEPT !.ring = Len(ReusedRing.q)]
      /\ monitor' = {"poller", "worker", "network"}
  BY DEF ArmVisibility, StartMonitors, kernelvars, netvars
<1>2. ProcItem' = ProcItem /\ TelemItem' = TelemItem
  BY <1>1 DEF ProcItem, TelemItem, Exec
<1>3. /\ monitor = {} /\ netRing.q = <<>> /\ procCh = <<>> /\ counts.user = 0
      /\ counts.processed = 0 /\ \A i \in DOMAIN procRing.q : procRing.q[i] # Discarded
  BY <1>1 DEF Flow, Before
<1>4. /\ ReusedRing \in RingShape(ProcItem) /\ ~ ReusedRing.drain
      /\ \A i \in DOMAIN ReusedRing.q : ReusedRing.q[i] # Discarded
  <2>1. CASE ReusedRing = procRing
    BY <1>3, <2>1 DEF Flow, Pollers
  <2>2. CASE ReusedRing = EmptyRing
    <3>1. <<>> \in Seq(ProcItem) /\ DOMAIN <<>> = {}
      BY EmptySeq
    <3>. QED  BY <2>2, <3>1 DEF EmptyRing, RingShape
  <2>. QED  BY <2>1, <2>2 DEF ReusedRing
<1>5. /\ procRing' \in RingShape(ProcItem) /\ ~ procRing'.drain
      /\ procRing'.q = ReusedRing.q /\ procRing'.ready = (ReusedRing.q # <<>>)
  BY <1>1, <1>4 DEF RingShape
<1>6. ReusedRing.q \in Seq(ProcItem)
  BY <1>4 DEF RingShape
<1>7. /\ Len(ReusedRing.q) \in Nat
      /\ Cardinality(Live(procRing'.q)) = Len(ReusedRing.q)
  BY <1>4, <1>5, <1>6, LiveAll
<1>8. Metrics'
  BY <1>1, <1>7 DEF Flow, Metrics
<1>9. Pollers'
  BY <1>1, <1>2, <1>5 DEF Flow, Pollers
<1>10. Before'
  BY <1>1 DEF Before
<1>11. Awake'
  BY <1>1, <1>3, <1>5 DEF Awake, Wakeful
<1>12. Books'
  <2>1. /\ counts'.ring = Len(ReusedRing.q) /\ counts'.user = 0 /\ counts'.processed = 0
        /\ Len(procCh') = 0
    BY <1>1, <1>3, EmptySeq DEF Flow, Metrics
  <2>2. counts'.ring = counts'.user + counts'.processed + Len(procCh')
                         + Cardinality(Live(procRing'.q))
    BY <1>7, <2>1
  <2>. QED  BY <1>1, <1>2, <2>2 DEF Flow, Books
<1>. QED  BY <1>8, <1>9, <1>10, <1>11, <1>12 DEF Flow

\* The event loop starts ready when records are waiting.
LEMMA FlowStartLoop == Flow /\ StartLoop /\ UNCHANGED netvars => Flow'
<1>. SUFFICES ASSUME Flow, StartLoop, UNCHANGED netvars PROVE Flow'
  OBVIOUS
<1>1. /\ loop = "monitoring" /\ loop' = "select"
      /\ UNCHANGED <<counts, plan, procRing, procCh, monitor, netRing>>
      /\ telemRing' = [telemRing EXCEPT !.ready = telemRing.q # <<>>]
  BY DEF StartLoop, kernelvars, netvars
<1>2. /\ telemRing' \in RingShape(TelemItem) /\ telemRing'.drain = telemRing.drain
      /\ Wakeful(telemRing')
  BY <1>1 DEF Flow, Pollers, RingShape, Wakeful
<1>3. Wakeful(procRing)' = Wakeful(procRing) /\ Wakeful(netRing)' = Wakeful(netRing)
  BY <1>1 DEF Wakeful
<1>4. ProcItem' = ProcItem /\ TelemItem' = TelemItem
  BY <1>1 DEF ProcItem, TelemItem, Exec
<1>5. Metrics' /\ Before'
  BY <1>1 DEF Flow, Metrics, Before
<1>6. Pollers'
  BY <1>1, <1>2, <1>4 DEF Flow, Pollers
<1>7. Awake'
  BY <1>1, <1>2, <1>3 DEF Flow, Awake
<1>8. Books'
  BY <1>1, <1>4 DEF Flow, Books, Live
<1>. QED  BY <1>5, <1>6, <1>7, <1>8 DEF Flow

\* A step of the event loop, or of the LSM program, on its ring alone.
LEMMA FlowTelem ==
  ASSUME Flow, UNCHANGED <<counts, plan, procRing, procCh, monitor, loop, netRing>>,
         telemRing' \in RingShape(TelemItem),
         telemRing'.drain => loop = "select",
         loop = "select" => Wakeful(telemRing')
  PROVE  Flow'
<1>1. ProcItem' = ProcItem /\ TelemItem' = TelemItem
  BY DEF ProcItem, TelemItem, Exec
<1>2. Wakeful(procRing)' = Wakeful(procRing) /\ Wakeful(netRing)' = Wakeful(netRing)
  BY DEF Wakeful
<1>3. Metrics' /\ Before'
  BY DEF Flow, Metrics, Before
<1>4. Pollers'
  BY <1>1 DEF Flow, Pollers
<1>5. Awake'
  BY <1>2 DEF Flow, Awake
<1>6. Books'
  BY <1>1 DEF Flow, Books, Live
<1>. QED  BY <1>3, <1>4, <1>5, <1>6 DEF Flow

\* The LSM program reports a denied exec.
LEMMA FlowBprmCheck ==
  ASSUME Flow, NEW t \in Task, BprmCheck(t), UNCHANGED netvars
  PROVE  Flow'
<1>1. UNCHANGED <<counts, plan, procRing, procCh, monitor, loop, netRing>>
  BY DEF BprmCheck, pipevars, netvars
<1>2. CASE telemRing' = telemRing
  BY <1>1, <1>2, FlowFrame
<1>3. CASE telemRing' = Commit(telemRing, BlockedEvent(t, Exec(t)))
  <2>1. telemRing \in RingShape(TelemItem) /\ BlockedEvent(t, Exec(t)) \in TelemItem
    BY DEF Flow, Pollers, TelemItem
  <2>2. /\ telemRing' \in RingShape(TelemItem) /\ telemRing'.drain = telemRing.drain
        /\ Wakeful(telemRing) => Wakeful(telemRing')
    BY <1>3, <2>1, RingCommit
  <2>. QED  BY <1>1, <2>2, FlowTelem DEF Flow, Pollers, Awake
<1>. QED  BY <1>2, <1>3 DEF BprmCheck

\* The event loop drains its ring.
LEMMA FlowLoopStep == Flow /\ LoopStep /\ UNCHANGED netvars => Flow'
<1>. SUFFICES ASSUME Flow, LoopStep, UNCHANGED netvars PROVE Flow'
  OBVIOUS
<1>1. UNCHANGED <<counts, plan, procRing, procCh, monitor, loop, netRing>>
  BY DEF LoopStep, LoopEnter, LoopNext, LoopLeave, LoopDetect, pipevars, kernelvars, netvars
<1>2. telemRing \in RingShape(TelemItem) /\ (telemRing.drain => loop = "select")
  BY DEF Flow, Pollers
<1>3. CASE LoopEnter
  <2>1. loop = "select" /\ CanEnter(telemRing) /\ telemRing' = Enter(telemRing)
    BY <1>3 DEF LoopEnter
  <2>2. telemRing' \in RingShape(TelemItem) /\ Wakeful(telemRing')
    BY <1>2, <2>1, RingEnter
  <2>. QED  BY <1>1, <2>1, <2>2, FlowTelem
<1>4. CASE LoopNext
  <2>1. telemRing.drain /\ telemRing.q # <<>> /\ telemRing' = Consume(telemRing)
    BY <1>4 DEF LoopNext
  <2>2. telemRing' \in RingShape(TelemItem) /\ telemRing'.drain
    BY <1>2, <2>1, RingConsume
  <2>. QED  BY <1>1, <1>2, <2>1, <2>2, FlowTelem DEF Wakeful
<1>5. CASE LoopLeave
  <2>1. telemRing.q = <<>> /\ telemRing' = Leave(telemRing)
    BY <1>5 DEF LoopLeave
  <2>2. telemRing' \in RingShape(TelemItem) /\ ~ telemRing'.drain /\ telemRing'.q = <<>>
    BY <1>2, <2>1, RingLeave
  <2>. QED  BY <1>1, <2>2, FlowTelem DEF Wakeful
<1>6. CASE LoopDetect
  BY <1>1, <1>6, FlowFrame DEF LoopDetect
<1>. QED  BY <1>3, <1>4, <1>5, <1>6 DEF LoopStep

\* The way of the connections touches the network ring only.
LEMMA FlowNet ==
  ASSUME Flow, Counter, UNCHANGED execvars, NetSteps
  PROVE  Flow'
<1>1. UNCHANGED <<counts, plan, procRing, telemRing, procCh, monitor, loop>>
  BY DEF execvars, kernelvars, pipevars
<1>2. netRing \in RingShape([pid : Task])
  BY DEF Counter
<1>3. SUFFICES ASSUME \/ netRing' = netRing
                      \/ /\ loop \notin {"start", "enforcing"} \/ netRing'.q = <<>>
                         /\ Wakeful(netRing) => Wakeful(netRing')
               PROVE  Flow'
  <2>1. ASSUME NEW t \in Task, TcpConnect(t)
        PROVE  \/ netRing' = netRing
               \/ loop \notin {"start", "enforcing"} /\ (Wakeful(netRing) => Wakeful(netRing'))
    <3>1. [pid |-> t] \in [pid : Task]
      OBVIOUS
    <3>. QED  BY <1>2, <2>1, <3>1, RingCommit DEF TcpConnect, Running
  <2>2. CASE NetEnter
    <3>1. loop \notin {"start", "enforcing"}
      BY <2>2 DEF NetEnter, Flow, Before
    <3>. QED  BY <1>2, <1>3, <2>2, <3>1, RingEnter DEF NetEnter
  <2>3. CASE NetNext
    <3>1. loop \notin {"start", "enforcing"}
      BY <2>3 DEF NetNext, Flow, Before
    <3>2. netRing'.drain
      BY <1>2, <2>3, RingConsume DEF NetNext
    <3>. QED  BY <1>3, <3>1, <3>2 DEF Wakeful
  <2>4. CASE NetLeave
    <3>1. netRing'.q = <<>>
      BY <1>2, <2>4, RingLeave DEF NetLeave
    <3>. QED  BY <1>3, <3>1 DEF Wakeful
  <2>5. CASE \/ CheckPressure \/ TrySend \/ RecordEnqueued
             \/ NewProducer \/ PubRecv \/ DecrementQueued \/ Publish \/ PubWake
    BY <1>3, <2>5 DEF CheckPressure, TrySend, RecordEnqueued, NewProducer, PubRecv,
                      DecrementQueued, Publish, PubWake
  <2>. QED  BY <1>3, <2>1, <2>2, <2>3, <2>4, <2>5 DEF NetSteps
<1>4. CASE netRing' = netRing
  BY <1>1, <1>4, FlowFrame
<1>5. CASE (loop \notin {"start", "enforcing"} \/ netRing'.q = <<>>) /\ (Wakeful(netRing) => Wakeful(netRing'))
  <2>1. ProcItem' = ProcItem /\ TelemItem' = TelemItem
    BY <1>1 DEF ProcItem, TelemItem, Exec
  <2>2. Wakeful(procRing)' = Wakeful(procRing) /\ Wakeful(telemRing)' = Wakeful(telemRing)
    BY <1>1 DEF Wakeful
  <2>3. Metrics'
    BY <1>1 DEF Flow, Metrics
  <2>4. Pollers'
    BY <1>1, <2>1 DEF Flow, Pollers
  <2>5. Before'
    BY <1>1, <1>5 DEF Flow, Before
  <2>6. Awake'
    BY <1>1, <1>5, <2>2 DEF Flow, Awake
  <2>7. Books'
    BY <1>1, <2>1 DEF Flow, Books, Live
  <2>. QED  BY <2>3, <2>4, <2>5, <2>6, <2>7 DEF Flow
<1>. QED  BY <1>3, <1>4, <1>5

\* The network monitor ends between two drains.
LEMMA FlowNetExit == Flow /\ NetExit => Flow'
<1>. SUFFICES ASSUME Flow, NetExit PROVE Flow'
  OBVIOUS
<1>1. /\ UNCHANGED <<counts, plan, procRing, telemRing, procCh, loop, netRing>>
      /\ loop = "sleep" /\ monitor' = monitor \ {"network"}
  BY DEF NetExit, kernelvars, pipevars, netvars
<1>2. ProcItem' = ProcItem /\ TelemItem' = TelemItem
  BY <1>1 DEF ProcItem, TelemItem, Exec
<1>3. Wakeful(procRing)' = Wakeful(procRing)
  BY <1>1 DEF Wakeful
<1>4. Metrics' /\ Before'
  BY <1>1 DEF Flow, Metrics, Before
<1>5. Pollers'
  BY <1>1, <1>2 DEF Flow, Pollers
<1>6. Awake' /\ Books'
  BY <1>1, <1>2, <1>3 DEF Flow, Awake, Books
<1>. QED  BY <1>4, <1>5, <1>6 DEF Flow

\* The tracepoint: a record is counted as in the ring exactly when a live one is
\* committed.
LEMMA FlowSysEnter ==
  ASSUME Flow, NEW t \in Task, SysEnter(t), UNCHANGED netvars
  PROVE  Flow'
<1>1. UNCHANGED <<plan, telemRing, procCh, monitor, loop, netRing>>
  BY DEF SysEnter, pipevars, netvars
<1>2. CASE loop \notin Running
  BY <1>1, <1>2, FlowFrame DEF SysEnter
<1>3. CASE loop \in Running
  <2>. DEFINE whole == TraceEvent(t, Exec(t))
  <2>1. /\ counts' = [counts EXCEPT ![Fate(t)] = @ + 1]
        /\ procRing' = CASE Fate(t) = "fails" -> Commit(procRing, Discarded)
                         [] Fate(t) = "ring" -> Commit(procRing, whole)
                         [] OTHER -> procRing
    BY <1>3 DEF SysEnter
  <2>2. Fate(t) \in {"rate", "full", "fails", "ring"}
    BY DEF Fate
  <2>3. /\ procRing \in RingShape(ProcItem) /\ Discarded \in ProcItem /\ whole \in ProcItem
        /\ whole # Discarded
    BY WholeRecord DEF Flow, Pollers, ProcItem
  <2>4. ProcItem' = ProcItem /\ TelemItem' = TelemItem
    BY <1>1 DEF ProcItem, TelemItem, Exec
  <2>5. Wakeful(telemRing)' = Wakeful(telemRing) /\ Wakeful(netRing)' = Wakeful(netRing)
    BY <1>1 DEF Wakeful
  <2>6. procRing.q \in Seq(ProcItem) /\ Cardinality(Live(procRing.q)) \in Nat
    BY <2>3, LiveFinite DEF RingShape
  <2>7. /\ procRing' \in RingShape(ProcItem) /\ procRing'.drain = procRing.drain
        /\ procRing.ready => procRing'.ready
        /\ Wakeful(procRing) => Wakeful(procRing')
        /\ Cardinality(Live(procRing'.q))
             = Cardinality(Live(procRing.q)) + (IF Fate(t) = "ring" THEN 1 ELSE 0)
    <3>. HIDE DEF whole
    <3>1. CASE Fate(t) = "fails"
      <4>1. procRing' = Commit(procRing, Discarded)
        BY <2>1, <3>1
      <4>2. /\ procRing' \in RingShape(ProcItem) /\ procRing'.drain = procRing.drain
            /\ procRing.ready => procRing'.ready
            /\ Wakeful(procRing) => Wakeful(procRing')
            /\ procRing'.q = Append(procRing.q, Discarded)
        BY <2>3, <4>1, RingCommit
      <4>3. Cardinality(Live(procRing'.q)) = Cardinality(Live(procRing.q))
        BY <2>3, <2>6, <4>2, LiveAppend
      <4>. QED  BY <2>6, <3>1, <4>2, <4>3
    <3>2. CASE Fate(t) = "ring"
      <4>1. procRing' = Commit(procRing, whole)
        BY <2>1, <3>2
      <4>2. /\ procRing' \in RingShape(ProcItem) /\ procRing'.drain = procRing.drain
            /\ procRing.ready => procRing'.ready
            /\ Wakeful(procRing) => Wakeful(procRing')
            /\ procRing'.q = Append(procRing.q, whole)
        BY <2>3, <4>1, RingCommit
      <4>3. Cardinality(Live(procRing'.q)) = Cardinality(Live(procRing.q)) + 1
        BY <2>3, <2>6, <4>2, LiveAppend
      <4>. QED  BY <2>6, <3>2, <4>2, <4>3
    <3>3. CASE Fate(t) \notin {"fails", "ring"}
      <4>1. procRing' = procRing
        BY <2>1, <3>3
      <4>. QED  BY <2>3, <2>6, <3>3, <4>1
    <3>. QED  BY <3>1, <3>2, <3>3
  <2>8. /\ counts' \in [ring : Nat, rate : Nat, full : Nat, fails : Nat, user : Nat,
                        processed : Nat, shown : Nat, lastRate : Nat, lastUser : Nat]
        /\ counts'.ring = counts.ring + (IF Fate(t) = "ring" THEN 1 ELSE 0)
        /\ counts'.user = counts.user /\ counts'.processed = counts.processed
        /\ counts'.shown = counts.shown /\ counts'.lastRate = counts.lastRate
        /\ counts'.lastUser = counts.lastUser /\ counts'.rate >= counts.rate
    <3>1. CASE Fate(t) = "rate"
      BY <2>1, <3>1 DEF Flow, Metrics
    <3>2. CASE Fate(t) = "full"
      BY <2>1, <3>2 DEF Flow, Metrics
    <3>3. CASE Fate(t) = "fails"
      BY <2>1, <3>3 DEF Flow, Metrics
    <3>4. CASE Fate(t) = "ring"
      BY <2>1, <3>4 DEF Flow, Metrics
    <3>. QED  BY <2>2, <3>1, <3>2, <3>3, <3>4
  <2>9. Metrics'
    <3>1. /\ counts.lastRate \in Nat /\ counts.rate \in Nat /\ counts'.rate \in Nat
          /\ counts.lastRate <= counts.rate
      BY <2>8 DEF Flow, Metrics
    <3>2. counts.lastRate <= counts'.rate
      BY <2>8, <3>1
    <3>. QED  BY <2>8, <3>2 DEF Flow, Metrics
  <2>10. Pollers'
    BY <1>1, <2>4, <2>7 DEF Flow, Pollers
  <2>11. Before'
    BY <1>1, <1>3 DEF Before, Running
  <2>12. Awake'
    BY <1>1, <2>5, <2>7 DEF Flow, Awake
  <2>13. Books'
    <3>1. /\ counts.ring \in Nat /\ counts.user \in Nat /\ counts.processed \in Nat
          /\ Len(procCh) \in Nat
      BY DEF Flow, Metrics, Books
    <3>2. ASSUME loop \in {"monitoring", "select"}
          PROVE  counts'.ring = counts'.user + counts'.processed + Len(procCh')
                                  + Cardinality(Live(procRing'.q))
      <4>1. counts.ring = counts.user + counts.processed + Len(procCh)
                            + Cardinality(Live(procRing.q))
        BY <3>2 DEF Flow, Books
      <4>2. \E n \in Nat : /\ counts'.ring = counts.ring + n
                           /\ Cardinality(Live(procRing'.q)) = Cardinality(Live(procRing.q)) + n
        BY <2>7, <2>8
      <4>3. counts'.user = counts.user /\ counts'.processed = counts.processed
            /\ Len(procCh') = Len(procCh)
        BY <1>1, <2>8
      <4>. QED  BY <2>6, <3>1, <4>1, <4>2, <4>3
    <3>. QED  BY <1>1, <2>4, <3>2 DEF Flow, Books
  <2>. QED  BY <2>9, <2>10, <2>11, <2>12, <2>13 DEF Flow
<1>. QED  BY <1>2, <1>3

\* A step of the process monitor on its ring, its channel and the counters.
LEMMA FlowProc ==
  ASSUME Flow, UNCHANGED <<plan, telemRing, monitor, loop, netRing>>,
         procRing' \in RingShape(ProcItem),
         procRing'.drain => procRing'.ready /\ "poller" \in monitor,
         "poller" \in monitor => Wakeful(procRing'),
         loop \notin {"start", "enforcing"},
         Metrics', procCh' \in Seq(ProcItem),
         loop \in {"monitoring", "select"} =>
           counts'.ring = counts'.user + counts'.processed + Len(procCh')
                            + Cardinality(Live(procRing'.q))
  PROVE  Flow'
<1>1. ProcItem' = ProcItem /\ TelemItem' = TelemItem
  BY DEF ProcItem, TelemItem, Exec
<1>2. Wakeful(telemRing)' = Wakeful(telemRing) /\ Wakeful(netRing)' = Wakeful(netRing)
  BY DEF Wakeful
<1>3. Pollers'
  BY <1>1 DEF Flow, Pollers
<1>4. Before'
  BY DEF Before
<1>5. Awake'
  BY <1>2 DEF Flow, Awake
<1>6. Books'
  BY <1>1 DEF Books
<1>. QED  BY <1>3, <1>4, <1>5, <1>6 DEF Flow

\* The poller enters and leaves its drain.
LEMMA FlowPollerEnter == Flow /\ (PollerEnter \/ PollerLeave) /\ UNCHANGED netvars => Flow'
<1>. SUFFICES ASSUME Flow, PollerEnter \/ PollerLeave, UNCHANGED netvars PROVE Flow'
  OBVIOUS
<1>1. UNCHANGED <<counts, plan, telemRing, procCh, monitor, loop, netRing>>
  BY DEF PollerEnter, PollerLeave, kernelvars, pipevars, netvars
<1>2. procRing \in RingShape(ProcItem) /\ procCh \in Seq(ProcItem) /\ Metrics
  BY DEF Flow, Pollers, Books
<1>3. Metrics' /\ procCh' \in Seq(ProcItem)
  BY <1>1, <1>2 DEF Metrics
<1>4. "poller" \in monitor /\ loop \notin {"start", "enforcing"}
  BY DEF Flow, Pollers, Before, PollerEnter, PollerLeave
<1>5. /\ procRing' \in RingShape(ProcItem) /\ procRing'.q = procRing.q
      /\ procRing'.drain => procRing'.ready
      /\ Wakeful(procRing')
  <2>1. CASE PollerEnter
    BY <1>2, <2>1, RingEnter DEF PollerEnter
  <2>2. CASE PollerLeave
    <3>1. procRing' = Leave(procRing) /\ procRing.q = <<>>
      BY <2>2 DEF PollerLeave
    <3>2. procRing' \in RingShape(ProcItem) /\ procRing'.q = procRing.q /\ ~ procRing'.drain
      BY <1>2, <3>1, RingLeave
    <3>. QED  BY <3>1, <3>2 DEF Wakeful
  <2>. QED  BY <2>1, <2>2
<1>6. loop \in {"monitoring", "select"} =>
        counts'.ring = counts'.user + counts'.processed + Len(procCh')
                         + Cardinality(Live(procRing'.q))
  BY <1>1, <1>5 DEF Flow, Books
<1>. QED  BY <1>1, <1>3, <1>4, <1>5, <1>6, FlowProc

\* The poller takes a record: a live one is sent on or counted as dropped.
LEMMA FlowPollerNext == Flow /\ PollerNext /\ UNCHANGED netvars => Flow'
<1>. SUFFICES ASSUME Flow, PollerNext, UNCHANGED netvars PROVE Flow'
  OBVIOUS
<1>. DEFINE e    == Head(procRing.q)
            skip == e = Discarded \/ ~ Decodes(e)
            sent == ~ skip /\ "worker" \in monitor /\ Len(procCh) < ProcCapacity
            full == ~ skip /\ "worker" \in monitor /\ Len(procCh) >= ProcCapacity
<1>1. /\ UNCHANGED <<plan, telemRing, monitor, loop, netRing>>
      /\ procRing.drain /\ procRing.q # <<>>
      /\ procRing' = IF skip \/ sent \/ full THEN Consume(procRing) ELSE Abandon(Consume(procRing))
      /\ procCh' = IF sent THEN Append(procCh, e) ELSE procCh
      /\ counts' = IF full THEN [counts EXCEPT !.user = @ + 1] ELSE counts
  BY DEF PollerNext, kernelvars, pipevars, netvars
<1>2. /\ procRing \in RingShape(ProcItem) /\ procCh \in Seq(ProcItem)
      /\ procRing.ready /\ "poller" \in monitor /\ loop \notin {"start", "enforcing"}
      /\ loop \in {"monitoring", "select"} => "worker" \in monitor
      /\ Len(procCh) \in Nat /\ ProcCapacity \in Nat
  BY <1>1, TelemetryAssumption DEF Flow, Pollers, Books, Before
<1>3. /\ Consume(procRing) \in RingShape(ProcItem) /\ Consume(procRing).q = Tail(procRing.q)
      /\ Consume(procRing).drain /\ Consume(procRing).ready /\ e \in ProcItem
  BY <1>1, <1>2, RingConsume
<1>4. skip <=> e = Discarded
  BY <1>3, WholeRecord DEF ProcItem
<1>5. /\ Abandon(Consume(procRing)) \in RingShape(ProcItem)
      /\ Abandon(Consume(procRing)).q = Tail(procRing.q)
      /\ Abandon(Consume(procRing)).ready
  BY <1>3, RingLeave
<1>6. /\ procRing.q \in Seq(ProcItem) /\ Tail(procRing.q) \in Seq(ProcItem)
      /\ Cardinality(Live(Tail(procRing.q))) \in Nat
  <2>1. procRing.q \in Seq(ProcItem) /\ Tail(procRing.q) \in Seq(ProcItem)
    BY <1>2, <1>3 DEF RingShape
  <2>. QED  BY <2>1, LiveFinite
<1>7. Cardinality(Live(procRing.q))
        = Cardinality(Live(Tail(procRing.q))) + (IF e = Discarded THEN 0 ELSE 1)
  BY <1>1, <1>6, LiveTail
<1>. HIDE DEF e, skip, sent, full
<1>8. /\ procRing' \in RingShape(ProcItem) /\ procRing'.q = Tail(procRing.q)
      /\ procRing'.ready
  BY <1>1, <1>3, <1>5
<1>9. procCh' \in Seq(ProcItem) /\ Len(procCh') = Len(procCh) + (IF sent THEN 1 ELSE 0)
  BY <1>1, <1>2, <1>3
<1>10. /\ Metrics' /\ counts'.ring = counts.ring /\ counts'.processed = counts.processed
       /\ counts'.user = counts.user + (IF full THEN 1 ELSE 0)
  <2>1. /\ counts.user \in Nat /\ counts.lastUser \in Nat /\ counts.lastUser <= counts.user
        /\ counts.lastUser <= counts.user + 1
    BY DEF Flow, Metrics
  <2>2. CASE full
    BY <1>1, <2>1, <2>2 DEF Flow, Metrics
  <2>3. CASE ~ full
    BY <1>1, <2>1, <2>3 DEF Flow, Metrics
  <2>. QED  BY <2>2, <2>3
<1>11. ASSUME loop \in {"monitoring", "select"}
       PROVE  counts'.ring = counts'.user + counts'.processed + Len(procCh')
                               + Cardinality(Live(procRing'.q))
  <2>1. /\ counts.ring \in Nat /\ counts.user \in Nat /\ counts.processed \in Nat
        /\ counts.ring = counts.user + counts.processed + Len(procCh)
                           + Cardinality(Live(procRing.q))
    BY <1>11 DEF Flow, Metrics, Books
  <2>2. /\ skip => ~ sent /\ ~ full
        /\ ~ skip => (sent /\ ~ full) \/ (full /\ ~ sent)
    BY <1>2, <1>11 DEF sent, full
  <2>3. CASE skip
    <3>1. /\ counts'.user = counts.user /\ Len(procCh') = Len(procCh)
          /\ Cardinality(Live(procRing.q)) = Cardinality(Live(procRing'.q))
      BY <1>2, <1>4, <1>6, <1>7, <1>8, <1>9, <1>10, <2>1, <2>2, <2>3
    <3>. QED  BY <1>10, <2>1, <3>1
  <2>4. CASE ~ skip
    <3>1. /\ Cardinality(Live(procRing.q)) = Cardinality(Live(procRing'.q)) + 1
          /\ Cardinality(Live(procRing'.q)) \in Nat
      BY <1>4, <1>6, <1>7, <1>8, <2>4
    <3>2. \/ counts'.user = counts.user /\ Len(procCh') = Len(procCh) + 1
          \/ counts'.user = counts.user + 1 /\ Len(procCh') = Len(procCh)
      BY <1>2, <1>9, <1>10, <2>1, <2>2, <2>4
    <3>3. counts'.ring = counts.ring /\ counts'.processed = counts.processed
      BY <1>10
    <3>4. Len(procCh) \in Nat
      BY <1>2
    <3>5. CASE counts'.user = counts.user /\ Len(procCh') = Len(procCh) + 1
      BY <2>1, <3>1, <3>3, <3>4, <3>5
    <3>6. CASE counts'.user = counts.user + 1 /\ Len(procCh') = Len(procCh)
      <4>2. counts.user + counts.processed + Len(procCh) + (Cardinality(Live(procRing'.q)) + 1)
              = (counts.user + 1) + counts.processed + Len(procCh) + Cardinality(Live(procRing'.q))
        <5>1. /\ counts.user \in Nat /\ counts.processed \in Nat /\ Len(procCh) \in Nat
              /\ Cardinality(Live(procRing'.q)) \in Nat
          BY <2>1, <3>1, <3>4
        <5>2. PICK u \in Nat, p \in Nat, c \in Nat, l \in Nat :
                /\ u = counts.user /\ p = counts.processed /\ c = Len(procCh)
                /\ l = Cardinality(Live(procRing'.q))
          BY <5>1, Zenon
        <5>3. u + p + c + (l + 1) = (u + 1) + p + c + l
          <6>1. u \in Nat /\ p \in Nat /\ c \in Nat /\ l \in Nat
            OBVIOUS
          <6>. QED  BY <6>1
        <5>. QED  BY <5>2, <5>3, Zenon
      <4>3. counts'.ring = counts.user + counts.processed + Len(procCh)
                             + (Cardinality(Live(procRing'.q)) + 1)
        BY <2>1, <3>1, <3>3, Zenon
      <4>. QED  BY <3>3, <3>6, <4>2, <4>3, Zenon
    <3>. QED  BY <3>2, <3>5, <3>6
  <2>. QED  BY <2>3, <2>4
<1>. QED  BY <1>1, <1>2, <1>8, <1>9, <1>10, <1>11, FlowProc DEF Wakeful

\* The worker counts what it takes.
LEMMA FlowWorkerStep == Flow /\ WorkerStep /\ UNCHANGED netvars => Flow'
<1>. SUFFICES ASSUME Flow, WorkerStep, UNCHANGED netvars PROVE Flow'
  OBVIOUS
<1>1. /\ UNCHANGED <<plan, procRing, telemRing, monitor, loop, netRing>>
      /\ "worker" \in monitor /\ procCh # <<>> /\ procCh' = Tail(procCh)
      /\ counts' = [counts EXCEPT !.processed = @ + 1]
  BY DEF WorkerStep, kernelvars, pipevars, netvars
<1>2. /\ procRing \in RingShape(ProcItem) /\ procCh \in Seq(ProcItem)
      /\ loop \notin {"start", "enforcing"}
      /\ procRing.drain => procRing.ready /\ "poller" \in monitor
      /\ "poller" \in monitor => Wakeful(procRing)
  BY <1>1 DEF Flow, Pollers, Books, Before, Awake
<1>3. procCh' \in Seq(ProcItem) /\ Len(procCh') = Len(procCh) - 1 /\ Len(procCh) \in Nat
  BY <1>1, <1>2
<1>4. /\ counts'.ring = counts.ring /\ counts'.user = counts.user
      /\ counts'.processed = counts.processed + 1
  BY <1>1 DEF Flow, Metrics
<1>6. Metrics'
  <2>1. counts.processed + 1 \in Nat
    BY DEF Flow, Metrics
  <2>2. counts' \in [ring : Nat, rate : Nat, full : Nat, fails : Nat, user : Nat,
                     processed : Nat, shown : Nat, lastRate : Nat, lastUser : Nat]
    BY <1>1, <2>1 DEF Flow, Metrics
  <2>3. /\ counts'.shown = counts.shown /\ counts'.lastRate = counts.lastRate
        /\ counts'.lastUser = counts.lastUser /\ counts'.rate = counts.rate
        /\ counts'.user = counts.user
    BY <1>1 DEF Flow, Metrics
  <2>. QED  BY <2>2, <2>3 DEF Flow, Metrics
<1>5. ASSUME loop \in {"monitoring", "select"}
      PROVE  counts'.ring = counts'.user + counts'.processed + Len(procCh')
                              + Cardinality(Live(procRing'.q))
  <2>1. /\ counts.ring \in Nat /\ counts.user \in Nat /\ counts.processed \in Nat
        /\ counts.ring = counts.user + counts.processed + Len(procCh)
                           + Cardinality(Live(procRing.q))
    BY <1>5 DEF Flow, Metrics, Books
  <2>2. Cardinality(Live(procRing.q)) \in Nat /\ procRing' = procRing
    BY <1>1, <1>2, LiveFinite DEF RingShape
  <2>3. /\ Len(procCh) \in Nat /\ Len(procCh') = Len(procCh) - 1
        /\ Cardinality(Live(procRing'.q)) = Cardinality(Live(procRing.q))
    BY <1>3, <2>2
  <2>4. \A u, p, c, l \in Nat : u + p + c + l = u + (p + 1) + (c - 1) + l
    OBVIOUS
  <2>5. counts.user + counts.processed + Len(procCh) + Cardinality(Live(procRing.q))
          = counts.user + (counts.processed + 1) + (Len(procCh) - 1) + Cardinality(Live(procRing.q))
    <3>1. /\ counts.user \in Nat /\ counts.processed \in Nat /\ Len(procCh) \in Nat
          /\ Cardinality(Live(procRing.q)) \in Nat
      BY <2>1, <2>2, <2>3
    <3>. QED  BY <2>4, <3>1
  <2>. QED  BY <1>4, <2>1, <2>3, <2>5, Zenon
<1>. QED  BY <1>1, <1>2, <1>3, <1>5, <1>6, FlowProc DEF Wakeful

\* A task of the process monitor ends.
LEMMA FlowMonitorExit == Flow /\ MonitorExit /\ UNCHANGED netvars => Flow'
<1>. SUFFICES ASSUME Flow, MonitorExit, UNCHANGED netvars PROVE Flow'
  OBVIOUS
<1>1. /\ UNCHANGED <<counts, plan, procRing, telemRing, loop, netRing>> /\ loop = "sleep"
      /\ \E m \in {"poller", "worker"} :
           /\ m = "poller" => ~ procRing.drain
           /\ monitor' = monitor \ {m}
           /\ procCh' = IF m = "worker" THEN <<>> ELSE procCh
  BY DEF MonitorExit, kernelvars, pipevars, netvars
<1>2. ProcItem' = ProcItem /\ TelemItem' = TelemItem
  BY <1>1 DEF ProcItem, TelemItem, Exec
<1>3. Wakeful(procRing)' = Wakeful(procRing) /\ Wakeful(netRing)' = Wakeful(netRing)
  BY <1>1 DEF Wakeful
<1>4. Metrics' /\ Before'
  BY <1>1 DEF Flow, Metrics, Before
<1>5. Pollers'
  BY <1>1, <1>2 DEF Flow, Pollers
<1>6. Awake'
  BY <1>1, <1>3 DEF Flow, Awake
<1>7. Books'
  BY <1>1, <1>2, EmptySeq DEF Flow, Books
<1>. QED  BY <1>4, <1>5, <1>6, <1>7 DEF Flow

\* A sample adds what is new of the two counters to the exported one.
LEMMA FlowHealthSample == Flow /\ HealthSample /\ UNCHANGED netvars => Flow'
<1>. SUFFICES ASSUME Flow, HealthSample, UNCHANGED netvars PROVE Flow'
  OBVIOUS
<1>1. /\ UNCHANGED <<plan, procRing, telemRing, procCh, monitor, loop, netRing>>
      /\ loop \in Running
  BY DEF HealthSample, kernelvars, pipevars, netvars
<1>2. PICK rate \in {counts.rate, counts.lastRate} :
        counts' = [counts EXCEPT
                     !.shown = @ + (rate - counts.lastRate) + (counts.user - counts.lastUser),
                     !.lastRate = rate, !.lastUser = counts.user]
  BY DEF HealthSample
<1>3. /\ counts.rate \in Nat /\ counts.lastRate \in Nat /\ counts.user \in Nat
      /\ counts.lastUser \in Nat /\ counts.shown \in Nat
      /\ counts.shown = counts.lastRate + counts.lastUser
      /\ counts.lastRate <= counts.rate /\ counts.lastUser <= counts.user
  BY DEF Flow, Metrics
<1>4. /\ rate \in Nat /\ rate <= counts.rate
      /\ counts.shown + (rate - counts.lastRate) + (counts.user - counts.lastUser) = rate + counts.user
  BY <1>2, <1>3
<1>5. /\ Metrics' /\ counts'.ring = counts.ring /\ counts'.user = counts.user
      /\ counts'.processed = counts.processed
  <2>1. counts' = [counts EXCEPT !.shown = rate + counts.user,
                                 !.lastRate = rate, !.lastUser = counts.user]
    BY <1>2, <1>4
  <2>2. rate + counts.user \in Nat
    BY <1>3, <1>4
  <2>3. /\ counts'.ring = counts.ring /\ counts'.user = counts.user
        /\ counts'.processed = counts.processed /\ counts'.rate = counts.rate
        /\ counts'.shown = rate + counts.user /\ counts'.lastRate = rate
        /\ counts'.lastUser = counts.user
    BY <2>1 DEF Flow, Metrics
  <2>4. counts' \in [ring : Nat, rate : Nat, full : Nat, fails : Nat, user : Nat,
                     processed : Nat, shown : Nat, lastRate : Nat, lastUser : Nat]
    BY <1>3, <1>4, <2>1, <2>2 DEF Flow, Metrics
  <2>5. counts'.lastUser <= counts'.user /\ counts'.lastRate <= counts'.rate
    BY <1>3, <1>4, <2>3
  <2>. QED  BY <2>3, <2>4, <2>5 DEF Metrics
<1>6. /\ procRing \in RingShape(ProcItem) /\ procCh \in Seq(ProcItem)
      /\ loop \notin {"start", "enforcing"}
      /\ procRing.drain => procRing.ready /\ "poller" \in monitor
      /\ "poller" \in monitor => Wakeful(procRing)
  BY <1>1 DEF Flow, Pollers, Books, Awake, Running
<1>7. loop \in {"monitoring", "select"} =>
        counts'.ring = counts'.user + counts'.processed + Len(procCh')
                         + Cardinality(Live(procRing'.q))
  BY <1>1, <1>5 DEF Flow, Books
<1>. QED  BY <1>1, <1>5, <1>6, <1>7, FlowProc DEF Wakeful

\* Every step keeps the records in order.
LEMMA FlowStep == Counter /\ Flow /\ [Next]_vars => Flow'
<1>. SUFFICES ASSUME Counter, Flow, [Next]_vars PROVE Flow'
  OBVIOUS
<1>1. CASE UNCHANGED execvars /\ UNCHANGED netvars
  BY <1>1, FlowFrame DEF execvars, kernelvars, pipevars, netvars
<1>2. CASE ExecSteps /\ UNCHANGED netvars
  <2>1. ASSUME NEW t \in Task, SysEnter(t) PROVE Flow'
    BY <1>2, <2>1, FlowSysEnter
  <2>2. ASSUME NEW t \in Task, BprmCheck(t) PROVE Flow'
    BY <1>2, <2>2, FlowBprmCheck
  <2>3. CASE Tick
    BY <1>2, <2>3, FlowFrame DEF Tick, pipevars, netvars
  <2>4. CASE StartLoop
    BY <1>2, <2>4, FlowStartLoop
  <2>5. CASE PollerEnter \/ PollerLeave
    BY <1>2, <2>5, FlowPollerEnter
  <2>6. CASE PollerNext
    BY <1>2, <2>6, FlowPollerNext
  <2>7. CASE WorkerStep
    BY <1>2, <2>7, FlowWorkerStep
  <2>8. CASE MonitorExit
    BY <1>2, <2>8, FlowMonitorExit
  <2>9. CASE HealthSample
    BY <1>2, <2>9, FlowHealthSample
  <2>10. CASE LoopStep
    BY <1>2, <2>10, FlowLoopStep
  <2>11. CASE LoopSignal
    <3>1. /\ loop' = "sleep" /\ ~ telemRing.drain
          /\ UNCHANGED <<counts, kernelvars, procRing, telemRing, procCh, monitor, netvars>>
      BY <1>2, <2>11 DEF LoopSignal
    <3>. QED  BY <3>1, FlowSleep
  <2>. QED
    BY <1>2, <2>1, <2>2, <2>3, <2>4, <2>5, <2>6, <2>7, <2>8, <2>9, <2>10, <2>11 DEF ExecSteps
<1>3. CASE UNCHANGED execvars /\ NetSteps
  BY <1>3, FlowNet
<1>4. CASE Attest
  BY <1>4, FlowAttest
<1>5. CASE ArmVisibility
  BY <1>5, FlowArm
<1>6. CASE ExecEnd /\ NetEnd
  BY <1>6, FlowEnd
<1>7. CASE /\ loop' = "sleep" /\ ~ telemRing.drain
           /\ UNCHANGED <<counts, kernelvars, procRing, telemRing, procCh, detCh, names, monitor,
                          spawns, batched, alerts, hist, netvars>>
  BY <1>7, FlowSleep
<1>8. CASE NetExit
  BY <1>8, FlowNetExit
<1>9. CASE Next
  BY <1>9, <1>1, <1>2, <1>3, <1>4, <1>5, <1>6, <1>7, <1>8, Steps
<1>10. CASE UNCHANGED vars
  BY <1>10, <1>1 DEF vars
<1>. QED  BY <1>9, <1>10

\* No record of an exec goes missing between the ring and the worker, and no poller
\* sleeps over records (ringbuf_async_io.rs, process_monitor.rs, network_monitor.rs,
\* event_loop.rs, health.rs), for rings and channels of any size, any number of
\* processes and any records left by an earlier agent.
THEOREM NoEventLost == Spec => []EventsAccounted
BY CounterInit, CounterStep, FlowInit, FlowStep, FlowAccounts, PTL DEF Spec
=============================================================================
