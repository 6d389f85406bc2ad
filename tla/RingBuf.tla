------------------------------ MODULE RingBuf ------------------------------
(***************************************************************************)
(* A BPF ring buffer and the tokio task that drains it through AsyncFd, as *)
(* a record:                                                               *)
(*   q        records committed and not consumed, oldest first             *)
(*   ready    tokio's readiness of the descriptor                          *)
(*   fresh    readiness was set again since the drain in progress began    *)
(*   drain    the closure of async_io_mut is running                       *)
(*   drained  drained_any                                                  *)
(***************************************************************************)
EXTENDS Naturals, Sequences

\* A record that the program reserved and then discarded.
Discarded == [discarded |-> TRUE]

EmptyRing ==
  [q |-> <<>>, ready |-> FALSE, fresh |-> FALSE, drain |-> FALSE, drained |-> FALSE]

\* A commit wakes the poller only when the consumer has consumed all before it.
Commit(ring, x) ==
  [ring EXCEPT !.q = Append(@, x),
               !.ready = @ \/ ring.q = <<>>,
               !.fresh = @ \/ ring.q = <<>>]

\* async_io_mut calls its closure when the descriptor is ready.
CanEnter(ring) == ring.ready /\ ~ ring.drain
Enter(ring) == [ring EXCEPT !.drain = TRUE, !.drained = FALSE, !.fresh = FALSE]

\* ring.next() skips the discarded records and consumes the first other one.
Consume(ring) ==
  [ring EXCEPT !.q = Tail(@), !.drained = @ \/ Head(ring.q) # Discarded]

\* Only an empty drain reports WouldBlock.
ringbuf_drain_outcome(drained_any) == IF drained_any THEN "Ok" ELSE "WouldBlock"

\* next() returned None.  On WouldBlock tokio clears the readiness, unless it
\* was set again in the meantime; otherwise it is kept.
Leave(ring) ==
  [ring EXCEPT !.drain = FALSE,
               !.ready = IF ringbuf_drain_outcome(ring.drained) = "WouldBlock"
                           THEN ring.fresh ELSE @]

\* A closure that returns Ok early, with records left.
Abandon(ring) == [ring EXCEPT !.drain = FALSE]

Ring(Item, capacity) ==
  {r \in [q : Seq(Item), ready : BOOLEAN, fresh : BOOLEAN, drain : BOOLEAN,
          drained : BOOLEAN] : Len(r.q) <= capacity}

\* Records are never left behind by a poller that sleeps.
Wakeful(ring) == ring.q # <<>> => ring.ready \/ ring.drain
=============================================================================
