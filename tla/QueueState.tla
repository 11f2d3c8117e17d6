----------------------------- MODULE QueueState -----------------------------
(* The work queue of one instance (src/internal/queue/queue.go): three       *)
(* fields, changed together while q.mu is held.  The operators are pure:     *)
(* QueueService and Dispatch apply them in steps that stand for one critical *)
(* section.                                                                  *)
EXTENDS Selection, FiniteSets

CONSTANTS
  Events,       \* event_id values (the empty one is refused on entry)
  Workers,      \* worker_node_id values (the empty one is refused on entry)
  NoWorker,     \* the empty WorkerNodeID / AckBy
  QueueLease,   \* Queue.lease, in clock ticks
  MaxItems      \* Queue.maxItems

ASSUME WorkersAssumption == NoWorker \notin Workers
ASSUME QueueLeaseAssumption == QueueLease \in Nat \ {0}
ASSUME MaxItemsAssumption == MaxItems \in Nat

Item == [tokenEpoch : Nat, worker : Workers \cup {NoWorker}, leaseUntil : Nat,
         acked : BOOLEAN, ackBy : Workers \cup {NoWorker}]

\* An item as clients enqueue it.
NewItem(epoch) ==
  [tokenEpoch |-> epoch, worker |-> NoWorker, leaseUntil |-> 0,
   acked |-> FALSE, ackBy |-> NoWorker]

\* order: event ids in arrival order; items: what is stored; seen: every event
\* id ever inserted (it is never cleared).
EmptyQueue == [order |-> <<>>, items |-> [e \in {} |-> NewItem(0)], seen |-> {}]

-----------------------------------------------------------------------------
Stored(q) == DOMAIN q.items

\* The events of an order that are in kept.
Among(order, kept) == Selected(order, {i \in 1..Len(order) : order[i] \in kept})

\* Wrong: items under a lease are dropped with the acked ones.
PrunedLeased(q) ==
  LET kept == {e \in Stored(q) : ~ q.items[e].acked /\ q.items[e].worker = NoWorker}
  IN  [order |-> Among(q.order, kept), items |-> [e \in kept |-> q.items[e]],
       seen |-> q.seen]

\* Wrong: a pruned event may come again.
PrunedForgetful(q) ==
  LET kept == {e \in Stored(q) : ~ q.items[e].acked}
  IN  [order |-> Among(q.order, kept), items |-> [e \in kept |-> q.items[e]],
       seen |-> kept]

\* Wrong: acked events leave the map but not the order.
PrunedMapOnly(q) ==
  [order |-> q.order,
   items |-> [e \in {d \in Stored(q) : ~ q.items[d].acked} |-> q.items[e]],
   seen  |-> q.seen]

\* Wrong: pruning does nothing.
PrunedNot(q) == q

\* pruneLocked: acked items leave the queue, the order of the others stays.
Pruned(q) ==
  LET kept == {e \in Stored(q) : ~ q.items[e].acked}
  IN  [order |-> Among(q.order, kept), items |-> [e \in kept |-> q.items[e]],
       seen |-> q.seen]

\* Enqueue: an event id is inserted once in the life of the queue.
Inserts(q, e) == e \notin q.seen

Enqueued(q, e, it) ==
  LET grown == [order |-> Append(q.order, e),
                items |-> [d \in Stored(q) \cup {e} |-> IF d = e THEN it ELSE q.items[d]],
                seen  |-> q.seen \cup {e}]
      full  == Len(grown.order) > MaxItems
  IN  IF ~ Inserts(q, e) THEN q ELSE IF full THEN Pruned(grown) ELSE grown

\* Wrong: a lease is never looked at.
ReadyAlways(q, e, epoch, now) ==
  /\ e \in Stored(q)
  /\ ~ q.items[e].acked
  /\ q.items[e].tokenEpoch = epoch

\* Wrong: epochs are not compared.
ReadyUnfenced(q, e, epoch, now) ==
  /\ e \in Stored(q)
  /\ ~ q.items[e].acked
  /\ q.items[e].worker = NoWorker \/ q.items[e].leaseUntil <= now

\* Wrong: an item is leased once, and not again when its lease has ended.
ReadyOnce(q, e, epoch, now) ==
  /\ e \in Stored(q)
  /\ ~ q.items[e].acked
  /\ q.items[e].tokenEpoch = epoch
  /\ q.items[e].worker = NoWorker

\* Poll: the items it may hand out.
Ready(q, e, epoch, now) ==
  /\ e \in Stored(q)
  /\ ~ q.items[e].acked
  /\ q.items[e].tokenEpoch = epoch
  /\ q.items[e].worker = NoWorker \/ q.items[e].leaseUntil <= now

\* The events that Poll hands out: the first limit ready ones in queue order.
Handed(q, epoch, now, limit) ==
  LET ready == {i \in 1..Len(q.order) : Ready(q, q.order[i], epoch, now)}
  IN  {q.order[i] : i \in {i \in ready : Cardinality({j \in ready : j < i}) < limit}}

\* Wrong: the lease ends before it begins.
LeasedBackwards(it, w, now) == [it EXCEPT !.worker = w, !.leaseUntil = now - QueueLease]

Leased(it, w, now) == [it EXCEPT !.worker = w, !.leaseUntil = now + QueueLease]

\* The queue after Poll has leased the events out to w.
Polled(q, out, w, now) ==
  [order |-> q.order,
   items |-> [e \in Stored(q) |->
                IF e \in out THEN Leased(q.items[e], w, now) ELSE q.items[e]],
   seen  |-> q.seen]

\* Wrong: anybody may ack.
AckErrorUnleased(q, e, epoch, w, now) ==
  CASE e \notin Stored(q)                 -> "not_found"
    [] e \in Stored(q) /\ q.items[e].tokenEpoch # epoch -> "conflict"
    [] OTHER                              -> "none"

LeasedToOther(it, w, now) ==
  it.worker \notin {NoWorker, w} /\ it.leaseUntil > now /\ ~ it.acked

\* Ack: the error it returns.
AckError(q, e, epoch, w, now) ==
  CASE e \notin Stored(q) -> "not_found"
    [] e \in Stored(q) /\ (\/ q.items[e].tokenEpoch # epoch
                           \/ LeasedToOther(q.items[e], w, now)) -> "conflict"
    [] OTHER -> "none"

AckedBy(it, w) == [it EXCEPT !.acked = TRUE, !.ackBy = w]

\* The queue after a successful Ack.  Acking again is allowed and takes the
\* item over.
Acked(q, e, w) ==
  [order |-> q.order,
   items |-> [q.items EXCEPT ![e] = AckedBy(@, w)],
   seen  |-> q.seen]
=============================================================================
