---------------------------- MODULE QueueService ----------------------------
(* The work queue of one instance and its workers.                           *)
(*                                                                           *)
(* Here the caller's epoch and time are arbitrary: any epoch, and any time   *)
(* that is past, because router.dispatch takes now := time.Now() before the  *)
(* queue's lock and reads the epoch in an earlier critical section.          *)
(* Dispatch models that caller and is shown to implement this module.        *)
EXTENDS QueueState

CONSTANTS
  MaxEpoch,     \* bound: epochs are 0..MaxEpoch
  MaxClock,     \* bound: the last instant
  MaxLimit      \* bound: poll limits are 1..MaxLimit

ASSUME QueueBoundsAssumption ==
  MaxEpoch \in Nat /\ MaxClock \in Nat /\ MaxLimit \in Nat \ {0}

VARIABLES
  clock,        \* time.Now()
  q,            \* the queue
  arrivals,     \* history: the inserted events, in the order of insertion
  told,         \* history: told[w][e], the lease end the last poll reply gave w for e
  done          \* history: done[e], the worker whose ack settled e first

vars == <<clock, q, arrivals, told, done>>

Epochs == 0..MaxEpoch

Init ==
  /\ clock = 1
  /\ q = EmptyQueue
  /\ arrivals = <<>>
  /\ told = [w \in Workers |-> [e \in Events |-> 0]]
  /\ done = [e \in Events |-> NoWorker]

Tick ==
  /\ clock < MaxClock
  /\ clock' = clock + 1
  /\ UNCHANGED <<q, arrivals, told, done>>

Enqueue(e, epoch) ==
  /\ q' = Enqueued(q, e, NewItem(epoch))
  /\ arrivals' = IF Inserts(q, e) THEN Append(arrivals, e) ELSE arrivals
  /\ UNCHANGED <<clock, told, done>>

Poll(w, epoch, limit, now) ==
  LET out == Handed(q, epoch, now, limit)
  IN  /\ q' = Polled(q, out, w, now)
      /\ told' = [told EXCEPT ![w] =
                    [e \in Events |-> IF e \in out THEN now + QueueLease ELSE told[w][e]]]
      /\ UNCHANGED <<clock, arrivals, done>>

\* A refused ack changes nothing.
Ack(w, e, epoch, now) ==
  /\ AckError(q, e, epoch, w, now) = "none"
  /\ q' = Acked(q, e, w)
  /\ done' = IF done[e] = NoWorker THEN [done EXCEPT ![e] = w] ELSE done
  /\ UNCHANGED <<clock, arrivals, told>>

Next ==
  \/ Tick
  \/ \E e \in Events, epoch \in Epochs : Enqueue(e, epoch)
  \/ \E w \in Workers, epoch \in Epochs, now \in 1..clock :
       \/ \E limit \in 1..MaxLimit : Poll(w, epoch, limit, now)
       \/ \E e \in Events : Ack(w, e, epoch, now)

Spec == Init /\ [][Next]_vars

-----------------------------------------------------------------------------
\* Every variable has its type.
TypeOK ==
  /\ clock \in Nat /\ clock >= 1
  /\ q.order \in Seq(Events)
  /\ q.seen \subseteq Events
  /\ Stored(q) \subseteq Events
  /\ q.items \in [Stored(q) -> Item]
  /\ arrivals \in Seq(Events)
  /\ told \in [Workers -> [Events -> Nat]]
  /\ done \in [Events -> Workers \cup {NoWorker}]

Settled(e) == done[e] # NoWorker
Holds(w, e) == told[w][e] > clock

\* Two workers never both hold a live lease on the same unsettled event, however
\* old the times are that their polls carried into the queue.
OneWorker ==
  \A v, w \in Workers, e \in Events :
    Holds(v, e) /\ Holds(w, e) /\ ~ Settled(e) => v = w

\* No work is lost: an event that was taken in stays stored until an ack has
\* settled it, whatever is pruned in between.
NothingLost ==
  \A e \in q.seen : e \in Stored(q) \/ Settled(e)

\* order lists the stored events, each once, and in the order of their arrival.
OrderMatches ==
  /\ {q.order[i] : i \in 1..Len(q.order)} = Stored(q)
  /\ \A i, j \in 1..Len(q.order) : i < j =>
       \E k, l \in 1..Len(arrivals) :
         k < l /\ arrivals[k] = q.order[i] /\ arrivals[l] = q.order[j]
  /\ \A k, l \in 1..Len(arrivals) : arrivals[k] = arrivals[l] => k = l

\* An event that an ack has settled is never handed out again: not by a poll
\* that was under way, nor after its item was pruned and the event was reported
\* once more ("ZMESH:DEDUP: EventID is the idempotency key across
\* retries/reconcile").
NoRedelivery ==
  [][\A w \in Workers, e \in Events : Settled(e) => told'[w][e] = told[w][e]]_vars

\* While a worker holds a live lease on an event, nobody else settles it.
AckRespectsLease ==
  [][\A w \in Workers, e \in Events :
       Holds(w, e) /\ ~ Settled(e) => done'[e] \in {NoWorker, w}]_vars

\* A poll passes over nothing older than what it hands out, be it new work or work
\* whose worker has let its lease run out: an older stored event of the same epoch is
\* acked, was under a lease at the time that the poll carried, or is handed out by the
\* same poll, until the same time.
NoOvertaking ==
  [][\A w \in Workers : told'[w] # told[w] =>
       \A i, j \in 1..Len(q.order) :
         LET old   == q.order[i]
             new   == q.order[j]
             until == told'[w][new]
         IN  /\ i < j /\ until # told[w][new]
             /\ q.items[old].tokenEpoch = q.items[new].tokenEpoch
             => \/ q.items[old].acked
                \/ q.items[old].worker # NoWorker /\ q.items[old].leaseUntil > until - QueueLease
                \/ told[w][old] # until /\ told'[w][old] = until]_vars

\* The queue outgrows MaxItems only with work that is not finished: whenever an
\* insertion leaves it longer, none of the stored events is settled.
OnlyWorkOverflows ==
  [][Len(arrivals') > Len(arrivals) /\ Len(q'.order) > MaxItems
       => \A e \in Stored(q') : ~ Settled(e)]_vars
=============================================================================
