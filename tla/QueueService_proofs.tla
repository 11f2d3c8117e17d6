------------------------- MODULE QueueService_proofs -------------------------
(* Proofs about QueueService, for every set of events and workers and every  *)
(* bound: the types, at-most-once handling, the order of the queue, and      *)
(* when it overflows.  The last part is about Reconcile, whose governor      *)
(* turns changes into items of a queue with the same operations.             *)
EXTENDS QueueService, Reconcile, Operators_proofs

\* The types of what is stored and of the history.
StoreTypeOK ==
  /\ clock \in Nat
  /\ q.seen \subseteq Events
  /\ Stored(q) \subseteq Events
  /\ q.items \in [Stored(q) -> Item]
  /\ told \in [Workers -> [Events -> Nat]]
  /\ done \in [Events -> Workers \cup {NoWorker}]

\* The inductive invariant: what is stored was seen; what was seen is stored or
\* settled; settled events are the acked ones and stay in seen; and a live lease
\* that a worker was told is the one its item carries.
StoreInv ==
  /\ Stored(q) \subseteq q.seen
  /\ \A e \in Events : e \in q.seen => e \in Stored(q) \/ Settled(e)
  /\ \A e \in Events : Settled(e) => e \in q.seen
  /\ \A e \in Stored(q) : q.items[e].acked <=> Settled(e)
  /\ \A w \in Workers, e \in Events : Holds(w, e) /\ ~ Settled(e) =>
       /\ e \in Stored(q)
       /\ q.items[e].worker = w
       /\ told[w][e] <= q.items[e].leaseUntil

-----------------------------------------------------------------------------
(* One lemma per operation: it keeps types and invariant, hands out nothing  *)
(* that is settled, and settles nothing that another worker holds.           *)

\* What each step must not do, for NoRedelivery and AckRespectsLease.
StepSafe ==
  \A w \in Workers, e \in Events :
    /\ Settled(e) => told'[w][e] = told[w][e]
    /\ Holds(w, e) /\ ~ Settled(e) => done'[e] \in {NoWorker, w}

\* An insertion, which may prune the settled items.
LEMMA EnqueueStep ==
  ASSUME StoreTypeOK, StoreInv, NEW e \in Events, NEW epoch \in Nat, Enqueue(e, epoch)
  PROVE  StoreTypeOK' /\ StoreInv' /\ StepSafe
<1>1. UNCHANGED <<clock, told, done>>
  BY DEF Enqueue
<1>2. StepSafe
  BY <1>1 DEF StepSafe, StoreTypeOK, Settled
<1>3. CASE e \in q.seen
  <2>1. q' = q
    BY <1>3 DEF Enqueue, Enqueued, Inserts
  <2>2. QED BY <1>1, <1>2, <2>1 DEF StoreTypeOK, StoreInv, Settled, Holds
<1>4. CASE e \notin q.seen
  <2> DEFINE it == NewItem(epoch)
  <2>1. it \in Item /\ ~ it.acked /\ it.worker = NoWorker
    BY DEF NewItem, Item
  <2>2. q' = Enqueued(q, e, it)
    BY DEF Enqueue
  <2> HIDE DEF it
  <2>3. /\ q'.seen = q.seen \cup {e}
        /\ Stored(q') \subseteq Stored(q) \cup {e}
        /\ q'.items = [d \in Stored(q') |-> q'.items[d]]
        /\ \A d \in Stored(q') : q'.items[d] = IF d = e THEN it ELSE q.items[d]
        /\ \A d \in (Stored(q) \cup {e}) \ Stored(q') :
             IF d = e THEN it.acked ELSE q.items[d].acked
    BY <1>4, <2>2, EnqueuedCases
  <2>4. e \notin Stored(q) /\ ~ Settled(e)
    BY <1>4 DEF StoreInv
  <2>5. \A d \in Stored(q') : q'.items[d] \in Item
    BY <2>1, <2>3 DEF StoreTypeOK
  <2>6. StoreTypeOK'
    BY <1>1, <2>3, <2>5 DEF StoreTypeOK
  <2>7. \A d \in Events : Settled(d)' <=> Settled(d)
    BY <1>1 DEF Settled
  <2>8. Stored(q') \subseteq q'.seen
    BY <2>3 DEF StoreInv
  <2>9. \A d \in Events : d \in q'.seen => d \in Stored(q') \/ Settled(d)
    BY <2>1, <2>3, <2>4 DEF StoreInv, StoreTypeOK
  <2>10. \A d \in Stored(q') : q'.items[d].acked <=> Settled(d)
    BY <2>1, <2>3, <2>4 DEF StoreInv
  <2>11. ASSUME NEW w \in Workers, NEW d \in Events, Holds(w, d), ~ Settled(d)
         PROVE  d \in Stored(q') /\ q'.items[d].worker = w
                /\ told[w][d] <= q'.items[d].leaseUntil
    <3>1. d \in Stored(q) /\ q.items[d].worker = w /\ told[w][d] <= q.items[d].leaseUntil
          /\ ~ q.items[d].acked
      BY <2>11 DEF StoreInv
    <3>2. d # e
      BY <2>4, <3>1
    <3>3. d \in Stored(q')
      BY <2>3, <3>1, <3>2
    <3>4. QED BY <2>3, <3>1, <3>2, <3>3
  <2>12. \A w \in Workers, d \in Events : Holds(w, d)' <=> Holds(w, d)
    BY <1>1 DEF Holds
  <2>13. StoreInv'
    <3>1. \A d \in Events : (d \in q.seen => d \in Stored(q) \/ Settled(d))'
      BY <2>7, <2>9
    <3>2. \A d \in Events : (Settled(d) => d \in q.seen)'
      BY <2>3, <2>7 DEF StoreInv
    <3>3. \A d \in Stored(q') : (q.items[d].acked <=> Settled(d))'
      BY <2>6, <2>7, <2>10 DEF StoreTypeOK
    <3>4. \A w \in Workers, d \in Events : (Holds(w, d) /\ ~ Settled(d) =>
            d \in Stored(q) /\ q.items[d].worker = w
            /\ told[w][d] <= q.items[d].leaseUntil)'
      BY <1>1, <2>7, <2>11, <2>12
    <3>5. QED BY <2>8, <3>1, <3>2, <3>3, <3>4 DEF StoreInv
  <2>14. QED BY <1>2, <2>6, <2>13
<1>5. QED BY <1>3, <1>4

\* A poll: leases go to ready items only.
LEMMA PollStep ==
  ASSUME StoreTypeOK, StoreInv, NEW w \in Workers, NEW epoch \in Nat,
         NEW limit \in Nat, NEW now \in Nat, now <= clock, Poll(w, epoch, limit, now)
  PROVE  StoreTypeOK' /\ StoreInv' /\ StepSafe
<1> DEFINE out == Handed(q, epoch, now, limit)
<1>1. /\ UNCHANGED <<clock, done>>
      /\ q' = Polled(q, out, w, now)
      /\ told' = [told EXCEPT ![w] =
                    [e \in Events |-> IF e \in out THEN now + QueueLease ELSE told[w][e]]]
  BY DEF Poll
<1> HIDE DEF out
<1>2. /\ \A e \in out : Ready(q, e, epoch, now)
      /\ Stored(q') = Stored(q) /\ q'.seen = q.seen
      /\ q'.items = [e \in Stored(q) |->
            IF e \in out THEN Leased(q.items[e], w, now) ELSE q.items[e]]
  BY <1>1, PolledItems DEF out
<1>3. /\ told \in [Workers -> [Events -> Nat]] /\ now + QueueLease \in Nat
      /\ q.items \in [Stored(q) -> Item] /\ Stored(q) \subseteq Events /\ clock \in Nat
  BY QueueLeaseAssumption DEF StoreTypeOK
<1>4. /\ told' \in [Workers -> [Events -> Nat]]
      /\ \A v \in Workers, e \in Events :
           told'[v][e] = IF v = w /\ e \in out THEN now + QueueLease ELSE told[v][e]
  BY <1>1, <1>3
<1>5. \A e \in Stored(q) :
        /\ q'.items[e] \in Item
        /\ q'.items[e].acked = q.items[e].acked
        /\ e \in out => q'.items[e].worker = w /\ q'.items[e].leaseUntil = now + QueueLease
        /\ e \notin out => q'.items[e] = q.items[e]
  BY <1>2, <1>3, LeasedItem
<1>6. StoreTypeOK'
  BY <1>1, <1>2, <1>3, <1>4, <1>5 DEF StoreTypeOK
<1>7. \A e \in out : e \in Stored(q) /\ ~ q.items[e].acked
                    /\ (q.items[e].worker = NoWorker \/ q.items[e].leaseUntil <= now)
  BY <1>2 DEF Ready
<1>8. \A e \in out : ~ Settled(e)
  BY <1>7 DEF StoreInv
<1>9. \A e \in Events : Settled(e)' <=> Settled(e)
  BY <1>1 DEF Settled
<1>10. StepSafe
  BY <1>1, <1>4, <1>8 DEF StepSafe, StoreTypeOK, Settled
<1>11. ASSUME NEW v \in Workers, NEW e \in Events, Holds(v, e)', ~ Settled(e)
       PROVE  e \in Stored(q') /\ q'.items[e].worker = v
              /\ told'[v][e] <= q'.items[e].leaseUntil
  <2>1. CASE e \in out /\ v = w
    BY <1>2, <1>3, <1>4, <1>5, <1>7, <2>1
  <2>2. CASE ~ (e \in out /\ v = w)
    <3>1. told'[v][e] = told[v][e] /\ Holds(v, e)
      BY <1>1, <1>4, <1>11, <2>2 DEF Holds
    <3>2. e \in Stored(q) /\ q.items[e].worker = v /\ told[v][e] <= q.items[e].leaseUntil
      BY <1>11, <3>1 DEF StoreInv
    <3>3. q.items[e].leaseUntil \in Nat /\ told[v][e] \in Nat
      BY <1>3, <3>2 DEF Item
    <3>4. q.items[e].leaseUntil > now /\ v # NoWorker
      BY <1>3, <3>1, <3>2, <3>3, WorkersAssumption DEF Holds
    <3>5. e \notin out
      BY <1>7, <3>2, <3>3, <3>4
    <3>6. QED BY <1>2, <1>5, <3>1, <3>2, <3>5
  <2>3. QED BY <2>1, <2>2
<1>12. StoreInv'
  BY <1>2, <1>3, <1>5, <1>9, <1>11 DEF StoreInv
<1>13. QED BY <1>6, <1>10, <1>12

\* An ack settles an item that nobody else holds.
LEMMA AckStep ==
  ASSUME StoreTypeOK, StoreInv, NEW w \in Workers, NEW e \in Events, NEW epoch \in Nat,
         NEW now \in Nat, now <= clock, Ack(w, e, epoch, now)
  PROVE  StoreTypeOK' /\ StoreInv' /\ StepSafe
<1>1. /\ UNCHANGED <<clock, told>>
      /\ AckError(q, e, epoch, w, now) = "none"
      /\ q' = Acked(q, e, w)
      /\ done' = IF done[e] = NoWorker THEN [done EXCEPT ![e] = w] ELSE done
  BY DEF Ack
<1>2. e \in Stored(q) /\ ~ LeasedToOther(q.items[e], w, now)
  BY <1>1 DEF AckError
<1>3. q.items \in [Stored(q) -> Item] /\ q.items[e] \in Item
  BY <1>2 DEF StoreTypeOK
<1>4. /\ Stored(q') = Stored(q) /\ q'.seen = q.seen
      /\ q'.items = [q.items EXCEPT ![e] = AckedBy(q.items[e], w)]
  BY <1>1, <1>3 DEF Acked, Stored
<1>5. /\ q'.items[e] \in Item /\ q'.items[e].acked
      /\ q'.items[e].worker = q.items[e].worker
      /\ q'.items[e].leaseUntil = q.items[e].leaseUntil
  <2>1. q'.items[e] = AckedBy(q.items[e], w)
    BY <1>2, <1>3, <1>4
  <2>2. QED BY <1>3, <2>1, AckedItem
<1>6. \A d \in Stored(q) : d # e => q'.items[d] = q.items[d]
  BY <1>3, <1>4
<1>7. q'.items \in [Stored(q) -> Item]
  BY <1>3, <1>4, <1>5
<1>8. /\ done \in [Events -> Workers \cup {NoWorker}]
      /\ done' \in [Events -> Workers \cup {NoWorker}]
      /\ \A d \in Events : d # e => done'[d] = done[d]
      /\ done'[e] = IF done[e] = NoWorker THEN w ELSE done[e]
  BY <1>1 DEF StoreTypeOK
<1>9. StoreTypeOK'
  BY <1>1, <1>4, <1>7, <1>8 DEF StoreTypeOK
<1>10. Settled(e)' /\ \A d \in Events : d # e => (Settled(d)' <=> Settled(d))
  BY <1>8, WorkersAssumption DEF Settled
<1>11. StepSafe
  <2> SUFFICES ASSUME NEW v \in Workers, NEW d \in Events
               PROVE  /\ told'[v][d] = told[v][d]
                      /\ Holds(v, d) /\ ~ Settled(d) => done'[d] \in {NoWorker, v}
    BY DEF StepSafe
  <2>1. CASE d # e
    BY <1>1, <1>8, <2>1 DEF Settled
  <2>2. CASE d = e
    <3> SUFFICES ASSUME Holds(v, e), ~ Settled(e) PROVE v = w
      BY <1>1, <1>8, <2>2 DEF Settled
    <3>1. q.items[e].worker = v /\ told[v][e] <= q.items[e].leaseUntil /\ ~ q.items[e].acked
      BY <1>2 DEF StoreInv
    <3>2. q.items[e].leaseUntil \in Nat /\ told[v][e] \in Nat /\ clock \in Nat
      BY <1>3 DEF StoreTypeOK, Item
    <3>3. q.items[e].leaseUntil > now
      BY <3>1, <3>2 DEF Holds
    <3>4. QED BY <1>2, <3>1, <3>3, WorkersAssumption DEF LeasedToOther
  <2>3. QED BY <2>1, <2>2
<1>12. \A v \in Workers, d \in Events : Holds(v, d)' <=> Holds(v, d)
  BY <1>1 DEF Holds
<1>13. StoreInv'
  <2>1. Stored(q') \subseteq q'.seen /\ e \in q'.seen
    BY <1>2, <1>4 DEF StoreInv
  <2>2. \A d \in Events : (d \in q.seen => d \in Stored(q) \/ Settled(d))'
    BY <1>2, <1>4, <1>10 DEF StoreInv
  <2>3. \A d \in Events : (Settled(d) => d \in q.seen)'
    BY <1>4, <1>10, <2>1 DEF StoreInv
  <2>4. \A d \in Stored(q') : (q.items[d].acked <=> Settled(d))'
    <3> SUFFICES ASSUME NEW d \in Stored(q) PROVE (q.items[d].acked <=> Settled(d))'
      BY <1>4
    <3>1. CASE d = e
      BY <1>5, <1>10, <3>1
    <3>2. CASE d # e
      <4>1. d \in Events
        BY DEF StoreTypeOK
      <4>2. QED BY <1>6, <1>10, <3>2, <4>1 DEF StoreInv
    <3>3. QED BY <3>1, <3>2
  <2>5. \A v \in Workers, d \in Events : (Holds(v, d) /\ ~ Settled(d) =>
          d \in Stored(q) /\ q.items[d].worker = v /\ told[v][d] <= q.items[d].leaseUntil)'
    BY <1>1, <1>4, <1>6, <1>10, <1>12 DEF StoreInv
  <2> QED BY <2>1, <2>2, <2>3, <2>4, <2>5 DEF StoreInv
<1>14. QED BY <1>9, <1>11, <1>13

-----------------------------------------------------------------------------
\* The invariant and the two promises of StepSafe hold along every behaviour.
LEMMA StoreInvariant == Spec => [](StoreTypeOK /\ StoreInv) /\ [][StepSafe]_vars
<1>1. Init => StoreTypeOK /\ StoreInv
  <2> SUFFICES ASSUME Init PROVE StoreTypeOK /\ StoreInv
    OBVIOUS
  <2>1. Stored(q) = {} /\ q.seen = {} /\ q.items \in [Stored(q) -> Item]
    BY DEF Init, EmptyQueue, Stored
  <2>2. QED BY <2>1 DEF Init, StoreTypeOK, StoreInv, Settled, Holds
<1>2. ASSUME StoreTypeOK, StoreInv, [Next]_vars
      PROVE  StoreTypeOK' /\ StoreInv' /\ (StepSafe \/ UNCHANGED vars)
  <2>1. 0..MaxEpoch \subseteq Nat /\ 1..MaxLimit \subseteq Nat
        /\ \A now \in 1..clock : now \in Nat /\ now <= clock
    BY <1>2, QueueBoundsAssumption DEF StoreTypeOK
  <2>2. CASE Tick
    <3>1. clock' = clock + 1 /\ UNCHANGED <<q, told, done>>
      BY <2>2 DEF Tick
    <3>2. StoreTypeOK' /\ StepSafe
      BY <1>2, <3>1 DEF StoreTypeOK, StepSafe, Settled
    <3>3. \A w \in Workers, e \in Events : Holds(w, e)' => Holds(w, e)
      BY <1>2, <3>1 DEF StoreTypeOK, Holds
    <3>4. StoreInv'
      BY <1>2, <3>1, <3>3 DEF StoreInv, Settled
    <3>5. QED BY <3>2, <3>4
  <2>3. ASSUME NEW e \in Events, NEW epoch \in Epochs, Enqueue(e, epoch)
        PROVE  StoreTypeOK' /\ StoreInv' /\ StepSafe
    BY <1>2, <2>1, <2>3, EnqueueStep DEF Epochs
  <2>4. ASSUME NEW w \in Workers, NEW epoch \in Epochs, NEW now \in 1..clock,
               NEW limit \in 1..MaxLimit, Poll(w, epoch, limit, now)
        PROVE  StoreTypeOK' /\ StoreInv' /\ StepSafe
    BY <1>2, <2>1, <2>4, PollStep DEF Epochs
  <2>5. ASSUME NEW w \in Workers, NEW epoch \in Epochs, NEW now \in 1..clock,
               NEW e \in Events, Ack(w, e, epoch, now)
        PROVE  StoreTypeOK' /\ StoreInv' /\ StepSafe
    BY <1>2, <2>1, <2>5, AckStep DEF Epochs
  <2>6. CASE UNCHANGED vars
    BY <1>2, <2>6 DEF vars, StoreTypeOK, StoreInv, Settled, Holds
  <2>7. QED BY <1>2, <2>2, <2>3, <2>4, <2>5, <2>6 DEF Next
<1>3. StoreTypeOK /\ StoreInv /\ [Next]_vars => StoreTypeOK' /\ StoreInv' /\ [StepSafe]_vars
  BY <1>2
<1>4. QED BY <1>1, <1>3, PTL DEF Spec

\* Two workers never hold the same unsettled event (see OneWorker).
THEOREM OneWorkerHolds == Spec => []OneWorker
<1>1. StoreTypeOK /\ StoreInv => OneWorker
  BY DEF StoreInv, OneWorker
<1>2. QED BY <1>1, StoreInvariant, PTL

\* An event that was taken in stays stored until an ack settles it (see NothingLost).
THEOREM NothingIsLost == Spec => []NothingLost
<1>1. StoreTypeOK /\ StoreInv => NothingLost
  BY DEF StoreTypeOK, StoreInv, NothingLost
<1>2. QED BY <1>1, StoreInvariant, PTL

\* A settled event is never handed out again (see NoRedelivery).
THEOREM NothingIsRedelivered == Spec => NoRedelivery
<1>1. [StepSafe]_vars =>
        [\A w \in Workers, e \in Events : Settled(e) => told'[w][e] = told[w][e]]_vars
  BY DEF StepSafe
<1>2. QED BY <1>1, StoreInvariant, PTL DEF NoRedelivery

\* Nobody settles an event under another worker's live lease (see AckRespectsLease).
THEOREM AcksRespectLeases == Spec => AckRespectsLease
<1>1. [StepSafe]_vars =>
        [\A w \in Workers, e \in Events :
           Holds(w, e) /\ ~ Settled(e) => done'[e] \in {NoWorker, w}]_vars
  BY DEF StepSafe
<1>2. QED BY <1>1, StoreInvariant, PTL DEF AckRespectsLease

-----------------------------------------------------------------------------
(* The order of the queue. *)

\* order lists the events of S, in the order in which they are found in arr.
ListsIn(order, S, arr) ==
  /\ {order[i] : i \in 1..Len(order)} = S
  /\ \A i, j \in 1..Len(order) : i < j =>
       \E k, l \in 1..Len(arr) : k < l /\ arr[k] = order[i] /\ arr[l] = order[j]

\* The history arr contains e.
Has(arr, e) == \E k \in 1..Len(arr) : arr[k] = e

\* It contains nothing twice.
Distinct(arr) == \A k, l \in 1..Len(arr) : arr[k] = arr[l] => k = l

\* Leaving events out does not change the order of the others.
LEMMA AmongLists ==
  ASSUME NEW order \in Seq(Events), NEW arr, NEW S, NEW kept, kept \subseteq S,
         ListsIn(order, S, arr)
  PROVE  Among(order, kept) \in Seq(Events) /\ ListsIn(Among(order, kept), kept, arr)
<1> DEFINE I == {i \in 1..Len(order) : order[i] \in kept}
           new == Selected(order, I)
<1>1. Among(order, kept) = new
  BY DEF Among
<1> HIDE DEF I
<1>2. new \in Seq(Events)
  BY SelectedEntries
<1>3. \E h \in [1..Len(new) -> 1..Len(order)] :
        /\ \A k \in 1..Len(new) : h[k] \in I /\ new[k] = order[h[k]]
        /\ \A k, l \in 1..Len(new) : k < l => h[k] < h[l]
        /\ \A i \in 1..Len(order) : i \in I => \E k \in 1..Len(new) : h[k] = i
  BY SelectedEntries
<1> HIDE DEF new
<1>4. PICK h \in [1..Len(new) -> 1..Len(order)] :
        /\ \A k \in 1..Len(new) : h[k] \in I /\ new[k] = order[h[k]]
        /\ \A k, l \in 1..Len(new) : k < l => h[k] < h[l]
        /\ \A i \in 1..Len(order) : i \in I => \E k \in 1..Len(new) : h[k] = i
  BY <1>3
<1>5. {new[k] : k \in 1..Len(new)} = kept
  <2>1. \A k \in 1..Len(new) : new[k] \in kept
    BY <1>4 DEF I
  <2>2. ASSUME NEW e \in kept PROVE \E k \in 1..Len(new) : new[k] = e
    <3>1. PICK i \in 1..Len(order) : order[i] = e
      BY DEF ListsIn
    <3>2. PICK k \in 1..Len(new) : h[k] = i
      BY <1>4, <3>1 DEF I
    <3>3. QED BY <1>4, <3>1, <3>2
  <2>3. QED BY <2>1, <2>2
<1>6. ASSUME NEW i \in 1..Len(new), NEW j \in 1..Len(new), i < j
      PROVE  \E k, l \in 1..Len(arr) : k < l /\ arr[k] = new[i] /\ arr[l] = new[j]
  <2>1. /\ h[i] \in 1..Len(order) /\ h[j] \in 1..Len(order) /\ h[i] < h[j]
        /\ new[i] = order[h[i]] /\ new[j] = order[h[j]]
    BY <1>4, <1>6
  <2>2. QED BY <2>1 DEF ListsIn
<1>7. QED BY <1>1, <1>2, <1>5, <1>6 DEF ListsIn

\* An event that arrives goes to the end of both.
LEMMA AppendLists ==
  ASSUME NEW order \in Seq(Events), NEW arr \in Seq(Events), NEW S, NEW e \in Events,
         ListsIn(order, S, arr), \A d \in S : Has(arr, d), Distinct(arr), ~ Has(arr, e)
  PROVE  /\ Append(order, e) \in Seq(Events) /\ Append(arr, e) \in Seq(Events)
         /\ ListsIn(Append(order, e), S \cup {e}, Append(arr, e)) /\ Distinct(Append(arr, e))
         /\ \A d : Has(Append(arr, e), d) <=> d = e \/ Has(arr, d)
<1> DEFINE longer == Append(order, e)
           arr2 == Append(arr, e)
<1> DEFINE n == Len(order)
           m == Len(arr)
<1>1. /\ n \in Nat /\ m \in Nat
      /\ longer \in Seq(Events) /\ Len(longer) = n + 1 /\ longer[n + 1] = e
      /\ \A i \in 1..n : longer[i] = order[i]
      /\ arr2 \in Seq(Events) /\ Len(arr2) = m + 1 /\ arr2[m + 1] = e
      /\ \A i \in 1..m : arr2[i] = arr[i]
  BY AppendProperties, LenProperties
<1>2. /\ {order[i] : i \in 1..n} = S
      /\ \A i, j \in 1..n : i < j =>
           \E k, l \in 1..m : k < l /\ arr[k] = order[i] /\ arr[l] = order[j]
      /\ \A d \in S : \E k \in 1..m : arr[k] = d
      /\ \A k \in 1..m : arr[k] # e
      /\ \A k, l \in 1..m : arr[k] = arr[l] => k = l
  BY DEF ListsIn, Distinct, Has
<1> HIDE DEF n, m, longer, arr2
<1>3. /\ \A i \in 1..(n + 1) : i = n + 1 \/ i \in 1..n
      /\ \A i \in 1..(m + 1) : i = m + 1 \/ i \in 1..m
      /\ n + 1 \in 1..(n + 1) /\ m + 1 \in 1..(m + 1)
      /\ 1..n \subseteq 1..(n + 1) /\ 1..m \subseteq 1..(m + 1)
  BY <1>1
<1>4. {longer[i] : i \in 1..(n + 1)} = S \cup {e}
  <2>1. \A i \in 1..(n + 1) : longer[i] \in S \cup {e}
    <3>1. \A i \in 1..n : order[i] \in S
      BY <1>2
    <3>2. QED BY <1>1, <1>3, <3>1
  <2>2. ASSUME NEW d \in S \cup {e} PROVE \E i \in 1..(n + 1) : longer[i] = d
    <3>1. d \in S => \E i \in 1..n : order[i] = d
      BY <1>2
    <3>2. QED BY <1>1, <1>3, <3>1
  <2>3. QED BY <2>1, <2>2
<1>5. \A d : (\E k \in 1..(m + 1) : arr2[k] = d) <=> d = e \/ \E k \in 1..m : arr[k] = d
  BY <1>1, <1>3
<1>6. ASSUME NEW i \in 1..(n + 1), NEW j \in 1..(n + 1), i < j
      PROVE  \E k, l \in 1..(m + 1) : k < l /\ arr2[k] = longer[i] /\ arr2[l] = longer[j]
  <2>1. i \in 1..n
    BY <1>1, <1>6
  <2>2. CASE j = n + 1
    <3>1. PICK k \in 1..m : arr[k] = order[i]
      <4>1. order[i] \in S
        BY <1>2, <2>1
      <4>2. QED BY <1>2, <4>1
    <3>2. k < m + 1 /\ k \in 1..(m + 1)
      BY <1>1
    <3>3. arr2[k] = longer[i] /\ arr2[m + 1] = longer[j]
      BY <1>1, <2>1, <2>2, <3>1
    <3>4. QED BY <1>3, <3>2, <3>3
  <2>3. CASE j # n + 1
    <3>1. j \in 1..n
      BY <1>3, <2>3
    <3>2. PICK k \in 1..m, l \in 1..m : k < l /\ arr[k] = order[i] /\ arr[l] = order[j]
      BY <1>2, <1>6, <2>1, <3>1
    <3>3. arr2[k] = longer[i] /\ arr2[l] = longer[j]
      BY <1>1, <2>1, <3>1, <3>2
    <3>4. QED BY <1>3, <3>2, <3>3
  <2>4. QED BY <2>2, <2>3
<1>7. ASSUME NEW k \in 1..(m + 1), NEW l \in 1..(m + 1), arr2[k] = arr2[l] PROVE k = l
  <2>1. \A p \in 1..m : arr2[p] # e
    BY <1>1, <1>2
  <2>2. CASE k \in 1..m /\ l \in 1..m
    BY <1>1, <1>2, <1>7, <2>2
  <2>3. CASE k \notin 1..m \/ l \notin 1..m
    BY <1>1, <1>3, <1>7, <2>1, <2>3
  <2>4. QED BY <2>2, <2>3
<1>8. ListsIn(longer, S \cup {e}, arr2)
  BY <1>1, <1>4, <1>6 DEF ListsIn
<1>9. Distinct(arr2)
  BY <1>1, <1>7 DEF Distinct
<1>10. \A d : Has(arr2, d) <=> d = e \/ Has(arr, d)
  BY <1>1, <1>5 DEF Has, m
<1>11. QED BY <1>1, <1>8, <1>9, <1>10 DEF longer, arr2

\* The second part of the inductive invariant: order lists the stored events as they
\* arrived, seen is what arrived, and nobody was told anything of an event that no
\* worker has yet been given, nor of a lease beyond the one that an item carries.
OrderInv ==
  /\ q.order \in Seq(Events) /\ arrivals \in Seq(Events)
  /\ ListsIn(q.order, Stored(q), arrivals) /\ Distinct(arrivals)
  /\ \A e : e \in q.seen <=> Has(arrivals, e)
  /\ \A w \in Workers, e \in Events :
       /\ e \notin q.seen \/ (e \in Stored(q) /\ q.items[e].worker = NoWorker) => told[w][e] = 0
       /\ e \in Stored(q) /\ q.items[e].worker # NoWorker => told[w][e] <= q.items[e].leaseUntil

\* OnlyWorkOverflows and NoOvertaking, of one step.
OverflowSafe ==
  Len(arrivals') > Len(arrivals) /\ Len(q'.order) > MaxItems
    => \A e \in Stored(q') : ~ Settled(e)

\* What a poll must not do, for NoOvertaking.
TurnSafe ==
  \A w \in Workers : told'[w] # told[w] =>
    \A i, j \in 1..Len(q.order) :
      LET old == q.order[i]
          new == q.order[j]
          until == told'[w][new]
      IN  /\ i < j /\ until # told[w][new]
          /\ q.items[old].tokenEpoch = q.items[new].tokenEpoch
          => \/ q.items[old].acked
             \/ q.items[old].worker # NoWorker /\ q.items[old].leaseUntil > until - QueueLease
             \/ told[w][old] # until /\ told'[w][old] = until

\* An insertion goes to the end, and pruning keeps the order of what stays.
LEMMA EnqueueOrder ==
  ASSUME StoreTypeOK, StoreInv, OrderInv, NEW e \in Events, NEW epoch \in Nat, Enqueue(e, epoch)
  PROVE  OrderInv' /\ OverflowSafe /\ TurnSafe
<1> DEFINE it == NewItem(epoch)
<1>1. /\ UNCHANGED <<clock, told, done>> /\ q' = Enqueued(q, e, it)
      /\ arrivals' = IF Inserts(q, e) THEN Append(arrivals, e) ELSE arrivals
  BY DEF Enqueue
<1>2. TurnSafe
  BY <1>1 DEF TurnSafe
<1>3. CASE e \in q.seen
  <2>1. q' = q /\ arrivals' = arrivals
    BY <1>1, <1>3 DEF Enqueued, Inserts
  <2>2. OrderInv'
    BY <1>1, <2>1 DEF OrderInv
  <2>3. OverflowSafe
    <3>1. Len(arrivals) \in Nat
      BY LenProperties DEF OrderInv
    <3>2. QED BY <2>1, <3>1 DEF OverflowSafe
  <2>4. QED BY <1>2, <2>2, <2>3
<1>4. CASE e \notin q.seen
  <2> DEFINE grown == [order |-> Append(q.order, e),
                       items |-> [d \in Stored(q) \cup {e} |-> IF d = e THEN it ELSE q.items[d]],
                       seen  |-> q.seen \cup {e}]
  <2>1. arrivals' = Append(arrivals, e)
    BY <1>1, <1>4 DEF Inserts
  <2>2. q' = IF Len(grown.order) > MaxItems THEN Pruned(grown) ELSE grown
    BY <1>1, <1>4 DEF Enqueued, Inserts
  <2>3. /\ grown.order = Append(q.order, e) /\ grown.seen = q.seen \cup {e}
        /\ Stored(grown) = Stored(q) \cup {e}
        /\ \A d \in Stored(grown) : grown.items[d] = IF d = e THEN it ELSE q.items[d]
    BY DEF Stored
  <2>4. ~ it.acked /\ e \notin Stored(q) /\ ~ Settled(e)
    BY <1>4 DEF NewItem, StoreInv
  <2> HIDE DEF grown, it
  <2>5. /\ Append(q.order, e) \in Seq(Events) /\ arrivals' \in Seq(Events)
        /\ ListsIn(Append(q.order, e), Stored(q) \cup {e}, arrivals') /\ Distinct(arrivals')
        /\ \A d : d \in q.seen \cup {e} <=> Has(arrivals', d)
    <3>1. /\ q.order \in Seq(Events) /\ arrivals \in Seq(Events)
          /\ ListsIn(q.order, Stored(q), arrivals) /\ Distinct(arrivals)
          /\ \A d : d \in q.seen <=> Has(arrivals, d)
          /\ Stored(q) \subseteq q.seen
      BY DEF OrderInv, StoreInv
    <3> DEFINE S == Stored(q)
    <3>2. (\A d \in S : Has(arrivals, d)) /\ ~ Has(arrivals, e)
      BY <1>4, <3>1
    <3>3. ListsIn(q.order, S, arrivals)
      BY <3>1
    <3> HIDE DEF S
    <3>4. /\ Append(q.order, e) \in Seq(Events) /\ arrivals' \in Seq(Events)
          /\ ListsIn(Append(q.order, e), S \cup {e}, arrivals') /\ Distinct(arrivals')
          /\ \A d : Has(arrivals', d) <=> d = e \/ Has(arrivals, d)
      <4>1. q.order \in Seq(Events) /\ arrivals \in Seq(Events) /\ Distinct(arrivals)
        BY <3>1
      <4>2. /\ Append(q.order, e) \in Seq(Events) /\ Append(arrivals, e) \in Seq(Events)
            /\ ListsIn(Append(q.order, e), S \cup {e}, Append(arrivals, e))
            /\ Distinct(Append(arrivals, e))
            /\ \A d : Has(Append(arrivals, e), d) <=> d = e \/ Has(arrivals, d)
        BY <3>2, <3>3, <4>1, AppendLists
      <4>3. QED BY <2>1, <4>2
    <3>5. QED BY <3>1, <3>4 DEF S
  <2>6. q'.order \in Seq(Events) /\ ListsIn(q'.order, Stored(q'), arrivals')
    <3>1. CASE Len(grown.order) > MaxItems
      <4> DEFINE kept == {d \in Stored(grown) : ~ grown.items[d].acked}
      <4>1. q' = Pruned(grown) /\ Stored(q') = kept /\ q'.order = Among(grown.order, kept)
        BY <2>2, <3>1, PrunedKeeps DEF Pruned
      <4>2. kept \subseteq Stored(q) \cup {e}
        BY <2>3
      <4> HIDE DEF kept
      <4>3. grown.order \in Seq(Events) /\ ListsIn(grown.order, Stored(q) \cup {e}, arrivals')
        BY <2>3, <2>5
      <4>4. Among(grown.order, kept) \in Seq(Events) /\ ListsIn(Among(grown.order, kept), kept, arrivals')
        BY <4>2, <4>3, AmongLists
      <4>5. QED BY <4>1, <4>4
    <3>2. CASE ~ (Len(grown.order) > MaxItems)
      BY <2>2, <2>3, <2>5, <3>2
    <3>3. QED BY <3>1, <3>2
  <2>7. /\ q'.seen = q.seen \cup {e} /\ Stored(q') \subseteq Stored(q) \cup {e}
        /\ \A d \in Stored(q') : q'.items[d] = IF d = e THEN it ELSE q.items[d]
    <3>1. q' = Enqueued(q, e, it)
      BY <1>1
    <3>2. /\ q'.seen = q.seen \cup {e}
          /\ Stored(q') \subseteq Stored(q) \cup {e}
          /\ q'.items = [d \in Stored(q') |-> q'.items[d]]
          /\ \A d \in Stored(q') : q'.items[d] = IF d = e THEN it ELSE q.items[d]
          /\ \A d \in (Stored(q) \cup {e}) \ Stored(q') :
               IF d = e THEN it.acked ELSE q.items[d].acked
      BY <1>4, <3>1, EnqueuedCases
    <3>3. QED BY <3>2
  <2>8. \A w \in Workers, d \in Events :
          /\ d \notin q'.seen \/ (d \in Stored(q') /\ q'.items[d].worker = NoWorker)
               => told'[w][d] = 0
          /\ d \in Stored(q') /\ q'.items[d].worker # NoWorker
               => told'[w][d] <= q'.items[d].leaseUntil
    <3>1. it.worker = NoWorker
      BY DEF it, NewItem
    <3>2. \A w \in Workers, d \in Events :
            d \notin q'.seen \/ (d \in Stored(q') /\ q'.items[d].worker = NoWorker)
              => told'[w][d] = 0
      BY <1>1, <1>4, <2>7 DEF OrderInv
    <3>3. \A w \in Workers, d \in Events :
            d \in Stored(q') /\ q'.items[d].worker # NoWorker
              => told'[w][d] <= q'.items[d].leaseUntil
      BY <1>1, <2>7, <3>1 DEF OrderInv
    <3>4. QED BY <3>2, <3>3
  <2>9. OrderInv'
    BY <2>5, <2>6, <2>7, <2>8 DEF OrderInv
  <2>10. OverflowSafe
    <3> SUFFICES ASSUME Len(q'.order) > MaxItems, NEW d \in Stored(q') PROVE ~ Settled(d)
      BY DEF OverflowSafe
    <3>1. Len(grown.order) > MaxItems
      BY <2>2
    <3>2. d \in Stored(grown) /\ ~ grown.items[d].acked
      BY <2>2, <3>1, PrunedKeeps
    <3>3. QED BY <2>3, <2>4, <3>2 DEF StoreInv
  <2>11. QED BY <1>2, <2>9, <2>10
<1>5. QED BY <1>3, <1>4

\* A poll changes no order; what it hands out comes before what it leaves.
LEMMA PollOrder ==
  ASSUME StoreTypeOK, StoreInv, OrderInv, NEW w \in Workers, NEW epoch \in Nat,
         NEW limit \in Nat, NEW now \in Nat, Poll(w, epoch, limit, now)
  PROVE  OrderInv' /\ OverflowSafe /\ TurnSafe
<1> DEFINE out == Handed(q, epoch, now, limit)
<1>1. /\ UNCHANGED <<clock, arrivals, done>> /\ q' = Polled(q, out, w, now)
      /\ told' = [told EXCEPT ![w] =
                    [e \in Events |-> IF e \in out THEN now + QueueLease ELSE told[w][e]]]
  BY DEF Poll
<1> DEFINE ready == {i \in 1..Len(q.order) : Ready(q, q.order[i], epoch, now)}
           Before(i) == {j \in ready : j < i}
<1>2. out = {q.order[i] : i \in {i \in ready : Cardinality(Before(i)) < limit}}
  BY DEF Handed
<1> HIDE DEF out
<1>3. /\ \A e \in out : Ready(q, e, epoch, now)
      /\ Stored(q') = Stored(q) /\ q'.seen = q.seen /\ q'.order = q.order
      /\ q'.items = [e \in Stored(q) |->
            IF e \in out THEN Leased(q.items[e], w, now) ELSE q.items[e]]
  BY <1>1, PolledItems DEF out, Polled
<1>4. /\ told \in [Workers -> [Events -> Nat]] /\ now + QueueLease \in Nat /\ now + QueueLease # 0
      /\ q.items \in [Stored(q) -> Item] /\ Stored(q) \subseteq Events
  BY QueueLeaseAssumption DEF StoreTypeOK
<1>5. \A v \in Workers, e \in Events :
        told'[v][e] = IF v = w /\ e \in out THEN now + QueueLease ELSE told[v][e]
  BY <1>1, <1>4
<1>6. OrderInv'
  <2>1. \A v \in Workers, e \in Events :
          e \notin q'.seen \/ (e \in Stored(q') /\ q'.items[e].worker = NoWorker)
            => told'[v][e] = 0
    <3> SUFFICES ASSUME NEW v \in Workers, NEW e \in Events,
                        e \notin q'.seen \/ (e \in Stored(q') /\ q'.items[e].worker = NoWorker)
                 PROVE  told'[v][e] = 0
      OBVIOUS
    <3>1. e \notin out
      <4>1. e \in out => e \in Stored(q)
        BY <1>3 DEF Ready
      <4>2. e \in out => q'.items[e].worker = w
        <5> SUFFICES ASSUME e \in out PROVE q'.items[e].worker = w
          OBVIOUS
        <5>1. q'.items[e] = Leased(q.items[e], w, now) /\ q.items[e] \in Item
          BY <1>3, <1>4, <4>1
        <5>2. QED BY <5>1 DEF Leased, Item
      <4>3. QED BY <1>3, <4>1, <4>2, WorkersAssumption DEF StoreInv
    <3>2. told'[v][e] = told[v][e]
      BY <1>5, <3>1
    <3>3. e \in Stored(q') => q'.items[e] = q.items[e]
      BY <1>3, <3>1
    <3>4. QED BY <1>3, <3>2, <3>3 DEF OrderInv
  <2>2. ASSUME NEW v \in Workers, NEW e \in Stored(q)
        PROVE  q'.items[e].worker # NoWorker => told'[v][e] <= q'.items[e].leaseUntil
    <3>1. e \in Events /\ q.items[e] \in Item /\ told[v][e] \in Nat
      BY <1>4, <2>2
    <3>2. CASE e \notin out
      <4>1. q'.items[e] = q.items[e] /\ told'[v][e] = told[v][e]
        BY <1>3, <1>5, <2>2, <3>1, <3>2
      <4>2. QED BY <2>2, <3>1, <4>1 DEF OrderInv
    <3>3. CASE e \in out
      <4>1. q'.items[e].leaseUntil = now + QueueLease
        <5>1. q'.items[e] = Leased(q.items[e], w, now)
          BY <1>3, <2>2, <3>3
        <5>2. QED BY <3>1, <5>1 DEF Leased, Item
      <4>2. told[v][e] <= now + QueueLease
        <5>1. q.items[e].worker = NoWorker \/ q.items[e].leaseUntil <= now
          BY <1>3, <3>3 DEF Ready
        <5>2. CASE q.items[e].worker = NoWorker
          BY <1>4, <2>2, <3>1, <5>2 DEF OrderInv
        <5>3. CASE q.items[e].worker # NoWorker
          <6>1. told[v][e] <= q.items[e].leaseUntil /\ q.items[e].leaseUntil \in Nat
            BY <2>2, <3>1, <5>3 DEF OrderInv, Item
          <6>2. QED BY <3>1, <5>1, <5>3, <6>1, QueueLeaseAssumption
        <5>4. QED BY <5>2, <5>3
      <4>3. told'[v][e] <= now + QueueLease
        BY <1>4, <1>5, <3>1, <4>2
      <4>4. QED BY <4>1, <4>3
    <3>4. QED BY <3>2, <3>3
  <2>3. /\ q'.order \in Seq(Events) /\ arrivals' \in Seq(Events)
        /\ ListsIn(q'.order, Stored(q'), arrivals') /\ Distinct(arrivals')
        /\ \A e : e \in q'.seen <=> Has(arrivals', e)
    BY <1>1, <1>3 DEF OrderInv
  <2>4. QED BY <1>3, <2>1, <2>2, <2>3 DEF OrderInv
<1>7. OverflowSafe
  <2>1. Len(arrivals) \in Nat
    BY LenProperties DEF OrderInv
  <2>2. QED BY <1>1, <2>1 DEF OverflowSafe
<1>8. TurnSafe
  <2> SUFFICES ASSUME NEW v \in Workers, told'[v] # told[v],
                      NEW i \in 1..Len(q.order), NEW j \in 1..Len(q.order), i < j,
                      told'[v][q.order[j]] # told[v][q.order[j]],
                      q.items[q.order[i]].tokenEpoch = q.items[q.order[j]].tokenEpoch,
                      ~ q.items[q.order[i]].acked,
                      \/ q.items[q.order[i]].worker = NoWorker
                      \/ ~ (q.items[q.order[i]].leaseUntil > told'[v][q.order[j]] - QueueLease)
               PROVE  /\ told[v][q.order[i]] # told'[v][q.order[j]]
                      /\ told'[v][q.order[i]] = told'[v][q.order[j]]
    BY DEF TurnSafe
  <2> DEFINE old == q.order[i]
             new == q.order[j]
  <2>1. Len(q.order) \in Nat /\ q.order \in Seq(Events)
    BY LenProperties DEF OrderInv
  <2>2. /\ old \in Events /\ new \in Events /\ old \in Stored(q)
        /\ q.items[old] \in Item /\ q.items[old].leaseUntil \in Nat
    <3>1. old \in Events /\ new \in Events
      BY <2>1, ElementOfSeq
    <3>2. old \in Stored(q)
      BY <3>1 DEF OrderInv, ListsIn
    <3>3. QED BY <1>4, <3>1, <3>2 DEF Item
  <2>3. v = w /\ new \in out /\ told'[v][new] = now + QueueLease
    BY <1>5, <2>2
  <2>4. q.items[old].worker = NoWorker \/ q.items[old].leaseUntil <= now
    BY <2>2, <2>3, QueueLeaseAssumption
  <2>5. Ready(q, new, epoch, now) /\ Ready(q, old, epoch, now)
    <3>1. Ready(q, new, epoch, now)
      BY <1>3, <2>3
    <3>2. q.items[new].tokenEpoch = epoch
      BY <3>1 DEF Ready
    <3>3. QED BY <2>2, <2>4, <3>1, <3>2 DEF Ready
  <2>6. PICK l \in ready : q.order[l] = new /\ Cardinality(Before(l)) < limit
    BY <1>2, <2>3
  <2>7. l = j
    <3>1. l \in 1..Len(q.order) /\ l \in Int /\ j \in Int
      BY <2>6
    <3> HIDE DEF ready, Before, old, new
    <3>2. ASSUME NEW a \in 1..Len(q.order), NEW b \in 1..Len(q.order), a < b
          PROVE  q.order[a] # q.order[b]
      <4>1. PICK k \in 1..Len(arrivals), m \in 1..Len(arrivals) :
              k < m /\ arrivals[k] = q.order[a] /\ arrivals[m] = q.order[b]
        BY <3>2 DEF OrderInv, ListsIn
      <4>2. k # m
        BY <4>1
      <4>3. QED BY <4>1, <4>2 DEF OrderInv, Distinct
    <3>3. q.order[l] = q.order[j]
      BY <2>6 DEF new
    <3>4. ~ (l < j) /\ ~ (j < l)
      BY <3>1, <3>2, <3>3
    <3>5. QED BY <3>1, <3>4
  <2>8. i \in ready
    BY <2>5
  <2>9. Cardinality(Before(i)) < limit
    <3>1. IsFiniteSet(1..Len(q.order))
      <4>1. 1 \in Int /\ Len(q.order) \in Int
        BY <2>1
      <4>2. QED BY <4>1, FS_Interval
    <3>2. Before(i) \subseteq Before(j) /\ Before(j) \subseteq 1..Len(q.order)
      OBVIOUS
    <3> HIDE DEF Before, ready
    <3>3. IsFiniteSet(Before(j))
      BY <3>1, <3>2, FS_Subset
    <3>4. /\ IsFiniteSet(Before(i)) /\ Cardinality(Before(i)) <= Cardinality(Before(j))
          /\ Cardinality(Before(i)) \in Nat /\ Cardinality(Before(j)) \in Nat
      BY <3>2, <3>3, FS_Subset, FS_CardinalityType
    <3>5. QED BY <2>6, <2>7, <3>4
  <2>10. old \in out
    BY <1>2, <2>8, <2>9
  <2>11. told'[v][old] = now + QueueLease
    BY <1>5, <2>2, <2>3, <2>10
  <2>12. told[v][old] # now + QueueLease
    <3>1. told[v][old] \in Nat
      BY <1>4, <2>2
    <3>2. CASE q.items[old].worker = NoWorker
      BY <1>4, <2>2, <3>2 DEF OrderInv
    <3>3. CASE q.items[old].worker # NoWorker
      <4>1. told[v][old] <= q.items[old].leaseUntil /\ q.items[old].leaseUntil <= now
        BY <2>2, <2>4, <3>3 DEF OrderInv
      <4>2. QED BY <2>2, <3>1, <4>1, QueueLeaseAssumption
    <3>4. QED BY <3>2, <3>3
  <2>13. QED BY <2>3, <2>11, <2>12
<1>9. QED BY <1>6, <1>7, <1>8

\* An ack changes no order.
LEMMA AckOrder ==
  ASSUME StoreTypeOK, StoreInv, OrderInv, NEW w \in Workers, NEW e \in Events,
         NEW epoch, NEW now, Ack(w, e, epoch, now)
  PROVE  OrderInv' /\ OverflowSafe /\ TurnSafe
<1>1. /\ UNCHANGED <<clock, told, arrivals>> /\ q' = Acked(q, e, w)
      /\ AckError(q, e, epoch, w, now) = "none"
  BY DEF Ack
<1>2. e \in Stored(q) /\ q.items \in [Stored(q) -> Item]
  BY <1>1 DEF AckError, StoreTypeOK
<1>3. /\ q'.order = q.order /\ Stored(q') = Stored(q) /\ q'.seen = q.seen
      /\ q'.items = [q.items EXCEPT ![e] = AckedBy(q.items[e], w)]
  BY <1>1, <1>2 DEF Acked, Stored
<1>4. \A d \in Stored(q) : /\ q'.items[d].worker = q.items[d].worker
                           /\ q'.items[d].leaseUntil = q.items[d].leaseUntil
  BY <1>2, <1>3, AckedItem
<1>5. OrderInv'
  BY <1>1, <1>3, <1>4 DEF OrderInv
<1>6. Len(arrivals) \in Nat
  BY LenProperties DEF OrderInv
<1>7. OverflowSafe /\ TurnSafe
  BY <1>1, <1>6 DEF OverflowSafe, TurnSafe
<1>8. QED BY <1>5, <1>7

\* The order of the queue is that of the arrivals, of what is still stored.
LEMMA OrderInvariant == Spec => []OrderInv /\ [][OverflowSafe /\ TurnSafe]_vars
<1>1. Init => OrderInv
  <2> SUFFICES ASSUME Init PROVE OrderInv
    OBVIOUS
  <2>1. Stored(q) = {} /\ q.seen = {} /\ q.order = <<>> /\ arrivals = <<>>
    BY DEF Init, EmptyQueue, Stored
  <2>2. \A w \in Workers, e \in Events : told[w][e] = 0
    BY DEF Init
  <2>3. Len(<<>>) = 0 /\ <<>> \in Seq(Events) /\ 1..0 = {}
    BY EmptySeq
  <2>4. QED BY <2>1, <2>2, <2>3 DEF OrderInv, ListsIn, Distinct, Has
<1>2. ASSUME StoreTypeOK, StoreInv, OrderInv, [Next]_vars
      PROVE  OrderInv' /\ [OverflowSafe /\ TurnSafe]_vars
  <2>1. 0..MaxEpoch \subseteq Nat /\ 1..MaxLimit \subseteq Nat
        /\ \A now \in 1..clock : now \in Nat
    BY <1>2, QueueBoundsAssumption DEF StoreTypeOK
  <2>2. CASE Tick
    <3>1. UNCHANGED <<q, arrivals, told, done>> /\ Len(arrivals) \in Nat
      BY <1>2, <2>2, LenProperties DEF Tick, OrderInv
    <3>2. QED BY <1>2, <3>1 DEF OrderInv, OverflowSafe, TurnSafe
  <2>3. ASSUME NEW e \in Events, NEW epoch \in Epochs, Enqueue(e, epoch)
        PROVE  OrderInv' /\ OverflowSafe /\ TurnSafe
    BY <1>2, <2>1, <2>3, EnqueueOrder DEF Epochs
  <2>4. ASSUME NEW w \in Workers, NEW epoch \in Epochs, NEW now \in 1..clock,
               NEW limit \in 1..MaxLimit, Poll(w, epoch, limit, now)
        PROVE  OrderInv' /\ OverflowSafe /\ TurnSafe
    BY <1>2, <2>1, <2>4, PollOrder DEF Epochs
  <2>5. ASSUME NEW w \in Workers, NEW epoch \in Epochs, NEW now \in 1..clock,
               NEW e \in Events, Ack(w, e, epoch, now)
        PROVE  OrderInv' /\ OverflowSafe /\ TurnSafe
    BY <1>2, <2>5, AckOrder
  <2>6. CASE UNCHANGED vars
    BY <1>2, <2>6 DEF vars, OrderInv
  <2>7. QED BY <1>2, <2>2, <2>3, <2>4, <2>5, <2>6 DEF Next
<1>3. StoreTypeOK /\ StoreInv /\ OrderInv /\ [Next]_vars
        => OrderInv' /\ [OverflowSafe /\ TurnSafe]_vars
  BY <1>2
<1>4. QED BY <1>1, <1>3, StoreInvariant, PTL DEF Spec

\* The queue's fields keep their types and fit each other: the order lists what
\* is stored, each once (see TypeOK).
THEOREM QueueTypes == Spec => []TypeOK
<1>1. Init => clock >= 1
  BY DEF Init
<1>2. clock >= 1 /\ StoreTypeOK /\ [Next]_vars => (clock >= 1)'
  BY DEF Next, Tick, Enqueue, Poll, Ack, vars, StoreTypeOK
<1>3. clock >= 1 /\ StoreTypeOK /\ OrderInv => TypeOK
  BY DEF StoreTypeOK, OrderInv, TypeOK
<1>4. QED BY <1>1, <1>2, <1>3, StoreInvariant, OrderInvariant, PTL DEF Spec

\* The queue lists what it stores in the order of arrival, however often it was
\* pruned (see OrderMatches; queue.go, pruneLocked).
THEOREM OrderIsArrival == Spec => []OrderMatches
<1>1. OrderInv => OrderMatches
  BY DEF OrderInv, ListsIn, Distinct, OrderMatches
<1>2. QED BY <1>1, OrderInvariant, PTL

\* Beyond its limit the queue stores nothing but unsettled work (see
\* OnlyWorkOverflows): what is over the limit after an insertion has not been
\* acked before it.
THEOREM OverflowIsWork == Spec => OnlyWorkOverflows
<1>1. [OverflowSafe /\ TurnSafe]_vars =>
        [Len(arrivals') > Len(arrivals) /\ Len(q'.order) > MaxItems
           => \A e \in Stored(q') : ~ Settled(e)]_vars
  BY DEF OverflowSafe
<1>2. QED BY <1>1, OrderInvariant, PTL DEF OnlyWorkOverflows

\* A poll that stops at its limit leaves nothing of the same epoch that it could
\* have handed out, never leased or with a lease that has run out, in front of what
\* it hands out (see NoOvertaking).
THEOREM NobodyOvertakes == Spec => NoOvertaking
<1>1. [OverflowSafe /\ TurnSafe]_vars => [TurnSafe]_vars
  OBVIOUS
<1>2. QED BY <1>1, OrderInvariant, PTL DEF NoOvertaking, TurnSafe

-----------------------------------------------------------------------------
(* The /reconcile/run requests of a governor, and its queue. *)

\* The queue's seen set is finite, and each count has an event of its own in it.
CountInv ==
  /\ counted \in Nat
  /\ IsFiniteSet(queue.seen)
  /\ counted <= Cardinality(queue.seen)

-----------------------------------------------------------------------------
\* Enqueue adds the event to the seen set, and pruning takes none out of it.
LEMMA EnqueuedSeen ==
  ASSUME NEW qq, NEW p, NEW it
  PROVE  Enqueued(qq, p, it).seen = qq.seen \cup {p}
<1>1. CASE ~ Inserts(qq, p)
  BY <1>1 DEF Enqueued, Inserts
<1>2. CASE Inserts(qq, p)
  BY <1>2 DEF Enqueued, Pruned
<1> QED BY <1>1, <1>2

\* Serving an enqueue request, in time or late, keeps the inequality, and makes room
\* for one more count when the event is new.
LEMMA TakeCounts ==
  ASSUME CountInv, NEW p, Take(p)
  PROVE  /\ IsFiniteSet(queue'.seen)
         /\ Cardinality(queue'.seen) \in Nat
         /\ counted <= Cardinality(queue'.seen)
         /\ Inserts(queue, p) => counted + 1 <= Cardinality(queue'.seen)
<1>1. queue'.seen = queue.seen \cup {p}
  BY EnqueuedSeen DEF Take
<1>2. /\ IsFiniteSet(queue'.seen)
      /\ Cardinality(queue'.seen) = IF p \in queue.seen THEN Cardinality(queue.seen)
                                                ELSE Cardinality(queue.seen) + 1
  BY <1>1, FS_AddElement DEF CountInv
<1>3. Cardinality(queue.seen) \in Nat
  BY FS_CardinalityType DEF CountInv
<1> QED BY <1>2, <1>3 DEF CountInv, Inserts

\* Nothing is counted at first.
LEMMA CountInvInit == RecInit => CountInv
BY FS_EmptySet DEF RecInit, CountInv, EmptyQueue

\* One step per action.
LEMMA CountInvStep ==
  ASSUME CountInv, [RecNext]_recVars
  PROVE  CountInv'
<1>1. ASSUME NEW r \in Runs, Pull(r) PROVE CountInv'
  BY <1>1 DEF Pull, CountInv
<1>2. ASSUME NEW r \in Runs, Skip(r) PROVE CountInv'
  BY <1>2 DEF Skip, CountInv
<1>3. ASSUME NEW r \in Runs, EnqueueToGovernor(r) PROVE CountInv'
  <2> DEFINE p == Head(runs[r].todo)
  <2>1. /\ Take(p)
        /\ counted' = IF Inserts(queue, p) THEN counted + 1 ELSE counted
    BY <1>3 DEF EnqueueToGovernor
  <2> QED BY <2>1, TakeCounts DEF CountInv
<1>4. ASSUME NEW r \in Runs, GiveUp(r) PROVE CountInv'
  BY <1>4 DEF GiveUp, CountInv
<1>5. ASSUME NEW r \in Runs, Reply(r) PROVE CountInv'
  BY <1>5 DEF Reply, CountInv
<1>6. ASSUME NEW r \in Runs, NEW list \in Lists, Start(r, list) PROVE CountInv'
  BY <1>6 DEF Start, CountInv
<1>7. ASSUME NEW p \in Peers, SetFlag(p) \/ ClearFlag(p) PROVE CountInv'
  BY <1>7 DEF SetFlag, ClearFlag, CountInv
<1>8. ASSUME NEW p \in Peers, Serve(p) PROVE CountInv'
  <2>1. Take(p) /\ counted' = counted
    BY <1>8 DEF Serve
  <2> QED BY <2>1, TakeCounts DEF CountInv
<1>9. ASSUME NEW w \in Workers, NEW e \in Events, AckEvent(w, e) PROVE CountInv'
  BY <1>9 DEF AckEvent, Acked, CountInv
<1>10. CASE Claim
  BY <1>10 DEF Claim, CountInv
<1>11. CASE Restart
  BY <1>11, FS_EmptySet DEF Restart, EmptyQueue, CountInv
<1>12. CASE UNCHANGED recVars
  BY <1>12 DEF recVars, CountInv
<1> QED
  BY <1>1, <1>2, <1>3, <1>4, <1>5, <1>6, <1>7, <1>8, <1>9, <1>10, <1>11, <1>12
     DEF RecNext, Step

\* EnqueuedNew never counts an event twice, for any number of peers, requests,
\* timeouts, late requests and restarts (router.dispatch, /reconcile/run).
THEOREM CountedOnceHolds == RecSpec => []CountedOnce
<1>1. CountInv => CountedOnce
  BY DEF CountInv, CountedOnce
<1> QED BY <1>1, CountInvInit, CountInvStep, PTL DEF RecSpec

-----------------------------------------------------------------------------
(* Changes become work. *)

\* A request of /reconcile/run.
Request == [stage : {"idle", "pull", "enqueue"}, todo : Seq(Peers)]
\* The peers it has still to visit.
Left(s) == {s[i] : i \in DOMAIN s}

\* The queue holds nothing but reconcile's items: of epoch 0, and acked only if settled.
GovernorOK ==
  /\ ownEpoch \in Nat
  /\ Stored(queue) \subseteq queue.seen
  /\ queue.seen \subseteq Stored(queue) \cup settled
  /\ queue.items \in [Stored(queue) -> Item]
  /\ \A e \in Stored(queue) : /\ queue.items[e].tokenEpoch = 0
                              /\ queue.items[e].acked => e \in settled

\* What a request owes has been enqueued or is still to be visited.
RunOK(r) ==
  /\ runs[r].stage = "idle" => owed[r] = {}
  /\ runs[r].stage = "enqueue" => runs[r].todo # <<>>
  /\ owed[r] \subseteq dirty
  /\ owed[r] \subseteq queue.seen \cup Left(runs[r].todo)

\* The same for all requests.
RunsOK ==
  /\ runs \in [Runs -> Request]
  /\ owed \in [Runs -> SUBSET Peers]
  /\ \A r \in Runs : RunOK(r)

\* The inductive invariant of ChangesBecomeWork.
WorkInv == GovernorOK /\ RunsOK

\* A list loses its first peer and no other.
LEMMA Visiting ==
  ASSUME NEW s \in Seq(Peers), s # <<>>
  PROVE  /\ Head(s) \in Peers /\ Tail(s) \in Seq(Peers)
         /\ Left(s) = Left(Tail(s)) \cup {Head(s)}
<1>1. /\ Len(s) \in Nat /\ Len(s) >= 1 /\ DOMAIN s = 1..Len(s)
      /\ Head(s) = s[1] /\ Head(s) \in Peers
      /\ Tail(s) \in Seq(Peers) /\ Len(Tail(s)) = Len(s) - 1
      /\ DOMAIN Tail(s) = 1..(Len(s) - 1)
  OBVIOUS
<1>2. \A i \in DOMAIN Tail(s) : i + 1 \in DOMAIN s /\ Tail(s)[i] = s[i + 1]
  BY <1>1
<1>3. \A i \in DOMAIN s : i # 1 => i - 1 \in DOMAIN Tail(s) /\ Tail(s)[i - 1] = s[i]
  BY <1>1, <1>2
<1>4. Left(s) \subseteq Left(Tail(s)) \cup {Head(s)}
  BY <1>1, <1>3 DEF Left
<1>5. Left(Tail(s)) \cup {Head(s)} \subseteq Left(s)
  BY <1>1, <1>2 DEF Left
<1> QED BY <1>1, <1>4, <1>5

\* A request changes its own state only, and seen only grows.
LEMMA OneRequest ==
  ASSUME RunsOK, NEW r \in Runs, NEW run \in Request, NEW set \in SUBSET Peers,
         Becomes(r, run), owed' = [owed EXCEPT ![r] = set],
         dirty' = dirty, queue.seen \subseteq queue'.seen,
         run.stage = "idle" => set = {},
         run.stage = "enqueue" => run.todo # <<>>,
         set \subseteq dirty,
         set \subseteq queue'.seen \cup Left(run.todo)
  PROVE  RunsOK'
<1>1. /\ runs' \in [Runs -> Request] /\ owed' \in [Runs -> SUBSET Peers]
      /\ runs'[r] = run /\ owed'[r] = set
      /\ \A s \in Runs \ {r} : runs'[s] = runs[s] /\ owed'[s] = owed[s]
  BY DEF RunsOK, Becomes
<1>2. RunOK(r)'
  BY <1>1 DEF RunOK
<1>3. ASSUME NEW s \in Runs \ {r} PROVE RunOK(s)'
  BY <1>1, <1>3 DEF RunsOK, RunOK
<1> QED BY <1>1, <1>2, <1>3 DEF RunsOK

\* The same when no request changes.
LEMMA NoRequest ==
  ASSUME RunsOK, UNCHANGED <<runs, owed>>, dirty \subseteq dirty', queue.seen \subseteq queue'.seen
  PROVE  RunsOK'
BY DEF RunsOK, RunOK

\* Steps that leave the queue alone.
LEMMA SameStore ==
  ASSUME GovernorOK, UNCHANGED <<queue, ownEpoch, settled>>
  PROVE  GovernorOK'
BY DEF GovernorOK, Stored

\* Serving an enqueue request.
LEMMA TakeStores ==
  ASSUME GovernorOK, NEW p \in Peers, Take(p), UNCHANGED <<ownEpoch, settled>>
  PROVE  GovernorOK' /\ queue'.seen = queue.seen \cup {p}
<1> DEFINE it == NewItem(0)
<1>1. it \in Item /\ it.tokenEpoch = 0 /\ ~ it.acked
  BY DEF NewItem, Item
<1>2. queue' = Enqueued(queue, p, it)
  BY DEF Take
<1> HIDE DEF it
<1>3. CASE p \in queue.seen
  <2>1. queue' = queue
    BY <1>2, <1>3 DEF Enqueued, Inserts
  <2> QED BY <1>3, <2>1, SameStore
<1>4. CASE p \notin queue.seen
  <2>1. /\ queue'.seen = queue.seen \cup {p}
        /\ Stored(queue') \subseteq Stored(queue) \cup {p}
        /\ queue'.items = [d \in Stored(queue') |-> queue'.items[d]]
        /\ \A d \in Stored(queue') : queue'.items[d] = IF d = p THEN it ELSE queue.items[d]
        /\ \A d \in (Stored(queue) \cup {p}) \ Stored(queue') :
             IF d = p THEN it.acked ELSE queue.items[d].acked
    BY <1>2, <1>4, EnqueuedCases
  <2>2. \A d \in Stored(queue') : /\ queue'.items[d] \in Item
                                  /\ queue'.items[d].tokenEpoch = 0
                                  /\ queue'.items[d].acked => d \in settled
    BY <1>1, <2>1 DEF GovernorOK
  <2>3. Stored(queue') \subseteq queue'.seen
    BY <2>1 DEF GovernorOK
  <2>4. queue'.seen \subseteq Stored(queue') \cup settled
    BY <1>1, <1>4, <2>1 DEF GovernorOK
  <2> QED BY <2>1, <2>2, <2>3, <2>4 DEF GovernorOK
<1> QED BY <1>3, <1>4

\* An ack settles the event and keeps its item.
LEMMA AckStores ==
  ASSUME GovernorOK, NEW w \in Workers, NEW e \in Events, AckEvent(w, e)
  PROVE  GovernorOK' /\ queue'.seen = queue.seen
<1>1. /\ e \in Stored(queue) /\ settled' = settled \cup {e} /\ ownEpoch' = ownEpoch
      /\ queue' = Acked(queue, e, w)
  BY DEF AckEvent, AckError
<1>2. /\ Stored(queue') = Stored(queue) /\ queue'.seen = queue.seen
      /\ queue'.items = [queue.items EXCEPT ![e] = AckedBy(queue.items[e], w)]
  BY <1>1 DEF Acked, Stored, GovernorOK
<1>3. /\ AckedBy(queue.items[e], w) \in Item
      /\ AckedBy(queue.items[e], w).tokenEpoch = queue.items[e].tokenEpoch
  BY <1>1, AckedItem DEF GovernorOK
<1>4. /\ queue'.items \in [Stored(queue) -> Item]
      /\ \A d \in Stored(queue) : /\ queue'.items[d].tokenEpoch = 0
                                  /\ queue'.items[d].acked => d \in settled'
  BY <1>1, <1>2, <1>3 DEF GovernorOK
<1> QED BY <1>1, <1>2, <1>4 DEF GovernorOK

\* A governor that has just been started.
LEMMA WorkInvInit == RecInit => WorkInv
<1> SUFFICES ASSUME RecInit PROVE WorkInv
  OBVIOUS
<1>1. Stored(queue) = {} /\ queue.seen = {} /\ queue.items \in [Stored(queue) -> Item]
  BY DEF RecInit, EmptyQueue, Stored
<1>2. Idle \in Request /\ Idle.stage = "idle"
  BY DEF Idle, Request
<1> QED BY <1>1, <1>2 DEF RecInit, WorkInv, GovernorOK, RunsOK, RunOK

\* ... or started again.
LEMMA RestartStep ==
  ASSUME Restart
  PROVE  WorkInv'
<1>1. Stored(queue') = {} /\ queue'.seen = {} /\ queue'.items \in [Stored(queue') -> Item]
  BY DEF Restart, EmptyQueue, Stored
<1>2. Idle \in Request /\ Idle.stage = "idle"
  BY DEF Idle, Request
<1> QED BY <1>1, <1>2 DEF Restart, WorkInv, GovernorOK, RunsOK, RunOK

\* The actions of a request that leave the queue alone.
LEMMA RequestStep ==
  ASSUME WorkInv, NEW r \in Runs,
         Pull(r) \/ Skip(r) \/ GiveUp(r) \/ Reply(r) \/ \E list \in Lists : Start(r, list)
  PROVE  WorkInv'
<1>1. UNCHANGED <<queue, ownEpoch, settled, dirty>>
  BY DEF Pull, Skip, GiveUp, Reply, Start
<1>2. GovernorOK'
  BY <1>1, SameStore DEF WorkInv
<1>3. /\ runs[r] \in Request /\ owed[r] \in SUBSET Peers /\ RunOK(r)
      /\ owed \in [Runs -> SUBSET Peers]
  BY DEF WorkInv, RunsOK
<1>4. CASE \E list \in Lists : Start(r, list)
  <2>1. PICK list \in Lists : Start(r, list)
    BY <1>4
  <2>2. list \in Seq(Peers)
    BY DEF Lists
  <2> DEFINE run == [stage |-> "pull", todo |-> list]
             set == dirty \cap {list[i] : i \in DOMAIN list}
  <2>3. run \in Request /\ set \in SUBSET Peers /\ set \subseteq Left(list)
    BY <2>2 DEF Request, Left
  <2> QED BY <1>1, <1>2, <2>1, <2>3, OneRequest DEF Start, WorkInv
<1>5. CASE Reply(r)
  <2> DEFINE set == {}
  <2>1. Idle \in Request /\ Idle.stage = "idle"
    BY DEF Idle, Request
  <2>2. Becomes(r, Idle) /\ owed' = [owed EXCEPT ![r] = set]
    BY <1>5 DEF Reply
  <2>3. /\ set \in SUBSET Peers /\ set \subseteq dirty
        /\ set \subseteq queue'.seen \cup Left(Idle.todo)
        /\ Idle.stage = "enqueue" => Idle.todo # <<>>
    BY <2>1
  <2>4. set = {}
    OBVIOUS
  <2> HIDE DEF set
  <2> QED BY <1>1, <1>2, <2>1, <2>2, <2>3, <2>4, OneRequest DEF WorkInv
<1>6. ASSUME runs[r].todo # <<>>, Becomes(r, Visited(r)),
             NEW set \in SUBSET owed[r], Head(runs[r].todo) \notin set,
             owed' = [owed EXCEPT ![r] = set]
      PROVE  WorkInv'
  <2>1. /\ Visited(r) \in Request /\ Visited(r).stage = "pull"
        /\ Visited(r).todo = Tail(runs[r].todo)
        /\ Left(runs[r].todo) = Left(Visited(r).todo) \cup {Head(runs[r].todo)}
    BY <1>3, <1>6, Visiting DEF Visited, Request
  <2>2. set \in SUBSET Peers /\ set \subseteq dirty
        /\ set \subseteq queue'.seen \cup Left(Visited(r).todo)
    BY <1>1, <1>3, <1>6, <2>1 DEF RunOK
  <2> QED BY <1>1, <1>2, <1>6, <2>1, <2>2, OneRequest DEF WorkInv
<1>7. CASE Skip(r) \/ GiveUp(r)
  <2> DEFINE set == owed[r] \ {Head(runs[r].todo)}
  <2>1. owed' = [owed EXCEPT ![r] = set] /\ Becomes(r, Visited(r))
    BY <1>7 DEF Skip, GiveUp, Forgive
  <2>2. runs[r].todo # <<>>
    BY <1>3, <1>7 DEF Skip, GiveUp, RunOK
  <2> QED BY <1>6, <2>1, <2>2
<1>8. CASE Pull(r)
  <2>1. runs[r].todo # <<>> /\ owed' = [owed EXCEPT ![r] = owed[r]]
    BY <1>3, <1>8 DEF Pull
  <2>2. CASE Head(runs[r].todo) \in dirty
    <3> DEFINE run == [runs[r] EXCEPT !.stage = "enqueue"]
    <3>1. /\ run \in Request /\ run.stage = "enqueue" /\ run.todo = runs[r].todo
          /\ Becomes(r, run)
      BY <1>3, <1>8, <2>2 DEF Pull, Request
    <3> HIDE DEF run
    <3>2. owed[r] \subseteq dirty /\ owed[r] \subseteq queue'.seen \cup Left(run.todo)
      BY <1>1, <1>3, <3>1 DEF RunOK
    <3> QED BY <1>1, <1>2, <1>3, <2>1, <3>1, <3>2, OneRequest DEF WorkInv
  <2>3. CASE Head(runs[r].todo) \notin dirty
    <3>1. Head(runs[r].todo) \notin owed[r] /\ Becomes(r, Visited(r))
      BY <1>3, <1>8, <2>3 DEF Pull, RunOK
    <3> QED BY <1>6, <2>1, <3>1
  <2> QED BY <2>2, <2>3
<1> QED BY <1>4, <1>5, <1>7, <1>8

\* An enqueue that is answered in time.
LEMMA RequestEnqueues ==
  ASSUME WorkInv, NEW r \in Runs, EnqueueToGovernor(r)
  PROVE  WorkInv'
<1> DEFINE p == Head(runs[r].todo)
<1>1. /\ runs[r] \in Request /\ owed[r] \in SUBSET Peers /\ RunOK(r)
      /\ owed' = [owed EXCEPT ![r] = owed[r]]
      /\ runs[r].todo # <<>> /\ runs[r].todo \in Seq(Peers)
  BY DEF WorkInv, RunsOK, RunOK, Request, EnqueueToGovernor
<1>2. /\ Visited(r) \in Request /\ Visited(r).stage = "pull"
      /\ p \in Peers
      /\ Left(runs[r].todo) = Left(Visited(r).todo) \cup {p}
  BY <1>1, Visiting DEF Visited, Request
<1>3. GovernorOK' /\ queue'.seen = queue.seen \cup {p}
  BY <1>2, TakeStores DEF EnqueueToGovernor, WorkInv
<1>4. owed[r] \subseteq dirty /\ owed[r] \subseteq queue'.seen \cup Left(Visited(r).todo)
  BY <1>1, <1>2, <1>3 DEF RunOK
<1>5. Becomes(r, Visited(r)) /\ dirty' = dirty /\ queue.seen \subseteq queue'.seen
  BY <1>3 DEF EnqueueToGovernor
<1> QED BY <1>1, <1>2, <1>3, <1>4, <1>5, OneRequest DEF WorkInv

\* A cleared flag is owed by nobody.
LEMMA ClearStep ==
  ASSUME WorkInv, NEW p \in Peers, ClearFlag(p)
  PROVE  WorkInv'
<1>1. GovernorOK'
  BY SameStore DEF ClearFlag, WorkInv
<1>2. /\ runs' = runs /\ queue' = queue /\ dirty' = dirty \ {p}
      /\ owed' = [r \in Runs |-> owed[r] \ {p}]
  BY DEF ClearFlag
<1>3. ASSUME NEW r \in Runs PROVE RunOK(r)'
  BY <1>2 DEF WorkInv, RunsOK, RunOK
<1> QED BY <1>1, <1>2, <1>3 DEF WorkInv, RunsOK

\* One step per action.
LEMMA WorkInvStep ==
  ASSUME WorkInv, [RecNext]_recVars
  PROVE  WorkInv'
<1>1. ASSUME NEW r \in Runs, Step(r) \/ \E list \in Lists : Start(r, list) PROVE WorkInv'
  BY <1>1, RequestStep, RequestEnqueues DEF Step
<1>2. ASSUME NEW p \in Peers, SetFlag(p) PROVE WorkInv'
  BY <1>2, SameStore, NoRequest DEF SetFlag, WorkInv
<1>3. ASSUME NEW p \in Peers, Serve(p) PROVE WorkInv'
  <2>1. GovernorOK' /\ queue.seen \subseteq queue'.seen
    BY <1>3, TakeStores DEF Serve, WorkInv
  <2> QED BY <1>3, <2>1, NoRequest DEF Serve, WorkInv
<1>4. ASSUME NEW w \in Workers, NEW e \in Events, AckEvent(w, e) PROVE WorkInv'
  <2>1. GovernorOK' /\ queue.seen \subseteq queue'.seen
    BY <1>4, AckStores DEF WorkInv
  <2> QED BY <1>4, <2>1, NoRequest DEF AckEvent, WorkInv
<1>5. CASE Claim
  <2>1. GovernorOK'
    BY <1>5 DEF Claim, WorkInv, GovernorOK, Stored
  <2> QED BY <1>5, <2>1, NoRequest DEF Claim, WorkInv
<1>6. CASE UNCHANGED recVars
  BY <1>6, SameStore, NoRequest DEF recVars, WorkInv
<1> QED BY <1>1, <1>2, <1>3, <1>4, <1>5, <1>6, ClearStep, RestartStep DEF RecNext

\* Every flag that stood all along is an event of the queue when the request replies,
\* and waits for a worker before the first claim unless the peer's event was acked
\* (router.dispatch, /reconcile/run; queue.Enqueue).
THEOREM ChangesBecomeWorkHolds == RecSpec => []ChangesBecomeWork
<1>1. WorkInv => ChangesBecomeWork
  <2> SUFFICES ASSUME WorkInv, NEW r \in Runs, runs[r].todo = <<>>, NEW p \in owed[r]
               PROVE  p \in queue.seen /\ (Waiting(p) \/ p \in settled \/ ownEpoch > 0)
    BY DEF ChangesBecomeWork
  <2>1. Left(runs[r].todo) = {}
    BY DEF Left
  <2>2. p \in queue.seen
    BY <2>1 DEF WorkInv, RunsOK, RunOK
  <2>3. p \in Stored(queue) \/ p \in settled
    BY <2>2 DEF WorkInv, GovernorOK
  <2> QED BY <2>2, <2>3 DEF Waiting, WorkInv, GovernorOK
<1> QED BY <1>1, WorkInvInit, WorkInvStep, PTL DEF RecSpec
=============================================================================
