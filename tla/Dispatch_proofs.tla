---------------------------- MODULE Dispatch_proofs ----------------------------
(* Proofs about Dispatch, for every set of nodes, workers and events and for *)
(* every bound: the queue behind the router is a QueueService, a closed      *)
(* epoch is fenced, and the event log tells the queue's story.               *)
(* The last part is about EventFeed, whose instance keeps the same log, and  *)
(* about the reader of it.                                                   *)
EXTENDS Dispatch, EventFeed, Operators_proofs

\* A poll or an ack that a handler may carry.
Taken(r) ==
  \/ \E w \in Workers, limit \in 1..MaxLimit, now \in 1..clock : r = Polling(w, limit, now)
  \/ \E w \in Workers, e \in Events, now \in 1..clock : r = Acking(w, e, now)

\* The inductive invariant: what the handlers carry.  Times are past, and epochs
\* are not ahead of the token, because epochs only grow.
HandlerInv ==
  /\ clock \in Nat /\ clock >= 1
  /\ tok \in State /\ tok.epoch <= MaxEpoch
  /\ \A r \in arrived : Taken(r)
  /\ \A f \in fenced : /\ f.epoch \in 0..tok.epoch
                       /\ Taken(f.req)

-----------------------------------------------------------------------------
(* The token's epoch. *)

\* An operation keeps the epoch or, if it is a claim, may raise it by one.
LEMMA OperateEpoch ==
  ASSUME tok \in State, NEW op \in TokenOps, NEW n, op = "status" \/ n \in Nodes,
         NEW now \in Nat, Operate(op, n, now)
  PROVE  /\ tok' \in State
         /\ tok'.epoch = tok.epoch \/ (op = "claim" /\ tok'.epoch = tok.epoch + 1)
<1> DEFINE t == ExpireIfNeeded(tok, now)
<1>1. tok' = TokenOutcome(op, tok, n, now).tok
  BY DEF Operate
<1>2. t \in State /\ t.epoch = tok.epoch
  BY DEF ExpireIfNeeded, Cleared, State, ZeroTime
<1>3. \/ tok' = t
      \/ op = "claim" /\ n \in Nodes /\ tok' = Issued(t, n, now)
      \/ tok' = Extended(t, now)
      \/ tok' = Cleared(t)
  <2>1. CASE op = "claim"
    BY <1>1, <2>1 DEF TokenOutcome, ClaimOutcome, Outcome
  <2>2. CASE op = "renew"
    BY <1>1, <2>2 DEF TokenOutcome, RenewOutcome, Outcome
  <2>3. CASE op = "release"
    BY <1>1, <2>3 DEF TokenOutcome, ReleaseOutcome, Outcome
  <2>4. CASE op = "status"
    BY <1>1, <2>4 DEF TokenOutcome, StatusOutcome, Outcome
  <2>5. QED BY <2>1, <2>2, <2>3, <2>4 DEF TokenOps
<1> HIDE DEF t
<1>4. /\ Extended(t, now) \in State /\ Extended(t, now).epoch = t.epoch
      /\ Cleared(t) \in State /\ Cleared(t).epoch = t.epoch
  BY <1>2, LeaseTimeAssumption DEF Extended, Cleared, State, ZeroTime
<1>5. n \in Nodes => /\ Issued(t, n, now) \in State
                     /\ Issued(t, n, now).epoch = t.epoch + 1
  BY <1>2, LeaseTimeAssumption DEF Issued, State
<1>6. QED BY <1>2, <1>3, <1>4, <1>5

\* The fields of a request that a handler has taken in.
LEMMA TakenFields ==
  ASSUME NEW r, Taken(r)
  PROVE  /\ r.worker \in Workers /\ r.now \in 1..clock
         /\ \/ r.op = "poll" /\ r.arg \in 1..MaxLimit
            \/ r.op = "ack" /\ r.arg \in Events
<1>1. CASE \E w \in Workers, limit \in 1..MaxLimit, now \in 1..clock : r = Polling(w, limit, now)
  BY <1>1 DEF Polling
<1>2. CASE \E w \in Workers, e \in Events, now \in 1..clock : r = Acking(w, e, now)
  BY <1>2 DEF Acking
<1>3. QED BY <1>1, <1>2 DEF Taken

\* A step that leaves the token alone, moves the clock forward or not at all and
\* takes in or drops handlers keeps the invariant.
LEMMA HandlersStay ==
  ASSUME HandlerInv, clock' \in Nat, clock <= clock',
         tok' \in State, tok.epoch <= tok'.epoch, tok'.epoch <= MaxEpoch,
         \A r \in arrived' : r \in arrived \/ Taken(r)',
         \A f \in fenced' : f \in fenced \/ (f.epoch \in 0..tok'.epoch /\ Taken(f.req)')
  PROVE  HandlerInv'
<1>1. \A r : Taken(r) => Taken(r)'
  BY DEF HandlerInv, Taken
<1>2. tok.epoch \in Nat /\ tok'.epoch \in Nat
  BY DEF HandlerInv, State
<1>3. \A f \in fenced' : f.epoch \in 0..tok'.epoch /\ Taken(f.req)'
  BY <1>1, <1>2 DEF HandlerInv
<1>4. QED BY <1>1, <1>3 DEF HandlerInv

-----------------------------------------------------------------------------
(* The handlers. *)

\* No handler carries a time ahead of the clock, or an epoch ahead of the token
\* (see HandlerInv): both were read before.
THEOREM HandlersCarryPastTimes == Spec => []HandlerInv
<1>1. Init => HandlerInv
  BY DispatchAssumption DEF Init, HandlerInv, NewToken, State, ZeroTime
<1>2. HandlerInv /\ [Next]_vars => HandlerInv'
  <2> SUFFICES ASSUME HandlerInv, [Next]_vars PROVE HandlerInv'
    OBVIOUS
  <2>1. /\ clock \in Nat /\ clock >= 1 /\ tok \in State /\ tok.epoch \in Nat /\ tok.epoch <= MaxEpoch
        /\ MaxEpoch \in Nat
    BY DispatchAssumption DEF HandlerInv, State
  <2>2. CASE Tick
    BY <2>1, <2>2, HandlersStay DEF Tick
  <2>3. ASSUME NEW n \in Nodes, NEW op \in TokenOps, NEW now \in 1..clock,
               TokenRequest(n, op, now)
        PROVE  HandlerInv'
    <3>1. /\ Operate(op, n, now) /\ (op = "claim" => tok.epoch < MaxEpoch)
          /\ UNCHANGED <<clock, arrived, fenced>>
      BY <2>3 DEF TokenRequest
    <3>2. /\ tok' \in State
          /\ tok'.epoch = tok.epoch \/ (op = "claim" /\ tok'.epoch = tok.epoch + 1)
      BY <2>1, <3>1, OperateEpoch
    <3>3. tok.epoch <= tok'.epoch /\ tok'.epoch <= MaxEpoch
      BY <2>1, <3>1, <3>2
    <3>4. QED BY <2>1, <3>1, <3>2, <3>3, HandlersStay
  <2>4. ASSUME NEW e \in Events, NEW epoch \in 0..MaxEpoch, EnqueueRequest(e, epoch)
        PROVE  HandlerInv'
    BY <2>1, <2>4, HandlersStay DEF EnqueueRequest
  <2>5. ASSUME NEW w \in Workers, NEW limit \in 1..MaxLimit, Arrive(Polling(w, limit, clock))
        PROVE  HandlerInv'
    <3>1. arrived' = arrived \cup {Polling(w, limit, clock)} /\ UNCHANGED <<clock, tok, fenced>>
      BY <2>5 DEF Arrive
    <3>2. QED BY <2>1, <2>5, <3>1, HandlersStay DEF Taken
  <2>6. ASSUME NEW w \in Workers, NEW e \in Events, Arrive(Acking(w, e, clock))
        PROVE  HandlerInv'
    <3>1. arrived' = arrived \cup {Acking(w, e, clock)} /\ UNCHANGED <<clock, tok, fenced>>
      BY <2>6 DEF Arrive
    <3>2. QED BY <2>1, <2>6, <3>1, HandlersStay DEF Taken
  <2>7. ASSUME NEW r \in arrived, ReadEpoch(r) PROVE HandlerInv'
    <3>1. /\ arrived' = arrived \ {r} /\ clock' = clock
          /\ fenced' = fenced \cup {[req |-> r, epoch |-> tok'.epoch]}
          /\ Operate("status", NoNode, r.now)
      BY <2>7 DEF ReadEpoch
    <3>2. Taken(r) /\ r.now \in Nat
      BY <2>1 DEF HandlerInv, Taken, Polling, Acking
    <3>3. tok' \in State /\ tok'.epoch = tok.epoch
      BY <2>1, <3>1, <3>2, OperateEpoch DEF TokenOps
    <3>4. Taken(r)'
      BY <3>1, <3>2 DEF Taken
    <3>5. QED BY <2>1, <3>1, <3>3, <3>4, HandlersStay
  <2>8. ASSUME NEW f \in fenced, QueuePoll(f) \/ QueueAck(f) PROVE HandlerInv'
    <3>1. UNCHANGED <<clock, tok, arrived>> /\ fenced' = fenced \ {f}
      BY <2>8 DEF QueuePoll, QueueAck
    <3>2. QED BY <2>1, <3>1, HandlersStay
  <2>9. CASE UNCHANGED vars
    BY <2>1, <2>9, HandlersStay DEF vars
  <2>10. QED BY <2>2, <2>3, <2>4, <2>5, <2>6, <2>7, <2>8, <2>9 DEF Next
<1>3. QED BY <1>1, <1>2, PTL DEF Spec

\* No handler works under an epoch that has not been issued (see EpochsIssued).
THEOREM HandlersUseIssuedEpochs == Spec => []EpochsIssued
<1>1. HandlerInv => EpochsIssued
  BY DEF HandlerInv, EpochsIssued, State
<1>2. QED BY <1>1, HandlersCarryPastTimes, PTL

-----------------------------------------------------------------------------
(* The queue behind the router. *)

\* QueueService's operators on the queue are those of QueueState.
LEMMA SameOperators ==
  /\ \A p, e, it : Queue!Enqueued(p, e, it) = Enqueued(p, e, it)
  /\ \A p, e : Queue!Inserts(p, e) = Inserts(p, e)
  /\ \A epoch : Queue!NewItem(epoch) = NewItem(epoch)
  /\ \A p, epoch, now, limit : Queue!Handed(p, epoch, now, limit) = Handed(p, epoch, now, limit)
  /\ \A p, out, w, now : Queue!Polled(p, out, w, now) = Polled(p, out, w, now)
  /\ \A p, e, epoch, w, now : Queue!AckError(p, e, epoch, w, now) = AckError(p, e, epoch, w, now)
  /\ \A p, e, w : Queue!Acked(p, e, w) = Acked(p, e, w)
  /\ Queue!EmptyQueue = EmptyQueue
<1>1. \A p : Queue!Pruned(p) = Pruned(p)
  BY DEF Queue!Pruned, Pruned, Queue!Stored, Stored, Queue!Among, Among,
         Queue!Selected, Selected
<1>2. \A p, e, it : Queue!Enqueued(p, e, it) = Enqueued(p, e, it)
  BY <1>1 DEF Queue!Enqueued, Enqueued, Queue!Stored, Stored, Queue!Inserts, Inserts
<1>3. \A S : Queue!Cardinality(S) = Cardinality(S)
  BY DEF Queue!Cardinality, Cardinality, Queue!IsFiniteSet, IsFiniteSet
<1>4. \A p, epoch, now, limit : Queue!Handed(p, epoch, now, limit) = Handed(p, epoch, now, limit)
  <2> SUFFICES ASSUME NEW p, NEW epoch, NEW now, NEW limit
               PROVE  Queue!Handed(p, epoch, now, limit) = Handed(p, epoch, now, limit)
    OBVIOUS
  <2> DEFINE ready == {i \in 1..Len(p.order) : Ready(p, p.order[i], epoch, now)}
             first == {i \in ready : Cardinality({j \in ready : j < i}) < limit}
             qfirst == {i \in ready : Queue!Cardinality({j \in ready : j < i}) < limit}
  <2>1. Handed(p, epoch, now, limit) = {p.order[i] : i \in first}
    BY DEF Handed
  <2>2. Queue!Handed(p, epoch, now, limit) = {p.order[i] : i \in qfirst}
    BY DEF Queue!Handed, Queue!Ready, Ready, Queue!Stored, Stored
  <2> HIDE DEF ready
  <2>3. qfirst = first
    BY <1>3
  <2>4. QED BY <2>1, <2>2, <2>3
<1>5. \A p, out, w, now : Queue!Polled(p, out, w, now) = Polled(p, out, w, now)
  BY DEF Queue!Polled, Polled, Queue!Leased, Leased, Queue!Stored, Stored
<1>6. \A p, e, epoch, w, now :
        Queue!AckError(p, e, epoch, w, now) = AckError(p, e, epoch, w, now)
  BY DEF Queue!AckError, AckError, Queue!LeasedToOther, LeasedToOther, Queue!Stored, Stored
<1>7. \A p, e, w : Queue!Acked(p, e, w) = Acked(p, e, w)
  BY DEF Queue!Acked, Acked, Queue!AckedBy, AckedBy
<1>8. QED
  BY <1>2, <1>4, <1>5, <1>6, <1>7
  DEF Queue!Inserts, Inserts, Queue!NewItem, NewItem, Queue!EmptyQueue, EmptyQueue

\* The queue behind the router is a QueueService: the two critical sections of a
\* handler do no more to it than one step with some issued epoch and a past time.
THEOREM ImplementsQueue == Spec => QueueSpec
<1>1. Init => Queue!Init
  BY SameOperators DEF Init, Queue!Init
<1>2. HandlerInv /\ [Next]_vars => [Queue!Next]_(Queue!vars)
  <2> SUFFICES ASSUME HandlerInv, [Next]_vars
               PROVE  Queue!Next \/ UNCHANGED <<clock, q, arrivals, told, done>>
    BY DEF Queue!vars
  <2> USE DEF history
  <2>1. CASE Tick
    <3>1. Queue!Tick
      BY <2>1 DEF Tick, Queue!Tick
    <3>2. QED BY <3>1 DEF Queue!Next
  <2>2. ASSUME NEW n \in Nodes, NEW op \in TokenOps, NEW now \in 1..clock,
               TokenRequest(n, op, now)
        PROVE  UNCHANGED <<clock, q, arrivals, told, done>>
    BY <2>2 DEF TokenRequest
  <2>3. ASSUME NEW e \in Events, NEW epoch \in 0..MaxEpoch, EnqueueRequest(e, epoch)
        PROVE  Queue!Next
    <3>1. /\ q' = Enqueued(q, e, NewItem(epoch))
          /\ arrivals' = IF Inserts(q, e) THEN Append(arrivals, e) ELSE arrivals
          /\ UNCHANGED <<clock, told, done>>
      BY <2>3 DEF EnqueueRequest
    <3>2. Queue!Enqueue(e, epoch)
      BY <3>1, SameOperators DEF Queue!Enqueue
    <3>3. QED BY <3>2 DEF Queue!Next, Queue!Epochs
  <2>4. ASSUME NEW r, Arrive(r) PROVE UNCHANGED <<clock, q, arrivals, told, done>>
    BY <2>4 DEF Arrive
  <2>5. ASSUME NEW r \in arrived, ReadEpoch(r)
        PROVE  UNCHANGED <<clock, q, arrivals, told, done>>
    BY <2>5 DEF ReadEpoch
  <2>6. ASSUME NEW f \in fenced
        PROVE  /\ f.epoch \in Queue!Epochs
               /\ \/ f.req.op = "ack"
                  \/ /\ f.req.worker \in Workers /\ f.req.now \in 1..clock
                     /\ f.req.arg \in 1..MaxLimit
               /\ \/ f.req.op = "poll"
                  \/ /\ f.req.worker \in Workers /\ f.req.now \in 1..clock
                     /\ f.req.arg \in Events
    <3>1. f.epoch \in 0..MaxEpoch
      BY DispatchAssumption DEF HandlerInv, State
    <3>2. Taken(f.req)
      BY DEF HandlerInv
    <3>3. QED BY <3>1, <3>2, TakenFields DEF Queue!Epochs
  <2>7. ASSUME NEW f \in fenced, QueuePoll(f) PROVE Queue!Next
    <3> DEFINE w   == f.req.worker
               out == Handed(q, f.epoch, f.req.now, f.req.arg)
    <3>1. /\ f.req.op = "poll"
          /\ q' = Polled(q, out, w, f.req.now)
          /\ told' = [told EXCEPT ![w] =
                [e \in Events |-> IF e \in out THEN f.req.now + QueueLease ELSE told[w][e]]]
          /\ UNCHANGED <<clock, arrivals, done>>
      BY <2>7 DEF QueuePoll
    <3>2. Queue!Poll(w, f.epoch, f.req.arg, f.req.now)
      BY <3>1, SameOperators DEF Queue!Poll
    <3>3. QED BY <2>6, <3>1, <3>2 DEF Queue!Next
  <2>8. ASSUME NEW f \in fenced, QueueAck(f)
        PROVE  Queue!Next \/ UNCHANGED <<clock, q, arrivals, told, done>>
    <3>1. CASE AckError(q, f.req.arg, f.epoch, f.req.worker, f.req.now) = "none"
      <4>1. Queue!Ack(f.req.worker, f.req.arg, f.epoch, f.req.now)
        BY <2>8, <3>1, SameOperators DEF QueueAck, Queue!Ack
      <4>2. f.req.op = "ack"
        BY <2>8 DEF QueueAck
      <4>3. QED BY <2>6, <4>1, <4>2 DEF Queue!Next
    <3>2. CASE AckError(q, f.req.arg, f.epoch, f.req.worker, f.req.now) # "none"
      BY <2>8, <3>2 DEF QueueAck
    <3>3. QED BY <3>1, <3>2
  <2>9. CASE UNCHANGED vars
    BY <2>9 DEF vars
  <2>10. QED BY <2>1, <2>2, <2>3, <2>4, <2>5, <2>7, <2>8, <2>9 DEF Next
<1>3. QED BY <1>1, <1>2, HandlersCarryPastTimes, PTL DEF Spec, QueueSpec, Queue!Spec

-----------------------------------------------------------------------------
(* Fencing. *)

\* The values of the histories.
HistoryTypeOK ==
  /\ told \in [Workers -> [Events -> Nat]]
  /\ done \in [Events -> Workers \cup {NoWorker}]

\* They keep them.
LEMMA HistoryTypes == Spec => []HistoryTypeOK
<1>1. Init => HistoryTypeOK
  BY DEF Init, HistoryTypeOK
<1>2. HandlerInv /\ HistoryTypeOK /\ [Next]_vars => HistoryTypeOK'
  <2> SUFFICES ASSUME HandlerInv, HistoryTypeOK, [Next]_vars PROVE HistoryTypeOK'
    OBVIOUS
  <2> USE DEF HistoryTypeOK, history
  <2>1. ASSUME NEW f \in fenced, QueuePoll(f) PROVE HistoryTypeOK'
    <3> DEFINE w   == f.req.worker
               out == Handed(q, f.epoch, f.req.now, f.req.arg)
               row == [e \in Events |-> IF e \in out THEN f.req.now + QueueLease ELSE told[w][e]]
    <3>1. f.req.op = "poll" /\ told' = [told EXCEPT ![w] = row] /\ done' = done
      BY <2>1 DEF QueuePoll
    <3>2. Taken(f.req)
      BY DEF HandlerInv
    <3>3. w \in Workers /\ f.req.now \in Nat
      BY <3>2, TakenFields DEF HandlerInv
    <3>4. row \in [Events -> Nat]
      BY <3>3, QueueLeaseAssumption
    <3>5. QED BY <3>1, <3>3, <3>4
  <2>2. ASSUME NEW f \in fenced, QueueAck(f) PROVE HistoryTypeOK'
    <3>1. f.req.op = "ack" /\ told' = told
          /\ (done' = done \/ done' = [done EXCEPT ![f.req.arg] = f.req.worker])
      BY <2>2 DEF QueueAck
    <3>2. Taken(f.req)
      BY DEF HandlerInv
    <3>3. f.req.worker \in Workers
      BY <3>2, TakenFields
    <3>4. QED BY <3>1, <3>3
  <2>3. CASE UNCHANGED <<told, done>>
    BY <2>3
  <2>4. QED
    BY <2>1, <2>2, <2>3
    DEF Next, vars, Tick, TokenRequest, EnqueueRequest, Arrive, ReadEpoch
<1>3. QED BY <1>1, <1>2, HandlersCarryPastTimes, PTL DEF Spec

\* Once an epoch is over, it stays over and its work is fenced off (see
\* ClosedEpochIsFenced): a handler that starts later reads a later epoch, and
\* Poll and Ack compare the epoch their handler carries with the item's.
THEOREM ClosedEpochsAreFenced == Spec => ClosedEpochIsFenced
<1> DEFINE Step(k) ==
      Closed(k) =>
        /\ Closed(k)'
        /\ \A e \in Events : e \in Stored(q) /\ q.items[e].tokenEpoch = k =>
             done'[e] = done[e] /\ \A w \in Workers : told'[w][e] = told[w][e]
<1>1. HandlerInv /\ HistoryTypeOK /\ Next => \A k \in 0..MaxEpoch : Step(k)
  <2> SUFFICES ASSUME HandlerInv, HistoryTypeOK, Next, NEW k \in 0..MaxEpoch, Closed(k)
               PROVE  /\ Closed(k)'
                      /\ \A e \in Events : e \in Stored(q) /\ q.items[e].tokenEpoch = k =>
                           done'[e] = done[e] /\ \A w \in Workers : told'[w][e] = told[w][e]
    OBVIOUS
  <2>1. /\ tok \in State /\ tok.epoch \in Nat /\ k \in Nat /\ k < tok.epoch
        /\ \A f \in fenced : f.epoch # k
    BY DispatchAssumption DEF HandlerInv, State, Closed
  <2> USE DEF history
  <2>2. CASE Tick
    BY <2>1, <2>2 DEF Tick, Closed
  <2>3. ASSUME NEW n \in Nodes, NEW op \in TokenOps, NEW now \in 1..clock,
               TokenRequest(n, op, now)
        PROVE  Closed(k)' /\ UNCHANGED <<done, told>>
    <3>1. tok'.epoch \in {tok.epoch, tok.epoch + 1}
      BY <2>1, <2>3, OperateEpoch DEF TokenRequest, HandlerInv
    <3>2. QED BY <2>1, <2>3, <3>1 DEF TokenRequest, Closed
  <2>4. ASSUME NEW e \in Events, NEW epoch \in 0..MaxEpoch, EnqueueRequest(e, epoch)
        PROVE  Closed(k)' /\ UNCHANGED <<done, told>>
    BY <2>1, <2>4 DEF EnqueueRequest, Closed
  <2>5. ASSUME NEW r, Arrive(r) PROVE Closed(k)' /\ UNCHANGED <<done, told>>
    BY <2>1, <2>5 DEF Arrive, Closed
  <2>6. ASSUME NEW r \in arrived, ReadEpoch(r) PROVE Closed(k)' /\ UNCHANGED <<done, told>>
    <3>1. Taken(r)
      BY DEF HandlerInv
    <3>2. r.now \in Nat
      BY <3>1, TakenFields DEF HandlerInv
    <3>3. tok'.epoch = tok.epoch
      BY <2>1, <2>6, <3>2, OperateEpoch DEF ReadEpoch, TokenOps
    <3>4. QED BY <2>1, <2>6, <3>3 DEF ReadEpoch, Closed
  <2>7. ASSUME NEW f \in fenced, QueuePoll(f) \/ QueueAck(f) PROVE Closed(k)'
    <3>1. tok' = tok /\ fenced' \subseteq fenced
      BY <2>7 DEF QueuePoll, QueueAck
    <3>2. QED BY <2>1, <3>1 DEF Closed
  <2>8. ASSUME NEW f \in fenced, QueuePoll(f),
               NEW e \in Events, e \in Stored(q), q.items[e].tokenEpoch = k
        PROVE  done' = done /\ \A w \in Workers : told'[w][e] = told[w][e]
    <3> DEFINE v   == f.req.worker
               out == Handed(q, f.epoch, f.req.now, f.req.arg)
               row == [d \in Events |-> IF d \in out THEN f.req.now + QueueLease ELSE told[v][d]]
    <3>1. done' = done /\ told' = [told EXCEPT ![v] = row]
      BY <2>8 DEF QueuePoll
    <3>2. \A d \in out : q.items[d].tokenEpoch = f.epoch
      BY DEF Handed, Ready
    <3>3. e \notin out
      BY <2>1, <2>8, <3>2
    <3>4. row[e] = told[v][e]
      BY <3>3
    <3> HIDE DEF row
    <3>5. QED BY <3>1, <3>4 DEF HistoryTypeOK
  <2>9. ASSUME NEW f \in fenced, QueueAck(f),
               NEW e \in Events, e \in Stored(q), q.items[e].tokenEpoch = k
        PROVE  told' = told /\ done'[e] = done[e]
    <3>1. told' = told
      BY <2>9 DEF QueueAck
    <3>2. CASE f.req.arg = e
      <4>1. AckError(q, e, f.epoch, f.req.worker, f.req.now) # "none"
        BY <2>1, <2>9 DEF AckError
      <4>2. QED BY <2>9, <3>1, <3>2, <4>1 DEF QueueAck
    <3>3. CASE f.req.arg # e
      BY <2>9, <3>1, <3>3 DEF QueueAck, HistoryTypeOK
    <3>4. QED BY <3>2, <3>3
  <2>10. QED BY <2>2, <2>3, <2>4, <2>5, <2>6, <2>7, <2>8, <2>9 DEF Next, Tick
<1>2. HandlerInv /\ HistoryTypeOK /\ [Next]_vars => [\A k \in 0..MaxEpoch : Step(k)]_vars
  BY <1>1
<1>3. QED BY <1>2, HandlersCarryPastTimes, HistoryTypes, PTL DEF Spec, ClosedEpochIsFenced

-----------------------------------------------------------------------------
(* The log. *)

\* The events of tokens and queues.
DispatchEvents ==
  TokenEvents \cup [seq : Nat, action : {"enqueue", "poll", "ack"},
                    event : Events \cup {"none"}, worker : Workers \cup {NoWorker}]

\* The places of the "enqueue" events after place i.
LaterIn(evs, i) == {j \in (i + 1)..Len(evs) : evs[j].action = "enqueue"}

\* The "enqueue" events are the last entries of arr.
TellsArrivals(evs, arr) ==
  \A i \in 1..Len(evs) : evs[i].action = "enqueue" =>
    /\ Cardinality(LaterIn(evs, i)) < Len(arr)
    /\ evs[i].event = arr[Len(arr) - Cardinality(LaterIn(evs, i))]

\* The "ack" events name events of S, and are not followed by their "enqueue".
TellsAcks(evs, S) ==
  \A i \in 1..Len(evs) : evs[i].action = "ack" =>
    /\ evs[i].event \in S
    /\ \A j \in LaterIn(evs, i) : evs[j].event # evs[i].event

\* Recording e, which is an "enqueue" or not, shifts the places of the others.
LEMMA LaterShift ==
  ASSUME NEW S, NEW evs, NEW k, Numbered(S, evs, k), NEW e \in S, e.seq = k + 1,
         NEW new, new = AppendEvent(evs, e), NEW d, d = Len(evs) + 1 - Len(new),
         NEW i \in 1..(Len(new) - 1)
  PROVE  /\ i + d \in 1..Len(evs) /\ new[i] = evs[i + d]
         /\ IsFiniteSet(LaterIn(evs, i + d))
         /\ Cardinality(LaterIn(new, i)) = Cardinality(LaterIn(evs, i + d))
                                             + IF e.action = "enqueue" THEN 1 ELSE 0
         /\ \A j \in LaterIn(new, i) :
              (new[j] = e /\ e.action = "enqueue") \/ (j + d \in LaterIn(evs, i + d) /\ new[j] = evs[j + d])
<1>1. /\ d \in {0, 1}
      /\ \A j \in 1..(Len(new) - 1) : j + d \in 1..Len(evs) /\ new[j] = evs[j + d]
  BY Recorded
<1>2. Len(new) >= 1 /\ Len(new) \in Nat /\ new[Len(new)] = e
  BY Recorded
<1>3. Len(evs) \in Nat /\ Len(evs) = Len(new) - 1 + d
  <2>1. Len(evs) \in Nat
    BY LenProperties DEF Numbered
  <2>2. QED BY <1>1, <1>2, <2>1
<1> DEFINE A == {j \in (i + 1)..(Len(new) - 1) : new[j].action = "enqueue"}
           B == LaterIn(evs, i + d)
           f == [j \in A |-> j + d]
<1>4. IsFiniteSet(A) /\ IsFiniteSet(B)
  <2>0. /\ i + 1 \in Int /\ Len(new) - 1 \in Int /\ i + d + 1 \in Int /\ Len(evs) \in Int
    BY <1>1, <1>2, <1>3
  <2>1. IsFiniteSet((i + 1)..(Len(new) - 1)) /\ IsFiniteSet((i + d + 1)..Len(evs))
    BY <2>0, FS_Interval
  <2>2. QED BY <2>1, FS_Subset DEF LaterIn
<1>5. \A j \in A : j \in 1..(Len(new) - 1) /\ j \in Int
  BY <1>2
<1>6. \A j \in A : j + d \in B
  <2> SUFFICES ASSUME NEW j \in A PROVE j + d \in B
    OBVIOUS
  <2>1. j + d \in 1..Len(evs) /\ new[j] = evs[j + d]
    BY <1>1, <1>5
  <2>2. j + d \in (i + d + 1)..Len(evs)
    BY <1>1, <1>2, <1>3, <2>1
  <2>3. QED BY <2>1, <2>2 DEF LaterIn
<1>7. \A b \in B : b - d \in A /\ (b - d) + d = b
  <2> SUFFICES ASSUME NEW b \in B PROVE b - d \in A /\ (b - d) + d = b
    OBVIOUS
  <2>1. b \in (i + d + 1)..Len(evs) /\ evs[b].action = "enqueue"
    BY DEF LaterIn
  <2>2. /\ b - d \in (i + 1)..(Len(new) - 1) /\ b - d \in 1..(Len(new) - 1) /\ (b - d) + d = b
    BY <1>1, <1>2, <1>3, <2>1
  <2>3. new[b - d] = evs[b]
    BY <1>1, <2>2
  <2>4. QED BY <2>1, <2>2, <2>3
<1>8. Cardinality(B) = Cardinality(A)
  <2> HIDE DEF A, B
  <2>1. f \in Bijection(A, B)
    <3>1. f \in [A -> B]
      BY <1>6
    <3>2. \A a, b \in A : f[a] = f[b] => a = b
      BY <1>1, <1>5
    <3>3. \A b \in B : \E a \in A : f[a] = b
      BY <1>7
    <3> HIDE DEF f
    <3>4. QED BY <3>1, <3>2, <3>3 DEF Bijection, Injection, IsInjective, Surjection
  <2>2. QED BY <1>4, <2>1, FS_Bijection DEF ExistsBijection
<1>9. LaterIn(new, i) = IF e.action = "enqueue" THEN A \cup {Len(new)} ELSE A
  <2>1. \A j \in (i + 1)..Len(new) : j = Len(new) \/ j \in (i + 1)..(Len(new) - 1)
    BY <1>2
  <2>2. Len(new) \in (i + 1)..Len(new) /\ (i + 1)..(Len(new) - 1) \subseteq (i + 1)..Len(new)
    BY <1>2
  <2>3. QED BY <1>2, <2>1, <2>2 DEF LaterIn
<1>10. Len(new) \notin A
  BY <1>2
<1>11. Cardinality(LaterIn(new, i)) = Cardinality(A) + IF e.action = "enqueue" THEN 1 ELSE 0
  <2> HIDE DEF A
  <2>1. Cardinality(A) \in Nat
    BY <1>4, FS_CardinalityType
  <2>2. Cardinality(A \cup {Len(new)}) = Cardinality(A) + 1
    BY <1>4, <1>10, FS_AddElement
  <2>3. QED BY <1>9, <2>1, <2>2
<1>12. ASSUME NEW j \in LaterIn(new, i)
       PROVE  (new[j] = e /\ e.action = "enqueue") \/ (j + d \in B /\ new[j] = evs[j + d])
  <2>1. CASE j \in A
    BY <1>1, <1>5, <1>6, <2>1
  <2>2. CASE j \notin A
    BY <1>2, <1>9, <2>2
  <2>3. QED BY <2>1, <2>2
<1> HIDE DEF A
<1>13. QED BY <1>1, <1>4, <1>8, <1>11, <1>12

\* Nothing of the queue is after the newest event.
LEMMA LaterNone ==
  ASSUME NEW evs, Len(evs) \in Nat
  PROVE  LaterIn(evs, Len(evs)) = {} /\ Cardinality(LaterIn(evs, Len(evs))) = 0
<1>1. LaterIn(evs, Len(evs)) = {}
  BY DEF LaterIn
<1>2. QED BY <1>1, FS_EmptySet

\* An event that is no "enqueue" leaves the story of the arrivals as it is.
LEMMA RecordOther ==
  ASSUME NEW evs, NEW k, Numbered(DispatchEvents, evs, k),
         NEW arr \in Seq(Events), TellsArrivals(evs, arr), NEW S, TellsAcks(evs, S),
         NEW e \in DispatchEvents, e.seq = k + 1, e.action # "enqueue",
         e.action = "ack" => e.event \in S,
         NEW new, new = AppendEvent(evs, e)
  PROVE  Numbered(DispatchEvents, new, k + 1) /\ TellsArrivals(new, arr) /\ TellsAcks(new, S)
<1>1. Numbered(DispatchEvents, new, k + 1) /\ Len(new) >= 1 /\ Len(new) \in Nat /\ new[Len(new)] = e
  BY Recorded
<1> DEFINE d == Len(evs) + 1 - Len(new)
<1> HIDE DEF d
<1>2. ASSUME NEW i \in 1..(Len(new) - 1)
      PROVE  /\ i + d \in 1..Len(evs) /\ new[i] = evs[i + d]
             /\ Cardinality(LaterIn(new, i)) = Cardinality(LaterIn(evs, i + d))
             /\ \A j \in LaterIn(new, i) : j + d \in LaterIn(evs, i + d) /\ new[j] = evs[j + d]
  <2>1. /\ i + d \in 1..Len(evs) /\ new[i] = evs[i + d]
        /\ IsFiniteSet(LaterIn(evs, i + d))
        /\ Cardinality(LaterIn(new, i)) = Cardinality(LaterIn(evs, i + d))
                                             + IF e.action = "enqueue" THEN 1 ELSE 0
        /\ \A j \in LaterIn(new, i) :
             (new[j] = e /\ e.action = "enqueue") \/ (j + d \in LaterIn(evs, i + d) /\ new[j] = evs[j + d])
    BY LaterShift DEF d
  <2>2. Cardinality(LaterIn(evs, i + d)) \in Nat
    BY <2>1, FS_CardinalityType
  <2>3. QED BY <2>1, <2>2
<1>3. \A i \in 1..Len(new) : i = Len(new) \/ i \in 1..(Len(new) - 1)
  BY <1>1
<1>4. TellsArrivals(new, arr)
  <2> SUFFICES ASSUME NEW i \in 1..Len(new), new[i].action = "enqueue"
               PROVE  /\ Cardinality(LaterIn(new, i)) < Len(arr)
                      /\ new[i].event = arr[Len(arr) - Cardinality(LaterIn(new, i))]
    BY DEF TellsArrivals
  <2>1. i \in 1..(Len(new) - 1)
    BY <1>1, <1>3
  <2>2. QED BY <1>2, <2>1 DEF TellsArrivals
<1>5. TellsAcks(new, S)
  <2> SUFFICES ASSUME NEW i \in 1..Len(new), new[i].action = "ack"
               PROVE  /\ new[i].event \in S
                      /\ \A j \in LaterIn(new, i) : new[j].event # new[i].event
    BY DEF TellsAcks
  <2>1. CASE i = Len(new)
    BY <1>1, <2>1, LaterNone
  <2>2. CASE i # Len(new)
    <3>1. i \in 1..(Len(new) - 1)
      BY <1>3, <2>2
    <3>2. QED BY <1>2, <3>1 DEF TellsAcks
  <2>3. QED BY <2>1, <2>2
<1>6. QED BY <1>1, <1>4, <1>5

\* An "enqueue" is recorded with the arrival of an event that is not settled.
LEMMA RecordEnqueue ==
  ASSUME NEW evs, NEW k, Numbered(DispatchEvents, evs, k),
         NEW arr \in Seq(Events), TellsArrivals(evs, arr), NEW S, TellsAcks(evs, S),
         NEW e \in DispatchEvents, e.seq = k + 1, e.action = "enqueue",
         e.event \in Events, e.event \notin S,
         NEW new, new = AppendEvent(evs, e), NEW arr2, arr2 = Append(arr, e.event)
  PROVE  Numbered(DispatchEvents, new, k + 1) /\ TellsArrivals(new, arr2) /\ TellsAcks(new, S)
<1>1. Numbered(DispatchEvents, new, k + 1) /\ Len(new) >= 1 /\ Len(new) \in Nat /\ new[Len(new)] = e
  BY Recorded
<1> DEFINE d == Len(evs) + 1 - Len(new)
<1> HIDE DEF d
<1>2. ASSUME NEW i \in 1..(Len(new) - 1)
      PROVE  /\ i + d \in 1..Len(evs) /\ new[i] = evs[i + d]
             /\ Cardinality(LaterIn(new, i)) = Cardinality(LaterIn(evs, i + d)) + 1
             /\ Cardinality(LaterIn(evs, i + d)) \in Nat
             /\ \A j \in LaterIn(new, i) :
                  new[j] = e \/ (j + d \in LaterIn(evs, i + d) /\ new[j] = evs[j + d])
  <2>1. /\ i + d \in 1..Len(evs) /\ new[i] = evs[i + d]
        /\ IsFiniteSet(LaterIn(evs, i + d))
        /\ Cardinality(LaterIn(new, i)) = Cardinality(LaterIn(evs, i + d))
                                             + IF e.action = "enqueue" THEN 1 ELSE 0
        /\ \A j \in LaterIn(new, i) :
             (new[j] = e /\ e.action = "enqueue") \/ (j + d \in LaterIn(evs, i + d) /\ new[j] = evs[j + d])
    <3>1. /\ Numbered(DispatchEvents, evs, k) /\ e \in DispatchEvents /\ e.seq = k + 1
          /\ new = AppendEvent(evs, e) /\ d = Len(evs) + 1 - Len(new)
      BY DEF d
    <3>2. QED BY ONLY <3>1, LaterShift, i \in 1..(Len(new) - 1)
  <2>2. Cardinality(LaterIn(evs, i + d)) \in Nat
    BY <2>1, FS_CardinalityType
  <2>3. QED BY <2>1, <2>2
<1>3. \A i \in 1..Len(new) : i = Len(new) \/ i \in 1..(Len(new) - 1)
  BY <1>1
<1>4. /\ Len(arr) \in Nat /\ Len(arr2) = Len(arr) + 1 /\ arr2[Len(arr) + 1] = e.event
      /\ \A l \in 1..Len(arr) : arr2[l] = arr[l]
  BY AppendProperties, LenProperties
<1>5. TellsArrivals(new, arr2)
  <2> SUFFICES ASSUME NEW i \in 1..Len(new), new[i].action = "enqueue"
               PROVE  /\ Cardinality(LaterIn(new, i)) < Len(arr2)
                      /\ new[i].event = arr2[Len(arr2) - Cardinality(LaterIn(new, i))]
    BY DEF TellsArrivals
  <2>1. CASE i = Len(new)
    <3>1. Cardinality(LaterIn(new, i)) = 0
      BY <1>1, <2>1, LaterNone
    <3>2. QED BY <1>1, <1>4, <2>1, <3>1
  <2>2. CASE i # Len(new)
    <3>1. i \in 1..(Len(new) - 1)
      BY <1>3, <2>2
    <3> DEFINE c == Cardinality(LaterIn(evs, i + d))
    <3>2. /\ c \in Nat /\ Cardinality(LaterIn(new, i)) = c + 1
          /\ c < Len(arr) /\ new[i].event = arr[Len(arr) - c]
      BY <1>2, <2>2, <3>1 DEF TellsArrivals
    <3> HIDE DEF c
    <3>3. /\ Len(arr2) - (c + 1) = Len(arr) - c /\ Len(arr) - c \in 1..Len(arr)
          /\ c + 1 < Len(arr2)
      BY <1>4, <3>2
    <3>4. QED BY <1>4, <3>2, <3>3
  <2>3. QED BY <2>1, <2>2
<1>6. TellsAcks(new, S)
  <2> SUFFICES ASSUME NEW i \in 1..Len(new), new[i].action = "ack"
               PROVE  /\ new[i].event \in S
                      /\ \A j \in LaterIn(new, i) : new[j].event # new[i].event
    BY DEF TellsAcks
  <2>1. i \in 1..(Len(new) - 1)
    BY <1>1, <1>3
  <2>2. /\ evs[i + d].event \in S /\ new[i] = evs[i + d]
        /\ \A j \in LaterIn(evs, i + d) : evs[j].event # evs[i + d].event
    BY <1>2, <2>1 DEF TellsAcks
  <2>3. QED BY <1>2, <2>1, <2>2
<1>7. QED BY <1>1, <1>5, <1>6

\* What an instance's token operations record leaves the story of the queue alone.
LEMMA OperateLog ==
  ASSUME tok \in State, NEW op \in TokenOps, NEW n, op = "status" \/ n \in Nodes,
         NEW now \in Nat, Operate(op, n, now),
         Numbered(DispatchEvents, events, seq), NEW arr \in Seq(Events),
         TellsArrivals(events, arr), NEW S, TellsAcks(events, S)
  PROVE  /\ Numbered(DispatchEvents, events', seq')
         /\ TellsArrivals(events', arr) /\ TellsAcks(events', S)
<1> DEFINE Good(evs, k) == /\ Numbered(DispatchEvents, evs, k)
                           /\ TellsArrivals(evs, arr) /\ TellsAcks(evs, S)
<1>1. ASSUME NEW evs, NEW k, Good(evs, k), NEW t \in State,
             NEW action \in {"claim", "renew", "release", "expire"}
      PROVE  Good(AppendEvent(evs, TokenEvent(k + 1, action, t)), k + 1)
  <2> DEFINE e == TokenEvent(k + 1, action, t)
  <2>1. k + 1 \in Nat
    BY <1>1 DEF Numbered
  <2>2. e \in TokenEvents /\ e.seq = k + 1 /\ e.action = action
    BY <2>1 DEF TokenEvent, TokenEvents, State
  <2>3. e \in DispatchEvents /\ e.action # "enqueue" /\ e.action # "ack"
    BY <2>2 DEF DispatchEvents
  <2> DEFINE new == AppendEvent(evs, e)
  <2> HIDE DEF e
  <2>4. new = AppendEvent(evs, e)
    OBVIOUS
  <2> HIDE DEF new
  <2>5. Numbered(DispatchEvents, new, k + 1) /\ TellsArrivals(new, arr) /\ TellsAcks(new, S)
    BY <1>1, <2>2, <2>3, <2>4, RecordOther
  <2>6. QED BY <2>5 DEF e, new
<1> DEFINE out == TokenOutcome(op, tok, n, now)
           e1  == IF Lapsed(tok, now)
                  THEN AppendEvent(events, TokenEvent(seq + 1, "expire", Cleared(tok)))
                  ELSE events
           s1  == IF Lapsed(tok, now) THEN seq + 1 ELSE seq
<1>2. Cleared(tok) \in State
  BY DEF Cleared, State, ZeroTime
<1>3. out.tok \in State /\ out.action \in {"none", "claim", "renew", "release"}
  <2>1. CASE n \in Nodes
    BY <2>1, OutcomeType
  <2>2. CASE op = "status"
    <3>1. out = Outcome(ExpireIfNeeded(tok, now), "none", "ok")
      BY <2>2 DEF TokenOutcome, StatusOutcome
    <3>2. QED BY <1>2, <3>1 DEF Outcome, ExpireIfNeeded
  <2>3. QED BY <2>1, <2>2
<1>4. Good(events, seq)
  OBVIOUS
<1>5. IF out.action = "none"
      THEN seq' = s1 /\ events' = e1
      ELSE /\ seq' = s1 + 1
           /\ events' = AppendEvent(e1, TokenEvent(s1 + 1, out.action, out.tok))
  BY DEF Operate
<1> HIDE DEF Good, out
<1>6. Good(e1, s1)
  BY <1>1, <1>2, <1>4
<1> HIDE DEF e1, s1
<1>7. Good(events', seq')
  BY <1>1, <1>3, <1>5, <1>6
<1>8. QED BY <1>7 DEF Good

\* The settled events.
Done == {e \in Events : Settled(e)}

\* The inductive invariant of the log: it is numbered, it tells what the histories
\* hold, and an event that is settled has been seen, so that it is not enqueued
\* again.
LogInv ==
  /\ Numbered(DispatchEvents, events, seq)
  /\ arrivals \in Seq(Events)
  /\ TellsArrivals(events, arrivals)
  /\ TellsAcks(events, Done)
  /\ Stored(q) \subseteq q.seen
  /\ Done \subseteq q.seen

\* Settled events stay settled.
LEMMA AcksGrow ==
  ASSUME NEW evs, NEW S, NEW T, S \subseteq T, TellsAcks(evs, S)
  PROVE  TellsAcks(evs, T)
BY DEF TellsAcks

\* The invariant of the log.
LEMMA LogInvariant == Spec => []LogInv
<1>1. Init => LogInv
  <2> SUFFICES ASSUME Init PROVE LogInv
    OBVIOUS
  <2>1. events = <<>> /\ seq = 0 /\ arrivals = <<>> /\ Done = {}
    BY DEF Init, Done, Settled
  <2>2. Len(events) = 0 /\ events \in Seq(DispatchEvents) /\ arrivals \in Seq(Events)
    BY <2>1, EmptySeq
  <2>3. 1..Len(events) = {}
    BY <2>2
  <2>4. Stored(q) = {}
    BY DEF Init, EmptyQueue, Stored
  <2>5. Numbered(DispatchEvents, events, seq)
    BY <2>1, <2>2, <2>3, MaxEventsAssumption DEF Numbered
  <2> QED BY <2>1, <2>2, <2>3, <2>4, <2>5 DEF LogInv, TellsArrivals, TellsAcks
<1>2. HandlerInv /\ HistoryTypeOK /\ LogInv /\ [Next]_vars => LogInv'
  <2> SUFFICES ASSUME HandlerInv, HistoryTypeOK, LogInv, [Next]_vars PROVE LogInv'
    OBVIOUS
  <2>1. /\ Numbered(DispatchEvents, events, seq) /\ seq \in Nat
        /\ arrivals \in Seq(Events) /\ TellsArrivals(events, arrivals) /\ TellsAcks(events, Done)
        /\ Stored(q) \subseteq q.seen /\ Done \subseteq q.seen
        /\ tok \in State /\ clock \in Nat
    BY DEF LogInv, Numbered, HandlerInv
  <2>2. CASE UNCHANGED <<seq, events, q, arrivals, done>>
    BY <2>2 DEF LogInv, Done, Settled
  <2>3. ASSUME NEW op \in TokenOps, NEW n, op = "status" \/ n \in Nodes, NEW now \in Nat,
               Operate(op, n, now), UNCHANGED <<q, arrivals, done>>
        PROVE  LogInv'
    <3>1. /\ Numbered(DispatchEvents, events', seq')
          /\ TellsArrivals(events', arrivals) /\ TellsAcks(events', Done)
      BY <2>1, <2>3, OperateLog
    <3>2. Done' = Done
      BY <2>3 DEF Done, Settled
    <3>3. QED BY <2>1, <2>3, <3>1, <3>2 DEF LogInv
  <2>4. ASSUME NEW e \in Events, NEW epoch \in 0..MaxEpoch, EnqueueRequest(e, epoch), Inserts(q, e)
        PROVE  LogInv'
    <3> DEFINE ev == QueueEvent(seq + 1, "enqueue", e, NoWorker)
    <3>1. /\ seq' = seq + 1 /\ events' = AppendEvent(events, ev)
          /\ arrivals' = Append(arrivals, e) /\ done' = done
          /\ q' = Enqueued(q, e, NewItem(epoch))
      BY <2>4 DEF EnqueueRequest, Record
    <3>2. e \notin q.seen
      BY <2>4 DEF Inserts
    <3>3. q'.seen = q.seen \cup {e} /\ Stored(q') \subseteq Stored(q) \cup {e}
      BY <3>1, <3>2 DEF Enqueued, Inserts, Pruned, Stored
    <3>4. ev \in DispatchEvents /\ ev.seq = seq + 1 /\ ev.action = "enqueue" /\ ev.event = e
      BY <2>1 DEF QueueEvent, DispatchEvents
    <3>5. Done' = Done
      BY <3>1 DEF Done, Settled
    <3>6. Stored(q)' = Stored(q')
      BY DEF Stored
    <3> HIDE DEF ev
    <3>7. /\ Numbered(DispatchEvents, events', seq + 1)
          /\ TellsArrivals(events', arrivals') /\ TellsAcks(events', Done)
      BY <2>1, <3>1, <3>2, <3>4, RecordEnqueue
    <3>8. arrivals' \in Seq(Events)
      BY <2>1, <3>1, AppendProperties
    <3>9. QED BY <2>1, <3>1, <3>3, <3>5, <3>6, <3>7, <3>8 DEF LogInv
  <2>5. ASSUME NEW f \in fenced, QueuePoll(f) PROVE LogInv'
    <3> DEFINE w   == f.req.worker
               out == Handed(q, f.epoch, f.req.now, f.req.arg)
               ev  == QueueEvent(seq + 1, "poll", "none", w)
    <3>1. /\ q' = Polled(q, out, w, f.req.now) /\ UNCHANGED <<arrivals, done>>
          /\ \/ UNCHANGED <<seq, events>>
             \/ seq' = seq + 1 /\ events' = AppendEvent(events, ev)
      BY <2>5 DEF QueuePoll, Record
    <3>2. Stored(q') = Stored(q) /\ q'.seen = q.seen
      BY <3>1 DEF Polled, Stored
    <3>3. Stored(q)' = Stored(q') /\ Done' = Done
      BY <3>1 DEF Stored, Done, Settled
    <3>4. w \in Workers
      <4>1. Taken(f.req)
        BY DEF HandlerInv
      <4>2. QED BY <4>1, TakenFields
    <3>5. ev \in DispatchEvents /\ ev.seq = seq + 1 /\ ev.action = "poll"
      BY <2>1, <3>4 DEF QueueEvent, DispatchEvents
    <3> HIDE DEF ev
    <3>6. CASE seq' = seq + 1 /\ events' = AppendEvent(events, ev)
      <4>1. /\ Numbered(DispatchEvents, events', seq + 1)
            /\ TellsArrivals(events', arrivals) /\ TellsAcks(events', Done)
        BY <2>1, <3>5, <3>6, RecordOther
      <4>2. QED BY <2>1, <3>1, <3>2, <3>3, <3>6, <4>1 DEF LogInv
    <3>7. CASE UNCHANGED <<seq, events>>
      BY <2>1, <3>1, <3>2, <3>3, <3>7 DEF LogInv
    <3>8. QED BY <3>1, <3>6, <3>7
  <2>6. ASSUME NEW f \in fenced, QueueAck(f),
               AckError(q, f.req.arg, f.epoch, f.req.worker, f.req.now) = "none"
        PROVE  LogInv'
    <3> DEFINE w  == f.req.worker
               e  == f.req.arg
               ev == QueueEvent(seq + 1, "ack", e, w)
    <3>1. /\ q' = Acked(q, e, w) /\ UNCHANGED arrivals
          /\ done' = IF done[e] = NoWorker THEN [done EXCEPT ![e] = w] ELSE done
          /\ seq' = seq + 1 /\ events' = AppendEvent(events, ev)
      BY <2>6 DEF QueueAck, Record
    <3>2. w \in Workers /\ e \in Events
      <4>1. Taken(f.req) /\ f.req.op = "ack"
        BY <2>6 DEF HandlerInv, QueueAck
      <4>2. QED BY <4>1, TakenFields
    <3>3. e \in Stored(q)
      BY <2>6 DEF AckError
    <3>4. Stored(q)' = Stored(q) /\ q'.seen = q.seen
      BY <3>1 DEF Stored, Acked
    <3>5. Done \subseteq Done' /\ Done' \subseteq Done \cup {e} /\ e \in Done'
      BY <3>1, <3>2, WorkersAssumption DEF Done, Settled, HistoryTypeOK
    <3>6. ev \in DispatchEvents /\ ev.seq = seq + 1 /\ ev.action = "ack" /\ ev.event = e
      BY <2>1, <3>2 DEF QueueEvent, DispatchEvents
    <3>7. TellsAcks(events, Done')
      BY <2>1, <3>5, AcksGrow
    <3> DEFINE T == Done'
    <3>8. e \in T /\ TellsAcks(events, T)
      BY <3>5, <3>7
    <3> HIDE DEF ev, T
    <3>9. /\ Numbered(DispatchEvents, events', seq + 1)
          /\ TellsArrivals(events', arrivals) /\ TellsAcks(events', T)
      BY <2>1, <3>1, <3>6, <3>8, RecordOther
    <3>10. QED BY <2>1, <3>1, <3>3, <3>4, <3>5, <3>9 DEF LogInv, T
  <2>7. ASSUME NEW f \in fenced, QueueAck(f),
               AckError(q, f.req.arg, f.epoch, f.req.worker, f.req.now) # "none"
        PROVE  LogInv'
    <3>1. UNCHANGED <<seq, events, q, arrivals, done>>
      BY <2>7 DEF QueueAck
    <3>2. QED BY <2>2, <3>1
  <2>8. ASSUME NEW e \in Events, NEW epoch \in 0..MaxEpoch, EnqueueRequest(e, epoch), ~ Inserts(q, e)
        PROVE  LogInv'
    <3>1. UNCHANGED <<seq, events, q, arrivals, done>>
      BY <2>8 DEF EnqueueRequest, Enqueued
    <3>2. QED BY <2>2, <3>1
  <2>9. ASSUME NEW n \in Nodes, NEW op \in TokenOps, NEW now \in 1..clock, TokenRequest(n, op, now)
        PROVE  LogInv'
    BY <2>1, <2>3, <2>9 DEF TokenRequest, history
  <2>10. ASSUME NEW r \in arrived, ReadEpoch(r) PROVE LogInv'
    <3>1. Taken(r)
      BY DEF HandlerInv
    <3>2. r.now \in Nat /\ "status" \in TokenOps
      BY <2>1, <3>1, TakenFields DEF TokenOps
    <3>3. QED BY <2>3, <2>10, <3>2 DEF ReadEpoch, history
  <2>11. CASE UNCHANGED vars
    BY <2>2, <2>11 DEF vars, history
  <2>12. CASE Tick \/ \E r : Arrive(r)
    BY <2>2, <2>12 DEF Tick, Arrive, history
  <2>13. QED
    BY <2>4, <2>5, <2>6, <2>7, <2>8, <2>9, <2>10, <2>11, <2>12 DEF Next
<1>3. QED BY <1>1, <1>2, HandlersCarryPastTimes, HistoryTypes, PTL DEF Spec

\* A client that polls the event log reads of the queue what happened to it (see
\* LogTellsQueue): the events of one critical section are numbered and stored
\* together, a repeated enqueue records nothing, and only an ack that succeeded
\* is recorded.
THEOREM LogIsTheQueuesStory == Spec => []LogTellsQueue
<1>1. LogInv => LogTellsQueue
  <2> SUFFICES ASSUME LogInv PROVE LogTellsQueue
    OBVIOUS
  <2>1. \A i \in 1..Len(events) : events[i].seq = seq - Len(events) + i
    BY DEF LogInv, Numbered
  <2>2. \A i : LaterIn(events, i) = {j \in (i + 1)..Len(events) : events[j].action = "enqueue"}
    BY DEF LaterIn
  <2>3. QED BY <2>1, <2>2 DEF LogInv, LogTellsQueue, TellsArrivals, TellsAcks, Done
<1>2. QED BY <1>1, LogInvariant, PTL

-----------------------------------------------------------------------------
(* A client of the event log. *)

\* The events of the log in EventFeed.
FeedEvents == TokenEvents \cup [seq : Nat, action : {"heartbeat"}]

\* Events about the token.
IsToken(e) == e.action # "heartbeat"

\* An event shows a token.
Shows(e, t) == e.holder = t.holder /\ e.epoch = t.epoch /\ e.expiresAt = t.expiresAt

\* Event i is the newest about the token.
Newest(evs, i) ==
  i \in 1..Len(evs) /\ IsToken(evs[i]) /\ \A j \in (i + 1)..Len(evs) : ~ IsToken(evs[j])

\* It shows the token as it is.
Mirrors(evs, t) == \A i \in 1..Len(evs) : Newest(evs, i) => Shows(evs[i], t)

\* Event e may follow event d in the story of the token.
Continues(d, e) ==
  IF e.action = "claim"
  THEN d.holder = NoNode /\ e.holder # NoNode /\ e.epoch = d.epoch + 1
  ELSE /\ d.holder # NoNode /\ e.epoch = d.epoch
       /\ e.holder = IF e.action = "renew" THEN d.holder ELSE NoNode

\* Neighbours in the story fit each other.
Story(evs) ==
  \A i, j \in 1..Len(evs) :
    /\ IsToken(evs[i]) /\ IsToken(evs[j]) /\ i < j
    /\ \A k \in (i + 1)..(j - 1) : ~ IsToken(evs[k])
    => Continues(evs[i], evs[j])

\* The log of an instance that has recorded k events and has token t.
Log(evs, k, t) == Numbered(FeedEvents, evs, k) /\ Mirrors(evs, t) /\ Story(evs)

\* The log after one more event, of the token or not.
LEMMA LogGrows ==
  ASSUME NEW evs, NEW k, NEW t, Log(evs, k, t), NEW e \in FeedEvents, e.seq = k + 1,
         NEW u, IF IsToken(e) THEN Shows(e, u) ELSE u = t,
         IsToken(e) => \A d : Shows(d, t) => Continues(d, e),
         NEW new, new = AppendEvent(evs, e)
  PROVE  Log(new, k + 1, u)
<1>1. Numbered(FeedEvents, evs, k) /\ Mirrors(evs, t) /\ Story(evs)
  BY DEF Log
<1>2. PICK d \in {0, 1} : /\ d = Len(evs) + 1 - Len(new)
                          /\ \A i \in 1..(Len(new) - 1) :
                               i + d \in 1..Len(evs) /\ new[i] = evs[i + d]
  BY <1>1, Recorded
<1>3. Numbered(FeedEvents, new, k + 1) /\ Len(new) >= 1 /\ Len(new) \in Nat /\ new[Len(new)] = e
  BY <1>1, Recorded
<1>4. Len(evs) \in Nat /\ Len(evs) = Len(new) - 1 + d
  <2>1. Len(evs) \in Nat
    BY <1>1, LenProperties DEF Numbered
  <2>2. QED BY <1>2, <1>3, <2>1
<1>5. \A i \in 1..Len(new) : i = Len(new) \/ i \in 1..(Len(new) - 1)
  BY <1>3
<1>6. \* the newest token event before e, as seen in evs
      ASSUME NEW i \in 1..(Len(new) - 1), IsToken(new[i]),
             \A j \in (i + 1)..(Len(new) - 1) : ~ IsToken(new[j])
      PROVE  Shows(new[i], t)
  <2>1. i + d \in 1..Len(evs) /\ new[i] = evs[i + d]
    BY <1>2
  <2>2. ASSUME NEW j \in (i + d + 1)..Len(evs) PROVE ~ IsToken(evs[j])
    <3>1. j - d \in (i + 1)..(Len(new) - 1) /\ j - d \in 1..(Len(new) - 1) /\ (j - d) + d = j
      BY <1>2, <1>3, <1>4
    <3>2. new[j - d] = evs[j]
      BY <1>2, <3>1
    <3>3. QED BY <1>6, <3>1, <3>2
  <2>3. Newest(evs, i + d)
    BY <1>6, <2>1, <2>2 DEF Newest
  <2>4. QED BY <1>1, <2>1, <2>3 DEF Mirrors
<1>7. Mirrors(new, u)
  <2> SUFFICES ASSUME NEW i \in 1..Len(new), Newest(new, i) PROVE Shows(new[i], u)
    BY DEF Mirrors
  <2>1. CASE IsToken(e)
    <3>1. i = Len(new)
      <4>1. i # Len(new) => Len(new) \in (i + 1)..Len(new)
        BY <1>3
      <4>2. QED BY <1>3, <2>1, <4>1 DEF Newest
    <3>2. QED BY <1>3, <2>1, <3>1
  <2>2. CASE ~ IsToken(e)
    <3>1. i # Len(new) /\ IsToken(new[i])
      BY <1>3, <2>2 DEF Newest
    <3>2. i \in 1..(Len(new) - 1)
      BY <1>5, <3>1
    <3>3. \A j \in (i + 1)..(Len(new) - 1) : ~ IsToken(new[j])
      <4>1. \A j \in (i + 1)..(Len(new) - 1) : j \in (i + 1)..Len(new)
        BY <1>3
      <4>2. QED BY <4>1 DEF Newest
    <3>4. QED BY <1>6, <2>2, <3>1, <3>2, <3>3
  <2>3. QED BY <2>1, <2>2
<1>8. Story(new)
  <2> SUFFICES ASSUME NEW i \in 1..Len(new), NEW j \in 1..Len(new),
                      IsToken(new[i]), IsToken(new[j]), i < j,
                      \A m \in (i + 1)..(j - 1) : ~ IsToken(new[m])
               PROVE  Continues(new[i], new[j])
    BY DEF Story
  <2>1. i \in 1..(Len(new) - 1)
    BY <1>3
  <2>2. CASE j = Len(new)
    <3>1. Shows(new[i], t)
      BY <1>6, <2>1, <2>2
    <3>2. QED BY <1>3, <2>2, <3>1
  <2>3. CASE j # Len(new)
    <3>1. j \in 1..(Len(new) - 1)
      BY <1>5, <2>3
    <3>2. /\ i + d \in 1..Len(evs) /\ new[i] = evs[i + d]
          /\ j + d \in 1..Len(evs) /\ new[j] = evs[j + d]
      BY <1>2, <2>1, <3>1
    <3>3. i + d < j + d
      BY <1>2
    <3>4. ASSUME NEW m \in (i + d + 1)..(j + d - 1) PROVE ~ IsToken(evs[m])
      <4>1. m - d \in (i + 1)..(j - 1) /\ m - d \in 1..(Len(new) - 1) /\ (m - d) + d = m
        <5>1. /\ m \in Int /\ i \in Int /\ j \in Int /\ d \in Int /\ Len(new) \in Int
              /\ i >= 1 /\ j <= Len(new) - 1 /\ m >= i + d + 1 /\ m <= j + d - 1
          BY <1>2, <1>3, <3>1
        <5>2. QED BY <5>1
      <4>2. new[m - d] = evs[m]
        BY <1>2, <4>1
      <4>3. QED BY <4>1, <4>2
    <3> DEFINE a == i + d
               b == j + d
    <3>5. /\ a \in 1..Len(evs) /\ b \in 1..Len(evs) /\ a < b
          /\ IsToken(evs[a]) /\ IsToken(evs[b])
          /\ \A m \in (a + 1)..(b - 1) : ~ IsToken(evs[m])
      BY <3>2, <3>3, <3>4
    <3> HIDE DEF a, b
    <3>6. Continues(evs[a], evs[b])
      BY <1>1, <3>5 DEF Story
    <3>7. QED BY <3>2, <3>6 DEF a, b
  <2>4. QED BY <2>2, <2>3
<1>9. QED BY <1>3, <1>7, <1>8 DEF Log

\* A claim, renewal, release or expiry continues the story.
LEMMA TokenEventContinues ==
  ASSUME NEW t \in State, NEW u \in State, NEW k \in Nat, NEW action,
         \/ action = "claim" /\ t.holder = NoNode /\ u.holder # NoNode /\ u.epoch = t.epoch + 1
         \/ action = "renew" /\ t.holder # NoNode /\ u.holder = t.holder /\ u.epoch = t.epoch
         \/ action \in {"release", "expire"} /\ t.holder # NoNode /\ u.holder = NoNode
            /\ u.epoch = t.epoch,
         NEW evs, Log(evs, k, t),
         NEW new, new = AppendEvent(evs, TokenEvent(k + 1, action, u))
  PROVE  Log(new, k + 1, u)
<1> DEFINE e == TokenEvent(k + 1, action, u)
<1>1. /\ e \in FeedEvents /\ e.seq = k + 1 /\ e.action = action /\ IsToken(e) /\ Shows(e, u)
      /\ e.holder = u.holder /\ e.epoch = u.epoch
  BY DEF TokenEvent, FeedEvents, TokenEvents, State, IsToken, Shows
<1>2. \A d : Shows(d, t) => Continues(d, e)
  BY <1>1 DEF Shows, Continues
<1> HIDE DEF e
<1>3. new = AppendEvent(evs, e)
  BY DEF e
<1>4. QED BY <1>1, <1>2, <1>3, LogGrows

\* So does a token operation, with the expiry that may come first.
LEMMA OperateStory ==
  ASSUME tok \in State, Log(events, seq, tok), NEW n \in Nodes, NEW op \in TokenOps, NEW now \in Nat,
         Operate(op, n, now)
  PROVE  tok' \in State /\ Log(events', seq', tok') /\ seq' >= seq
<1> DEFINE out     == TokenOutcome(op, tok, n, now)
           expired == Lapsed(tok, now)
           e1      == IF expired
                      THEN AppendEvent(events, TokenEvent(seq + 1, "expire", Cleared(tok)))
                      ELSE events
           s1      == IF expired THEN seq + 1 ELSE seq
           t1      == IF expired THEN Cleared(tok) ELSE tok
<1>1. /\ tok' = out.tok
      /\ IF out.action = "none"
         THEN seq' = s1 /\ events' = e1
         ELSE /\ seq' = s1 + 1
              /\ events' = AppendEvent(e1, TokenEvent(s1 + 1, out.action, out.tok))
  BY DEF Operate
<1>2. seq \in Nat /\ s1 \in Nat /\ s1 >= seq
  BY DEF Log, Numbered
<1>3. /\ Cleared(tok) \in State /\ t1 \in State
      /\ Cleared(tok).holder = NoNode /\ Cleared(tok).epoch = tok.epoch
  BY DEF Cleared, State, ZeroTime
<1>4. Log(e1, s1, t1)
  <2>1. CASE expired
    <3>1. tok.holder # NoNode
      BY <2>1 DEF Lapsed
    <3>2. e1 = AppendEvent(events, TokenEvent(seq + 1, "expire", Cleared(tok)))
          /\ s1 = seq + 1 /\ t1 = Cleared(tok)
      BY <2>1
    <3> HIDE DEF e1, s1, t1
    <3>3. Log(e1, seq + 1, Cleared(tok))
      BY <1>2, <1>3, <3>1, <3>2, TokenEventContinues
    <3>4. QED BY <3>2, <3>3
  <2>2. CASE ~ expired
    BY <2>2
  <2>3. QED BY <2>1, <2>2
<1>5. \/ out.action = "none" /\ out.tok = t1
      \/ out.action = "claim" /\ out.tok = Issued(tok, n, now) /\ t1.holder = NoNode
      \/ out.action = "renew" /\ out.tok = Extended(tok, now) /\ tok.holder = n /\ t1 = tok
      \/ out.action = "release" /\ out.tok = Cleared(tok) /\ tok.holder = n /\ t1 = tok
  <2> HIDE DEF out
  <2>1. QED BY <1>3, OutcomeCases DEF Outcome, out
<1>6. /\ Issued(tok, n, now).holder = n /\ Issued(tok, n, now).epoch = tok.epoch + 1
      /\ Extended(tok, now).holder = tok.holder /\ Extended(tok, now).epoch = tok.epoch
      /\ t1.epoch = tok.epoch /\ n # NoNode
  BY <1>3, NodesAssumption DEF Issued, Extended, State
<1>7. out.tok \in State
  BY OutcomeType
<1> HIDE DEF out, e1, s1, t1
<1>8. CASE out.action = "none"
  BY <1>1, <1>2, <1>4, <1>5, <1>7, <1>8
<1>9. CASE out.action # "none"
  <2>1. /\ events' = AppendEvent(e1, TokenEvent(s1 + 1, out.action, out.tok))
        /\ seq' = s1 + 1
    BY <1>1, <1>9
  <2>2. \/ /\ out.action = "claim" /\ t1.holder = NoNode /\ out.tok.holder # NoNode
           /\ out.tok.epoch = t1.epoch + 1
        \/ /\ out.action = "renew" /\ t1.holder # NoNode /\ out.tok.holder = t1.holder
           /\ out.tok.epoch = t1.epoch
        \/ /\ out.action \in {"release", "expire"} /\ t1.holder # NoNode
           /\ out.tok.holder = NoNode /\ out.tok.epoch = t1.epoch
    BY <1>3, <1>5, <1>6, <1>9
  <2>3. Log(events', s1 + 1, out.tok)
    BY <1>2, <1>3, <1>4, <1>7, <2>1, <2>2, TokenEventContinues
  <2>4. QED BY <1>1, <1>2, <1>7, <2>1, <2>3
<1>10. QED BY <1>8, <1>9

-----------------------------------------------------------------------------
\* Nothing between after and the last event of evs is missing but what is in left.
Whole(after, evs, left) ==
  evs # <<>> =>
    /\ evs[Len(evs)].seq \in Nat
    /\ \A k \in (after + 1)..evs[Len(evs)].seq :
         k \in left \/ \E i \in 1..Len(evs) : evs[i].seq = k

\* What one poll returns: up to the limit, the events that follow the number.
LEMMA PollIsWhole ==
  ASSUME NEW evs, NEW k, Numbered(FeedEvents, evs, k), NEW after \in Nat, NEW limit \in Nat \ {0},
         NEW out, out = PollEvents(evs, after, limit)
  PROVE  Len(out) \in Nat /\ Whole(after, out, (after + 1)..(k - Len(evs)))
<1> DEFINE fresh == Newer(evs, after)
           I == {i \in 1..Len(evs) : evs[i].seq > after}
           N == Len(fresh)
           m == Len(out)
<1>1. /\ evs \in Seq(FeedEvents) /\ Len(evs) \in Nat /\ k \in Nat /\ Len(evs) <= k
      /\ \A i \in 1..Len(evs) : evs[i].seq = k - Len(evs) + i
  BY LenProperties DEF Numbered
<1>2. fresh = Selected(evs, I)
  BY DEF Newer
<1> HIDE DEF I, fresh
<1>3. fresh \in Seq(FeedEvents)
  <2>1. Selected(evs, I) \in Seq(FeedEvents)
    BY <1>1, SelectedEntries
  <2>2. QED BY <1>2, <2>1
<1>4. PICK h \in [1..N -> 1..Len(evs)] :
        /\ \A l \in 1..N : h[l] \in I /\ fresh[l] = evs[h[l]]
        /\ \A l, n \in 1..N : l < n => h[l] < h[n]
        /\ \A i \in 1..Len(evs) : i \in I => \E l \in 1..N : h[l] = i
  <2> DEFINE sel == Selected(evs, I)
  <2>1. \E h \in [1..Len(sel) -> 1..Len(evs)] :
          /\ \A l \in 1..Len(sel) : h[l] \in I /\ sel[l] = evs[h[l]]
          /\ \A l, n \in 1..Len(sel) : l < n => h[l] < h[n]
          /\ \A i \in 1..Len(evs) : i \in I => \E l \in 1..Len(sel) : h[l] = i
    BY <1>1, SelectedEntries
  <2>2. sel = fresh
    BY <1>2
  <2> HIDE DEF sel
  <2>3. QED BY <2>1, <2>2
<1>5. N \in Nat
  BY <1>3, LenProperties
<1>6. /\ m \in Nat /\ m <= N
      /\ \A i \in 1..m : out[i] = fresh[i]
  <2>1. CASE N > limit
    <3>1. out = SubSeq(fresh, 1, limit)
      BY <2>1 DEF PollEvents, fresh
    <3>2. \A i \in 1..limit : fresh[i] \in FeedEvents
      <4>1. \A i \in 1..limit : i \in 1..N
        BY <1>5, <2>1
      <4>2. QED BY <1>3, <4>1, ElementOfSeq
    <3>3. Len(out) = limit /\ \A i \in 1..limit : out[i] = fresh[i]
      BY <3>1, <3>2, SubSeqProperties
    <3>4. QED BY <1>5, <2>1, <3>3
  <2>2. CASE ~ (N > limit)
    <3>1. out = fresh
      BY <2>2 DEF PollEvents, fresh
    <3>2. QED BY <1>5, <3>1
  <2>3. QED BY <2>1, <2>2
<1> HIDE DEF N
<1>7. ASSUME out # <<>> PROVE m \in 1..m /\ m \in 1..N
  <2>1. m # 0
    <3>1. out \in Seq(FeedEvents)
      <4>1. N > limit => out \in Seq(FeedEvents)
        <5> SUFFICES ASSUME N > limit PROVE out \in Seq(FeedEvents)
          OBVIOUS
        <5>1. out = SubSeq(fresh, 1, limit)
          BY DEF PollEvents, fresh, N
        <5>2. \A i \in 1..limit : fresh[i] \in FeedEvents
          <6>1. \A i \in 1..limit : i \in 1..N
            BY <1>5
          <6>2. QED BY <1>3, <6>1, ElementOfSeq DEF N
        <5>3. QED BY <5>1, <5>2, SubSeqProperties
      <4>2. ~ (N > limit) => out = fresh
        BY DEF PollEvents, fresh, N
      <4>3. QED BY <1>3, <4>1, <4>2
    <3>2. QED BY <1>7, <3>1, EmptySeq
  <2>2. QED BY <1>5, <1>6, <2>1
<1>8. ASSUME NEW i \in 1..m
      PROVE  i \in 1..N /\ out[i].seq = k - Len(evs) + h[i] /\ h[i] \in 1..Len(evs)
  <2>1. i \in 1..N
    BY <1>5, <1>6
  <2>2. out[i] = evs[h[i]] /\ h[i] \in 1..Len(evs)
    BY <1>4, <1>6, <2>1
  <2>3. QED BY <1>1, <2>1, <2>2
<1> HIDE DEF m
<1>9. ASSUME out # <<>> PROVE out[m].seq \in Nat
  BY <1>1, <1>7, <1>8, <1>9
<1>10. ASSUME out # <<>>, NEW j \in (after + 1)..out[m].seq, j \notin (after + 1)..(k - Len(evs))
       PROVE  \E i \in 1..m : out[i].seq = j
  <2>1. m \in 1..m /\ m \in 1..N /\ out[m].seq = k - Len(evs) + h[m] /\ h[m] \in 1..Len(evs)
    BY <1>7, <1>8, <1>10
  <2>2. j \in Nat /\ j > after /\ j > k - Len(evs) /\ j <= k - Len(evs) + h[m]
    <3>1. out[m].seq \in Nat
      BY <1>9, <1>10
    <3>2. j \in Int /\ j >= after + 1 /\ j <= out[m].seq
      BY <1>10, <3>1
    <3>3. QED BY <1>1, <1>10, <2>1, <3>2
  <2> DEFINE i == j - (k - Len(evs))
  <2>3. i \in 1..Len(evs) /\ i <= h[m] /\ j = k - Len(evs) + i
    BY <1>1, <2>1, <2>2
  <2> HIDE DEF i
  <2>4. i \in I
    BY <1>1, <2>2, <2>3 DEF I
  <2>5. PICK l \in 1..N : h[l] = i
    BY <1>4, <2>3, <2>4
  <2>6. ~ (m < l)
    BY <1>4, <2>1, <2>3, <2>5
  <2>7. l \in 1..m
    BY <1>5, <1>6, <2>5, <2>6 DEF m
  <2>8. out[l].seq = j
    BY <1>8, <2>3, <2>5, <2>7
  <2>9. QED BY <2>7, <2>8
<1>11. QED BY <1>6, <1>9, <1>10 DEF Whole, m

\* What the client has is whole, and the reply on its way goes on from there.
ClientOK ==
  /\ clock \in Nat /\ tok \in State /\ cursor \in Nat
  /\ \A r \in reply : Whole(cursor, r.evs, r.gone)
  /\ \A k \in 1..cursor : k \in got \/ k \in gone

\* The inductive invariant.
FeedInv == ClientOK /\ Log(events, seq, tok)

\* A new instance has an empty log, and nobody holds its token.
LEMMA FreshLog ==
  Log(<<>>, 0, NewToken) /\ NewToken \in State
<1>1. <<>> \in Seq(FeedEvents) /\ Len(<<>>) = 0 /\ MaxEvents \in Nat /\ 1..0 = {}
  BY EmptySeq, MaxEventsAssumption
<1>2. QED BY <1>1 DEF Log, Numbered, Mirrors, Story, NewToken, State, ZeroTime

\* The client reads a reply.
LEMMA ReadKeeps ==
  ASSUME FeedInv, NEW r \in reply, Read(r)
  PROVE  FeedInv'
<1>1. /\ clock \in Nat /\ tok \in State /\ cursor \in Nat
      /\ Whole(cursor, r.evs, r.gone)
      /\ \A k \in 1..cursor : k \in got \/ k \in gone
      /\ Log(events, seq, tok)
  BY DEF FeedInv, ClientOK
<1>2. /\ UNCHANGED <<clock, tok, seq, events>> /\ reply' = {}
  BY DEF Read
<1>3. cursor' \in Nat /\ \A k \in 1..cursor' : k \in got' \/ k \in gone'
  <2>1. CASE r.latest < cursor
    BY <2>1 DEF Read
  <2>2. CASE ~ (r.latest < cursor)
    <3>1. /\ cursor' = IF r.evs = <<>> THEN cursor ELSE r.evs[Len(r.evs)].seq
          /\ got' = got \cup {r.evs[i].seq : i \in 1..Len(r.evs)}
          /\ gone' = gone \cup r.gone
      BY <2>2 DEF Read
    <3>2. CASE r.evs = <<>>
      BY <1>1, <3>1, <3>2
    <3>3. CASE r.evs # <<>>
      <4> DEFINE last == r.evs[Len(r.evs)].seq
      <4>1. /\ cursor' = last /\ last \in Nat
            /\ \A k \in (cursor + 1)..last : k \in r.gone \/ \E i \in 1..Len(r.evs) : r.evs[i].seq = k
        BY <1>1, <3>1, <3>3 DEF Whole
      <4> HIDE DEF last
      <4>2. ASSUME NEW k \in 1..last PROVE k \in got' \/ k \in gone'
        <5>1. CASE k \in 1..cursor
          BY <1>1, <3>1, <5>1
        <5>2. CASE k \notin 1..cursor
          <6>1. k \in (cursor + 1)..last
            BY <1>1, <4>1, <5>2
          <6>2. k \in r.gone \/ \E i \in 1..Len(r.evs) : r.evs[i].seq = k
            BY <4>1, <6>1
          <6>3. QED BY <3>1, <6>2
        <5>3. QED BY <5>1, <5>2
      <4>3. QED BY <4>1, <4>2
    <3>4. QED BY <3>2, <3>3
  <2>3. QED BY <2>1, <2>2
<1>4. QED BY <1>1, <1>2, <1>3 DEF FeedInv, ClientOK

\* Every step keeps the invariant.
LEMMA FeedStep ==
  FeedInv /\ [FeedNext]_feedVars => FeedInv'
<1> SUFFICES ASSUME FeedInv, [FeedNext]_feedVars PROVE FeedInv'
  OBVIOUS
<1>0. ClientOK /\ Log(events, seq, tok)
  BY DEF FeedInv
<1>1. CASE FeedTick
  BY <1>0, <1>1 DEF FeedTick, client, FeedInv, ClientOK
<1>2. ASSUME NEW n \in Nodes, NEW op \in TokenOps, NEW now \in 1..clock, RecordOperation(n, op, now)
      PROVE  FeedInv'
  <2>1. Operate(op, n, now) /\ UNCHANGED <<clock, client>> /\ now \in Nat
    BY <1>0, <1>2 DEF RecordOperation, ClientOK
  <2>2. tok' \in State /\ Log(events', seq', tok')
    BY <1>0, <2>1, OperateStory DEF ClientOK
  <2>3. QED BY <1>0, <2>1, <2>2 DEF FeedInv, ClientOK, client
<1>3. CASE RecordHeartbeat
  <2> DEFINE e == [seq |-> seq + 1, action |-> "heartbeat"]
  <2>1. /\ seq' = seq + 1 /\ events' = AppendEvent(events, e) /\ UNCHANGED <<clock, tok, client>>
    BY <1>3 DEF RecordHeartbeat
  <2>2. e \in FeedEvents /\ e.seq = seq + 1 /\ ~ IsToken(e)
    BY <1>0 DEF FeedEvents, IsToken, Log, Numbered
  <2> HIDE DEF e
  <2>3. Log(events', seq + 1, tok)
    BY <1>0, <2>1, <2>2, LogGrows
  <2>4. QED BY <1>0, <2>1, <2>3 DEF FeedInv, ClientOK, client
<1>4. CASE NewLife
  BY <1>0, <1>4, FreshLog DEF NewLife, client, FeedInv, ClientOK
<1>5. CASE Poll
  <2>1. reply' = {Reply(cursor)} /\ UNCHANGED <<clock, tok, seq, events, cursor, got, gone>>
    BY <1>5 DEF Poll
  <2>2. Whole(cursor, PollEvents(events, cursor, Limit), (cursor + 1)..(seq - Len(events)))
    <3>1. Limit \in Nat \ {0} /\ cursor \in Nat /\ Numbered(FeedEvents, events, seq)
      BY <1>0, FeedAssumption DEF Limits, ClientOK, Log
    <3>2. QED BY <3>1, PollIsWhole
  <2>3. Reply(cursor).evs = PollEvents(events, cursor, Limit)
        /\ Reply(cursor).gone = (cursor + 1)..(seq - Len(events))
    BY DEF Reply
  <2>4. QED BY <1>0, <2>1, <2>2, <2>3 DEF FeedInv, ClientOK
<1>6. CASE Lose
  BY <1>0, <1>6 DEF Lose, FeedInv, ClientOK
<1>7. CASE \E r \in reply : Read(r)
  BY <1>7, ReadKeeps
<1>8. CASE UNCHANGED feedVars
  BY <1>0, <1>8 DEF feedVars, client, FeedInv, ClientOK
<1>9. QED BY <1>1, <1>2, <1>3, <1>4, <1>5, <1>6, <1>7, <1>8 DEF FeedNext

\* The invariant of EventFeed.
LEMMA FeedInvHolds == FeedSpec => []FeedInv
<1>1. FeedInit => FeedInv
  BY FreshLog DEF FeedInit, FeedInv, ClientOK
<1>2. FeedInv /\ [FeedNext]_feedVars => FeedInv'
  BY FeedStep
<1>3. QED BY <1>1, <1>2, PTL DEF FeedSpec

\* The retained events are numbered without a gap, and the newest one about the
\* token shows it as it is (see LogMirrorsToken; instance.go: who changes the
\* token records it in the same critical section).
THEOREM LogIsMirror == FeedSpec => []LogMirrorsToken
<1>1. FeedInv => LogMirrorsToken
  <2> SUFFICES ASSUME FeedInv PROVE LogMirrorsToken
    OBVIOUS
  <2>1. Numbered(FeedEvents, events, seq) /\ Mirrors(events, tok) /\ Len(events) \in Nat
    BY LenProperties DEF FeedInv, Log, Numbered
  <2>2. ASSUME NEW i \in 1..Len(events), TokenEventAt(i),
               \A j \in (i + 1)..Len(events) : ~ TokenEventAt(j)
        PROVE  Shows(events[i], tok)
    <3>1. \A j \in (i + 1)..Len(events) : j \in 1..Len(events)
      BY <2>1
    <3>2. Newest(events, i)
      BY <2>2, <3>1 DEF Newest, TokenEventAt, IsToken
    <3>3. QED BY <2>1, <3>2 DEF Mirrors
  <2>3. QED BY <2>1, <2>2 DEF Numbered, Shows, LogMirrorsToken
<1>2. QED BY <1>1, FeedInvHolds, PTL

\* The story of the token in the log has no hole (see LogTellsStory): a claim
\* follows an end and raises the epoch by one.
THEOREM LogIsStory == FeedSpec => []LogTellsStory
<1>1. FeedInv => LogTellsStory
  BY DEF FeedInv, Log, Story, Continues, LogTellsStory, TokenEventAt, IsToken
<1>2. QED BY <1>1, FeedInvHolds, PTL

\* A client that asks from the last number it has read misses nothing of the life
\* it reads but what had left the log (see NothingMissed), although replies are
\* cut at the limit and are lost: Poll cuts off the newest events, and the client
\* goes on from the last one it has.
THEOREM NothingIsMissed == FeedSpec => []NothingMissed
<1>1. FeedInv => NothingMissed
  BY DEF FeedInv, ClientOK, NothingMissed
<1>2. QED BY <1>1, FeedInvHolds, PTL
=============================================================================
