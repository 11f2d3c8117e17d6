------------------------------- MODULE Dispatch -------------------------------
(* One instance behind router.dispatch: the token, the work queue and the    *)
(* event log together.                                                       *)
(*                                                                           *)
(* /queue/poll and /queue/ack take three steps that other handlers may       *)
(* interleave with: the handler takes now := time.Now(); it reads the        *)
(* token's epoch in one critical section of in.mu; it works on the queue, at *)
(* that time and under that epoch, in another.  Token requests and           *)
(* /queue/enqueue are one critical section each.                             *)
EXTENDS Instance, QueueState

CONSTANTS
  MaxRequests,  \* bound: poll and ack handlers under way
  MaxEpoch,     \* bound: the last epoch issued, and the largest one on an item
  MaxLimit      \* bound: poll limits are 1..MaxLimit

ASSUME DispatchAssumption ==
  /\ MaxRequests \in Nat /\ MaxEpoch \in Nat /\ MaxClock \in Nat /\ MaxSeq \in Nat
  /\ MaxLimit \in Nat \ {0}

VARIABLES
  q,            \* in.q
  arrived,      \* the poll and ack requests whose handler has taken the time
  fenced,       \* those whose handler has also read the epoch, with that epoch
  arrivals,     \* history: the inserted events, in the order of insertion
  told,         \* history: told[w][e], the lease end the last poll reply gave w for e
  done          \* history: done[e], the worker whose ack settled e first

history == <<arrivals, told, done>>
vars == <<clock, tok, seq, events, q, arrived, fenced, history>>

\* A request with the time its handler took; a poll names no event, an ack no
\* limit.
Polling(w, limit, now) == [op |-> "poll", worker |-> w, arg |-> limit, now |-> now]
Acking(w, e, now)      == [op |-> "ack", worker |-> w, arg |-> e, now |-> now]

QueueEvent(k, action, e, w) == [seq |-> k, action |-> action, event |-> e, worker |-> w]

\* One event of type "queue".
Record(action, e, w) ==
  /\ seq' = seq + 1
  /\ events' = AppendEvent(events, QueueEvent(seq + 1, action, e, w))

-----------------------------------------------------------------------------
Init ==
  /\ clock = 1
  /\ tok = NewToken
  /\ seq = 0
  /\ events = <<>>
  /\ q = EmptyQueue
  /\ arrived = {}
  /\ fenced = {}
  /\ arrivals = <<>>
  /\ told = [w \in Workers |-> [e \in Events |-> 0]]
  /\ done = [e \in Events |-> NoWorker]

Tick ==
  /\ clock < MaxClock
  /\ clock' = clock + 1
  /\ UNCHANGED <<tok, seq, events, q, arrived, fenced, history>>

\* A token handler, which may have waited for in.mu since now.
TokenRequest(n, op, now) ==
  /\ seq < MaxSeq
  /\ op = "claim" => tok.epoch < MaxEpoch
  /\ Operate(op, n, now)
  /\ UNCHANGED <<clock, q, arrived, fenced, history>>

\* Wrong: a repeated event is recorded again.
EnqueueRequestLoud(e, epoch) ==
  /\ seq < MaxSeq
  /\ q' = Enqueued(q, e, NewItem(epoch))
  /\ Record("enqueue", e, NoWorker)
  /\ arrivals' = IF Inserts(q, e) THEN Append(arrivals, e) ELSE arrivals
  /\ UNCHANGED <<clock, tok, arrived, fenced, told, done>>

\* /queue/enqueue.
EnqueueRequest(e, epoch) ==
  /\ seq < MaxSeq
  /\ q' = Enqueued(q, e, NewItem(epoch))
  /\ IF Inserts(q, e)
     THEN Record("enqueue", e, NoWorker) /\ arrivals' = Append(arrivals, e)
     ELSE UNCHANGED <<seq, events, arrivals>>
  /\ UNCHANGED <<clock, tok, arrived, fenced, told, done>>

\* /queue/poll and /queue/ack, first step: now := time.Now().
Arrive(r) ==
  /\ seq < MaxSeq
  /\ Cardinality(arrived) + Cardinality(fenced) < MaxRequests
  /\ arrived' = arrived \cup {r}
  /\ UNCHANGED <<clock, tok, seq, events, q, fenced, history>>

\* Second step: epoch := in.TokenStatus(now).Epoch, which may expire the token.
ReadEpoch(r) ==
  /\ arrived' = arrived \ {r}
  /\ Operate("status", NoNode, r.now)
  /\ fenced' = fenced \cup {[req |-> r, epoch |-> tok'.epoch]}
  /\ UNCHANGED <<clock, q, history>>

\* Last step of /queue/poll: in.QueuePoll.
QueuePoll(f) ==
  LET w   == f.req.worker
      out == Handed(q, f.epoch, f.req.now, f.req.arg)
  IN  /\ f.req.op = "poll"
      /\ fenced' = fenced \ {f}
      /\ q' = Polled(q, out, w, f.req.now)
      /\ told' = [told EXCEPT ![w] =
                    [e \in Events |-> IF e \in out THEN f.req.now + QueueLease ELSE told[w][e]]]
      /\ IF out = {} THEN UNCHANGED <<seq, events>> ELSE Record("poll", "none", w)
      /\ UNCHANGED <<clock, tok, arrived, arrivals, done>>

\* Wrong: the error of q.Ack is ignored.
QueueAckUnchecked(f) ==
  LET w == f.req.worker
      e == f.req.arg
  IN  /\ f.req.op = "ack"
      /\ fenced' = fenced \ {f}
      /\ q' = IF AckError(q, e, f.epoch, w, f.req.now) = "none" THEN Acked(q, e, w) ELSE q
      /\ done' = IF done[e] = NoWorker THEN [done EXCEPT ![e] = w] ELSE done
      /\ Record("ack", e, w)
      /\ UNCHANGED <<clock, tok, arrived, arrivals, told>>

\* Last step of /queue/ack: in.QueueAck.
QueueAck(f) ==
  LET w == f.req.worker
      e == f.req.arg
  IN  /\ f.req.op = "ack"
      /\ fenced' = fenced \ {f}
      /\ IF AckError(q, e, f.epoch, w, f.req.now) = "none"
         THEN /\ q' = Acked(q, e, w)
              /\ done' = IF done[e] = NoWorker THEN [done EXCEPT ![e] = w] ELSE done
              /\ Record("ack", e, w)
         ELSE UNCHANGED <<q, done, seq, events>>
      /\ UNCHANGED <<clock, tok, arrived, arrivals, told>>

Next ==
  \/ Tick
  \/ \E n \in Nodes, op \in TokenOps, now \in 1..clock : TokenRequest(n, op, now)
  \/ \E e \in Events, epoch \in 0..MaxEpoch : EnqueueRequest(e, epoch)
  \/ \E w \in Workers, limit \in 1..MaxLimit : Arrive(Polling(w, limit, clock))
  \/ \E w \in Workers, e \in Events : Arrive(Acking(w, e, clock))
  \/ \E r \in arrived : ReadEpoch(r)
  \/ \E f \in fenced : QueuePoll(f) \/ QueueAck(f)

Spec == Init /\ [][Next]_vars

-----------------------------------------------------------------------------
Settled(e) == done[e] # NoWorker

\* The instance's queue, whatever its token does and whatever time and epoch its
\* handlers carry, is a QueueService.
Queue == INSTANCE QueueService
  WITH clock <- clock, q <- q, arrivals <- arrivals, told <- told, done <- done
QueueSpec == Queue!Spec

\* The retained events are numbered seq-Len(events)+1..seq, and what they say of
\* the queue is what happened: the "enqueue" events are the last insertions, in
\* their order; an "ack" event names a settled event and follows its "enqueue".
LogTellsQueue ==
  LET Is(action, i) == events[i].action = action
      Later(i)      == {j \in (i + 1)..Len(events) : Is("enqueue", j)}
  IN  /\ \A i \in 1..Len(events) : events[i].seq = seq - Len(events) + i
      /\ \A i \in 1..Len(events) : Is("enqueue", i) =>
           /\ Cardinality(Later(i)) < Len(arrivals)
           /\ events[i].event = arrivals[Len(arrivals) - Cardinality(Later(i))]
      /\ \A i \in 1..Len(events) : Is("ack", i) =>
           /\ Settled(events[i].event)
           /\ \A j \in Later(i) : events[j].event # events[i].event

\* No handler works under an epoch that has not been issued.
EpochsIssued == \A f \in fenced : f.epoch <= tok.epoch

\* Epoch k is over: the token has moved on and no handler still carries k.
Closed(k) == k < tok.epoch /\ \A f \in fenced : f.epoch # k

\* Once an epoch is over it stays over, and its work is neither handed out nor
\* settled any more ("epoch fencing", queue.go).
ClosedEpochIsFenced ==
  [][\A k \in 0..MaxEpoch : Closed(k) =>
       /\ Closed(k)'
       /\ \A e \in Events : e \in Stored(q) /\ q.items[e].tokenEpoch = k =>
            done'[e] = done[e] /\ \A w \in Workers : told'[w][e] = told[w][e]]_vars
=============================================================================
