------------------------------ MODULE Reconcile ------------------------------
(* /reconcile/run (router.dispatch, reconcile.Client): the governor pulls    *)
(* the pending item of each peer it is told of and enqueues it in its own    *)
(* work queue, both over HTTP with a timeout of 3s.                          *)
(*                                                                           *)
(* A peer offers one item while its dirty flag is set, always under the same *)
(* event id ("dirty:<node>"): events and peers are one set here.  The queue, *)
(* the token and the runs are in the memory of the governor; the flags are   *)
(* files of the peers.                                                       *)
EXTENDS QueueState

CONSTANTS
  Runs,         \* the /reconcile/run requests that can be under way at once
  Faults,       \* what may fail: "pull", "enqueue", "restart"
  MaxPeers,     \* bound: peers named in one request
  MaxClaims     \* bound: the last epoch issued

ASSUME ReconcileAssumption ==
  /\ Faults \subseteq {"pull", "enqueue", "restart"}
  /\ MaxPeers \in Nat \ {0} /\ MaxClaims \in Nat

VARIABLES
  dirty,        \* the peers whose flag is set
  queue,        \* in.q of the governor
  ownEpoch,     \* in.tok.Epoch of the governor
  runs,         \* runs[r]: what request r is doing
  late,         \* enqueue requests whose sender has given up
  counted,      \* history: how often a request has counted an event as EnqueuedNew
                \* since the governor was started
  settled,      \* history: the events acked since the start
  owed          \* history: owed[r], the peers of r's list whose flag has been set ever
                \* since r began, and for which no call of r has failed

recVars == <<dirty, queue, ownEpoch, runs, late, counted, settled, owed>>

Peers == Events
Lists == UNION {[1..n -> Peers] : n \in 1..MaxPeers}
Now   == 1      \* leases of workers, and their ends, are left to QueueService

\* A request: the peers still to be visited.
Idle == [stage |-> "idle", todo |-> <<>>]

\* Request r is done with its first peer.
Visited(r) == [runs[r] EXCEPT !.stage = "pull", !.todo = Tail(@)]
Becomes(r, run) == runs' = [runs EXCEPT ![r] = run]
Forgive(r, p) == owed' = [owed EXCEPT ![r] = @ \ {p}]

-----------------------------------------------------------------------------
RecInit ==
  /\ dirty = {}
  /\ queue = EmptyQueue
  /\ ownEpoch = 0
  /\ runs = [r \in Runs |-> Idle]
  /\ late = {}
  /\ counted = 0
  /\ settled = {}
  /\ owed = [r \in Runs |-> {}]

\* /pending/set or /preflight/run, and /pending/clear, on a peer.
SetFlag(p) ==
  /\ dirty' = dirty \cup {p}
  /\ UNCHANGED <<queue, ownEpoch, runs, late, counted, settled, owed>>

ClearFlag(p) ==
  /\ dirty' = dirty \ {p}
  /\ owed' = [r \in Runs |-> owed[r] \ {p}]
  /\ UNCHANGED <<queue, ownEpoch, runs, late, counted, settled>>

\* A request arrives, with its list of peers.
Start(r, list) ==
  /\ runs[r].stage = "idle"
  /\ Becomes(r, [stage |-> "pull", todo |-> list])
  /\ owed' = [owed EXCEPT ![r] = dirty \cap {list[i] : i \in DOMAIN list}]
  /\ UNCHANGED <<dirty, queue, ownEpoch, late, counted, settled>>

\* PullPending from the next peer.
Pull(r) ==
  /\ runs[r].stage = "pull" /\ runs[r].todo # <<>>
  /\ Becomes(r, IF Head(runs[r].todo) \in dirty
                THEN [runs[r] EXCEPT !.stage = "enqueue"] ELSE Visited(r))
  /\ UNCHANGED <<dirty, queue, ownEpoch, late, counted, settled, owed>>

\* Wrong: a peer that fails ends the request.
SkipAll(r) ==
  /\ "pull" \in Faults
  /\ runs[r].stage = "pull" /\ runs[r].todo # <<>>
  /\ Becomes(r, [runs[r] EXCEPT !.todo = <<>>])
  /\ Forgive(r, Head(runs[r].todo))
  /\ UNCHANGED <<dirty, queue, ownEpoch, late, counted, settled>>

\* PullPending fails: the peer is passed over.
Skip(r) ==
  /\ "pull" \in Faults
  /\ runs[r].stage = "pull" /\ runs[r].todo # <<>>
  /\ Becomes(r, Visited(r))
  /\ Forgive(r, Head(runs[r].todo))
  /\ UNCHANGED <<dirty, queue, ownEpoch, late, counted, settled>>

\* /queue/enqueue of the item, which has no TokenEpoch.
Take(p) == queue' = Enqueued(queue, p, NewItem(0))

\* Wrong: every event that was enqueued counts as new.
EnqueueUnchecked(r) ==
  /\ runs[r].stage = "enqueue"
  /\ Take(Head(runs[r].todo))
  /\ Becomes(r, Visited(r))
  /\ counted' = counted + 1
  /\ UNCHANGED <<dirty, ownEpoch, late, settled, owed>>

\* EnqueueToGovernor, answered in time.
EnqueueToGovernor(r) ==
  LET p == Head(runs[r].todo)
  IN  /\ runs[r].stage = "enqueue"
      /\ Take(p)
      /\ Becomes(r, Visited(r))
      /\ counted' = IF Inserts(queue, p) THEN counted + 1 ELSE counted
      /\ UNCHANGED <<dirty, ownEpoch, late, settled, owed>>

\* EnqueueToGovernor times out or fails; the request may be served all the same.
GiveUp(r) ==
  /\ "enqueue" \in Faults
  /\ runs[r].stage = "enqueue"
  /\ late' = late \cup {Head(runs[r].todo)}
  /\ Becomes(r, Visited(r))
  /\ Forgive(r, Head(runs[r].todo))
  /\ UNCHANGED <<dirty, queue, ownEpoch, counted, settled>>

\* ... or never.
Serve(p) ==
  /\ p \in late
  /\ late' = late \ {p}
  /\ Take(p)
  /\ UNCHANGED <<dirty, ownEpoch, runs, counted, settled, owed>>

\* The list has been gone through.
Reply(r) ==
  /\ runs[r].stage = "pull" /\ runs[r].todo = <<>>
  /\ Becomes(r, Idle)
  /\ owed' = [owed EXCEPT ![r] = {}]
  /\ UNCHANGED <<dirty, queue, ownEpoch, late, counted, settled>>

\* A worker acks under the epoch of now.  (Poll only leases events to workers.)
AckEvent(w, e) ==
  /\ AckError(queue, e, ownEpoch, w, Now) = "none"
  /\ queue' = Acked(queue, e, w)
  /\ settled' = settled \cup {e}
  /\ UNCHANGED <<dirty, ownEpoch, runs, late, counted, owed>>

\* The token is issued anew.
Claim ==
  /\ ownEpoch < MaxClaims
  /\ ownEpoch' = ownEpoch + 1
  /\ UNCHANGED <<dirty, queue, runs, late, counted, settled, owed>>

\* The governor dies and is started again.
Restart ==
  /\ "restart" \in Faults
  /\ queue' = EmptyQueue
  /\ ownEpoch' = 0
  /\ runs' = [r \in Runs |-> Idle]
  /\ late' = {}
  /\ counted' = 0
  /\ settled' = {}
  /\ owed' = [r \in Runs |-> {}]
  /\ UNCHANGED dirty

Step(r) == Pull(r) \/ Skip(r) \/ EnqueueToGovernor(r) \/ GiveUp(r) \/ Reply(r)

RecNext ==
  \/ \E r \in Runs : Step(r) \/ \E list \in Lists : Start(r, list)
  \/ \E p \in Peers : SetFlag(p) \/ ClearFlag(p) \/ Serve(p)
  \/ \E w \in Workers, e \in Events : AckEvent(w, e)
  \/ Claim
  \/ Restart

RecSpec == RecInit /\ [][RecNext]_recVars

-----------------------------------------------------------------------------
\* An event waits for a worker, who may poll it under the epoch of now, or is with one.
Waiting(e) == e \in Stored(queue) /\ ~ queue.items[e].acked /\ queue.items[e].tokenEpoch = ownEpoch

\* A request is about to reply: each peer of its list whose flag was set all along,
\* unless a call to it or for it failed, has an event in the queue, and that event waits
\* for a worker if the token has not been issued and no event of the peer was acked
\* since the governor was started, whatever other requests did meanwhile.
ChangesBecomeWork ==
  \A r \in Runs :
    runs[r].stage = "pull" /\ runs[r].todo = <<>> =>
      \A p \in owed[r] : p \in queue.seen /\ (Waiting(p) \/ p \in settled \/ ownEpoch > 0)

\* EnqueuedNew: no event is counted by two requests, or twice by one, however
\* they overlap and whichever calls are served late.
CountedOnce == counted <= Cardinality(queue.seen)
=============================================================================
