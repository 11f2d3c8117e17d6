# zmesh in TLA+

zmesh replicates a directory (a *scalefs*) between nodes. Each scalefs has an
instance, served over HTTP by an agent: it grants a lease (the *token*) to one
node at a time, hands out *work* to workers from a queue that is fenced by the
token's epoch, and keeps a numbered *event log* of both. A *preflight* run notices
changes made while no agent was running and sets a durable dirty flag, and *reconcile*
turns the flags of the other nodes into work. This directory
holds TLA+ models of these parts, TLC configurations that check them on small instances, and
TLAPS proofs of what matters most, for every value of the constants. The Go
sources below `src/internal/` are the reference; each definition names the code
it stands for, and `PROJECT.json` maps it to lines.

## The system

| component (`src/internal/`) | state | operations | properties that make it correct | status |
|---|---|---|---|---|
| token (`token`, `instance`) | holder, issued and expiry times, epoch | status, claim, renew, release; lazy expiry at the start of each | at most one node relies on the token; what a reply promised is kept; each issue raises the epoch | modelled |
| event log (`instance`) | `seq`, the last 4096 events | append; `/poll` after a cursor | numbering without gap; the log tells what happened; a reader misses nothing that was retained | modelled |
| work queue (`queue`) | order, items, ids ever seen | enqueue, poll (lease), ack, prune at overflow | no loss, no redelivery, one worker per item, arrival order | modelled |
| router (`router`) | none of its own; one goroutine per request | `/token/*`, `/queue/*`, `/hb`, `/poll`, `/pending*`, `/reconcile/run`, `/preflight/run`, `/leader/status`, `/bench/*` | epoch fence across two critical sections | all that change state, and the reads `/poll`, `/leader/status`, `/bench/activeset` |
| registry (`router`) | map from UUID to instance, idle times | GetOrCreate, janitor sweep | two requests never use two instances of one UUID; the token has one issuer | modelled |
| HTTP client (`transport`) | none | claim, renew, release with a timeout; heartbeat; ping | a lost or late call does no harm | token calls and heartbeats |
| leadership | a pointer to the token | Holder, Epoch, IsLeader | a leader holds the token; epochs never go back | modelled |
| active set, quorum (`instance`, `bench`) | last heartbeat of each node | RecordHeartbeat, ActiveNodes | a node that is silent for the window is inactive, one that runs is active | modelled |
| reconcile | none | pull each peer's pending item, enqueue it at the governor | a change on a peer becomes work, and is counted once | modelled |
| pending flag (`pendingstore`, `pending`) | one JSON file per node | get, set, clear, through write and rename | a dirty flag survives until it is cleared | modelled |
| preflight, diff, diffbase | signature, index or snapshot of the last run | detect, save the base | a change is reported at least once; snapshots do not pile up | modelled (`/preflight/run`) |
| agent | none but its loops | claim every 10s or 5s, heartbeat every second, release at shutdown | the holder keeps the token as long as it runs; another gets it in the end | claim loop and heartbeats modelled |
| replication | none | drive `zfs send` and `zfs recv` over ssh | | not modelled (no caller) |
| controller, membership, bench links, watch filter | none that is read | loops whose handlers print or do nothing | | not modelled |
| manifest, config, scalefsconf, identifiers, command line | none | parse and format | | not modelled |
| shell and PowerShell tools | files, zfs datasets | administrative commands | resumable synchronisation | not modelled |

How the parts interact. Every request starts with `GetOrCreate` under the
registry's mutex; the handler then keeps a pointer to the instance and takes
`in.mu` one or more times. `in.mu` protects the token, the log and the heartbeat
table; the queue has a mutex of its own that is always taken inside `in.mu`. The
leader check reads the token under a third mutex. Reconcile calls other nodes'
`/pending` and the governor's `/queue/enqueue` over HTTP. The agent calls the token
endpoints of its first WAN peer, and its main loop sends a heartbeat to each of its peers in turn.

What is hard in this code, and where the properties point:

* handlers read the clock *before* they wait for a mutex, so operations carry
  old times and run in another order than their times;
* `/queue/poll` and `/queue/ack` read the epoch in one critical section and use it
  in the next;
* a request outlives the client's timeout, and the client's retry;
* the janitor deletes instances that handlers may still hold;
* nothing of the instance survives a restart or a sweep, the epoch included;
* files are read, emptied, written and renamed by handlers that no mutex keeps apart,
  and the process may die between two of these steps;
* logs and queues overflow;
* an agent sleeps, fails, is stopped or dies against a lease that runs out, and its
  requests may be served after all of that;
* `/leader/status` reads the token without the mutex under which it is written;
* heartbeats are held up by dead peers, get lost, overtake each other and carry a clock of their own.

`PROJECT.json` lists each of these at its line under `hazards`.

As committed, the agent does not compile (`agent.go` assigns an undeclared
`httpx` and reads `Cfg.ScaleFS.Roots`, which the configuration lacks). `Agent` and
`Heartbeat` take its loops as they are written, with `httpx` a local variable. The other packages
modelled here do compile.

## Modules

Written in this order, the most important behaviour first.

| module | stands for | corresponds to the code |
|---|---|---|
| `Selection` | the loops that go through a slice and keep some of it | `Selected` keeps the entries at given indices, in their order: `pruneLocked`, `Poll` |
| `EventLog` | `appendEventLocked`, `Poll` | `AppendEvent` keeps the last `MaxEvents` (4096) events; `PollEvents` is a reply of `/poll` |
| `TokenState` | the token record | one operator per operation: `ClaimOutcome`, `RenewOutcome`, `ReleaseOutcome`, `StatusOutcome`, all after `ExpireIfNeeded`; `LeaseTime` is `Router.tokenLease` |
| `TimedToken` | the token of one instance and the clock | variables only |
| `Instance` | token and log under `in.mu` | `Operate` is one critical section: expiry, operation, both events |
| `Lease` | the abstract service: an exclusive, fenced lease | no code; what a node may rely on |
| `TokenService` | the HTTP service with its clients | a call is sent, arrives (`now := time.Now()`), is applied, replied, learned; or is lost; or its client gives up and the request lives on as an orphan. `Patient` are the nodes to which the last never happens |
| `QueueState` | the queue's data and operations | `Enqueued`, `Polled`, `Acked`, `Pruned`; `MaxItems` is `maxItems` |
| `QueueService` | queue and workers, under any epoch and any past time | one action per method |
| `Dispatch` | token, queue and log behind the router | `Arrive`, `ReadEpoch`, then `QueuePoll` or `QueueAck`: the three steps of the handlers; `TokenRequest` and `EnqueueRequest` are one critical section |
| `Registry` | the registry, its janitor, handlers and restarts | `Condemn` and `Sweep` are the two steps of `sweep`; `instances` keeps the swept generations, because handlers do |
| `Preflight` | `/preflight/run`, `diff.Detect`, the zfs and the generic provider | one action per system call: `Detect` up to the first base that is read, then `Snapshot`, `Diff`, `Destroy`, `ReadSignature`, `Walk`, `TruncateBase`, `WriteBase`, `Report`; `Text` is `readText`, to which a file that cannot be read is an empty one; `Concluded` is the fallback after a failed diff |
| `PendingStore` | the flag file and the handlers that set and clear it | `Read`, `Open`, `Write`, `Rename`; files are inodes, because a handler goes on writing the one it has opened, whatever its name is by then |
| `Reconcile` | `/reconcile/run` at the governor, its two HTTP calls, the peers' flags | `Pull`, `EnqueueToGovernor` and `Reply` are the steps of a request; `Skip` and `GiveUp` are calls that fail, `Serve` an enqueue that is served after its caller has given up |
| `EventFeed` | the log with token operations, heartbeats and a client of `/poll` | `Poll` computes a reply, `Read` is the client's step when it gets it; `NewLife` is a restart or a sweep with the creation that follows |
| `Leadership` | `/leader/status` beside the token operations | `Touch` is what `GetOrCreate` does, and all that orders the request with the writers; `Reply` picks from what the racing reads may find |
| `Agent` | the claim loop of `agent.Run`, on each node, and one server | `Call`, `Answer`, `Fail` are the steps of the loop, `Serve` and `ServeLate` those of the server; `Signal`, `Exit` and `Crash` end a process |
| `Heartbeat` | the main loop of `agent.Run`, `SendHeartbeat`, `RecordHeartbeat`, `ActiveNodes` | `TakeTick`, then for each peer `Reach` and `Return`; `RecordHeartbeat` is `/hb`, for a request that may be late and overtaken |

`TokenService`, `Dispatch` and `EventFeed` extend `Instance`, and `Instance` and `Leadership` extend `TimedToken`;
`Dispatch` also extends `QueueState`, as do `QueueService` and `Reconcile`; `TimedToken`, `Registry` and `Agent`
extend `TokenState`; `EventLog` and `QueueState` extend `Selection`. The `MC*` modules add only the symmetry sets.

The `*_proofs` modules hold the theorems. `Operators_proofs` is about the operators; each of the others is about
a component, and four of them about a second one that keeps the same things:

| proof module | extends |
|---|---|
| `Operators_proofs` | `TokenState`, `EventLog`, `QueueState` |
| `TokenService_proofs` | `TokenService`, `Leadership` |
| `QueueService_proofs` | `QueueService`, `Reconcile` |
| `Dispatch_proofs` | `Dispatch`, `EventFeed` |
| `PendingStore_proofs` | `PendingStore`, `Preflight` |
| `Registry_proofs`, `Agent_proofs`, `Heartbeat_proofs` | the component |

So that a module can extend both, the second one has names of its own for its specification: `LeadSpec`, `RecSpec`, `FeedSpec` and
`RunSpec` with their `Init`, `Next` and variables. Operators marked "Wrong:"
are faulty variants of the definition that follows them: substituting one must make TLC report
the property named with it in `PROJECT.json`.

Refinements, each an `INSTANCE ... WITH` in the detailed module. `TokenService` implements `Lease` for
its patient nodes (`Contract == INSTANCE Lease WITH Nodes <- Patient, ...`, `LeaseSpec`): the
promise of the last reply is the lease. `Dispatch` implements `QueueService`
(`Queue`, `QueueSpec`): whatever the token does, and whatever time and epoch the handlers
carry, the queue's variables behave as that module says, so its theorems hold
behind the router too.

### Abstractions

* Time is a counter that all nodes read (the clocks of clients and server are
  synchronised). `ZeroTime` (0) is `time.Time{}`. Tick granularity makes
  equal instants possible, as they are in milliseconds.
* Names, items and payloads are model values. An item keeps its epoch, worker, lease
  end and acked flag. Clients enqueue plain items, without a worker or an ack.
* Two orphans of one node that are alike, or two handlers that are alike, are
  one element of a set. One more would do what the first one does.
* `Registry` has one UUID; GetOrCreate and the sweep treat UUIDs separately.
  Of the endpoints other than `/token/*` it keeps whether they touch `lastAccess`.
* Malformed requests are left out: they change nothing. Poll limits outside
  1..512 are replaced by the router before they reach the queue.
* `Agent` has no clock but the seconds that are left of the lease and of each timer, so its
  liveness run needs no last instant. A request is applied at the time at which it is served (the wait
  between `time.Now()` and the mutex is `TokenService`'s subject), epochs are left out, and a lease that has
  run out is cleared at once instead of by the next request. All agents have the same first peer.
  Between the signal and the end of the process no time passes: `main` returns right after `cancel`.
* `Heartbeat` likewise counts ages, up to a cap above the window, beyond which they no longer matter. It
  has one server; the other peers only take up time, up to the timeout each, because they may
  be dead. `MaxSkew` includes the second that `TSUnix` truncates. A heartbeat arrives
  within `MaxLate` or not at all. With `window` in the query the window is another value of `Window`.
* `EventFeed`'s client is no code of the repository. It does what the endpoint is made for: it asks after
  the last number it has read, and starts at 0 again when `latest` is below that.
* `Leadership`: the reads of the token that race with writes find any value the field had since the request's
  touch, and a name that is half of one and half of another, since a string is two words; that is what the
  compiled program can produce. The time of the answer is one taken after the touch.
* `Preflight`: the tree is a version number and a signature is the version of the tree at
  one instant, although the walk takes time; a signature of a tree that was edited
  meanwhile differs from those before and after, like a version of its own. Path
  filters are left out: an edit is one of a watched path. Whether the tree is on a zfs dataset (`OnZfs`) does not change. All requests are of one
  instance and one node, which share `main.sig` and `zfs.lastsnap`.
* `os.WriteFile` is two steps, because a reader or a crash may come between: the file is
  emptied, then written. Either half may fail: a file that cannot be opened keeps what it has, one that
  cannot be written stays empty. `Preflight`'s bases are one line each, written as a whole or not at all. In `PendingStore` the record of a clear flag is shorter than that of a
  dirty one (`"dirty":false,"dirty_since_unix_ms":0` against a time of 13 digits), so that a late
  writer leaves a tail; `Overwritten` says what a reader makes of it.
* Clients give the dirty flag times of 13 digits (milliseconds since 1970), so that two
  records of a dirty flag have one length.
* `PendingStore` is the store of an instance that has one. Nothing in the repository calls
  `SetStateStores`, so as wired `PendingSet` does nothing; `Preflight` covers this with the
  fault `"flag"`.
* `PendingStore`: the read of the flag in `/pending/add` may fail (`misread`); the handler drops the error and goes on with
  a flag that counts as clear.
* `Reconcile`: the flags of the peers are a set, and events and peers are one set, because a
  peer's item always has the id `dirty:<node>`. Peers are wired with a store and a node id of
  their own (as it stands no instance has either, and `/pending` lists nothing). Leases of workers are
  left to `QueueService`, so any worker may ack what the epoch allows. Other enqueues at the governor
  are left out. Requests that have timed out with the same event are one element of a set.

## Runs

| run | instance and bounds | checks | shows |
|---|---|---|---|
| `token_lease` | 3 nodes, 2 of them patient, 1 orphan, log of 1, clock up to 2 | `TypeOK`, `LeaseHonoured`, `MutualExclusion`, `LeaseSpec`, `NoTheft` | what a patient node was told is kept, however late the requests of others are served, and only expiry or one's own release ends a lease |
| `queue` | 3 events, 2 workers, `MaxItems` 2, epochs 0..1 | `TypeOK`, `OneWorker`, `NothingLost`, `OrderMatches`, `NoRedelivery`, `AckRespectsLease`, `NoOvertaking`, `OnlyWorkOverflows` | leases, acks, pruning and retries fit together; work whose lease has run out is not passed over |
| `dispatch` | 1 node, 2 events, 2 workers, 2 handlers, 2 epochs | `EpochsIssued`, `LogTellsQueue`, `QueueSpec`, `ClosedEpochIsFenced` | the two-step handlers keep the fence for epochs that are over before they read |
| `registry` | 2 generations, 2 boots, 2 handlers | `NoOrphanInUse`, `OneIssuer` | prompt handlers never meet a swept instance |
| `preflight` | 2 requests, zfs or not, 3 versions, 3 seconds, 2 kinds of mishap, each any number of times | `NoChangeLost`, `SnapshotsTended`, `AlarmedOnce`, `BaseUsable` | an edit is kept from the first sound run on until the next harmful mishap; each other property names the mishaps that it must be spared |
| `preflight_crash` | 1 request, no zfs, crashes only | `ChangesKept` violated | the base is replaced before the flag is set: a crash while `main.sig` is rewritten loses the change |
| `pending` | 3 requests, failures and crashes without bound | `SettledFlag`, `FlagSurvives`, `InsertedIsTransition` | overlapping writers end with a file that means what they wrote; without overlap the flag is durable and its transitions are told truly, but for reads that fail |
| `reconcile` | 2 peers, 2 requests with lists of up to 2, `MaxItems` 1, 1 claim; failed pulls, late enqueues, restarts | `ChangesBecomeWork`, `CountedOnce` | a change that stood all along is in the queue at the reply, unless a call for it failed; no event is counted as new twice |
| `agent` | 2 nodes, lease 7, sleeps 2 and 1, timeout 1, 1 failed call in a row, 1 restart; starts, stops and crashes without bound | `TypeOK`, `KeepsToken`, `FailsOver` | who was granted the token keeps it while it runs; in the end the token is with an agent that runs |
| `heartbeat` | 1 node, 2 peers, timeout 1, window 11, 1 lost, 1 late, skew 1 | `AliveIsActive`, `SilentIsInactive` | the window bridges dead peers, dropped ticks and lost heartbeats; no late heartbeat brings a stopped node back |
| `feed` | 2 nodes, log of 2, replies of 1, 4 events in each of 2 lives, 1 lost reply | `LogMirrorsToken`, `LogTellsStory`, `NothingMissed`, `CatchesUp` | the log tells the token's story between heartbeats; its reader gets all that was retained, and comes to its end |
| `leadership` | 2 nodes, 2 requests at a time, 2 epochs | `EpochsNeverGoBack`, `OneLeaderPerEpoch`, `NamesTheHolder` | what an answer can be trusted for although it reads without the mutex |

In `Preflight` any call may fail, as may the reads and both halves of the writes of `main.sig` and `zfs.lastsnap`,
whose errors the code drops: a base that cannot be read counts as none, and a failed write leaves an empty file.
What holds depends on what goes wrong, so history variables record it: `mishaps` the kinds that have happened,
`sound` that nothing harmful has happened since somebody last began to run alone, and `trusted` the first base
saved since then.

* `ChangesKept` is what preflight promises: every edit after the first base is reported or still differs from a base. It does not
  hold (`preflight_crash`).
* `NoChangeLost` is what holds instead: every edit after `trusted`. A harmful mishap (`Harmful`: an overlap, a crash, a failed read, diff or flag,
  a base that was not written, a `zfs.lastsnap` that was not opened) may lose an edit, and may leave behind
  emptied files, old snapshots and bases of two different ages; but one run alone and without such a mishap ends all that, and from
  the base it saves nothing is lost until the next one. The mishaps that are not in `Harmful` (`zfs list`, `snapshot` and `destroy`,
  the walk, opening `main.sig`) lose nothing at any time. Without any one of the seven in `Harmful`, TLC finds a lost change.
* `SnapshotsTended` is spared overlaps, crashes, failed `zfs destroy`s, and reads and writes of `zfs.lastsnap` that fail: after
  one of them the old snapshot is forgotten. The failures of `zfs list`, `snapshot`, `diff` and of everything in `generic` leave none behind.
* `AlarmedOnce` bears crashes, failed reads, writes and `zfs destroy`s: a base lost in one of them makes the next run the first one,
  which reports nothing. It is spared what makes the providers take turns, because their bases are of different ages.
* `BaseUsable` bears overlaps, failed diffs, reads and writes; it is spared crashes, and opens of `zfs.lastsnap` that fail after the old snapshot
  is destroyed.

`NoOvertaking` covers redelivery: an older event that a poll passes over is acked, was under a lease at the time the poll carried, or
is handed out with it, so work whose lease has run out comes before what is younger. `InsertedIsTransition` says that a lone `/pending/add` that could
read the flag tells the transition it makes; one that could not always says `inserted`.

Why the bounds are enough to be of interest. Lease times of 1 or 2 ticks with
clocks of 2 to 6 contain a lease that ends, its boundary instant, and a second
issue after it. `MaxEvents` of 1 to 3 and `MaxItems` of 1 or 2 are below the number
of events and items, so that trimming and pruning take place. Two handlers, or
two workers, are what each race needs; three nodes give the token a bystander.
`MaxSeq` bounds the requests taken in, never the steps of a request that is under
way. Each run's bound is a guard on the action that would exceed it, so the
system stops at the bound and most runs do not check deadlock. The handlers themselves
have no waiting condition but mutexes that are taken in one order.

Three versions of the tree are a base, an edit and an edit that meets a run; three
seconds are two snapshots and a third to compare the second with, or a name that is
taken. Two kinds of mishap at once contain an overlap with a failure. (Larger
instances took too long to keep; the four properties are proved for every bound.) `PendingStore` has no
bound but the number of requests: files without a name that nobody has open are gone.
In `Reconcile` two requests with lists of two peers, a peer named twice among them, are what
an overlap and a failure in the middle of a list need; `MaxItems` 1 makes the queue prune an acked
event that is then pulled again; one claim closes the epoch of the items. Like `PendingStore`,
it checks deadlock.

In `token_lease` the third node is not patient, and one orphan is enough for its harm: if it were
counted among the patient nodes, `LeaseHonoured` would fail within these bounds. The properties of this
run are all proved for every bound.

The times of the `agent` run are the code's (lease 30s, sleeps 10s and 5s, timeout 2s) made small such that the
sleep, the failed calls and two more calls end one second before the lease does
(`2 + 1*(1+1) + 2*1 < 7`), as tight as `Timing` allows; in the code two failed calls
in a row fit (`10 + 2*(2+5) + 2*2 < 30`). With `MaxFailures` one higher `KeepsToken` fails.

The `heartbeat` run has one node, because `lastSeen` and the loops of different nodes do not touch each
other. Its window of 11 leaves nothing to spare for these delays (10 is too short): a round with dead peers takes `Peers * Timeout`, a tick
waits for up to a round in the ticker, a heartbeat is lost and the next is late. In the instances
that were tried the window needed is three rounds, one more per lost heartbeat, and the delays and the skew; so the code's
90s bear about ten dead peers at 2s each.

The `feed` run's log of 2 and its 4 events let the reader fall behind the log, replies of 1 are cut, and
the second life may begin before, at or behind its cursor. In `leadership` one client's request spans that of the other, and
two epochs give it a claim by another node meanwhile.

The passing `registry` run fixes `TTL = MaxStall = LeaseTime`, the weakest case of the
hypothesis `Prompt` (`LeaseTime <= TTL` and `MaxStall <= TTL`): the code has a lease of
30s and a ttl of 10 minutes. With a `MaxStall` above the ttl `NoOrphanInUse` fails.

### Fairness

Two specifications state fairness; all other properties are safety properties, and calls by
clients are never forced.

* `Agent`: `WF(Tick)`, time passes; for each node `WF(Loop(n))`, a process that is scheduled wakes up after its sleep and its
  call returns within its timeout, because `http.Client` has one; `WF(Serve(n))`, the server's handlers run to their end, since
  they wait for mutexes only, which are taken in one order; and `WF(Exit(n))`, `main` returns after the signal.
  `MaxFailures` says that a call succeeds in the end, without which nothing gets the token. Starts, signals, crashes, late requests and restarts of the server have no
  fairness: `FailsOver` holds whether or not they happen, for behaviours in which they end.
  For a late request that means it may also be served never.
* `EventFeed`: `WF(Poll)` and `WF` of reading the reply; the client keeps asking. Nothing is assumed of the
  writers: `CatchesUp` is about what happens when they pause. `MaxLost` bounds the lost replies.

## Where code and comments differ

* `instance.go:136` promises mutual exclusion. Replies are promises only to nodes whose earlier calls are
  over: the handlers take the time before they wait for the mutex, and a request survives
  its client's timeout (`transport/http.go:121`), so that a node's own late claim, renewal or
  release shortens or drops the lease it was promised, and another node gets a token that overlaps it.
  Hence `Patient`; to these nodes the others do no harm. Nor do promises survive a restart of the process: it forgets the token, and the next
  claim is granted while the earlier lease runs. `OneIssuer` therefore speaks of one run of the process.
* `queue.go:145` promises to reject an ack of another epoch. It compares with the
  epoch that the handler has read earlier (`router.go:452`), and a claim may come between. What does hold is
  `ClosedEpochIsFenced`: once every handler has read a later epoch, items of the old one
  are neither handed out nor settled.
* `preflight.go:15` says the goal is not to lose local changes. A crash loses one
  (`preflight_crash`): the base is emptied and replaced before the flag is set, and a run that finds it empty takes itself for the first.
  So do an overlap of two requests (one empties `main.sig` while the
  other reads it), a base that cannot be read (`readText` returns nothing) or is emptied and not written (the error of `os.WriteFile` is
  dropped), a failed `zfs diff` (the base moves on all the same) and a flag
  that is not set. As wired it is never set: nothing gives an instance a pending store.
* `pendingstore.go:11` calls the flag durable. It is with one writer at a time
  (`FlagSurvives`); of two that overlap, one may reply when the other has emptied the file
  it renames, and `SettledFlag` is what is left.
* `router.go:524` counts transitions of the flag, which is true of calls that do not overlap and can read the flag
  (`InsertedIsTransition`). The error of the read is dropped, and a flag that was set is then reported as inserted.
* `router.go:626` says reconcile is called after a (re)appointment, which issues the token. Its
  items carry epoch 0, and under a later epoch `/queue/poll` never hands them out: they
  wait in the queue for good. `ChangesBecomeWork` promises a worker only before the
  first claim, and also only the first change of a node: `seen` never forgets `dirty:<node>`, so
  a change after the ack is deduplicated away until the governor is restarted.
* `token.go:17` says the epoch increments at every issue. It restarts with the
  instance, and the instance goes with the process or with the sweep (`router.go:94`).
* `agent.go:134` calls the release at shutdown a best effort. Usually it is not made at all: `main` returns while the claim loop
  sleeps, and the process ends. The token is then free only when its lease has run out; `FailsOver` covers both.
* `agent.go:113` leaves consensus for later: agents whose first peers differ claim at different servers.
* `leadership.go:48` lets the holder lead at the last instant of its lease, when the token is already
  expired for claims (`token.go:21`); `NamesTheHolder` says so. A name read during a write may be neither the old nor the new one.

## Proofs

Checked by TLAPS for all values of the constants, under the named assumptions on
constants only (`NodesAssumption`, `LeaseTimeAssumption` and the like), and under the
hypotheses given here.

`Operators_proofs`
* `SetInduction`: a set of numbers that holds 0 and, with each number, the next one holds all of them. The library states induction
  with the predicate as a parameter, which the provers cannot instantiate; as a statement about a set it can be cited, and it follows
  from the library's facts on finite sets (the numbers up to `n` outside of the set would be mapped into themselves by
  `m |-> m - 1`, one to one and not onto).
* `SelectedEntries`: `Selected(s, I)` has the entries of `s` at the indices in `I`, each once and in their order. It is proved
  by `SetInduction` over the function inside `Selected`; that is why the loops are written with `Selected` and not with `SelectSeq`, of
  which the prover knows nothing.
* `OutcomeCases` and `OutcomeType` say what an operation can do to a token; `AppendEventProperties`, `Numbered` and `Recorded` what the
  log is after one more event; the rest what each queue operation does to the items, for any queue.

`TokenService_proofs`
* `TypeCorrect`: `TypeOK`.
* `LeasesAreHonoured`, `MutualExclusionHolds`, `ImplementsLease`, for any set `Patient` of nodes whose requests never outlive their
  calls, beside any number of orphans of the others.
  `LeaseHonoured` is not inductive: the reply that will become the promise is on
  its way, and meanwhile the token may change. `LeaseInv` strengthens it with what
  holds of a reply to a patient node that is under way (the token still backs it, and no later call of the
  same node can exist) and of a call that has arrived (its time is not after the clock,
  and no promise of the node starts later). An orphan of the node itself would break this; one of
  another node runs with a time that is past, and cannot end a lease that runs.
* `LeaseIsExclusive`: the abstract lease is exclusive and its epochs fence, so `ImplementsLease` carries both over.
* `NoTheftHolds`, for all nodes: operations never run with a time later
  than the clock, and only expiry at that time and the holder's release drop a holder.
* `EpochsOnlyGrow`, `LeadersAreUnique`, `LeadersAreNamed` of `Leadership`, for any number of clients. `LeaderInv`: a request may
  read no epoch that is lower than what anybody was told before it came, and none that is higher than the token's; without a write
  since its touch it reads the token as it is; and what quiet answers told is about this epoch and its holder, or about earlier ones.

`QueueService_proofs`
* `QueueTypes`: `TypeOK`.
* `OneWorkerHolds`, `NothingIsLost`, `NothingIsRedelivered`, `AcksRespectLeases`, from the
  inductive `StoreInv`: items, `seen`, `told` and `done` agree. A worker's lease
  end never exceeds that of the item while it is the item's worker; a settled event
  that is still stored is acked; a stored event has been seen.
* `OrderIsArrival`, `OverflowIsWork`, `NobodyOvertakes`, from `StoreInv` and `OrderInv`: the order lists the stored events as they arrived;
  what was seen is what arrived, each event once; and no worker was told a later end than that of the stored item's lease (nor anything of an item
  that was never leased), so that every new lease of an event, the first or a later one, shows in `told`. Pruning keeps the order by `SelectedEntries`.
* `CountedOnceHolds` of `Reconcile`: `CountInv` adds that `seen` is finite, so that a new event makes it larger by
  one.
* `ChangesBecomeWorkHolds`: `WorkInv` says what a request owes in the middle of its list: an owed
  peer has its flag set, and its event is in `seen` or the peer is still to be visited; and that
  what was seen is stored or settled, unacked and of epoch 0 unless settled.

`Dispatch_proofs`
* `ImplementsQueue`: each step is a step of `QueueService` or stutters.
* `HandlersUseIssuedEpochs` and `ClosedEpochsAreFenced`, from `HandlerInv`: handlers
  carry past times and epochs not above the token's; the epoch never decreases.
* `LogIsTheQueuesStory`: `LogTellsQueue`. `LogInv` adds to it that what is stored or settled has been seen, so that it is not
  inserted, and logged, again. An event of the token moves the others in the log, and drops the oldest; `RecordOther` and its
  like say that the story stays true of what is left.
* `LogIsMirror`, `LogIsStory`, `NothingIsMissed` of `EventFeed`, from `FeedInv`. It says of each reply under way that it is whole:
  the events from the cursor to its last one are in it or had left the log. `PollIsWhole` proves that of `PollEvents`, again by
  `SelectedEntries`: a reply that is cut keeps the oldest events. The theorems need neither the bound on lost replies nor the fairness.

`PendingStore_proofs`
* `FlagIsDurable`, `FlagSettles`, `AddReportsTransition`, for any number of handlers, from `StoreInv`. Its parts say that names and inodes agree
  (`NamesOK`), that without an overlap the one handler under way alone has the file it writes (`AloneOK`), that a promised flag is set
  and nobody is about to clear it (`PromiseOK`), and, of requests that all ask for the same, that the file which the next rename moves
  settles on what they ask for (`AgreedOK`): it holds the value or somebody still has it open to write it. `FreeInode` shows that the
  assumption on `Inodes` suffices: there is always one for a file to be created.
  `InsertedIsTransition` needs of the one handler under way that what it read is what the file says, unless it misread.
* `ChangesAreKept`, `SnapshotsAreTended`, `EditsAlarmOnce`, `BasesAreUsable` of `Preflight`, for any number of requests, versions, seconds and mishaps.
  `PreflightInv` says whose the snapshots are (`SnapsOrdered`, `SnapsNamed`, `UnsavedOK`: a name that is or was a base is not given
  away again within its second, and a snapshot that is not yet saved belongs to one request), that a verdict is about the base on file
  (`VerdictOK`, `RunAloneOK`), that only a failed diff makes a request fail (`FailedOK`), and has one part for each theorem: `KeptOK`, `TendedOK`, `AlarmOK`, `BaseUsable`. The last three name
  the mishaps that their properties name, so the theorems are about every behaviour in which only the others happen. `KeptOK` must hold through every
  mishap: `SoundOK` says that while a run is sound it is alone, what it has read is the base on file, and what it has walked is no
  older than any snapshot; `Anchored` that from `trusted` on some provider has a base or is about to write one.

`Registry_proofs`
* `NoOrphanInUseHolds` and `OneIssuerHolds`, if `Prompt`. The inductive `JanitorInv` says
  that a lease ends at most `LeaseTime` after the last access of its instance, that a
  handler under way has touched its instance when it began, and that what the
  sweep takes, and all but one generation of each boot, has been idle for longer
  than the ttl. An idle instance then has neither handler nor live lease.

`Agent_proofs`
* `AgentTypes`: `TypeOK`, whatever the times are.
* `TokenIsKept`, if `Timing`: `KeepsToken`. The inductive `AgentInv` says that the lease outlasts the time until the
  next claim of its holder is served at the latest: what is left of its timer, and the calls that
  may still fail, each with its timeout and sleep.

`Heartbeat_proofs`
* `SilentNodesLeave`: `SilentIsInactive`, for all values of the constants. Nothing the server has or will get from a node is younger than the node's last
  tick on the server's clock (`AgesOK`); that includes what a late heartbeat does.
* `AliveNodesAreActive`, if `Fits`: `AliveIsActive`. The inductive `AliveInv` bounds the time until the loop next reaches
  the server (`Wait`: what is left of the round, a round for each heartbeat that may still be lost, the calls to the peers before the
  server) and the age of the tick that a request carries, and says of every running node that, once the server has a heartbeat of it, the next one is served
  before that is too old (`Tended`). A served heartbeat may replace a newer one, therefore `Fits` has two delays: with
  rounds of `Round` seconds, a tick is up to `2 * Round - 1` old when it is sent, and the next heartbeat comes
  `LongestWait` later. The constants of the run meet `Fits` without a second to spare. In the code (calls of 2s, a window of 90s) it is met by, for
  instance, 5 peers, one lost heartbeat, delays of 5s and clocks 2s apart: 21s + 22s + 10s.
* `QuorumsMeet`: two sets of active nodes that each have the quorum meet.

Only model-checked: `FailsOver` and `CatchesUp`, liveness under fairness, which like ENABLED is out of the prover's reach.
`ImplementsQueue` carries the invariants of `QueueService` over to the server's queue by logic, but not as theorems of their
own: the prover does not take over a theorem through INSTANCE from a module that has assumptions on its constants.

## Not modelled

* `replication` and `controller`: nothing calls `Engine.Send` or `ReplicateZFS`, and the loop of the controller ends in an empty
  function.
* `diffbase`, `diff/provider.go` and the index and scan of `preflight`: they have no caller; `/preflight/run` uses `diff/generic` and `diff/zfs`.
* `manifest`, `config`, `scalefsconf`, `id`, `watch`, the command line: parsing and formatting
  without state between calls. `membership` prints what it receives; nothing writes the bench links.
* The administrative scripts: they keep only the state of the tools they drive.

## Plan

The modules that were planned are written, and every safety property that a run checks is proved. What is left is the
coverage of the source: `diffbase` and the scan of `preflight`, once something calls them.
