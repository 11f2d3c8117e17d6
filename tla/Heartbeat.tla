------------------------------ MODULE Heartbeat ------------------------------
(* The heartbeats that the main loops of the agents send (agent.Run,         *)
(* transport.SendHeartbeat) and the active set that one server computes from *)
(* them (RecordHeartbeat, ActiveNodes).                                      *)
(*                                                                           *)
(* There is no clock: ages count the seconds since a moment and grow with    *)
(* Pass, up to a cap; a timestamp is the age it has on the server's clock.   *)
(* A loop that takes longer than a second finds one tick in its ticker, the  *)
(* first it missed.                                                          *)
EXTENDS Integers, Sequences, FiniteSets

CONSTANTS
  Nodes,
  Peers,        \* the length of HTTP.Peers; the server is one of them, the others may be dead
  Timeout,      \* of one call: 2s
  Window,       \* of the active set: 90s
  MaxLate,      \* the longest time from a request to its service
  MaxLost,      \* bound: heartbeats of a node that are lost one after the other
  MaxSkew,      \* how far a node's clock may be from the server's
  Settle        \* the time after which a node that runs must be active

ASSUME HeartbeatAssumption ==
  /\ Peers \in Nat \ {0} /\ Timeout \in Nat /\ Window \in Nat
  /\ MaxLate \in Nat /\ MaxLost \in Nat /\ MaxSkew \in Nat
  /\ Settle \in 0..(Window + MaxSkew + 1)

VARIABLES
  loop,         \* loop[n]: the main loop of node n
  skew,         \* skew[n]: how far its clock is ahead
  place,        \* place[n]: the position of the server in its Peers
  requests,     \* heartbeats that are on their way and will be served
  seen,         \* in.lastSeen, as ages
  since         \* history: since[n], the time since n was started or stopped, or since
                \* it runs together with the server

vars == <<loop, skew, place, requests, seen, since>>

Cap == Window + MaxSkew + 1
Older(age) == IF age < Cap THEN age + 1 ELSE age

\* stage: "down", "waiting" for a tick, "calling" peer number pos, with a request that reaches it or not.
\* tick: the ages of the ticks in the ticker's channel, which holds one; ts: of the tick
\* that is being sent.
Down == [stage |-> "down", tick |-> <<>>, ts |-> 0, pos |-> 1, timer |-> 0,
         reached |-> FALSE, lost |-> 0]

Running(n) == loop[n].stage # "down"
Calling(n) == loop[n].stage = "calling"
Becomes(n, l) == loop' = [loop EXCEPT ![n] = l]

Init ==
  /\ loop = [n \in Nodes |-> Down]
  /\ skew \in [Nodes -> (-MaxSkew)..MaxSkew]
  /\ place \in [Nodes -> 1..Peers]
  /\ requests = {}
  /\ seen = <<>>
  /\ since = [n \in Nodes |-> 0]

Start(n) ==
  /\ ~ Running(n)
  /\ Becomes(n, [Down EXCEPT !.stage = "waiting"])
  /\ since' = [since EXCEPT ![n] = 0]
  /\ UNCHANGED <<skew, place, requests, seen>>

\* SIGTERM, noticed between two rounds, or the end of the process at any time.
Stop(n) ==
  /\ Running(n)
  /\ Becomes(n, Down)
  /\ since' = [since EXCEPT ![n] = 0]
  /\ UNCHANGED <<skew, place, requests, seen>>

\* case t := <-tick.C
TakeTick(n) ==
  /\ loop[n].stage = "waiting" /\ loop[n].tick # <<>>
  /\ Becomes(n, [loop[n] EXCEPT !.stage = "calling", !.ts = Head(loop[n].tick), !.tick = <<>>,
                                !.pos = 1, !.timer = Timeout, !.reached = FALSE])
  /\ UNCHANGED <<skew, place, requests, seen, since>>

\* c.Do sends a heartbeat that will reach the server.
Reach(n) ==
  /\ Calling(n) /\ loop[n].pos = place[n] /\ ~ loop[n].reached
  /\ requests' = requests \cup {[node |-> n, age |-> loop[n].ts - skew[n], left |-> MaxLate]}
  /\ Becomes(n, [loop[n] EXCEPT !.reached = TRUE, !.lost = 0])
  /\ UNCHANGED <<skew, place, seen, since>>

\* Wrong: the first peer that cannot be reached ends the round.
ReturnGivingUp(n) ==
  LET l    == loop[n]
      lost == l.pos = place[n] /\ ~ l.reached
      next == IF l.pos < Peers /\ l.pos = place[n] /\ l.reached
              THEN [l EXCEPT !.pos = @ + 1, !.timer = Timeout, !.reached = FALSE]
              ELSE [l EXCEPT !.stage = "waiting"]
  IN  /\ Calling(n)
      /\ lost => l.lost < MaxLost
      /\ Becomes(n, IF lost THEN [next EXCEPT !.lost = @ + 1] ELSE next)
      /\ UNCHANGED <<skew, place, requests, seen, since>>

\* c.Do returns, with an answer or an error, which SendHeartbeat ignores; the next peer.
Return(n) ==
  LET l    == loop[n]
      lost == l.pos = place[n] /\ ~ l.reached
      next == IF l.pos < Peers
              THEN [l EXCEPT !.pos = @ + 1, !.timer = Timeout, !.reached = FALSE]
              ELSE [l EXCEPT !.stage = "waiting"]
  IN  /\ Calling(n)
      /\ lost => l.lost < MaxLost
      /\ Becomes(n, IF lost THEN [next EXCEPT !.lost = @ + 1] ELSE next)
      /\ UNCHANGED <<skew, place, requests, seen, since>>

\* in.lastSeen[n] = age
Seen(n, age) == [m \in DOMAIN seen \cup {n} |-> IF m = n THEN age ELSE seen[m]]

\* Wrong: the time of arrival is recorded.
RecordArrival(r) ==
  /\ requests' = requests \ {r}
  /\ seen' = Seen(r.node, 0)
  /\ UNCHANGED <<loop, skew, place, since>>

\* /hb: RecordHeartbeat, whether or not an older heartbeat has overtaken this one.
RecordHeartbeat(r) ==
  /\ requests' = requests \ {r}
  /\ seen' = Seen(r.node, r.age)
  /\ UNCHANGED <<loop, skew, place, since>>

\* The server is started again.  The heartbeats that it has not accepted yet, because
\* their connections are still being made, may reach it all the same.
Restart ==
  /\ requests' \in SUBSET requests
  /\ seen' = <<>>
  /\ since' = [n \in Nodes |-> IF Running(n) THEN 0 ELSE since[n]]
  /\ UNCHANGED <<loop, skew, place>>

\* A loop acts on a tick at once and ends a call within its timeout.
Waits(n) ==
  CASE loop[n].stage = "waiting" -> loop[n].tick = <<>>
    [] Calling(n)                -> loop[n].timer > 0
    [] OTHER                     -> TRUE

\* The loop of a process that runs, a second later: its ticker drops the tick if it still
\* holds one.
Ticked(l) ==
  IF l.stage = "down" THEN l
  ELSE [l EXCEPT !.tick  = IF @ = <<>> THEN <<0>> ELSE <<Older(Head(@))>>,
                 !.ts    = Older(@),
                 !.timer = IF @ > 0 THEN @ - 1 ELSE 0]

\* A second passes.
Pass ==
  /\ \A n \in Nodes : Waits(n)
  /\ \A r \in requests : r.left > 0
  /\ loop' = [n \in Nodes |-> Ticked(loop[n])]
  /\ requests' = {[r EXCEPT !.age = Older(@), !.left = @ - 1] : r \in requests}
  /\ seen' = [n \in DOMAIN seen |-> Older(seen[n])]
  /\ since' = [n \in Nodes |-> Older(since[n])]
  /\ UNCHANGED <<skew, place>>

Next ==
  \/ \E n \in Nodes : Start(n) \/ Stop(n) \/ TakeTick(n) \/ Reach(n) \/ Return(n)
  \/ \E r \in requests : RecordHeartbeat(r)
  \/ Restart
  \/ Pass

Spec == Init /\ [][Next]_vars

-----------------------------------------------------------------------------
\* ActiveSet.Contains; no timestamp of a heartbeat is the zero time.
Contains(age) == age <= Window

\* ActiveNodes, for /bench/activeset.
ActiveNodes == {n \in DOMAIN seen : Contains(seen[n])}

\* bench.Quorum, of the number of active nodes.
Quorum(k) == IF k <= 0 THEN 0 ELSE (k \div 2) + 1

\* A node whose loop has run for a while beside the server is in the active set, although
\* dead peers hold its loop up, ticks are dropped, and a heartbeat may be lost, late, or
\* overtaken by the next one ("currently alive nodes within a time window", activeset.go).
AliveIsActive == \A n \in Nodes : Running(n) /\ since[n] >= Settle => n \in ActiveNodes

\* A node that was stopped has left the active set once the window has passed, by the clock
\* it had: no late heartbeat keeps it there or brings it back.
SilentIsInactive ==
  \A n \in Nodes : ~ Running(n) /\ since[n] > Window + skew[n] => n \notin ActiveNodes
=============================================================================
