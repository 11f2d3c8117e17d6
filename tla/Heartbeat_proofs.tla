--------------------------- MODULE Heartbeat_proofs ---------------------------
(* Proofs about Heartbeat: no heartbeat keeps a stopped node in the active   *)
(* set, for all timeouts, windows, delays and clock skews; a node that runs  *)
(* is there, if they fit into the window as Fits says; and two quorums of    *)
(* one set of nodes meet.                                                    *)
EXTENDS Heartbeat, FiniteSetTheorems, TLAPS

Skews == (-MaxSkew)..MaxSkew

LoopRec == [stage : {"down", "waiting", "calling"}, tick : Seq(Nat), ts : Nat,
            pos : Int, timer : Int, reached : BOOLEAN, lost : Int]

\* The types that the proof needs.
Typed ==
  /\ loop \in [Nodes -> LoopRec]
  /\ skew \in [Nodes -> Skews]
  /\ requests \subseteq [node : Nodes, age : Int, left : Int]
  /\ DOMAIN seen \subseteq Nodes /\ \A n \in DOMAIN seen : seen[n] \in Int
  /\ since \in [Nodes -> Nat]

\* The time since n's last tick, on the server's clock, at least.
LastTick(n) == (IF Running(n) THEN 0 ELSE since[n]) - skew[n]

AgeOK(n, age) == age >= Cap \/ age >= LastTick(n)

\* The inductive invariant: nothing the server has or will get from n is younger.
AgesOK ==
  /\ \A r \in requests : AgeOK(r.node, r.age)
  /\ \A n \in DOMAIN seen : AgeOK(n, seen[n])

HeartbeatInv == Typed /\ AgesOK

LEMMA HeartbeatInvInit == Init => HeartbeatInv
BY HeartbeatAssumption DEF Init, HeartbeatInv, Typed, AgesOK, Down, Skews, LoopRec

LEMMA OlderNat ==
  /\ Cap \in Nat
  /\ \A a \in Int : Older(a) \in Int /\ (a \in Nat => Older(a) \in Nat)
BY HeartbeatAssumption DEF Cap, Older
-----------------------------------------------------------------------------
(* The records that the actions on a loop put together. *)

LEMMA WaitingRec ==
  ASSUME NEW r \in LoopRec, NEW x, x = [r EXCEPT !.stage = "waiting"]
  PROVE  x \in LoopRec /\ x.stage = "waiting"
BY DEF LoopRec

LEMMA LostRec ==
  ASSUME NEW r \in LoopRec, NEW x, x = [r EXCEPT !.lost = @ + 1]
  PROVE  x \in LoopRec /\ x.stage = r.stage
BY DEF LoopRec

LEMMA ReachedRec ==
  ASSUME NEW r \in LoopRec, NEW k \in Int, NEW x, x = [r EXCEPT !.reached = TRUE, !.lost = k]
  PROVE  x \in LoopRec /\ x.stage = r.stage
BY DEF LoopRec

-----------------------------------------------------------------------------
(* Every action keeps the invariant. *)

\* An action on the loop of n alone that asks nothing of the server.
LEMMA OneLoop ==
  ASSUME HeartbeatInv, NEW n \in Nodes, NEW l \in LoopRec, Becomes(n, l),
         UNCHANGED <<skew, place, requests, seen>>,
         \/ l.stage # "down" /\ since' = [since EXCEPT ![n] = 0]
         \/ l.stage = "down" /\ Running(n) /\ since' = [since EXCEPT ![n] = 0]
         \/ l.stage # "down" /\ Running(n) /\ since' = since
  PROVE  HeartbeatInv'
<1>1. Typed'
  BY DEF HeartbeatInv, Typed, Becomes
<1>2. loop'[n] = l /\ \A m \in Nodes : m # n => loop'[m] = loop[m] /\ since'[m] = since[m]
  BY DEF HeartbeatInv, Typed, Becomes
<1>3. ASSUME NEW m \in Nodes
      PROVE  LastTick(m)' <= LastTick(m) /\ LastTick(m)' \in Int /\ LastTick(m) \in Int
  <2>1. skew[m] \in Int /\ skew' = skew /\ since[m] \in Nat /\ since'[m] \in Nat
    BY <1>1, HeartbeatAssumption DEF HeartbeatInv, Typed, Skews
  <2>2. CASE m = n
    <3>1. since[n] >= 0 /\ (since'[n] = since[n] \/ since'[n] = 0)
      BY <2>1, <2>2 DEF HeartbeatInv, Typed
    <3> QED BY <1>2, <2>1, <2>2, <3>1 DEF LastTick, Running, HeartbeatInv, Typed
  <2>3. CASE m # n
    BY <1>2, <2>1, <2>3 DEF LastTick, Running
  <2> QED BY <2>2, <2>3
<1>4. ASSUME NEW m \in Nodes, NEW age \in Int, AgeOK(m, age)
      PROVE  AgeOK(m, age)'
  BY <1>3, <1>4, OlderNat DEF AgeOK, Cap
<1>5. AgesOK'
  BY <1>4 DEF HeartbeatInv, Typed, AgesOK
<1> QED BY <1>1, <1>5 DEF HeartbeatInv

LEMMA HeartbeatInvLoop ==
  ASSUME HeartbeatInv, NEW n \in Nodes, Start(n) \/ Stop(n) \/ TakeTick(n) \/ Return(n)
  PROVE  HeartbeatInv'
<1>1. loop[n] \in LoopRec
  BY DEF HeartbeatInv, Typed
<1>2. CASE Start(n)
  <2>1. PICK l : l = [Down EXCEPT !.stage = "waiting"]
    OBVIOUS
  <2>2. Down \in LoopRec
    BY DEF Down, LoopRec
  <2>3. l \in LoopRec /\ l.stage = "waiting"
    BY <2>1, <2>2, WaitingRec
  <2> QED BY <1>2, <2>1, <2>3, OneLoop DEF Start
<1>3. CASE Stop(n)
  <2>1. Down \in LoopRec /\ Down.stage = "down"
    BY DEF Down, LoopRec
  <2> QED BY <1>3, <2>1, OneLoop DEF Stop
<1>4. CASE TakeTick(n)
  <2>1. PICK p \in Int : p = 1
    OBVIOUS
  <2>2. PICK l : l = [loop[n] EXCEPT !.stage = "calling", !.ts = Head(loop[n].tick),
                                     !.tick = <<>>, !.pos = p, !.timer = Timeout,
                                     !.reached = FALSE]
    OBVIOUS
  <2>3. Head(loop[n].tick) \in Nat
    <3>1. loop[n].tick \in Seq(Nat) /\ loop[n].tick # <<>>
      BY <1>1, <1>4 DEF TakeTick, LoopRec
    <3> QED BY <3>1
  <2>4. l \in LoopRec /\ l.stage = "calling"
    <3>1. <<>> \in Seq(Nat)
      OBVIOUS
    <3>2. PICK e : e = <<>> /\ e \in Seq(Nat)
      BY <3>1
    <3>3. PICK t \in Nat : t = Head(loop[n].tick)
      BY <2>3
    <3>4. PICK y : y = [loop[n] EXCEPT !.stage = "calling", !.ts = t, !.tick = e]
      OBVIOUS
    <3>5. y \in LoopRec /\ y.stage = "calling"
      BY <1>1, <3>2, <3>4 DEF LoopRec
    <3>6. l = [y EXCEPT !.pos = p, !.timer = Timeout, !.reached = FALSE]
      BY <2>2, <3>2, <3>3, <3>4
    <3>7. Timeout \in Int
      BY HeartbeatAssumption
    <3> QED BY <3>5, <3>6, <3>7 DEF LoopRec
  <2>5. Becomes(n, l) /\ Running(n) /\ UNCHANGED <<skew, place, requests, seen, since>>
    BY <1>4, <2>1, <2>2 DEF TakeTick, Running
  <2> QED BY <2>4, <2>5, OneLoop
<1>5. CASE Return(n)
  <2> DEFINE l == loop[n]
             lost == l.pos = place[n] /\ ~ l.reached
             next == IF l.pos < Peers
                     THEN [l EXCEPT !.pos = @ + 1, !.timer = Timeout, !.reached = FALSE]
                     ELSE [l EXCEPT !.stage = "waiting"]
  <2>1. PICK x : x = next
    OBVIOUS
  <2>2. PICK y : y = [x EXCEPT !.lost = @ + 1]
    OBVIOUS
  <2>3. /\ Becomes(n, x) \/ Becomes(n, y)
        /\ Running(n) /\ UNCHANGED <<skew, place, requests, seen, since>>
    BY <1>5, <2>1, <2>2 DEF Return, Calling, Running
  <2>4. l.stage = "calling" /\ l.pos + 1 \in Int /\ Timeout \in Int
    BY <1>1, <1>5, HeartbeatAssumption DEF Return, Calling, LoopRec
  <2>5. \/ x = [l EXCEPT !.pos = l.pos + 1, !.timer = Timeout, !.reached = FALSE]
        \/ x = [l EXCEPT !.stage = "waiting"]
    BY <2>1
  <2> HIDE DEF l, next, lost
  <2>6. l \in LoopRec
    BY <1>1 DEF l
  <2>7. x \in LoopRec /\ x.stage # "down"
    <3>1. CASE x = [l EXCEPT !.pos = l.pos + 1, !.timer = Timeout, !.reached = FALSE]
      BY <2>4, <2>6, <3>1 DEF LoopRec
    <3>2. CASE x = [l EXCEPT !.stage = "waiting"]
      BY <2>6, <3>2, WaitingRec
    <3> QED BY <2>5, <3>1, <3>2
  <2>8. y \in LoopRec /\ y.stage # "down"
    BY <2>2, <2>7, LostRec
  <2> QED BY <2>3, <2>7, <2>8, OneLoop
<1> QED BY <1>2, <1>3, <1>4, <1>5

LEMMA HeartbeatInvReach ==
  ASSUME HeartbeatInv, NEW n \in Nodes, Reach(n)
  PROVE  HeartbeatInv'
<1>1. PICK k \in Int : k = 0
  OBVIOUS
<1>2. PICK l : l = [loop[n] EXCEPT !.reached = TRUE, !.lost = k]
  OBVIOUS
<1>3. loop[n] \in LoopRec /\ loop[n].stage = "calling" /\ loop[n].ts \in Nat /\ skew[n] \in Int
  BY HeartbeatAssumption DEF Reach, Calling, HeartbeatInv, Typed, LoopRec, Skews
<1>4. l \in LoopRec /\ l.stage = "calling"
  BY <1>2, <1>3, ReachedRec
<1> DEFINE r == [node |-> n, age |-> loop[n].ts - skew[n], left |-> MaxLate]
<1>5. r \in [node : Nodes, age : Int, left : Int]
  BY <1>3, HeartbeatAssumption
<1>6. requests' = requests \cup {r} /\ Becomes(n, l) /\ UNCHANGED <<skew, seen, since>>
  BY <1>1, <1>2 DEF Reach
<1>7. Typed'
  BY <1>4, <1>5, <1>6 DEF HeartbeatInv, Typed, Becomes
<1>8. \A m \in Nodes : Running(m)' = Running(m) /\ LastTick(m)' = LastTick(m)
  BY <1>3, <1>4, <1>6 DEF Running, LastTick, HeartbeatInv, Typed, Becomes
<1>9. AgeOK(n, r.age)
  BY <1>3 DEF AgeOK, LastTick, Running
<1>10. \A m \in Nodes, age \in Int : AgeOK(m, age) => AgeOK(m, age)'
  BY <1>8 DEF AgeOK, Cap
<1>11. AgesOK'
  BY <1>5, <1>6, <1>9, <1>10 DEF HeartbeatInv, Typed, AgesOK
<1> QED BY <1>7, <1>11 DEF HeartbeatInv

LEMMA HeartbeatInvRecord ==
  ASSUME HeartbeatInv, NEW r \in requests, RecordHeartbeat(r)
  PROVE  HeartbeatInv'
<1>1. r.node \in Nodes /\ r.age \in Int /\ AgeOK(r.node, r.age)
  BY DEF HeartbeatInv, Typed, AgesOK
<1>2. /\ requests' \subseteq requests /\ UNCHANGED <<loop, skew, since>>
      /\ DOMAIN seen' = DOMAIN seen \cup {r.node}
      /\ \A m \in DOMAIN seen' : seen'[m] = IF m = r.node THEN r.age ELSE seen[m]
  BY DEF RecordHeartbeat, Seen
<1>3. Typed'
  BY <1>1, <1>2 DEF HeartbeatInv, Typed
<1>4. \A m, age : AgeOK(m, age)' <=> AgeOK(m, age)
  BY <1>2 DEF AgeOK, LastTick, Running, Cap
<1>5. \A m \in DOMAIN seen' : AgeOK(m, seen'[m])
  BY <1>1, <1>2 DEF HeartbeatInv, AgesOK
<1>6. \A q \in requests' : AgeOK(q.node, q.age)
  BY <1>2 DEF HeartbeatInv, AgesOK
<1>7. AgesOK'
  BY <1>4, <1>5, <1>6 DEF AgesOK
<1> QED BY <1>3, <1>7 DEF HeartbeatInv

LEMMA HeartbeatInvRestart ==
  ASSUME HeartbeatInv, Restart
  PROVE  HeartbeatInv'
<1>1. requests' \subseteq requests /\ seen' = <<>> /\ DOMAIN seen' = {} /\ UNCHANGED <<loop, skew>>
  BY DEF Restart
<1>2. since' \in [Nodes -> Nat]
  BY DEF Restart, HeartbeatInv, Typed
<1>3. Typed'
  BY <1>1, <1>2 DEF HeartbeatInv, Typed
<1>4. ASSUME NEW m \in Nodes, NEW age, AgeOK(m, age) PROVE AgeOK(m, age)'
  <2>1. Running(m) \/ since'[m] = since[m]
    BY DEF Restart
  <2>2. Running(m)' <=> Running(m)
    BY <1>1 DEF Running
  <2>3. LastTick(m)' = LastTick(m)
    BY <1>1, <2>1, <2>2 DEF LastTick
  <2> QED BY <1>4, <2>3 DEF AgeOK, Cap
<1>5. \A q \in requests' : q \in requests /\ q.node \in Nodes
  BY <1>1 DEF HeartbeatInv, Typed
<1>6. AgesOK'
  BY <1>1, <1>4, <1>5 DEF HeartbeatInv, AgesOK
<1> QED BY <1>3, <1>6 DEF HeartbeatInv

LEMMA HeartbeatInvPass ==
  ASSUME HeartbeatInv, Pass
  PROVE  HeartbeatInv'
<1>1. ASSUME NEW n \in Nodes
      PROVE  loop'[n] \in LoopRec /\ Running(n)' = Running(n)
  <2>1. loop'[n] = Ticked(loop[n]) /\ loop[n] \in LoopRec
    BY DEF Pass, HeartbeatInv, Typed
  <2>2. CASE loop[n].stage = "down"
    BY <2>1, <2>2 DEF Ticked, Running
  <2>3. CASE loop[n].stage # "down"
    <3>1. PICK e : e = IF loop[n].tick = <<>> THEN <<0>> ELSE <<Older(Head(loop[n].tick))>>
      OBVIOUS
    <3>2. e \in Seq(Nat)
      <4>1. CASE loop[n].tick = <<>>
        BY <3>1, <4>1
      <4>2. CASE loop[n].tick # <<>>
        <5>1. Head(loop[n].tick) \in Nat
          BY <2>1, <4>2 DEF LoopRec
        <5>2. Older(Head(loop[n].tick)) \in Nat
          BY <5>1, OlderNat
        <5> QED BY <3>1, <4>2, <5>2
      <4> QED BY <4>1, <4>2
    <3>3. PICK t \in Nat : t = Older(loop[n].ts)
      BY <2>1, OlderNat DEF LoopRec
    <3>4. PICK u \in Int : u = IF loop[n].timer > 0 THEN loop[n].timer - 1 ELSE 0
      BY <2>1 DEF LoopRec
    <3>5. loop'[n] = [loop[n] EXCEPT !.tick = e, !.ts = t, !.timer = u]
      BY <2>1, <2>3, <3>1, <3>3, <3>4 DEF Ticked
    <3>6. loop'[n] \in LoopRec /\ loop'[n].stage = loop[n].stage
      BY <2>1, <3>2, <3>5 DEF LoopRec
    <3> QED BY <3>6 DEF Running
  <2> QED BY <2>2, <2>3
<1>2. loop' \in [Nodes -> LoopRec]
  BY <1>1 DEF Pass
<1>3. since' = [n \in Nodes |-> Older(since[n])]
  BY DEF Pass
<1>4. \A n \in Nodes : since[n] \in Nat /\ skew[n] \in Int
  BY HeartbeatAssumption DEF HeartbeatInv, Typed, Skews
<1>5. \A n \in Nodes : since[n] \in Nat /\ since'[n] = Older(since[n]) /\ skew[n] \in Int
  BY <1>3, <1>4
<1>6. since' \in [Nodes -> Nat]
  <2>1. \A n \in Nodes : Older(since[n]) \in Nat
    BY <1>4, OlderNat
  <2> QED BY <1>3, <2>1
<1>7. requests' = {[r EXCEPT !.age = Older(@), !.left = @ - 1] : r \in requests}
  BY DEF Pass
<1>8. ASSUME NEW q \in requests'
      PROVE  /\ q \in [node : Nodes, age : Int, left : Int]
             /\ \E r \in requests : q.node = r.node /\ q.age = Older(r.age)
  <2>1. PICK r \in requests : q = [r EXCEPT !.age = Older(@), !.left = @ - 1]
    BY <1>7
  <2>2. r \in [node : Nodes, age : Int, left : Int]
    BY DEF HeartbeatInv, Typed
  <2>3. PICK o \in Int : o = Older(r.age)
    BY <2>2, OlderNat
  <2>4. PICK k \in Int : k = r.left - 1
    BY <2>2
  <2>5. q = [r EXCEPT !.age = o, !.left = k]
    BY <2>1, <2>3, <2>4
  <2>6. q \in [node : Nodes, age : Int, left : Int] /\ q.node = r.node /\ q.age = o
    BY <2>2, <2>5
  <2> QED BY <2>3, <2>6
<1>9. /\ DOMAIN seen' = DOMAIN seen
      /\ \A n \in DOMAIN seen : seen'[n] = Older(seen[n])
  BY DEF Pass
<1>10. Typed'
  <2>1. skew' = skew
    BY DEF Pass
  <2> QED BY <1>2, <1>6, <1>8, <1>9, <2>1, OlderNat DEF HeartbeatInv, Typed
<1>11. ASSUME NEW n \in Nodes, NEW age \in Int, AgeOK(n, age)
      PROVE  AgeOK(n, Older(age))'
  <2>1. Running(n)' = Running(n) /\ skew' = skew
    BY <1>1 DEF Pass
  <2>2. CASE age >= Cap
    BY <2>2, OlderNat DEF Older, AgeOK, Cap
  <2>3. CASE age < Cap /\ age >= LastTick(n)
    <3>1. Older(age) = age + 1
      BY <2>3 DEF Older
    <3>2. Older(since[n]) <= since[n] + 1
      BY <1>5, OlderNat DEF Older
    <3> QED BY <1>5, <2>1, <2>3, <3>1, <3>2, OlderNat DEF AgeOK, LastTick
  <2> QED BY <1>11, <2>2, <2>3, OlderNat DEF AgeOK
<1>12. AgesOK'
  <2>1. ASSUME NEW q \in requests' PROVE AgeOK(q.node, q.age)'
    BY <1>8, <1>11 DEF HeartbeatInv, Typed, AgesOK
  <2>2. ASSUME NEW n \in DOMAIN seen' PROVE AgeOK(n, seen[n])'
    BY <1>9, <1>11 DEF HeartbeatInv, Typed, AgesOK
  <2> QED BY <2>1, <2>2 DEF AgesOK
<1> QED BY <1>10, <1>12 DEF HeartbeatInv

LEMMA HeartbeatInvStep ==
  ASSUME HeartbeatInv, [Next]_vars
  PROVE  HeartbeatInv'
<1>1. CASE UNCHANGED vars
  BY <1>1 DEF vars, HeartbeatInv, Typed, AgesOK, AgeOK, LastTick, Running
<1> QED BY <1>1, HeartbeatInvLoop, HeartbeatInvReach, HeartbeatInvRecord,
           HeartbeatInvRestart, HeartbeatInvPass DEF Next

-----------------------------------------------------------------------------
\* However late its heartbeats are served and however far its clock is off, a node that was
\* stopped leaves the active set when the window has passed, and stays out.
THEOREM SilentNodesLeave == Spec => []SilentIsInactive
<1>1. HeartbeatInv /\ [Next]_vars => HeartbeatInv'
  BY HeartbeatInvStep
<1>2. HeartbeatInv => SilentIsInactive
  <2> SUFFICES ASSUME HeartbeatInv, NEW n \in Nodes, ~ Running(n),
                      since[n] > Window + skew[n], n \in DOMAIN seen, seen[n] <= Window
               PROVE  FALSE
    BY DEF SilentIsInactive, ActiveNodes, Contains
  <2>1. since[n] \in Nat /\ skew[n] \in Int /\ seen[n] \in Int /\ AgeOK(n, seen[n])
    BY HeartbeatAssumption DEF HeartbeatInv, Typed, Skews, AgesOK
  <2> QED BY <2>1, HeartbeatAssumption DEF AgeOK, LastTick, Cap
<1> QED BY HeartbeatInvInit, <1>1, <1>2, PTL DEF Spec

-----------------------------------------------------------------------------
(* How long a node's loop takes to reach the server again.                   *)

\* What k calls take that run into their timeouts, what a round of calls does, and k rounds.
Calls(k) == k * Timeout
Round == Peers * Timeout
Rounds(k) == k * Round

\* The seconds that a round has taken so far, and those until the next, at the most.
Spent(l) == Calls(l.pos) - l.timer
RoundLeft(l) ==
  CASE l.stage = "calling" -> Calls(Peers - l.pos) + l.timer
    [] l.stage = "waiting" /\ l.tick = <<>> -> 1
    [] OTHER -> 0

\* The round may still reach the server, at place p.
Ahead(l, p) == l.stage = "calling" /\ (l.pos < p \/ (l.pos = p /\ ~ l.reached))

\* The seconds until a heartbeat reaches the server, if all that may be lost are lost.
Wait(l, p) ==
  IF Ahead(l, p)
  THEN IF l.lost = MaxLost THEN Calls(p - l.pos) + l.timer
       ELSE RoundLeft(l) + Rounds(MaxLost - l.lost - 1) + Calls(p)
  ELSE RoundLeft(l) + Rounds(MaxLost - l.lost) + Calls(p)

LongestWait == Round + Timeout + Rounds(MaxLost)

\* The age, on the server's clock, of the oldest tick that is sent.
OldestTick == 2 * Round - 1 + MaxSkew

\* The first heartbeat is served before Settle, and each one before the one that the
\* server has is too old.  In the code (calls of 2s, a window of 90s), for 5 peers, one loss
\* and delays of 5s: 19s + 22s + 2 * 5s and the skew.
Fits ==
  /\ Timeout > 0
  /\ LongestWait + MaxLate < Settle
  /\ OldestTick + LongestWait + 2 * MaxLate <= Window

\* A tick that waits was missed in the round that is under way or was the last.
LoopOK(l) ==
  /\ l.lost \in 0..MaxLost
  /\ l.stage = "waiting" /\ l.tick # <<>> => Head(l.tick) <= Round - 1
  /\ l.stage = "calling" =>
       /\ l.pos \in 1..Peers /\ l.timer \in 0..Timeout
       /\ l.ts <= Round - 1 + Spent(l)
       /\ l.tick = <<>> => l.timer = Timeout
       /\ l.tick # <<>> => Head(l.tick) <= Spent(l) - 1

RequestsOK ==
  \A r \in requests : r.left \in 0..MaxLate /\ r.age + r.left <= OldestTick + MaxLate

\* A heartbeat of n is served before t, an age of now, exceeds limit.
ServedWithin(n, t, limit) ==
  \/ t + Wait(loop[n], place[n]) + MaxLate <= limit
  \/ \E r \in requests : r.node = n /\ t + r.left <= limit

\* Once the server has a heartbeat of n, the next one comes in time; the first one does, too.
Tended(n) ==
  \/ n \in DOMAIN seen /\ ServedWithin(n, seen[n], Window)
  \/ ServedWithin(n, since[n], Settle - 1)

Alive(n) == Running(n) => Wait(loop[n], place[n]) <= LongestWait /\ Tended(n)

\* The inductive invariant.
AliveInv ==
  /\ HeartbeatInv
  /\ place \in [Nodes -> 1..Peers]
  /\ RequestsOK
  /\ \A n \in Nodes : LoopOK(loop[n]) /\ Alive(n)

LEMMA Products ==
  ASSUME NEW c \in Nat, NEW j \in Int, NEW k \in Int
  PROVE  /\ j * c \in Int /\ (j >= 0 => j * c >= 0)
         /\ (j + k) * c = j * c + k * c
         /\ j <= k => j * c <= k * c
         /\ 0 * c = 0 /\ 1 * c = c
<1>1. j * c \in Int /\ k * c \in Int /\ (k - j) * c \in Int
  OBVIOUS
<1>2. \A i \in Int : i >= 0 => i * c >= 0
  OBVIOUS
<1>3. (j + k) * c = j * c + k * c
  OBVIOUS
<1>4. k * c = j * c + (k - j) * c
  OBVIOUS
<1>5. j <= k => (k - j) * c >= 0
  BY <1>2
<1>6. j <= k => j * c <= k * c
  BY <1>1, <1>4, <1>5
<1> QED BY <1>1, <1>2, <1>3, <1>6

LEMMA CallsSum ==
  /\ \A k \in Int : Calls(k) \in Int
  /\ \A k \in Int : k >= 0 => Calls(k) \in Nat
  /\ \A i, j, k \in Int : i = j + k => Calls(i) = Calls(j) + Calls(k)
  /\ \A j, k \in Int : j <= k => Calls(j) <= Calls(k)
  /\ Calls(0) = 0 /\ Calls(1) = Timeout /\ Calls(Peers) = Round
BY Products, HeartbeatAssumption DEF Calls, Round

LEMMA RoundsSum ==
  /\ Round \in Nat
  /\ \A k \in Int : Rounds(k) \in Int
  /\ \A k \in Int : k >= 0 => Rounds(k) \in Nat
  /\ \A i, j, k \in Int : i = j + k => Rounds(i) = Rounds(j) + Rounds(k)
  /\ \A j, k \in Int : j <= k => Rounds(j) <= Rounds(k)
  /\ Rounds(0) = 0 /\ Rounds(1) = Round
<1>1. Round \in Nat
  BY CallsSum, HeartbeatAssumption
<1> QED BY <1>1, Products DEF Rounds

\* The calls of a round before its call number k, that call and those after it.
LEMMA CallsSplit ==
  ASSUME NEW k \in 1..Peers
  PROVE  /\ Calls(k) \in Nat /\ Calls(Peers - k) \in Nat
         /\ Calls(k) + Calls(Peers - k) = Round
         /\ Timeout <= Calls(k) /\ Calls(k) <= Round
         /\ k < Peers => Calls(k + 1) = Calls(k) + Timeout
                         /\ Calls(Peers - (k + 1)) = Calls(Peers - k) - Timeout
         /\ \A p \in 1..Peers : k <= p => /\ Calls(p - k) \in Nat
                                          /\ Calls(p) = Calls(k) + Calls(p - k)
                                          /\ Calls(p - (k + 1)) = Calls(p - k) - Timeout
<1>1. k \in Int /\ Peers \in Int /\ 1 <= k /\ k <= Peers /\ Timeout \in Nat
  BY HeartbeatAssumption
<1>2. Calls(k) \in Nat /\ Timeout <= Calls(k)
  <2>1. 1 \in Int /\ Calls(1) <= Calls(k) /\ Calls(1) = Timeout
    BY <1>1, CallsSum
  <2> QED BY <1>1, <2>1, CallsSum
<1>3. ASSUME NEW p \in 1..Peers, k <= p
      PROVE  /\ Calls(p - k) \in Nat /\ Calls(p) = Calls(k) + Calls(p - k)
             /\ Calls(p - (k + 1)) = Calls(p - k) - Timeout
  <2>1. PICK a \in Int : a = p - k
    BY <1>1
  <2>2. PICK b \in Int : b = p - (k + 1)
    BY <1>1
  <2>3. p \in Int /\ a >= 0 /\ p = k + a /\ a = b + 1
    BY <1>1, <1>3, <2>1, <2>2
  <2>4. Calls(a) \in Nat /\ Calls(b) \in Int
    BY <2>3, CallsSum
  <2>5. Calls(p) = Calls(k) + Calls(a)
    BY <1>1, <2>3, CallsSum
  <2>6. Calls(a) = Calls(b) + Calls(1) /\ Calls(1) = Timeout
    BY <2>3, CallsSum
  <2>7. Calls(b) = Calls(a) - Timeout
    BY <1>1, <2>4, <2>6
  <2> QED BY <2>1, <2>2, <2>4, <2>5, <2>7
<1>4. Calls(k + 1) = Calls(k) + Timeout
  BY <1>1, CallsSum
<1>5. Peers \in 1..Peers /\ Calls(Peers) = Round
  BY <1>1, CallsSum
<1>6. /\ Calls(Peers - k) \in Nat /\ Round = Calls(k) + Calls(Peers - k)
      /\ Calls(Peers - (k + 1)) = Calls(Peers - k) - Timeout
  BY <1>1, <1>3, <1>5
<1>7. Calls(k) <= Round
  BY <1>2, <1>6
<1> QED BY <1>2, <1>3, <1>4, <1>6, <1>7

\* The parts of Wait.
LEMMA WaitParts ==
  ASSUME Timeout > 0, NEW p \in 1..Peers, NEW l \in LoopRec, LoopOK(l), l.stage # "down"
  PROVE  /\ RoundLeft(l) \in Nat /\ Rounds(MaxLost - l.lost) \in Nat /\ Calls(p) \in Nat
         /\ l.lost < MaxLost => /\ Rounds(MaxLost - l.lost - 1) \in Nat
                                /\ Rounds(MaxLost - l.lost) = Rounds(MaxLost - l.lost - 1) + Round
         /\ l.lost = MaxLost => Rounds(MaxLost - l.lost) = 0
         /\ Rounds(MaxLost - l.lost) <= Rounds(MaxLost)
         /\ Rounds(MaxLost) \in Nat /\ Round \in Nat /\ Timeout \in Nat
         /\ Calls(p) <= Round
         /\ l.stage = "waiting" \/ l.stage = "calling"
<1>1. l.lost \in 0..MaxLost /\ MaxLost \in Nat /\ Timeout \in Nat
  BY HeartbeatAssumption DEF LoopOK
<1>2. /\ MaxLost - l.lost \in Int /\ MaxLost - l.lost - 1 \in Int /\ MaxLost - l.lost >= 0
      /\ l.lost < MaxLost => MaxLost - l.lost - 1 >= 0
      /\ MaxLost - l.lost <= MaxLost
      /\ l.lost = MaxLost => MaxLost - l.lost = 0
  BY <1>1
<1>3. l.stage \in {"down", "waiting", "calling"} /\ l.timer \in Int /\ l.pos \in Int
  BY DEF LoopRec
<1>4. RoundLeft(l) \in Nat
  <2>1. CASE l.stage = "calling"
    <3>1. l.pos \in 1..Peers /\ l.timer \in 0..Timeout
      BY <2>1 DEF LoopOK
    <3>2. Calls(Peers - l.pos) \in Nat /\ l.timer \in Nat
      BY <1>1, <3>1, CallsSplit
    <3> QED BY <2>1, <3>2 DEF RoundLeft
  <2>2. CASE l.stage = "waiting"
    BY <2>2 DEF RoundLeft
  <2> QED BY <1>3, <2>1, <2>2
<1>5. Calls(p) \in Nat /\ Calls(p) <= Round
  BY CallsSplit
<1>6. PICK k \in Int : k = MaxLost - l.lost
  BY <1>2
<1>7. Rounds(k) \in Nat /\ Rounds(MaxLost) \in Nat /\ Rounds(k) <= Rounds(MaxLost)
  <2>1. k \in Int /\ k >= 0 /\ k <= MaxLost /\ MaxLost \in Int /\ MaxLost >= 0
    BY <1>1, <1>2, <1>6
  <2>2. Rounds(k) \in Nat /\ Rounds(MaxLost) \in Nat
    BY <2>1, RoundsSum
  <2>3. Rounds(k) <= Rounds(MaxLost)
    BY <2>1, RoundsSum
  <2> QED BY <2>2, <2>3
<1>8. k = 0 => Rounds(k) = 0
  BY RoundsSum
<1>9. ASSUME l.lost < MaxLost
      PROVE  Rounds(MaxLost - l.lost - 1) \in Nat /\ Rounds(k) = Rounds(MaxLost - l.lost - 1) + Round
  <2>1. PICK j \in Int : j = MaxLost - l.lost - 1
    BY <1>2
  <2>2. k = j + 1 /\ j >= 0
    BY <1>1, <1>6, <1>9, <2>1
  <2>3. Rounds(j) \in Nat
    BY <2>2, RoundsSum
  <2>4. Rounds(k) = Rounds(j) + Rounds(1)
    BY <2>2, RoundsSum
  <2>5. Rounds(1) = Round
    BY RoundsSum
  <2> QED BY <2>1, <2>3, <2>4, <2>5
<1>10. l.lost = MaxLost => Rounds(k) = 0
  BY <1>2, <1>6, <1>8
<1>11. Round \in Nat
  BY RoundsSum
<1> QED BY <1>1, <1>3, <1>4, <1>5, <1>6, <1>7, <1>9, <1>10, <1>11

LEMMA WaitNat ==
  ASSUME Timeout > 0, NEW p \in 1..Peers, NEW l \in LoopRec, LoopOK(l), l.stage # "down"
  PROVE  Wait(l, p) \in Nat
<1>1. CASE Ahead(l, p) /\ l.lost = MaxLost
  <2>1. l.pos \in 1..Peers /\ l.timer \in Nat /\ l.pos <= p
    BY <1>1, HeartbeatAssumption DEF Ahead, LoopOK
  <2>2. Calls(p - l.pos) \in Nat
    BY <2>1, CallsSplit
  <2> QED BY <1>1, <2>1, <2>2 DEF Wait
<1>2. CASE ~ (Ahead(l, p) /\ l.lost = MaxLost)
  <2>1. l.lost # MaxLost => l.lost < MaxLost
    BY HeartbeatAssumption DEF LoopOK
  <2> QED BY <1>2, <2>1, WaitParts DEF Wait
<1> QED BY <1>1, <1>2

\* A process that was started, and a heartbeat that reached the server.
LEMMA StartedWait ==
  ASSUME Timeout > 0, NEW p \in 1..Peers, NEW x \in LoopRec,
         x.stage = "waiting", x.tick = <<>>, x.lost = 0
  PROVE  LoopOK(x) /\ Wait(x, p) <= LongestWait
<1>1. LoopOK(x)
  BY HeartbeatAssumption DEF LoopOK
<1>2. RoundLeft(x) = 1 /\ ~ Ahead(x, p)
  BY DEF RoundLeft, Ahead
<1>3. MaxLost - x.lost = MaxLost
  BY HeartbeatAssumption
<1>4. Wait(x, p) = 1 + Rounds(MaxLost) + Calls(p)
  BY <1>2, <1>3 DEF Wait
<1> QED BY <1>1, <1>4, WaitParts DEF LongestWait

LEMMA ReachedWait ==
  ASSUME Timeout > 0, NEW l \in LoopRec, LoopOK(l), l.stage = "calling",
         NEW x \in LoopRec, x.stage = "calling", x.pos = l.pos, x.timer = l.timer, x.ts = l.ts,
         x.tick = l.tick, x.reached = TRUE, x.lost = 0
  PROVE  LoopOK(x) /\ Wait(x, l.pos) <= LongestWait
<1>1. LoopOK(x)
  BY HeartbeatAssumption DEF LoopOK, Spent
<1>2. ~ Ahead(x, l.pos) /\ MaxLost - x.lost = MaxLost /\ l.pos \in 1..Peers
  BY HeartbeatAssumption DEF Ahead, LoopOK
<1>3. Wait(x, l.pos) = Calls(Peers - l.pos) + l.timer + Rounds(MaxLost) + Calls(l.pos)
  BY <1>2 DEF Wait, RoundLeft
<1>4. l.timer <= Timeout /\ l.timer \in Int
  BY HeartbeatAssumption DEF LoopOK
<1>5. Rounds(MaxLost) \in Nat /\ Timeout \in Nat /\ Round \in Nat
  BY <1>1, <1>2, WaitParts
<1>6. /\ Calls(l.pos) + Calls(Peers - l.pos) = Round
      /\ Calls(l.pos) \in Nat /\ Calls(Peers - l.pos) \in Nat
  BY <1>2, CallsSplit
<1> QED BY <1>1, <1>3, <1>4, <1>5, <1>6 DEF LongestWait

LEMMA TakenWait ==
  ASSUME Timeout > 0, NEW p \in 1..Peers, NEW l \in LoopRec, LoopOK(l),
         l.stage = "waiting", l.tick # <<>>,
         NEW x \in LoopRec, x.stage = "calling", x.pos = 1, x.timer = Timeout,
         x.ts = Head(l.tick), x.tick = <<>>, x.reached = FALSE, x.lost = l.lost
  PROVE  LoopOK(x) /\ Wait(x, p) <= Wait(l, p)
<1>1. 1 \in 1..Peers /\ Timeout \in Nat /\ p \in Int /\ 1 <= p
  BY HeartbeatAssumption
<1>2. Spent(x) = 0 /\ Calls(1) = Timeout
  BY <1>1, CallsSum DEF Spent
<1>3. x.ts \in Nat /\ x.ts <= Round - 1 /\ Round \in Nat
  BY RoundsSum DEF LoopOK, LoopRec
<1>4. LoopOK(x)
  BY <1>1, <1>2, <1>3 DEF LoopOK
<1>5. Wait(l, p) = Rounds(MaxLost - l.lost) + Calls(p)
  BY WaitParts DEF Wait, Ahead, RoundLeft
<1>6. Ahead(x, p)
  BY <1>1 DEF Ahead
<1>7. Calls(p) = Timeout + Calls(p - 1) /\ Calls(p - 1) \in Nat
      /\ Round = Timeout + Calls(Peers - 1) /\ Calls(Peers - 1) \in Nat
  BY <1>1, <1>2, CallsSplit
<1>8. CASE l.lost = MaxLost
  <2>1. Wait(x, p) = Calls(p - 1) + Timeout
    BY <1>6, <1>8 DEF Wait
  <2>2. Wait(l, p) = Calls(p)
    <3>1. Rounds(MaxLost - l.lost) = 0
      BY <1>8, WaitParts
    <3> QED BY <1>1, <1>5, <1>7, <3>1
  <2> QED BY <1>1, <1>4, <1>7, <2>1, <2>2
<1>9. CASE l.lost < MaxLost
  <2>1. Wait(x, p) = Calls(Peers - 1) + Timeout + Rounds(MaxLost - l.lost - 1) + Calls(p)
    BY <1>6, <1>9 DEF Wait, RoundLeft, LoopOK
  <2>2. /\ Rounds(MaxLost - l.lost - 1) \in Nat
        /\ Rounds(MaxLost - l.lost) = Rounds(MaxLost - l.lost - 1) + Round
        /\ Calls(p) \in Nat
    BY <1>9, WaitParts
  <2> QED BY <1>1, <1>3, <1>4, <1>5, <1>7, <2>1, <2>2
<1> QED BY <1>4, <1>8, <1>9, HeartbeatAssumption DEF LoopOK

LEMMA ReturnedWait ==
  ASSUME Timeout > 0, NEW p \in 1..Peers, NEW l \in LoopRec, LoopOK(l), l.stage = "calling",
         NEW x \in LoopRec, x.tick = l.tick, x.ts = l.ts,
         IF l.pos < Peers
         THEN x.stage = "calling" /\ x.pos = l.pos + 1 /\ x.timer = Timeout /\ x.reached = FALSE
         ELSE x.stage = "waiting",
         IF l.pos = p /\ ~ l.reached THEN l.lost < MaxLost /\ x.lost = l.lost + 1
         ELSE x.lost = l.lost
  PROVE  LoopOK(x) /\ Wait(x, p) <= Wait(l, p)
<1>1. /\ l.pos \in 1..Peers /\ l.pos \in Int /\ p \in Int /\ p <= Peers /\ Peers \in Int
      /\ l.timer \in 0..Timeout /\ l.timer \in Int /\ Timeout \in Nat
      /\ l.lost \in Int /\ MaxLost \in Int
  BY HeartbeatAssumption DEF LoopOK, LoopRec
<1>2. /\ Calls(l.pos) \in Nat /\ Calls(Peers - l.pos) \in Nat /\ Calls(l.pos) <= Round
      /\ l.pos < Peers => /\ Calls(l.pos + 1) = Calls(l.pos) + Timeout
                          /\ Calls(Peers - (l.pos + 1)) = Calls(Peers - l.pos) - Timeout
      /\ Round \in Nat
  BY <1>1, CallsSplit, RoundsSum
<1>3. x.lost \in 0..MaxLost
  BY <1>1 DEF LoopOK
<1>4. l.tick # <<>> => Head(l.tick) \in Nat /\ Head(l.tick) <= Spent(l) - 1
  BY DEF LoopOK, LoopRec
<1>5. l.ts \in Nat /\ l.ts <= Round - 1 + Spent(l) /\ (l.tick = <<>> => l.timer = Timeout)
  BY DEF LoopOK, LoopRec
<1>6. Spent(l) \in Int /\ Spent(l) <= Calls(l.pos)
  BY <1>1, <1>2 DEF Spent
<1>7. LoopOK(x) /\ RoundLeft(x) <= RoundLeft(l)
  <2>1. CASE l.pos < Peers
    <3>1. x.pos \in 1..Peers /\ x.stage = "calling" /\ x.timer = Timeout
      BY <1>1, <2>1
    <3>2. Spent(x) = Calls(l.pos)
      BY <1>1, <1>2, <2>1 DEF Spent
    <3>3. x.ts <= Round - 1 + Spent(x) /\ (x.tick # <<>> => Head(x.tick) <= Spent(x) - 1)
      BY <1>2, <1>4, <1>5, <1>6, <3>2
    <3>4. LoopOK(x)
      BY <1>1, <1>3, <3>1, <3>3 DEF LoopOK
    <3>5. RoundLeft(x) = Calls(Peers - l.pos)
      BY <1>1, <1>2, <2>1, <3>1 DEF RoundLeft
    <3> QED BY <1>1, <1>2, <3>4, <3>5 DEF RoundLeft
  <2>2. CASE ~ (l.pos < Peers)
    <3>1. x.stage = "waiting"
      BY <2>2
    <3>2. LoopOK(x)
      BY <1>2, <1>3, <1>4, <1>6, <3>1 DEF LoopOK
    <3>3. RoundLeft(x) = IF l.tick = <<>> THEN 1 ELSE 0
      BY <3>1 DEF RoundLeft
    <3>4. RoundLeft(l) = Calls(Peers - l.pos) + l.timer
      BY DEF RoundLeft
    <3> QED BY <1>1, <1>2, <1>5, <3>2, <3>3, <3>4
  <2> QED BY <2>1, <2>2
<1>8. x.stage # "down"
  OBVIOUS
<1>9. RoundLeft(x) \in Nat /\ RoundLeft(l) \in Nat /\ Calls(p) \in Nat
  BY <1>7, <1>8, WaitParts
<1>10. CASE l.pos = p /\ ~ l.reached
  <2>1. Ahead(l, p) /\ ~ Ahead(x, p)
    BY <1>1, <1>10 DEF Ahead
  <2>2. x.lost = l.lost + 1 /\ l.lost < MaxLost /\ MaxLost - x.lost = MaxLost - l.lost - 1
    BY <1>1, <1>10
  <2>3. Rounds(MaxLost - l.lost - 1) \in Nat
    BY <2>2, WaitParts
  <2>4. /\ Wait(l, p) = RoundLeft(l) + Rounds(MaxLost - l.lost - 1) + Calls(p)
        /\ Wait(x, p) = RoundLeft(x) + Rounds(MaxLost - l.lost - 1) + Calls(p)
    BY <1>1, <2>1, <2>2 DEF Wait
  <2> QED BY <1>7, <1>9, <2>3, <2>4
<1>11. CASE l.pos < p
  <2>1. x.lost = l.lost /\ x.stage = "calling" /\ x.pos = l.pos + 1 /\ x.timer = Timeout
        /\ x.reached = FALSE
    BY <1>1, <1>11
  <2>2. Ahead(l, p) /\ Ahead(x, p)
    BY <1>1, <1>11, <2>1 DEF Ahead
  <2>3. Calls(p - l.pos) \in Nat /\ Calls(p - (l.pos + 1)) = Calls(p - l.pos) - Timeout
    <3>1. l.pos <= p
      BY <1>1, <1>11
    <3> QED BY <1>1, <3>1, CallsSplit
  <2>4. CASE l.lost = MaxLost
    <3>1. Wait(l, p) = Calls(p - l.pos) + l.timer
      BY <2>2, <2>4 DEF Wait
    <3>2. Wait(x, p) = Calls(p - (l.pos + 1)) + Timeout
      BY <2>1, <2>2, <2>4 DEF Wait
    <3> QED BY <1>1, <1>7, <2>3, <3>1, <3>2
  <2>5. CASE l.lost < MaxLost
    <3>1. /\ Wait(l, p) = RoundLeft(l) + Rounds(MaxLost - l.lost - 1) + Calls(p)
          /\ Wait(x, p) = RoundLeft(x) + Rounds(MaxLost - l.lost - 1) + Calls(p)
      BY <1>1, <2>1, <2>2, <2>5 DEF Wait
    <3> QED BY <1>7, <1>9, <2>5, <3>1, WaitParts
  <2> QED BY <1>1, <2>4, <2>5 DEF LoopOK
<1>12. CASE ~ (l.pos < p) /\ ~ (l.pos = p /\ ~ l.reached)
  <2>1. x.lost = l.lost /\ ~ Ahead(l, p) /\ ~ Ahead(x, p)
    BY <1>1, <1>12 DEF Ahead
  <2>2. /\ Wait(l, p) = RoundLeft(l) + Rounds(MaxLost - l.lost) + Calls(p)
        /\ Wait(x, p) = RoundLeft(x) + Rounds(MaxLost - l.lost) + Calls(p)
    BY <2>1 DEF Wait
  <2> QED BY <1>7, <1>9, <2>2, WaitParts
<1> QED BY <1>7, <1>10, <1>11, <1>12

\* A second that a loop waits.
LEMMA TickedWait ==
  ASSUME Timeout > 0, NEW p \in 1..Peers, NEW l \in LoopRec, LoopOK(l),
         \/ l.stage = "waiting" /\ l.tick = <<>>
         \/ l.stage = "calling" /\ l.timer > 0,
         NEW x \in LoopRec, x.stage = l.stage, x.pos = l.pos, x.reached = l.reached,
         x.lost = l.lost, x.ts = Older(l.ts), l.timer > 0 => x.timer = l.timer - 1,
         x.tick # <<>>, Head(x.tick) = IF l.tick = <<>> THEN 0 ELSE Older(Head(l.tick))
  PROVE  LoopOK(x) /\ Wait(x, p) = Wait(l, p) - 1
<1>1. /\ l.timer \in Int /\ l.lost \in Int /\ MaxLost \in Int /\ Timeout \in Nat
      /\ l.ts \in Nat /\ l.lost \in 0..MaxLost
  BY HeartbeatAssumption DEF LoopRec, LoopOK
<1>2. \A a \in Nat : Older(a) \in Nat /\ Older(a) <= a + 1
  BY OlderNat DEF Older
<1>3. l.tick # <<>> => Head(l.tick) \in Nat
  BY DEF LoopRec
<1>4. Timeout <= Round /\ Round \in Nat /\ Calls(p) \in Nat
  <2>1. Timeout <= Calls(p) /\ Calls(p) <= Round /\ Calls(p) \in Nat
    BY CallsSplit
  <2>2. Round \in Nat
    BY RoundsSum
  <2> QED BY <1>1, <2>1, <2>2
<1>5. (Ahead(x, p) <=> Ahead(l, p)) /\ l.stage # "down"
  BY DEF Ahead
<1>6. LoopOK(x) /\ RoundLeft(x) = RoundLeft(l) - 1
  <2>1. CASE l.stage = "waiting"
    <3>1. Head(x.tick) = 0
      BY <2>1
    <3> QED BY <1>1, <1>4, <2>1, <3>1 DEF LoopOK, RoundLeft
  <2>2. CASE l.stage = "calling"
    <3>1. /\ l.pos \in 1..Peers /\ l.timer \in 0..Timeout /\ l.timer > 0
          /\ l.ts <= Round - 1 + Spent(l)
          /\ l.tick # <<>> => Head(l.tick) <= Spent(l) - 1
      BY <2>2 DEF LoopOK
    <3>2. Calls(l.pos) \in Nat /\ Timeout <= Calls(l.pos) /\ Calls(Peers - l.pos) \in Nat
      BY <3>1, CallsSplit
    <3>3. Spent(l) \in Nat /\ Spent(x) = Spent(l) + 1
      BY <1>1, <3>1, <3>2 DEF Spent
    <3>4. x.ts <= Round - 1 + Spent(x)
      <4>1. x.ts \in Nat /\ x.ts <= l.ts + 1
        BY <1>1, <1>2
      <4> QED BY <1>1, <1>4, <3>1, <3>3, <4>1
    <3>5. Head(x.tick) <= Spent(x) - 1
      <4>1. CASE l.tick = <<>>
        <5>1. Head(x.tick) = 0
          BY <4>1
        <5> QED BY <3>3, <5>1
      <4>2. CASE l.tick # <<>>
        <5>1. Head(x.tick) \in Nat /\ Head(x.tick) <= Head(l.tick) + 1
          BY <1>2, <1>3, <4>2
        <5> QED BY <1>3, <3>1, <3>3, <4>2, <5>1
      <4> QED BY <4>1, <4>2
    <3>6. x.timer = l.timer - 1 /\ x.timer \in 0..Timeout
      BY <1>1, <3>1
    <3>7. LoopOK(x)
      BY <1>1, <2>2, <3>1, <3>4, <3>5, <3>6 DEF LoopOK
    <3>8. RoundLeft(x) = RoundLeft(l) - 1
      BY <1>1, <2>2, <3>2, <3>6 DEF RoundLeft
    <3> QED BY <3>7, <3>8
  <2> QED BY <2>1, <2>2
<1>7. RoundLeft(l) \in Nat /\ RoundLeft(x) \in Int
  BY <1>5, <1>6, WaitParts
<1>8. CASE Ahead(l, p) /\ l.lost = MaxLost
  <2>1. l.stage = "calling" /\ l.pos \in 1..Peers /\ l.pos <= p /\ l.timer > 0
    BY <1>8, HeartbeatAssumption DEF Ahead, LoopOK
  <2>2. Calls(p - l.pos) \in Nat
    BY <2>1, CallsSplit
  <2>3. Wait(l, p) = Calls(p - l.pos) + l.timer
    BY <1>8 DEF Wait
  <2>4. Wait(x, p) = Calls(p - l.pos) + (l.timer - 1)
    BY <1>5, <1>8, <2>1 DEF Wait
  <2> QED BY <1>1, <1>6, <2>2, <2>3, <2>4
<1>9. CASE Ahead(l, p) /\ l.lost # MaxLost
  <2>1. l.lost < MaxLost
    BY <1>1, <1>9
  <2>2. Rounds(MaxLost - l.lost - 1) \in Nat
    BY <1>5, <2>1, WaitParts
  <2>3. /\ Wait(l, p) = RoundLeft(l) + Rounds(MaxLost - l.lost - 1) + Calls(p)
        /\ Wait(x, p) = RoundLeft(x) + Rounds(MaxLost - l.lost - 1) + Calls(p)
    BY <1>5, <1>9 DEF Wait
  <2> QED BY <1>4, <1>6, <1>7, <2>2, <2>3
<1>10. CASE ~ Ahead(l, p)
  <2>1. /\ Wait(l, p) = RoundLeft(l) + Rounds(MaxLost - l.lost) + Calls(p)
        /\ Wait(x, p) = RoundLeft(x) + Rounds(MaxLost - l.lost) + Calls(p)
    BY <1>5, <1>10 DEF Wait
  <2>2. Rounds(MaxLost - l.lost) \in Nat
    BY <1>5, WaitParts
  <2> QED BY <1>4, <1>6, <1>7, <2>1, <2>2
<1> QED BY <1>6, <1>8, <1>9, <1>10

-----------------------------------------------------------------------------
(* Every action keeps nodes alive.                                           *)

LEMMA FitsNats ==
  ASSUME Fits
  PROVE  /\ LongestWait \in Nat /\ OldestTick \in Int /\ MaxLate \in Nat /\ Window \in Nat
         /\ Settle \in Int /\ Round \in Nat
<1>1. Round \in Nat /\ Rounds(MaxLost) \in Nat
  <2>1. MaxLost \in Int /\ MaxLost >= 0
    BY HeartbeatAssumption
  <2> QED BY <2>1, RoundsSum
<1>2. /\ Timeout \in Nat /\ MaxSkew \in Nat /\ MaxLate \in Nat /\ Window \in Nat
      /\ Settle \in Int
  BY HeartbeatAssumption
<1> QED BY <1>1, <1>2 DEF LongestWait, OldestTick

\* What the invariant says of one node.
LEMMA ThisNode ==
  ASSUME Fits, AliveInv, NEW n \in Nodes
  PROVE  /\ loop[n] \in LoopRec /\ LoopOK(loop[n]) /\ place[n] \in 1..Peers
         /\ since[n] \in Nat /\ skew[n] \in Skews
         /\ n \in DOMAIN seen => seen[n] \in Int
         /\ Running(n) => /\ Wait(loop[n], place[n]) \in Nat
                          /\ Wait(loop[n], place[n]) <= LongestWait
                          /\ Tended(n)
<1>1. loop[n] \in LoopRec /\ LoopOK(loop[n]) /\ place[n] \in 1..Peers
  BY DEF AliveInv, HeartbeatInv, Typed
<1>2. Running(n) => Wait(loop[n], place[n]) \in Nat
  BY <1>1, WaitNat DEF Fits, Running
<1> QED BY <1>1, <1>2 DEF AliveInv, Alive, HeartbeatInv, Typed

\* What was started, or runs with a server that was, is tended.
LEMMA NewlyTended ==
  ASSUME Fits, NEW w \in Int, w <= LongestWait, NEW s, s = 0
  PROVE  s + w + MaxLate <= Settle - 1
BY FitsNats DEF Fits

\* Nodes that an action does not touch, and neither does it what the server has of them.
LEMMA Untouched ==
  ASSUME AliveInv, NEW m \in Nodes, loop'[m] = loop[m], place' = place, since'[m] = since[m],
         m \in DOMAIN seen => m \in DOMAIN seen' /\ seen'[m] = seen[m],
         \A r \in requests : r.node = m => r \in requests'
  PROVE  LoopOK(loop'[m]) /\ Alive(m)'
<1>1. LoopOK(loop[m]) /\ (Running(m) => Wait(loop[m], place[m]) <= LongestWait /\ Tended(m))
  BY DEF AliveInv, Alive
<1>2. \A t, limit : ServedWithin(m, t, limit) =>
        \/ t + Wait(loop'[m], place'[m]) + MaxLate <= limit
        \/ \E r \in requests' : r.node = m /\ t + r.left <= limit
  BY DEF ServedWithin
<1>3. Wait(loop'[m], place'[m]) = Wait(loop[m], place[m]) /\ Running(m)' = Running(m)
  BY DEF Running
<1>4. Tended(m) => Tended(m)'
  BY <1>2 DEF Tended, ServedWithin
<1> QED BY <1>1, <1>3, <1>4 DEF Alive

\* An action on the loop of n alone that asks nothing of the server.
LEMMA AliveLoop ==
  ASSUME Fits, AliveInv, HeartbeatInv', NEW n \in Nodes, NEW x \in LoopRec, Becomes(n, x),
         LoopOK(x), UNCHANGED <<place, requests, seen>>,
         \A m \in Nodes : m # n => since'[m] = since[m],
         x.stage # "down" =>
           \/ since'[n] = 0 /\ Wait(x, place[n]) <= LongestWait
           \/ since' = since /\ Running(n) /\ Wait(x, place[n]) <= Wait(loop[n], place[n])
  PROVE  AliveInv'
<1>1. loop'[n] = x /\ \A m \in Nodes : m # n => loop'[m] = loop[m]
  BY DEF Becomes, AliveInv, HeartbeatInv, Typed
<1>2. \A m \in Nodes : m # n => LoopOK(loop'[m]) /\ Alive(m)'
  BY <1>1, Untouched
<1>3. RequestsOK' /\ place' \in [Nodes -> 1..Peers]
  BY DEF AliveInv, RequestsOK
<1>4. Alive(n)'
  <2> SUFFICES ASSUME x.stage # "down"
               PROVE  Wait(x, place[n]) <= LongestWait /\ Tended(n)'
    BY <1>1 DEF Alive, Running
  <2>1. Wait(x, place[n]) \in Nat /\ LongestWait \in Nat
    BY ThisNode, WaitNat, FitsNats DEF Fits
  <2>2. CASE since'[n] = 0 /\ Wait(x, place[n]) <= LongestWait
    BY <1>1, <2>1, <2>2, NewlyTended DEF Tended, ServedWithin
  <2>3. CASE since' = since /\ Running(n) /\ Wait(x, place[n]) <= Wait(loop[n], place[n])
    <3>1. Wait(loop[n], place[n]) \in Nat /\ Wait(loop[n], place[n]) <= LongestWait /\ Tended(n)
          /\ since[n] \in Nat /\ (n \in DOMAIN seen => seen[n] \in Int)
      BY <2>3, ThisNode
    <3>2. ASSUME NEW t \in Int, NEW limit \in Int, ServedWithin(n, t, limit)
          PROVE  \/ t + Wait(x, place[n]) + MaxLate <= limit
                 \/ \E r \in requests : r.node = n /\ t + r.left <= limit
      BY <2>1, <2>3, <3>1, <3>2, FitsNats DEF ServedWithin
    <3>3. Window \in Int /\ Settle - 1 \in Int
      BY FitsNats
    <3>4. Tended(n)'
      BY <1>1, <2>3, <3>1, <3>2, <3>3 DEF Tended, ServedWithin
    <3> QED BY <2>1, <2>3, <3>1, <3>4
  <2> QED BY <2>2, <2>3
<1>5. \A m \in Nodes : LoopOK(loop'[m]) /\ Alive(m)'
  BY <1>1, <1>2, <1>4
<1> QED BY <1>3, <1>5 DEF AliveInv

LEMMA AliveStartStop ==
  ASSUME Fits, AliveInv, HeartbeatInv', NEW n \in Nodes, Start(n) \/ Stop(n)
  PROVE  AliveInv'
<1>1. since' = [since EXCEPT ![n] = 0] /\ UNCHANGED <<place, requests, seen>>
  BY DEF Start, Stop
<1>2. since'[n] = 0 /\ \A m \in Nodes : m # n => since'[m] = since[m]
  BY <1>1 DEF AliveInv, HeartbeatInv, Typed
<1>3. Down \in LoopRec /\ Down.stage = "down" /\ Down.tick = <<>> /\ Down.lost = 0
  BY DEF Down, LoopRec
<1>4. CASE Start(n)
  <2>1. PICK x : x = [Down EXCEPT !.stage = "waiting"]
    OBVIOUS
  <2>2. x \in LoopRec /\ x.stage = "waiting" /\ x.tick = <<>> /\ x.lost = 0
    <3> HIDE DEF Down
    <3> QED BY <1>3, <2>1 DEF LoopRec
  <2>3. LoopOK(x) /\ Wait(x, place[n]) <= LongestWait
    BY <2>2, ThisNode, StartedWait DEF Fits
  <2>4. Becomes(n, x)
    BY <1>4, <2>1 DEF Start
  <2> QED BY <1>1, <1>2, <2>2, <2>3, <2>4, AliveLoop
<1>5. CASE Stop(n)
  <2>1. LoopOK(Down)
    BY <1>3, HeartbeatAssumption DEF LoopOK
  <2>2. Becomes(n, Down)
    BY <1>5 DEF Stop
  <2> HIDE DEF Down
  <2> QED BY <1>1, <1>2, <1>3, <2>1, <2>2, AliveLoop
<1> QED BY <1>4, <1>5

LEMMA AliveTakeTick ==
  ASSUME Fits, AliveInv, HeartbeatInv', NEW n \in Nodes, TakeTick(n)
  PROVE  AliveInv'
<1> DEFINE l == loop[n]
<1>1. l \in LoopRec /\ LoopOK(l) /\ place[n] \in 1..Peers
  BY ThisNode
<1>2. l.stage = "waiting" /\ l.tick # <<>> /\ UNCHANGED <<place, requests, seen, since>>
  BY DEF TakeTick
<1>3. PICK x : x = [l EXCEPT !.stage = "calling", !.ts = Head(l.tick), !.tick = <<>>,
                             !.pos = 1, !.timer = Timeout, !.reached = FALSE]
  OBVIOUS
<1>4. Becomes(n, x) /\ Running(n)
  BY <1>2, <1>3 DEF TakeTick, Running
<1>5. loop'[n] = x /\ x \in LoopRec
  BY <1>4 DEF Becomes, AliveInv, HeartbeatInv, Typed
<1>6. /\ x.stage = "calling" /\ x.pos = 1 /\ x.timer = Timeout /\ x.ts = Head(l.tick)
      /\ x.tick = <<>> /\ x.reached = FALSE /\ x.lost = l.lost
  BY <1>1, <1>3 DEF LoopRec
<1> HIDE DEF l
<1>7. LoopOK(x) /\ Wait(x, place[n]) <= Wait(l, place[n])
  BY <1>1, <1>2, <1>5, <1>6, TakenWait DEF Fits
<1> QED BY <1>2, <1>4, <1>5, <1>7, AliveLoop DEF l

LEMMA AliveReturn ==
  ASSUME Fits, AliveInv, HeartbeatInv', NEW n \in Nodes, Return(n)
  PROVE  AliveInv'
<1> DEFINE l == loop[n]
           lost == l.pos = place[n] /\ ~ l.reached
           next == IF l.pos < Peers
                   THEN [l EXCEPT !.pos = @ + 1, !.timer = Timeout, !.reached = FALSE]
                   ELSE [l EXCEPT !.stage = "waiting"]
<1>1. l \in LoopRec /\ LoopOK(l) /\ place[n] \in 1..Peers
  BY ThisNode
<1>2. l.stage = "calling" /\ UNCHANGED <<place, requests, seen, since>>
      /\ (lost => l.lost < MaxLost)
  BY DEF Return, Calling
<1>3. PICK y : y = next
  OBVIOUS
<1>4. PICK x : x = IF lost THEN [y EXCEPT !.lost = @ + 1] ELSE y
  OBVIOUS
<1>5. Becomes(n, x) /\ Running(n)
  BY <1>2, <1>3, <1>4 DEF Return, Running
<1>6. loop'[n] = x /\ x \in LoopRec
  BY <1>5 DEF Becomes, AliveInv, HeartbeatInv, Typed
<1>7. /\ y.tick = l.tick /\ y.ts = l.ts /\ y.lost = l.lost
      /\ IF l.pos < Peers
         THEN y.stage = "calling" /\ y.pos = l.pos + 1 /\ y.timer = Timeout /\ y.reached = FALSE
         ELSE y.stage = "waiting"
      /\ DOMAIN y = DOMAIN l
  <2>1. CASE l.pos < Peers
    <3>1. y = [l EXCEPT !.pos = l.pos + 1, !.timer = Timeout, !.reached = FALSE]
      BY <1>3, <2>1
    <3> HIDE DEF l, next
    <3> QED BY <1>1, <1>2, <2>1, <3>1 DEF LoopRec
  <2>2. CASE ~ (l.pos < Peers)
    <3>1. y = [l EXCEPT !.stage = "waiting"]
      BY <1>3, <2>2
    <3> HIDE DEF l, next
    <3> QED BY <1>1, <2>2, <3>1 DEF LoopRec
  <2> QED BY <2>1, <2>2
<1> HIDE DEF next
<1>8. /\ x.tick = l.tick /\ x.ts = l.ts
      /\ IF l.pos < Peers
         THEN x.stage = "calling" /\ x.pos = l.pos + 1 /\ x.timer = Timeout /\ x.reached = FALSE
         ELSE x.stage = "waiting"
      /\ IF lost THEN x.lost = l.lost + 1 ELSE x.lost = l.lost
  <2>1. "lost" \in DOMAIN l
    BY <1>1 DEF LoopRec
  <2> HIDE DEF l, lost
  <2>2. CASE lost
    <3>1. x = [y EXCEPT !.lost = y.lost + 1]
      BY <1>4, <2>2
    <3> QED BY <1>7, <2>1, <2>2, <3>1
  <2>3. CASE ~ lost
    BY <1>4, <1>7, <2>3
  <2> QED BY <2>2, <2>3
<1> HIDE DEF l
<1>9. LoopOK(x) /\ Wait(x, place[n]) <= Wait(l, place[n])
  BY <1>1, <1>2, <1>6, <1>8, ReturnedWait DEF Fits, lost
<1> QED BY <1>2, <1>5, <1>6, <1>9, AliveLoop DEF l

LEMMA AliveReach ==
  ASSUME Fits, AliveInv, HeartbeatInv', NEW n \in Nodes, Reach(n)
  PROVE  AliveInv'
<1> DEFINE l == loop[n]
           r == [node |-> n, age |-> l.ts - skew[n], left |-> MaxLate]
<1>1. l \in LoopRec /\ LoopOK(l) /\ place[n] \in 1..Peers /\ skew[n] \in Skews
  BY ThisNode
<1>2. l.stage = "calling" /\ l.pos = place[n] /\ requests' = requests \cup {r}
      /\ UNCHANGED <<skew, place, seen, since>>
  BY DEF Reach, Calling
<1>3. PICK x : x = [l EXCEPT !.reached = TRUE, !.lost = 0]
  OBVIOUS
<1>4. loop' = [loop EXCEPT ![n] = x]
  BY <1>3 DEF Reach, Becomes
<1>5. loop'[n] = x /\ x \in LoopRec /\ \A m \in Nodes : m # n => loop'[m] = loop[m]
  BY <1>4 DEF AliveInv, HeartbeatInv, Typed
<1>6. /\ x.stage = "calling" /\ x.pos = l.pos /\ x.timer = l.timer /\ x.ts = l.ts
      /\ x.tick = l.tick /\ x.reached = TRUE /\ x.lost = 0
  <2> HIDE DEF l
  <2> QED BY <1>1, <1>2, <1>3 DEF LoopRec
<1>7. r.age <= OldestTick /\ r.age \in Int
  <2>1. l.pos \in 1..Peers /\ l.timer \in 0..Timeout /\ l.ts <= Round - 1 + Spent(l)
    BY <1>1, <1>2 DEF LoopOK
  <2>2. Calls(l.pos) \in Nat /\ Calls(l.pos) <= Round
    BY <2>1, CallsSplit
  <2>3. l.ts \in Nat /\ l.timer \in Int /\ skew[n] \in Int /\ - MaxSkew <= skew[n]
        /\ l.timer >= 0 /\ MaxSkew \in Nat
    BY <1>1, <2>1, HeartbeatAssumption DEF LoopRec, Skews
  <2>4. r.age = l.ts - skew[n]
    OBVIOUS
  <2> HIDE DEF l, r
  <2> QED BY <2>1, <2>2, <2>3, <2>4, FitsNats DEF OldestTick, Spent
<1>8. r.node = n /\ r.left = MaxLate /\ MaxLate \in Nat
  BY HeartbeatAssumption
<1> HIDE DEF l, r
<1>9. RequestsOK' /\ place' \in [Nodes -> 1..Peers]
  <2>1. \A q \in requests : q.left \in 0..MaxLate /\ q.age + q.left <= OldestTick + MaxLate
    BY DEF AliveInv, RequestsOK
  <2>2. r.left \in 0..MaxLate /\ r.age + r.left <= OldestTick + MaxLate
    BY <1>7, <1>8, FitsNats
  <2> QED BY <1>2, <2>1, <2>2 DEF RequestsOK, AliveInv, OldestTick, Round
<1>10. LoopOK(x) /\ Wait(x, place[n]) <= LongestWait
  BY <1>1, <1>2, <1>5, <1>6, ReachedWait DEF Fits
<1>11. Tended(n)'
  <2>1. Running(n) /\ l = loop[n]
    BY <1>2 DEF Running, l
  <2>2. /\ Wait(loop[n], place[n]) \in Nat /\ Tended(n) /\ since[n] \in Nat
        /\ n \in DOMAIN seen => seen[n] \in Int
    BY <2>1, ThisNode
  <2>3. ASSUME NEW t \in Int, NEW limit \in Int, ServedWithin(n, t, limit)
        PROVE  \E q \in requests' : q.node = n /\ t + q.left <= limit
    <3>1. CASE t + Wait(loop[n], place[n]) + MaxLate <= limit
      <4>1. t + r.left <= limit
        BY <1>8, <2>2, <3>1
      <4> QED BY <1>2, <1>8, <4>1
    <3>2. CASE \E q \in requests : q.node = n /\ t + q.left <= limit
      BY <1>2, <3>2
    <3> QED BY <2>3, <3>1, <3>2 DEF ServedWithin
  <2>4. Window \in Int /\ Settle - 1 \in Int
    BY FitsNats
  <2> QED BY <1>2, <2>2, <2>3, <2>4 DEF Tended, ServedWithin
<1>12. \A m \in Nodes : m # n => LoopOK(loop'[m]) /\ Alive(m)'
  BY <1>2, <1>5, Untouched
<1>13. \A m \in Nodes : LoopOK(loop'[m]) /\ Alive(m)'
  BY <1>2, <1>5, <1>10, <1>11, <1>12 DEF Alive
<1> QED BY <1>9, <1>13 DEF AliveInv

LEMMA AliveRecord ==
  ASSUME Fits, AliveInv, HeartbeatInv', NEW r \in requests, RecordHeartbeat(r)
  PROVE  AliveInv'
<1> DEFINE n == r.node
<1>1. n \in Nodes /\ r.age \in Int /\ r.left \in Int
  BY DEF AliveInv, HeartbeatInv, Typed
<1>2. /\ requests' = requests \ {r} /\ UNCHANGED <<loop, skew, place, since>>
      /\ DOMAIN seen' = DOMAIN seen \cup {n}
      /\ \A m \in DOMAIN seen' : seen'[m] = IF m = n THEN r.age ELSE seen[m]
  BY DEF RecordHeartbeat, Seen
<1>3. r.left \in 0..MaxLate /\ r.age + r.left <= OldestTick + MaxLate
  BY DEF AliveInv, RequestsOK
<1>4. RequestsOK' /\ place' \in [Nodes -> 1..Peers]
  BY <1>2 DEF AliveInv, RequestsOK, OldestTick, Round
<1>5. ASSUME Running(n)
      PROVE  Wait(loop[n], place[n]) <= LongestWait /\ Tended(n)'
  <2>1. Wait(loop[n], place[n]) \in Nat /\ Wait(loop[n], place[n]) <= LongestWait
    BY <1>1, <1>5, ThisNode
  <2>2. r.age + Wait(loop[n], place[n]) + MaxLate <= Window
    BY <1>1, <1>3, <2>1, FitsNats DEF Fits
  <2>3. n \in DOMAIN seen' /\ seen'[n] = r.age
    BY <1>2
  <2> QED BY <1>2, <2>1, <2>2, <2>3 DEF Tended, ServedWithin
<1>6. LoopOK(loop'[n]) /\ Alive(n)'
  BY <1>1, <1>2, <1>5, ThisNode DEF Alive, Running
<1>7. \A m \in Nodes : m # n => LoopOK(loop'[m]) /\ Alive(m)'
  BY <1>2, Untouched
<1> QED BY <1>4, <1>6, <1>7 DEF AliveInv

LEMMA AliveRestart ==
  ASSUME Fits, AliveInv, HeartbeatInv', Restart
  PROVE  AliveInv'
<1>1. /\ requests' \subseteq requests /\ UNCHANGED <<loop, place>>
      /\ since' = [n \in Nodes |-> IF Running(n) THEN 0 ELSE since[n]]
  BY DEF Restart
<1>2. RequestsOK' /\ place' \in [Nodes -> 1..Peers]
  BY <1>1 DEF AliveInv, RequestsOK
<1>3. ASSUME NEW n \in Nodes
      PROVE  LoopOK(loop'[n]) /\ Alive(n)'
  <2>1. LoopOK(loop'[n])
    BY <1>1, ThisNode
  <2>2. ASSUME Running(n)
        PROVE  Wait(loop[n], place[n]) <= LongestWait /\ Tended(n)'
    <3>1. Wait(loop[n], place[n]) \in Nat /\ Wait(loop[n], place[n]) <= LongestWait
      BY <2>2, ThisNode
    <3>2. since'[n] = 0
      BY <1>1, <2>2
    <3>3. since'[n] + Wait(loop[n], place[n]) + MaxLate <= Settle - 1
      BY <3>1, <3>2, NewlyTended
    <3> QED BY <1>1, <3>1, <3>3 DEF Tended, ServedWithin
  <2> QED BY <1>1, <2>1, <2>2 DEF Alive, Running
<1> QED BY <1>2, <1>3 DEF AliveInv

LEMMA AlivePass ==
  ASSUME Fits, AliveInv, HeartbeatInv', Pass
  PROVE  AliveInv'
<1>1. /\ loop' = [n \in Nodes |-> Ticked(loop[n])]
      /\ requests' = {[r EXCEPT !.age = Older(@), !.left = @ - 1] : r \in requests}
      /\ seen' = [n \in DOMAIN seen |-> Older(seen[n])]
      /\ since' = [n \in Nodes |-> Older(since[n])]
      /\ UNCHANGED <<skew, place>>
      /\ \A n \in Nodes : Waits(n)
      /\ \A r \in requests : r.left > 0
  BY DEF Pass
<1>2. \A a \in Int : Older(a) \in Int /\ Older(a) <= a + 1
  BY OlderNat DEF Older
<1>3. ASSUME NEW r \in requests, NEW q, q = [r EXCEPT !.age = Older(@), !.left = @ - 1]
      PROVE  /\ q.node = r.node /\ q.age = Older(r.age) /\ q.left = r.left - 1
             /\ r.age \in Int /\ r.left \in 1..MaxLate
  <2>1. r \in [node : Nodes, age : Int, left : Int]
    BY DEF AliveInv, HeartbeatInv, Typed
  <2>2. PICK o : o = Older(r.age)
    OBVIOUS
  <2>3. PICK k : k = r.left - 1
    OBVIOUS
  <2>4. q = [r EXCEPT !.age = o, !.left = k]
    BY <1>3, <2>2, <2>3
  <2>5. q.node = r.node /\ q.age = o /\ q.left = k
    BY <2>1, <2>4
  <2>6. r.left \in 0..MaxLate /\ r.left > 0
    BY <1>1 DEF AliveInv, RequestsOK
  <2>7. r.left \in 1..MaxLate
    BY <2>6, HeartbeatAssumption
  <2> QED BY <2>1, <2>2, <2>3, <2>5, <2>7
<1>4. RequestsOK' /\ place' \in [Nodes -> 1..Peers]
  <2>1. ASSUME NEW q \in requests'
        PROVE  q.left \in 0..MaxLate /\ q.age + q.left <= OldestTick + MaxLate
    <3>1. PICK r \in requests : q = [r EXCEPT !.age = Older(@), !.left = @ - 1]
      BY <1>1
    <3>2. /\ q.age = Older(r.age) /\ q.left = r.left - 1
          /\ r.age \in Int /\ r.left \in 1..MaxLate
      BY <1>3, <3>1
    <3>3. r.age + r.left <= OldestTick + MaxLate
      BY DEF AliveInv, RequestsOK
    <3>4. Older(r.age) \in Int /\ Older(r.age) <= r.age + 1
      BY <1>2, <3>2
    <3> QED BY <3>2, <3>3, <3>4, FitsNats
  <2> QED BY <1>1, <2>1 DEF RequestsOK, AliveInv, OldestTick, Round
<1>5. ASSUME NEW n \in Nodes, Running(n)
      PROVE  LoopOK(loop'[n]) /\ Wait(loop'[n], place[n]) = Wait(loop[n], place[n]) - 1
  <2> DEFINE l == loop[n]
  <2>1. l \in LoopRec /\ LoopOK(l) /\ place[n] \in 1..Peers
    BY ThisNode
  <2>2. l.stage # "down" /\ loop'[n] = Ticked(l)
    BY <1>1, <1>5 DEF Running
  <2>3. PICK e : e = IF l.tick = <<>> THEN <<0>> ELSE <<Older(Head(l.tick))>>
    OBVIOUS
  <2>4. e # <<>> /\ Head(e) = IF l.tick = <<>> THEN 0 ELSE Older(Head(l.tick))
    BY <2>3
  <2>5. PICK t : t = Older(l.ts)
    OBVIOUS
  <2>6. PICK u : u = IF l.timer > 0 THEN l.timer - 1 ELSE 0
    OBVIOUS
  <2>7. loop'[n] = [l EXCEPT !.tick = e, !.ts = t, !.timer = u]
    BY <2>2, <2>3, <2>5, <2>6 DEF Ticked
  <2>8. \/ l.stage = "waiting" /\ l.tick = <<>>
        \/ l.stage = "calling" /\ l.timer > 0
    BY <1>1, <2>1, <2>2 DEF Waits, Calling, LoopRec
  <2>9. loop'[n] \in LoopRec
    BY DEF HeartbeatInv, Typed
  <2> HIDE DEF l
  <2>10. PICK x : x = loop'[n]
    OBVIOUS
  <2>11. /\ x.stage = l.stage /\ x.pos = l.pos /\ x.reached = l.reached /\ x.lost = l.lost
         /\ x.ts = t /\ x.timer = u /\ x.tick = e
    BY <2>1, <2>7, <2>10 DEF LoopRec
  <2>12. l.timer > 0 => x.timer = l.timer - 1
    BY <2>6, <2>11
  <2>13. LoopOK(x) /\ Wait(x, place[n]) = Wait(l, place[n]) - 1
    BY <2>1, <2>4, <2>5, <2>8, <2>9, <2>10, <2>11, <2>12, TickedWait DEF Fits
  <2> QED BY <2>10, <2>13 DEF l
<1>6. ASSUME NEW n \in Nodes, Running(n)
      PROVE  Wait(loop'[n], place[n]) <= LongestWait /\ Tended(n)'
  <2>1. /\ Wait(loop[n], place[n]) \in Nat /\ Wait(loop[n], place[n]) <= LongestWait
        /\ Tended(n) /\ since[n] \in Int /\ (n \in DOMAIN seen => seen[n] \in Int)
    BY <1>6, ThisNode
  <2>2. ASSUME NEW t \in Int, NEW limit \in Int, ServedWithin(n, t, limit)
        PROVE  \/ Older(t) + Wait(loop'[n], place[n]) + MaxLate <= limit
               \/ \E q \in requests' : q.node = n /\ Older(t) + q.left <= limit
    <3>1. Older(t) \in Int /\ Older(t) <= t + 1
      BY <1>2
    <3>2. CASE t + Wait(loop[n], place[n]) + MaxLate <= limit
      BY <1>5, <1>6, <2>1, <3>1, <3>2, FitsNats
    <3>3. CASE \E r \in requests : r.node = n /\ t + r.left <= limit
      <4>1. PICK r \in requests : r.node = n /\ t + r.left <= limit
        BY <3>3
      <4>2. PICK q : q = [r EXCEPT !.age = Older(@), !.left = @ - 1]
        OBVIOUS
      <4>3. q \in requests'
        BY <1>1, <4>2
      <4>4. q.node = n /\ q.left = r.left - 1 /\ r.left \in Int
        <5>1. q.node = r.node /\ q.left = r.left - 1 /\ r.left \in 1..MaxLate
          BY <1>3, <4>2
        <5> QED BY <4>1, <5>1
      <4> QED BY <3>1, <4>1, <4>3, <4>4
    <3> QED BY <2>2, <3>2, <3>3 DEF ServedWithin
  <2>3. Window \in Int /\ Settle - 1 \in Int
    BY FitsNats
  <2>6. Wait(loop'[n], place[n]) <= LongestWait
    BY <1>5, <1>6, <2>1, FitsNats
  <2>4. CASE n \in DOMAIN seen /\ ServedWithin(n, seen[n], Window)
    <3>1. n \in DOMAIN seen' /\ seen'[n] = Older(seen[n])
      BY <1>1, <2>4
    <3>2. \/ seen'[n] + Wait(loop'[n], place[n]) + MaxLate <= Window
          \/ \E q \in requests' : q.node = n /\ seen'[n] + q.left <= Window
      BY <2>1, <2>2, <2>3, <2>4, <3>1
    <3>3. Tended(n)'
      BY <1>1, <3>1, <3>2 DEF Tended, ServedWithin
    <3> QED BY <2>6, <3>3
  <2>5. CASE ServedWithin(n, since[n], Settle - 1)
    <3>1. since'[n] = Older(since[n])
      BY <1>1
    <3>2. \/ since'[n] + Wait(loop'[n], place[n]) + MaxLate <= Settle - 1
          \/ \E q \in requests' : q.node = n /\ since'[n] + q.left <= Settle - 1
      BY <2>1, <2>2, <2>3, <2>5, <3>1
    <3>3. Tended(n)'
      BY <1>1, <3>2 DEF Tended, ServedWithin
    <3> QED BY <2>6, <3>3
  <2> QED BY <2>1, <2>4, <2>5 DEF Tended
<1>7. ASSUME NEW n \in Nodes
      PROVE  LoopOK(loop'[n]) /\ Alive(n)'
  <2>1. CASE Running(n)
    BY <1>1, <1>5, <1>6, <2>1 DEF Alive
  <2>2. CASE ~ Running(n)
    <3>1. loop'[n] = loop[n]
      BY <1>1, <2>2 DEF Running, Ticked
    <3> QED BY <2>2, <3>1, ThisNode DEF Alive, Running
  <2> QED BY <2>1, <2>2
<1> QED BY <1>4, <1>7 DEF AliveInv

-----------------------------------------------------------------------------
\* If rounds of calls, losses and delays fit into the window as Fits says, a node that has run
\* for Settle seconds beside the server is in the active set.
THEOREM AliveNodesAreActive == Fits => (Spec => []AliveIsActive)
<1> SUFFICES ASSUME Fits PROVE Spec => []AliveIsActive
  OBVIOUS
<1>1. Init => AliveInv
  <2> SUFFICES ASSUME Init PROVE AliveInv
    OBVIOUS
  <2>1. HeartbeatInv
    BY HeartbeatInvInit
  <2>2. ASSUME NEW n \in Nodes PROVE LoopOK(loop[n]) /\ ~ Running(n)
    BY HeartbeatAssumption DEF Init, Down, LoopOK, Running
  <2> QED BY <2>1, <2>2 DEF AliveInv, Init, RequestsOK, Alive
<1>2. AliveInv /\ [Next]_vars => AliveInv'
  <2> SUFFICES ASSUME AliveInv, [Next]_vars PROVE AliveInv'
    OBVIOUS
  <2>1. HeartbeatInv'
    BY HeartbeatInvStep DEF AliveInv
  <2>2. CASE UNCHANGED vars
    <3>1. UNCHANGED <<loop, place, requests, seen, since>>
      BY <2>2 DEF vars
    <3>2. \A n \in Nodes : LoopOK(loop'[n]) /\ Alive(n)'
      BY <3>1, Untouched
    <3>3. RequestsOK' /\ place' \in [Nodes -> 1..Peers]
      BY <3>1 DEF AliveInv, RequestsOK, OldestTick, Round
    <3> QED BY <2>1, <3>2, <3>3 DEF AliveInv
  <2> QED BY <2>1, <2>2, AliveStartStop, AliveTakeTick, AliveReach, AliveReturn,
             AliveRecord, AliveRestart, AlivePass DEF Next
<1>3. AliveInv => AliveIsActive
  <2> SUFFICES ASSUME AliveInv, NEW n \in Nodes, Running(n), since[n] >= Settle
               PROVE  n \in ActiveNodes
    BY DEF AliveIsActive
  <2>1. /\ Wait(loop[n], place[n]) \in Nat /\ Tended(n) /\ since[n] \in Nat
        /\ n \in DOMAIN seen => seen[n] \in Int
    BY ThisNode
  <2>2. ASSUME NEW t \in Int, NEW limit \in Int, ServedWithin(n, t, limit)
        PROVE  t <= limit
    <3>1. CASE t + Wait(loop[n], place[n]) + MaxLate <= limit
      BY <2>1, <3>1, FitsNats
    <3>2. CASE \E r \in requests : r.node = n /\ t + r.left <= limit
      BY <3>2, FitsNats DEF AliveInv, RequestsOK
    <3> QED BY <2>2, <3>1, <3>2 DEF ServedWithin
  <2>3. ~ ServedWithin(n, since[n], Settle - 1)
    BY <2>1, <2>2, FitsNats
  <2>4. n \in DOMAIN seen /\ seen[n] <= Window
    BY <2>1, <2>2, <2>3, FitsNats DEF Tended
  <2> QED BY <2>4 DEF ActiveNodes, Contains
<1> QED BY <1>1, <1>2, <1>3, PTL DEF Spec

-----------------------------------------------------------------------------
\* Two sets of active nodes that have the quorum which /bench/activeset tells have a node
\* in common.
THEOREM QuorumsMeet ==
  ASSUME NEW S, IsFiniteSet(S), NEW A \in SUBSET S, NEW B \in SUBSET S, S # {},
         Cardinality(A) >= Quorum(Cardinality(S)), Cardinality(B) >= Quorum(Cardinality(S))
  PROVE  A \cap B # {}
<1>1. IsFiniteSet(A) /\ IsFiniteSet(B) /\ IsFiniteSet(A \cup B) /\ A \cup B \subseteq S
  BY FS_Subset, FS_Union
<1>2. /\ Cardinality(A) \in Nat /\ Cardinality(B) \in Nat /\ Cardinality(S) \in Nat
      /\ Cardinality(A \cup B) \in Nat /\ Cardinality(A \cap B) \in Nat
  BY <1>1, FS_CardinalityType, FS_Intersection
<1>3. Cardinality(S) # 0
  BY FS_EmptySet
<1>4. Cardinality(A \cup B) <= Cardinality(S)
  BY <1>1, FS_Subset
<1>5. Cardinality(A \cup B) = Cardinality(A) + Cardinality(B) - Cardinality(A \cap B)
  BY <1>1, FS_Union
<1>6. 2 * Quorum(Cardinality(S)) > Cardinality(S)
  BY <1>2, <1>3 DEF Quorum
<1>7. Quorum(Cardinality(S)) \in Nat
  BY <1>2 DEF Quorum
<1>8. Cardinality(A \cap B) # 0
  BY <1>2, <1>4, <1>5, <1>6, <1>7
<1> QED BY <1>8, FS_EmptySet
=============================================================================
