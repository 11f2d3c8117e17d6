---------------------------- MODULE TokenService ----------------------------
(* The token service of one instance and the nodes that use it over HTTP.    *)
(*                                                                           *)
(* A call goes through three stages: "sent" (the request is on its way),     *)
(* "arrived" (the handler in router.dispatch has taken now := time.Now() and *)
(* waits for in.mu) and "replied" (the operation has run, its reply is on    *)
(* its way).  A client that gives up (transport.HTTP uses a 2s timeout) does *)
(* not stop its request: the request becomes an orphan that the server may   *)
(* still serve at any later time.  A patient node is one that this never     *)
(* happens to.                                                               *)
EXTENDS Instance, FiniteSets

CONSTANTS
  Patient,      \* the nodes whose requests never outlive their calls
  MaxOrphans    \* bound: requests abandoned by their client and not yet served

ASSUME PatientAssumption == Patient \subseteq Nodes
ASSUME BoundsAssumption == MaxOrphans \in Nat /\ MaxClock \in Nat /\ MaxSeq \in Nat

VARIABLES
  call,         \* call[n]: the request node n is waiting for
  orphans,      \* the requests whose client has given up
  promise       \* promise[n]: what the last reply told patient node n

vars == <<clock, tok, seq, events, call, orphans, promise>>

-----------------------------------------------------------------------------
Idle == [stage |-> "idle"]
Sent(op) == [stage |-> "sent", op |-> op]
Arrived(op, now) == [stage |-> "arrived", op |-> op, now |-> now]
Replied(op, ok, until, epoch) ==
  [stage |-> "replied", op |-> op, ok |-> ok, until |-> until, epoch |-> epoch]

SentCalls    == [stage : {"sent"}, op : TokenOps]
ArrivedCalls == [stage : {"arrived"}, op : TokenOps, now : Nat]
RepliedCalls == [stage : {"replied"}, op : TokenOps, ok : BOOLEAN, until : Nat, epoch : Nat]
Calls        == {Idle} \cup SentCalls \cup ArrivedCalls \cup RepliedCalls
Orphans      == [node : Nodes, call : SentCalls \cup ArrivedCalls]

Promise   == [until : Nat, epoch : Nat]
NoPromise == [until |-> 0, epoch |-> 0]

-----------------------------------------------------------------------------
Init ==
  /\ clock = 1
  /\ tok = NewToken
  /\ seq = 0
  /\ events = <<>>
  /\ call = [n \in Nodes |-> Idle]
  /\ orphans = {}
  /\ promise = [n \in Patient |-> NoPromise]

Tick ==
  /\ clock < MaxClock
  /\ clock' = clock + 1
  /\ UNCHANGED <<tok, seq, events, call, orphans, promise>>

\* tokenPost builds and sends a request.  A node that asks for a release stops
\* relying on the token from then on.
Send(n, op) ==
  /\ call[n] = Idle
  /\ seq < MaxSeq
  /\ call' = [call EXCEPT ![n] = Sent(op)]
  /\ promise' = IF op = "release" /\ n \in Patient THEN [promise EXCEPT ![n].until = 0] ELSE promise
  /\ UNCHANGED <<clock, tok, seq, events, orphans>>

\* The handler has decoded the request and takes the time.
Arrive(n) ==
  /\ call[n].stage = "sent"
  /\ call' = [call EXCEPT ![n] = Arrived(call[n].op, clock)]
  /\ UNCHANGED <<clock, tok, seq, events, orphans, promise>>

Apply(n) ==
  LET c   == call[n]
      out == TokenOutcome(c.op, tok, n, c.now)
  IN  /\ c.stage = "arrived"
      /\ Operate(c.op, n, c.now)
      /\ call' = [call EXCEPT ![n] =
                    Replied(c.op, out.err = "ok", out.tok.expiresAt, out.tok.epoch)]
      /\ UNCHANGED <<clock, orphans, promise>>

\* The reply of a claim or of a renewal reaches the node.
Learn(n) ==
  LET c == call[n]
  IN  /\ c.stage = "replied"
      /\ call' = [call EXCEPT ![n] = Idle]
      /\ IF n \in Patient /\ c.op \in {"claim", "renew"}
         THEN promise' = IF c.ok
                         THEN [promise EXCEPT ![n] = [until |-> c.until, epoch |-> c.epoch]]
                         ELSE [promise EXCEPT ![n].until = 0]
         ELSE UNCHANGED promise
      /\ UNCHANGED <<clock, tok, seq, events, orphans>>

\* The connection breaks: the request or its reply is lost, the client sees an
\* error and knows nothing more than before.
Lose(n) ==
  /\ call[n].stage \in {"sent", "replied"}
  /\ call' = [call EXCEPT ![n] = Idle]
  /\ UNCHANGED <<clock, tok, seq, events, orphans, promise>>

\* The client's timeout: its request stays where it is.
GiveUp(n) ==
  /\ n \notin Patient
  /\ call[n].stage \in {"sent", "arrived"}
  /\ Cardinality(orphans) < MaxOrphans
  /\ orphans' = orphans \cup {[node |-> n, call |-> call[n]]}
  /\ call' = [call EXCEPT ![n] = Idle]
  /\ UNCHANGED <<clock, tok, seq, events, promise>>

OrphanArrive(o) ==
  /\ o.call.stage = "sent"
  /\ orphans' = (orphans \ {o})
                  \cup {[node |-> o.node, call |-> Arrived(o.call.op, clock)]}
  /\ UNCHANGED <<clock, tok, seq, events, call, promise>>

OrphanApply(o) ==
  /\ o.call.stage = "arrived"
  /\ Operate(o.call.op, o.node, o.call.now)
  /\ orphans' = orphans \ {o}
  /\ UNCHANGED <<clock, call, promise>>

NodeStep(n) ==
  \/ \E op \in TokenOps : Send(n, op)
  \/ Arrive(n) \/ Apply(n) \/ Learn(n) \/ Lose(n) \/ GiveUp(n)

Next ==
  \/ Tick
  \/ \E n \in Nodes : NodeStep(n)
  \/ \E o \in orphans : OrphanArrive(o) \/ OrphanApply(o)

Spec == Init /\ [][Next]_vars

-----------------------------------------------------------------------------
\* Every variable has its type; events are at most MaxEvents.
TypeOK ==
  /\ clock \in Nat /\ clock >= 1
  /\ tok \in State
  /\ seq \in Nat
  /\ events \in Seq(TokenEvents) /\ Len(events) <= MaxEvents
  /\ call \in [Nodes -> Calls]
  /\ orphans \subseteq Orphans
  /\ promise \in [Patient -> Promise]

LivePromise(n) == promise[n].until > clock

\* What a patient node was last told it may rely on, however late the requests of the
\* others are served: as long as that lease is alive, the instance keeps the token for
\* this node, for at least that long and under the same epoch (TokenClaim, TokenRenew
\* and expireIfNeededLocked together).
LeaseHonoured ==
  \A n \in Patient : LivePromise(n) =>
    /\ tok.holder = n
    /\ tok.expiresAt >= promise[n].until
    /\ tok.epoch = promise[n].epoch

\* Two patient nodes never both rely on the token ("per-scalefs lease-based mutual
\* exclusion", instance.go).
MutualExclusion ==
  \A m, n \in Patient : LivePromise(m) /\ LivePromise(n) => m = n

ReleaseServed(n) ==
  \/ call[n].stage = "arrived" /\ call[n].op = "release" /\ call'[n] # call[n]
  \/ \E o \in orphans \ orphans' :
       o.node = n /\ o.call.stage = "arrived" /\ o.call.op = "release"

\* Whatever the order in which handlers get in.mu, and however old the time they
\* carry, a node loses a token (or gets it anew) only when its lease has run out
\* or when a release of its own is served.
NoTheft ==
  [][\A n \in Nodes :
       tok.holder = n /\ (tok'.holder # n \/ tok'.epoch # tok.epoch)
         => tok.expiresAt <= clock \/ ReleaseServed(n)]_vars

\* To its patient nodes the service is the exclusive, fenced lease.
Contract == INSTANCE Lease
  WITH Nodes <- Patient, clock <- clock, promise <- promise
LeaseSpec == Contract!Spec
=============================================================================
