------------------------- MODULE TokenService_proofs -------------------------
(* Proofs about TokenService, for every set of nodes, lease time and bound.  *)
(* The last part is about Leadership, which reads the same token.            *)
EXTENDS TokenService, Leadership, Operators_proofs

-----------------------------------------------------------------------------
(* Types. *)

\* One operation keeps the types of the instance's state.
LEMMA OperateType ==
  ASSUME tok \in State, seq \in Nat, events \in Seq(TokenEvents), Len(events) <= MaxEvents,
         NEW op \in TokenOps, NEW n \in Nodes, NEW now \in Nat,
         Operate(op, n, now)
  PROVE  /\ tok' \in State
         /\ seq' \in Nat
         /\ events' \in Seq(TokenEvents) /\ Len(events') <= MaxEvents
<1> DEFINE out == TokenOutcome(op, tok, n, now)
           ev1 == TokenEvent(seq + 1, "expire", Cleared(tok))
           e1  == IF Lapsed(tok, now) THEN AppendEvent(events, ev1) ELSE events
           s1  == IF Lapsed(tok, now) THEN seq + 1 ELSE seq
           ev2 == TokenEvent(s1 + 1, out.action, out.tok)
<1> USE MaxEventsAssumption
<1>1. out.tok \in State /\ out.action \in {"none", "claim", "renew", "release"}
  BY OutcomeType
<1>2. Cleared(tok) \in State
  BY DEF Cleared, State, ZeroTime
<1>3. ev1 \in TokenEvents
  BY <1>2 DEF TokenEvent, TokenEvents, State
<1>4. s1 \in Nat /\ e1 \in Seq(TokenEvents) /\ Len(e1) <= MaxEvents
  BY <1>3, AppendEventProperties, MaxEventsAssumption
<1>5. out.action # "none" => ev2 \in TokenEvents
  BY <1>1, <1>4 DEF TokenEvent, TokenEvents, State
<1> HIDE DEF out, e1, s1, ev2
<1>6. out.action # "none" =>
        /\ AppendEvent(e1, ev2) \in Seq(TokenEvents)
        /\ Len(AppendEvent(e1, ev2)) <= MaxEvents
  BY <1>4, <1>5, AppendEventProperties, MaxEventsAssumption
<1>7. QED BY <1>1, <1>4, <1>6 DEF Operate, out, e1, s1, ev1, ev2

\* What a node or its call does keeps the types.
LEMMA NodeStepTypes ==
  ASSUME TypeOK, NEW n \in Nodes, NodeStep(n)
  PROVE  TypeOK'
<1> USE DEF TypeOK
<1> call[n] \in Calls
  OBVIOUS
<1>1. CASE \E op \in TokenOps : Send(n, op)
  <2> PICK op \in TokenOps : Send(n, op)
    BY <1>1
  <2>1. Sent(op) \in Calls
    BY DEF Sent, Calls, SentCalls
  <2>2. n \in Patient => [promise[n] EXCEPT !.until = 0] \in Promise
    BY DEF Promise
  <2>3. QED BY <2>1, <2>2 DEF Send
<1>2. CASE Arrive(n)
  <2>1. call[n] \in SentCalls
    BY <1>2 DEF Arrive, Calls, Idle, ArrivedCalls, RepliedCalls
  <2>2. Arrived(call[n].op, clock) \in Calls
    BY <2>1 DEF Arrived, Calls, SentCalls, ArrivedCalls
  <2>3. QED BY <1>2, <2>2 DEF Arrive
<1>3. CASE Apply(n)
  <2>1. call[n] \in ArrivedCalls
    BY <1>3 DEF Apply, Calls, Idle, SentCalls, RepliedCalls
  <2>2. call[n].op \in TokenOps /\ call[n].now \in Nat
    BY <2>1 DEF ArrivedCalls
  <2>3. TokenOutcome(call[n].op, tok, n, call[n].now).tok \in State
    BY <2>2, OutcomeType
  <2>4. call'[n] \in Calls
    BY <1>3, <2>2, <2>3 DEF Apply, Replied, Calls, RepliedCalls, State
  <2>5. call' = [call EXCEPT ![n] = call'[n]]
    BY <1>3 DEF Apply
  <2>6. Operate(call[n].op, n, call[n].now)
    BY <1>3 DEF Apply
  <2>7. QED BY <1>3, <2>2, <2>4, <2>5, <2>6, OperateType DEF Apply
<1>4. CASE Learn(n)
  <2>1. call[n] \in RepliedCalls
    BY <1>4 DEF Learn, Calls, Idle, SentCalls, ArrivedCalls
  <2>2. [until |-> call[n].until, epoch |-> call[n].epoch] \in Promise
    BY <2>1 DEF RepliedCalls, Promise
  <2>3. n \in Patient => [promise[n] EXCEPT !.until = 0] \in Promise
    BY DEF Promise
  <2>4. promise' \in [Patient -> Promise]
    BY <1>4, <2>2, <2>3 DEF Learn
  <2>5. QED BY <1>4, <2>4 DEF Learn, Calls
<1>5. CASE Lose(n)
  BY <1>5 DEF Lose, Calls
<1>6. CASE GiveUp(n)
  <2>1. call[n] \in SentCalls \cup ArrivedCalls
    BY <1>6 DEF GiveUp, Calls, Idle, RepliedCalls
  <2>2. [node |-> n, call |-> call[n]] \in Orphans
    BY <2>1 DEF Orphans
  <2>3. QED BY <1>6, <2>2 DEF GiveUp, Calls
<1>7. QED BY <1>1, <1>2, <1>3, <1>4, <1>5, <1>6 DEF NodeStep

\* So does what an orphan does.
LEMMA OrphanStepTypes ==
  ASSUME TypeOK, NEW o \in orphans, OrphanArrive(o) \/ OrphanApply(o)
  PROVE  TypeOK'
<1> USE DEF TypeOK
<1>1. CASE OrphanArrive(o)
  <2>1. o \in Orphans /\ o.call \in SentCalls
    BY <1>1 DEF OrphanArrive, Orphans, ArrivedCalls
  <2>2. [node |-> o.node, call |-> Arrived(o.call.op, clock)] \in Orphans
    BY <2>1 DEF Orphans, Arrived, SentCalls, ArrivedCalls
  <2>3. QED BY <1>1, <2>2 DEF OrphanArrive
<1>2. CASE OrphanApply(o)
  <2>1. o \in Orphans /\ o.call \in ArrivedCalls
    BY <1>2 DEF OrphanApply, Orphans, SentCalls
  <2>2. o.node \in Nodes /\ o.call.op \in TokenOps /\ o.call.now \in Nat
    BY <2>1 DEF Orphans, ArrivedCalls
  <2>3. QED BY <1>2, <2>2, OperateType DEF OrphanApply
<1> QED BY <1>1, <1>2

\* The types hold in every reachable state, however many requests are abandoned.
THEOREM TypeCorrect == Spec => []TypeOK
<1>1. Init => TypeOK
  BY EmptySeq, MaxEventsAssumption
  DEF Init, TypeOK, NewToken, State, ZeroTime, Calls, Orphans, Promise, NoPromise
<1>2. TypeOK /\ UNCHANGED vars => TypeOK'
  BY DEF TypeOK, vars
<1>3. TypeOK /\ Tick => TypeOK'
  BY DEF TypeOK, Tick
<1>4. TypeOK /\ [Next]_vars => TypeOK'
  BY <1>2, <1>3, NodeStepTypes, OrphanStepTypes DEF Next
<1> QED BY <1>1, <1>4, PTL DEF Spec

-----------------------------------------------------------------------------
(* The times that requests carry. *)

\* Handlers carry times that are past.
TimeInv ==
  /\ \A n \in Nodes : call[n].stage = "arrived" => call[n].now <= clock
  /\ \A o \in orphans : o.call.stage = "arrived" => o.call.now <= clock

\* No request and no promise is about a time ahead of the clock (see TimeInv): a
\* handler takes now before it waits for in.mu.
THEOREM TimesArePast == Spec => []TimeInv
<1>1. Init => TimeInv
  BY DEF Init, TimeInv, Idle
<1>2. TypeOK /\ TimeInv /\ [Next]_vars => TimeInv'
  <2> SUFFICES ASSUME TypeOK, TimeInv, [Next]_vars PROVE TimeInv'
    OBVIOUS
  <2>1. clock \in Nat /\ call \in [Nodes -> Calls] /\ orphans \subseteq Orphans
    BY DEF TypeOK
  <2>2. CASE Tick
    <3>1. clock' = clock + 1 /\ UNCHANGED <<call, orphans>>
      BY <2>2 DEF Tick
    <3>2. \A n \in Nodes : call[n].stage = "arrived" => call[n].now \in Nat
      BY <2>1 DEF Calls, Idle, SentCalls, ArrivedCalls, RepliedCalls
    <3>3. \A o \in orphans : o.call.stage = "arrived" => o.call.now \in Nat
      BY <2>1 DEF Orphans, SentCalls, ArrivedCalls
    <3>4. QED BY <2>1, <3>1, <3>2, <3>3 DEF TimeInv
  <2>3. ASSUME NEW n \in Nodes, NodeStep(n) PROVE TimeInv'
    <3>1. clock' = clock
      BY <2>3 DEF NodeStep, Send, Arrive, Apply, Learn, Lose, GiveUp
    <3>2. \A k \in Nodes : k # n => call'[k] = call[k]
      BY <2>1, <2>3 DEF NodeStep, Send, Arrive, Apply, Learn, Lose, GiveUp
    <3>3. call'[n].stage = "arrived" => call'[n].now = clock
      BY <2>1, <2>3 DEF NodeStep, Send, Arrive, Apply, Learn, Lose, GiveUp,
                        Sent, Arrived, Replied, Idle
    <3>4. orphans' \subseteq orphans \cup {[node |-> n, call |-> call[n]]}
      BY <2>3 DEF NodeStep, Send, Arrive, Apply, Learn, Lose, GiveUp
    <3>5. \A o \in orphans' : o.call.stage = "arrived" => o.call.now <= clock
      BY <3>4 DEF TimeInv
    <3>6. QED BY <2>1, <3>1, <3>2, <3>3, <3>5 DEF TimeInv
  <2>4. ASSUME NEW o \in orphans, OrphanArrive(o) PROVE TimeInv'
    <3>1. /\ UNCHANGED <<clock, call>>
          /\ orphans' \subseteq orphans
                 \cup {[node |-> o.node, call |-> Arrived(o.call.op, clock)]}
      BY <2>4 DEF OrphanArrive
    <3>2. Arrived(o.call.op, clock).now <= clock
      BY <2>1 DEF Arrived
    <3>3. QED BY <3>1, <3>2 DEF TimeInv
  <2>5. ASSUME NEW o \in orphans, OrphanApply(o) PROVE TimeInv'
    BY <2>5 DEF OrphanApply, TimeInv
  <2>6. CASE UNCHANGED vars
    BY <2>6 DEF vars, TimeInv
  <2>7. QED BY <2>2, <2>3, <2>4, <2>5, <2>6 DEF Next
<1>3. QED BY <1>1, <1>2, TypeCorrect, PTL DEF Spec

-----------------------------------------------------------------------------
(* Mutual exclusion of the nodes whose requests never outlive their calls.   *)

\* What it takes for "n holds the token until u under epoch e" to be honest:
\* while it is alive the instance keeps the token for n; and once somebody else
\* holds the token, its epoch is a past one.
Honest(n, u, e) ==
  /\ e <= tok.epoch
  /\ tok.holder # NoNode /\ tok.holder # n => e < tok.epoch
  /\ u > clock => tok.holder = n /\ u <= tok.expiresAt /\ e = tok.epoch

Granted(c) == c.stage = "replied" /\ c.op \in {"claim", "renew"} /\ c.ok

\* A handler that waits for in.mu carries a time that is no older than the one the
\* lease of its own node was computed from.
Timely(n) ==
  call[n].stage = "arrived" /\ tok.holder = n => tok.expiresAt <= call[n].now + LeaseTime

\* A node whose release is under way relies on nothing.
Releasing(n) ==
  call[n].stage \in {"sent", "arrived"} /\ call[n].op = "release" => promise[n].until = 0

\* The inductive invariant.  LeaseHonoured alone is not inductive: it needs the
\* same of the replies on their way, and that a renewal never moves the expiry
\* backwards (Timely).
LeaseInv ==
  /\ \A o \in orphans : o.node \notin Patient
  /\ tok.holder # NoNode => tok.expiresAt <= clock + LeaseTime
  /\ \A n \in Patient :
       /\ Honest(n, promise[n].until, promise[n].epoch)
       /\ Granted(call[n]) => Honest(n, call[n].until, call[n].epoch)
       /\ Timely(n)
       /\ Releasing(n)

\* An operation on behalf of m keeps honest what any node n was told.
LEMMA OperateKeepsHonest ==
  ASSUME tok \in State, clock \in Nat, clock' = clock,
         NEW m \in Nodes, NEW op \in TokenOps, NEW now \in Nat,
         tok' = TokenOutcome(op, tok, m, now).tok,
         now <= clock, NEW n \in Nodes,
         m = n /\ tok.holder = m => tok.expiresAt <= now + LeaseTime, NEW u \in Nat, NEW e \in Nat,
         Honest(n, u, e),
         op = "release" /\ m = n => u <= clock
  PROVE  Honest(n, u, e)'
<1> DEFINE out == TokenOutcome(op, tok, m, now)
<1>1. /\ tok.holder \in Nodes \cup {NoNode} /\ tok.epoch \in Nat /\ tok.expiresAt \in Nat
      /\ m # NoNode /\ n # NoNode /\ LeaseTime \in Nat
  BY NodesAssumption, LeaseTimeAssumption DEF State
<1>2. \/ tok' = tok
      \/ Lapsed(tok, now) /\ tok' = Cleared(tok)
      \/ (tok.holder = NoNode \/ Lapsed(tok, now)) /\ tok' = Issued(tok, m, now)
      \/ tok.holder = m /\ tok' = Extended(tok, now)
      \/ tok.holder = m /\ op = "release" /\ tok' = Cleared(tok)
  BY OutcomeCases DEF Outcome
<1>3. Lapsed(tok, now) => tok.expiresAt <= clock
  BY <1>1 DEF Lapsed, Active
<1>4. CASE tok' = tok
  BY <1>4 DEF Honest
<1>5. CASE Lapsed(tok, now) /\ tok' = Cleared(tok)
  BY <1>1, <1>3, <1>5 DEF Honest, Cleared
<1>6. CASE (tok.holder = NoNode \/ Lapsed(tok, now)) /\ tok' = Issued(tok, m, now)
  BY <1>1, <1>3, <1>6 DEF Honest, Issued
<1>7. CASE tok.holder = m /\ tok' = Extended(tok, now)
  <2>1. tok'.holder = m /\ tok'.epoch = tok.epoch /\ tok'.expiresAt = now + LeaseTime
    BY <1>7 DEF Extended, State
  <2>2. QED BY <1>1, <1>7, <2>1 DEF Honest
<1>8. CASE tok.holder = m /\ op = "release" /\ tok' = Cleared(tok)
  BY <1>1, <1>8 DEF Honest, Cleared
<1>9. QED BY <1>2, <1>4, <1>5, <1>6, <1>7, <1>8

\* A granted reply is honest when it leaves.
LEMMA GrantIsHonest ==
  ASSUME tok \in State, clock \in Nat, clock' = clock,
         NEW n \in Nodes, NEW op \in {"claim", "renew"}, NEW now \in Nat,
         tok' = TokenOutcome(op, tok, n, now).tok,
         TokenOutcome(op, tok, n, now).err = "ok"
  PROVE  Honest(n, tok.expiresAt, tok.epoch)'
<1>1. op \in TokenOps
  BY DEF TokenOps
<1>2. /\ tok.holder \in Nodes \cup {NoNode} /\ tok.epoch \in Nat /\ tok.expiresAt \in Nat
      /\ n # NoNode /\ LeaseTime \in Nat
  BY NodesAssumption, LeaseTimeAssumption DEF State
<1>3. \/ tok' = Issued(tok, n, now)
      \/ tok.holder = n /\ tok' = Extended(tok, now)
  BY <1>1, OutcomeCases DEF Outcome
<1>4. tok'.holder = n /\ tok'.expiresAt \in Nat /\ tok'.epoch \in Nat
  BY <1>2, <1>3 DEF Issued, Extended, State
<1>5. QED BY <1>4 DEF Honest

\* An operation leaves an expiry no later than its own time plus the lease, or
\* the expiry it found; and only the caller can come to hold the token.
LEMMA OperateBoundsExpiry ==
  ASSUME tok \in State, NEW n \in Nodes, NEW op \in TokenOps, NEW now \in Nat,
         tok' = TokenOutcome(op, tok, n, now).tok
  PROVE  tok'.holder # NoNode =>
           \/ tok'.holder = n /\ tok'.expiresAt = now + LeaseTime
           \/ tok'.holder = tok.holder /\ tok'.expiresAt = tok.expiresAt
<1>1. \/ tok' = tok
      \/ tok' = Cleared(tok)
      \/ tok' = Issued(tok, n, now)
      \/ tok.holder = n /\ tok' = Extended(tok, now)
  BY OutcomeCases DEF Outcome
<1>2. /\ Cleared(tok).holder = NoNode
      /\ Issued(tok, n, now).holder = n
      /\ Issued(tok, n, now).expiresAt = now + LeaseTime
  BY DEF Cleared, Issued
<1>3. /\ Extended(tok, now).holder = tok.holder
      /\ Extended(tok, now).expiresAt = now + LeaseTime
  BY DEF Extended, State
<1>4. QED BY <1>1, <1>2, <1>3

\* What an operation for one node leaves of what LeaseInv says of another.
LEMMA OthersKept ==
  ASSUME TypeOK, LeaseInv, clock' = clock,
         NEW m \in Nodes, NEW op \in TokenOps, NEW now \in Nat, now <= clock,
         tok' = TokenOutcome(op, tok, m, now).tok,
         NEW k \in Patient, k # m, call'[k] = call[k], promise' = promise
  PROVE  /\ Honest(k, promise[k].until, promise[k].epoch)'
         /\ (Granted(call[k]) => Honest(k, call[k].until, call[k].epoch))'
         /\ Timely(k)'
         /\ Releasing(k)'
<1>1. /\ clock \in Nat /\ tok \in State /\ k \in Nodes
      /\ promise[k].until \in Nat /\ promise[k].epoch \in Nat
  BY PatientAssumption DEF TypeOK, Promise
<1>2. Granted(call[k]) => call[k].until \in Nat /\ call[k].epoch \in Nat
  BY <1>1 DEF TypeOK, Granted, Calls, Idle, SentCalls, ArrivedCalls, RepliedCalls
<1>3. \A u, e \in Nat : Honest(k, u, e) => Honest(k, u, e)'
  BY <1>1, OperateKeepsHonest
<1>4. tok'.holder = k => tok.holder = k /\ tok'.expiresAt = tok.expiresAt
  BY <1>1, OperateBoundsExpiry, NodesAssumption
<1>5. Honest(k, promise[k].until, promise[k].epoch)'
  BY <1>1, <1>3 DEF LeaseInv, Honest
<1>6. (Granted(call[k]) => Honest(k, call[k].until, call[k].epoch))'
  BY <1>2, <1>3 DEF LeaseInv, Honest, Granted
<1>7. Timely(k)' /\ Releasing(k)'
  BY <1>4 DEF LeaseInv, Timely, Releasing
<1>8. QED BY <1>5, <1>6, <1>7

\* LeaseInv is an invariant, whatever the other nodes abandon.
THEOREM LeaseInvariant == Spec => []LeaseInv
<1>1. Init => LeaseInv
  BY PatientAssumption
  DEF Init, LeaseInv, Honest, Granted, Timely, Releasing, NewToken, NoPromise, Idle
<1>2. TypeOK /\ TimeInv /\ LeaseInv /\ [Next]_vars => LeaseInv'
  <2> SUFFICES ASSUME TypeOK, TimeInv, LeaseInv, [Next]_vars PROVE LeaseInv'
    OBVIOUS
  <2>1. /\ clock \in Nat /\ tok \in State /\ LeaseTime \in Nat
        /\ tok.holder \in Nodes \cup {NoNode} /\ tok.epoch \in Nat /\ tok.expiresAt \in Nat
        /\ call \in [Nodes -> Calls] /\ promise \in [Patient -> Promise]
        /\ \A k \in Patient : promise[k].until \in Nat /\ promise[k].epoch \in Nat
        /\ \A k \in Patient : k \in Nodes
    BY LeaseTimeAssumption, PatientAssumption DEF TypeOK, State, Promise
  <2>2. CASE Tick
    <3>1. /\ clock' = clock + 1 /\ clock' \in Nat
          /\ UNCHANGED <<tok, call, orphans, promise>>
      BY <2>1, <2>2 DEF Tick
    <3>2. \A k \in Patient : /\ call[k].stage = "arrived" => call[k].now \in Nat
                             /\ Granted(call[k]) => call[k].until \in Nat
      BY <2>1 DEF Granted, Calls, Idle, SentCalls, ArrivedCalls, RepliedCalls
    <3>3. tok'.holder # NoNode => tok'.expiresAt <= clock' + LeaseTime
      BY <2>1, <3>1 DEF LeaseInv
    <3>4. \A k \in Patient : Timely(k)' /\ Releasing(k)'
      BY <2>1, <3>1, <3>2 DEF LeaseInv, Timely, Releasing
    <3>5. \A k \in Patient : Honest(k, promise[k].until, promise[k].epoch)'
      BY <2>1, <3>1 DEF LeaseInv, Honest
    <3>6. \A k \in Patient : (Granted(call[k]) => Honest(k, call[k].until, call[k].epoch))'
      BY <2>1, <3>1, <3>2 DEF LeaseInv, Honest, Granted
    <3>7. QED BY <3>1, <3>3, <3>4, <3>5, <3>6 DEF LeaseInv
  <2>3. ASSUME NEW n \in Nodes, NodeStep(n) PROVE LeaseInv'
    <3>1. CASE \E op \in TokenOps : Send(n, op)
      <4> PICK op \in TokenOps : Send(n, op)
        BY <3>1
      <4>1. /\ UNCHANGED <<clock, tok, orphans>>
            /\ call' = [call EXCEPT ![n] = Sent(op)]
            /\ op # "release" \/ n \notin Patient => promise' = promise
            /\ op = "release" /\ n \in Patient => promise' = [promise EXCEPT ![n].until = 0]
        BY DEF Send
      <4>2. \A k \in Patient : /\ promise'[k].epoch = promise[k].epoch
                               /\ promise'[k].until \in {0, promise[k].until}
                               /\ k = n /\ op = "release" => promise'[k].until = 0
        BY <2>1, <4>1 DEF Promise
      <4>3. \A k \in Nodes : k # n => call'[k] = call[k]
        BY <2>1, <4>1
      <4>4. call'[n].stage = "sent" /\ call'[n].op = op
        BY <2>1, <4>1 DEF Sent
      <4>5. QED BY <2>1, <4>1, <4>2, <4>3, <4>4
            DEF LeaseInv, Honest, Granted, Timely, Releasing
    <3>2. CASE Arrive(n)
      <4>1. /\ UNCHANGED <<clock, tok, orphans, promise>>
            /\ call[n].stage = "sent"
            /\ call' = [call EXCEPT ![n] = Arrived(call[n].op, clock)]
        BY <3>2 DEF Arrive
      <4>2. \A k \in Nodes : k # n => call'[k] = call[k]
        BY <2>1, <4>1
      <4>3. call'[n].stage = "arrived" /\ call'[n].op = call[n].op /\ call'[n].now = clock
        BY <2>1, <4>1 DEF Arrived
      <4>4. QED BY <2>1, <4>1, <4>2, <4>3, NodesAssumption
            DEF LeaseInv, Honest, Granted, Timely, Releasing
    <3>3. CASE Apply(n)
      <4> DEFINE op  == call[n].op
                 now == call[n].now
                 out == TokenOutcome(op, tok, n, now)
      <4>1. /\ UNCHANGED <<clock, orphans, promise>>
            /\ call[n].stage = "arrived"
            /\ tok' = out.tok
            /\ call' = [call EXCEPT ![n] =
                           Replied(op, out.err = "ok", out.tok.expiresAt, out.tok.epoch)]
        BY <3>3 DEF Apply, Operate
      <4>2. op \in TokenOps /\ now \in Nat
        BY <2>1, <4>1 DEF Calls, Idle, SentCalls, ArrivedCalls, RepliedCalls
      <4>3. now <= clock
        BY <4>1 DEF TimeInv
      <4>4. tok' \in State
        BY <2>1, <4>1, <4>2, OutcomeType
      <4>5. \A k \in Nodes : k # n => call'[k] = call[k]
        BY <2>1, <4>1
      <4>6. /\ call'[n].stage = "replied" /\ call'[n].op = op
            /\ call'[n].ok = (out.err = "ok")
            /\ call'[n].until = tok'.expiresAt /\ call'[n].epoch = tok'.epoch
        BY <2>1, <4>1 DEF Replied
      <4>7. tok'.holder # NoNode =>
              \/ tok'.holder = n /\ tok'.expiresAt = now + LeaseTime
              \/ tok'.holder = tok.holder /\ tok'.expiresAt = tok.expiresAt
        BY <2>1, <4>1, <4>2, OperateBoundsExpiry
      <4>8. clock' = clock /\ tok' = TokenOutcome(op, tok, n, now).tok
        BY <4>1
      <4> HIDE DEF op, now, out
      <4>9. tok'.holder # NoNode => tok'.expiresAt <= clock' + LeaseTime
        BY <2>1, <4>1, <4>2, <4>3, <4>7 DEF LeaseInv
      <4>10. ASSUME NEW k \in Patient
             PROVE  /\ Honest(k, promise[k].until, promise[k].epoch)'
                    /\ (Granted(call[k]) => Honest(k, call[k].until, call[k].epoch))'
                    /\ Timely(k)'
                    /\ Releasing(k)'
        <5>1. CASE k = n
          <6>1. op = "release" => promise[n].until <= clock
            BY <2>1, <4>1, <5>1 DEF LeaseInv, Releasing, op
          <6>2. tok.holder = n => tok.expiresAt <= now + LeaseTime
            BY <4>1, <5>1 DEF LeaseInv, Timely, now
          <6>3. Honest(n, promise[n].until, promise[n].epoch)
            BY <5>1 DEF LeaseInv
          <6>4. Honest(n, promise[n].until, promise[n].epoch)'
            <7>1. \A u, e \in Nat :
                    Honest(n, u, e) /\ (op = "release" => u <= clock) => Honest(n, u, e)'
              BY <2>1, <4>2, <4>3, <4>8, <6>2, OperateKeepsHonest
            <7>2. QED BY <2>1, <4>1, <5>1, <6>1, <6>3, <7>1 DEF Honest
          <6>5. Granted(call[n])' => Honest(n, tok.expiresAt, tok.epoch)'
            <7> SUFFICES ASSUME Granted(call[n])' PROVE Honest(n, tok.expiresAt, tok.epoch)'
              OBVIOUS
            <7>1. op \in {"claim", "renew"} /\ TokenOutcome(op, tok, n, now).err = "ok"
              BY <4>6 DEF Granted, out
            <7>2. QED BY <2>1, <4>2, <4>8, <7>1, GrantIsHonest
          <6>6. Timely(n)' /\ Releasing(n)'
            BY <4>6 DEF Timely, Releasing
          <6>7. QED BY <4>6, <5>1, <6>4, <6>5, <6>6 DEF Honest
        <5>2. CASE k # n
          <6>1. call'[k] = call[k] /\ promise' = promise
            BY <2>1, <4>1, <4>5, <5>2
          <6>2. QED BY <4>2, <4>3, <4>8, <5>2, <6>1, OthersKept
        <5>3. QED BY <5>1, <5>2
      <4>11. QED BY <4>1, <4>9, <4>10 DEF LeaseInv
    <3>4. CASE Learn(n)
      <4>1. /\ UNCHANGED <<clock, tok, orphans>>
            /\ call[n].stage = "replied"
            /\ call' = [call EXCEPT ![n] = Idle]
        BY <3>4 DEF Learn
      <4>2. \A k \in Patient : k # n => call'[k] = call[k] /\ promise'[k] = promise[k]
        BY <2>1, <3>4, <4>1 DEF Learn
      <4>3. call'[n].stage = "idle"
        BY <2>1, <4>1 DEF Idle
      <4>4. n \in Patient =>
            \/ promise'[n].until = call[n].until /\ promise'[n].epoch = call[n].epoch
               /\ Granted(call[n])
            \/ promise'[n].until = 0 /\ promise'[n].epoch = promise[n].epoch
            \/ promise'[n] = promise[n]
        <5>1. CASE call[n].op \in {"claim", "renew"} /\ call[n].ok
          BY <2>1, <3>4, <5>1 DEF Learn, Granted
        <5>2. CASE call[n].op \in {"claim", "renew"} /\ ~ call[n].ok
          BY <2>1, <3>4, <5>2 DEF Learn, Promise
        <5>3. CASE call[n].op \notin {"claim", "renew"}
          BY <2>1, <3>4, <5>3 DEF Learn
        <5>4. QED BY <5>1, <5>2, <5>3
      <4>5. n \in Patient => Honest(n, promise[n].until, promise[n].epoch)'
        BY <2>1, <4>1, <4>4 DEF LeaseInv, Honest
      <4>6. QED BY <2>1, <4>1, <4>2, <4>3, <4>5
            DEF LeaseInv, Honest, Granted, Timely, Releasing
    <3>5. CASE Lose(n)
      <4>1. /\ UNCHANGED <<clock, tok, orphans, promise>>
            /\ call' = [call EXCEPT ![n] = Idle]
        BY <3>5 DEF Lose
      <4>2. \A k \in Nodes : call'[k] = call[k] \/ call'[k].stage = "idle"
        BY <2>1, <4>1 DEF Idle
      <4>3. QED BY <2>1, <4>1, <4>2 DEF LeaseInv, Honest, Granted, Timely, Releasing
    <3>6. CASE GiveUp(n)
      <4>1. /\ UNCHANGED <<clock, tok, promise>>
            /\ n \notin Patient
            /\ orphans' = orphans \cup {[node |-> n, call |-> call[n]]}
            /\ call' = [call EXCEPT ![n] = Idle]
        BY <3>6 DEF GiveUp
      <4>2. \A k \in Patient : call'[k] = call[k]
        BY <2>1, <4>1
      <4>3. \A o \in orphans' : o.node \notin Patient
        BY <4>1 DEF LeaseInv
      <4>4. QED BY <2>1, <4>1, <4>2, <4>3 DEF LeaseInv, Honest, Granted, Timely, Releasing
    <3>7. QED BY <2>3, <3>1, <3>2, <3>3, <3>4, <3>5, <3>6 DEF NodeStep
  <2>4. ASSUME NEW o \in orphans, OrphanArrive(o) PROVE LeaseInv'
    <3>1. /\ UNCHANGED <<clock, tok, call, promise>>
          /\ orphans' \subseteq orphans
                 \cup {[node |-> o.node, call |-> Arrived(o.call.op, clock)]}
      BY <2>4 DEF OrphanArrive
    <3>2. \A p \in orphans' : p.node \notin Patient
      BY <3>1 DEF LeaseInv
    <3>3. QED BY <3>1, <3>2 DEF LeaseInv, Honest, Granted, Timely, Releasing
  <2>5. ASSUME NEW o \in orphans, OrphanApply(o) PROVE LeaseInv'
    <3>1. /\ UNCHANGED <<clock, call, promise>>
          /\ orphans' \subseteq orphans
          /\ o.call.stage = "arrived"
          /\ tok' = TokenOutcome(o.call.op, tok, o.node, o.call.now).tok
      BY <2>5 DEF OrphanApply, Operate
    <3>2. o.node \in Nodes \ Patient /\ o.call.op \in TokenOps /\ o.call.now \in Nat
      BY <3>1 DEF TypeOK, LeaseInv, Orphans, SentCalls, ArrivedCalls
    <3>3. o.call.now <= clock
      BY <3>1 DEF TimeInv
    <3>4. tok'.holder # NoNode =>
            \/ tok'.holder = o.node /\ tok'.expiresAt = o.call.now + LeaseTime
            \/ tok'.holder = tok.holder /\ tok'.expiresAt = tok.expiresAt
      BY <2>1, <3>1, <3>2, OperateBoundsExpiry
    <3>5. tok'.holder # NoNode => tok'.expiresAt <= clock' + LeaseTime
      BY <2>1, <3>1, <3>2, <3>3, <3>4 DEF LeaseInv
    <3>6. ASSUME NEW k \in Patient
          PROVE  /\ Honest(k, promise[k].until, promise[k].epoch)'
                 /\ (Granted(call[k]) => Honest(k, call[k].until, call[k].epoch))'
                 /\ Timely(k)'
                 /\ Releasing(k)'
      <4>1. k # o.node /\ call'[k] = call[k] /\ promise' = promise
        BY <3>1, <3>2
      <4>2. QED BY <3>1, <3>2, <3>3, <4>1, OthersKept
    <3>7. QED BY <3>1, <3>5, <3>6 DEF LeaseInv
  <2>6. CASE UNCHANGED vars
    BY <2>6 DEF vars, LeaseInv, Honest, Granted, Timely, Releasing
  <2>7. QED BY <2>2, <2>3, <2>4, <2>5, <2>6 DEF Next
<1>3. QED BY <1>1, <1>2, TypeCorrect, TimesArePast, PTL DEF Spec

\* What a patient node was told it may rely on (see LeaseHonoured), for every set of
\* nodes, lease time and interleaving, however late the others' requests are served.
THEOREM LeasesAreHonoured == Spec => []LeaseHonoured
<1>1. TypeOK /\ LeaseInv => LeaseHonoured
  <2> SUFFICES ASSUME TypeOK, LeaseInv, NEW n \in Patient, LivePromise(n)
               PROVE  /\ tok.holder = n
                      /\ tok.expiresAt >= promise[n].until
                      /\ tok.epoch = promise[n].epoch
    BY DEF LeaseHonoured
  <2>1. promise[n].until \in Nat /\ tok.expiresAt \in Nat
    BY DEF TypeOK, Promise, State
  <2>2. QED BY <2>1 DEF LeaseInv, Honest, LivePromise
<1>2. QED BY <1>1, LeaseInvariant, TypeCorrect, PTL

\* Two patient nodes never both rely on the token, under the same hypothesis.
THEOREM MutualExclusionHolds == Spec => []MutualExclusion
<1>1. LeaseHonoured => MutualExclusion
  BY DEF LeaseHonoured, MutualExclusion
<1>2. QED BY <1>1, LeasesAreHonoured, PTL

\* To its patient nodes the service implements the abstract exclusive, fenced lease,
\* whatever the others abandon: a reply that arrives is a Learn or a Forget, a release that is
\* sent is a Forget, and every other step of the service is hidden.
THEOREM ImplementsLease == Spec => LeaseSpec
<1>1. Init => Contract!Init
  BY DEF Init, Contract!Init, NoPromise, Contract!NoPromise
<1>2. TypeOK /\ LeaseInv /\ [Next]_vars => [Contract!Next]_(Contract!vars)
  <2> SUFFICES ASSUME TypeOK, LeaseInv, [Next]_vars
               PROVE  Contract!Next \/ UNCHANGED <<clock, promise>>
    BY DEF Contract!vars
  <2>1. /\ clock \in Nat /\ tok \in State
        /\ call \in [Nodes -> Calls] /\ promise \in [Patient -> Promise]
        /\ \A m \in Patient : m # NoNode
    BY NodesAssumption, PatientAssumption DEF TypeOK
  <2>2. CASE Tick
    BY <2>1, <2>2 DEF Tick, Contract!Next, Contract!Advance
  <2>3. ASSUME NEW n \in Nodes, NodeStep(n)
        PROVE  Contract!Next \/ UNCHANGED <<clock, promise>>
    <3>1. CASE \E op \in TokenOps : Send(n, op)
      BY <3>1 DEF Send, Contract!Next, Contract!Forget
    <3>2. CASE Learn(n)
      <4> DEFINE c == call[n]
      <4>1. CASE n \in Patient /\ c.op \in {"claim", "renew"} /\ c.ok
        <5> DEFINE p == [until |-> c.until, epoch |-> c.epoch]
        <5>1. UNCHANGED clock /\ promise' = [promise EXCEPT ![n] = p]
          BY <3>2, <4>1 DEF Learn
        <5>2. promise'[n] = p
          BY <2>1, <4>1, <5>1
        <5>3. c.until \in Nat /\ c.epoch \in Nat
          BY <2>1, <3>2 DEF Learn, Calls, Idle, SentCalls, ArrivedCalls, RepliedCalls
        <5>4. Honest(n, c.until, c.epoch)
          BY <3>2, <4>1 DEF Learn, LeaseInv, Granted
        <5>5. \A m \in Patient \ {n} :
                \/ c.until > clock  /\ ~ Contract!Live(m) /\ promise[m].epoch < c.epoch
                \/ c.until <= clock /\ (Contract!Live(m) => c.epoch < promise[m].epoch)
          <6> SUFFICES ASSUME NEW m \in Patient, m # n
                       PROVE  \/ /\ c.until > clock
                                 /\ ~ Contract!Live(m) /\ promise[m].epoch < c.epoch
                              \/ /\ c.until <= clock
                                 /\ Contract!Live(m) => c.epoch < promise[m].epoch
            OBVIOUS
          <6>1. Honest(m, promise[m].until, promise[m].epoch)
            BY DEF LeaseInv
          <6>2. m # NoNode /\ n # NoNode
            BY <2>1, <4>1
          <6>3. QED BY <2>1, <5>3, <5>4, <6>1, <6>2 DEF Honest, Contract!Live
        <5>6. p \in Contract!Promise /\ p.until = c.until /\ p.epoch = c.epoch
          BY <5>3 DEF Contract!Promise
        <5>7. n \in Patient
          BY <4>1
        <5> HIDE DEF p, c
        <5>8. Contract!Learn(n)
          BY <5>1, <5>2, <5>5, <5>6 DEF Contract!Learn
        <5>9. QED BY <5>7, <5>8 DEF Contract!Next
      <4>2. CASE n \in Patient /\ c.op \in {"claim", "renew"} /\ ~ c.ok
        BY <3>2, <4>2 DEF Learn, Contract!Next, Contract!Forget
      <4>3. CASE n \notin Patient \/ c.op \notin {"claim", "renew"}
        BY <3>2, <4>3 DEF Learn
      <4>4. QED BY <4>1, <4>2, <4>3
    <3>3. CASE Arrive(n) \/ Apply(n) \/ Lose(n) \/ GiveUp(n)
      BY <3>3 DEF Arrive, Apply, Lose, GiveUp
    <3>4. QED BY <2>3, <3>1, <3>2, <3>3 DEF NodeStep
  <2>4. CASE UNCHANGED vars \/ \E o \in orphans : OrphanArrive(o) \/ OrphanApply(o)
    <3> UNCHANGED <<clock, promise>>
      BY <2>4 DEF vars, OrphanArrive, OrphanApply
    <3> QED OBVIOUS
  <2> QED BY <2>2, <2>3, <2>4 DEF Next
<1>3. QED BY <1>1, <1>2, TypeCorrect, LeaseInvariant, PTL DEF Spec, LeaseSpec, Contract!Spec

\* The abstract lease is what it claims to be: of two nodes with a promise that is alive
\* there is one, and its epoch is above every other's.
THEOREM LeaseIsExclusive == LeaseSpec => [](Contract!Exclusive /\ Contract!Fenced)
<1> DEFINE Promised == clock \in Nat /\ promise \in [Patient -> Contract!Promise]
           Inv      == Promised /\ Contract!Fenced
<1>1. Contract!Init => Inv
  BY DEF Contract!Init, Contract!NoPromise, Contract!Promise, Contract!Fenced, Contract!Live
<1>2. Inv /\ [Contract!Next]_(Contract!vars) => Inv'
  <2> SUFFICES ASSUME Inv, [Contract!Next]_(Contract!vars) PROVE Inv'
    OBVIOUS
  <2>1. \A n \in Patient : promise[n].until \in Nat /\ promise[n].epoch \in Nat
    BY DEF Contract!Promise
  <2>2. ASSUME NEW n \in Patient, Contract!Forget(n) PROVE Inv'
    <3>1. promise' = [promise EXCEPT ![n].until = 0] /\ clock' = clock
      BY <2>2 DEF Contract!Forget
    <3>2. [promise[n] EXCEPT !.until = 0] \in Contract!Promise
      BY DEF Contract!Promise
    <3>3. promise' \in [Patient -> Contract!Promise]
      BY <3>1, <3>2
    <3>4. \A m \in Patient : /\ promise'[m].epoch = promise[m].epoch
                             /\ promise'[m].until \in {0, promise[m].until}
      BY <3>1 DEF Contract!Promise
    <3>5. QED BY <2>1, <3>1, <3>3, <3>4 DEF Contract!Fenced, Contract!Live
  <2>3. ASSUME NEW n \in Patient, Contract!Learn(n) PROVE Inv'
    <3>1. /\ promise'[n] \in Contract!Promise
          /\ promise' = [promise EXCEPT ![n] = promise'[n]] /\ clock' = clock
          /\ \A m \in Patient \ {n} :
               \/ /\ promise'[n].until > clock
                  /\ ~ Contract!Live(m) /\ promise[m].epoch < promise'[n].epoch
               \/ /\ promise'[n].until <= clock
                  /\ Contract!Live(m) => promise'[n].epoch < promise[m].epoch
      BY <2>3 DEF Contract!Learn
    <3>2. promise' \in [Patient -> Contract!Promise]
      BY <3>1
    <3>3. \A m \in Patient \ {n} : promise'[m] = promise[m]
      BY <3>1
    <3>4. promise'[n].until \in Nat
      BY <3>1 DEF Contract!Promise
    <3>5. QED BY <2>1, <3>1, <3>2, <3>3, <3>4 DEF Contract!Fenced, Contract!Live
  <2>4. CASE Contract!Advance
    BY <2>1, <2>4 DEF Contract!Advance, Contract!Fenced, Contract!Live
  <2>5. CASE UNCHANGED Contract!vars
    BY <2>5 DEF Contract!vars, Contract!Fenced, Contract!Live
  <2>6. QED BY <2>2, <2>3, <2>4, <2>5 DEF Contract!Next
<1>3. Inv => Contract!Exclusive /\ Contract!Fenced
  <2> SUFFICES ASSUME Inv, NEW m \in Patient, NEW n \in Patient,
                      Contract!Live(m), Contract!Live(n), m # n
               PROVE  FALSE
    BY DEF Contract!Exclusive
  <2>1. promise[m].epoch < promise[n].epoch /\ promise[n].epoch < promise[m].epoch
    BY DEF Contract!Fenced
  <2>2. QED BY <2>1 DEF Contract!Promise
<1>4. QED BY <1>1, <1>2, <1>3, PTL DEF LeaseSpec, Contract!Spec

-----------------------------------------------------------------------------
(* What holds of every node. *)

\* One operation takes a token from its holder only after its lease or for its
\* own release.
LEMMA OperateTakesFairly ==
  ASSUME tok \in State, clock \in Nat,
         NEW m \in Nodes, NEW op \in TokenOps, NEW now \in Nat, now <= clock,
         Operate(op, m, now),
         NEW n \in Nodes, tok.holder = n, tok'.holder # n \/ tok'.epoch # tok.epoch
  PROVE  tok.expiresAt <= clock \/ (m = n /\ op = "release")
<1>1. tok' = TokenOutcome(op, tok, m, now).tok
  BY DEF Operate
<1>2. \/ tok' = tok
      \/ Lapsed(tok, now)
      \/ tok.holder = NoNode
      \/ tok.holder = m /\ tok' = Extended(tok, now)
      \/ tok.holder = m /\ op = "release"
  BY <1>1, OutcomeCases DEF Outcome
<1>3. Extended(tok, now).holder = tok.holder /\ Extended(tok, now).epoch = tok.epoch
  BY DEF Extended, State
<1>4. Lapsed(tok, now) => tok.expiresAt <= clock
  BY DEF Lapsed, Active, State
<1>5. QED BY <1>2, <1>3, <1>4, NodesAssumption

\* No request, timely or late, takes a live lease from another node (see
\* NoTheft), for every bound on the abandoned requests.
THEOREM NoTheftHolds == Spec => NoTheft
<1>1. ASSUME TypeOK, TimeInv, [Next]_vars, NEW n \in Nodes,
             tok.holder = n, tok'.holder # n \/ tok'.epoch # tok.epoch
      PROVE  tok.expiresAt <= clock \/ ReleaseServed(n)
  <2>1. /\ clock \in Nat /\ tok \in State
        /\ call \in [Nodes -> Calls] /\ orphans \subseteq Orphans
    BY <1>1 DEF TypeOK
  <2>2. \/ \E m \in Nodes : Apply(m)
        \/ \E o \in orphans : OrphanApply(o)
    BY <1>1 DEF Next, NodeStep, vars, Tick, Send, Arrive, Learn, Lose, GiveUp, OrphanArrive
  <2>3. ASSUME NEW m \in Nodes, Apply(m) PROVE tok.expiresAt <= clock \/ ReleaseServed(n)
    <3>1. /\ call[m].stage = "arrived" /\ Operate(call[m].op, m, call[m].now)
          /\ call'[m].stage = "replied"
      BY <2>1, <2>3 DEF Apply, Replied
    <3>2. call[m].op \in TokenOps /\ call[m].now \in Nat
      BY <2>1, <3>1 DEF Calls, Idle, SentCalls, ArrivedCalls, RepliedCalls
    <3>3. call[m].now <= clock
      BY <1>1, <3>1 DEF TimeInv
    <3>4. tok.expiresAt <= clock \/ (m = n /\ call[m].op = "release")
      BY <1>1, <2>1, <3>1, <3>2, <3>3, OperateTakesFairly
    <3>5. QED BY <3>1, <3>4 DEF ReleaseServed
  <2>4. ASSUME NEW o \in orphans, OrphanApply(o)
        PROVE  tok.expiresAt <= clock \/ ReleaseServed(n)
    <3>1. /\ o.call.stage = "arrived" /\ Operate(o.call.op, o.node, o.call.now)
          /\ o \notin orphans'
      BY <2>4 DEF OrphanApply
    <3>2. o.node \in Nodes /\ o.call.op \in TokenOps /\ o.call.now \in Nat
      BY <2>1, <3>1 DEF Orphans, SentCalls, ArrivedCalls
    <3>3. o.call.now <= clock
      BY <1>1, <3>1 DEF TimeInv
    <3>4. tok.expiresAt <= clock \/ (o.node = n /\ o.call.op = "release")
      BY <1>1, <2>1, <3>1, <3>2, <3>3, OperateTakesFairly
    <3>5. QED BY <3>1, <3>4 DEF ReleaseServed
  <2>5. QED BY <2>2, <2>3, <2>4
<1>2. TypeOK /\ TimeInv /\ [Next]_vars =>
        [\A n \in Nodes : tok.holder = n /\ (tok'.holder # n \/ tok'.epoch # tok.epoch)
            => tok.expiresAt <= clock \/ ReleaseServed(n)]_vars
  BY <1>1
<1>3. QED BY <1>2, TypeCorrect, TimesArePast, PTL DEF Spec, NoTheft

-----------------------------------------------------------------------------
(* Who leads the instance. *)

\* A request for the leader that is under way.
Requests == [stage : {"asking"}, since : Nat, floor : Nat, quiet : BOOLEAN,
             holders : SUBSET (Nodes \cup {NoNode}), epochs : SUBSET Nat, end : Nat]

\* The values of the variables.
TypesOK ==
  /\ clock \in Nat
  /\ tok \in State
  /\ ask \in [Clients -> {Resting} \cup Requests]
  /\ known \in Nat
  /\ told \subseteq [holder : Nodes \cup {NoNode}, epoch : Nat]

\* What a request may read of the epoch is not older than what anybody was told
\* before it came.
ReadsOK ==
  \A c \in Clients : ask[c] # Resting =>
    /\ ask[c].since <= clock
    /\ ask[c].floor <= tok.epoch
    /\ \A e \in ask[c].epochs : ask[c].floor <= e /\ e <= tok.epoch

\* Without a write since the request has touched the instance, it reads the token
\* as it is.
QuietOK ==
  \A c \in Clients : ask[c] # Resting /\ ask[c].quiet =>
    /\ ask[c].holders = {tok.holder}
    /\ ask[c].epochs = {tok.epoch}
    /\ ask[c].end = tok.expiresAt

\* Quiet answers are about this epoch or earlier ones, and about its holder.
ToldOK ==
  \A a \in told :
    /\ a.epoch <= tok.epoch
    /\ a.epoch = tok.epoch /\ a.holder # NoNode /\ tok.holder # NoNode => a.holder = tok.holder

\* The inductive invariant.
LeaderInv ==
  /\ TypesOK /\ known <= tok.epoch
  /\ ReadsOK /\ QuietOK /\ ToldOK /\ OneLeaderPerEpoch

\* Who is not resting is asking.
LEMMA Asks ==
  ASSUME TypesOK, NEW c \in Clients, ask[c] # Resting
  PROVE  ask[c] \in Requests
BY DEF TypesOK

\* The fields of a request.
LEMMA RequestFields ==
  ASSUME NEW r \in Requests
  PROVE  /\ r # Resting
         /\ r.since \in Nat /\ r.floor \in Nat /\ r.quiet \in BOOLEAN
         /\ r.holders \in SUBSET (Nodes \cup {NoNode}) /\ r.epochs \in SUBSET Nat /\ r.end \in Nat
BY DEF Requests, Resting

\* A new instance has a token.
LEMMA NewTokenType ==
  NewToken \in State
BY DEF NewToken, State, ZeroTime

\* At first nobody has asked.
LEMMA LeaderInit ==
  LeadInit => LeaderInv
<1> SUFFICES ASSUME LeadInit PROVE LeaderInv
  OBVIOUS
<1>1. \A c \in Clients : ask[c] = Resting
  BY DEF LeadInit
<1>2. TypesOK
  BY NewTokenType DEF LeadInit, TypesOK
<1>3. known <= tok.epoch
  BY DEF LeadInit, NewToken
<1>4. ReadsOK /\ QuietOK
  BY <1>1 DEF ReadsOK, QuietOK
<1>5. ToldOK /\ OneLeaderPerEpoch
  BY DEF LeadInit, ToldOK, OneLeaderPerEpoch
<1>6. QED BY <1>2, <1>3, <1>4, <1>5 DEF LeaderInv

\* A token operation keeps the epoch or raises it by one; in the same epoch the
\* holder stays or leaves.
LEMMA TokenStep ==
  ASSUME LeaderInv, NEW n \in Nodes, NEW op \in TokenOps, NEW now \in 1..clock,
         TokenRequest(n, op, now)
  PROVE  /\ tok' \in State
         /\ \/ tok'.epoch = tok.epoch /\ tok'.holder \in {tok.holder, NoNode}
            \/ tok'.epoch = tok.epoch + 1
<1> DEFINE out == TokenOutcome(op, tok, n, now)
<1>1. now \in Nat /\ tok \in State
  BY DEF LeaderInv, TypesOK
<1>2. tok' = out.tok
  BY DEF TokenRequest
<1>3. tok' \in State
  BY <1>1, <1>2, OutcomeType
<1>4. \/ out.tok.epoch = tok.epoch /\ out.tok.holder \in {tok.holder, NoNode}
      \/ out.tok.epoch = tok.epoch + 1
  <2>1. /\ Cleared(tok).epoch = tok.epoch /\ Cleared(tok).holder = NoNode
        /\ Issued(tok, n, now).epoch = tok.epoch + 1
        /\ Extended(tok, now).epoch = tok.epoch /\ Extended(tok, now).holder = tok.holder
    BY <1>1 DEF Cleared, Issued, Extended, State
  <2> HIDE DEF out
  <2>2. QED BY <1>1, <2>1, OutcomeCases DEF Outcome, out
<1>5. QED BY <1>2, <1>3, <1>4

\* A token operation, which all requests under way may read from then on.
LEMMA LeaderToken ==
  ASSUME LeaderInv, NEW n \in Nodes, NEW op \in TokenOps, NEW now \in 1..clock,
         TokenRequest(n, op, now)
  PROVE  LeaderInv'
<1> DEFINE t == ExpireIfNeeded(tok, now)
<1>0. /\ TypesOK /\ known <= tok.epoch /\ ReadsOK /\ QuietOK /\ ToldOK /\ OneLeaderPerEpoch
      /\ UNCHANGED <<clock, known, told>>
      /\ ask' = [c \in Clients |-> Overwritten(ask[c], t, tok')]
  BY DEF LeaderInv, TokenRequest
<1>1. /\ tok \in State /\ tok' \in State
      /\ tok.epoch \in Nat /\ tok'.epoch \in Nat /\ known \in Nat /\ clock \in Nat
  BY <1>0, TokenStep DEF TypesOK, State
<1>2. \/ tok'.epoch = tok.epoch /\ tok'.holder \in {tok.holder, NoNode}
      \/ tok'.epoch = tok.epoch + 1
  BY TokenStep
<1>3. t \in State /\ t.epoch = tok.epoch
  BY <1>1 DEF ExpireIfNeeded, Cleared, State, ZeroTime
<1> HIDE DEF t
<1>4. ASSUME NEW c \in Clients
      PROVE  IF ask[c] = Resting THEN ask'[c] = Resting
             ELSE /\ ask'[c] \in Requests
                  /\ ask'[c].since = ask[c].since /\ ask'[c].floor = ask[c].floor
                  /\ ask'[c].quiet = FALSE
                  /\ ask'[c].epochs = ask[c].epochs \cup {tok.epoch, tok'.epoch}
  <2>1. ask'[c] = Overwritten(ask[c], t, tok')
    BY <1>0
  <2>2. CASE ask[c] = Resting
    BY <2>1, <2>2 DEF Overwritten
  <2>3. CASE ask[c] # Resting
    <3>1. ask[c] \in Requests
      BY <1>0, <2>3, Asks
    <3>2. {t.holder, tok'.holder} \subseteq Nodes \cup {NoNode} /\ {t.epoch, tok'.epoch} \subseteq Nat
      BY <1>1, <1>3 DEF State
    <3>3. ask'[c] = [ask[c] EXCEPT !.quiet = FALSE, !.holders = @ \cup {t.holder, tok'.holder},
                                   !.epochs = @ \cup {t.epoch, tok'.epoch}]
      BY <2>1, <2>3 DEF Overwritten
    <3>4. ask'[c] = [stage |-> "asking", since |-> ask[c].since, floor |-> ask[c].floor,
                     quiet |-> FALSE, holders |-> ask[c].holders \cup {t.holder, tok'.holder},
                     epochs |-> ask[c].epochs \cup {t.epoch, tok'.epoch}, end |-> ask[c].end]
      BY <3>1, <3>3 DEF Requests
    <3>5. ask[c].holders \cup {t.holder, tok'.holder} \in SUBSET (Nodes \cup {NoNode})
          /\ ask[c].epochs \cup {t.epoch, tok'.epoch} \in SUBSET Nat
      BY <3>1, <3>2, RequestFields
    <3>6. ask'[c] \in Requests
      BY <3>1, <3>4, <3>5, RequestFields DEF Requests
    <3>7. QED BY <1>3, <2>3, <3>4, <3>6
  <2>4. QED BY <2>2, <2>3
<1>5. TypesOK'
  <2>1. ask' \in [Clients -> {Resting} \cup Requests]
    BY <1>0, <1>4
  <2>2. QED BY <1>0, <1>1, <2>1 DEF TypesOK
<1>6. known' <= tok'.epoch
  BY <1>0, <1>1, <1>2
<1>7. ReadsOK'
  <2> SUFFICES ASSUME NEW c \in Clients, ask'[c] # Resting
               PROVE  /\ ask'[c].since <= clock'
                      /\ ask'[c].floor <= tok'.epoch
                      /\ \A e \in ask'[c].epochs : ask'[c].floor <= e /\ e <= tok'.epoch
    BY DEF ReadsOK
  <2>1. ask[c] # Resting /\ ask[c] \in Requests
    BY <1>0, <1>4, Asks
  <2>2. ask[c].since <= clock /\ ask[c].floor <= tok.epoch
        /\ \A e \in ask[c].epochs : ask[c].floor <= e /\ e <= tok.epoch
    BY <1>0, <2>1 DEF ReadsOK
  <2>3. ask[c].floor \in Nat /\ ask[c].epochs \subseteq Nat
    BY <2>1, RequestFields
  <2>4. /\ ask'[c].since = ask[c].since /\ ask'[c].floor = ask[c].floor
        /\ ask'[c].epochs = ask[c].epochs \cup {tok.epoch, tok'.epoch}
    BY <1>4, <2>1
  <2>5. ask[c].floor <= tok'.epoch /\ tok.epoch <= tok'.epoch
    BY <1>1, <1>2, <2>2, <2>3
  <2>6. \A e \in ask'[c].epochs : ask[c].floor <= e /\ e <= tok'.epoch
    BY <1>1, <2>2, <2>3, <2>4, <2>5
  <2>7. QED BY <1>0, <2>2, <2>4, <2>5, <2>6
<1>8. QuietOK'
  BY <1>4 DEF QuietOK
<1>9. ToldOK'
  <2> SUFFICES ASSUME NEW a \in told
               PROVE  /\ a.epoch <= tok'.epoch
                      /\ a.epoch = tok'.epoch /\ a.holder # NoNode /\ tok'.holder # NoNode
                           => a.holder = tok'.holder
    BY <1>0 DEF ToldOK
  <2>1. a.epoch \in Nat
    BY <1>0 DEF TypesOK
  <2>2. /\ a.epoch <= tok.epoch
        /\ a.epoch = tok.epoch /\ a.holder # NoNode /\ tok.holder # NoNode => a.holder = tok.holder
    BY <1>0 DEF ToldOK
  <2>3. QED BY <1>1, <1>2, <2>1, <2>2
<1>10. OneLeaderPerEpoch'
  BY <1>0 DEF OneLeaderPerEpoch
<1>11. QED BY <1>5, <1>6, <1>7, <1>8, <1>9, <1>10 DEF LeaderInv

\* A request comes, and GetOrCreate touches the instance.
LEMMA LeaderTouch ==
  ASSUME LeaderInv, NEW c \in Clients, Touch(c)
  PROVE  LeaderInv'
<1> DEFINE r == Asking(clock, known, tok)
<1>0. /\ TypesOK /\ known <= tok.epoch /\ ReadsOK /\ QuietOK /\ ToldOK /\ OneLeaderPerEpoch
      /\ UNCHANGED <<clock, tok, known, told>>
      /\ ask' = [ask EXCEPT ![c] = r]
  BY DEF LeaderInv, Touch
<1>1. tok.epoch \in Nat /\ tok.expiresAt \in Nat /\ tok.holder \in Nodes \cup {NoNode}
      /\ known \in Nat /\ clock \in Nat
  BY <1>0 DEF TypesOK, State
<1>2. /\ r \in Requests /\ r.since = clock /\ r.floor = known /\ r.quiet = TRUE
      /\ r.holders = {tok.holder} /\ r.epochs = {tok.epoch} /\ r.end = tok.expiresAt
  BY <1>1 DEF Asking, Requests
<1> HIDE DEF r
<1>3. TypesOK'
  BY <1>0, <1>2 DEF TypesOK
<1>4. \A d \in Clients : ask'[d] = IF d = c THEN r ELSE ask[d]
  BY <1>0 DEF TypesOK
<1>5. ReadsOK'
  BY <1>0, <1>1, <1>2, <1>4 DEF ReadsOK
<1>6. QuietOK'
  BY <1>0, <1>2, <1>4 DEF QuietOK
<1>7. ToldOK' /\ OneLeaderPerEpoch' /\ known' <= tok'.epoch
  BY <1>0 DEF ToldOK, OneLeaderPerEpoch
<1>8. QED BY <1>3, <1>5, <1>6, <1>7 DEF LeaderInv

\* It is answered by both roles: both epochs are among those the fields have had
\* since.
LEMMA LeaderReply ==
  ASSUME LeaderInv, NEW c \in Clients, Reply(c)
  PROVE  LeaderInv'
<1>0. /\ TypesOK /\ known <= tok.epoch /\ ReadsOK /\ QuietOK /\ ToldOK /\ OneLeaderPerEpoch
      /\ UNCHANGED <<clock, tok>> /\ ask[c] # Resting
      /\ ask' = [ask EXCEPT ![c] = Resting]
  BY DEF LeaderInv, Reply
<1>01. PICK now \in ask[c].since..clock :
         \E rep \in [Roles -> Answers(ask[c], now)] :
           /\ known' = Max({known} \cup {rep[role].epoch : role \in Roles})
           /\ told' = IF ask[c].quiet THEN told \cup {rep[role] : role \in Roles} ELSE told
  BY DEF Reply
<1>1. PICK rep \in [Roles -> Answers(ask[c], now)] :
        /\ known' = Max({known} \cup {rep[role].epoch : role \in Roles})
        /\ told' = IF ask[c].quiet THEN told \cup {rep[role] : role \in Roles} ELSE told
  BY <1>01
<1>2. ask[c] \in Requests
  BY <1>0, Asks
<1>3. /\ ask[c].since \in Nat /\ ask[c].floor \in Nat /\ ask[c].quiet \in BOOLEAN
      /\ ask[c].epochs \in SUBSET Nat /\ ask[c].end \in Nat
      /\ tok.epoch \in Nat /\ known \in Nat /\ clock \in Nat
      /\ tok.holder \in Nodes \cup {NoNode}
  BY <1>0, <1>2, RequestFields DEF TypesOK, State
<1>4. \A role \in Roles : rep[role].epoch \in ask[c].epochs
                          /\ rep[role].holder \in Holders(ask[c], now)
                          /\ rep[role] = [holder |-> rep[role].holder, epoch |-> rep[role].epoch]
  BY <1>1 DEF Answers
<1>5. \A d \in Clients : ask'[d] = IF d = c THEN Resting ELSE ask[d]
  BY <1>0 DEF TypesOK
<1>6. known' \in Nat /\ known' <= tok.epoch
  <2> DEFINE S == {known} \cup {rep[role].epoch : role \in Roles}
  <2>1. S = {known, rep["logistics"].epoch, rep["benchmark"].epoch}
    BY DEF Roles
  <2>2. \A e \in S : e \in Nat /\ e <= tok.epoch
    BY <1>0, <1>3, <1>4 DEF ReadsOK
  <2>3. \E x \in S : \A y \in S : x >= y
    <3> DEFINE a == rep["logistics"].epoch
               b == rep["benchmark"].epoch
    <3>1. S = {known, a, b} /\ known \in Nat /\ a \in Nat /\ b \in Nat
      BY <2>1, <2>2
    <3> HIDE DEF a, b, S
    <3>2. CASE known >= a /\ known >= b
      BY <3>1, <3>2
    <3>3. CASE a >= known /\ a >= b
      BY <3>1, <3>3
    <3>4. CASE b >= known /\ b >= a
      BY <3>1, <3>4
    <3>5. QED BY <3>1, <3>2, <3>3, <3>4
  <2>4. Max(S) \in S
    BY <2>3 DEF Max
  <2>5. QED BY <1>1, <2>2, <2>4
<1>7. ask[c].quiet => \A role \in Roles : /\ rep[role].holder \in {tok.holder, NoNode}
                                          /\ rep[role].epoch = tok.epoch
  <2> SUFFICES ASSUME ask[c].quiet, NEW role \in Roles
               PROVE  rep[role].holder \in {tok.holder, NoNode} /\ rep[role].epoch = tok.epoch
    OBVIOUS
  <2>1. ask[c].holders = {tok.holder} /\ ask[c].epochs = {tok.epoch}
    BY <1>0 DEF QuietOK
  <2>2. now \in Nat
    BY <1>01, <1>3
  <2>3. Holders(ask[c], now) \subseteq {tok.holder, NoNode}
    BY <1>3, <2>1, <2>2 DEF Holders
  <2>4. QED BY <1>4, <2>1, <2>3
<1>8. \A a \in told' : a \in told \/ /\ a.holder \in {tok.holder, NoNode} /\ a.epoch = tok.epoch
                                     /\ a = [holder |-> a.holder, epoch |-> a.epoch]
  BY <1>1, <1>4, <1>7
<1>9. TypesOK'
  <2>1. told' \subseteq [holder : Nodes \cup {NoNode}, epoch : Nat]
    BY <1>0, <1>3, <1>8 DEF TypesOK
  <2>2. ask' \in [Clients -> {Resting} \cup Requests]
    BY <1>0 DEF TypesOK
  <2>3. QED BY <1>0, <1>6, <2>1, <2>2 DEF TypesOK
<1>10. ReadsOK' /\ QuietOK'
  BY <1>0, <1>5 DEF ReadsOK, QuietOK
<1>11. ToldOK'
  BY <1>0, <1>3, <1>8 DEF ToldOK
<1>12. OneLeaderPerEpoch'
  <2> SUFFICES ASSUME NEW a \in told', NEW b \in told', a.epoch = b.epoch
               PROVE  a.holder = b.holder \/ NoNode \in {a.holder, b.holder}
    BY DEF OneLeaderPerEpoch
  <2>1. CASE a \in told /\ b \in told
    BY <1>0, <2>1 DEF OneLeaderPerEpoch
  <2>2. CASE a \notin told \/ b \notin told
    BY <1>0, <1>8, <2>2 DEF ToldOK
  <2>3. QED BY <2>1, <2>2
<1>13. QED BY <1>0, <1>6, <1>9, <1>10, <1>11, <1>12 DEF LeaderInv

\* Every step keeps the invariant.
LEMMA LeaderStep ==
  LeaderInv /\ [LeadNext]_leadVars => LeaderInv'
<1> SUFFICES ASSUME LeaderInv, [LeadNext]_leadVars PROVE LeaderInv'
  OBVIOUS
<1>1. CASE LeadTick
  <2>1. /\ UNCHANGED <<tok, ask, known, told>> /\ clock' = clock + 1 /\ clock \in Nat
        /\ TypesOK /\ ReadsOK
    BY <1>1 DEF LeadTick, LeaderInv, TypesOK
  <2>2. TypesOK'
    BY <2>1 DEF TypesOK
  <2>3. ReadsOK'
    <3>1. \A c \in Clients : ask[c] # Resting => ask[c].since \in Nat
      BY <2>1, Asks, RequestFields
    <3>2. QED BY <2>1, <3>1 DEF ReadsOK
  <2>4. QED BY <2>1, <2>2, <2>3 DEF LeaderInv, QuietOK, ToldOK, OneLeaderPerEpoch
<1>2. CASE \E n \in Nodes, op \in TokenOps, now \in 1..clock : TokenRequest(n, op, now)
  BY <1>2, LeaderToken
<1>3. CASE \E c \in Clients : Touch(c) \/ Reply(c)
  BY <1>3, LeaderTouch, LeaderReply
<1>4. CASE UNCHANGED leadVars
  BY <1>4 DEF leadVars, LeaderInv, TypesOK, ReadsOK, QuietOK, ToldOK, OneLeaderPerEpoch
<1>5. QED BY <1>1, <1>2, <1>3, <1>4 DEF LeadNext

\* The invariant of Leadership.
LEMMA LeaderInvHolds == LeadSpec => []LeaderInv
BY LeaderInit, LeaderStep, PTL DEF LeadSpec

\* What the invariant says of the requests under way.
LEMMA LeaderInvShows ==
  LeaderInv => EpochsNeverGoBack /\ NamesTheHolder
<1> SUFFICES ASSUME LeaderInv PROVE EpochsNeverGoBack /\ NamesTheHolder
  OBVIOUS
<1>1. TypesOK /\ ReadsOK /\ QuietOK
  BY DEF LeaderInv
<1>2. EpochsNeverGoBack
  BY <1>1 DEF ReadsOK, EpochsNeverGoBack
<1>3. NamesTheHolder
  <2> SUFFICES ASSUME NEW c \in Clients, ask[c] # Resting, ask[c].quiet,
                      NEW now \in ask[c].since..clock, NEW leader \in Holders(ask[c], now)
               PROVE  /\ leader # NoNode => leader = tok.holder /\ ask[c].since <= tok.expiresAt
                      /\ Active(tok, clock) => leader = tok.holder
    BY DEF NamesTheHolder
  <2>1. ask[c].holders = {tok.holder} /\ ask[c].end = tok.expiresAt
    BY <1>1 DEF QuietOK
  <2>2. ask[c].since \in Nat /\ ask[c].end \in Nat /\ clock \in Nat /\ now \in Nat
    BY <1>1, Asks, RequestFields DEF TypesOK
  <2>3. now <= clock /\ ask[c].since <= now
    BY <2>2
  <2>4. CASE now <= ask[c].end
    BY <2>1, <2>2, <2>3, <2>4 DEF Holders
  <2>5. CASE now > ask[c].end
    BY <2>1, <2>2, <2>3, <2>5 DEF Holders, Active
  <2>6. QED BY <2>2, <2>4, <2>5
<1>4. QED BY <1>2, <1>3

\* A request never reads an epoch below one that was answered before it came,
\* however its unlocked reads fall between the writes (see EpochsNeverGoBack;
\* role/logistics.go, benchmark.go).
THEOREM EpochsOnlyGrow == LeadSpec => []EpochsNeverGoBack
BY LeaderInvHolds, LeaderInvShows, PTL

\* Two answers about the same epoch, neither of which was disturbed by a write,
\* do not name two leaders (see OneLeaderPerEpoch).
THEOREM LeadersAreUnique == LeadSpec => []OneLeaderPerEpoch
<1>1. LeaderInv => OneLeaderPerEpoch
  BY DEF LeaderInv
<1>2. QED BY <1>1, LeaderInvHolds, PTL

\* An undisturbed request names the holder of the token, and nobody else, and
\* names it while the lease is active (see NamesTheHolder).
THEOREM LeadersAreNamed == LeadSpec => []NamesTheHolder
BY LeaderInvHolds, LeaderInvShows, PTL
=============================================================================
