----------------------------- MODULE Agent_proofs -----------------------------
(* Proofs about Agent: types, and that an agent keeps the token, for every   *)
(* set of nodes and all times that fit into a lease as Timing says.          *)
EXTENDS Agent, TLAPS

\* After a success RenewAfter, MaxFailures calls that run into their timeout, each
\* followed by RetryAfter, and a call that succeeds end before the lease; the lease began at
\* most a call earlier.  In the code: 10s + 2 * (2s + 5s) + 2 * 2s < 30s.
Timing ==
  /\ RetryAfter <= RenewAfter
  /\ RenewAfter + MaxFailures * (Timeout + RetryAfter) + 2 * Timeout < LeaseTime

\* What calls may cost that fail after f failures.
Retries(f) == (MaxFailures - f) * (Timeout + RetryAfter)

\* The seconds until the next claim of a is served, at the latest, or its release.
Need(a) ==
  CASE a.stage = "asleep" -> a.timer + Retries(a.failed) + Timeout
    [] a.stage = "claiming" /\ a.answer = "none" -> a.timer + Retries(a.failed)
    [] a.stage = "claiming" /\ a.answer # "none" ->
         a.timer + RenewAfter + Retries(0) + Timeout
    [] a.stage = "releasing" -> a.timer
    [] OTHER -> 0

TimersOK ==
  \A n \in Nodes : /\ agent[n].stage = "asleep" => agent[n].timer <= RenewAfter
                   /\ InCall(n) => agent[n].timer <= Timeout

\* The inductive invariant: the lease of a promised node lasts until its next claim.
LeaseLasts ==
  \A n \in promised :
    /\ Running(n) /\ tok.holder = n
    /\ agent[n].stage = "claiming" => agent[n].answer # "conflict"
    /\ Need(agent[n]) < tok.expiresAt

AgentInv == TypeOK /\ TimersOK /\ LeaseLasts

-----------------------------------------------------------------------------
(* Arithmetic of the timeouts. *)

LEMMA RetriesStep ==
  /\ \A f \in 0..MaxFailures : Retries(f) \in Nat /\ Retries(f) <= Retries(0)
  /\ \A f \in 0..MaxFailures : f < MaxFailures =>
       Retries(f) = Retries(f + 1) + Timeout + RetryAfter
<1> DEFINE D == Timeout + RetryAfter
<1>1. D \in Nat /\ MaxFailures \in Nat
  BY AgentAssumption
<1>2. \A x \in Nat : x * D \in Nat /\ (x + 1) * D = x * D + D
  BY <1>1
<1>3. ASSUME NEW f \in 0..MaxFailures
      PROVE  Retries(f) \in Nat /\ Retries(f) <= Retries(0)
  <2>1. MaxFailures - f \in Nat /\ f \in Nat
    BY <1>1
  <2>2. MaxFailures * D = (MaxFailures - f) * D + f * D
    BY <1>1, <2>1
  <2>3. (MaxFailures - f) * D \in Nat /\ f * D \in Nat /\ MaxFailures * D \in Nat
    BY <1>2, <1>1, <2>1
  <2>4. Retries(f) = (MaxFailures - f) * D /\ Retries(0) = MaxFailures * D
    BY <1>1 DEF Retries
  <2> HIDE DEF D
  <2> QED BY <2>2, <2>3, <2>4
<1>4. ASSUME NEW f \in 0..MaxFailures, f < MaxFailures
      PROVE  Retries(f) = Retries(f + 1) + Timeout + RetryAfter
  <2>1. MaxFailures - (f + 1) \in Nat /\ (MaxFailures - (f + 1)) + 1 = MaxFailures - f
    BY <1>1, <1>4
  <2>2. (MaxFailures - f) * D = (MaxFailures - (f + 1)) * D + D
    BY <1>2, <2>1
  <2>3. (MaxFailures - (f + 1)) * D \in Nat
    BY <1>2, <2>1
  <2> QED BY <2>2, <2>3, AgentAssumption DEF Retries
<1> QED BY <1>3, <1>4

\* A claim that was just granted covers every need.
LEMMA FullLease ==
  ASSUME Timing, NEW a, a.timer \in Nat, a.failed \in 0..MaxFailures,
         a.stage = "asleep" => a.timer <= RenewAfter,
         a.stage \in {"claiming", "releasing"} => a.timer <= Timeout
  PROVE  Need(a) < LeaseTime
<1>1. Retries(a.failed) \in Nat /\ Retries(0) \in Nat /\ Retries(a.failed) <= Retries(0)
      /\ Retries(0) = MaxFailures * (Timeout + RetryAfter)
  BY RetriesStep, AgentAssumption DEF Retries
<1>2. RenewAfter + Retries(0) + 2 * Timeout < LeaseTime
  BY <1>1 DEF Timing
<1>3. LeaseTime \in Nat /\ RenewAfter \in Nat /\ Timeout \in Nat
  BY AgentAssumption, LeaseTimeAssumption
<1> QED BY <1>1, <1>2, <1>3 DEF Need

-----------------------------------------------------------------------------
(* What a request does to the token, in relative time. *)

LEMMA Requested ==
  ASSUME tok \in State, NEW n \in Nodes, NEW op \in {"claim", "release"}, Operate(n, op)
  PROVE  /\ tok' \in State
         /\ TokenOutcome(op, tok, n, 0).err \in {"ok", "conflict"}
         /\ op = "claim" /\ TokenOutcome(op, tok, n, 0).err = "ok" =>
              tok'.holder = n /\ tok'.expiresAt = LeaseTime
         /\ \A m \in Nodes : tok.holder = m /\ 0 < tok.expiresAt =>
              /\ m # n => tok'.holder = m /\ tok'.expiresAt = tok.expiresAt
                          /\ TokenOutcome(op, tok, n, 0).err = "conflict"
              /\ m = n /\ op = "claim" =>
                   /\ tok'.holder = m /\ tok'.expiresAt = LeaseTime
                   /\ TokenOutcome(op, tok, n, 0).err = "ok"
<1> DEFINE t == ExpireIfNeeded(tok, 0)
           out == TokenOutcome(op, tok, n, 0)
<1>1. t \in State
  BY DEF ExpireIfNeeded, Cleared, State, ZeroTime
<1>2. \A m \in Nodes : tok.holder = m /\ 0 < tok.expiresAt => t = tok /\ m # NoNode
  BY NodesAssumption DEF ExpireIfNeeded, Lapsed, Active, State
<1>3. t.holder = NoNode => \A m \in Nodes : ~ (tok.holder = m /\ 0 < tok.expiresAt)
  BY <1>2
<1>4. LeaseTime \in Nat /\ 0 + LeaseTime = LeaseTime
  BY LeaseTimeAssumption
<1>5. CASE op = "claim"
  <2>1. out = ClaimOutcome(t, n, 0)
    BY <1>5 DEF TokenOutcome
  <2> HIDE DEF t
  <2>2. CASE t.holder = NoNode
    <3>1. out = Outcome(Issued(t, n, 0), "claim", "ok")
      BY <2>1, <2>2, NodesAssumption DEF ClaimOutcome
    <3>2. out.err = "ok" /\ out.tok.holder = n /\ out.tok.expiresAt = LeaseTime
          /\ out.tok \in State
      BY <3>1, <1>1, <1>4 DEF Outcome, Issued, State
    <3>3. tok' = [out.tok EXCEPT !.epoch = 0]
      BY <1>5 DEF Operate
    <3>4. tok' \in State /\ tok'.holder = n /\ tok'.expiresAt = LeaseTime
      BY <3>2, <3>3 DEF State
    <3> QED BY <1>3, <1>5, <2>2, <3>2, <3>4
  <2>3. CASE t.holder # NoNode /\ t.holder = n
    <3>1. out = Outcome(Extended(t, 0), "renew", "ok")
      BY <2>1, <2>3 DEF ClaimOutcome
    <3>2. out.err = "ok" /\ out.tok.holder = n /\ out.tok.expiresAt = LeaseTime
          /\ out.tok \in State
      BY <3>1, <1>1, <1>4, <2>3 DEF Outcome, Extended, State
    <3> QED BY <1>2, <1>5, <2>3, <3>2 DEF Operate, State
  <2>4. CASE t.holder # NoNode /\ t.holder # n
    <3>1. out = Outcome(t, "none", "conflict")
      BY <2>1, <2>4 DEF ClaimOutcome
    <3> QED BY <1>1, <1>2, <1>5, <2>4, <3>1 DEF Operate, Outcome, State
  <2> QED BY <2>2, <2>3, <2>4
<1>6. CASE op = "release"
  <2>1. out = ReleaseOutcome(t, n, 0)
    BY <1>6 DEF TokenOutcome
  <2> HIDE DEF t
  <2>2. CASE t.holder = NoNode
    <3>1. out = Outcome(t, "none", "ok")
      BY <2>1, <2>2, NodesAssumption DEF ReleaseOutcome
    <3>2. tok' = [t EXCEPT !.epoch = 0] /\ out.err = "ok"
      BY <1>6, <3>1 DEF Operate, Outcome
    <3>3. tok' \in State
      BY <1>1, <3>2 DEF State
    <3> QED BY <1>3, <1>6, <2>2, <3>2, <3>3
  <2>3. CASE t.holder # NoNode /\ t.holder = n
    <3>1. out = Outcome(Cleared(t), "release", "ok")
      BY <2>1, <2>3 DEF ReleaseOutcome
    <3> QED BY <1>1, <1>2, <1>6, <2>3, <3>1 DEF Operate, Outcome, State, Cleared, ZeroTime
  <2>4. CASE t.holder # NoNode /\ t.holder # n
    <3>1. out = Outcome(t, "none", "conflict")
      BY <2>1, <2>4 DEF ReleaseOutcome
    <3> QED BY <1>1, <1>2, <1>6, <2>4, <3>1 DEF Operate, Outcome, State
  <2> QED BY <2>2, <2>3, <2>4
<1> QED BY <1>5, <1>6
-----------------------------------------------------------------------------
(* Every action keeps the invariant. *)

AgentRec == [stage : Stages, timer : Nat, answer : {"none", "ok", "conflict"},
             failed : 0..MaxFailures, stopping : BOOLEAN]

LEMMA AgentInvInit == Init => AgentInv
BY AgentAssumption DEF Init, AgentInv, TypeOK, TimersOK, LeaseLasts, Down, InCall, State,
   NewToken, ZeroTime, Stages

(* The records that the actions put together. *)

LEMMA StartedRec ==
  ASSUME NEW x, x = [Down EXCEPT !.stage = "asleep"]
  PROVE  x \in AgentRec /\ x.stage = "asleep" /\ x.timer = 0
<1>1. Down \in AgentRec
  BY AgentAssumption DEF AgentRec, Down, Stages
<1>2. Down.timer = 0
  BY DEF Down
<1> HIDE DEF Down
<1> QED BY <1>1, <1>2 DEF AgentRec, Stages

LEMMA ServedRec ==
  ASSUME NEW r \in AgentRec, NEW w \in {"none", "ok", "conflict"},
         NEW x, x = [r EXCEPT !.answer = w]
  PROVE  /\ x \in AgentRec /\ x.answer = w
         /\ x.stage = r.stage /\ x.timer = r.timer /\ x.failed = r.failed
BY DEF AgentRec

LEMMA AsleepRec ==
  ASSUME NEW n \in Nodes, agent[n] \in AgentRec, NEW t \in Nat, NEW f \in 0..MaxFailures,
         NEW x, x = Asleep(n, t, f)
  PROVE  x \in AgentRec /\ x.stage = "asleep" /\ x.timer = t /\ x.failed = f
BY DEF AgentRec, Asleep, Stages

LEMMA SignalledRec ==
  ASSUME NEW r \in AgentRec, NEW x, x = [r EXCEPT !.stopping = TRUE]
  PROVE  /\ x \in AgentRec /\ x.answer = r.answer
         /\ x.stage = r.stage /\ x.timer = r.timer /\ x.failed = r.failed
BY DEF AgentRec

LEMMA TickedRec ==
  ASSUME NEW r \in AgentRec, r.timer > 0, NEW x, x = [r EXCEPT !.timer = @ - 1]
  PROVE  /\ x \in AgentRec /\ x.answer = r.answer
         /\ x.stage = r.stage /\ x.timer = r.timer - 1 /\ x.failed = r.failed
BY DEF AgentRec

\* An action of n alone that leaves the token and the promises to others as they are.
LEMMA OneAgent ==
  ASSUME AgentInv, NEW n \in Nodes, NEW a \in AgentRec, Becomes(n, a), tok' = tok,
         late' \subseteq Requests, restarts' \in Nat,
         promised' \subseteq promised,
         a.stage = "asleep" => a.timer <= RenewAfter,
         a.stage \in {"claiming", "releasing"} => a.timer <= Timeout,
         n \in promised' =>
           /\ a.stage # "down" /\ Need(a) < tok.expiresAt
           /\ a.stage = "claiming" => a.answer # "conflict"
  PROVE  AgentInv'
<1>1. TypeOK'
  BY DEF AgentInv, TypeOK, AgentRec, Becomes
<1>2. agent'[n] = a /\ \A m \in Nodes : m # n => agent'[m] = agent[m]
  BY DEF AgentInv, TypeOK, Becomes
<1>3. TimersOK'
  BY <1>2 DEF AgentInv, TimersOK, InCall
<1>4. LeaseLasts'
  <2> SUFFICES ASSUME NEW m \in promised'
               PROVE  /\ Running(m)' /\ tok'.holder = m
                      /\ agent'[m].stage = "claiming" => agent'[m].answer # "conflict"
                      /\ Need(agent'[m]) < tok'.expiresAt
    BY DEF LeaseLasts
  <2>1. m \in promised /\ m \in Nodes
    BY DEF AgentInv, TypeOK
  <2>2. CASE m = n
    BY <1>2, <2>1, <2>2 DEF AgentInv, LeaseLasts, Running
  <2>3. CASE m # n
    BY <1>2, <2>1, <2>3 DEF AgentInv, LeaseLasts, Running
  <2> QED BY <2>2, <2>3
<1> QED BY <1>1, <1>3, <1>4 DEF AgentInv

\* What the invariant says of one agent.
LEMMA ThisAgent ==
  ASSUME AgentInv, NEW n \in Nodes
  PROVE  /\ agent[n] \in AgentRec
         /\ agent[n].stage = "asleep" => agent[n].timer <= RenewAfter
         /\ agent[n].stage \in {"claiming", "releasing"} => agent[n].timer <= Timeout
         /\ Retries(agent[n].failed) \in Nat /\ Retries(0) \in Nat
         /\ n \in promised =>
              /\ agent[n].stage # "down" /\ tok.holder = n
              /\ agent[n].stage = "claiming" => agent[n].answer # "conflict"
              /\ Need(agent[n]) < tok.expiresAt
<1>1. agent[n] \in AgentRec
  BY DEF AgentInv, TypeOK, AgentRec
<1>2. Retries(agent[n].failed) \in Nat /\ Retries(0) \in Nat
  BY <1>1, RetriesStep, AgentAssumption DEF AgentRec
<1> QED BY <1>1, <1>2 DEF AgentInv, TimersOK, LeaseLasts, InCall, Running

LEMMA AgentInvStart ==
  ASSUME AgentInv, NEW n \in Nodes, Start(n)
  PROVE  AgentInv'
<1>1. PICK a : a = [Down EXCEPT !.stage = "asleep"]
  OBVIOUS
<1>2. n \notin promised
  BY ThisAgent DEF Start, Running
<1>3. 0 <= RenewAfter /\ late \subseteq Requests /\ restarts \in Nat
  BY AgentAssumption DEF AgentInv, TypeOK
<1>4. Becomes(n, a) /\ UNCHANGED <<tok, late, restarts, promised>>
  BY <1>1 DEF Start
<1> QED BY <1>1, <1>2, <1>3, <1>4, StartedRec, OneAgent

LEMMA AgentInvCall ==
  ASSUME AgentInv, NEW n \in Nodes, Call(n)
  PROVE  AgentInv'
<1> DEFINE s == IF agent[n].stopping THEN "releasing" ELSE "claiming"
<1>1. PICK a : a = [agent[n] EXCEPT !.stage = s, !.timer = Timeout, !.answer = "none"]
  OBVIOUS
<1>2. late \subseteq Requests /\ restarts \in Nat
  BY DEF AgentInv, TypeOK
<1>3. Becomes(n, a) /\ UNCHANGED <<tok, late, restarts, promised>>
  BY <1>1 DEF Call
<1>4. agent[n].stage = "asleep" /\ agent[n].timer = 0
  BY DEF Call
<1>5. s \in {"claiming", "releasing"} /\ s \in Stages
  BY DEF Stages
<1> HIDE DEF s
<1>6. /\ a \in AgentRec /\ a.stage \in {"claiming", "releasing"}
      /\ a.timer = Timeout /\ a.answer = "none" /\ a.failed = agent[n].failed
  <2>1. agent[n] \in AgentRec /\ Timeout \in Nat
    BY ThisAgent, AgentAssumption
  <2>2. a \in AgentRec /\ a.stage = s /\ a.timer = Timeout /\ a.answer = "none"
        /\ a.failed = agent[n].failed
    BY <1>1, <1>5, <2>1 DEF AgentRec
  <2> QED BY <1>5, <2>2
<1>7. Need(a) <= Need(agent[n]) /\ Need(a) \in Nat /\ Need(agent[n]) \in Nat
  BY <1>4, <1>6, ThisAgent, AgentAssumption DEF Need
<1>8. tok.expiresAt \in Nat
  BY DEF AgentInv, TypeOK, State
<1>9. n \in promised => Need(a) < tok.expiresAt
  BY <1>7, <1>8, ThisAgent
<1> QED BY <1>2, <1>3, <1>6, <1>9, OneAgent, AgentAssumption

LEMMA AgentInvAnswer ==
  ASSUME Timing, AgentInv, NEW n \in Nodes, Answer(n)
  PROVE  AgentInv'
<1> DEFINE timer == IF agent[n].answer = "ok" THEN RenewAfter ELSE RetryAfter
<1>1. PICK a : a = Asleep(n, timer, 0)
  OBVIOUS
<1>2. late \subseteq Requests /\ restarts \in Nat
  BY DEF AgentInv, TypeOK
<1>3. Becomes(n, a) /\ UNCHANGED <<tok, late, restarts, promised>>
  BY <1>1 DEF Answer
<1>4. agent[n].stage = "claiming" /\ agent[n].answer # "none"
  BY DEF Answer
<1>5. timer \in Nat /\ timer <= RenewAfter /\ 0 \in 0..MaxFailures
  BY AgentAssumption DEF Timing
<1> HIDE DEF timer
<1>6. a \in AgentRec /\ a.stage = "asleep" /\ a.timer = timer /\ a.failed = 0
  BY <1>1, <1>5, ThisAgent, AsleepRec
<1>7. agent[n].timer \in Nat
  BY ThisAgent DEF AgentRec
<1>8. Need(a) <= Need(agent[n]) /\ Need(a) \in Nat /\ Need(agent[n]) \in Nat
  BY <1>4, <1>5, <1>6, <1>7, ThisAgent, AgentAssumption DEF Need
<1>9. tok.expiresAt \in Nat
  BY DEF AgentInv, TypeOK, State
<1>10. n \in promised => Need(a) < tok.expiresAt
  BY <1>8, <1>9, ThisAgent
<1> QED BY <1>2, <1>3, <1>5, <1>6, <1>10, OneAgent

LEMMA Abandoned ==
  ASSUME AgentInv, NEW n \in Nodes, Abandon(n)
  PROVE  late' \subseteq Requests
<1>1. Request(n, Op(n)) \in Requests
  BY DEF Request, Requests, Op
<1> QED BY <1>1 DEF Abandon, AgentInv, TypeOK

LEMMA AgentInvFail ==
  ASSUME Timing, AgentInv, NEW n \in Nodes, Fail(n)
  PROVE  AgentInv'
<1> DEFINE f == agent[n].failed
<1>1. PICK a : a = Asleep(n, RetryAfter, f + 1)
  OBVIOUS
<1>2. late' \subseteq Requests /\ restarts' \in Nat
  BY Abandoned DEF Fail, AgentInv, TypeOK
<1>3. Becomes(n, a) /\ UNCHANGED <<tok, restarts, promised>>
  BY <1>1 DEF Fail
<1>4. agent[n].stage = "claiming" /\ f < MaxFailures
  BY DEF Fail
<1>5. RetryAfter \in Nat /\ RetryAfter <= RenewAfter
  BY AgentAssumption DEF Timing
<1>6. agent[n].timer \in Nat /\ f \in 0..MaxFailures /\ f + 1 \in 0..MaxFailures
  BY <1>4, ThisAgent, AgentAssumption DEF AgentRec
<1> HIDE DEF f
<1>7. a \in AgentRec /\ a.stage = "asleep" /\ a.timer = RetryAfter /\ a.failed = f + 1
  BY <1>1, <1>5, <1>6, ThisAgent, AsleepRec
<1>8. /\ Retries(f) = Retries(f + 1) + Timeout + RetryAfter
      /\ Retries(f) \in Nat /\ Retries(f + 1) \in Nat /\ Retries(f) <= Retries(0)
  BY <1>4, <1>6, RetriesStep
<1>9. Need(a) = Retries(f) /\ Retries(0) \in Nat
  BY <1>7, <1>8, ThisAgent, AgentAssumption DEF Need
<1>10. Retries(f) <= Need(agent[n]) /\ Need(agent[n]) \in Nat
  BY <1>4, <1>6, <1>8, <1>9, AgentAssumption DEF Need, f
<1>11. tok.expiresAt \in Nat
  BY DEF AgentInv, TypeOK, State
<1>12. n \in promised => Need(a) < tok.expiresAt
  BY <1>8, <1>9, <1>10, <1>11, ThisAgent
<1> QED BY <1>2, <1>3, <1>5, <1>7, <1>12, OneAgent

LEMMA AgentInvSignal ==
  ASSUME AgentInv, NEW n \in Nodes, Signal(n)
  PROVE  AgentInv'
<1>1. PICK a : a = [agent[n] EXCEPT !.stopping = TRUE]
  OBVIOUS
<1>2. late \subseteq Requests /\ restarts \in Nat
  BY DEF AgentInv, TypeOK
<1>3. Becomes(n, a) /\ UNCHANGED <<tok, late, restarts, promised>>
  BY <1>1 DEF Signal
<1>4. /\ a \in AgentRec /\ a.answer = agent[n].answer /\ a.stage = agent[n].stage
      /\ a.timer = agent[n].timer /\ a.failed = agent[n].failed
  BY <1>1, ThisAgent, SignalledRec
<1>5. Need(a) = Need(agent[n])
  BY <1>4 DEF Need
<1> QED BY <1>2, <1>3, <1>4, <1>5, ThisAgent, OneAgent

\* Exit and Crash.
LEMMA AgentInvGone ==
  ASSUME AgentInv, NEW n \in Nodes, Gone(n)
  PROVE  AgentInv'
<1>1. Down \in AgentRec /\ Down.stage = "down"
  BY AgentAssumption DEF Down, AgentRec, Stages
<1>2. late' \subseteq Requests /\ restarts' \in Nat
  BY Abandoned DEF Gone, AgentInv, TypeOK
<1>3. Becomes(n, Down) /\ tok' = tok /\ promised' \subseteq promised /\ n \notin promised'
  BY DEF Gone
<1> HIDE DEF Down
<1> QED BY <1>1, <1>2, <1>3, OneAgent
LEMMA NeedNat ==
  ASSUME NEW a \in AgentRec
  PROVE  Need(a) \in Nat
<1>1. Retries(a.failed) \in Nat /\ Retries(0) \in Nat /\ a.timer \in Nat
  BY RetriesStep, AgentAssumption DEF AgentRec
<1> QED BY <1>1, AgentAssumption DEF Need

\* A promised node holds a lease that has not run out.
LEMMA Holds ==
  ASSUME AgentInv, NEW m \in promised
  PROVE  m \in Nodes /\ tok.holder = m /\ 0 < tok.expiresAt /\ tok.expiresAt \in Nat
<1>1. m \in Nodes /\ tok.expiresAt \in Nat
  BY DEF AgentInv, TypeOK, State
<1>2. Need(agent[m]) \in Nat
  BY <1>1, ThisAgent, NeedNat
<1> QED BY <1>1, <1>2, ThisAgent

\* Any running agent can wait for the whole of a lease.
LEMMA Covered ==
  ASSUME Timing, AgentInv, NEW n \in Nodes, NEW a \in AgentRec,
         a.stage = agent[n].stage, a.timer = agent[n].timer, a.failed = agent[n].failed
  PROVE  Need(a) < LeaseTime
<1>1. a.timer \in Nat /\ a.failed \in 0..MaxFailures
  BY DEF AgentRec
<1> QED BY <1>1, ThisAgent, FullLease

LEMMA AgentInvServe ==
  ASSUME Timing, AgentInv, NEW n \in Nodes, Serve(n)
  PROVE  AgentInv'
<1> DEFINE err == TokenOutcome(Op(n), tok, n, 0).err
<1>1. PICK a : a = [agent[n] EXCEPT !.answer = err]
  OBVIOUS
<1>2. Operate(n, Op(n)) /\ Becomes(n, a) /\ InCall(n) /\ UNCHANGED <<late, restarts>>
  BY <1>1 DEF Serve
<1>3. tok \in State /\ Op(n) \in {"claim", "release"}
  BY DEF AgentInv, TypeOK, Op
<1>4. /\ tok' \in State /\ err \in {"ok", "conflict"}
      /\ Op(n) = "claim" /\ err = "ok" => tok'.holder = n /\ tok'.expiresAt = LeaseTime
      /\ \A m \in Nodes : tok.holder = m /\ 0 < tok.expiresAt =>
           /\ m # n => tok'.holder = m /\ tok'.expiresAt = tok.expiresAt
           /\ m = n /\ Op(n) = "claim" => err = "ok"
  BY <1>2, <1>3, Requested
<1>5. /\ Op(n) = "release" => promised' = promised \ {n}
      /\ Op(n) = "claim" /\ err = "ok" => promised' = promised \cup {n}
      /\ Op(n) = "claim" /\ err # "ok" => promised' = promised
  BY DEF Serve
<1> HIDE DEF err
<1>6. /\ a \in AgentRec /\ a.answer = err /\ a.stage = agent[n].stage
      /\ a.timer = agent[n].timer /\ a.failed = agent[n].failed
  BY <1>1, <1>4, ThisAgent, ServedRec
<1>7. agent'[n] = a /\ \A m \in Nodes : m # n => agent'[m] = agent[m]
  BY <1>2 DEF AgentInv, TypeOK, Becomes
<1>8. promised' \subseteq promised \cup {n} /\ promised' \subseteq Nodes
  BY <1>3, <1>5 DEF AgentInv, TypeOK
<1>9. TypeOK'
  BY <1>2, <1>4, <1>6, <1>8 DEF AgentInv, TypeOK, AgentRec, Becomes
<1>10. TimersOK'
  BY <1>6, <1>7 DEF AgentInv, TimersOK, InCall
<1>11. LeaseLasts'
  <2> SUFFICES ASSUME NEW m \in promised'
               PROVE  /\ agent'[m].stage # "down" /\ tok'.holder = m
                      /\ agent'[m].stage = "claiming" => agent'[m].answer # "conflict"
                      /\ Need(agent'[m]) < tok'.expiresAt
    BY DEF LeaseLasts, Running
  <2>1. CASE m # n
    <3>1. m \in promised /\ m \in Nodes
      BY <1>8, <2>1
    <3>2. tok'.holder = m /\ tok'.expiresAt = tok.expiresAt
      BY <1>4, <2>1, <3>1, Holds
    <3> QED BY <1>7, <2>1, <3>1, <3>2, ThisAgent
  <2>2. CASE m = n
    <3>1. Op(n) = "claim" /\ err = "ok"
      <4>1. Op(n) = "claim"
        BY <1>3, <1>5, <2>2
      <4>2. n \in promised => err = "ok"
        BY <1>4, <4>1, Holds
      <4> QED BY <1>5, <2>2, <4>1, <4>2
    <3>2. Need(a) < LeaseTime
      BY <1>6, Covered
    <3> QED BY <1>2, <1>4, <1>6, <1>7, <2>2, <3>1, <3>2 DEF InCall
  <2> QED BY <2>1, <2>2
<1> QED BY <1>9, <1>10, <1>11 DEF AgentInv

LEMMA AgentInvServeLate ==
  ASSUME Timing, AgentInv, NEW r \in late, ServeLate(r)
  PROVE  AgentInv'
<1>1. r.node \in Nodes /\ r.op \in {"claim", "release"} /\ tok \in State
  BY DEF AgentInv, TypeOK, Requests
<1>2. Operate(r.node, r.op) /\ late' \subseteq late /\ UNCHANGED <<agent, restarts>>
  BY DEF ServeLate
<1>3. promised' = IF r.op = "release" THEN promised \ {r.node} ELSE promised
  BY DEF ServeLate
<1>4. /\ tok' \in State
      /\ \A m \in Nodes : tok.holder = m /\ 0 < tok.expiresAt =>
           /\ m # r.node => tok'.holder = m /\ tok'.expiresAt = tok.expiresAt
           /\ m = r.node /\ r.op = "claim" => tok'.holder = m /\ tok'.expiresAt = LeaseTime
  BY <1>1, <1>2, Requested
<1>5. TypeOK' /\ TimersOK'
  BY <1>2, <1>3, <1>4 DEF AgentInv, TypeOK, TimersOK, InCall
<1>6. LeaseLasts'
  <2> SUFFICES ASSUME NEW m \in promised'
               PROVE  /\ agent[m].stage # "down" /\ tok'.holder = m
                      /\ agent[m].stage = "claiming" => agent[m].answer # "conflict"
                      /\ Need(agent[m]) < tok'.expiresAt
    BY <1>2 DEF LeaseLasts, Running
  <2>1. m \in promised /\ m \in Nodes /\ (m = r.node => r.op = "claim")
    BY <1>1, <1>3 DEF AgentInv, TypeOK
  <2>2. CASE m # r.node
    BY <1>4, <2>1, <2>2, Holds, ThisAgent
  <2>3. CASE m = r.node
    <3>1. tok'.holder = m /\ tok'.expiresAt = LeaseTime
      BY <1>4, <2>1, <2>3, Holds
    <3>2. Need(agent[m]) < LeaseTime
      BY <2>1, ThisAgent, Covered
    <3> QED BY <2>1, <3>1, <3>2, ThisAgent
  <2> QED BY <2>2, <2>3
<1> QED BY <1>5, <1>6 DEF AgentInv

LEMMA AgentInvRestart ==
  ASSUME AgentInv, Restart
  PROVE  AgentInv'
BY DEF AgentInv, TypeOK, TimersOK, LeaseLasts, InCall, Restart, NewToken, State, ZeroTime

LEMMA AgentInvTick ==
  ASSUME AgentInv, Tick
  PROVE  AgentInv'
<1>1. UNCHANGED <<late, restarts, promised>>
  BY DEF Tick
<1>2. \A n \in Nodes : Running(n) => agent[n].timer > 0
  BY DEF Tick, Waits
<1>3. ASSUME NEW n \in Nodes
      PROVE  agent'[n] = IF Running(n) THEN [agent[n] EXCEPT !.timer = @ - 1] ELSE agent[n]
  BY <1>3 DEF Tick
<1>4. ASSUME NEW n \in Nodes
      PROVE  /\ agent'[n] \in AgentRec
             /\ agent'[n].stage = agent[n].stage /\ agent'[n].failed = agent[n].failed
             /\ agent'[n].answer = agent[n].answer
             /\ agent'[n].timer = IF Running(n) THEN agent[n].timer - 1 ELSE agent[n].timer
  <2>1. agent[n] \in AgentRec
    BY ThisAgent
  <2>2. CASE Running(n)
    BY <1>2, <1>3, <2>1, <2>2, TickedRec
  <2>3. CASE ~ Running(n)
    BY <1>3, <2>1, <2>3
  <2> QED BY <2>2, <2>3
<1>5. PICK e \in Nat : e = IF tok.expiresAt > 0 THEN tok.expiresAt - 1 ELSE 0
  BY DEF AgentInv, TypeOK, State
<1>6. tok' = ExpireIfNeeded([tok EXCEPT !.expiresAt = e], 0) /\ tok \in State
  BY <1>5 DEF Tick, AgentInv, TypeOK
<1>7. tok' \in State
  BY <1>6 DEF ExpireIfNeeded, Cleared, State, ZeroTime
<1>8. e > 0 => tok'.holder = tok.holder /\ tok'.expiresAt = e
  BY <1>6 DEF ExpireIfNeeded, Lapsed, Active, State
<1>9. DOMAIN agent' = Nodes /\ agent' = [n \in Nodes |-> agent'[n]]
  BY DEF Tick
<1>10. agent' \in [Nodes -> AgentRec]
  BY <1>4, <1>9
<1>11. TypeOK'
  BY <1>1, <1>7, <1>10 DEF AgentInv, TypeOK, AgentRec
<1>12. TimersOK'
  <2> SUFFICES ASSUME NEW n \in Nodes
               PROVE  /\ agent'[n].stage = "asleep" => agent'[n].timer <= RenewAfter
                      /\ agent'[n].stage \in {"claiming", "releasing"} =>
                           agent'[n].timer <= Timeout
    BY DEF TimersOK, InCall
  <2>1. agent[n].timer \in Nat
    BY ThisAgent DEF AgentRec
  <2> QED BY <1>4, <2>1, ThisAgent, AgentAssumption
<1>13. LeaseLasts'
  <2> SUFFICES ASSUME NEW m \in promised
               PROVE  /\ agent'[m].stage # "down" /\ tok'.holder = m
                      /\ agent'[m].stage = "claiming" => agent'[m].answer # "conflict"
                      /\ Need(agent'[m]) < tok'.expiresAt
    BY <1>1 DEF LeaseLasts, Running
  <2>1. m \in Nodes /\ tok.holder = m /\ 0 < tok.expiresAt /\ tok.expiresAt \in Nat
    BY Holds
  <2>2. /\ agent[m].stage # "down" /\ Need(agent[m]) < tok.expiresAt
        /\ agent[m].stage = "claiming" => agent[m].answer # "conflict"
    BY <2>1, ThisAgent
  <2>3. agent'[m].timer = agent[m].timer - 1 /\ agent[m].timer \in Nat /\ agent[m].timer > 0
    BY <1>2, <1>4, <2>1, <2>2, ThisAgent DEF Running, AgentRec
  <2>4. Need(agent[m]) = Need(agent'[m]) + 1
    <3>1. /\ agent[m].stage \in {"asleep", "claiming", "releasing"}
          /\ agent[m].answer \in {"none", "ok", "conflict"}
          /\ Retries(agent[m].failed) \in Nat /\ Retries(0) \in Nat
      BY <2>1, <2>2, ThisAgent DEF AgentRec, Stages
    <3>2. /\ agent'[m].stage = agent[m].stage /\ agent'[m].failed = agent[m].failed
          /\ agent'[m].answer = agent[m].answer
      BY <1>4, <2>1
    <3> QED BY <2>3, <3>1, <3>2, AgentAssumption DEF Need
  <2>5. Need(agent'[m]) \in Nat
    BY <1>4, <2>1, NeedNat
  <2>6. e > 0 /\ Need(agent'[m]) < e
    BY <1>5, <2>1, <2>2, <2>4, <2>5
  <2> QED BY <1>4, <1>8, <2>1, <2>2, <2>6
<1> QED BY <1>11, <1>12, <1>13 DEF AgentInv

-----------------------------------------------------------------------------
(* Types, whatever the times are. *)

\* What the types say of one agent.
LEMMA TypedAgent ==
  ASSUME TypeOK, NEW n \in Nodes
  PROVE  /\ agent[n] \in AgentRec /\ tok \in State
         /\ Request(n, Op(n)) \in Requests /\ Op(n) \in {"claim", "release"}
BY DEF TypeOK, AgentRec, Request, Requests, Op

\* An action that gives n another record.
LEMMA TypedStep ==
  ASSUME TypeOK, NEW n \in Nodes, NEW a \in AgentRec, Becomes(n, a), tok' \in State,
         late' \subseteq Requests, restarts' \in Nat, promised' \subseteq Nodes
  PROVE  TypeOK'
BY DEF TypeOK, AgentRec, Becomes

LEMMA TypeOKLoop ==
  ASSUME TypeOK, NEW n \in Nodes, Loop(n)
  PROVE  TypeOK'
<1>1. agent[n] \in AgentRec /\ tok' \in State /\ restarts' \in Nat /\ promised' \subseteq Nodes
  BY TypedAgent DEF Loop, Call, Answer, Fail, TypeOK
<1>2. late' \subseteq Requests
  BY TypedAgent DEF Loop, Call, Answer, Fail, Abandon, TypeOK
<1>3. RenewAfter \in Nat /\ RetryAfter \in Nat /\ Timeout \in Nat /\ 0 \in 0..MaxFailures
  BY AgentAssumption
<1>4. CASE Call(n)
  <2>1. PICK s : s = IF agent[n].stopping THEN "releasing" ELSE "claiming"
    OBVIOUS
  <2>2. PICK a : a = [agent[n] EXCEPT !.stage = s, !.timer = Timeout, !.answer = "none"]
    OBVIOUS
  <2>3. s \in Stages
    BY <2>1 DEF Stages
  <2>4. a \in AgentRec
    BY <1>1, <1>3, <2>2, <2>3 DEF AgentRec
  <2>5. Becomes(n, a)
    BY <1>4, <2>1, <2>2 DEF Call
  <2> QED BY <1>1, <1>2, <2>4, <2>5, TypedStep
<1>5. CASE Answer(n)
  <2>1. PICK t \in Nat : t = IF agent[n].answer = "ok" THEN RenewAfter ELSE RetryAfter
    BY <1>3
  <2>2. PICK a : a = Asleep(n, t, 0)
    OBVIOUS
  <2>3. a \in AgentRec
    BY <1>1, <1>3, <2>2, AsleepRec
  <2>4. Becomes(n, a)
    BY <1>5, <2>1, <2>2 DEF Answer
  <2> QED BY <1>1, <1>2, <2>3, <2>4, TypedStep
<1>6. CASE Fail(n)
  <2>1. PICK f : f = agent[n].failed + 1
    OBVIOUS
  <2>2. PICK a : a = Asleep(n, RetryAfter, f)
    OBVIOUS
  <2>3. f \in 0..MaxFailures
    BY <1>1, <1>6, <2>1, AgentAssumption DEF Fail, AgentRec
  <2>4. a \in AgentRec
    BY <1>1, <1>3, <2>2, <2>3, AsleepRec
  <2>5. Becomes(n, a)
    BY <1>6, <2>1, <2>2 DEF Fail
  <2> QED BY <1>1, <1>2, <2>4, <2>5, TypedStep
<1> QED BY <1>4, <1>5, <1>6 DEF Loop

LEMMA TypeOKServe ==
  ASSUME TypeOK, NEW n \in Nodes, Serve(n)
  PROVE  TypeOK'
<1>1. PICK err : err = TokenOutcome(Op(n), tok, n, 0).err
  OBVIOUS
<1>2. PICK a : a = [agent[n] EXCEPT !.answer = err]
  OBVIOUS
<1>3. Operate(n, Op(n)) /\ Becomes(n, a) /\ UNCHANGED <<late, restarts>>
      /\ promised' \subseteq promised \cup {n}
  BY <1>1, <1>2 DEF Serve
<1>4. tok' \in State /\ err \in {"ok", "conflict"}
  BY <1>1, <1>3, TypedAgent, Requested
<1>5. a \in AgentRec
  BY <1>2, <1>4, TypedAgent, ServedRec
<1>6. late' \subseteq Requests /\ restarts' \in Nat /\ promised' \subseteq Nodes
  BY <1>3 DEF TypeOK
<1> QED BY <1>3, <1>4, <1>5, <1>6, TypedStep

LEMMA TypeOKProcess ==
  ASSUME TypeOK, NEW n \in Nodes, Start(n) \/ Signal(n) \/ Gone(n)
  PROVE  TypeOK'
<1>1. tok' \in State /\ restarts' \in Nat /\ promised' \subseteq Nodes
  BY DEF Start, Signal, Gone, TypeOK
<1>2. late' \subseteq Requests
  BY TypedAgent DEF Start, Signal, Gone, Abandon, TypeOK
<1>3. Down \in AgentRec
  BY AgentAssumption DEF Down, AgentRec, Stages
<1>4. PICK a : a = [Down EXCEPT !.stage = "asleep"]
  OBVIOUS
<1>5. PICK b : b = [agent[n] EXCEPT !.stopping = TRUE]
  OBVIOUS
<1>6. a \in AgentRec /\ b \in AgentRec
  BY <1>4, <1>5, StartedRec, SignalledRec, TypedAgent
<1>7. Becomes(n, a) \/ Becomes(n, b) \/ Becomes(n, Down)
  BY <1>4, <1>5 DEF Start, Signal, Gone
<1> HIDE DEF Down
<1> QED BY <1>1, <1>2, <1>3, <1>6, <1>7, TypedStep

LEMMA TypeOKServer ==
  ASSUME TypeOK, Restart \/ \E r \in late : ServeLate(r)
  PROVE  TypeOK'
<1>1. CASE Restart
  BY <1>1 DEF TypeOK, Restart, NewToken, State, ZeroTime
<1>2. CASE \E r \in late : ServeLate(r)
  <2>1. PICK r \in late : ServeLate(r)
    BY <1>2
  <2>2. r.node \in Nodes /\ r.op \in {"claim", "release"} /\ tok \in State
    BY DEF TypeOK, Requests
  <2>3. Operate(r.node, r.op)
    BY <2>1 DEF ServeLate
  <2>4. tok' \in State
    BY <2>2, <2>3, Requested
  <2> QED BY <2>1, <2>4 DEF ServeLate, TypeOK
<1> QED BY <1>1, <1>2

LEMMA TypeOKTick ==
  ASSUME TypeOK, Tick
  PROVE  TypeOK'
<1>1. PICK e \in Nat : e = IF tok.expiresAt > 0 THEN tok.expiresAt - 1 ELSE 0
  BY DEF TypeOK, State
<1>2. tok' = ExpireIfNeeded([tok EXCEPT !.expiresAt = e], 0)
  BY <1>1 DEF Tick
<1>3. tok' \in State
  BY <1>2 DEF TypeOK, ExpireIfNeeded, Cleared, State, ZeroTime
<1>4. ASSUME NEW n \in Nodes
      PROVE  agent'[n] \in AgentRec
  <2>1. agent[n] \in AgentRec
    BY TypedAgent
  <2>2. agent'[n] = IF Running(n) THEN [agent[n] EXCEPT !.timer = @ - 1] ELSE agent[n]
    BY DEF Tick
  <2>3. Running(n) => agent[n].timer > 0
    BY DEF Tick, Waits
  <2> QED BY <2>1, <2>2, <2>3, TickedRec
<1>5. agent' \in [Nodes -> AgentRec]
  BY <1>4 DEF Tick
<1> QED BY <1>3, <1>5 DEF Tick, TypeOK, AgentRec

\* Whatever the times are: types are right, no timer is counted below 0, and no more than
\* MaxFailures calls of an agent are taken to fail in a row.
THEOREM AgentTypes == Spec => []TypeOK
<1>1. Init => TypeOK
  BY AgentInvInit DEF AgentInv
<1>2. TypeOK /\ [Next]_vars => TypeOK'
  <2> SUFFICES ASSUME TypeOK, [Next]_vars PROVE TypeOK'
    OBVIOUS
  <2>1. CASE UNCHANGED vars
    BY <2>1 DEF vars, TypeOK
  <2> QED BY <2>1, TypeOKLoop, TypeOKServe, TypeOKProcess, TypeOKServer, TypeOKTick
          DEF Next, Exit, Crash
<1> QED BY <1>1, <1>2, PTL DEF Spec

-----------------------------------------------------------------------------
\* If calls and sleeps fit into a lease as Timing says, an agent whose claim was granted has
\* the token until its process ends, whatever is lost or late.
THEOREM TokenIsKept == Timing => (Spec => []KeepsToken)
<1> SUFFICES ASSUME Timing PROVE Spec => []KeepsToken
  OBVIOUS
<1>1. Init => AgentInv
  BY AgentInvInit
<1>2. AgentInv /\ [Next]_vars => AgentInv'
  <2> SUFFICES ASSUME AgentInv, [Next]_vars PROVE AgentInv'
    OBVIOUS
  <2>1. CASE \E n \in Nodes : Start(n) \/ Loop(n) \/ Serve(n) \/ Signal(n) \/ Exit(n) \/ Crash(n)
    <3>1. PICK n \in Nodes : Start(n) \/ Loop(n) \/ Serve(n) \/ Signal(n) \/ Exit(n) \/ Crash(n)
      BY <2>1
    <3>2. CASE Loop(n)
      BY <3>2, AgentInvCall, AgentInvAnswer, AgentInvFail DEF Loop
    <3>3. CASE Exit(n) \/ Crash(n)
      BY <3>3, AgentInvGone DEF Exit, Crash
    <3> QED BY <3>1, <3>2, <3>3, AgentInvStart, AgentInvServe, AgentInvSignal
  <2>2. CASE \E r \in late : ServeLate(r)
    BY <2>2, AgentInvServeLate
  <2>3. CASE UNCHANGED vars
    BY <2>3 DEF vars, AgentInv, TypeOK, TimersOK, LeaseLasts, InCall, Running
  <2> QED BY <2>1, <2>2, <2>3, AgentInvRestart, AgentInvTick DEF Next
<1>3. AgentInv => KeepsToken
  BY DEF AgentInv, LeaseLasts, KeepsToken
<1> QED BY <1>1, <1>2, <1>3, PTL DEF Spec
=============================================================================
