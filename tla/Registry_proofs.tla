---------------------------- MODULE Registry_proofs ----------------------------
(* Proofs about Registry: while handlers are prompt, the janitor never takes *)
(* an instance away from a request or from a running lease.                  *)
EXTENDS Registry, SequenceTheorems, TLAPS

GenerationType == [tok : State, lastAccess : Nat, boot : Nat]
HandlerType    == [node : Nodes, op : Ops, inst : Nat, since : Nat]

RegistryTypeOK ==
  /\ clock \in Nat /\ boot \in Nat
  /\ instances \in Seq(GenerationType)
  /\ current \in {0} \cup Generations
  /\ condemned \in {0} \cup Generations
  /\ handlers \subseteq HandlerType
  /\ \A h \in handlers : h.inst \in Generations

\* A generation that nobody has used for longer than the ttl.
Idle(g) == instances[g].lastAccess + TTL < clock

\* A handler under way has used its instance when it began, less than MaxStall ago.
HandlerInv ==
  \A h \in handlers :
    /\ h.inst = current
    /\ h.since <= clock /\ clock <= h.since + MaxStall
    /\ h.since <= instances[h.inst].lastAccess

\* A lease ends at most LeaseTime after the last use of its instance.
AccessInv ==
  \A g \in Generations :
    /\ instances[g].lastAccess <= clock
    /\ instances[g].tok.expiresAt <= instances[g].lastAccess + LeaseTime
    /\ instances[g].boot <= boot

\* What the janitor deletes, and of the generations of one boot all but one, is idle.
IdleInv ==
  /\ condemned # 0 => condemned = current /\ Idle(condemned)
  /\ current # 0 => instances[current].boot = boot
  /\ \A g \in Generations : g # current => Idle(g) \/ instances[g].boot < boot
  /\ \A g, h \in Generations :
       g # h /\ instances[g].boot = instances[h].boot => Idle(g) \/ Idle(h)

JanitorInv == HandlerInv /\ AccessInv /\ IdleInv

-----------------------------------------------------------------------------
\* An operation leaves a token, and a lease that ends at most LeaseTime later
\* than its time or when the lease it found ended.
LEMMA OutcomeExpiry ==
  ASSUME NEW s \in State, NEW op \in TokenOps, NEW n \in Nodes, NEW now \in Nat
  PROVE  LET t == TokenOutcome(op, s, n, now).tok
         IN  /\ t \in State
             /\ t.expiresAt <= s.expiresAt \/ t.expiresAt <= now + LeaseTime
<1> DEFINE e == ExpireIfNeeded(s, now)
           t == TokenOutcome(op, s, n, now).tok
<1>1. e \in State /\ (e.expiresAt = s.expiresAt \/ e.expiresAt = 0)
  BY DEF ExpireIfNeeded, Cleared, State, ZeroTime
<1>2. t \in {e, Issued(e, n, now), Extended(e, now), Cleared(e)}
  <2>1. CASE op = "claim"
    BY <2>1 DEF TokenOutcome, ClaimOutcome, Outcome
  <2>2. CASE op = "renew"
    BY <2>2 DEF TokenOutcome, RenewOutcome, Outcome
  <2>3. CASE op = "release"
    BY <2>3 DEF TokenOutcome, ReleaseOutcome, Outcome
  <2>4. CASE op = "status"
    BY <2>4 DEF TokenOutcome, StatusOutcome, Outcome
  <2>5. QED BY <2>1, <2>2, <2>3, <2>4 DEF TokenOps
<1> HIDE DEF e
<1>3. /\ Issued(e, n, now) \in State /\ Issued(e, n, now).expiresAt = now + LeaseTime
      /\ Cleared(e) \in State /\ Cleared(e).expiresAt = 0
  BY <1>1, LeaseTimeAssumption DEF Issued, Cleared, State, ZeroTime
<1>4. Extended(e, now) \in State /\ Extended(e, now).expiresAt = now + LeaseTime
  BY <1>1, LeaseTimeAssumption DEF Extended, State
<1>5. s.expiresAt \in Nat /\ LeaseTime \in Nat /\ now + LeaseTime \in Nat
  BY LeaseTimeAssumption DEF State
<1>6. QED BY <1>1, <1>2, <1>3, <1>4, <1>5

\* What a request finds or creates: it has been used just now.
LEMMA GetOrCreateEffect ==
  ASSUME RegistryTypeOK, NEW n \in Nodes, NEW op \in Ops, GetOrCreate(n, op)
  PROVE  /\ instances' \in Seq(GenerationType)
         /\ condemned = 0 /\ UNCHANGED <<clock, boot, condemned>>
         /\ handlers' = handlers \cup {Handler(n, op, current')}
         /\ Handler(n, op, current') \in HandlerType
         /\ current' \in Generations' /\ current' # 0
         /\ instances'[current'].lastAccess = clock
         /\ \/ /\ current # 0 /\ current' = current /\ Generations' = Generations
               /\ instances'[current].tok = instances[current].tok
               /\ instances'[current].boot = instances[current].boot
            \/ /\ current = 0 /\ Generations' = Generations \cup {current'}
               /\ current' \notin Generations
               /\ instances'[current'].tok = NewToken
               /\ instances'[current'].boot = boot
         /\ \A g \in Generations : g # current => instances'[g] = instances[g]
<1>1. /\ Len(instances) \in Nat /\ DOMAIN instances = Generations
      /\ clock \in Nat /\ boot \in Nat
  BY LenProperties DEF RegistryTypeOK, Generations
<1>2. CASE current # 0
  <2>1. /\ instances' = [instances EXCEPT ![current].lastAccess = clock]
        /\ handlers' = handlers \cup {Handler(n, op, current)}
        /\ condemned = 0 /\ UNCHANGED <<clock, boot, current, condemned>>
    BY <1>2 DEF GetOrCreate, Touched
  <2>2. current \in Generations
    BY <1>2 DEF RegistryTypeOK
  <2>3. instances[current] \in GenerationType
    BY <1>1, <2>2, ElementOfSeq DEF RegistryTypeOK
  <2> DEFINE e == [instances[current] EXCEPT !.lastAccess = clock]
  <2>4. /\ e \in GenerationType /\ e.lastAccess = clock
        /\ e.tok = instances[current].tok /\ e.boot = instances[current].boot
    BY <1>1, <2>3 DEF GenerationType
  <2>5. instances' = [instances EXCEPT ![current] = e]
    BY <2>1
  <2> HIDE DEF e
  <2>6. /\ instances' \in Seq(GenerationType) /\ Len(instances') = Len(instances)
        /\ \A g \in Generations : instances'[g] = IF g = current THEN e ELSE instances[g]
    BY <1>1, <2>2, <2>4, <2>5, ExceptSeq DEF RegistryTypeOK
  <2>7. Generations' = Generations
    BY <2>6 DEF Generations
  <2>8. current \in Nat
    BY <1>1, <2>2 DEF Generations
  <2>9. Handler(n, op, current') \in HandlerType
    BY <1>1, <2>1, <2>8 DEF Handler, HandlerType
  <2>10. QED BY <1>2, <2>1, <2>2, <2>4, <2>6, <2>7, <2>9
<1>3. CASE current = 0
  <2> DEFINE e == Generation(NewToken, clock, boot)
             k == Len(instances) + 1
  <2>1. /\ instances' = Append(instances, e)
        /\ current' = k
        /\ handlers' = handlers \cup {Handler(n, op, k)}
        /\ condemned = 0 /\ UNCHANGED <<clock, boot, condemned>>
    BY <1>3 DEF GetOrCreate
  <2>2. /\ e \in GenerationType /\ e.lastAccess = clock
        /\ e.tok = NewToken /\ e.boot = boot
    BY <1>1 DEF Generation, GenerationType, NewToken, State, ZeroTime
  <2> HIDE DEF e
  <2>3. /\ instances' \in Seq(GenerationType) /\ Len(instances') = k
        /\ instances'[k] = e
        /\ \A g \in Generations : instances'[g] = instances[g]
    BY <1>1, <2>1, <2>2, AppendProperties DEF RegistryTypeOK, Generations
  <2>4. /\ Generations' = Generations \cup {k} /\ k \notin Generations
        /\ k \in Generations' /\ k # 0 /\ k \in Nat
    BY <1>1, <2>3 DEF Generations
  <2>5. Handler(n, op, k) \in HandlerType
    BY <1>1, <2>4 DEF Handler, HandlerType
  <2>6. QED BY <1>3, <2>1, <2>2, <2>3, <2>4, <2>5
<1>4. QED BY <1>2, <1>3

\* What a handler's work leaves: a token whose lease ends at most LeaseTime after
\* now or when the old one did, and an access no earlier than the last.
LEMMA ServeEffect ==
  ASSUME RegistryTypeOK, NEW h \in handlers, NEW now \in h.since..clock, Serve(h, now)
  PROVE  /\ instances' \in Seq(GenerationType) /\ Generations' = Generations
         /\ handlers' = handlers \ {h}
         /\ UNCHANGED <<clock, boot, current, condemned>>
         /\ \A g \in Generations : g # h.inst => instances'[g] = instances[g]
         /\ instances'[h.inst].boot = instances[h.inst].boot
         /\ \/ /\ instances'[h.inst].lastAccess = clock
               /\ \/ instances'[h.inst].tok.expiresAt <= instances[h.inst].tok.expiresAt
                  \/ instances'[h.inst].tok.expiresAt <= now + LeaseTime
            \/ instances'[h.inst] = instances[h.inst]
<1> DEFINE r == instances[h.inst]
           t == r.tok
           u == IF h.op \in TokenOps THEN TokenOutcome(h.op, t, h.node, now).tok ELSE t
           a == IF h.op = "pending" THEN r.lastAccess ELSE clock
           e == Generation(u, a, r.boot)
<1>1. /\ instances' = [instances EXCEPT ![h.inst] = e]
      /\ handlers' = handlers \ {h}
      /\ UNCHANGED <<clock, boot, current, condemned>>
  BY DEF Serve
<1>2. /\ Len(instances) \in Nat /\ DOMAIN instances = Generations
      /\ clock \in Nat /\ h.inst \in Generations
  BY LenProperties DEF RegistryTypeOK, Generations
<1>3. r \in GenerationType
  BY <1>2, ElementOfSeq DEF RegistryTypeOK
<1>4. t \in State /\ r.lastAccess \in Nat /\ t.expiresAt \in Nat
  BY <1>3 DEF GenerationType, State
<1>5. h.node \in Nodes /\ h.op \in Ops /\ now \in Nat
  BY <1>2 DEF RegistryTypeOK, HandlerType
<1>6. /\ u \in State
      /\ u.expiresAt <= t.expiresAt \/ u.expiresAt <= now + LeaseTime
  BY <1>4, <1>5, OutcomeExpiry
<1>7. h.op = "pending" => u = t
  BY DEF TokenOps
<1> HIDE DEF u
<1>8. e \in GenerationType /\ e.tok = u /\ e.lastAccess = a /\ e.boot = r.boot
  BY <1>2, <1>3, <1>4, <1>6 DEF GenerationType, Generation
<1>9. h.op = "pending" => e = r
  BY <1>3, <1>7 DEF GenerationType, Generation
<1>10. h.op # "pending" => a = clock
  OBVIOUS
<1> HIDE DEF e
<1>11. /\ instances' \in Seq(GenerationType) /\ Len(instances') = Len(instances)
       /\ \A g \in Generations : instances'[g] = IF g = h.inst THEN e ELSE instances[g]
  BY <1>1, <1>2, <1>8, ExceptSeq DEF RegistryTypeOK
<1>12. Generations' = Generations
  BY <1>11 DEF Generations
<1>13. QED BY <1>1, <1>2, <1>6, <1>8, <1>9, <1>10, <1>11, <1>12

LEMMA RegistryTypes == Spec => []RegistryTypeOK
<1>1. Init => RegistryTypeOK
  BY EmptySeq DEF Init, RegistryTypeOK
<1>2. RegistryTypeOK /\ [Next]_vars => RegistryTypeOK'
  <2> SUFFICES ASSUME RegistryTypeOK, [Next]_vars PROVE RegistryTypeOK'
    OBVIOUS
  <2>1. ASSUME NEW n \in Nodes, NEW op \in Ops, GetOrCreate(n, op) PROVE RegistryTypeOK'
    <3>1. Handler(n, op, current').inst = current'
      BY DEF Handler
    <3>2. QED BY <2>1, <3>1, GetOrCreateEffect DEF RegistryTypeOK
  <2>2. ASSUME NEW h \in handlers, NEW now \in h.since..clock, Serve(h, now)
        PROVE  RegistryTypeOK'
    BY <2>2, ServeEffect DEF RegistryTypeOK
  <2>3. CASE Tick
    BY <2>3 DEF Tick, RegistryTypeOK, Generations
  <2>4. ASSUME NEW now \in 1..clock, Condemn(now) PROVE RegistryTypeOK'
    BY <2>4 DEF Condemn, RegistryTypeOK, Generations
  <2>5. CASE Sweep
    BY <2>5 DEF Sweep, RegistryTypeOK, Generations
  <2>6. CASE Restart
    BY <2>6 DEF Restart, RegistryTypeOK, Generations
  <2>7. CASE UNCHANGED vars
    BY <2>7 DEF vars, RegistryTypeOK, Generations
  <2>8. QED BY <2>1, <2>2, <2>3, <2>4, <2>5, <2>6, <2>7 DEF Next
<1>3. QED BY <1>1, <1>2, PTL DEF Spec

-----------------------------------------------------------------------------
\* An idle instance has no prompt handler and no live lease.
LEMMA NothingOnIdle ==
  ASSUME RegistryTypeOK, HandlerInv, AccessInv, Prompt, NEW g \in Generations, Idle(g)
  PROVE  /\ ~ Live(g)
         /\ g = current => handlers = {}
<1>1. instances[g] \in GenerationType
  BY LenProperties, ElementOfSeq DEF RegistryTypeOK, Generations
<1>2. /\ instances[g].lastAccess \in Nat /\ instances[g].tok.expiresAt \in Nat
      /\ clock \in Nat /\ LeaseTime \in Nat /\ TTL \in Nat /\ MaxStall \in Nat
      /\ LeaseTime <= TTL /\ MaxStall <= TTL
  BY <1>1, LeaseTimeAssumption, RegistryAssumption
  DEF GenerationType, State, RegistryTypeOK, Prompt
<1>3. ~ Live(g)
  BY <1>2 DEF AccessInv, Idle, Live, Active
<1>4. ASSUME g = current, NEW h \in handlers PROVE FALSE
  <2>1. h.since \in Nat
    BY DEF RegistryTypeOK, HandlerType
  <2>2. h.since <= instances[g].lastAccess /\ clock <= h.since + MaxStall
    BY <1>4 DEF HandlerInv
  <2>3. QED BY <1>2, <2>1, <2>2 DEF Idle
<1>5. QED BY <1>3, <1>4

\* One step: found and created instances are fresh, work on an instance refreshes
\* it, and the janitor only takes what is idle.
LEMMA JanitorStep ==
  ASSUME RegistryTypeOK, RegistryTypeOK', JanitorInv, Prompt, [Next]_vars
  PROVE  JanitorInv'
<1>1. /\ clock \in Nat /\ boot \in Nat /\ LeaseTime \in Nat /\ TTL \in Nat
      /\ MaxStall \in Nat
      /\ \A g \in Generations : /\ instances[g] \in GenerationType
                               /\ instances[g].lastAccess \in Nat
                               /\ instances[g].tok.expiresAt \in Nat
                               /\ instances[g].boot \in Nat
      /\ \A h \in handlers : h.since \in Nat /\ h.inst \in Generations
      /\ 0 \notin Generations
  <2>1. ASSUME NEW g \in Generations PROVE instances[g] \in GenerationType
    BY LenProperties, ElementOfSeq DEF RegistryTypeOK, Generations
  <2>2. ASSUME NEW g \in Generations
        PROVE  /\ instances[g].lastAccess \in Nat /\ instances[g].boot \in Nat
               /\ instances[g].tok.expiresAt \in Nat
    BY <2>1 DEF GenerationType, State
  <2>3. 0 \notin Generations
    BY DEF Generations
  <2>4. \A h \in handlers : h.since \in Nat /\ h.inst \in Generations
    BY DEF RegistryTypeOK, HandlerType
  <2>5. QED BY <2>1, <2>2, <2>3, <2>4, LeaseTimeAssumption, RegistryAssumption
    DEF RegistryTypeOK
<1>2. ASSUME NEW n \in Nodes, NEW op \in Ops, GetOrCreate(n, op) PROVE JanitorInv'
  <2> DEFINE c == current'
  <2>1. /\ condemned' = 0 /\ UNCHANGED <<clock, boot>>
        /\ handlers' = handlers \cup {Handler(n, op, c)}
        /\ c \in Generations' /\ instances'[c].lastAccess = clock
        /\ Generations' = Generations \cup {c}
        /\ c = current \/ current = 0
        /\ c \notin Generations => current = 0
        /\ instances'[c].boot = boot
        /\ instances'[c].tok.expiresAt <= clock + LeaseTime
        /\ \A g \in Generations : g # c => instances'[g] = instances[g]
    <3>1. NewToken.expiresAt = 0
      BY DEF NewToken, ZeroTime
    <3>2. CASE current # 0
      <4>1. c = current /\ c \in Generations
        BY <1>2, <3>2, GetOrCreateEffect DEF RegistryTypeOK
      <4>2. instances[c].boot = boot
        BY <3>2, <4>1 DEF JanitorInv, IdleInv
      <4>3. instances[c].tok.expiresAt <= clock + LeaseTime
        BY <1>1, <4>1 DEF JanitorInv, AccessInv
      <4>4. QED BY <1>2, <3>2, <4>1, <4>2, <4>3, GetOrCreateEffect
    <3>3. CASE current = 0
      <4>1. \A g \in Generations : g # current
        BY <1>1, <3>3
      <4>2. /\ Generations' = Generations \cup {c} /\ c \notin Generations
            /\ instances'[c].tok = NewToken /\ instances'[c].boot = boot
        BY <1>2, <3>3, GetOrCreateEffect
      <4>3. QED BY <1>1, <1>2, <3>1, <3>3, <4>1, <4>2, GetOrCreateEffect
    <3>4. QED BY <3>2, <3>3
  <2>2. HandlerInv'
    <3>1. /\ Handler(n, op, c).inst = c /\ Handler(n, op, c).since = clock
      BY DEF Handler
    <3>2. ASSUME NEW h \in handlers
          PROVE  h.inst = c /\ h.since <= clock /\ clock <= h.since + MaxStall
                 /\ h.since <= instances'[h.inst].lastAccess
      BY <1>1, <2>1, <3>2 DEF JanitorInv, HandlerInv
    <3>3. QED BY <1>1, <2>1, <3>1, <3>2 DEF HandlerInv
  <2>3. AccessInv'
    BY <1>1, <2>1 DEF JanitorInv, AccessInv
  <2>4. ASSUME NEW g \in Generations', g # c
        PROVE  /\ g \in Generations /\ instances'[g] = instances[g]
               /\ Idle(g)' = Idle(g) /\ g # current
               /\ Idle(g)' \/ instances[g].boot < boot
    <3>1. g \in Generations /\ instances'[g] = instances[g] /\ g # current
      BY <1>1, <2>1, <2>4
    <3>2. Idle(g)' = Idle(g)
      BY <2>1, <3>1 DEF Idle
    <3>3. QED BY <3>1, <3>2 DEF JanitorInv, IdleInv
  <2>5. IdleInv'
    <3>1. ASSUME NEW g \in Generations', NEW h \in Generations',
                 g # h, instances'[g].boot = instances'[h].boot
          PROVE  Idle(g)' \/ Idle(h)'
      <4>1. CASE g = c
        BY <1>1, <2>1, <2>4, <3>1, <4>1
      <4>2. CASE h = c
        BY <1>1, <2>1, <2>4, <3>1, <4>2
      <4>3. CASE g # c /\ h # c
        BY <2>4, <3>1, <4>3 DEF JanitorInv, IdleInv
      <4>4. QED BY <4>1, <4>2, <4>3
    <3>2. QED BY <2>1, <2>4, <3>1 DEF IdleInv
  <2>6. QED BY <2>2, <2>3, <2>5 DEF JanitorInv
<1>3. ASSUME NEW h \in handlers, NEW now \in h.since..clock, Serve(h, now)
      PROVE  JanitorInv'
  <2>1. h.inst = current /\ current \in Generations
    BY <1>1 DEF JanitorInv, HandlerInv
  <2>2. condemned = 0
    BY <1>1, <2>1, NothingOnIdle DEF JanitorInv, IdleInv
  <2>3. now \in Nat /\ now <= clock
    BY <1>1
  <2>4. /\ handlers' = handlers \ {h} /\ UNCHANGED <<clock, boot, current, condemned>>
        /\ Generations' = Generations
        /\ \A g \in Generations :
             /\ instances'[g].boot = instances[g].boot
             /\ g # current => instances'[g] = instances[g]
             /\ instances'[g].lastAccess <= clock
             /\ instances[g].lastAccess <= instances'[g].lastAccess
             /\ instances'[g].tok.expiresAt <= instances'[g].lastAccess + LeaseTime
    <3>1. /\ handlers' = handlers \ {h} /\ UNCHANGED <<clock, boot, current, condemned>>
          /\ Generations' = Generations
          /\ \A g \in Generations : g # current => instances'[g] = instances[g]
          /\ instances'[current].boot = instances[current].boot
          /\ \/ /\ instances'[current].lastAccess = clock
                /\ \/ instances'[current].tok.expiresAt <= instances[current].tok.expiresAt
                   \/ instances'[current].tok.expiresAt <= now + LeaseTime
             \/ instances'[current] = instances[current]
      BY <1>3, <2>1, ServeEffect
    <3>2. instances'[current].tok.expiresAt \in Nat
      <4>1. \A g \in Generations' : instances'[g] \in GenerationType
        BY LenProperties, ElementOfSeq DEF RegistryTypeOK, Generations
      <4>2. instances'[current] \in GenerationType
        BY <2>1, <3>1, <4>1
      <4>3. QED BY <4>2 DEF GenerationType, State
    <3>3. \A g \in Generations :
            /\ instances[g].lastAccess <= clock
            /\ instances[g].tok.expiresAt <= instances[g].lastAccess + LeaseTime
      BY DEF JanitorInv, AccessInv
    <3>4. ASSUME NEW g \in Generations
          PROVE  /\ instances'[g].lastAccess <= clock
                 /\ instances[g].lastAccess <= instances'[g].lastAccess
                 /\ instances'[g].tok.expiresAt <= instances'[g].lastAccess + LeaseTime
      BY <1>1, <2>1, <2>3, <3>1, <3>2, <3>3
    <3>5. QED BY <2>1, <3>1, <3>4
  <2>5. \A g \in Generations : instances'[g].lastAccess \in Nat
    <3>1. \A g \in Generations' : instances'[g] \in GenerationType
      BY LenProperties, ElementOfSeq DEF RegistryTypeOK, Generations
    <3>2. QED BY <2>4, <3>1 DEF GenerationType
  <2>6. HandlerInv'
    BY <1>1, <2>1, <2>4, <2>5 DEF JanitorInv, HandlerInv
  <2>7. AccessInv'
    BY <2>4 DEF JanitorInv, AccessInv
  <2>8. IdleInv'
    <3>1. \A g \in Generations : g # current => Idle(g)' = Idle(g)
      BY <2>4 DEF Idle
    <3>2. ASSUME NEW g \in Generations, NEW k \in Generations,
                 g # k, instances[g].boot = instances[k].boot
          PROVE  Idle(g)' \/ Idle(k)'
      <4>1. current # 0 /\ instances[current].boot = boot
        BY <1>1, <2>1 DEF JanitorInv, IdleInv
      <4>2. CASE g = current
        BY <1>1, <3>1, <3>2, <4>1, <4>2 DEF JanitorInv, IdleInv
      <4>3. CASE k = current
        BY <1>1, <3>1, <3>2, <4>1, <4>3 DEF JanitorInv, IdleInv
      <4>4. CASE g # current /\ k # current
        BY <3>1, <3>2, <4>4 DEF JanitorInv, IdleInv
      <4>5. QED BY <4>2, <4>3, <4>4
    <3>3. QED BY <2>1, <2>2, <2>4, <3>1, <3>2 DEF JanitorInv, IdleInv
  <2>9. QED BY <2>6, <2>7, <2>8 DEF JanitorInv
<1>4. CASE Tick
  <2>1. /\ clock' = clock + 1
        /\ \A h \in handlers : clock + 1 <= h.since + MaxStall
        /\ UNCHANGED <<boot, instances, current, condemned, handlers>>
    BY <1>4 DEF Tick
  <2>2. Generations' = Generations
    BY <2>1 DEF Generations
  <2>3. \A g \in Generations : Idle(g) => Idle(g)'
    BY <1>1, <2>1, RegistryAssumption DEF Idle
  <2>4. HandlerInv'
    BY <1>1, <2>1 DEF JanitorInv, HandlerInv
  <2>5. AccessInv'
    BY <1>1, <2>1, <2>2 DEF JanitorInv, AccessInv
  <2>6. IdleInv'
    BY <2>1, <2>2, <2>3 DEF JanitorInv, IdleInv, RegistryTypeOK
  <2>7. QED BY <2>4, <2>5, <2>6 DEF JanitorInv
<1>5. ASSUME NEW now \in 1..clock, Condemn(now) PROVE JanitorInv'
  <2>1. /\ current # 0 /\ current \in Generations
        /\ now > instances[current].lastAccess + TTL
        /\ condemned' = current
        /\ UNCHANGED <<clock, boot, instances, current, handlers>>
    BY <1>5 DEF Condemn, RegistryTypeOK
  <2>2. Idle(current)
    BY <1>1, <2>1 DEF Idle
  <2>3. QED BY <2>1, <2>2
    DEF JanitorInv, HandlerInv, AccessInv, IdleInv, Idle, Generations
<1>6. CASE Sweep
  <2>1. /\ condemned # 0 /\ current' = 0 /\ condemned' = 0
        /\ UNCHANGED <<clock, boot, instances, handlers>>
    BY <1>6 DEF Sweep
  <2>2. condemned = current /\ Idle(current) /\ current \in Generations
    BY <2>1 DEF JanitorInv, IdleInv, RegistryTypeOK
  <2>3. handlers = {}
    BY <2>2, NothingOnIdle DEF JanitorInv
  <2>4. \A g \in Generations : Idle(g) \/ instances[g].boot < boot
    BY <2>2 DEF JanitorInv, IdleInv
  <2>5. HandlerInv'
    BY <2>1, <2>3 DEF HandlerInv
  <2>6. QED BY <2>1, <2>4, <2>5 DEF JanitorInv, AccessInv, IdleInv, Idle, Generations
<1>7. CASE Restart
  <2>1. /\ boot' = boot + 1 /\ current' = 0 /\ condemned' = 0 /\ handlers' = {}
        /\ UNCHANGED <<clock, instances>>
    BY <1>7 DEF Restart
  <2>2. Generations' = Generations /\ \A g \in Generations : Idle(g)' = Idle(g)
    BY <2>1 DEF Generations, Idle
  <2>3. \A g \in Generations : instances[g].boot < boot + 1
    BY <1>1 DEF JanitorInv, AccessInv
  <2>4. HandlerInv'
    BY <2>1 DEF HandlerInv
  <2>5. AccessInv'
    BY <1>1, <2>1, <2>2 DEF JanitorInv, AccessInv
  <2>6. IdleInv'
    BY <2>1, <2>2, <2>3 DEF JanitorInv, IdleInv
  <2>7. QED BY <2>4, <2>5, <2>6 DEF JanitorInv
<1>8. CASE UNCHANGED vars
  BY <1>8 DEF vars, JanitorInv, HandlerInv, AccessInv, IdleInv, Idle, Generations
<1>9. QED BY <1>2, <1>3, <1>4, <1>5, <1>6, <1>7, <1>8 DEF Next

\* The invariant that the two theorems below rest on.
LEMMA JanitorInvariant ==
  ASSUME Prompt PROVE Spec => [](RegistryTypeOK /\ JanitorInv)
<1>1. Init => JanitorInv
  BY EmptySeq DEF Init, JanitorInv, HandlerInv, AccessInv, IdleInv, Generations
<1>2. RegistryTypeOK /\ RegistryTypeOK' /\ JanitorInv /\ [Next]_vars => JanitorInv'
  BY JanitorStep
<1>3. QED BY <1>1, <1>2, RegistryTypes, PTL DEF Spec

\* As long as no handler stalls for longer than the ttl, and a lease is not longer
\* than it, no request works on an instance that the sweep has deleted.
THEOREM NoOrphanInUseHolds == ASSUME Prompt PROVE Spec => []NoOrphanInUse
<1>1. JanitorInv => NoOrphanInUse
  BY DEF JanitorInv, HandlerInv, NoOrphanInUse
<1>2. QED BY <1>1, JanitorInvariant, PTL

\* Under the same hypothesis the sweep never splits the token.
THEOREM OneIssuerHolds == ASSUME Prompt PROVE Spec => []OneIssuer
<1>1. RegistryTypeOK /\ JanitorInv => OneIssuer
  <2> SUFFICES ASSUME RegistryTypeOK, JanitorInv,
                      NEW g \in Generations, NEW h \in Generations,
                      Live(g), Live(h), instances[g].boot = instances[h].boot, g # h
               PROVE  FALSE
    BY DEF OneIssuer
  <2>1. ~ Idle(g) /\ ~ Idle(h)
    BY NothingOnIdle DEF JanitorInv
  <2>2. QED BY <2>1 DEF JanitorInv, IdleInv
<1>2. QED BY <1>1, JanitorInvariant, PTL
=============================================================================
