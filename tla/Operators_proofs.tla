--------------------------- MODULE Operators_proofs ---------------------------
(* What the operators of the models return, keep and bound: induction over   *)
(* the numbers, selections from a sequence, the token's outcomes, the event  *)
(* log and the queue.                                                        *)
EXTENDS TokenState, EventLog, QueueState, SequenceTheorems, FiniteSetTheorems, TLAPS

-----------------------------------------------------------------------------
(* Selections. *)

\* What a surjection reaches.
LEMMA IsSurj ==
  ASSUME NEW S, NEW T, NEW f \in Surjection(S, T), NEW t \in T
  PROVE  \E x \in S : f[x] = t
BY DEF Surjection

\* Induction over the numbers, about a set: the library's own theorem takes the
\* predicate as a parameter.  The numbers 0..n outside S would be a finite set
\* that m |-> m - 1 maps into itself, one to one and not onto.
LEMMA SetInduction ==
  ASSUME NEW S, 0 \in S, \A n \in Nat : n \in S => n + 1 \in S
  PROVE  Nat \subseteq S
<1> SUFFICES ASSUME NEW n \in Nat, n \notin S PROVE FALSE
  OBVIOUS
<1> DEFINE T == {m \in 0..n : m \notin S}
           pred == [m \in T |-> m - 1]
<1>1. IsFiniteSet(T)
  <2>1. IsFiniteSet(0..n)
    BY FS_Interval
  <2>2. QED BY <2>1, FS_Subset
<1>2. \A m \in T : m - 1 \in T
  <2> SUFFICES ASSUME NEW m \in T PROVE m - 1 \in T
    OBVIOUS
  <2>1. m \in Nat /\ m # 0 /\ m <= n
    OBVIOUS
  <2>2. m - 1 \in Nat /\ (m - 1) + 1 = m
    BY <2>1
  <2>3. m - 1 \notin S
    BY <2>2
  <2>4. QED BY <2>1, <2>2, <2>3
<1>3. pred \in Injection(T, T)
  BY <1>2 DEF Injection, IsInjective
<1> HIDE DEF pred
<1>4. pred \in Surjection(T, T)
  BY <1>1, <1>3, FS_Injection
<1>5. n \in T
  OBVIOUS
<1>6. PICK m \in T : pred[m] = n
  BY <1>4, <1>5, IsSurj
<1>7. m - 1 = n /\ m \in 0..n
  BY <1>6 DEF pred
<1>8. QED BY <1>7

\* Selected goes through the sequence, and appends what is chosen.
LEMMA SelectedStep ==
  ASSUME NEW X, NEW s \in Seq(X), NEW I
  PROVE  \E f \in [0..Len(s) -> Seq(X)] :
           /\ Selected(s, I) = f[Len(s)]
           /\ f[0] = <<>>
           /\ \A n \in 1..Len(s) :
                f[n] = IF n \in I THEN Append(f[n - 1], s[n]) ELSE f[n - 1]
<1> DEFINE N == Len(s)
<1>1. N \in Nat
  BY LenProperties
<1> DEFINE Good(g, k) == /\ g \in [0..k -> Seq(X)]
                         /\ g[0] = <<>>
                         /\ \A n \in 1..k :
                              g[n] = IF n \in I THEN Append(g[n - 1], s[n]) ELSE g[n - 1]
           K == {k \in Nat : k <= N => \E g : Good(g, k)}
<1> HIDE DEF N
<1>2. 0 \in K
  <2>1. Good([i \in 0..0 |-> <<>>], 0)
    BY EmptySeq
  <2>2. QED BY <2>1
<1>3. ASSUME NEW k \in Nat, k \in K PROVE k + 1 \in K
  <2> HIDE DEF Good
  <2> SUFFICES ASSUME k + 1 <= N PROVE \E g : Good(g, k + 1)
    OBVIOUS
  <2>1. k <= N
    BY <1>1
  <2>2. PICK g : Good(g, k)
    BY <1>3, <2>1
  <2> USE DEF Good
  <2> DEFINE last == IF k + 1 \in I THEN Append(g[k], s[k + 1]) ELSE g[k]
             h == [i \in 0..(k + 1) |-> IF i = k + 1 THEN last ELSE g[i]]
  <2>3. g[k] \in Seq(X) /\ s[k + 1] \in X
    <3>1. k + 1 \in 1..Len(s)
      BY <1>1 DEF N
    <3>2. QED BY <2>2, <3>1, ElementOfSeq
  <2>4. last \in Seq(X)
    BY <2>3, AppendProperties
  <2> HIDE DEF last
  <2>5. h \in [0..(k + 1) -> Seq(X)] /\ h[0] = <<>>
    BY <2>2, <2>4
  <2>6. ASSUME NEW n \in 1..(k + 1)
        PROVE  h[n] = IF n \in I THEN Append(h[n - 1], s[n]) ELSE h[n - 1]
    <3>1. CASE n = k + 1
      BY <3>1 DEF last
    <3>2. CASE n # k + 1
      <4>1. n \in 1..k /\ n - 1 \in 0..k /\ n - 1 # k + 1
        BY <3>2
      <4>2. h[n] = g[n] /\ h[n - 1] = g[n - 1]
        BY <3>2, <4>1
      <4> HIDE DEF h
      <4>3. g[n] = IF n \in I THEN Append(g[n - 1], s[n]) ELSE g[n - 1]
        BY <2>2, <4>1
      <4>4. QED BY <4>2, <4>3
    <3>3. QED BY <3>1, <3>2
  <2> HIDE DEF h
  <2>7. Good(h, k + 1)
    BY <2>5, <2>6
  <2>8. QED BY <2>7
<1>4. N \in K
  <2> HIDE DEF K
  <2>1. QED BY <1>1, <1>2, <1>3, SetInduction
<1>5. PICK g : Good(g, N)
  <2> HIDE DEF Good
  <2>1. QED BY <1>1, <1>4
<1> DEFINE Eq(f) == f = [n \in 0..Len(s) |->
                           IF n = 0 THEN <<>>
                           ELSE IF n \in I THEN Append(f[n - 1], s[n]) ELSE f[n - 1]]
           upto == CHOOSE f : Eq(f)
<1>6. Eq(g)
  <2>1. \A n \in 0..N : n = 0 \/ n \in 1..N
    BY <1>1
  <2>2. \A n \in 0..N : g[n] = IF n = 0 THEN <<>>
                               ELSE IF n \in I THEN Append(g[n - 1], s[n]) ELSE g[n - 1]
    BY <1>5, <2>1
  <2>3. g = [n \in 0..N |-> g[n]]
    BY <1>5
  <2>4. QED BY <2>2, <2>3 DEF N
<1>7. Eq(upto)
  <2> HIDE DEF Eq
  <2>1. QED BY <1>6
<1>8. Selected(s, I) = upto[Len(s)]
  BY DEF Selected
<1> HIDE DEF upto
<1>9. upto[0] = <<>>
      /\ \A n \in 1..N : upto[n] = IF n \in I THEN Append(upto[n - 1], s[n]) ELSE upto[n - 1]
  <2>1. \A n \in 0..N : upto[n] = IF n = 0 THEN <<>>
                               ELSE IF n \in I THEN Append(upto[n - 1], s[n]) ELSE upto[n - 1]
    BY <1>7 DEF N
  <2>2. 0 \in 0..N /\ \A n \in 1..N : n \in 0..N /\ n # 0
    BY <1>1
  <2>3. QED BY <2>1, <2>2
<1>10. upto \in [0..Len(s) -> Seq(X)]
  <2>1. upto = [n \in 0..N |-> upto[n]]
    BY <1>7 DEF N
  <2>2. \A n \in 0..N : upto[n] = g[n]
    <3> DEFINE E == {n \in Nat : n <= N => upto[n] = g[n]}
    <3>1. 0 \in E
      BY <1>5, <1>9
    <3>2. ASSUME NEW n \in Nat, n \in E PROVE n + 1 \in E
      <4> SUFFICES ASSUME n + 1 <= N PROVE upto[n + 1] = g[n + 1]
        OBVIOUS
      <4>1. n <= N /\ n + 1 \in 1..N /\ (n + 1) - 1 = n
        BY <1>1
      <4>2. upto[n] = g[n]
        BY <3>2, <4>1
      <4>3. upto[n + 1] = IF n + 1 \in I THEN Append(upto[n], s[n + 1]) ELSE upto[n]
        BY <1>9, <4>1
      <4>4. g[n + 1] = IF n + 1 \in I THEN Append(g[n], s[n + 1]) ELSE g[n]
        BY <1>5, <4>1
      <4>5. QED BY <4>2, <4>3, <4>4
    <3> HIDE DEF E
    <3>3. Nat \subseteq E
      BY <3>1, <3>2, SetInduction
    <3>4. QED BY <1>1, <3>3 DEF E
  <2>3. QED BY <1>5, <2>1, <2>2 DEF N
<1>11. QED BY <1>8, <1>9, <1>10 DEF N

\* It returns the chosen entries, all of them, in their order.
LEMMA SelectedEntries ==
  ASSUME NEW X, NEW s \in Seq(X), NEW I
  PROVE  LET out == Selected(s, I)
         IN  /\ out \in Seq(X)
             /\ \E h \in [1..Len(out) -> 1..Len(s)] :
                  /\ \A k \in 1..Len(out) : h[k] \in I /\ out[k] = s[h[k]]
                  /\ \A k, l \in 1..Len(out) : k < l => h[k] < h[l]
                  /\ \A i \in 1..Len(s) : i \in I => \E k \in 1..Len(out) : h[k] = i
<1> DEFINE N == Len(s)
<1>1. N \in Nat
  BY LenProperties
<1>2. PICK f \in [0..Len(s) -> Seq(X)] :
        /\ Selected(s, I) = f[Len(s)]
        /\ f[0] = <<>>
        /\ \A n \in 1..Len(s) :
             f[n] = IF n \in I THEN Append(f[n - 1], s[n]) ELSE f[n - 1]
  BY SelectedStep
<1> DEFINE Emb(h, out, n) ==
             /\ h \in [1..Len(out) -> 1..n]
             /\ \A k \in 1..Len(out) : h[k] \in I /\ out[k] = s[h[k]]
             /\ \A k, l \in 1..Len(out) : k < l => h[k] < h[l]
             /\ \A i \in 1..n : i \in I => \E k \in 1..Len(out) : h[k] = i
           E == {n \in Nat : n <= N => \E h : Emb(h, f[n], n)}
<1>3. 0 \in E
  <2>1. Len(f[0]) = 0 /\ 1..0 = {}
    BY <1>2, EmptySeq
  <2>2. Emb([k \in 1..0 |-> k], f[0], 0)
    BY <2>1
  <2>3. QED BY <2>2
<1>4. ASSUME NEW n \in Nat, n \in E PROVE n + 1 \in E
  <2> HIDE DEF Emb
  <2> SUFFICES ASSUME n + 1 <= N PROVE \E h : Emb(h, f[n + 1], n + 1)
    OBVIOUS
  <2>1. n <= N /\ n + 1 \in 1..Len(s) /\ (n + 1) - 1 = n /\ n \in 0..Len(s)
    BY <1>1
  <2>2. PICK g : Emb(g, f[n], n)
    BY <1>4, <2>1
  <2> USE DEF Emb
  <2>3. f[n + 1] = IF n + 1 \in I THEN Append(f[n], s[n + 1]) ELSE f[n]
    BY <1>2, <2>1
  <2>4. f[n] \in Seq(X) /\ s[n + 1] \in X
    BY <1>2, <2>1, ElementOfSeq
  <2> DEFINE out == f[n]
             m == Len(out)
  <2>5. m \in Nat
    BY <2>4, LenProperties
  <2>6. CASE n + 1 \notin I
    <3>1. f[n + 1] = f[n]
      BY <2>3, <2>6
    <3>2. \A i \in 1..(n + 1) : i \in 1..n \/ i = n + 1
      OBVIOUS
    <3>3. g \in [1..m -> 1..(n + 1)]
      <4>1. 1..n \subseteq 1..(n + 1)
        OBVIOUS
      <4>2. QED BY <2>2, <4>1
    <3>4. Emb(g, f[n], n + 1)
      BY <2>2, <2>6, <3>2, <3>3
    <3> HIDE DEF Emb
    <3>5. QED BY <3>1, <3>4
  <2>7. CASE n + 1 \in I
    <3> DEFINE new == Append(out, s[n + 1])
               h == [k \in 1..(m + 1) |-> IF k = m + 1 THEN n + 1 ELSE g[k]]
    <3>1. f[n + 1] = new
      BY <2>3, <2>7
    <3>2. /\ Len(new) = m + 1 /\ new[m + 1] = s[n + 1]
          /\ \A k \in 1..m : new[k] = out[k]
      BY <2>4, AppendProperties
    <3> HIDE DEF new
    <3>3. g \in [1..m -> 1..n]
      BY <2>2
    <3>4. \A k \in 1..(m + 1) : k = m + 1 \/ k \in 1..m
      BY <2>5
    <3>5. /\ h[m + 1] = n + 1
          /\ \A k \in 1..m : k \in 1..(m + 1) /\ h[k] = g[k] /\ g[k] \in 1..n
      BY <2>5, <3>3
    <3> HIDE DEF h
    <3>6. h \in [1..(m + 1) -> 1..(n + 1)]
      <4>1. \A k \in 1..(m + 1) : h[k] \in 1..(n + 1)
        BY <3>4, <3>5
      <4>2. h = [k \in 1..(m + 1) |-> h[k]]
        BY DEF h
      <4>3. QED BY <4>1, <4>2
    <3> HIDE DEF m, out
    <3>7. \A k \in 1..m : g[k] \in I /\ out[k] = s[g[k]]
      BY <2>2 DEF m, out
    <3>8. \A k \in 1..(m + 1) : h[k] \in I /\ new[k] = s[h[k]]
      BY <2>7, <3>2, <3>4, <3>5, <3>7
    <3>9. \A k, l \in 1..m : k < l => g[k] < g[l]
      BY <2>2 DEF m, out
    <3>10. ASSUME NEW k \in 1..(m + 1), NEW l \in 1..(m + 1), k < l PROVE h[k] < h[l]
      <4>1. CASE l = m + 1
        <5>1. k \in 1..m
          BY <2>5, <3>4, <3>10, <4>1
        <5>2. QED BY <3>5, <4>1, <5>1
      <4>2. CASE l # m + 1
        <5>1. l \in 1..m /\ k \in 1..m
          BY <2>5, <3>4, <3>10, <4>2
        <5>2. QED BY <3>5, <3>9, <3>10, <5>1
      <4>3. QED BY <4>1, <4>2
    <3>11. ASSUME NEW i \in 1..(n + 1), i \in I PROVE \E k \in 1..(m + 1) : h[k] = i
      <4>1. CASE i = n + 1
        BY <2>5, <3>5, <4>1
      <4>2. CASE i # n + 1
        <5>1. i \in 1..n
          BY <4>2
        <5>2. PICK k \in 1..m : g[k] = i
          BY <2>2, <3>11, <5>1 DEF m, out
        <5>3. QED BY <3>5, <5>2
      <4>3. QED BY <4>1, <4>2
    <3>12. Emb(h, new, n + 1)
      BY <3>2, <3>6, <3>8, <3>10, <3>11
    <3>13. QED BY <3>1, <3>12
  <2>8. QED BY <2>6, <2>7
<1> HIDE DEF E
<1>5. Nat \subseteq E
  BY <1>3, <1>4, SetInduction
<1>6. \E h : Emb(h, f[N], N)
  <2>1. N \in E /\ N <= N
    BY <1>1, <1>5
  <2>2. QED BY <2>1 DEF E
<1>7. f[N] \in Seq(X)
  BY <1>1, <1>2
<1>8. PICK h : Emb(h, f[N], N)
  BY <1>6
<1> DEFINE out == Selected(s, I)
<1>9. out = f[N]
  BY <1>2
<1>10. /\ h \in [1..Len(out) -> 1..Len(s)]
       /\ \A k \in 1..Len(out) : h[k] \in I /\ out[k] = s[h[k]]
       /\ \A k, l \in 1..Len(out) : k < l => h[k] < h[l]
       /\ \A i \in 1..Len(s) : i \in I => \E k \in 1..Len(out) : h[k] = i
  BY <1>8, <1>9
<1>11. out \in Seq(X)
  BY <1>7, <1>9
<1> HIDE DEF out
<1>12. QED BY <1>10, <1>11 DEF out
-----------------------------------------------------------------------------
(* What an operation can make of the token. *)

\* The five things a token operation can do: nothing, expire a lapsed lease,
\* issue a free or lapsed token, extend the holder's lease, release it.
LEMMA OutcomeCases ==
  ASSUME NEW s \in State, NEW n \in Nodes, NEW now \in Nat, NEW op \in TokenOps,
         NEW out, out = TokenOutcome(op, s, n, now)
  PROVE  \/ ~ Lapsed(s, now) /\ out = Outcome(s, "none", out.err)
            /\ (op \in {"claim", "renew"} => out.err # "ok")
         \/ Lapsed(s, now) /\ out = Outcome(Cleared(s), "none", out.err)
            /\ (op \in {"claim", "renew"} => out.err # "ok")
         \/ (s.holder = NoNode \/ Lapsed(s, now))
            /\ op = "claim" /\ out = Outcome(Issued(s, n, now), "claim", "ok")
         \/ s.holder = n /\ ~ Lapsed(s, now)
            /\ op \in {"claim", "renew"} /\ out = Outcome(Extended(s, now), "renew", "ok")
         \/ s.holder = n /\ ~ Lapsed(s, now)
            /\ op = "release" /\ out = Outcome(Cleared(s), "release", "ok")
<1> DEFINE t == ExpireIfNeeded(s, now)
<1>1. /\ Lapsed(s, now) => t = Cleared(s) /\ t.holder = NoNode
      /\ ~ Lapsed(s, now) => t = s
  BY DEF ExpireIfNeeded, Cleared, State
<1>2. n # NoNode
  BY NodesAssumption
<1>3. Issued(t, n, now) = Issued(s, n, now)
  BY <1>1 DEF Issued, Cleared, State
<1> HIDE DEF t
<1>4. CASE op = "claim"
  <2>1. out = ClaimOutcome(t, n, now)
    BY <1>4 DEF TokenOutcome, t
  <2>2. CASE t.holder = NoNode
    <3>1. out = Outcome(Issued(s, n, now), "claim", "ok")
      BY <1>2, <1>3, <2>1, <2>2 DEF ClaimOutcome
    <3>2. QED BY <1>1, <1>4, <2>2, <3>1 DEF Outcome
  <2>3. CASE t.holder = n
    <3>1. out = Outcome(Extended(t, now), "renew", "ok")
      BY <1>2, <2>1, <2>3 DEF ClaimOutcome
    <3>2. ~ Lapsed(s, now) /\ t = s
      BY <1>1, <1>2, <2>3
    <3>3. QED BY <1>4, <2>3, <3>1, <3>2 DEF Outcome
  <2>4. CASE t.holder # n /\ t.holder # NoNode
    <3>1. out = Outcome(t, "none", "conflict")
      BY <2>1, <2>4 DEF ClaimOutcome
    <3>2. QED BY <1>1, <3>1 DEF Outcome
  <2>5. QED BY <2>2, <2>3, <2>4
<1>5. CASE op = "renew"
  <2>1. out = RenewOutcome(t, n, now)
    BY <1>5 DEF TokenOutcome, t
  <2>2. CASE t.holder = n
    <3>1. out = Outcome(Extended(t, now), "renew", "ok")
      BY <1>2, <2>1, <2>2 DEF RenewOutcome
    <3>2. ~ Lapsed(s, now) /\ t = s
      BY <1>1, <1>2, <2>2
    <3>3. QED BY <1>5, <2>2, <3>1, <3>2 DEF Outcome
  <2>3. CASE t.holder # n
    <3>1. \E err \in {"not_held", "conflict"} :
            out = Outcome(t, "none", err)
      BY <2>1, <2>3 DEF RenewOutcome
    <3>2. QED BY <1>1, <3>1 DEF Outcome
  <2>4. QED BY <2>2, <2>3
<1>6. CASE op = "release"
  <2>1. out = ReleaseOutcome(t, n, now)
    BY <1>6 DEF TokenOutcome, t
  <2>2. CASE t.holder = n
    <3>1. out = Outcome(Cleared(t), "release", "ok")
      BY <1>2, <2>1, <2>2 DEF ReleaseOutcome
    <3>2. ~ Lapsed(s, now) /\ t = s
      BY <1>1, <1>2, <2>2
    <3>3. QED BY <1>6, <2>2, <3>1, <3>2 DEF Outcome
  <2>3. CASE t.holder # n
    <3>1. \E err \in {"ok", "conflict"} :
            out = Outcome(t, "none", err)
      BY <2>1, <2>3 DEF ReleaseOutcome
    <3>2. QED BY <1>1, <1>6, <3>1 DEF Outcome
  <2>4. QED BY <2>2, <2>3
<1>7. CASE op = "status"
  <2>1. out = Outcome(t, "none", "ok")
    BY <1>7 DEF TokenOutcome, StatusOutcome, t
  <2>2. QED BY <1>1, <1>7, <2>1 DEF Outcome
<1>8. QED BY <1>4, <1>5, <1>6, <1>7 DEF TokenOps

\* A token operation leaves a token.
LEMMA OutcomeType ==
  ASSUME NEW s \in State, NEW n \in Nodes, NEW now \in Nat, NEW op \in TokenOps
  PROVE  /\ TokenOutcome(op, s, n, now).tok \in State
         /\ TokenOutcome(op, s, n, now).action \in {"none", "claim", "renew", "release"}
<1>1. /\ Cleared(s) \in State
      /\ Issued(s, n, now) \in State
      /\ Extended(s, now) \in State
  BY LeaseTimeAssumption DEF Cleared, Issued, Extended, State, ZeroTime
<1>2. QED BY <1>1, OutcomeCases DEF Outcome

-----------------------------------------------------------------------------
(* The log. *)

\* Appending keeps at most MaxEvents events: the newest ones, the new one last.
LEMMA AppendEventProperties ==
  ASSUME NEW S, NEW evs \in Seq(S), NEW e \in S, Len(evs) <= MaxEvents,
         NEW new, new = AppendEvent(evs, e)
  PROVE  /\ new \in Seq(S)
         /\ Len(new) = IF Len(evs) < MaxEvents THEN Len(evs) + 1 ELSE MaxEvents
         /\ new[Len(new)] = e
         /\ \A i \in 1..(Len(new) - 1) : new[i] = evs[Len(evs) + 1 - Len(new) + i]
<1> DEFINE all == Append(evs, e)
<1>1. /\ all \in Seq(S) /\ Len(all) = Len(evs) + 1
      /\ \A i \in 1..Len(evs) : all[i] = evs[i]
      /\ all[Len(evs) + 1] = e
      /\ Len(evs) \in Nat
  BY AppendProperties, LenProperties
<1>2. MaxEvents \in Nat \ {0}
  BY MaxEventsAssumption
<1>3. CASE Len(evs) < MaxEvents
  <2>1. new = all
    BY <1>1, <1>2, <1>3 DEF AppendEvent, Retained
  <2>2. QED BY <1>1, <1>2, <1>3, <2>1
<1>4. CASE Len(evs) = MaxEvents
  <2>1. new = SubSeq(all, 2, Len(all))
    BY <1>1, <1>2, <1>4 DEF AppendEvent, Retained
  <2>2. \A i \in 2..Len(all) : all[i] \in S
    BY <1>1, ElementOfSeq
  <2>3. /\ SubSeq(all, 2, Len(all)) \in Seq(S)
        /\ Len(SubSeq(all, 2, Len(all))) = MaxEvents
        /\ \A i \in 1..MaxEvents : SubSeq(all, 2, Len(all))[i] = all[i + 1]
    BY <1>1, <1>2, <1>4, <2>2, SubSeqProperties
  <2> HIDE DEF all
  <2>4. /\ new \in Seq(S) /\ Len(new) = MaxEvents
        /\ \A i \in 1..MaxEvents : new[i] = all[i + 1]
    BY <1>2, <2>1, <2>3
  <2>5. new[MaxEvents] = e
    BY <1>1, <1>2, <1>4, <2>4
  <2>6. \A i \in 1..(MaxEvents - 1) : new[i] = evs[i + 1]
    BY <1>1, <1>2, <1>4, <2>4
  <2>7. \A i \in 1..(MaxEvents - 1) : Len(evs) + 1 - Len(new) + i = i + 1
    BY <1>1, <1>2, <1>4, <2>4
  <2>8. QED BY <1>2, <1>4, <2>4, <2>5, <2>6, <2>7
<1>5. QED BY <1>1, <1>2, <1>3, <1>4

\* The log evs of an instance that has recorded k events of S.
Numbered(S, evs, k) ==
  /\ evs \in Seq(S) /\ Len(evs) <= MaxEvents
  /\ k \in Nat /\ Len(evs) <= k
  /\ \A i \in 1..Len(evs) : evs[i].seq = k - Len(evs) + i

\* Recording an event keeps the numbers; what stays of the log keeps its place or moves up by
\* one.
LEMMA Recorded ==
  ASSUME NEW S, NEW evs, NEW k, Numbered(S, evs, k), NEW e \in S, e.seq = k + 1,
         NEW new, new = AppendEvent(evs, e)
  PROVE  /\ Numbered(S, new, k + 1)
         /\ Len(new) >= 1 /\ Len(new) \in Nat /\ new[Len(new)] = e
         /\ \E d \in {0, 1} : /\ d = Len(evs) + 1 - Len(new)
                              /\ \A i \in 1..(Len(new) - 1) :
                                   i + d \in 1..Len(evs) /\ new[i] = evs[i + d]
<1>1. /\ evs \in Seq(S) /\ Len(evs) <= MaxEvents /\ Len(evs) \in Nat
      /\ k \in Nat /\ Len(evs) <= k
      /\ \A i \in 1..Len(evs) : evs[i].seq = k - Len(evs) + i
      /\ MaxEvents \in Nat /\ MaxEvents >= 1
  BY LenProperties, MaxEventsAssumption DEF Numbered
<1> DEFINE d == Len(evs) + 1 - Len(new)
<1>2. /\ new \in Seq(S)
      /\ Len(new) = IF Len(evs) < MaxEvents THEN Len(evs) + 1 ELSE MaxEvents
      /\ new[Len(new)] = e
      /\ \A i \in 1..(Len(new) - 1) : new[i] = evs[d + i]
  <2>1. evs \in Seq(S) /\ e \in S /\ Len(evs) <= MaxEvents
    BY <1>1
  <2> HIDE DEF d
  <2>2. new \in Seq(S)
    BY <2>1, AppendEventProperties
  <2>3. Len(new) = IF Len(evs) < MaxEvents THEN Len(evs) + 1 ELSE MaxEvents
    BY <2>1, AppendEventProperties
  <2>4. new[Len(new)] = e
    BY <2>1, AppendEventProperties
  <2>5. \A i \in 1..(Len(new) - 1) : new[i] = evs[Len(evs) + 1 - Len(new) + i]
    BY <2>1, AppendEventProperties
  <2>6. QED BY <2>2, <2>3, <2>4, <2>5 DEF d
<1>3. /\ d \in {0, 1} /\ Len(new) \in Nat /\ Len(new) >= 1 /\ Len(new) <= MaxEvents
      /\ Len(new) = Len(evs) + 1 - d
  <2>1. CASE Len(evs) < MaxEvents
    BY <1>1, <1>2, <2>1
  <2>2. CASE Len(evs) = MaxEvents
    BY <1>1, <1>2, <2>2
  <2>3. QED BY <1>1, <2>1, <2>2
<1> HIDE DEF d
<1>4. ASSUME NEW i \in 1..(Len(new) - 1)
      PROVE  i + d \in 1..Len(evs) /\ new[i] = evs[i + d]
  <2>1. i + d \in 1..Len(evs) /\ d + i = i + d
    BY <1>1, <1>3
  <2>2. QED BY <1>2, <2>1
<1>5. ASSUME NEW i \in 1..Len(new) PROVE new[i].seq = k + 1 - Len(new) + i
  <2>1. CASE i = Len(new)
    <3>1. new[i].seq = k + 1
      BY <1>2, <2>1
    <3>2. QED BY <1>1, <1>3, <2>1, <3>1
  <2>2. CASE i # Len(new)
    <3>1. i \in 1..(Len(new) - 1)
      BY <1>3, <2>2
    <3>2. new[i] = evs[i + d] /\ i + d \in 1..Len(evs)
      BY <1>4, <3>1
    <3>3. new[i].seq = k - Len(evs) + (i + d)
      BY <1>1, <3>2
    <3>4. i \in Int
      BY <3>1
    <3>5. QED BY <1>1, <1>3, <3>3, <3>4
  <2>3. QED BY <2>1, <2>2
<1>6. Numbered(S, new, k + 1)
  <2>1. k + 1 \in Nat /\ Len(new) <= k + 1
    BY <1>1, <1>3
  <2>2. new \in Seq(S) /\ Len(new) <= MaxEvents
    BY <1>2, <1>3
  <2>3. \A i \in 1..Len(new) : new[i].seq = k + 1 - Len(new) + i
    BY <1>5
  <2>4. QED BY <2>1, <2>2, <2>3 DEF Numbered
<1>7. QED BY <1>2, <1>3, <1>4, <1>6 DEF d

-----------------------------------------------------------------------------
(* The queue. *)

\* Pruning keeps the unsettled items as they are and removes the acked ones.
LEMMA PrunedKeeps ==
  ASSUME NEW p
  PROVE  /\ Stored(Pruned(p)) = {e \in Stored(p) : ~ p.items[e].acked}
         /\ \A e \in Stored(Pruned(p)) : Pruned(p).items[e] = p.items[e]
         /\ Pruned(p).seen = p.seen
         /\ Pruned(p).items = [e \in Stored(Pruned(p)) |-> Pruned(p).items[e]]
BY DEF Pruned, Stored

\* An insertion adds the event and may remove acked ones; it changes no other item.
LEMMA EnqueuedCases ==
  ASSUME NEW p, NEW e, NEW it, NEW r, r = Enqueued(p, e, it), e \notin p.seen
  PROVE  /\ r.seen = p.seen \cup {e}
         /\ Stored(r) \subseteq Stored(p) \cup {e}
         /\ r.items = [d \in Stored(r) |-> r.items[d]]
         /\ \A d \in Stored(r) : r.items[d] = IF d = e THEN it ELSE p.items[d]
         /\ \A d \in (Stored(p) \cup {e}) \ Stored(r) :
              IF d = e THEN it.acked ELSE p.items[d].acked
<1> DEFINE grown == [order |-> Append(p.order, e),
                     items |-> [d \in Stored(p) \cup {e} |-> IF d = e THEN it ELSE p.items[d]],
                     seen  |-> p.seen \cup {e}]
<1>1. /\ Stored(grown) = Stored(p) \cup {e}
      /\ grown.seen = p.seen \cup {e}
      /\ grown.items = [d \in Stored(grown) |-> grown.items[d]]
      /\ \A d \in Stored(grown) : grown.items[d] = IF d = e THEN it ELSE p.items[d]
  BY DEF Stored
<1>2. r = grown \/ r = Pruned(grown)
  BY DEF Enqueued, Inserts
<1> HIDE DEF grown
<1>3. CASE r = grown
  BY <1>1, <1>3
<1>4. CASE r = Pruned(grown)
  <2>1. Stored(r) = {d \in Stored(grown) : ~ grown.items[d].acked}
    BY <1>4, PrunedKeeps
  <2>0. \A d \in Stored(Pruned(grown)) : Pruned(grown).items[d] = grown.items[d]
    BY PrunedKeeps
  <2>2. \A d \in Stored(r) : r.items[d] = grown.items[d]
    BY <1>4, <2>0
  <2>3. r.seen = grown.seen /\ r.items = [d \in Stored(r) |-> r.items[d]]
    BY <1>4, PrunedKeeps
  <2>4. QED BY <1>1, <2>1, <2>2, <2>3
<1>5. QED BY <1>2, <1>3, <1>4

\* Polling leases out ready items and touches no other.
LEMMA PolledItems ==
  ASSUME NEW p, NEW epoch, NEW now, NEW limit, NEW w,
         NEW out, out = Handed(p, epoch, now, limit),
         NEW r, r = Polled(p, out, w, now)
  PROVE  /\ \A e \in out : Ready(p, e, epoch, now)
         /\ Stored(r) = Stored(p) /\ r.seen = p.seen
         /\ r.items = [e \in Stored(p) |->
               IF e \in out THEN Leased(p.items[e], w, now) ELSE p.items[e]]
<1>1. \A e \in out : Ready(p, e, epoch, now)
  BY DEF Handed
<1>2. QED BY <1>1 DEF Polled, Stored

\* Leasing and acking keep the fields they do not assign.
LEMMA LeasedItem ==
  ASSUME NEW it \in Item, NEW w \in Workers, NEW now \in Nat
  PROVE  /\ Leased(it, w, now) \in Item
         /\ Leased(it, w, now).worker = w
         /\ Leased(it, w, now).leaseUntil = now + QueueLease
         /\ Leased(it, w, now).acked = it.acked
<1>1. now + QueueLease \in Nat
  BY QueueLeaseAssumption
<1>2. Leased(it, w, now) = [[it EXCEPT !.worker = w] EXCEPT !.leaseUntil = now + QueueLease]
  BY DEF Leased
<1>3. [it EXCEPT !.worker = w] \in Item /\ [it EXCEPT !.worker = w].acked = it.acked
      /\ [it EXCEPT !.worker = w].worker = w
  BY DEF Item
<1>4. QED BY <1>1, <1>2, <1>3 DEF Item

\* What an ack assigns.
LEMMA AckedItem ==
  ASSUME NEW it \in Item, NEW w \in Workers
  PROVE  /\ AckedBy(it, w) \in Item /\ AckedBy(it, w).acked
         /\ AckedBy(it, w).worker = it.worker
         /\ AckedBy(it, w).leaseUntil = it.leaseUntil
         /\ AckedBy(it, w).tokenEpoch = it.tokenEpoch
BY DEF AckedBy, Item
=============================================================================
