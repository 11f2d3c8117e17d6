----------------------------- MODULE TokenState -----------------------------
(* The token record of one instance and what each token operation makes of   *)
(* it (src/internal/token/token.go, src/internal/instance/instance.go).      *)
(* The operators are pure: TokenService and Dispatch apply them in steps     *)
(* that stand for one critical section of in.mu.                             *)
EXTENDS Integers

CONSTANTS
  Nodes,        \* the node identifiers that clients send
  NoNode,       \* the empty HolderNodeID
  LeaseTime     \* Router.tokenLease, in clock ticks

ASSUME NodesAssumption == NoNode \notin Nodes
ASSUME LeaseTimeAssumption == LeaseTime \in Nat \ {0}

\* time.Time{}; the clock of every model starts above it.
ZeroTime == 0

State == [holder : Nodes \cup {NoNode}, issuedAt : Nat, expiresAt : Nat, epoch : Nat]

NewToken ==
  [holder |-> NoNode, issuedAt |-> ZeroTime, expiresAt |-> ZeroTime, epoch |-> 0]

Active(s, now) == s.holder # NoNode /\ now < s.expiresAt

\* Wrong: one tick too early.
LapsedEarly(s, now) == s.holder # NoNode /\ s.expiresAt <= now + 1

\* Wrong: no lease runs out.
LapsedNever(s, now) == FALSE

\* The condition under which expireIfNeededLocked clears the token.
Lapsed(s, now) == s.holder # NoNode /\ ~ Active(s, now)

\* Wrong: the whole state is reset, the epoch with it.
ClearedAll(s) == NewToken

\* What release and expiry leave behind: the epoch stays.
Cleared(s) ==
  [holder |-> NoNode, issuedAt |-> ZeroTime, expiresAt |-> ZeroTime, epoch |-> s.epoch]

\* expireIfNeededLocked.
ExpireIfNeeded(s, now) == IF Lapsed(s, now) THEN Cleared(s) ELSE s

\* Wrong: the epoch is not advanced.
IssuedSameEpoch(s, n, now) ==
  [holder |-> n, issuedAt |-> now, expiresAt |-> now + LeaseTime, epoch |-> s.epoch]

\* The assignment of TokenClaim to a free token.
Issued(s, n, now) ==
  [holder |-> n, issuedAt |-> now, expiresAt |-> now + LeaseTime, epoch |-> s.epoch + 1]

\* The assignment of TokenRenew, and of TokenClaim by the holder.
Extended(s, now) == [s EXCEPT !.expiresAt = now + LeaseTime]

-----------------------------------------------------------------------------
(* The outcome of an operation on a token t that has just been through       *)
(* ExpireIfNeeded: the token it leaves, the event it records ("none" for     *)
(* nothing) and its error.                                                   *)

Outcome(t, action, err) == [tok |-> t, action |-> action, err |-> err]

ClaimOutcome(t, n, now) ==
  CASE t.holder = NoNode -> Outcome(Issued(t, n, now), "claim", "ok")
    [] t.holder = n      -> Outcome(Extended(t, now), "renew", "ok")
    [] OTHER             -> Outcome(t, "none", "conflict")

RenewOutcome(t, n, now) ==
  CASE t.holder = NoNode -> Outcome(t, "none", "not_held")
    [] t.holder = n      -> Outcome(Extended(t, now), "renew", "ok")
    [] OTHER             -> Outcome(t, "none", "conflict")

\* Wrong: the holder is not compared with the caller.
ReleaseAnyones(t, n, now) ==
  IF t.holder = NoNode THEN Outcome(t, "none", "ok") ELSE Outcome(Cleared(t), "release", "ok")

ReleaseOutcome(t, n, now) ==
  CASE t.holder = NoNode -> Outcome(t, "none", "ok")
    [] t.holder = n      -> Outcome(Cleared(t), "release", "ok")
    [] OTHER             -> Outcome(t, "none", "conflict")

StatusOutcome(t, n, now) == Outcome(t, "none", "ok")

TokenOps == {"claim", "renew", "release", "status"}

TokenOutcome(op, s, n, now) ==
  LET t == ExpireIfNeeded(s, now)
  IN  CASE op = "claim"   -> ClaimOutcome(t, n, now)
        [] op = "renew"   -> RenewOutcome(t, n, now)
        [] op = "release" -> ReleaseOutcome(t, n, now)
        [] op = "status"  -> StatusOutcome(t, n, now)
=============================================================================
