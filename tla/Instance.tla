------------------------------ MODULE Instance ------------------------------
(* The state of one instance that its token operations change together       *)
(* (src/internal/instance/instance.go): the token and the event log.  Each   *)
(* use of Operate stands for one critical section of in.mu.                  *)
EXTENDS TimedToken, EventLog

CONSTANT MaxSeq             \* bound: no request is taken in once seq has reached it

VARIABLES
  seq,          \* in.seq
  events        \* in.events

TokenEvent(k, action, t) ==
  [seq |-> k, action |-> action, holder |-> t.holder,
   epoch |-> t.epoch, expiresAt |-> t.expiresAt]
TokenEvents ==
  [seq : Nat, action : {"claim", "renew", "release", "expire"},
   holder : Nodes \cup {NoNode}, epoch : Nat, expiresAt : Nat]

-----------------------------------------------------------------------------
\* Wrong: the expiry is applied but not recorded.
OperateSilently(op, n, now) ==
  LET out == TokenOutcome(op, tok, n, now)
  IN  /\ tok' = out.tok
      /\ IF out.action = "none"
         THEN UNCHANGED <<seq, events>>
         ELSE /\ seq' = seq + 1
              /\ events' = AppendEvent(events, TokenEvent(seq + 1, out.action, out.tok))

\* Wrong: every operation records one event, refused ones included.
OperateLoudly(op, n, now) ==
  LET out == TokenOutcome(op, tok, n, now)
  IN  /\ tok' = out.tok
      /\ seq' = seq + 1
      /\ events' = AppendEvent(events,
                     TokenEvent(seq + 1, IF out.action = "none" THEN op ELSE out.action, out.tok))

\* One critical section of in.mu: expire, operate, record the events.
Operate(op, n, now) ==
  LET out     == TokenOutcome(op, tok, n, now)
      expired == Lapsed(tok, now)
      e1      == IF expired
                 THEN AppendEvent(events, TokenEvent(seq + 1, "expire", Cleared(tok)))
                 ELSE events
      s1      == IF expired THEN seq + 1 ELSE seq
  IN  /\ tok' = out.tok
      /\ IF out.action = "none"
         THEN seq' = s1 /\ events' = e1
         ELSE /\ seq' = s1 + 1
              /\ events' = AppendEvent(e1, TokenEvent(s1 + 1, out.action, out.tok))
=============================================================================
