----------------------------- MODULE Leadership ------------------------------
(* Who leads an instance, as /leader/status tells it.  Both roles read the   *)
(* instance's token field by field, under a mutex of their own, while the    *)
(* token operations write it under in.mu.                                    *)
(*                                                                           *)
(* So these reads race with those writes.  What orders them is that          *)
(* GetOrCreate has touched the instance under in.mu: a field reads as what   *)
(* it was then or as something that was written to it since, and a field of  *)
(* several words as anything, if it was written since.  A token operation is *)
(* one step: a read in the middle of it finds what a read after it may find. *)
EXTENDS TimedToken, FiniteSets, FiniteSetsExt

CONSTANTS
  Clients,      \* those who ask for the leader, each one request at a time
  MaxEpoch      \* bound: the last epoch issued

ASSUME LeadershipAssumption == MaxEpoch \in Nat /\ MaxClock \in Nat

VARIABLES
  ask,          \* ask[c]: the request of client c
  known,        \* history: the highest epoch of any answer
  told          \* history: the answers of requests without a write meanwhile

leadVars == <<clock, tok, ask, known, told>>

Roles == {"logistics", "benchmark"}

\* A holder's name put together from two.
Torn == "torn"

Resting == [stage |-> "resting"]

\* A request from its touch on: when that was, the highest epoch of any answer given
\* before it, and what the fields of the token have been since.
Asking(now, floor, t) ==
  [stage |-> "asking", since |-> now, floor |-> floor, quiet |-> TRUE,
   holders |-> {t.holder}, epochs |-> {t.epoch}, end |-> t.expiresAt]

-----------------------------------------------------------------------------
LeadInit ==
  /\ clock = 1
  /\ tok = NewToken
  /\ ask = [c \in Clients |-> Resting]
  /\ known = 0
  /\ told = {}

LeadTick ==
  /\ clock < MaxClock
  /\ clock' = clock + 1
  /\ UNCHANGED <<tok, ask, known, told>>

\* What a request can read when the token becomes t and then u.
Overwritten(req, t, u) ==
  IF req = Resting THEN req
  ELSE [req EXCEPT !.quiet = FALSE, !.holders = @ \cup {t.holder, u.holder},
                   !.epochs = @ \cup {t.epoch, u.epoch}]

\* A token handler that changes the token: what it writes are the expiry and then its own
\* assignments.  It may have waited for in.mu since now.
TokenRequest(n, op, now) ==
  LET t   == ExpireIfNeeded(tok, now)
      out == TokenOutcome(op, tok, n, now)
  IN  /\ Lapsed(tok, now) \/ out.action # "none"
      /\ out.tok.epoch <= MaxEpoch
      /\ tok' = out.tok
      /\ ask' = [c \in Clients |-> Overwritten(ask[c], t, out.tok)]
      /\ UNCHANGED <<clock, known, told>>

\* Wrong: the instance is found without taking in.mu.
TouchUnlocked(c) ==
  /\ ask[c] = Resting
  /\ ask' = [ask EXCEPT ![c] = [Asking(clock, known, tok) EXCEPT !.epochs = 0..tok.epoch]]
  /\ UNCHANGED <<clock, tok, known, told>>

\* GetOrCreate finds the instance and touches it.
Touch(c) ==
  /\ ask[c] = Resting
  /\ ask' = [ask EXCEPT ![c] = Asking(clock, known, tok)]
  /\ UNCHANGED <<clock, tok, known, told>>

\* Wrong: the end of the lease is not looked at.
HoldersEver(req, now) == req.holders

\* What Holder(now) returns.  At the last instant of its lease the holder still leads.
Holders(req, now) ==
  CASE req.quiet /\ now <= req.end -> req.holders
    [] req.quiet /\ now > req.end  -> {NoNode}
    [] OTHER -> req.holders \cup {NoNode}
                  \cup IF Cardinality(req.holders) > 1 THEN {Torn} ELSE {}

\* Holder(now), and then Epoch(), whose field is a single word.
Answers(req, now) == [holder : Holders(req, now), epoch : req.epochs]

\* The handler takes the time and asks both roles.
Reply(c) ==
  /\ ask[c] # Resting
  /\ \E now \in ask[c].since..clock :
       \E rep \in [Roles -> Answers(ask[c], now)] :
         /\ known' = Max({known} \cup {rep[role].epoch : role \in Roles})
         /\ told' = IF ask[c].quiet THEN told \cup {rep[role] : role \in Roles} ELSE told
  /\ ask' = [ask EXCEPT ![c] = Resting]
  /\ UNCHANGED <<clock, tok>>

LeadNext ==
  \/ LeadTick
  \/ \E n \in Nodes, op \in TokenOps, now \in 1..clock : TokenRequest(n, op, now)
  \/ \E c \in Clients : Touch(c) \/ Reply(c)

LeadSpec == LeadInit /\ [][LeadNext]_leadVars

-----------------------------------------------------------------------------
\* The epoch never goes back from an answer to the answer of a later request, whoever
\* asks and whatever is written meanwhile: the touch orders the unlocked read.
EpochsNeverGoBack ==
  \A c \in Clients : ask[c] # Resting => \A e \in ask[c].epochs : ask[c].floor <= e

\* Under one epoch no two leaders are named, unless the token was written during the
\* request.  (If it was, the holder may be the last one and the epoch the next, because
\* /leader/status asks for them one after the other.)
OneLeaderPerEpoch ==
  \A a, b \in told : a.epoch = b.epoch => a.holder = b.holder \/ NoNode \in {a.holder, b.holder}

\* Unless the token was written during the request, nobody can be named whose lease had
\* ended before it, and who holds a lease that runs cannot but be named.
NamesTheHolder ==
  \A c \in Clients : ask[c] # Resting /\ ask[c].quiet =>
    \A now \in ask[c].since..clock : \A leader \in Holders(ask[c], now) :
      /\ leader # NoNode => leader = tok.holder /\ ask[c].since <= tok.expiresAt
      /\ Active(tok, clock) => leader = tok.holder
=============================================================================
