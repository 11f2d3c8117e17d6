------------------------------ MODULE EventFeed ------------------------------
(* The event log of one instance behind /poll: token operations and          *)
(* heartbeats write it, and a client follows it by asking for what comes     *)
(* after the last number it has.  When the server is started again, or the   *)
(* janitor has swept the instance, the numbers begin at 1 again.             *)
(*                                                                           *)
(* The client is not part of the repository: it keeps a cursor, asks again   *)
(* when a reply is lost, and begins anew when a reply shows that the numbers *)
(* did.                                                                      *)
EXTENDS Instance

CONSTANTS
  Limit,        \* the limit of the client's polls: 128 by default, 512 at most
  MaxLives,     \* bound: lives of the instance
  MaxLost       \* bound: replies that are lost

\* The limits that parsePollQuery lets through.
Limits == 1..512

ASSUME FeedAssumption ==
  /\ Limit \in Limits
  /\ MaxClock \in Nat /\ MaxSeq \in Nat /\ MaxLives \in Nat /\ MaxLost \in Nat

VARIABLES
  life,         \* the life of the instance
  reply,        \* the reply that is on its way, if there is one
  cursor,       \* the client's: the last number it has read
  lost,         \* how many replies were lost
  reads,        \* history: the life whose numbers the client reads
  got,          \* history: the numbers of that life that reached it
  gone          \* history: the numbers of that life that had left the log when it asked

client == <<reply, cursor, lost, reads, got, gone>>
feedVars == <<clock, life, tok, seq, events, client>>

Reply(after) ==
  [latest |-> seq, evs |-> PollEvents(events, after, Limit),
   life |-> life, gone |-> (after + 1)..(seq - Len(events))]

FeedInit ==
  /\ clock = 1
  /\ life = 1
  /\ tok = NewToken /\ seq = 0 /\ events = <<>>
  /\ reply = {} /\ cursor = 0 /\ lost = 0
  /\ reads = 1 /\ got = {} /\ gone = {}

FeedTick ==
  /\ clock < MaxClock
  /\ clock' = clock + 1
  /\ UNCHANGED <<life, tok, seq, events, client>>

\* A token handler, which may have waited for in.mu since now.
RecordOperation(n, op, now) ==
  /\ seq < MaxSeq
  /\ Operate(op, n, now)
  /\ UNCHANGED <<clock, life, client>>

\* /hb: RecordHeartbeat's event.
RecordHeartbeat ==
  /\ seq < MaxSeq
  /\ seq' = seq + 1
  /\ events' = AppendEvent(events, [seq |-> seq + 1, action |-> "heartbeat"])
  /\ UNCHANGED <<clock, life, tok, client>>

\* The instance is created anew: after a restart of the server, or a sweep.
NewLife ==
  /\ life < MaxLives
  /\ life' = life + 1
  /\ tok' = NewToken /\ seq' = 0 /\ events' = <<>>
  /\ UNCHANGED <<clock, client>>

\* /poll?after=cursor: Poll, whose reply is on its way.
Poll ==
  /\ reply = {}
  /\ reply' = {Reply(cursor)}
  /\ UNCHANGED <<clock, life, tok, seq, events, cursor, lost, reads, got, gone>>

Lose ==
  /\ reply # {} /\ lost < MaxLost
  /\ reply' = {}
  /\ lost' = lost + 1
  /\ UNCHANGED <<clock, life, tok, seq, events, cursor, reads, got, gone>>

\* The client has read the events of reply r.
Read(r) ==
  /\ reply' = {}
  /\ IF r.latest < cursor
     THEN cursor' = 0 /\ reads' = r.life /\ got' = {} /\ gone' = {}
     ELSE /\ cursor' = IF r.evs = <<>> THEN cursor ELSE r.evs[Len(r.evs)].seq
          /\ got' = got \cup {r.evs[i].seq : i \in 1..Len(r.evs)}
          /\ gone' = gone \cup r.gone
          /\ UNCHANGED reads
  /\ UNCHANGED <<clock, life, tok, seq, events, lost>>

FeedNext ==
  \/ FeedTick
  \/ \E n \in Nodes, op \in TokenOps, now \in 1..clock : RecordOperation(n, op, now)
  \/ RecordHeartbeat
  \/ NewLife
  \/ Poll
  \/ Lose
  \/ \E r \in reply : Read(r)

\* The client keeps asking.
Fairness == WF_feedVars(Poll) /\ WF_feedVars(\E r \in reply : Read(r))

FeedSpec == FeedInit /\ [][FeedNext]_feedVars /\ Fairness

-----------------------------------------------------------------------------
TokenEventAt(i) == i \in 1..Len(events) /\ events[i].action # "heartbeat"

\* The numbers of the retained events are the last Len(events) values of seq,
\* without a gap, and the newest token event shows the token as it is: no operation
\* changes holder, epoch or expiry without recording it, whatever else is recorded.
LogMirrorsToken ==
  /\ \A i \in 1..Len(events) : events[i].seq = seq - Len(events) + i
  /\ \A i \in 1..Len(events) : TokenEventAt(i) /\ (\A j \in (i + 1)..Len(events) : ~ TokenEventAt(j)) =>
       LET e == events[i]
       IN  e.holder = tok.holder /\ e.epoch = tok.epoch /\ e.expiresAt = tok.expiresAt

\* The token's story in the log has no hole: a claim follows an end (release or
\* expiry) and raises the epoch by one; renewals and ends keep the epoch of the
\* event before them, and only a holder's lease is renewed or ended.
LogTellsStory ==
  \A i, j \in 1..Len(events) :
    /\ TokenEventAt(i) /\ TokenEventAt(j) /\ i < j
    /\ \A k \in (i + 1)..(j - 1) : ~ TokenEventAt(k)
    => LET d == events[i]
           e == events[j]
       IN  IF e.action = "claim"
           THEN d.holder = NoNode /\ e.holder # NoNode /\ e.epoch = d.epoch + 1
           ELSE /\ d.holder # NoNode /\ e.epoch = d.epoch
                /\ e.holder = IF e.action = "renew" THEN d.holder ELSE NoNode

\* A client that asks from the last number it has read misses nothing of a life that it
\* reads but what had left the log, although replies are cut at the limit, are lost, or
\* come when more has happened.  (It reads the wrong life when the numbers of a new one
\* have passed its cursor before it asks: nothing in a reply tells.)
NothingMissed == reads = life => \A k \in 1..cursor : k \in got \/ k \in gone

\* Once nothing is recorded any more, the client reaches the end of the log, also of a log
\* that has begun anew behind its cursor.
CatchesUp == <>[][FALSE]_<<life, seq>> => <>[](cursor = seq)
=============================================================================
