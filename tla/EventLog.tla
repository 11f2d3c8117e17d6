------------------------------ MODULE EventLog ------------------------------
(* The event log of an instance (src/internal/instance/instance.go): a       *)
(* sequence counter and the most recent maxEvents events.  Every caller      *)
(* increments seq and appends while it holds in.mu, so one step of a model   *)
(* that uses these operators numbers and stores its events together.         *)
EXTENDS Selection

CONSTANT MaxEvents          \* in.maxEvents: 4096 in the code

ASSUME MaxEventsAssumption == MaxEvents \in Nat \ {0}

\* Wrong: the log is never trimmed.
RetainedAll(evs) == evs

\* The tail of evs that appendEventLocked keeps.
Retained(evs) ==
  IF Len(evs) > MaxEvents
  THEN SubSeq(evs, Len(evs) - MaxEvents + 1, Len(evs))
  ELSE evs

\* appendEventLocked.
AppendEvent(evs, ev) == Retained(Append(evs, ev))

\* The events that satisfy the condition of Poll's loop.
Newer(evs, afterSeq) == Selected(evs, {i \in 1..Len(evs) : evs[i].seq > afterSeq})

\* Wrong: a reply that is cut keeps the newest events.
PollNewest(evs, afterSeq, limit) ==
  LET fresh == Newer(evs, afterSeq)
  IN  IF Len(fresh) > limit THEN SubSeq(fresh, Len(fresh) - limit + 1, Len(fresh)) ELSE fresh

\* Wrong: the event numbered afterSeq is returned again.
PollAgain(evs, afterSeq, limit) ==
  LET fresh == Newer(evs, afterSeq - 1)
  IN  IF Len(fresh) > limit THEN SubSeq(fresh, 1, limit) ELSE fresh

\* Instance.Poll: the first limit retained events numbered above afterSeq.
PollEvents(evs, afterSeq, limit) ==
  LET fresh == Newer(evs, afterSeq)
  IN  IF Len(fresh) > limit THEN SubSeq(fresh, 1, limit) ELSE fresh
=============================================================================
