------------------------------- MODULE Registry -------------------------------
(* The router's registry (src/internal/router/router.go): the instance that  *)
(* serves one UUID, created on the first request and swept by the janitor    *)
(* once it has been idle for too long.                                       *)
(*                                                                           *)
(* A handler keeps the pointer it got from GetOrCreate until it has done its *)
(* work, with no lock on the registry; the sweep looks at lastAccess and     *)
(* deletes the entry in two steps, with the registry locked but not the      *)
(* instance.  Registry tells the generations of the instance apart and asks  *)
(* whether two of them can ever be in use.                                   *)
EXTENDS TokenState, Sequences, FiniteSets

CONSTANTS
  TTL,          \* Registry.ttl, in clock ticks
  MaxStall,     \* the longest time from GetOrCreate to the handler's last lock
  MaxHandlers,  \* bound: handlers under way
  MaxInstances, \* bound: generations of the instance
  MaxBoots,     \* bound: starts of the process
  MaxEpoch,     \* bound: the last epoch of a generation
  MaxClock      \* bound: the last instant

ASSUME RegistryAssumption ==
  /\ TTL \in Nat /\ MaxStall \in Nat
  /\ MaxHandlers \in Nat /\ MaxInstances \in Nat /\ MaxBoots \in Nat
  /\ MaxEpoch \in Nat /\ MaxClock \in Nat

\* The hypothesis of the theorems.  The code's lease is 30s and its ttl 10min; that
\* no handler takes longer than the ttl is an assumption about the machine.
Prompt == LeaseTime <= TTL /\ MaxStall <= TTL

VARIABLES
  clock,        \* time.Now()
  boot,         \* how many times the process has been started
  instances,    \* every generation that was created, the swept ones included
  current,      \* the generation in r.items, 0 if there is none
  condemned,    \* the generation that a sweep found idle and is about to delete, or 0
  handlers      \* the requests whose handler holds a pointer to a generation

vars == <<clock, boot, instances, current, condemned, handlers>>

\* "queue" stands for /hb, /poll and /queue/*, which record an access as the
\* token operations do; "pending" for the endpoints that do not (/ping, /pending*,
\* /leader/status and the like).
Ops == TokenOps \cup {"queue", "pending"}

Generation(t, at, b) == [tok |-> t, lastAccess |-> at, boot |-> b]
Handler(n, op, g) == [node |-> n, op |-> op, inst |-> g, since |-> clock]

-----------------------------------------------------------------------------
Init ==
  /\ clock = 1
  /\ boot = 1
  /\ instances = <<>>
  /\ current = 0
  /\ condemned = 0
  /\ handlers = {}

Tick ==
  /\ clock < MaxClock
  /\ \A h \in handlers : clock + 1 <= h.since + MaxStall
  /\ clock' = clock + 1
  /\ UNCHANGED <<boot, instances, current, condemned, handlers>>

\* Wrong: the instance that is found is not touched.
TouchedNot(g) == instances

\* Touch.
Touched(g) == [instances EXCEPT ![g].lastAccess = clock]

\* GetOrCreate for a request, while no sweep holds r.mu.
GetOrCreate(n, op) ==
  /\ condemned = 0
  /\ Cardinality(handlers) < MaxHandlers
  /\ IF current # 0
     THEN /\ instances' = Touched(current)
          /\ handlers' = handlers \cup {Handler(n, op, current)}
          /\ UNCHANGED current
     ELSE /\ Len(instances) < MaxInstances
          /\ instances' = Append(instances, Generation(NewToken, clock, boot))
          /\ current' = Len(instances) + 1
          /\ handlers' = handlers \cup {Handler(n, op, Len(instances) + 1)}
  /\ UNCHANGED <<clock, boot, condemned>>

\* The handler's work on the generation it holds, with the time it took on the
\* way, in one critical section of that generation's mutex.
Serve(h, now) ==
  LET r == instances[h.inst]
      t == r.tok
      u == IF h.op \in TokenOps THEN TokenOutcome(h.op, t, h.node, now).tok ELSE t
      a == IF h.op = "pending" THEN r.lastAccess ELSE clock
  IN  /\ h.op = "claim" => t.epoch < MaxEpoch
      /\ instances' = [instances EXCEPT ![h.inst] = Generation(u, a, r.boot)]
      /\ handlers' = handlers \ {h}
      /\ UNCHANGED <<clock, boot, current, condemned>>

\* Wrong: an idle time shorter than the ttl is enough.
CondemnEarly(now) ==
  /\ current # 0 /\ condemned = 0
  /\ now >= instances[current].lastAccess
  /\ condemned' = current
  /\ UNCHANGED <<clock, boot, instances, current, handlers>>

\* sweep, first step: with r.mu locked since, and a time taken before, it reads
\* lastAccess.
Condemn(now) ==
  /\ current # 0 /\ condemned = 0
  /\ now > instances[current].lastAccess + TTL
  /\ condemned' = current
  /\ UNCHANGED <<clock, boot, instances, current, handlers>>

\* sweep, second step: delete(r.items, k).
Sweep ==
  /\ condemned # 0
  /\ current' = 0
  /\ condemned' = 0
  /\ UNCHANGED <<clock, boot, instances, handlers>>

\* The process dies and is started again: nothing of the registry is kept.
Restart ==
  /\ boot < MaxBoots
  /\ boot' = boot + 1
  /\ current' = 0
  /\ condemned' = 0
  /\ handlers' = {}
  /\ UNCHANGED <<clock, instances>>

Next ==
  \/ Tick
  \/ \E n \in Nodes, op \in Ops : GetOrCreate(n, op)
  \/ \E h \in handlers : \E now \in h.since..clock : Serve(h, now)
  \/ \E now \in 1..clock : Condemn(now)
  \/ Sweep
  \/ Restart

Spec == Init /\ [][Next]_vars

-----------------------------------------------------------------------------
Generations == 1..Len(instances)
Live(g) == Active(instances[g].tok, clock)

\* No request works on an instance that the janitor has taken out of the
\* registry: two requests for one UUID never see two different instances.
NoOrphanInUse == \A h \in handlers : h.inst = current

\* The sweep never splits the token: of the generations that one run of the
\* process has created, at most one has a holder whose lease still runs.  (A restart
\* does: it forgets the token, and the next claim is granted at once.)
OneIssuer ==
  \A g, h \in Generations :
    Live(g) /\ Live(h) /\ instances[g].boot = instances[h].boot => g = h
=============================================================================
