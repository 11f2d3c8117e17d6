-------------------------------- MODULE Agent --------------------------------
(* The claim loop of the agents (agent.Run) against the token of one         *)
(* instance: claim, sleep 10s, or 5s after an error, and claim again; on     *)
(* shutdown a release, if the process lives long enough to send it.          *)
(*                                                                           *)
(* There is no clock: tok.expiresAt and the timers count the seconds that    *)
(* are left, and Tick takes one from each.  An agent acts as soon as its     *)
(* sleep is over, a call ends within its timeout, and no time passes between *)
(* the signal that stops an agent and the end of its process.                *)
EXTENDS TokenState, FiniteSets

CONSTANTS
  RenewAfter,   \* the sleep after a claim that succeeded: 10s
  RetryAfter,   \* the sleep after an error: 5s
  Timeout,      \* of a call: 2s
  MaxFailures,  \* bound: calls of one agent that fail one after the other
  MaxRestarts   \* bound: restarts of the server

ASSUME AgentAssumption ==
  /\ RenewAfter \in Nat \ {0} /\ RetryAfter \in Nat \ {0} /\ Timeout \in Nat
  /\ MaxFailures \in Nat /\ MaxRestarts \in Nat

VARIABLES
  tok,          \* the token, as of now; its epoch is left out
  agent,        \* agent[n]: what the process of node n does
  late,         \* requests whose client waits no longer
  restarts,     \* history: restarts of the server
  promised      \* history: the nodes whose claim was granted in this life of their
                \* process, unless a release of theirs or a restart undid it

vars == <<tok, agent, late, restarts, promised>>

Stages   == {"down", "asleep", "claiming", "releasing"}
Requests == [node : Nodes, op : {"claim", "release"}]
Request(n, op) == [node |-> n, op |-> op]

\* answer: of the call under way, "none" until it is served.
\* failed: the calls that failed since the last answer.
Down == [stage |-> "down", timer |-> 0, answer |-> "none", failed |-> 0, stopping |-> FALSE]

Running(n) == agent[n].stage # "down"
InCall(n)  == agent[n].stage \in {"claiming", "releasing"}
Op(n)      == IF agent[n].stage = "claiming" THEN "claim" ELSE "release"
Becomes(n, a) == agent' = [agent EXCEPT ![n] = a]

-----------------------------------------------------------------------------
Init ==
  /\ tok = NewToken
  /\ agent = [n \in Nodes |-> Down]
  /\ late = {}
  /\ restarts = 0
  /\ promised = {}

Start(n) ==
  /\ ~ Running(n)
  /\ Becomes(n, [Down EXCEPT !.stage = "asleep"])
  /\ UNCHANGED <<tok, late, restarts, promised>>

\* The sleep is over, at the top of the loop: TokenClaim, or TokenRelease once ctx is done.
Call(n) ==
  /\ agent[n].stage = "asleep" /\ agent[n].timer = 0
  /\ Becomes(n, [agent[n] EXCEPT !.stage = IF agent[n].stopping THEN "releasing" ELSE "claiming",
                                 !.timer = Timeout, !.answer = "none"])
  /\ UNCHANGED <<tok, late, restarts, promised>>

\* The server carries out a request.
Operate(n, op) == tok' = [TokenOutcome(op, tok, n, 0).tok EXCEPT !.epoch = 0]

Serve(n) ==
  LET err == TokenOutcome(Op(n), tok, n, 0).err
  IN  /\ InCall(n) /\ agent[n].answer = "none"
      /\ Operate(n, Op(n))
      /\ Becomes(n, [agent[n] EXCEPT !.answer = err])
      /\ promised' = CASE Op(n) = "release" -> promised \ {n}
                       [] Op(n) = "claim" /\ err = "ok" -> promised \cup {n}
                       [] OTHER -> promised
      /\ UNCHANGED <<late, restarts>>

\* ... also when nobody waits for it.
ServeLate(r) ==
  /\ late' = late \ {r}
  /\ Operate(r.node, r.op)
  /\ promised' = IF r.op = "release" THEN promised \ {r.node} ELSE promised
  /\ UNCHANGED <<agent, restarts>>

Asleep(n, timer, failed) ==
  [agent[n] EXCEPT !.stage = "asleep", !.timer = timer, !.answer = "none", !.failed = failed]

\* The answer to a claim: the token, or a conflict.
Answer(n) ==
  /\ agent[n].stage = "claiming" /\ agent[n].answer # "none"
  /\ Becomes(n, Asleep(n, IF agent[n].answer = "ok" THEN RenewAfter ELSE RetryAfter, 0))
  /\ UNCHANGED <<tok, late, restarts, promised>>

\* The request of a call that ends without an answer is lost or still on its way.
Abandon(n) ==
  late' \in IF InCall(n) /\ agent[n].answer = "none"
            THEN {late, late \cup {Request(n, Op(n))}} ELSE {late}

\* Wrong: the agent sleeps as after a success.
FailCalmly(n) ==
  /\ agent[n].stage = "claiming" /\ agent[n].failed < MaxFailures
  /\ Abandon(n)
  /\ Becomes(n, Asleep(n, RenewAfter, agent[n].failed + 1))
  /\ UNCHANGED <<tok, restarts, promised>>

\* The claim fails: no connection, a timeout or a lost answer.
Fail(n) ==
  /\ agent[n].stage = "claiming" /\ agent[n].failed < MaxFailures
  /\ Abandon(n)
  /\ Becomes(n, Asleep(n, RetryAfter, agent[n].failed + 1))
  /\ UNCHANGED <<tok, restarts, promised>>

\* SIGTERM reaches the main loop, which cancels ctx ...
Signal(n) ==
  /\ Running(n) /\ ~ agent[n].stopping
  /\ Becomes(n, [agent[n] EXCEPT !.stopping = TRUE])
  /\ UNCHANGED <<tok, late, restarts, promised>>

Gone(n) ==
  /\ Abandon(n)
  /\ Becomes(n, Down)
  /\ promised' = promised \ {n}
  /\ UNCHANGED <<tok, restarts>>

\* ... and returns, with which the process ends, whatever the claim loop is doing.
Exit(n) == agent[n].stopping /\ Gone(n)

Crash(n) == Running(n) /\ Gone(n)

\* The server is started again: its token is new.
Restart ==
  /\ restarts < MaxRestarts
  /\ restarts' = restarts + 1
  /\ tok' = NewToken
  /\ promised' = {}
  /\ UNCHANGED <<agent, late>>

\* Wrong: a sleep or a call may take any time.
WaitsLonger(n) == ~ agent[n].stopping

Waits(n) == ~ agent[n].stopping /\ agent[n].timer > 0

\* A second passes.  A lease that has run out is cleared at once, instead of by the
\* request that finds it so.
Tick ==
  /\ \A n \in Nodes : Running(n) => Waits(n)
  /\ tok' = ExpireIfNeeded([tok EXCEPT !.expiresAt = IF @ > 0 THEN @ - 1 ELSE 0], 0)
  /\ agent' = [n \in Nodes |-> IF Running(n) THEN [agent[n] EXCEPT !.timer = @ - 1]
                               ELSE agent[n]]
  /\ UNCHANGED <<late, restarts, promised>>

Loop(n) == Call(n) \/ Answer(n) \/ Fail(n)

Next ==
  \/ \E n \in Nodes : Start(n) \/ Loop(n) \/ Serve(n) \/ Signal(n) \/ Exit(n) \/ Crash(n)
  \/ \E r \in late : ServeLate(r)
  \/ Restart
  \/ Tick

\* Time passes, processes run, and what is asked of the server is served unless the
\* call fails, which happens MaxFailures times in a row at most.
Fairness ==
  /\ WF_vars(Tick)
  /\ \A n \in Nodes : WF_vars(Loop(n)) /\ WF_vars(Serve(n)) /\ WF_vars(Exit(n))

Spec == Init /\ [][Next]_vars /\ Fairness

-----------------------------------------------------------------------------
\* Every variable has its type; timers do not run below 0.
TypeOK ==
  /\ tok \in State
  /\ agent \in [Nodes -> [stage : Stages, timer : Nat, answer : {"none", "ok", "conflict"},
                          failed : 0..MaxFailures, stopping : BOOLEAN]]
  /\ late \subseteq Requests
  /\ restarts \in Nat
  /\ promised \subseteq Nodes

\* Three calls fit into one lease: an agent that has the token keeps it as long as
\* its process runs, although up to MaxFailures calls in a row fail and requests of its
\* own, of its earlier lives and of others are served late ("lease=30s -> renew every 10s").
KeepsToken == \A n \in promised : tok.holder = n

Up == {n \in Nodes : Running(n) /\ ~ agent[n].stopping}

\* Once processes are neither started nor stopped any more, the token ends up with one that
\* runs and stays there, whoever had it before and whichever requests are late.
FailsOver ==
  <>[][FALSE]_Up /\ <>[](Up # {}) => <>[](tok.holder \in Up)
=============================================================================
