------------------------------- MODULE Lease --------------------------------
(* What the token promises its clients: exclusive leases with fencing.       *)
(*                                                                           *)
(* A promise is what one node was last told: that it holds the token until   *)
(* some time, under some epoch.  The contract is the guard of Learn: a       *)
(* promise that is alive when it reaches a node finds no other node with a   *)
(* live promise, and its epoch is above every epoch another node was told.   *)
(* TokenService is the detailed specification that has to implement this.    *)
EXTENDS Integers

CONSTANT Nodes

VARIABLES
  clock,
  promise     \* promise[n] = [until, epoch]; until = 0 when n was told nothing

vars == <<clock, promise>>

Promise == [until : Nat, epoch : Nat]
NoPromise == [until |-> 0, epoch |-> 0]

Live(n) == promise[n].until > clock

Init == clock = 1 /\ promise = [n \in Nodes |-> NoPromise]

\* Node n is told that it holds the token until p.until under epoch p.epoch.
\* The news may be old: then p must not look newer than a live promise.
Learn(n) ==
  LET p == promise'[n]
  IN  /\ p \in Promise
      /\ promise' = [promise EXCEPT ![n] = p]
      /\ \A m \in Nodes \ {n} :
           \/ p.until > clock  /\ ~ Live(m) /\ promise[m].epoch < p.epoch
           \/ p.until <= clock /\ (Live(m) => p.epoch < promise[m].epoch)
      /\ UNCHANGED clock

\* Node n gives its promise up.
Forget(n) ==
  /\ promise' = [promise EXCEPT ![n].until = 0]
  /\ UNCHANGED clock

Advance == clock' > clock /\ clock' \in Nat /\ UNCHANGED promise

Next ==
  \/ \E n \in Nodes : Forget(n) \/ Learn(n)
  \/ Advance

Spec == Init /\ [][Next]_vars

\* Never two nodes that both believe, by what they were told, that they hold
\* the token now.
Exclusive == \A m, n \in Nodes : Live(m) /\ Live(n) => m = n

\* The epoch of a live promise is above the epoch of every other promise, so a
\* store that refuses old epochs serves only the node that holds the token.
Fenced ==
  \A m, n \in Nodes : Live(n) /\ m # n => promise[m].epoch < promise[n].epoch
=============================================================================
