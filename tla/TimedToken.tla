----------------------------- MODULE TimedToken ------------------------------
(* The token of one instance, and the clock by which its operations take     *)
(* their times.                                                              *)
EXTENDS TokenState

CONSTANT MaxClock           \* bound: the last instant

VARIABLES
  clock,        \* time.Now()
  tok           \* in.tok
=============================================================================
