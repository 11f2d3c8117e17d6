------------------------------ MODULE Selection ------------------------------
(* The loops that go through a sequence and keep some of its entries:        *)
(* pruneLocked (src/internal/queue/queue.go), Poll                           *)
(* (src/internal/instance/instance.go).                                      *)
EXTENDS Integers, Sequences

\* Entries of s whose index is in I, in their order.  (SelectSeq by another name: this
\* one the proofs can expand.)
Selected(s, I) ==
  LET upto[n \in 0..Len(s)] ==
        IF n = 0 THEN <<>>
        ELSE IF n \in I THEN Append(upto[n - 1], s[n]) ELSE upto[n - 1]
  IN  upto[Len(s)]
=============================================================================
