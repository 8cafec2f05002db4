------------------------------- MODULE Lanes -------------------------------
(***************************************************************************)
(* The packets of one kind in a queue that carries several: what a lane of *)
(* the abstract specifications is made of.  It is SelectSeq with a set for *)
(* its test, so that it can be reasoned about with TLAPS.                  *)
(***************************************************************************)
EXTENDS Naturals, Sequences

\* The elements of queue that are in K, in their order.
Lane(queue, K) ==
  LET lane[i \in 0..Len(queue)] ==
        IF i = 0 THEN <<>>
        ELSE IF queue[i] \in K THEN Append(lane[i - 1], queue[i]) ELSE lane[i - 1]
  IN  lane[Len(queue)]
=============================================================================
