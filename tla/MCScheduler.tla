---------------------------- MODULE MCScheduler ----------------------------
(* Scheduler on plans of three subtasks. *)
EXTENDS Scheduler

\* A chain, listed from its end, so that one pass of block_unreachable blocks only
\* one link of it; and a join, of which two may run side by side.
Chain == [i \in Subtasks |-> IF i < N THEN {i + 1} ELSE {}]
Join == [i \in Subtasks |-> IF i = N THEN Subtasks \ {N} ELSE {}]
Shapes == {Chain, Join}
=============================================================================
