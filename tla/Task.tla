-------------------------------- MODULE Task --------------------------------
(***************************************************************************)
(* orchestration/task.py: the statuses of a subtask and what a TaskRun     *)
(* computes from them.  A run is given by the set of its subtask ids, the  *)
(* dependency map and the status map.  Ids are positive integers in the    *)
(* order of the dict TaskRun.subtasks, which every loop over it follows.   *)
(***************************************************************************)
EXTENDS Integers, FiniteSets

RunStatus  == {"pending", "running", "passed", "passed_with_caveats", "failed", "blocked"}
Satisfying == {"passed", "passed_with_caveats"}
Terminal   == Satisfying \cup {"failed", "blocked"}

\* What makes a dependency hopeless (block_unreachable).
Unmet == {"failed", "blocked"}

\* Mutant of Ready: a dependency that ended, no matter how, is satisfied.
ReadyOnEnded(ids, deps, st) ==
    {i \in ids : st[i] = "pending" /\ \A d \in deps[i] : st[d] \in Terminal}

\* TaskRun.ready: pending subtasks all of whose dependencies are satisfied.
Ready(ids, deps, st) ==
    {i \in ids : st[i] = "pending" /\ \A d \in deps[i] : st[d] \in Satisfying}

\* TaskRun.block_unreachable is one pass in dict order, so it sees what it
\* has itself blocked only in the subtasks it visited before: B is the set it
\* blocks iff it satisfies this, which determines B by induction on the order.
IsBlockPass(B, ids, deps, st) ==
    /\ B \subseteq ids
    /\ \A i \in ids : i \in B <=>
          /\ st[i] = "pending"
          /\ \E d \in deps[i] : st[d] \in Unmet \/ (d < i /\ d \in B)

\* TaskRun.rollup_status
Rollup(ids, st) ==
    IF ids # {} /\ \A i \in ids : st[i] = "passed" THEN "completed"
    ELSE IF \A i \in ids : st[i] \notin Satisfying THEN "failed"
    ELSE "partial"
=============================================================================
