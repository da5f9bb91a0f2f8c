------------------------------- MODULE DagRun -------------------------------
(***************************************************************************)
(* What a run of a plan promises about its subtasks, whatever the          *)
(* scheduling: a subtask starts only on satisfied dependencies, a settled  *)
(* status is never taken back, a subtask is given up only because one of   *)
(* its dependencies was, and only a stopped run abandons work.             *)
(*                                                                         *)
(* Scheduler implements this specification (Scheduler!Abstract).           *)
(***************************************************************************)
EXTENDS Task

CONSTANTS
    Subtasks,   \* ids of the subtasks the plan was validated with
    Ids,        \* those, and the ids of the repair subtasks added later
    Plans       \* the dependency maps a plan may have

VARIABLES
    subtasks,   \* TaskRun.subtasks: the ids of the run
    deps,       \* depends_on of each subtask
    status,     \* SubTaskState.status
    phase       \* is the run on, being stopped, or over

vars == <<subtasks, deps, status, phase>>

TypeOK ==
    /\ subtasks \in SUBSET Ids
    /\ deps \in [Ids -> SUBSET Subtasks]
    /\ status \in [Ids -> RunStatus]
    /\ phase \in {"on", "stopping", "over"}

\* A fresh run, or a resumed one with some of its finished subtasks restored.
Init ==
    /\ subtasks = Subtasks
    /\ \E plan \in Plans : deps = [i \in Ids |-> IF i \in Subtasks THEN plan[i] ELSE {}]
    /\ status \in [Ids -> {"pending"} \cup Satisfying]
    /\ \A i \in Ids \ Subtasks : status[i] = "pending"
    /\ phase = "on"

Start(i) ==
    /\ phase = "on"
    /\ i \in subtasks
    /\ status[i] = "pending"
    /\ \A d \in deps[i] : status[d] \in Satisfying
    /\ status' = [status EXCEPT ![i] = "running"]
    /\ UNCHANGED <<subtasks, deps, phase>>

\* Also while the run is being stopped: a subtask may finish before its
\* cancellation reaches it.
Settle(i) ==
    /\ phase # "over"
    /\ status[i] = "running"
    /\ \E outcome \in Satisfying \cup {"failed"} : status' = [status EXCEPT ![i] = outcome]
    /\ UNCHANGED <<subtasks, deps, phase>>

\* GivenUp(B): status' marks exactly the pending subtasks B as blocked, each
\* for a dependency that failed or was given up itself.
GivenUp(B) ==
    /\ status' = [i \in Ids |-> IF i \in B THEN "blocked" ELSE status[i]]
    /\ \A i \in B : status[i] = "pending" /\ \E d \in deps[i] : status'[d] \in Unmet

Block ==
    /\ phase = "on"
    /\ \E B \in SUBSET subtasks : GivenUp(B)
    /\ UNCHANGED <<subtasks, deps, phase>>

\* A repair depends on what the subtask it repairs depended on.
Repair ==
    /\ phase = "on"
    /\ \E new \in SUBSET (Ids \ subtasks) :
        \E repaired \in [new -> {f \in subtasks : status[f] = "failed"}] :
          /\ subtasks' = subtasks \cup new
          /\ deps' = [i \in Ids |-> IF i \in new THEN deps[repaired[i]] ELSE deps[i]]
    /\ UNCHANGED <<status, phase>>

\* The run ends by itself once every subtask is settled.
Finish ==
    /\ phase = "on"
    /\ \E B \in SUBSET subtasks : GivenUp(B)
    /\ \A i \in subtasks : status'[i] \in Terminal
    /\ phase' = "over"
    /\ UNCHANGED <<subtasks, deps>>

Stop ==
    /\ phase = "on"
    /\ phase' = "stopping"
    /\ UNCHANGED <<subtasks, deps, status>>

\* Being stopped, the run abandons unsettled subtasks, one by one or at its end.
Abandon ==
    /\ phase = "stopping"
    /\ phase' \in {"stopping", "over"}
    /\ \E B \in SUBSET {i \in subtasks : status[i] \notin Terminal} :
          status' = [i \in Ids |-> IF i \in B THEN "blocked" ELSE status[i]]
    /\ UNCHANGED <<subtasks, deps>>

Next ==
    \/ \E i \in Ids : Start(i) \/ Settle(i)
    \/ Block \/ Repair \/ Finish \/ Stop \/ Abandon

Spec == Init /\ [][Next]_vars

-----------------------------------------------------------------------------
\* Whatever is executing builds on satisfied dependencies, also while the run is
\* being stopped around it and after repairs were added (TaskRun.ready).
RunningOnSatisfied ==
    \A i \in subtasks : status[i] = "running" => \A d \in deps[i] : status[d] \in Satisfying
=============================================================================
