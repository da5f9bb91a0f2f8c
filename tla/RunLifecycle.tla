---------------------------- MODULE RunLifecycle ----------------------------
(***************************************************************************)
(* engine.py (run): one run from its start to its row in runs.db, around   *)
(* the scheduler, with the checkpoints that let it be resumed after it was *)
(* cancelled, failed, went over budget or lost its process.                *)
(*                                                                         *)
(* The scheduler is taken by its promise, DagRun.  Each call of the run    *)
(* store is a commit of its own, and the process may die between any two.  *)
(***************************************************************************)
EXTENDS Task

CONSTANTS
    Subtasks, Ids, Plans,   \* as in DagRun
    MergeMode,              \* settings.git_mode is "merge" and there is a target
    MaxCrashes,             \* bound: how often the process dies
    MaxResumes              \* bound: how often the run is resumed

ASSUME RunLifecycleAssumption ==
    /\ Subtasks \subseteq Ids
    /\ Plans \subseteq [Subtasks -> SUBSET Subtasks]
    /\ MergeMode \in BOOLEAN
    /\ {MaxCrashes, MaxResumes} \subseteq Nat

VARIABLES
    subtasks, deps, status, phase,  \* the TaskRun in memory, as in DagRun
    stage,      \* where Engine.run stands
    cause,      \* what stopped the scheduler
    unsaved,    \* subtasks _checkpoint_all has still to write
    up,         \* is the process alive
    row,        \* runs.status
    saved,      \* the plan in runs.plan_json, if any, as a set of at most one
    ckpt,       \* subtask_states.status, "none" without a row
    resume,     \* the queued payload says so
    merged,     \* the branch was merged into the review target
    crashes, resumes

dagVars     == <<subtasks, deps, status, phase>>
engineVars  == <<stage, cause, unsaved>>
durableVars == <<row, saved, ckpt, resume, merged>>
counters    == <<crashes, resumes>>
vars        == <<dagVars, engineVars, up, durableVars, counters>>

Run == INSTANCE DagRun

Outcomes  == {"completed", "partial", "failed", "over_budget", "cancelled", "interrupted"}
Resumable == Outcomes \ {"completed"}

TypeOK ==
    /\ Run!TypeOK
    /\ stage \in {"none", "starting", "scheduling", "finalizing", "closing"}
    /\ cause \in {"none", "budget", "cancel"}
    /\ unsaved \subseteq Ids
    /\ {up, resume, merged} \subseteq BOOLEAN
    /\ row \in Outcomes \cup {"queued", "running"}
    /\ saved \subseteq Plans /\ Cardinality(saved) <= 1
    /\ ckpt \in [Ids -> {"none", "running"} \cup Terminal]
    /\ crashes \in 0..MaxCrashes
    /\ resumes \in 0..MaxResumes

Pending == [i \in Ids |-> "pending"]

Init ==
    /\ subtasks = {} /\ deps = [i \in Ids |-> {}] /\ status = Pending /\ phase = "over"
    /\ stage = "none" /\ cause = "none" /\ unsaved = {}
    /\ up = TRUE
    /\ row = "queued" /\ saved = {} /\ ckpt = [i \in Ids |-> "none"]
    /\ resume = FALSE /\ merged = FALSE
    /\ crashes = 0 /\ resumes = 0

-----------------------------------------------------------------------------
(* Starting *)

\* The pump starts the run: its row says so before there is an engine.
Begin ==
    /\ up /\ row = "queued"
    /\ row' = "running"
    /\ stage' = "starting"
    /\ cause' = "none"
    /\ UNCHANGED <<dagVars, unsaved, up, saved, ckpt, resume, merged, counters>>

\* Mutant of Restored: what passed with caveats is not taken as done.
RestoredStrict == [i \in Ids |-> IF i \in Subtasks /\ ckpt[i] = "passed" THEN "passed" ELSE "pending"]

\* _restore_checkpoints; a repair has a row, but is in no saved plan.
Restored == [i \in Ids |-> IF i \in Subtasks /\ ckpt[i] \in Satisfying THEN ckpt[i] ELSE "pending"]

\* What the run may be planned as; resumed, as it was, or not at all.
MayPlan == IF resume THEN saved ELSE Plans

PlanReady ==
    /\ up /\ stage = "starting"
    /\ \E plan \in MayPlan :
          /\ saved' = {plan}
          /\ deps' = [i \in Ids |-> IF i \in Subtasks THEN plan[i] ELSE {}]
    /\ subtasks' = Subtasks
    /\ status' = IF resume THEN Restored ELSE Pending
    /\ phase' = "on"
    /\ stage' = "scheduling"
    /\ UNCHANGED <<cause, unsaved, up, row, ckpt, resume, merged, counters>>

\* The planner fails, the plan is invalid, the run is cancelled meanwhile, or
\* it is to be resumed without a saved plan.
StartFails ==
    /\ up /\ stage = "starting"
    /\ row' \in {"failed", "cancelled"}
    /\ stage' = "none"
    /\ UNCHANGED <<dagVars, cause, unsaved, up, saved, ckpt, resume, merged, counters>>

-----------------------------------------------------------------------------
(* While the scheduler runs *)

Scheduling == up /\ stage = "scheduling"

SchedulerStep ==
    /\ Scheduling
    /\ \/ \E i \in Ids : Run!Start(i)
       \/ Run!Block \/ Run!Repair \/ Run!Finish \/ Run!Abandon
    /\ UNCHANGED <<engineVars, up, durableVars, counters>>

\* A subtask is settled without a verdict: its agent failed for good.
Errs(i) ==
    /\ Scheduling
    /\ Run!Settle(i) /\ status'[i] = "failed"
    /\ UNCHANGED <<engineVars, up, durableVars, counters>>

\* verify writes the row of i while its status still is "running".
Checkpointed(i) == [ckpt EXCEPT ![i] = "running"]

\* A verdict that settles i, or after which it is tried again.
Verdict(i) ==
    /\ Scheduling
    /\ \/ Run!Settle(i)
       \/ phase # "over" /\ status[i] = "running" /\ UNCHANGED dagVars
    /\ ckpt' = Checkpointed(i)
    /\ UNCHANGED <<engineVars, up, row, saved, resume, merged, counters>>

\* An execution is refused for the budget.
BudgetExceeded ==
    /\ Scheduling
    /\ \E i \in subtasks : status[i] = "running"
    /\ Run!Stop
    /\ cause' = "budget"
    /\ UNCHANGED <<stage, unsaved, up, durableVars, counters>>

\* The operator cancels the run, also while it is being stopped.
CancelScheduler ==
    /\ Scheduling /\ phase # "over" /\ cause # "cancel"
    /\ Run!Stop \/ (phase = "stopping" /\ UNCHANGED dagVars)
    /\ cause' = "cancel"
    /\ UNCHANGED <<stage, unsaved, up, durableVars, counters>>

\* What _checkpoint_all will write.  (It also rewrites, as pending, what only an
\* earlier session tried; such a row is read as the one it replaces.)
ToSave == {i \in subtasks : status[i] # "pending"}

SchedulerOver ==
    /\ Scheduling /\ phase = "over"
    /\ IF cause = "cancel"
       THEN stage' = "closing" /\ row' = "cancelled" /\ unsaved' = ToSave
       ELSE stage' = "finalizing" /\ UNCHANGED <<row, unsaved>>
    /\ UNCHANGED <<dagVars, cause, up, saved, ckpt, resume, merged, counters>>

-----------------------------------------------------------------------------
(* Finalizing and closing *)

\* The branch is merged, unless it conflicts.
AutoMerge ==
    /\ up /\ stage = "finalizing"
    /\ MergeMode /\ Rollup(subtasks, status) = "completed" /\ ~merged
    /\ merged' = TRUE
    /\ UNCHANGED <<dagVars, engineVars, up, row, saved, ckpt, resume, counters>>

\* Mutant of Outcome: passed with caveats is good enough.
OutcomeSoft == IF \A i \in subtasks : status[i] \in Satisfying THEN "completed" ELSE Rollup(subtasks, status)

Outcome == IF cause = "budget" THEN "over_budget" ELSE Rollup(subtasks, status)

\* RunStore.finish, an exception, or a cancellation; the finally clause follows.
FinalizeEnds ==
    /\ up /\ stage = "finalizing"
    /\ row' \in {Outcome, "running", "cancelled"}
    /\ stage' = "closing"
    /\ unsaved' = ToSave
    /\ UNCHANGED <<dagVars, cause, up, saved, ckpt, resume, merged, counters>>

\* Mutant of Checkpoint: only what failed is written.
CheckpointFailed(i) == IF status[i] \in Unmet THEN [ckpt EXCEPT ![i] = status[i]] ELSE ckpt

Checkpoint(i) == [ckpt EXCEPT ![i] = status[i]]

\* _checkpoint_all: one commit a subtask, in the order of the plan, which may
\* list a subtask before its dependencies.
CheckpointNext ==
    /\ up /\ stage = "closing"
    /\ \E i \in unsaved :
          /\ ckpt' = Checkpoint(i)
          /\ unsaved' = unsaved \ {i}
    /\ UNCHANGED <<dagVars, stage, cause, up, row, saved, resume, merged, counters>>

\* A row still running is not left so.
ClosedRow == IF row = "running" THEN "failed" ELSE row

Close ==
    /\ up /\ stage = "closing" /\ unsaved = {}
    /\ row' = ClosedRow
    /\ stage' = "none"
    /\ UNCHANGED <<dagVars, cause, unsaved, up, saved, ckpt, resume, merged, counters>>

-----------------------------------------------------------------------------
(* The operator and the process *)

ResumeRun ==
    /\ up /\ stage = "none" /\ row \in Resumable
    /\ resumes < MaxResumes
    /\ resumes' = resumes + 1
    /\ row' = "queued" /\ resume' = TRUE
    /\ UNCHANGED <<dagVars, engineVars, up, saved, ckpt, merged, crashes>>

\* Memory is lost.
Crash ==
    /\ up /\ crashes < MaxCrashes
    /\ crashes' = crashes + 1
    /\ up' = FALSE
    /\ subtasks' = {} /\ deps' = [i \in Ids |-> {}] /\ status' = Pending /\ phase' = "over"
    /\ stage' = "none" /\ cause' = "none" /\ unsaved' = {}
    /\ UNCHANGED <<durableVars, resumes>>

\* Mutant of Boot: a run found running is left so.
BootLeaving ==
    /\ ~up
    /\ up' = TRUE
    /\ UNCHANGED <<dagVars, engineVars, durableVars, counters>>

\* interrupt_orphans.
Boot ==
    /\ ~up
    /\ up' = TRUE
    /\ row' = IF row = "running" THEN "interrupted" ELSE row
    /\ UNCHANGED <<dagVars, engineVars, saved, ckpt, resume, merged, counters>>

Engine ==
    \/ Begin \/ PlanReady \/ StartFails
    \/ SchedulerStep \/ SchedulerOver
    \/ \E i \in Ids : Errs(i) \/ Verdict(i)
    \/ AutoMerge \/ FinalizeEnds \/ CheckpointNext \/ Close

Next ==
    \/ Engine
    \/ BudgetExceeded \/ CancelScheduler
    \/ ResumeRun \/ Crash \/ Boot

\* The engine gets on: planning and finalizing are bounded by timeouts, the
\* scheduler ends (Scheduler!RunEnds), and a dead process is started again.
Fairness == WF_vars(Engine) /\ WF_vars(Boot)

Spec == Init /\ [][Next]_vars /\ Fairness

-----------------------------------------------------------------------------
(* Properties *)

\* What is on record as done is never executed again, over any number of stops,
\* resumes and crashes (_restore_checkpoints): a subtask of the plan is not
\* started in a session after one that recorded it passed.
NotDoneTwice ==
    [][\A i \in Subtasks :
         resume /\ ckpt[i] \in Satisfying /\ stage = "scheduling" => status'[i] # "running"]_vars

\* Only a crash takes back what passed: a run that was cancelled, failed or went
\* over budget, whenever it was, and is resumed, has kept all of it.
WorkSurvivesStop ==
    [][\A i \in Subtasks : up' /\ status[i] \in Satisfying => status'[i] = status[i]]_vars

\* Both: what is done stays done and on record, whatever ends the sessions.
DoneStaysDone == NotDoneTwice /\ WorkSurvivesStop

\* While the process lives and nothing of the run executes, the row says how it
\* ended and not that it runs (engine.py:560-566, interrupt_orphans).
NoOrphanRow == up /\ stage = "none" => row # "running"

\* A run that never lost its process is on record as completed only if each
\* subtask of its plan is on record as passed, by whichever session.
CompletedIsRecorded ==
    crashes = 0 /\ stage = "none" /\ row = "completed" =>
        saved # {} /\ \A i \in Subtasks : ckpt[i] = "passed"

\* What executes builds on satisfied dependencies, also in a resumed run whose
\* checkpoints were cut short by a crash (TaskRun.ready).
BuildsOnSatisfied == stage = "scheduling" => Run!RunningOnSatisfied

\* What is on record agrees with what was done, and what executes with what is on
\* record, over any number of sessions.
RecordSound == TypeOK /\ NoOrphanRow /\ CompletedIsRecorded /\ BuildsOnSatisfied

\* docs/IMPROVEMENTS.md:478: "checkpoint each subtask's status/result/verdict to
\* SQLite after every verdict".
PassedIsCheckpointed ==
    stage = "scheduling" =>
        \A i \in subtasks : status[i] \in Satisfying => ckpt[i] \in Satisfying

\* A run is not left running: it gets an outcome, and again after each resume.
RunSettles == []<>(row \in Outcomes)
=============================================================================
