-------------------------- MODULE RunLifecycle_proofs --------------------------
(***************************************************************************)
(* Proofs about RunLifecycle, for every plan, any number of subtasks, of   *)
(* resumes and of crashes: the record in runs.db agrees with what was      *)
(* done, and what is done is not done again.                               *)
(***************************************************************************)
EXTENDS RunLifecycle, TLAPS, FiniteSetTheorems

\* What is in memory while a session has a plan: the subtasks of the plan, and
\* repairs only once they are added.
PlanKept ==
    /\ subtasks # {} => Subtasks \subseteq subtasks
    /\ \A i \in Ids \ subtasks : status[i] = "pending"
    /\ \A i \in Subtasks : status[i] # "pending" => i \in subtasks
    /\ stage \in {"scheduling", "finalizing", "closing"} => saved # {} /\ Subtasks \subseteq subtasks

\* Between two sessions each status the last one left is on record; while one
\* closes, those it has still to write are not.
Written ==
    /\ unsaved \subseteq ToSave
    /\ stage # "closing" => unsaved = {}
    /\ stage \in {"none", "starting", "closing"} =>
          \A i \in ToSave : i \in unsaved \/ ckpt[i] = status[i]

\* The row keeps up with the stage, and a first session starts from nothing.
RowKept ==
    /\ stage \in {"starting", "scheduling", "finalizing"} => row = "running"
    /\ row = "queued" => stage = "none"
    /\ ~up => stage = "none" /\ crashes > 0
    /\ up /\ stage = "none" => row # "running"
    /\ ~resume /\ (row = "queued" \/ stage = "starting") => \A i \in Ids : status[i] = "pending"

\* A resumed session has as done what is on record as done.
DoneKept ==
    stage = "scheduling" /\ resume =>
        \A i \in Subtasks : ckpt[i] \in Satisfying => status[i] = ckpt[i]

\* A completed run has each subtask passed, and written once it is closed.
CompletedKept ==
    crashes = 0 /\ row = "completed" =>
        /\ saved # {}
        /\ stage = "closing" => \A i \in Subtasks : i \in subtasks /\ status[i] = "passed"
        /\ stage # "closing" => stage = "none" /\ \A i \in Subtasks : ckpt[i] = "passed"

LifeInv ==
    /\ TypeOK
    /\ PlanKept /\ Written /\ RowKept /\ DoneKept /\ CompletedKept
    /\ BuildsOnSatisfied

-----------------------------------------------------------------------------
(* The statuses, and what a step of DagRun does *)

\* DagRun and RunLifecycle mean the same statuses.
LEMMA SameStatuses ==
    /\ Run!Satisfying = Satisfying
    /\ Run!Terminal = Terminal
    /\ Run!RunStatus = RunStatus
    /\ Run!Unmet = Unmet
BY DEF Run!Satisfying, Satisfying, Run!Terminal, Terminal, Run!RunStatus, RunStatus,
       Run!Unmet, Unmet

\* A status is pending, running or settled.
LEMMA StatusFacts ==
    /\ RunStatus = {"pending", "running"} \cup Terminal
    /\ "pending" \notin Terminal /\ "running" \notin Terminal
    /\ Satisfying \subseteq Terminal /\ Satisfying \cap Unmet = {}
    /\ "passed" \in Satisfying /\ "failed" \in Terminal /\ "blocked" \in Terminal
BY DEF RunStatus, Terminal, Satisfying, Unmet

\* What the proofs use of the type invariant.
LEMMA Types ==
    ASSUME TypeOK
    PROVE  /\ subtasks \subseteq Ids /\ deps \in [Ids -> SUBSET Subtasks]
           /\ status \in [Ids -> RunStatus] /\ Subtasks \subseteq Ids
           /\ phase \in {"on", "stopping", "over"}
           /\ ckpt \in [Ids -> {"none", "running"} \cup Terminal]
           /\ saved \subseteq Plans /\ unsaved \subseteq Ids
BY SameStatuses, RunLifecycleAssumption DEF TypeOK, Run!TypeOK

\* What a step of DagRun leaves: the types; whatever runs on satisfied
\* dependencies; nothing settled taken back, nothing made pending again; what it
\* adds to the run is pending.
DagSafe ==
    /\ subtasks \subseteq subtasks' /\ subtasks' \subseteq Ids
    /\ deps' \in [Ids -> SUBSET Subtasks]
    /\ status' \in [Ids -> RunStatus]
    /\ phase' \in {"on", "stopping", "over"}
    /\ \A i \in subtasks' : status'[i] = "running" => \A d \in deps'[i] : status'[d] \in Satisfying
    /\ \A i \in Ids : status[i] \in Terminal => status'[i] = status[i]
    /\ \A i \in Ids : status[i] # "pending" => status'[i] # "pending"
    /\ \A i \in Ids \ subtasks : status'[i] = "pending"

\* Every step of DagRun is such a step.
LEMMA DagStep ==
    ASSUME TypeOK, PlanKept, Run!RunningOnSatisfied, [Run!Next]_dagVars
    PROVE  DagSafe
<1>1. /\ subtasks \subseteq Ids /\ deps \in [Ids -> SUBSET Subtasks]
      /\ status \in [Ids -> RunStatus] /\ Subtasks \subseteq Ids
      /\ phase \in {"on", "stopping", "over"}
      /\ \A i \in Ids \ subtasks : status[i] = "pending"
      /\ \A i \in subtasks : status[i] = "running" => \A d \in deps[i] : status[d] \in Satisfying
  BY Types, SameStatuses DEF Run!RunningOnSatisfied, PlanKept
<1>2. ASSUME NEW B \in SUBSET subtasks, \A i \in B : status[i] \notin Terminal,
             status' = [i \in Ids |-> IF i \in B THEN "blocked" ELSE status[i]],
             UNCHANGED <<subtasks, deps>>, phase' \in {"on", "stopping", "over"}
      PROVE  DagSafe
  BY <1>1, <1>2, StatusFacts DEF DagSafe
<1>3. ASSUME NEW i \in Ids, Run!Start(i)
      PROVE  DagSafe
  <2>1. /\ i \in subtasks /\ status[i] = "pending"
        /\ \A d \in deps[i] : status[d] \in Satisfying
        /\ status' = [status EXCEPT ![i] = "running"] /\ UNCHANGED <<subtasks, deps, phase>>
    BY <1>3, SameStatuses DEF Run!Start
  <2>2. \A j \in Ids : status[j] \in Satisfying => status'[j] \in Satisfying
    BY <1>1, <2>1, StatusFacts
  <2>3. \A j \in subtasks : deps[j] \subseteq Ids
    BY <1>1
  <2> QED
    BY <1>1, <2>1, <2>2, <2>3, StatusFacts DEF DagSafe
<1>4. ASSUME NEW i \in Ids, Run!Settle(i)
      PROVE  DagSafe
  <2>1. PICK o \in Satisfying \cup {"failed"} : status' = [status EXCEPT ![i] = o]
    BY <1>4, SameStatuses DEF Run!Settle
  <2>2. status[i] = "running" /\ UNCHANGED <<subtasks, deps, phase>>
    BY <1>4 DEF Run!Settle
  <2>3. \A j \in Ids : status[j] \in Satisfying => status'[j] \in Satisfying
    BY <1>1, <2>1, <2>2, StatusFacts
  <2>4. \A j \in subtasks : deps[j] \subseteq Ids
    BY <1>1
  <2>5. i \in subtasks /\ o \in Terminal
    BY <1>1, <2>2, StatusFacts
  <2> QED
    BY <1>1, <2>1, <2>2, <2>3, <2>4, <2>5, StatusFacts DEF DagSafe
<1>5. CASE Run!Block \/ Run!Finish
  <2>1. PICK B \in SUBSET subtasks : Run!GivenUp(B)
    BY <1>5 DEF Run!Block, Run!Finish
  <2>2. UNCHANGED <<subtasks, deps>> /\ phase' \in {"on", "stopping", "over"}
    BY <1>5 DEF Run!Block, Run!Finish
  <2> QED
    BY <1>2, <2>1, <2>2, StatusFacts DEF Run!GivenUp
<1>6. CASE Run!Abandon
  <2>1. PICK B \in SUBSET {i \in subtasks : status[i] \notin Terminal} :
          status' = [i \in Ids |-> IF i \in B THEN "blocked" ELSE status[i]]
    BY <1>6, SameStatuses DEF Run!Abandon
  <2> QED
    BY <1>2, <1>6, <2>1 DEF Run!Abandon
<1>7. CASE Run!Repair
  <2>1. PICK new \in SUBSET (Ids \ subtasks) :
          \E repaired \in [new -> {f \in subtasks : status[f] = "failed"}] :
             /\ subtasks' = subtasks \cup new
             /\ deps' = [i \in Ids |-> IF i \in new THEN deps[repaired[i]] ELSE deps[i]]
    BY <1>7 DEF Run!Repair
  <2>2. status' = status /\ phase' = phase
    BY <1>7 DEF Run!Repair
  <2>3. /\ deps' \in [Ids -> SUBSET Subtasks]
        /\ \A i \in subtasks : deps'[i] = deps[i]
    BY <1>1, <2>1
  <2>4. \A i \in new : status[i] = "pending"
    BY <1>1
  <2> QED
    BY <1>1, <2>1, <2>2, <2>3, <2>4, StatusFacts DEF DagSafe
<1>8. CASE Run!Stop \/ UNCHANGED dagVars
  BY <1>1, <1>8, StatusFacts DEF Run!Stop, dagVars, DagSafe
<1> QED
  BY <1>3, <1>4, <1>5, <1>6, <1>7, <1>8 DEF Run!Next

\* The steps of a session while its scheduler runs.
Work == SchedulerStep \/ BudgetExceeded \/ CancelScheduler \/ \E i \in Ids : Errs(i) \/ Verdict(i)

LEMMA WorkStep ==
    ASSUME LifeInv, Work
    PROVE  /\ Scheduling /\ DagSafe
           /\ UNCHANGED <<stage, unsaved, up, row, saved, resume, merged, counters>>
           /\ cause' \in {"none", "budget", "cancel"}
           /\ \/ ckpt' = ckpt
              \/ \E i \in Ids : ckpt' = Checkpointed(i)
<1>1. /\ Scheduling
      /\ UNCHANGED <<stage, unsaved, up, row, saved, resume, merged, counters>>
      /\ ckpt' = ckpt \/ \E i \in Ids : ckpt' = Checkpointed(i)
      /\ cause' = cause \/ cause' \in {"budget", "cancel"}
  BY DEF Work, SchedulerStep, BudgetExceeded, CancelScheduler, Errs, Verdict, engineVars,
         durableVars
<1>2. [Run!Next]_dagVars
  BY DEF Work, SchedulerStep, BudgetExceeded, CancelScheduler, Errs, Verdict, Run!Next
<1>3. Run!RunningOnSatisfied
  BY <1>1 DEF Scheduling, LifeInv, BuildsOnSatisfied
<1> QED
  BY <1>1, <1>2, <1>3, DagStep DEF LifeInv, TypeOK

\* Every step of the system is one of these.
LEMMA NextCases ==
    ASSUME [Next]_vars
    PROVE  \/ Work \/ Begin \/ PlanReady \/ StartFails \/ SchedulerOver \/ AutoMerge
           \/ FinalizeEnds \/ CheckpointNext \/ Close \/ ResumeRun \/ Crash \/ Boot
           \/ UNCHANGED vars
BY DEF Next, Engine, Work

-----------------------------------------------------------------------------
(* The conjuncts of LifeInv, step by step *)

\* The steps outside the scheduler that leave the run in memory alone.
Aside ==
    \/ Begin \/ StartFails \/ SchedulerOver \/ AutoMerge \/ FinalizeEnds \/ CheckpointNext
    \/ Close \/ ResumeRun \/ Boot \/ UNCHANGED vars

LEMMA AsideKeepsRun ==
    ASSUME Aside
    PROVE  UNCHANGED <<subtasks, deps, status, phase, saved>>
BY DEF Aside, Begin, StartFails, SchedulerOver, AutoMerge, FinalizeEnds, CheckpointNext,
       Close, ResumeRun, Boot, vars, dagVars, durableVars

LEMMA CaseSplit ==
    ASSUME [Next]_vars
    PROVE  Work \/ Aside \/ PlanReady \/ Crash
BY NextCases DEF Aside

\* What a session starts with: the plan's subtasks, those on record as done
\* restored.
LEMMA PlanReadyEffect ==
    ASSUME TypeOK, PlanReady
    PROVE  /\ stage = "starting" /\ stage' = "scheduling"
           /\ subtasks' = Subtasks /\ phase' = "on"
           /\ deps' \in [Ids -> SUBSET Subtasks]
           /\ saved' \subseteq Plans /\ saved' # {} /\ Cardinality(saved') <= 1
           /\ status' = IF resume THEN Restored ELSE Pending
           /\ status' \in [Ids -> {"pending"} \cup Satisfying]
           /\ \A i \in Ids \ Subtasks : status'[i] = "pending"
           /\ UNCHANGED <<cause, unsaved, up, row, ckpt, resume, merged, counters>>
<1>1. PICK plan \in MayPlan :
        saved' = {plan} /\ deps' = [i \in Ids |-> IF i \in Subtasks THEN plan[i] ELSE {}]
  BY DEF PlanReady
<1>2. plan \in Plans /\ plan \in [Subtasks -> SUBSET Subtasks]
  BY Types, RunLifecycleAssumption DEF MayPlan
<1>3. Cardinality({plan}) = 1
  BY FS_Singleton
<1>4. deps' \in [Ids -> SUBSET Subtasks]
  BY <1>1, <1>2
<1>5. status' = IF resume THEN Restored ELSE Pending
  BY DEF PlanReady
<1>6. /\ status' \in [Ids -> {"pending"} \cup Satisfying]
      /\ \A i \in Ids \ Subtasks : status'[i] = "pending"
  BY <1>5 DEF Restored, Pending
<1>7. saved' \subseteq Plans /\ saved' # {} /\ Cardinality(saved') <= 1
  BY <1>1, <1>2, <1>3
<1>8. /\ stage = "starting" /\ stage' = "scheduling" /\ subtasks' = Subtasks /\ phase' = "on"
      /\ UNCHANGED <<cause, unsaved, up, row, ckpt, resume, merged, counters>>
  BY DEF PlanReady
<1> QED
  BY <1>4, <1>5, <1>6, <1>7, <1>8

\* Every variable keeps its type.
LEMMA TypeStep ==
    ASSUME LifeInv, [Next]_vars
    PROVE  TypeOK'
<1>1. /\ subtasks \subseteq Ids /\ deps \in [Ids -> SUBSET Subtasks]
      /\ status \in [Ids -> RunStatus] /\ Subtasks \subseteq Ids
      /\ phase \in {"on", "stopping", "over"}
      /\ ckpt \in [Ids -> {"none", "running"} \cup Terminal]
      /\ saved \subseteq Plans /\ Cardinality(saved) <= 1 /\ unsaved \subseteq Ids
      /\ stage \in {"none", "starting", "scheduling", "finalizing", "closing"}
      /\ cause \in {"none", "budget", "cancel"}
      /\ up \in BOOLEAN /\ resume \in BOOLEAN /\ merged \in BOOLEAN
      /\ row \in Outcomes \cup {"queued", "running"}
      /\ crashes \in 0..MaxCrashes /\ resumes \in 0..MaxResumes
      /\ MaxCrashes \in Nat /\ MaxResumes \in Nat
  BY Types, RunLifecycleAssumption DEF LifeInv, TypeOK
<1>2. SUFFICES
      /\ subtasks' \subseteq Ids /\ deps' \in [Ids -> SUBSET Subtasks]
      /\ status' \in [Ids -> RunStatus]
      /\ phase' \in {"on", "stopping", "over"}
      /\ ckpt' \in [Ids -> {"none", "running"} \cup Terminal]
      /\ saved' \subseteq Plans /\ Cardinality(saved') <= 1 /\ unsaved' \subseteq Ids
      /\ stage' \in {"none", "starting", "scheduling", "finalizing", "closing"}
      /\ cause' \in {"none", "budget", "cancel"}
      /\ up' \in BOOLEAN /\ resume' \in BOOLEAN /\ merged' \in BOOLEAN
      /\ row' \in Outcomes \cup {"queued", "running"}
      /\ crashes' \in 0..MaxCrashes /\ resumes' \in 0..MaxResumes
  BY SameStatuses DEF TypeOK, Run!TypeOK
<1>3. CASE Work
  BY <1>1, <1>3, WorkStep DEF DagSafe, Checkpointed, counters
<1>4. CASE PlanReady
  <2>1. status' \in [Ids -> RunStatus]
    BY <1>4, PlanReadyEffect, StatusFacts DEF LifeInv
  <2> QED
    BY <1>1, <1>4, <2>1, PlanReadyEffect DEF LifeInv, counters
<1>5. CASE Crash
  <2>1. Pending \in [Ids -> RunStatus]
    BY StatusFacts DEF Pending
  <2>2. crashes' \in 0..MaxCrashes
    BY <1>1, <1>5 DEF Crash
  <2>3. up' \in BOOLEAN /\ UNCHANGED <<durableVars, resumes>>
    BY <1>5 DEF Crash
  <2>4. /\ subtasks' = {} /\ deps' = [i \in Ids |-> {}] /\ status' = Pending /\ phase' = "over"
        /\ stage' = "none" /\ cause' = "none" /\ unsaved' = {}
    BY <1>5 DEF Crash
  <2> QED
    BY <1>1, <2>1, <2>2, <2>3, <2>4 DEF durableVars
<1>6. CASE CheckpointNext
  <2>1. PICK i \in unsaved : ckpt' = Checkpoint(i) /\ unsaved' = unsaved \ {i}
    BY <1>6 DEF CheckpointNext
  <2>2. i \in Ids /\ status[i] \in {"running"} \cup Terminal
    BY <1>1, StatusFacts DEF LifeInv, Written, ToSave
  <2> QED
    BY <1>1, <1>6, <2>1, <2>2 DEF CheckpointNext, Checkpoint, dagVars, counters
<1>7. CASE SchedulerOver \/ FinalizeEnds
  <2>1. unsaved' = ToSave \/ unsaved' = unsaved
    BY <1>7 DEF SchedulerOver, FinalizeEnds
  <2>2. row' \in Outcomes \cup {"queued", "running"}
    BY <1>1, <1>7 DEF SchedulerOver, FinalizeEnds, Outcome, Rollup, Outcomes
  <2>3. stage' \in {"closing", "finalizing"}
    BY <1>7 DEF SchedulerOver, FinalizeEnds
  <2> QED
    BY <1>1, <1>7, <2>1, <2>2, <2>3 DEF SchedulerOver, FinalizeEnds, ToSave, dagVars, counters
<1>8. CASE Begin \/ StartFails \/ Close \/ AutoMerge
  BY <1>1, <1>8 DEF Begin, StartFails, Close, ClosedRow, AutoMerge, Outcomes, dagVars,
                    engineVars, counters
<1>9. CASE ResumeRun \/ Boot
  <2>1. up' \in BOOLEAN /\ resume' \in BOOLEAN
    BY <1>1, <1>9 DEF ResumeRun, Boot
  <2>2. row' \in Outcomes \cup {"queued", "running"} /\ resumes' \in 0..MaxResumes
    BY <1>1, <1>9 DEF ResumeRun, Boot, Outcomes, counters
  <2>3. UNCHANGED <<dagVars, engineVars, saved, ckpt, merged, crashes>>
    BY <1>9 DEF ResumeRun, Boot, counters
  <2> QED
    BY <1>1, <2>1, <2>2, <2>3 DEF dagVars, engineVars
<1>10. CASE UNCHANGED vars
  BY <1>1, <1>10 DEF vars, dagVars, engineVars, durableVars, counters
<1> QED
  BY <1>3, <1>4, <1>5, <1>6, <1>7, <1>8, <1>9, <1>10, NextCases

LEMMA PlanStep ==
    ASSUME LifeInv, [Next]_vars
    PROVE  PlanKept'
<1>1. /\ status \in [Ids -> RunStatus] /\ Subtasks \subseteq Ids /\ subtasks \subseteq Ids
      /\ subtasks # {} => Subtasks \subseteq subtasks
      /\ \A i \in Ids \ subtasks : status[i] = "pending"
      /\ stage \in {"scheduling", "finalizing", "closing"} => saved # {} /\ Subtasks \subseteq subtasks
  BY Types DEF LifeInv, PlanKept
<1>2. CASE Work
  <2>1. Scheduling /\ DagSafe /\ UNCHANGED <<stage, saved>>
    BY <1>2, WorkStep
  <2> QED
    BY <1>1, <2>1 DEF DagSafe, PlanKept, Scheduling
<1>3. CASE PlanReady
  BY <1>1, <1>3, PlanReadyEffect DEF PlanKept, LifeInv
<1>4. CASE Crash
  BY <1>1, <1>4 DEF Crash, PlanKept, Pending
<1>5. CASE Aside
  <2>1. UNCHANGED <<subtasks, status, saved>>
    BY <1>5, AsideKeepsRun
  <2>2. stage' \in {"scheduling", "finalizing", "closing"} =>
            stage \in {"scheduling", "finalizing", "closing"}
    BY <1>5 DEF Aside, Begin, StartFails, SchedulerOver, Scheduling, AutoMerge, FinalizeEnds,
         CheckpointNext, Close, ResumeRun, Boot, vars, engineVars
  <2> QED
    BY <1>1, <2>1, <2>2 DEF PlanKept
<1> QED
  BY <1>2, <1>3, <1>4, <1>5, CaseSplit

\* No status is lost between two sessions, but to a crash.
LEMMA WrittenStep ==
    ASSUME LifeInv, [Next]_vars
    PROVE  Written'
<1>1. /\ status \in [Ids -> RunStatus] /\ subtasks \subseteq Ids
      /\ ckpt \in [Ids -> {"none", "running"} \cup Terminal]
      /\ unsaved \subseteq ToSave
      /\ stage # "closing" => unsaved = {}
      /\ stage \in {"none", "starting", "closing"} =>
            \A i \in ToSave : i \in unsaved \/ ckpt[i] = status[i]
  BY Types DEF LifeInv, Written
<1>2. CASE Work
  BY <1>1, <1>2, WorkStep DEF Written, Scheduling
<1>3. CASE PlanReady
  BY <1>1, <1>3, PlanReadyEffect DEF LifeInv, Written
<1>4. CASE Crash
  BY <1>4 DEF Crash, Written, ToSave
<1>5. CASE CheckpointNext
  <2>1. PICK i \in unsaved : ckpt' = Checkpoint(i) /\ unsaved' = unsaved \ {i}
    BY <1>5 DEF CheckpointNext
  <2>2. ToSave' = ToSave /\ UNCHANGED <<status, stage>> /\ stage = "closing"
    BY <1>5 DEF CheckpointNext, ToSave, dagVars
  <2>3. ToSave \subseteq Ids
    BY <1>1 DEF ToSave
  <2> QED
    BY <1>1, <2>1, <2>2, <2>3 DEF Written, Checkpoint
<1>6. CASE Aside /\ ~CheckpointNext
  <2>1. ToSave' = ToSave /\ status' = status
    BY <1>6, AsideKeepsRun DEF ToSave
  <2>2. ckpt' = ckpt
    BY <1>6 DEF Aside, Begin, StartFails, SchedulerOver, AutoMerge, FinalizeEnds, Close,
                ResumeRun, Boot, vars, durableVars
  <2>3. \/ unsaved' = ToSave /\ stage' = "closing"
        \/ unsaved' = unsaved /\ (stage' = stage \/ stage' = "finalizing"
                                  \/ (stage = "none" /\ stage' = "starting")
                                  \/ (stage = "starting" /\ stage' = "none")
                                  \/ (stage = "closing" /\ unsaved = {} /\ stage' = "none"))
    <3>1. CASE Begin
      <4>1. stage = "none"
        BY <3>1 DEF Begin, LifeInv, RowKept
      <4> QED
        BY <3>1, <4>1 DEF Begin
    <3> QED
      BY <1>6, <3>1 DEF Aside, StartFails, SchedulerOver, AutoMerge, FinalizeEnds, Close,
                ResumeRun, Boot, vars, engineVars
  <2>4. stage' = "finalizing" => stage \in {"scheduling", "finalizing"}
    BY <1>6 DEF Aside, Begin, StartFails, SchedulerOver, Scheduling, AutoMerge, FinalizeEnds, Close,
                ResumeRun, Boot, vars, engineVars
  <2> QED
    BY <1>1, <2>1, <2>2, <2>3, <2>4 DEF Written
<1> QED
  BY <1>2, <1>3, <1>4, <1>5, <1>6, CaseSplit

\* The row never says of a run that is not under way that it is.
LEMMA RowStep ==
    ASSUME LifeInv, [Next]_vars
    PROVE  RowKept'
<1>1. /\ stage \in {"starting", "scheduling", "finalizing"} => row = "running"
      /\ row = "queued" => stage = "none"
      /\ ~up => stage = "none" /\ crashes > 0
      /\ up /\ stage = "none" => row # "running"
      /\ ~resume /\ (row = "queued" \/ stage = "starting") => \A i \in Ids : status[i] = "pending"
      /\ stage \in {"none", "starting", "scheduling", "finalizing", "closing"}
      /\ crashes \in Nat /\ up \in BOOLEAN /\ resume \in BOOLEAN
  BY RunLifecycleAssumption DEF LifeInv, TypeOK, RowKept
<1>2. CASE Work
  <2>1. stage = "scheduling" /\ up /\ UNCHANGED <<stage, row, up, resume, crashes>>
    BY <1>2, WorkStep DEF Scheduling, counters
  <2> QED
    BY <1>1, <2>1 DEF RowKept
<1>3. CASE PlanReady
  <2>1. stage = "starting" /\ up /\ stage' = "scheduling" /\ UNCHANGED <<row, up, resume, crashes>>
    BY <1>3 DEF PlanReady, counters
  <2> QED
    BY <1>1, <2>1 DEF RowKept
<1>4. CASE Crash
  <2>1. ~up' /\ stage' = "none" /\ crashes' = crashes + 1 /\ status' = Pending
    BY <1>4 DEF Crash
  <2> QED
    BY <1>1, <2>1 DEF RowKept, Pending
<1>5. CASE Aside
  <2>1. status' = status
    BY <1>5, AsideKeepsRun
  <2>2. CASE Begin
    <3>1. /\ up /\ up' = up /\ row = "queued" /\ row' = "running" /\ stage' = "starting"
          /\ UNCHANGED <<resume, crashes>>
      BY <2>2 DEF Begin, counters
    <3> QED
      BY <1>1, <2>1, <3>1 DEF RowKept
  <2>3. CASE StartFails \/ Close
    <3>1. /\ up /\ up' = up /\ row' \notin {"queued", "running"} /\ stage' = "none"
          /\ UNCHANGED <<resume, crashes>>
      BY <1>1, <2>3 DEF StartFails, Close, ClosedRow, counters
    <3> QED
      BY <1>1, <2>1, <3>1 DEF RowKept
  <2>4. CASE SchedulerOver \/ FinalizeEnds
    <3>1. /\ up /\ up' = up /\ stage \in {"scheduling", "finalizing"}
          /\ stage' \in {"closing", "finalizing"}
          /\ stage' = "finalizing" => row' = row
          /\ UNCHANGED <<resume, crashes>>
      BY <2>4 DEF SchedulerOver, FinalizeEnds, Scheduling, counters
    <3>2. row' # "queued"
      BY <1>1, <2>4, <3>1 DEF SchedulerOver, FinalizeEnds, Outcome, Rollup
    <3> QED
      BY <1>1, <2>1, <3>1, <3>2 DEF RowKept
  <2>5. CASE AutoMerge \/ CheckpointNext \/ UNCHANGED vars
    <3>1. UNCHANGED <<up, row, stage, resume, crashes>>
      BY <2>5 DEF AutoMerge, CheckpointNext, vars, engineVars, durableVars, counters
    <3> QED
      BY <1>1, <2>1, <3>1 DEF RowKept
  <2>6. CASE ResumeRun
    <3>1. up' = up /\ up /\ row' = "queued" /\ stage' = stage /\ stage = "none" /\ resume'
      BY <2>6 DEF ResumeRun, engineVars
    <3> QED
      BY <1>1, <2>1, <3>1 DEF RowKept
  <2>7. CASE Boot
    <3>1. /\ ~up /\ up' /\ stage' = stage /\ row' # "running"
          /\ row' = row \/ row' = "interrupted"
          /\ UNCHANGED <<resume, crashes>>
      BY <2>7 DEF Boot, engineVars, counters
    <3> QED
      BY <1>1, <2>1, <3>1 DEF RowKept
  <2> QED
    BY <1>5, <2>2, <2>3, <2>4, <2>5, <2>6, <2>7 DEF Aside
<1> QED
  BY <1>2, <1>3, <1>4, <1>5, CaseSplit

\* What is on record as done is done in a resumed session, from its start on.
LEMMA DoneStep ==
    ASSUME LifeInv, [Next]_vars
    PROVE  DoneKept'
<1>1. /\ Subtasks \subseteq Ids /\ ckpt \in [Ids -> {"none", "running"} \cup Terminal]
      /\ stage = "scheduling" /\ resume =>
             \A i \in Subtasks : ckpt[i] \in Satisfying => status[i] = ckpt[i]
  BY Types DEF LifeInv, DoneKept
<1>2. CASE Work
  <2>1. /\ UNCHANGED <<stage, resume>>
        /\ \A i \in Ids : status[i] \in Terminal => status'[i] = status[i]
        /\ \A i \in Ids : ckpt'[i] = ckpt[i] \/ ckpt'[i] = "running"
    BY <1>1, <1>2, WorkStep DEF DagSafe, Checkpointed
  <2> QED
    BY <1>1, <2>1, StatusFacts DEF DoneKept
<1>3. CASE PlanReady
  <2>1. UNCHANGED <<resume, ckpt>> /\ status' = IF resume THEN Restored ELSE Pending
    BY <1>3, PlanReadyEffect DEF LifeInv
  <2> QED
    BY <1>1, <2>1 DEF DoneKept, Restored
<1>4. CASE Crash
  BY <1>4 DEF Crash, DoneKept
<1>5. CASE Aside
  <2>1. stage' = "scheduling" => stage = "scheduling" /\ UNCHANGED <<ckpt, resume>>
    BY <1>5 DEF Aside, Begin, StartFails, SchedulerOver, AutoMerge, FinalizeEnds,
         CheckpointNext, Close, ResumeRun, Boot, vars, engineVars, durableVars
  <2>2. status' = status
    BY <1>5, AsideKeepsRun
  <2> QED
    BY <1>1, <2>1, <2>2 DEF DoneKept
<1> QED
  BY <1>2, <1>3, <1>4, <1>5, CaseSplit

\* A run is on record as completed once everything of it passed, and every
\* status is written before the session that completed it is over.
LEMMA CompletedStep ==
    ASSUME LifeInv, [Next]_vars
    PROVE  CompletedKept'
<1>1. /\ Subtasks \subseteq Ids /\ ckpt \in [Ids -> {"none", "running"} \cup Terminal]
      /\ status \in [Ids -> RunStatus] /\ crashes \in Nat
      /\ stage \in {"scheduling", "finalizing", "closing"} => saved # {} /\ Subtasks \subseteq subtasks
      /\ stage = "closing" => \A i \in ToSave : i \in unsaved \/ ckpt[i] = status[i]
      /\ stage \in {"starting", "scheduling", "finalizing"} => row = "running"
      /\ row = "queued" => stage = "none"
      /\ ~up => crashes > 0
      /\ crashes = 0 /\ row = "completed" =>
            /\ saved # {}
            /\ stage = "closing" => \A i \in Subtasks : i \in subtasks /\ status[i] = "passed"
            /\ stage # "closing" => stage = "none" /\ \A i \in Subtasks : ckpt[i] = "passed"
  BY Types, RunLifecycleAssumption
     DEF LifeInv, TypeOK, PlanKept, Written, RowKept, CompletedKept
<1>2. CASE Work \/ PlanReady
  <2>1. row' = row /\ row = "running"
    BY <1>1, <1>2, WorkStep, PlanReadyEffect DEF LifeInv, Scheduling
  <2> QED
    BY <2>1 DEF CompletedKept
<1>3. CASE Crash
  <2>1. crashes' = crashes + 1
    BY <1>3 DEF Crash
  <2> QED
    BY <1>1, <2>1 DEF CompletedKept
<1>4. CASE Begin \/ StartFails \/ SchedulerOver \/ ResumeRun
  <2>1. row' # "completed" \/ (row' = row /\ row = "running")
    BY <1>1, <1>4 DEF Begin, StartFails, SchedulerOver, ResumeRun, Scheduling
  <2> QED
    BY <2>1 DEF CompletedKept
<1>5. CASE FinalizeEnds
  <2>1. /\ row' \in {Outcome, "running", "cancelled"} /\ stage' = "closing" /\ stage = "finalizing"
        /\ UNCHANGED <<subtasks, status, saved>>
    BY <1>5 DEF FinalizeEnds, dagVars
  <2>2. row' = "completed" => \A i \in subtasks : status[i] = "passed"
    BY <2>1 DEF Outcome, Rollup
  <2> QED
    BY <1>1, <2>1, <2>2 DEF CompletedKept
<1>6. CASE Close
  <2>1. /\ stage = "closing" /\ unsaved = {} /\ stage' = "none"
        /\ row' = "completed" => row = "completed"
        /\ UNCHANGED <<saved, ckpt, crashes>>
    BY <1>6 DEF Close, ClosedRow, counters
  <2> QED
    BY <1>1, <2>1 DEF CompletedKept, ToSave
<1>7. CASE AutoMerge
  <2>1. row' = row /\ row = "running"
    BY <1>1, <1>7 DEF AutoMerge
  <2> QED
    BY <2>1 DEF CompletedKept
<1>8. CASE CheckpointNext
  <2>1. stage = "closing" /\ UNCHANGED <<subtasks, status, stage, row, saved, crashes>>
    BY <1>8 DEF CheckpointNext, dagVars, counters
  <2> QED
    BY <1>1, <2>1 DEF CompletedKept
<1>9. CASE Boot
  <2>1. ~up /\ crashes' = crashes
    BY <1>9 DEF Boot, counters
  <2> QED
    BY <1>1, <2>1 DEF CompletedKept
<1>10. CASE UNCHANGED vars
  BY <1>1, <1>10 DEF vars, dagVars, engineVars, durableVars, counters, CompletedKept
<1> QED
  BY <1>2, <1>3, <1>4, <1>5, <1>6, <1>7, <1>8, <1>9, <1>10, NextCases

\* A session starts with nothing running, so what DagRun promises holds in it.
LEMMA BuildsStep ==
    ASSUME LifeInv, [Next]_vars
    PROVE  BuildsOnSatisfied'
<1>1. CASE Work
  BY <1>1, WorkStep, SameStatuses DEF DagSafe, BuildsOnSatisfied, Run!RunningOnSatisfied
<1>2. CASE PlanReady
  <2>1. subtasks' = Subtasks /\ status' \in [Ids -> {"pending"} \cup Satisfying]
    BY <1>2, PlanReadyEffect DEF LifeInv
  <2>2. \A i \in subtasks' : status'[i] # "running"
    BY <2>1, StatusFacts, RunLifecycleAssumption
  <2> QED
    BY <2>2 DEF BuildsOnSatisfied, Run!RunningOnSatisfied
<1>3. CASE Crash
  BY <1>3 DEF Crash, BuildsOnSatisfied
<1>4. CASE Aside
  <2>1. stage' = "scheduling" => stage = "scheduling"
    BY <1>4 DEF Aside, Begin, StartFails, SchedulerOver, AutoMerge, FinalizeEnds,
         CheckpointNext, Close, ResumeRun, Boot, vars, engineVars
  <2> QED
    BY <1>4, <2>1, AsideKeepsRun DEF LifeInv, BuildsOnSatisfied, Run!RunningOnSatisfied
<1> QED
  BY <1>1, <1>2, <1>3, <1>4, CaseSplit

-----------------------------------------------------------------------------
(* The invariant, and what follows from it *)

LEMMA InitLifeInv == Init => LifeInv
<1> SUFFICES ASSUME Init
             PROVE  LifeInv
  OBVIOUS
<1>1. Pending \in [Ids -> RunStatus]
  BY StatusFacts DEF Pending
<1>2. Cardinality({}) = 0
  BY FS_EmptySet
<1>3. TypeOK
  <2>1. /\ subtasks = {} /\ deps = [i \in Ids |-> {}] /\ status = Pending /\ phase = "over"
        /\ stage = "none" /\ cause = "none" /\ unsaved = {} /\ saved = {} /\ row = "queued"
        /\ ckpt = [i \in Ids |-> "none"] /\ crashes = 0 /\ resumes = 0
    BY DEF Init
  <2>2. up \in BOOLEAN /\ resume \in BOOLEAN /\ merged \in BOOLEAN
    BY DEF Init
  <2>3. Run!TypeOK
    BY <1>1, <2>1, SameStatuses DEF Run!TypeOK
  <2>4. /\ crashes \in 0..MaxCrashes /\ resumes \in 0..MaxResumes
        /\ Cardinality(saved) <= 1 /\ saved \subseteq Plans
    BY <1>2, <2>1, RunLifecycleAssumption
  <2> QED
    BY <2>1, <2>2, <2>3, <2>4 DEF TypeOK
<1>4. PlanKept /\ Written /\ DoneKept /\ CompletedKept /\ BuildsOnSatisfied
  BY RunLifecycleAssumption
     DEF Init, PlanKept, Written, ToSave, DoneKept, CompletedKept, BuildsOnSatisfied, Pending
<1>5. RowKept
  BY DEF Init, RowKept, Pending
<1> QED
  BY <1>3, <1>4, <1>5 DEF LifeInv

\* LifeInv is an inductive invariant of the run's life.
THEOREM LifeInvariantHolds == Spec => []LifeInv
<1>1. LifeInv /\ [Next]_vars => LifeInv'
  BY TypeStep, PlanStep, WrittenStep, RowStep, DoneStep, CompletedStep, BuildsStep DEF LifeInv
<1> QED
  BY InitLifeInv, <1>1, PTL DEF Spec

\* What is on record agrees with what was done, over any number of sessions.
THEOREM RecordHolds == Spec => []RecordSound
<1>1. LifeInv => RecordSound
  BY DEF LifeInv, RowKept, CompletedKept, RecordSound, NoOrphanRow, CompletedIsRecorded
<1> QED
  BY LifeInvariantHolds, <1>1, PTL

\* What is done stays done, whatever ends the sessions, and is not done again.
THEOREM DoneForGood == Spec => DoneStaysDone
<1> DEFINE NotTwice == \A i \in Subtasks :
               resume /\ ckpt[i] \in Satisfying /\ stage = "scheduling" => status'[i] # "running"
           Survives == \A i \in Subtasks :
               up' /\ status[i] \in Satisfying => status'[i] = status[i]
<1>1. ASSUME LifeInv, [Next]_vars
      PROVE  [Survives]_vars
  <2>1. Subtasks \subseteq Ids /\ status \in [Ids -> RunStatus]
    BY <1>1, Types DEF LifeInv
  <2>2. CASE Work
    BY <1>1, <2>1, <2>2, WorkStep, StatusFacts DEF DagSafe
  <2>3. CASE PlanReady
    <3>1. stage = "starting" /\ status' = IF resume THEN Restored ELSE Pending
      BY <1>1, <2>3, PlanReadyEffect DEF LifeInv
    <3>2. ASSUME NEW i \in Subtasks, status[i] \in Satisfying
          PROVE  status'[i] = status[i]
      <4>1. resume
        BY <1>1, <2>1, <3>1, <3>2, StatusFacts DEF LifeInv, RowKept
      <4>2. ckpt[i] = status[i]
        BY <1>1, <2>1, <3>1, <3>2, StatusFacts DEF LifeInv, PlanKept, Written, ToSave
      <4> QED
        BY <2>1, <3>1, <3>2, <4>1, <4>2 DEF Restored
    <3> QED
      BY <3>2
  <2>4. CASE Crash
    BY <1>1, <2>4 DEF Crash
  <2>5. CASE Aside
    BY <1>1, <2>5, AsideKeepsRun
  <2> QED
    BY <2>2, <2>3, <2>4, <2>5, <1>1, CaseSplit
<1>2. ASSUME LifeInv, [Next]_vars
      PROVE  [NotTwice]_vars
  <2>1. SUFFICES ASSUME NEW i \in Subtasks, resume, ckpt[i] \in Satisfying, stage = "scheduling"
                 PROVE  status'[i] # "running"
    OBVIOUS
  <2>2. status[i] \in Satisfying
    BY <1>2, <2>1 DEF LifeInv, DoneKept
  <2>3. CASE up'
    BY <1>1, <1>2, <2>2, <2>3, StatusFacts DEF vars, dagVars
  <2>4. CASE ~up'
    <3>1. Crash
      BY <1>2, <2>1, <2>4, CaseSplit, WorkStep, PlanReadyEffect
         DEF Aside, Begin, StartFails, SchedulerOver, AutoMerge, FinalizeEnds, CheckpointNext,
             Close, ResumeRun, Boot, vars, LifeInv, RowKept, Scheduling, PlanReady
    <3> QED
      BY <3>1, RunLifecycleAssumption DEF Crash, Pending
  <2> QED
    BY <2>3, <2>4
<1> QED
  BY LifeInvariantHolds, <1>1, <1>2, PTL DEF Spec, DoneStaysDone, NotDoneTwice, WorkSurvivesStop
=============================================================================
