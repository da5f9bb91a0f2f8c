--------------------------- MODULE Scheduler_proofs ---------------------------
(***************************************************************************)
(* Proofs about Scheduler, for every number of subtasks, every plan and    *)
(* every setting.  The inductive invariant is Scheduler!IInv; each of its  *)
(* conjuncts is shown to be preserved by a lemma of its own.               *)
(***************************************************************************)
EXTENDS Scheduler, TLAPS, FiniteSetTheorems, FunctionTheorems, SequenceTheorems

\* No status is both what a dependent may build on and what it is given up for.
LEMMA StatusFacts ==
    /\ Satisfying \cap Unmet = {}
    /\ Satisfying \subseteq Terminal
    /\ Terminal \subseteq RunStatus
    /\ "pending" \notin Terminal /\ "running" \notin Terminal
    /\ {"pending", "running", "blocked", "failed", "passed", "passed_with_caveats"}
         \subseteq RunStatus
BY DEF Satisfying, Unmet, Terminal, RunStatus

\* Ids, and every set of ids, is finite.
LEMMA IdsFinite ==
    ASSUME NEW S \in SUBSET Ids
    PROVE  IsFiniteSet(S) /\ Cardinality(S) \in Nat
<1>1. 2 * N \in Int
  BY SchedulerAssumption
<1>2. IsFiniteSet(Ids)
  BY <1>1, FS_Interval DEF Ids
<1>3. IsFiniteSet(S)
  BY <1>2, FS_Subset
<1> QED
  BY <1>3, FS_CardinalityType

\* The subtasks of the plan and their repairs are ids, and no repair is one of
\* the plan's subtasks.
LEMMA IdFacts ==
    /\ Subtasks \subseteq Ids
    /\ \A i \in Subtasks : Fix(i) \in Ids \ Subtasks
    /\ Ids \subseteq Int
BY SchedulerAssumption DEF Subtasks, Ids, Fix

-----------------------------------------------------------------------------
(* The sessions *)

\* A lease that ends leaves one session less out.
LEMMA LeaseEnds ==
    ASSUME TypeOK, SessionsAccounted, NEW i \in Ids, worker[i] \in Leased,
           NEW w, w \notin Leased,
           worker' = [worker EXCEPT ![i] = w], free' = free + 1
    PROVE  SessionsAccounted' /\ free' \in 0..MaxConcurrent
<1> DEFINE L == LeasedIds
<1>1. L' = L \ {i} /\ i \in L
  BY DEF LeasedIds, TypeOK
<1>2. L \in SUBSET Ids /\ L' \in SUBSET Ids
  BY DEF LeasedIds
<1>3. Cardinality(L') = Cardinality(L) - 1 /\ Cardinality(L') \in Nat /\ Cardinality(L) \in Nat
  BY <1>1, <1>2, IdsFinite, FS_RemoveElement
<1>4. free \in 0..MaxConcurrent /\ MaxConcurrent \in Nat
  BY SchedulerAssumption DEF TypeOK
<1> QED
  BY <1>3, <1>4 DEF SessionsAccounted

\* A lease that begins takes one that was free.
LEMMA LeaseBegins ==
    ASSUME TypeOK, SessionsAccounted, NEW i \in Ids, worker[i] \notin Leased,
           NEW w \in Leased,
           worker' = [worker EXCEPT ![i] = w], free > 0, free' = free - 1
    PROVE  SessionsAccounted' /\ free' \in 0..MaxConcurrent
<1> DEFINE L == LeasedIds
<1>1. L' = L \cup {i} /\ i \notin L
  BY DEF LeasedIds, TypeOK
<1>2. L \in SUBSET Ids /\ L' \in SUBSET Ids
  BY DEF LeasedIds
<1>3. Cardinality(L') = Cardinality(L) + 1 /\ Cardinality(L') \in Nat /\ Cardinality(L) \in Nat
  BY <1>1, <1>2, IdsFinite, FS_AddElement
<1>4. free \in 0..MaxConcurrent /\ MaxConcurrent \in Nat
  BY SchedulerAssumption DEF TypeOK
<1> QED
  BY <1>3, <1>4 DEF SessionsAccounted

\* What leaves the set of leased tasks alone accounts for the sessions too.
LEMMA LeaseKept ==
    ASSUME TypeOK, SessionsAccounted, LeasedIds' = LeasedIds, free' = free
    PROVE  SessionsAccounted' /\ free' \in 0..MaxConcurrent
BY DEF SessionsAccounted, TypeOK

\* What the loop launches has no task yet, is pending, and may start.
LEMMA LaunchSound ==
    ASSUME IInv, NEW S, S \subseteq ToSchedule \/ S \subseteq toDispatch
    PROVE  /\ S \subseteq subtasks /\ S \subseteq Ids
           /\ \A i \in S : worker[i] = "none" /\ status[i] = "pending" /\ DepsMet(i)
<1>1. subtasks \subseteq Ids
  BY DEF IInv, TypeOK
<1>2. CASE S \subseteq ToSchedule
  BY <1>1, <1>2 DEF IInv, DispatchSound, ToSchedule, Ready, DepsMet
<1>3. CASE S \subseteq toDispatch
  BY <1>1, <1>3 DEF IInv, DispatchSound, StatusAgrees
<1> QED
  BY <1>2, <1>3

\* Queued tasks hold no session.
LEMMA LaunchKeepsLeases ==
    ASSUME IInv, NEW S, S \subseteq ToSchedule \/ S \subseteq toDispatch, Launch(S)
    PROVE  LeasedIds' = LeasedIds /\ free' = free
BY LaunchSound DEF Launch, LeasedIds, Leased, IInv, TypeOK

\* The steps of Next that touch neither the tasks nor the semaphore.
Aside ==
    \/ BlockUnreachable \/ StopAtGate \/ AwaitFirst \/ Repair \/ Return \/ Collect \/ Raise
    \/ Pause \/ Resume \/ Cancel \/ Spend \/ UNCHANGED vars

LEMMA AsideKeepsTasks ==
    ASSUME Aside
    PROVE  UNCHANGED <<worker, reviews, transients, free, waiters, dispatched>>
BY DEF Aside, BlockUnreachable, StopAtGate, AwaitFirst, Repair, Return, Collect, Raise,
       Pause, Resume, Cancel, Spend, vars, workerVars, loopVars

\* Each step of the system is one of these.
LEMMA NextCases ==
    ASSUME [Next]_vars
    PROVE  \/ Aside \/ Dispatch \/ PassGate \/ Acquire
           \/ \E i \in Ids : Worker(i)
BY DEF Next, Loop, Aside, Terminated

\* The step of a task ends its lease, or keeps it, or it never had one.
LEMMA WorkerLease ==
    ASSUME IInv, NEW i \in Ids, Worker(i)
    PROVE  SessionsAccounted' /\ free' \in 0..MaxConcurrent
<1>1. TypeOK /\ SessionsAccounted /\ worker[i] \in WorkerState
  BY DEF IInv, TypeOK
<1>2. CASE ExecuteReturns(i)
  BY <1>1, <1>2, LeaseKept DEF ExecuteReturns, Runs, Leased, LeasedIds, TypeOK
<1>3. ASSUME NEW o, worker[i] \in Leased, Settle(i, o)
      PROVE  SessionsAccounted' /\ free' \in 0..MaxConcurrent
  BY <1>1, <1>3, LeaseEnds DEF Settle, Leave, Leased
<1>4. ASSUME worker[i] \in Leased, Attempt(i)
      PROVE  SessionsAccounted' /\ free' \in 0..MaxConcurrent
  <2>1. CASE overBudget
    BY <1>1, <1>4, <2>1, LeaseEnds DEF Attempt, Leave, Leased
  <2>2. CASE ~overBudget
    BY <1>1, <1>4, <2>2, LeaseKept DEF Attempt, LeasedIds, Leased, TypeOK
  <2> QED
    BY <2>1, <2>2
<1>5. CASE ExecuteTransient(i)
  <2>1. CASE transients[i] < TransientRetries
    BY <1>1, <1>5, <2>1, LeaseKept DEF ExecuteTransient, Runs, Leased, LeasedIds, TypeOK
  <2>2. CASE ~(transients[i] < TransientRetries)
    BY <1>3, <1>5, <2>2 DEF ExecuteTransient, Runs, Leased
  <2> QED
    BY <2>1, <2>2
<1>6. CASE BackoffEnds(i)
  BY <1>4, <1>6 DEF BackoffEnds, Runs, Leased
<1>7. CASE ExecuteErrors(i) \/ VerifyPasses(i)
  BY <1>3, <1>7 DEF ExecuteErrors, VerifyPasses, Runs, Leased
<1>8. CASE VerifyFails(i)
  <2>1. CASE reviews[i] < MaxRetries
    BY <1>4, <1>8, <2>1 DEF VerifyFails, Runs, Leased
  <2>2. CASE ~(reviews[i] < MaxRetries)
    <3>1. PICK hasOutput \in BOOLEAN :
            Settle(i, IF Degrade /\ hasOutput THEN "passed_with_caveats" ELSE "failed")
      BY <1>8, <2>2 DEF VerifyFails
    <3> QED
      BY <1>3, <1>8, <3>1 DEF VerifyFails, Runs, Leased
  <2> QED
    BY <2>1, <2>2
<1>9. CASE Cancelled(i)
  <2>1. CASE worker[i] = "queued"
    BY <1>1, <1>9, <2>1, LeaseKept DEF Cancelled, LeasedIds, Leased, TypeOK
  <2>2. CASE worker[i] # "queued"
    <3>1. worker[i] \in Leased
      BY <1>9, <2>2 DEF Cancelled, IInv, TasksAwaited, Live
    <3> QED
      BY <1>1, <1>9, <2>2, <3>1, LeaseEnds DEF Cancelled, Leave, Leased
  <2> QED
    BY <2>1, <2>2
<1> QED
  BY <1>2, <1>5, <1>6, <1>7, <1>8, <1>9 DEF Worker

\* Every step leaves the semaphore and the sessions in balance.
LEMMA SessionsStep ==
    ASSUME IInv, [Next]_vars
    PROVE  SessionsAccounted' /\ free' \in 0..MaxConcurrent
<1>1. TypeOK /\ SessionsAccounted
  BY DEF IInv
<1>2. CASE Aside
  BY <1>1, <1>2, AsideKeepsTasks, LeaseKept DEF LeasedIds
<1>3. CASE Dispatch \/ PassGate
  BY <1>1, <1>3, LaunchKeepsLeases, LeaseKept DEF Dispatch, PassGate
<1>4. CASE Acquire
  <2> DEFINE i == Head(waiters)
  <2>1. i \in Ids /\ worker[i] = "queued" /\ worker[i] \notin Leased
    BY <1>1, <1>4 DEF Acquire, Runs, Leased, TypeOK
  <2>2. CASE overBudget
    BY <1>1, <1>4, <2>1, <2>2, LeaseKept DEF Acquire, LeasedIds, Leased, TypeOK
  <2>3. CASE ~overBudget
    BY <1>1, <1>4, <2>1, <2>3, LeaseBegins DEF Acquire, Leased
  <2> QED
    BY <2>2, <2>3
<1> QED
  BY <1>2, <1>3, <1>4, WorkerLease, NextCases

-----------------------------------------------------------------------------
(* The statuses *)

\* What the step of a task does to the statuses: that of its own subtask, which
\* is running, may change.
LEMMA WorkerStatus ==
    ASSUME IInv, NEW i \in Ids, Worker(i)
    PROVE  /\ status' \in [Ids -> RunStatus]
           /\ \A j \in Ids \ {i} : status'[j] = status[j]
           /\ status'[i] # status[i] => status[i] = "running"
           /\ worker[i] \in Live /\ (worker'[i] \in Leased => worker[i] \in Leased)
           /\ worker'[i] \in Leased => status'[i] = status[i]
           /\ worker'[i] \in WorkerState \ {"none", "queued"}
           /\ worker' = [worker EXCEPT ![i] = worker'[i]]
           /\ cancelling' = cancelling \ {i}
           /\ UNCHANGED <<subtasks, deps, loopVars>>
<1>1. /\ status \in [Ids -> RunStatus] /\ worker \in [Ids -> WorkerState]
      /\ worker[i] \in Leased => status[i] = "running"
  BY DEF IInv, TypeOK, StatusAgrees
<1>2. ASSUME NEW o \in RunStatus, worker[i] \in Leased, Settle(i, o)
      PROVE  /\ status' = [status EXCEPT ![i] = o]
             /\ worker' = [worker EXCEPT ![i] = "returned"]
             /\ status[i] = "running"
  BY <1>1, <1>2 DEF Settle, Leave
<1>3. ASSUME Attempt(i)
      PROVE  \E w \in {"overbudget", "exec"} : worker' = [worker EXCEPT ![i] = w]
  BY <1>3 DEF Attempt, Leave
<1>4. CASE ExecuteReturns(i)
  BY <1>1, <1>4 DEF ExecuteReturns, Runs, runVars, Live, Leased, WorkerState
<1>5. CASE ExecuteTransient(i)
  <2>1. CASE transients[i] < TransientRetries
    BY <1>1, <1>5, <2>1 DEF ExecuteTransient, Runs, runVars, Live, Leased, WorkerState
  <2>2. CASE ~(transients[i] < TransientRetries)
    BY <1>1, <1>2, <1>5, <2>2, StatusFacts
       DEF ExecuteTransient, Runs, runVars, Live, Leased, WorkerState
  <2> QED
    BY <2>1, <2>2
<1>6. CASE BackoffEnds(i)
  BY <1>1, <1>3, <1>6 DEF BackoffEnds, Runs, runVars, Live, Leased, WorkerState
<1>7. CASE ExecuteErrors(i)
  BY <1>1, <1>2, <1>7, StatusFacts DEF ExecuteErrors, Runs, runVars, Live, Leased, WorkerState
<1>8. CASE VerifyPasses(i)
  BY <1>1, <1>2, <1>8, StatusFacts DEF VerifyPasses, Runs, runVars, Live, Leased, WorkerState
<1>9. CASE VerifyFails(i)
  <2>1. CASE reviews[i] < MaxRetries
    BY <1>1, <1>3, <1>9, <2>1 DEF VerifyFails, Runs, runVars, Live, Leased, WorkerState
  <2>2. CASE ~(reviews[i] < MaxRetries)
    <3>1. PICK o \in {"passed_with_caveats", "failed"} : Settle(i, o)
      BY <1>9, <2>2 DEF VerifyFails
    <3> QED
      BY <1>1, <1>2, <1>9, <3>1, StatusFacts
         DEF VerifyFails, Runs, runVars, Live, Leased, WorkerState
  <2> QED
    BY <2>1, <2>2
<1>10. CASE Cancelled(i)
  <2>1. worker[i] \in Live /\ worker' = [worker EXCEPT ![i] = "cancelled"]
    BY <1>10 DEF Cancelled, IInv, TasksAwaited, Leave
  <2>2. /\ \A j \in Ids \ {i} : status'[j] = status[j]
        /\ status'[i] # status[i] => status[i] = "running"
        /\ status' \in [Ids -> RunStatus]
    BY <1>1, <1>10, StatusFacts DEF Cancelled
  <2> QED
    BY <1>1, <1>10, <2>1, <2>2 DEF Cancelled, runVars, Leased, WorkerState
<1> QED
  BY <1>4, <1>5, <1>6, <1>7, <1>8, <1>9, <1>10 DEF Worker

\* The same of the task that gets a session: its subtask was pending.
LEMMA AcquireStatus ==
    ASSUME IInv, Acquire
    PROVE  \E i \in Ids :
              /\ worker[i] = "queued" /\ status[i] = "pending"
              /\ status' = [status EXCEPT ![i] = "running"]
              /\ \E w \in {"overbudget", "exec"} : worker' = [worker EXCEPT ![i] = w]
              /\ i \notin cancelling
              /\ UNCHANGED <<subtasks, deps, loopVars, cancelling>>
<1>1. waiters \in Seq(Ids) /\ waiters # <<>>
  BY DEF IInv, TypeOK, Acquire
<1>2. Head(waiters) \in Ids
  BY <1>1
<1> QED
  BY <1>2 DEF Acquire, Runs, runVars, IInv, StatusAgrees

\* No step takes back a settled status, or a satisfied dependency of a subtask.
LEMMA SettledStep ==
    ASSUME IInv, [Next]_vars
    PROVE  \A i \in Ids : status[i] \in Terminal => status'[i] = status[i]
<1>1. status \in [Ids -> RunStatus]
  BY DEF IInv, TypeOK
<1>2. CASE BlockUnreachable
  BY <1>1, <1>2, StatusFacts DEF BlockUnreachable, IsBlockPass
<1>3. CASE Return \/ Raise
  BY <1>1, <1>3, StatusFacts DEF Return, Raise, Unsettled
<1>4. CASE Aside /\ ~BlockUnreachable /\ ~Return /\ ~Raise
  BY <1>4 DEF Aside, StopAtGate, AwaitFirst, Repair, Collect, Pause, Resume, Cancel, Spend, vars
<1>5. CASE Dispatch \/ PassGate
  BY <1>5 DEF Dispatch, PassGate
<1>6. CASE Acquire
  BY <1>1, <1>6, AcquireStatus, StatusFacts
<1>7. ASSUME NEW i \in Ids, Worker(i)
      PROVE  \A j \in Ids : status[j] \in Terminal => status'[j] = status[j]
  BY <1>1, <1>7, WorkerStatus, StatusFacts
<1> QED
  BY <1>2, <1>3, <1>4, <1>5, <1>6, <1>7, NextCases

\* The repairs are new ids, with the dependencies of what they repair.
LEMMA RepairEffect ==
    ASSUME IInv, Repair
    PROVE  /\ subtasks \subseteq subtasks' /\ subtasks' \subseteq Ids
           /\ deps' \in [Ids -> SUBSET Subtasks]
           /\ \A i \in subtasks : deps'[i] = deps[i]
           /\ repairs' \in 0..MaxRepairs
<1>1. /\ subtasks \subseteq Ids /\ deps \in [Ids -> SUBSET Subtasks]
      /\ repairs \in 0..MaxRepairs /\ MaxRepairs \in Nat /\ N \in Nat
  BY SchedulerAssumption DEF IInv, TypeOK
<1>2. PICK S \in SUBSET Repairable :
         /\ IF Cardinality(Repairable) <= MaxRepairs - repairs
            THEN S = Repairable
            ELSE Cardinality(S) = MaxRepairs - repairs
         /\ subtasks' = subtasks \cup {Fix(i) : i \in S}
         /\ deps' = [j \in Ids |-> IF j - N \in S THEN deps[j - N] ELSE deps[j]]
         /\ repairs' = repairs + Cardinality(S)
  BY DEF Repair
<1>3. \A i \in S : i \in Subtasks /\ Fix(i) \notin subtasks
  BY DEF Repairable
<1>4. \A i \in S : Fix(i) \in Ids
  BY <1>3, IdFacts
<1>5. subtasks \subseteq subtasks' /\ subtasks' \subseteq Ids
  BY <1>1, <1>2, <1>4
<1>6. deps' \in [Ids -> SUBSET Subtasks]
  BY <1>1, <1>2, <1>3, IdFacts
<1>7. ASSUME NEW i \in subtasks
      PROVE  deps'[i] = deps[i]
  <2>1. i \in Int /\ N + (i - N) = i
    BY <1>1, IdFacts
  <2>2. i - N \notin S
    BY <2>1, <1>3 DEF Fix
  <2> QED
    BY <1>1, <1>2, <2>2
<1>8. S \in SUBSET Ids /\ Repairable \in SUBSET Ids
  BY IdFacts DEF Repairable
<1>9. Cardinality(S) \in Nat /\ Cardinality(S) <= MaxRepairs - repairs
  <2>1. Cardinality(S) \in Nat
    BY <1>8, IdsFinite
  <2> HIDE DEF Repairable
  <2>2. MaxRepairs - repairs \in Int
    BY <1>1
  <2> QED
    BY <1>2, <2>1, <2>2
<1> QED
  BY <1>1, <1>2, <1>5, <1>6, <1>7, <1>9

\* A repair leaves the subtasks there are as they were, and so does any step.
LEMMA SubtasksKept ==
    ASSUME IInv, [Next]_vars
    PROVE  /\ subtasks \subseteq subtasks'
           /\ \A i \in subtasks : deps'[i] = deps[i]
<1>1. CASE Repair
  BY <1>1, RepairEffect
<1>2. CASE Aside /\ ~Repair
  BY <1>2 DEF Aside, BlockUnreachable, StopAtGate, AwaitFirst, Return, Collect, Raise,
              Pause, Resume, Cancel, Spend, vars, runVars
<1>3. CASE Dispatch \/ PassGate
  BY <1>3 DEF Dispatch, PassGate, runVars
<1> QED
  BY <1>1, <1>2, <1>3, AcquireStatus, WorkerStatus, NextCases

LEMMA DepsMetKept ==
    ASSUME IInv, [Next]_vars, NEW i \in subtasks, DepsMet(i)
    PROVE  i \in subtasks' /\ DepsMet(i)'
<1>1. i \in Ids /\ deps[i] \subseteq Ids
  BY SchedulerAssumption, IdFacts DEF IInv, TypeOK
<1> QED
  BY <1>1, SubtasksKept, SettledStep, StatusFacts DEF DepsMet

-----------------------------------------------------------------------------
(* The conjuncts of IInv, step by step *)

\* What Launch and the steps around it do to the tasks and the loop.
LEMMA LaunchEffect ==
    ASSUME IInv, Dispatch \/ PassGate
    PROVE  \E S \in SUBSET Ids :
              /\ S \subseteq ToSchedule \/ S \subseteq toDispatch
              /\ Launch(S)
              /\ toDispatch' = toDispatch \ S
              /\ pc' \in {"wait", "gate"}
              /\ pc' # "gate" => toDispatch' = {}
              /\ pc \in {"sched", "gate"}
              /\ UNCHANGED <<subtasks, deps, repairs, status, cause, recancelled>>
<1>1. CASE Dispatch
  <2>1. ToSchedule \in SUBSET Ids
    BY LaunchSound
  <2>2. toDispatch = {}
    BY <1>1 DEF Dispatch, IInv, DispatchSound
  <2> QED
    BY <1>1, <2>1, <2>2 DEF Dispatch, runVars
<1>2. CASE PassGate
  <2>1. toDispatch \in SUBSET Ids
    BY LaunchSound
  <2> QED
    BY <1>2, <2>1 DEF PassGate, runVars
<1> QED
  BY <1>1, <1>2

\* Scheduler.run never loses sight of a task: it waits for each that has not
\* ended, and ends only when there is none.
LEMMA TasksAwaitedStep ==
    ASSUME IInv, [Next]_vars
    PROVE  TasksAwaited'
<1>1. /\ worker \in [Ids -> WorkerState] /\ inFlight \subseteq Ids /\ cancelling \subseteq Ids
      /\ \A i \in Ids : worker[i] \in Live => i \in inFlight /\ ~Ended
      /\ \A i \in cancelling : worker[i] \in Live
  BY DEF IInv, TypeOK, TasksAwaited
<1>2. CASE Collect
  <2>1. PICK done \in {{i \in inFlight : Finished(i)}} :
          IF Fatal(done)
          THEN StopRun("budget", inFlight \ done)
          ELSE inFlight' = inFlight \ done /\ pc' = "top" /\ UNCHANGED cancelling
    BY <1>2 DEF Collect
  <2>2. \A i \in Ids : worker[i] \in Live => i \in inFlight \ done
    BY <1>1, <2>1 DEF Finished
  <2>3. worker' = worker
    BY <1>2 DEF Collect
  <2> QED
    BY <1>1, <2>1, <2>2, <2>3 DEF StopRun, Finished, TasksAwaited, Ended, Collect
<1>3. CASE Return
  BY <1>1, <1>3 DEF Return, RunDry, TasksAwaited, workerVars
<1>4. CASE Raise
  BY <1>1, <1>4 DEF Raise, Finished, TasksAwaited, workerVars
<1>5. CASE Cancel
  BY <1>1, <1>5 DEF Cancel, StopRun, Finished, TasksAwaited, Ended
<1>6. CASE Aside /\ ~Collect /\ ~Return /\ ~Raise /\ ~Cancel
  BY <1>1, <1>6 DEF Aside, BlockUnreachable, StopAtGate, AwaitFirst, Repair,
                    Pause, Resume, Spend, vars, loopVars, workerVars, TasksAwaited, Ended
<1>7. CASE Dispatch \/ PassGate
  <2>1. PICK S \in SUBSET Ids :
          /\ S \subseteq ToSchedule \/ S \subseteq toDispatch
          /\ Launch(S) /\ pc' \in {"wait", "gate"} /\ pc \in {"sched", "gate"}
    BY <1>7, LaunchEffect
  <2>2. \A i \in S : worker[i] = "none"
    BY <2>1, LaunchSound
  <2> QED
    BY <1>1, <2>1, <2>2 DEF Launch, TasksAwaited, Live, Leased, Ended
<1>8. CASE Acquire
  BY <1>1, <1>8, AcquireStatus DEF TasksAwaited, Live, Ended, loopVars
<1>9. ASSUME NEW i \in Ids, Worker(i)
      PROVE  TasksAwaited'
  BY <1>1, <1>9, WorkerStatus DEF TasksAwaited, Ended, loopVars
<1> QED
  BY <1>2, <1>3, <1>4, <1>5, <1>6, <1>7, <1>8, <1>9, NextCases

\* No step dispatches a subtask whose dependencies are not satisfied, or one
\* that was dispatched before.
LEMMA DispatchSoundStep ==
    ASSUME IInv, [Next]_vars
    PROVE  DispatchSound'
<1>1. /\ worker \in [Ids -> WorkerState] /\ dispatched \subseteq Ids /\ toDispatch \subseteq Ids
      /\ \A i \in Ids : worker[i] # "none" => i \in subtasks \cap dispatched /\ DepsMet(i)
      /\ \A i \in toDispatch : i \in subtasks /\ worker[i] = "none" /\ DepsMet(i)
      /\ pc # "gate" => toDispatch = {}
  BY DEF IInv, TypeOK, DispatchSound
<1>2. \A i \in subtasks : DepsMet(i) => i \in subtasks' /\ DepsMet(i)'
  BY DepsMetKept
<1> HIDE DEF DepsMet
<1>3. CASE StopAtGate
  <2>1. \A i \in ToSchedule : i \in subtasks /\ worker[i] = "none" /\ DepsMet(i)
    BY LaunchSound
  <2>2. toDispatch' = ToSchedule /\ pc' = "gate" /\ UNCHANGED <<worker, dispatched>>
    BY <1>3 DEF StopAtGate, workerVars
  <2> QED
    BY <1>1, <1>2, <2>1, <2>2 DEF DispatchSound
<1>4. CASE Aside /\ ~StopAtGate
  <2>1. UNCHANGED <<worker, dispatched>>
    BY <1>4, AsideKeepsTasks
  <2>2. /\ toDispatch' = toDispatch \/ toDispatch' = {}
        /\ pc' # "gate" => toDispatch' = {}
    BY <1>1, <1>4 DEF Aside, BlockUnreachable, AwaitFirst, Repair, Return, Collect, Raise,
          Pause, Resume, Cancel, StopRun, Spend, vars, loopVars, RunDry
  <2> QED
    BY <1>1, <1>2, <2>1, <2>2 DEF DispatchSound
<1>5. CASE Dispatch \/ PassGate
  <2>1. PICK S \in SUBSET Ids :
          /\ S \subseteq ToSchedule \/ S \subseteq toDispatch
          /\ Launch(S) /\ toDispatch' = toDispatch \ S /\ (pc' # "gate" => toDispatch' = {})
    BY <1>5, LaunchEffect
  <2>2. \A i \in S : i \in subtasks /\ DepsMet(i)
    BY <2>1, LaunchSound
  <2> QED
    BY <1>1, <1>2, <2>1, <2>2 DEF Launch, DispatchSound
<1>6. CASE Acquire
  BY <1>1, <1>2, <1>6, AcquireStatus DEF DispatchSound, loopVars
<1>7. ASSUME NEW i \in Ids, Worker(i)
      PROVE  DispatchSound'
  BY <1>1, <1>2, <1>7, WorkerStatus DEF DispatchSound, loopVars, Live, Leased
<1> QED
  BY <1>3, <1>4, <1>5, <1>6, <1>7, NextCases

\* The status of a subtask keeps up with its task.
LEMMA StatusAgreesStep ==
    ASSUME IInv, [Next]_vars
    PROVE  StatusAgrees'
<1>1. /\ worker \in [Ids -> WorkerState] /\ status \in [Ids -> RunStatus]
      /\ \A i \in Ids : /\ worker[i] = "queued" \/ i \in toDispatch => status[i] = "pending"
                        /\ worker[i] \in Leased => status[i] = "running"
      /\ \A i \in Ids : worker[i] # "none" \/ i \in toDispatch => DepsMet(i)
      /\ \A i \in toDispatch : worker[i] = "none"
      /\ \A i \in Ids : worker[i] \in Live => i \in inFlight /\ ~Ended
  BY DEF IInv, TypeOK, StatusAgrees, DispatchSound, TasksAwaited
<1>2. CASE BlockUnreachable
  <2>1. PICK B \in SUBSET subtasks :
          /\ \A i \in B : /\ status[i] = "pending"
                          /\ \E d \in deps[i] : status[d] \in Unmet \/ d \in B
          /\ status' = [i \in Ids |-> IF i \in B THEN "blocked" ELSE status[i]]
    BY <1>2 DEF BlockUnreachable, IsBlockPass, IInv, TypeOK
  <2>2. \A i \in B : ~DepsMet(i)
    BY <2>1, StatusFacts DEF DepsMet
  <2>3. UNCHANGED <<worker, toDispatch>>
    BY <1>2 DEF BlockUnreachable, workerVars
  <2> QED
    BY <1>1, <2>1, <2>2, <2>3 DEF StatusAgrees
<1>3. CASE Return \/ Raise
  <2>1. \A i \in Ids : worker[i] \notin Live
    BY <1>1, <1>3 DEF Return, RunDry, Raise, Finished
  <2>2. toDispatch' = {} /\ worker' = worker
    BY <1>3 DEF Return, RunDry, Raise, IInv, DispatchSound, workerVars
  <2> QED
    BY <2>1, <2>2 DEF StatusAgrees, Live
<1>4. CASE StopAtGate
  <2>1. \A i \in ToSchedule : status[i] = "pending"
    BY LaunchSound
  <2> QED
    BY <1>1, <1>4, <2>1 DEF StopAtGate, StatusAgrees, workerVars
<1>5. CASE Aside /\ ~BlockUnreachable /\ ~Return /\ ~Raise /\ ~StopAtGate
  <2>1. worker' = worker
    BY <1>5, AsideKeepsTasks
  <2>2. status' = status /\ (toDispatch' = toDispatch \/ toDispatch' = {})
    BY <1>5 DEF Aside, AwaitFirst, Repair, Collect, Pause, Resume, Cancel, StopRun, Spend,
                vars, loopVars
  <2> QED
    BY <1>1, <2>1, <2>2 DEF StatusAgrees
<1>6. CASE Dispatch \/ PassGate
  <2>1. PICK S \in SUBSET Ids :
          /\ S \subseteq ToSchedule \/ S \subseteq toDispatch
          /\ Launch(S) /\ toDispatch' = toDispatch \ S /\ status' = status
    BY <1>6, LaunchEffect
  <2>2. \A i \in S : status[i] = "pending"
    BY <2>1, LaunchSound
  <2> QED
    BY <1>1, <2>1, <2>2 DEF Launch, StatusAgrees, Leased
<1>7. CASE Acquire
  BY <1>1, <1>7, AcquireStatus DEF StatusAgrees, loopVars, Leased
<1>8. ASSUME NEW i \in Ids, Worker(i)
      PROVE  StatusAgrees'
  BY <1>1, <1>8, WorkerStatus DEF StatusAgrees, loopVars, Live, Leased
<1> QED
  BY <1>2, <1>3, <1>4, <1>5, <1>6, <1>7, <1>8, NextCases

-----------------------------------------------------------------------------
(* Type correctness *)

\* The sequence a launch appends, and the one a cancelled waiter leaves behind.
LEMMA WaitersStep ==
    ASSUME IInv, [Next]_vars
    PROVE  waiters' \in Seq(Ids)
<1>1. waiters \in Seq(Ids)
  BY DEF IInv, TypeOK
<1>2. CASE Aside
  BY <1>1, <1>2, AsideKeepsTasks
<1>3. CASE Dispatch \/ PassGate
  <2>1. PICK S \in SUBSET Ids : Launch(S)
    BY <1>3, LaunchEffect
  <2>2. PICK q \in [1..Cardinality(S) -> S] : waiters' = waiters \o q
    BY <2>1 DEF Launch, InOrder
  <2>3. q \in Seq(Ids)
    <3>1. Cardinality(S) \in Nat
      BY IdsFinite
    <3>2. q \in [1..Cardinality(S) -> Ids]
      BY <2>2
    <3> QED
      BY <3>1, <3>2, SeqDef
  <2> QED
    BY <1>1, <2>2, <2>3, ConcatProperties
<1>4. CASE Acquire
  BY <1>1, <1>4 DEF Acquire
<1>5. ASSUME NEW i \in Ids, Cancelled(i)
      PROVE  waiters' \in Seq(Ids)
  <2>1. CASE worker[i] = "queued"
    <3>1. PICK k \in DOMAIN waiters :
            waiters' = SubSeq(waiters, 1, k - 1) \o SubSeq(waiters, k + 1, Len(waiters))
      BY <1>5, <2>1 DEF Cancelled
    <3>2. k \in 1..Len(waiters)
      BY <1>1, <3>1
    <3> QED
      BY <1>1, <3>1, <3>2, SubSeqProperties, ConcatProperties
  <2>2. CASE worker[i] # "queued"
    BY <1>1, <1>5, <2>2 DEF Cancelled
  <2> QED
    BY <2>1, <2>2
<1>6. ASSUME NEW i \in Ids, Worker(i), ~Cancelled(i)
      PROVE  waiters' \in Seq(Ids)
  BY <1>1, <1>6 DEF Worker, ExecuteReturns, ExecuteTransient, BackoffEnds, ExecuteErrors,
                    VerifyPasses, VerifyFails
<1> QED
  BY <1>2, <1>3, <1>4, <1>5, <1>6, NextCases

\* The retry counters stay within the settings.
LEMMA RetriesStep ==
    ASSUME IInv, [Next]_vars
    PROVE  reviews' \in [Ids -> 0..MaxRetries] /\ transients' \in [Ids -> 0..TransientRetries]
<1>1. /\ reviews \in [Ids -> 0..MaxRetries] /\ transients \in [Ids -> 0..TransientRetries]
      /\ MaxRetries \in Nat /\ TransientRetries \in Nat
  BY SchedulerAssumption DEF IInv, TypeOK
<1>2. CASE Aside
  BY <1>1, <1>2, AsideKeepsTasks
<1>3. CASE Dispatch \/ PassGate \/ Acquire
  BY <1>1, <1>3 DEF Dispatch, PassGate, Launch, Acquire
<1>4. ASSUME NEW i \in Ids, ExecuteTransient(i)
      PROVE  reviews' = reviews /\ transients' \in [Ids -> 0..TransientRetries]
  <2>1. CASE transients[i] < TransientRetries
    BY <1>1, <1>4, <2>1 DEF ExecuteTransient
  <2>2. CASE ~(transients[i] < TransientRetries)
    BY <1>1, <1>4, <2>2 DEF ExecuteTransient
  <2> QED
    BY <2>1, <2>2
<1>5. ASSUME NEW i \in Ids, VerifyFails(i)
      PROVE  reviews' \in [Ids -> 0..MaxRetries] /\ transients' \in [Ids -> 0..TransientRetries]
  <2>1. CASE reviews[i] < MaxRetries
    BY <1>1, <1>5, <2>1 DEF VerifyFails
  <2>2. CASE ~(reviews[i] < MaxRetries)
    BY <1>1, <1>5, <2>2 DEF VerifyFails
  <2> QED
    BY <2>1, <2>2
<1>6. ASSUME NEW i \in Ids, Worker(i), ~ExecuteTransient(i), ~VerifyFails(i)
      PROVE  UNCHANGED <<reviews, transients>>
  BY <1>6 DEF Worker, ExecuteReturns, BackoffEnds, ExecuteErrors, VerifyPasses, Cancelled
<1> QED
  BY <1>1, <1>2, <1>3, <1>4, <1>5, <1>6, NextCases

\* The operator's variables, the plan and the loop's counters keep their types.
LEMMA RunTypeStep ==
    ASSUME IInv, [Next]_vars
    PROVE  /\ subtasks' \in SUBSET Ids /\ deps' \in [Ids -> SUBSET Subtasks]
           /\ repairs' \in 0..MaxRepairs
           /\ pauses' \in 0..MaxPauses /\ cancels' \in 0..MaxCancels
<1>1. /\ subtasks \in SUBSET Ids /\ deps \in [Ids -> SUBSET Subtasks]
      /\ repairs \in 0..MaxRepairs
      /\ pauses \in 0..MaxPauses /\ cancels \in 0..MaxCancels
      /\ MaxPauses \in Nat /\ MaxCancels \in Nat
  BY SchedulerAssumption DEF IInv, TypeOK
<1>2. CASE Repair
  BY <1>1, <1>2, RepairEffect DEF Repair, opVars
<1>3. CASE Pause
  BY <1>1, <1>3 DEF Pause, runVars
<1>4. CASE Cancel
  BY <1>1, <1>4 DEF Cancel, runVars
<1>5. CASE Aside /\ ~Repair /\ ~Pause /\ ~Cancel
  BY <1>1, <1>5 DEF Aside, BlockUnreachable, StopAtGate, AwaitFirst, Return, Collect, Raise,
                    Resume, Spend, vars, runVars, opVars
<1>6. CASE Dispatch \/ PassGate \/ Acquire
  BY <1>1, <1>6 DEF Dispatch, PassGate, Acquire, runVars, opVars
<1>7. ASSUME NEW i \in Ids, Worker(i)
      PROVE  UNCHANGED <<runVars, pauses, cancels>>
  BY <1>7 DEF Worker, ExecuteReturns, ExecuteTransient, BackoffEnds, ExecuteErrors,
              VerifyPasses, VerifyFails, Cancelled, opVars
<1> QED
  BY <1>1, <1>2, <1>3, <1>4, <1>5, <1>6, <1>7, NextCases DEF runVars

\* So do the loop's own.
LEMMA LoopTypeStep ==
    ASSUME IInv, [Next]_vars
    PROVE  /\ pc' \in {"top", "sched", "gate", "wait", "gather", "returned", "raised"}
           /\ toDispatch' \subseteq Ids /\ dispatched' \subseteq Ids /\ inFlight' \subseteq Ids
           /\ cancelling' \subseteq Ids
           /\ cause' \in {"none", "budget", "cancel"}
           /\ {paused, released, overBudget, recancelled}' \subseteq BOOLEAN
<1>1. /\ pc \in {"top", "sched", "gate", "wait", "gather", "returned", "raised"}
      /\ toDispatch \subseteq Ids /\ dispatched \subseteq Ids /\ inFlight \subseteq Ids
      /\ cancelling \subseteq Ids
      /\ cause \in {"none", "budget", "cancel"}
      /\ paused \in BOOLEAN /\ released \in BOOLEAN /\ overBudget \in BOOLEAN
      /\ recancelled \in BOOLEAN
  BY DEF IInv, TypeOK
<1>2. CASE Collect
  <2>1. PICK done \in {{i \in inFlight : Finished(i)}} :
          IF Fatal(done)
          THEN StopRun("budget", inFlight \ done)
          ELSE /\ inFlight' = inFlight \ done
               /\ pc' = "top" /\ UNCHANGED <<cancelling, cause, toDispatch>>
    BY <1>2 DEF Collect
  <2>2. UNCHANGED <<dispatched, paused, released, overBudget, recancelled>>
    BY <1>2 DEF Collect, opVars
  <2> QED
    BY <1>1, <2>1, <2>2 DEF StopRun
<1>3. CASE StopAtGate
  <2>1. ToSchedule \subseteq Ids
    BY LaunchSound
  <2> QED
    BY <1>1, <1>3, <2>1 DEF StopAtGate, workerVars, opVars
<1>4. CASE Cancel
  BY <1>1, <1>4 DEF Cancel, StopRun
<1>5. CASE BlockUnreachable \/ AwaitFirst \/ Repair \/ Return \/ Raise
  BY <1>1, <1>5 DEF BlockUnreachable, AwaitFirst, Repair, Return, Raise, workerVars, opVars
<1>6. CASE Pause \/ Resume \/ Spend \/ UNCHANGED vars
  BY <1>1, <1>6 DEF Pause, Resume, Spend, vars, loopVars, workerVars, opVars
<1>7. CASE Dispatch \/ PassGate
  <2>1. PICK S \in SUBSET Ids :
          /\ Launch(S) /\ toDispatch' = toDispatch \ S /\ pc' \in {"wait", "gate"}
          /\ UNCHANGED <<cause, recancelled>>
    BY <1>7, LaunchEffect
  <2>2. UNCHANGED <<paused, overBudget>> /\ (released' = released \/ released' = FALSE)
    BY <1>7 DEF Dispatch, PassGate, opVars
  <2> QED
    BY <1>1, <2>1, <2>2 DEF Launch
<1>8. CASE Acquire
  BY <1>1, <1>8 DEF Acquire, loopVars, opVars
<1>9. ASSUME NEW i \in Ids, Worker(i)
      PROVE  /\ UNCHANGED <<loopVars, paused, released, overBudget>>
             /\ cancelling' = cancelling \ {i}
  <2>1. UNCHANGED opVars
    BY <1>9 DEF Worker, ExecuteReturns, ExecuteTransient, BackoffEnds, ExecuteErrors,
                VerifyPasses, VerifyFails, Cancelled
  <2> QED
    BY <1>9, <2>1, WorkerStatus DEF opVars
<1> QED
  BY <1>1, <1>2, <1>3, <1>4, <1>5, <1>6, <1>7, <1>8, <1>9, NextCases DEF Aside, loopVars

\* So do the tasks and the statuses.
LEMMA TaskTypeStep ==
    ASSUME IInv, [Next]_vars
    PROVE  worker' \in [Ids -> WorkerState] /\ status' \in [Ids -> RunStatus]
<1>1. worker \in [Ids -> WorkerState] /\ status \in [Ids -> RunStatus]
  BY DEF IInv, TypeOK
<1>2. CASE Aside
  <2>1. worker' = worker
    BY <1>2, AsideKeepsTasks
  <2>2. ASSUME BlockUnreachable \/ Return \/ Raise
        PROVE  \E B : status' = [i \in Ids |-> IF i \in B THEN "blocked" ELSE status[i]]
    <3>1. CASE BlockUnreachable
      BY <3>1 DEF BlockUnreachable
    <3>2. CASE Return
      <4>1. status' = [i \in Ids |-> IF i \in {j \in subtasks : status[j] = "pending"}
                                     THEN "blocked" ELSE status[i]]
        BY <3>2 DEF Return
      <4> QED
        BY <4>1
    <3>3. CASE Raise
      <4>1. status' = [i \in Ids |-> IF i \in {j \in subtasks : status[j] \in Unsettled}
                                     THEN "blocked" ELSE status[i]]
        BY <3>3 DEF Raise
      <4> QED
        BY <4>1
    <3> QED
      BY <2>2, <3>1, <3>2, <3>3
  <2>3. ASSUME Aside, ~BlockUnreachable, ~Return, ~Raise
        PROVE  status' = status
    BY <2>3 DEF Aside, StopAtGate, AwaitFirst, Repair, Collect, Pause, Resume, Cancel,
                Spend, vars
  <2>4. status' \in [Ids -> RunStatus]
    BY <1>1, <1>2, <2>2, <2>3, StatusFacts
  <2> QED
    BY <1>1, <2>1, <2>4
<1>3. CASE Dispatch \/ PassGate
  BY <1>1, <1>3, LaunchEffect DEF Launch, WorkerState, Live
<1>4. CASE Acquire
  BY <1>1, <1>4, AcquireStatus, StatusFacts DEF WorkerState, Live, Leased
<1>5. ASSUME NEW i \in Ids, Worker(i)
      PROVE  worker' \in [Ids -> WorkerState] /\ status' \in [Ids -> RunStatus]
  BY <1>1, <1>5, WorkerStatus
<1> QED
  BY <1>2, <1>3, <1>4, <1>5, NextCases

LEMMA TypeStep ==
    ASSUME IInv, [Next]_vars
    PROVE  TypeOK'
BY SessionsStep, WaitersStep, RetriesStep, RunTypeStep, LoopTypeStep, TaskTypeStep DEF TypeOK

-----------------------------------------------------------------------------
(* The invariant, and what follows from it *)

LEMMA InitIInv == Init => IInv
<1> SUFFICES ASSUME Init
             PROVE  IInv
  OBVIOUS
<1>1. TypeOK
  <2>1. deps \in [Ids -> SUBSET Subtasks]
    BY SchedulerAssumption DEF Init
  <2>2. status \in [Ids -> RunStatus]
    <3>1. status \in [Ids -> {"pending"} \cup Satisfying]
      BY DEF Init
    <3>2. {"pending"} \cup Satisfying \subseteq RunStatus
      BY DEF RunStatus, Satisfying
    <3> QED
      BY <3>1, <3>2
  <2>3. subtasks \subseteq Ids
    <3>1. subtasks = Subtasks
      BY DEF Init
    <3> QED
      BY <3>1, IdFacts
  <2>4. free \in 0..MaxConcurrent /\ repairs \in 0..MaxRepairs /\ pauses \in 0..MaxPauses
        /\ cancels \in 0..MaxCancels
    BY SchedulerAssumption DEF Init
  <2>5. reviews \in [Ids -> 0..MaxRetries] /\ transients \in [Ids -> 0..TransientRetries]
    BY SchedulerAssumption DEF Init
  <2>6. worker \in [Ids -> WorkerState]
    BY DEF Init, WorkerState
  <2>7. /\ toDispatch = {} /\ dispatched = {} /\ inFlight = {} /\ cancelling = {}
        /\ pc = "top" /\ waiters = <<>> /\ cause = "none"
        /\ {paused, released, overBudget, recancelled} \subseteq BOOLEAN
    BY DEF Init
  <2> QED
    BY <2>1, <2>2, <2>3, <2>4, <2>5, <2>6, <2>7 DEF TypeOK
<1>2. SessionsAccounted
  <2>1. LeasedIds = {}
    BY DEF Init, LeasedIds, Leased
  <2> QED
    BY <2>1, FS_EmptySet, SchedulerAssumption DEF Init, SessionsAccounted
<1>3. DispatchSound /\ StatusAgrees /\ TasksAwaited
  BY DEF Init, DispatchSound, StatusAgrees, TasksAwaited, Leased, Live
<1> QED
  BY <1>1, <1>2, <1>3 DEF IInv

\* IInv is an inductive invariant of the scheduler.
THEOREM InvariantHolds == Spec => []IInv
<1>1. IInv /\ [Next]_vars => IInv'
  BY TypeStep, SessionsStep, DispatchSoundStep, StatusAgreesStep, TasksAwaitedStep DEF IInv
<1> QED
  BY InitIInv, <1>1, PTL DEF Spec

\* Every variable keeps its type: so the semaphore never goes below zero or
\* above its bound, and no retry or repair goes past its setting.
THEOREM TypeCorrect == Spec => []TypeOK
<1>1. IInv => TypeOK
  BY DEF IInv
<1> QED
  BY InvariantHolds, <1>1, PTL

\* The sessions out and the semaphore's value add up, whatever way tasks end.
THEOREM SessionsBalance == Spec => []SessionsAccounted
<1>1. IInv => SessionsAccounted
  BY DEF IInv
<1> QED
  BY InvariantHolds, <1>1, PTL

\* No subtask starts before its dependencies are satisfied, and none of them is
\* taken back after that.
THEOREM DependenciesHold == Spec => []DependenciesFirst
<1>1. IInv => DependenciesFirst
  BY DEF IInv, TypeOK, DispatchSound, DependenciesFirst, DepsMet
<1> QED
  BY InvariantHolds, <1>1, PTL

\* A run that is over, by whatever way, has left no task behind.
THEOREM NoTaskLeft == Spec => []NoTaskOutlivesRun
<1>1. IInv => NoTaskOutlivesRun
  BY DEF IInv, TasksAwaited, NoTaskOutlivesRun
<1> QED
  BY InvariantHolds, <1>1, PTL

\* A status, once settled, is never taken back.
THEOREM SettledForGood == Spec => SettledStays
<1>1. IInv /\ [Next]_vars =>
        [\A i \in subtasks : status[i] \in Terminal => status'[i] = status[i]]_vars
  BY SettledStep DEF IInv, TypeOK
<1> QED
  BY InvariantHolds, <1>1, PTL DEF Spec, SettledStays
-----------------------------------------------------------------------------
(* The semaphore's queue *)

\* The sequence q holds each id of S once, and nothing else.
Holds(q, S) ==
    /\ q \in Seq(Ids)
    /\ \A i \in Ids : i \in S <=> \E k \in 1..Len(q) : q[k] = i
    /\ \A j, k \in 1..Len(q) : q[j] = q[k] => j = k

\* A set in dict order is such a sequence.
LEMMA InOrderHolds ==
    ASSUME NEW S \in SUBSET Ids, NEW q \in InOrder(S)
    PROVE  Holds(q, S)
<1> DEFINE n == Cardinality(S)
<1>1. n \in Nat /\ IsFiniteSet(S)
  BY IdsFinite
<1>2. q \in [1..n -> S] /\ \A j, k \in 1..n : j < k => q[j] < q[k]
  BY DEF InOrder
<1>3. \A k \in 1..n : q[k] \in Int
  BY <1>2, IdFacts
<1>4. \A j, k \in 1..n : q[j] = q[k] => j = k
  BY <1>1, <1>2, <1>3
<1>5. q \in Injection(1..n, S)
  BY <1>2, <1>4 DEF Injection, IsInjective
<1>6. Cardinality(1..n) = n
  BY <1>1, FS_Interval
<1> HIDE DEF n
<1>7. q \in Surjection(1..n, S)
  BY <1>1, <1>5, <1>6, FS_Injection DEF n
<1>8. \A i \in S : \E k \in 1..n : q[k] = i
  BY <1>7 DEF Surjection
<1>9. q \in Seq(Ids) /\ Len(q) = n
  BY <1>1, <1>2
<1> QED
  BY <1>2, <1>4, <1>8, <1>9 DEF Holds

\* Two of them, with nothing in common, one after the other.
LEMMA HoldsConcat ==
    ASSUME NEW q, NEW S, Holds(q, S), NEW r, NEW T, Holds(r, T), S \cap T = {}
    PROVE  Holds(q \o r, S \cup T)
<1> DEFINE s == q \o r
<1>1. /\ q \in Seq(Ids) /\ r \in Seq(Ids) /\ Len(q) \in Nat /\ Len(r) \in Nat
      /\ \A k \in 1..Len(q) : q[k] \in Ids
      /\ \A k \in 1..Len(r) : r[k] \in Ids
  BY DEF Holds
<1>2. s \in Seq(Ids) /\ Len(s) = Len(q) + Len(r)
  BY <1>1
<1>3. \A k \in 1..Len(q) : k \in 1..Len(s) /\ s[k] = q[k]
  BY <1>1, <1>2, ConcatProperties
<1>4. \A k \in 1..Len(r) : Len(q) + k \in 1..Len(s) /\ s[Len(q) + k] = r[k]
  BY <1>1, <1>2, ConcatProperties
<1>5. \A k \in 1..Len(s) : k \in 1..Len(q) \/ \E j \in 1..Len(r) : k = Len(q) + j
  <2> TAKE k \in 1..Len(s)
  <2>1. CASE k <= Len(q)
    BY <1>1, <1>2, <2>1
  <2>2. CASE k > Len(q)
    <3>1. k - Len(q) \in 1..Len(r) /\ k = Len(q) + (k - Len(q))
      BY <1>1, <1>2, <2>2
    <3> QED
      BY <3>1
  <2> QED
    BY <1>1, <1>2, <2>1, <2>2
<1> HIDE DEF s
<1>6. ASSUME NEW i \in Ids
      PROVE  i \in S \cup T <=> \E k \in 1..Len(s) : s[k] = i
  <2>1. i \in S <=> \E k \in 1..Len(q) : q[k] = i
    BY DEF Holds
  <2>2. i \in T <=> \E k \in 1..Len(r) : r[k] = i
    BY DEF Holds
  <2> QED
    BY <1>3, <1>4, <1>5, <2>1, <2>2
<1>7. ASSUME NEW j \in 1..Len(q), NEW k \in 1..Len(r)
      PROVE  q[j] # r[k]
  BY <1>1 DEF Holds
<1>8. ASSUME NEW j \in 1..Len(s), NEW k \in 1..Len(s), s[j] = s[k]
      PROVE  j = k
  <2>1. CASE j \in 1..Len(q) /\ k \in 1..Len(q)
    BY <1>3, <1>8, <2>1 DEF Holds
  <2>2. CASE j \in 1..Len(q) /\ k \notin 1..Len(q)
    <3>1. PICK k1 \in 1..Len(r) : k = Len(q) + k1
      BY <1>5, <2>2
    <3>2. s[j] = q[j] /\ s[k] = r[k1]
      BY <1>3, <1>4, <2>2, <3>1
    <3> QED
      BY <1>7, <1>8, <2>2, <3>2
  <2>3. CASE j \notin 1..Len(q) /\ k \in 1..Len(q)
    <3>1. PICK j1 \in 1..Len(r) : j = Len(q) + j1
      BY <1>5, <2>3
    <3>2. s[j] = r[j1] /\ s[k] = q[k]
      BY <1>3, <1>4, <2>3, <3>1
    <3> QED
      BY <1>7, <1>8, <2>3, <3>2
  <2>4. CASE j \notin 1..Len(q) /\ k \notin 1..Len(q)
    <3>1. PICK j1 \in 1..Len(r), k1 \in 1..Len(r) : j = Len(q) + j1 /\ k = Len(q) + k1
      BY <1>5, <2>4
    <3>2. r[j1] = r[k1]
      BY <1>4, <1>8, <3>1
    <3> QED
      BY <3>1, <3>2 DEF Holds
  <2> QED
    BY <2>1, <2>2, <2>3, <2>4
<1> QED
  BY <1>2, <1>6, <1>8 DEF Holds, s

\* Without the k-th, whichever it is.
LEMMA HoldsWithout ==
    ASSUME NEW q, NEW S, Holds(q, S), NEW k \in 1..Len(q), NEW r \in Seq(Ids),
           Len(r) = Len(q) - 1,
           \A j \in 1..Len(r) : r[j] = IF j < k THEN q[j] ELSE q[j + 1]
    PROVE  Holds(r, S \ {q[k]})
<1>1. /\ q \in Seq(Ids) /\ Len(q) \in Nat /\ k \in Int
      /\ \A j \in 1..Len(q) : q[j] \in Ids
  BY DEF Holds
<1> DEFINE At(j) == IF j < k THEN j ELSE j + 1
<1>2. \A j \in 1..Len(r) : At(j) \in 1..Len(q) \ {k} /\ r[j] = q[At(j)]
  BY <1>1
<1>3. \A m \in 1..Len(q) \ {k} : \E j \in 1..Len(r) : m = At(j)
  <2> TAKE m \in 1..Len(q) \ {k}
  <2>1. CASE m < k
    <3>1. m \in 1..Len(r) /\ m = At(m)
      BY <1>1, <2>1
    <3> QED
      BY <3>1
  <2>2. CASE m > k
    <3>1. m - 1 \in 1..Len(r) /\ m = At(m - 1)
      BY <1>1, <2>2
    <3> QED
      BY <3>1
  <2> QED
    BY <1>1, <2>1, <2>2
<1>4. \A j, m \in 1..Len(r) : At(j) = At(m) => j = m
  BY <1>1
<1> HIDE DEF At
<1>5. ASSUME NEW i \in Ids
      PROVE  i \in S \ {q[k]} <=> \E j \in 1..Len(r) : r[j] = i
  <2>1. i \in S <=> \E j \in 1..Len(q) : q[j] = i
    BY DEF Holds
  <2>2. \A j \in 1..Len(q) : q[j] = q[k] => j = k
    BY DEF Holds
  <2>3. ASSUME i \in S, i # q[k]
        PROVE  \E j \in 1..Len(r) : r[j] = i
    <3>1. PICK m \in 1..Len(q) : q[m] = i /\ m # k
      BY <2>1, <2>3
    <3> QED
      BY <1>2, <1>3, <3>1
  <2>4. ASSUME NEW j \in 1..Len(r), r[j] = i
        PROVE  i \in S /\ i # q[k]
    <3>1. At(j) \in 1..Len(q) /\ At(j) # k /\ q[At(j)] = i
      BY <1>2, <2>4
    <3> QED
      BY <2>1, <2>2, <3>1
  <2> QED
    BY <2>3, <2>4
<1>6. ASSUME NEW j \in 1..Len(r), NEW m \in 1..Len(r), r[j] = r[m]
      PROVE  j = m
  BY <1>2, <1>4, <1>6 DEF Holds
<1> QED
  BY <1>5, <1>6 DEF Holds

\* Without its head.
LEMMA HoldsTail ==
    ASSUME NEW q, NEW S, Holds(q, S), q # <<>>
    PROVE  Holds(Tail(q), S \ {Head(q)})
<1>1. q \in Seq(Ids) /\ Len(q) \in Nat \ {0} /\ Head(q) = q[1] /\ 1 \in 1..Len(q)
  BY DEF Holds
<1>2. /\ Tail(q) \in Seq(Ids) /\ Len(Tail(q)) = Len(q) - 1
      /\ \A j \in 1..Len(Tail(q)) : Tail(q)[j] = q[j + 1] /\ ~(j < 1)
  BY <1>1, HeadTailProperties
<1> QED
  BY <1>1, <1>2, HoldsWithout

\* Without a waiter that gave up.
LEMMA HoldsCut ==
    ASSUME NEW q, NEW S, Holds(q, S), NEW k \in 1..Len(q)
    PROVE  Holds(SubSeq(q, 1, k - 1) \o SubSeq(q, k + 1, Len(q)), S \ {q[k]})
<1> DEFINE a == SubSeq(q, 1, k - 1)
           b == SubSeq(q, k + 1, Len(q))
<1>1. q \in Seq(Ids) /\ Len(q) \in Nat /\ k \in Int /\ \A j \in 1..Len(q) : q[j] \in Ids
  BY DEF Holds
<1>2. /\ a \in Seq(Ids) /\ Len(a) = k - 1
      /\ \A j \in 1..(k - 1) : a[j] = q[j]
  BY <1>1, SubSeqProperties
<1>3. /\ b \in Seq(Ids) /\ Len(b) = Len(q) - k
      /\ \A j \in 1..(Len(q) - k) : b[j] = q[k + j]
  BY <1>1, SubSeqProperties
<1> HIDE DEF a, b
<1>4. a \o b \in Seq(Ids) /\ Len(a \o b) = Len(q) - 1
  <2>1. a \o b \in Seq(Ids) /\ Len(a \o b) = Len(a) + Len(b)
    BY <1>2, <1>3, ConcatProperties
  <2>2. (k - 1) + (Len(q) - k) = Len(q) - 1
    BY <1>1
  <2> QED
    BY <1>2, <1>3, <2>1, <2>2
<1>5. ASSUME NEW j \in 1..Len(a \o b)
      PROVE  (a \o b)[j] = IF j < k THEN q[j] ELSE q[j + 1]
  <2>1. (a \o b)[j] = IF j <= Len(a) THEN a[j] ELSE b[j - Len(a)]
    BY <1>2, <1>3, ConcatProperties, <1>4, <1>1
  <2>2. CASE j < k
    BY <1>1, <1>2, <2>1, <2>2
  <2>3. CASE ~(j < k)
    <3>1. j - (k - 1) \in 1..(Len(q) - k) /\ k + (j - (k - 1)) = j + 1
      BY <1>1, <1>4, <2>3
    <3> QED
      BY <1>1, <1>2, <1>3, <2>1, <2>3, <3>1
  <2> QED
    BY <2>2, <2>3
<1>6. Holds(a \o b, S \ {q[k]})
  BY <1>4, <1>5, HoldsWithout
<1> QED
  BY <1>6 DEF a, b

QueuedIds == {i \in Ids : worker[i] = "queued"}

\* QueuedOnce says just that of the semaphore's queue.
LEMMA QueuedHolds ==
    ASSUME waiters \in Seq(Ids)
    PROVE  QueuedOnce <=> Holds(waiters, QueuedIds)
<1>1. DOMAIN waiters = 1..Len(waiters)
  OBVIOUS
<1> QED
  BY <1>1 DEF QueuedOnce, Holds, QueuedIds

\* A subtask is queued once, and leaves the queue when it gets a session or gives up.
LEMMA QueuedOnceStep ==
    ASSUME IInv, QueuedOnce, [Next]_vars
    PROVE  QueuedOnce'
<1>1. waiters \in Seq(Ids) /\ waiters' \in Seq(Ids) /\ worker \in [Ids -> WorkerState]
  BY WaitersStep DEF IInv, TypeOK
<1>2. Holds(waiters, QueuedIds)
  BY <1>1, QueuedHolds
<1>3. SUFFICES Holds(waiters, QueuedIds)'
  <2>1. DOMAIN waiters' = 1..Len(waiters')
    BY <1>1
  <2> QED
    BY <2>1 DEF QueuedOnce, Holds, QueuedIds
<1>4. CASE Aside
  BY <1>2, <1>4, AsideKeepsTasks DEF Holds, QueuedIds
<1>5. CASE Dispatch \/ PassGate
  <2>1. PICK S \in SUBSET Ids : Launch(S) /\ (S \subseteq ToSchedule \/ S \subseteq toDispatch)
    BY <1>5, LaunchEffect
  <2>2. PICK q \in InOrder(S) : waiters' = waiters \o q
    BY <2>1 DEF Launch
  <2>3. QueuedIds \cap S = {}
    BY <2>1, LaunchSound DEF QueuedIds
  <2>4. QueuedIds' = QueuedIds \cup S
    BY <1>1, <2>1 DEF QueuedIds, Launch
  <2>5. Holds(waiters \o q, QueuedIds \cup S)
    BY <1>2, <2>3, InOrderHolds, HoldsConcat
  <2> QED
    BY <2>2, <2>4, <2>5 DEF Holds
<1>6. CASE Acquire
  <2>1. /\ waiters # <<>> /\ waiters' = Tail(waiters) /\ Head(waiters) \in Ids
        /\ worker' = [worker EXCEPT ![Head(waiters)] = IF overBudget THEN "overbudget" ELSE "exec"]
    BY <1>1, <1>6 DEF Acquire
  <2>2. QueuedIds' = QueuedIds \ {Head(waiters)}
    BY <1>1, <2>1 DEF QueuedIds
  <2>3. Holds(Tail(waiters), QueuedIds \ {Head(waiters)})
    BY <1>2, <2>1, HoldsTail
  <2> QED
    BY <2>1, <2>2, <2>3 DEF Holds
<1>7. ASSUME NEW i \in Ids, Cancelled(i), worker[i] = "queued"
      PROVE  Holds(waiters, QueuedIds)'
  <2>1. PICK k \in 1..Len(waiters) :
          /\ waiters[k] = i
          /\ waiters' = SubSeq(waiters, 1, k - 1) \o SubSeq(waiters, k + 1, Len(waiters))
    <3>1. DOMAIN waiters = 1..Len(waiters)
      BY <1>1
    <3> QED
      BY <1>7, <3>1, Zenon DEF Cancelled
  <2>2. QueuedIds' = QueuedIds \ {i}
    <3>1. worker' = [worker EXCEPT ![i] = "cancelled"]
      BY <1>7 DEF Cancelled
    <3> QED
      BY <1>1, <3>1 DEF QueuedIds
  <2>3. Holds(SubSeq(waiters, 1, k - 1) \o SubSeq(waiters, k + 1, Len(waiters)), QueuedIds \ {waiters[k]})
    BY <1>2, <2>1, HoldsCut
  <2> QED
    BY <2>1, <2>2, <2>3 DEF Holds
<1>8. ASSUME NEW i \in Ids, Worker(i), ~(Cancelled(i) /\ worker[i] = "queued")
      PROVE  Holds(waiters, QueuedIds)'
  <2>1. worker[i] # "queued" /\ waiters' = waiters
    <3>1. CASE Cancelled(i)
      BY <1>8, <3>1 DEF Cancelled
    <3>2. CASE ~Cancelled(i)
      BY <1>8, <3>2 DEF Worker, Runs, ExecuteReturns, ExecuteTransient, BackoffEnds,
                        ExecuteErrors, VerifyPasses, VerifyFails
    <3> QED
      BY <3>1, <3>2
  <2>2. worker'[i] # "queued" /\ worker' = [worker EXCEPT ![i] = worker'[i]]
    BY <1>8, WorkerStatus
  <2>3. QueuedIds' = QueuedIds
    BY <1>1, <2>1, <2>2 DEF QueuedIds
  <2> QED
    BY <1>2, <2>1, <2>3 DEF Holds
<1> QED
  BY <1>4, <1>5, <1>6, <1>7, <1>8, NextCases DEF Worker

-----------------------------------------------------------------------------
(* The repairs *)

\* What Repair adds: as many repairs as it counts, each of a failed subtask of
\* the plan, whose dependencies it takes over.
LEMMA RepairAdds ==
    ASSUME IInv, Repair
    PROVE  \E S \in SUBSET Repairable :
              /\ subtasks' = subtasks \cup {Fix(i) : i \in S}
              /\ repairs' = repairs + Cardinality(S)
              /\ \A i \in S : deps'[Fix(i)] = deps[i]
              /\ \A i \in Subtasks : deps'[i] = deps[i]
              /\ \A i \in Subtasks : i \notin S => deps'[Fix(i)] = deps[Fix(i)]
<1>1. PICK S \in SUBSET Repairable :
         /\ subtasks' = subtasks \cup {Fix(i) : i \in S}
         /\ deps' = [j \in Ids |-> IF j - N \in S THEN deps[j - N] ELSE deps[j]]
         /\ repairs' = repairs + Cardinality(S)
  BY DEF Repair
<1>2. \A i \in Subtasks : /\ i \in Ids /\ Fix(i) \in Ids /\ Fix(i) - N = i
                          /\ i - N \notin Subtasks
  BY SchedulerAssumption DEF Subtasks, Fix, Ids
<1>3. S \subseteq Subtasks
  BY DEF Repairable
<1> QED
  BY <1>1, <1>2, <1>3

\* A set of subtasks of the plan has as many repairs as members.
LEMMA FixCount ==
    ASSUME NEW S \in SUBSET Subtasks
    PROVE  IsFiniteSet({Fix(i) : i \in S}) /\ Cardinality({Fix(i) : i \in S}) = Cardinality(S)
<1> DEFINE T == {Fix(i) : i \in S}
           f == [i \in S |-> Fix(i)]
<1>1. IsFiniteSet(S)
  BY IdFacts, IdsFinite
<1>2. \A i, j \in S : Fix(i) = Fix(j) => i = j
  BY SchedulerAssumption DEF Fix, Subtasks
<1>3. f \in Bijection(S, T)
  BY <1>2 DEF Bijection, Injection, Surjection, IsInjective
<1>4. ExistsBijection(S, T)
  BY <1>3 DEF ExistsBijection
<1> HIDE DEF T
<1> QED
  BY <1>1, <1>4, FS_Bijection DEF T

\* The count of repairs stays that of the ids added to the plan, and each still
\* waits for what the failed subtask it repairs waited for.
LEMMA RepairsStep ==
    ASSUME IInv, Subtasks \subseteq subtasks, RepairsAreOfFailures, [Next]_vars
    PROVE  RepairsAreOfFailures' /\ Subtasks \subseteq subtasks'
<1>1. Subtasks \subseteq subtasks'
  BY SubtasksKept
<1>2. /\ Cardinality(subtasks \ Subtasks) = repairs
      /\ \A i \in Subtasks : Fix(i) \in subtasks => status[i] = "failed" /\ deps[Fix(i)] = deps[i]
  BY DEF RepairsAreOfFailures
<1>3. \A i \in Subtasks : status[i] = "failed" => status'[i] = "failed"
  BY SettledStep, IdFacts DEF Terminal
<1>4. CASE Repair
  <2>1. PICK S \in SUBSET Repairable :
              /\ subtasks' = subtasks \cup {Fix(i) : i \in S}
              /\ repairs' = repairs + Cardinality(S)
              /\ \A i \in S : deps'[Fix(i)] = deps[i]
              /\ \A i \in Subtasks : deps'[i] = deps[i]
              /\ \A i \in Subtasks : i \notin S => deps'[Fix(i)] = deps[Fix(i)]
    BY <1>4, RepairAdds
  <2> DEFINE F == {Fix(i) : i \in S}
             A == subtasks \ Subtasks
  <2>2. S \subseteq Subtasks /\ \A i \in S : status[i] = "failed" /\ Fix(i) \notin subtasks
    BY DEF Repairable
  <2>3. IsFiniteSet(F) /\ Cardinality(F) = Cardinality(S)
    BY <2>2, FixCount
  <2>4. A \in SUBSET Ids /\ IsFiniteSet(A) /\ Cardinality(A) \in Nat
    BY IdsFinite DEF IInv, TypeOK
  <2>5. Cardinality(S) \in Nat
    BY <2>2, IdFacts, IdsFinite
  <2>6. A \cap F = {} /\ A' = A \cup F
    BY <2>1, <2>2, IdFacts
  <2>7. Cardinality(A') = repairs'
    <3> HIDE DEF A, F
    <3>1. Cardinality(A \cup F) = Cardinality(A) + Cardinality(F) - Cardinality(A \cap F)
      BY <2>3, <2>4, FS_Union
    <3>2. Cardinality(A \cap F) = 0
      BY <2>6, FS_EmptySet
    <3>3. Cardinality(A) = repairs
      BY <1>2 DEF A
    <3> QED
      BY <2>1, <2>3, <2>4, <2>5, <2>6, <3>1, <3>2, <3>3
  <2>8. ASSUME NEW i \in Subtasks, Fix(i) \in subtasks'
        PROVE  status'[i] = "failed" /\ deps'[Fix(i)] = deps'[i]
    <3>1. CASE i \in S
      BY <1>3, <2>1, <2>2, <3>1
    <3>2. CASE i \notin S
      <4>1. \A j \in S : Fix(j) # Fix(i)
        BY <2>2, <3>2, SchedulerAssumption DEF Fix, Subtasks
      <4>2. Fix(i) \in subtasks
        BY <2>1, <2>8, <4>1
      <4> QED
        BY <1>2, <1>3, <2>1, <3>2, <4>2
    <3> QED
      BY <3>1, <3>2
  <2> QED
    BY <1>1, <2>7, <2>8 DEF RepairsAreOfFailures
<1>5. CASE Aside /\ ~Repair
  <2>1. UNCHANGED runVars
    BY <1>5 DEF Aside, BlockUnreachable, StopAtGate, AwaitFirst, Return, Collect, Raise,
                Pause, Resume, Cancel, Spend, vars
  <2> QED
    BY <1>1, <1>2, <1>3, <2>1 DEF RepairsAreOfFailures, runVars
<1>6. CASE ~Aside
  <2>1. UNCHANGED runVars
    <3>1. CASE Dispatch \/ PassGate \/ Acquire
      BY <3>1 DEF Dispatch, PassGate, Acquire
    <3>2. ASSUME NEW i \in Ids, Worker(i)
          PROVE  UNCHANGED runVars
      BY <3>2 DEF Worker, ExecuteReturns, ExecuteTransient, BackoffEnds, ExecuteErrors,
                  VerifyPasses, VerifyFails, Cancelled
    <3> QED
      BY <1>6, <3>1, <3>2, NextCases
  <2> QED
    BY <1>1, <1>2, <1>3, <2>1 DEF RepairsAreOfFailures, runVars
<1> QED
  BY <1>4, <1>5, <1>6
-----------------------------------------------------------------------------
(* How tasks and runs end *)

\* The step of a task cancels it, lets it go on or ends it over budget with its
\* subtask still running, or settles its subtask.
LEMMA WorkerOutcome ==
    ASSUME IInv, NEW i \in Ids, Worker(i)
    PROVE  \/ /\ i \in cancelling
              /\ worker'[i] = "cancelled"
              /\ status' = [status EXCEPT ![i] = IF @ = "running" THEN "blocked" ELSE @]
           \/ /\ i \notin cancelling
              /\ worker[i] \in Leased
              /\ worker'[i] \in Leased \cup {"overbudget"}
              /\ status' = status
           \/ /\ i \notin cancelling
              /\ worker[i] \in Leased
              /\ worker'[i] = "returned"
              /\ \E o \in Satisfying \cup {"failed"} : status' = [status EXCEPT ![i] = o]
<1>1. status \in [Ids -> RunStatus] /\ worker \in [Ids -> WorkerState]
  BY DEF IInv, TypeOK
<1>2. ASSUME NEW o, Settle(i, o)
      PROVE  worker'[i] = "returned" /\ status' = [status EXCEPT ![i] = o]
  BY <1>1, <1>2 DEF Settle, Leave
<1>3. ASSUME Attempt(i)
      PROVE  worker'[i] \in Leased \cup {"overbudget"}
  BY <1>1, <1>3 DEF Attempt, Leave, Leased
<1>4. CASE ExecuteReturns(i)
  BY <1>1, <1>4 DEF ExecuteReturns, Runs, Leased
<1>5. CASE ExecuteTransient(i)
  <2>1. CASE transients[i] < TransientRetries
    BY <1>1, <1>5, <2>1 DEF ExecuteTransient, Runs, Leased
  <2>2. CASE ~(transients[i] < TransientRetries)
    BY <1>2, <1>5, <2>2 DEF ExecuteTransient, Runs, Leased
  <2> QED
    BY <2>1, <2>2
<1>6. CASE BackoffEnds(i)
  BY <1>3, <1>6 DEF BackoffEnds, Runs, Leased
<1>7. CASE ExecuteErrors(i)
  BY <1>2, <1>7 DEF ExecuteErrors, Runs, Leased
<1>8. CASE VerifyPasses(i)
  BY <1>2, <1>8 DEF VerifyPasses, Runs, Leased, Satisfying
<1>9. CASE VerifyFails(i)
  <2>1. CASE reviews[i] < MaxRetries
    BY <1>3, <1>9, <2>1 DEF VerifyFails, Runs, Leased
  <2>2. CASE ~(reviews[i] < MaxRetries)
    <3>1. PICK o \in {"passed_with_caveats", "failed"} : Settle(i, o)
      BY <1>9, <2>2 DEF VerifyFails
    <3> QED
      BY <1>2, <1>9, <3>1 DEF VerifyFails, Runs, Leased, Satisfying
  <2> QED
    BY <2>1, <2>2
<1>10. CASE Cancelled(i)
  <2>1. i \in cancelling
    BY <1>10 DEF Cancelled
  <2>2. CASE worker[i] = "queued"
    <3>1. status[i] = "pending"
      BY <2>2 DEF IInv, StatusAgrees
    <3>2. worker' = [worker EXCEPT ![i] = "cancelled"] /\ status' = status
      BY <1>10, <2>2 DEF Cancelled
    <3> QED
      BY <1>1, <2>1, <3>1, <3>2
  <2>3. CASE worker[i] # "queued"
    BY <1>1, <1>10, <2>1, <2>3 DEF Cancelled, Leave
  <2> QED
    BY <2>2, <2>3
<1> QED
  BY <1>4, <1>5, <1>6, <1>7, <1>8, <1>9, <1>10 DEF Worker

\* A run that is on waits for every task that ran out of budget; one that is
\* being stopped has cancelled all that is left of it.
LEMMA StopsAwaitedStep ==
    ASSUME IInv, StopsAwaited, [Next]_vars
    PROVE  StopsAwaited'
<1>1. /\ worker \in [Ids -> WorkerState] /\ inFlight \subseteq Ids /\ cancelling \subseteq Ids
      /\ \A i \in Ids : worker[i] \in Live => i \in inFlight /\ ~Ended
      /\ \A i \in cancelling : worker[i] \in Live
      /\ cancelling # {} => pc = "gather"
      /\ pc = "returned" => inFlight = {}
      /\ \A i \in Ids : worker[i] = "overbudget" => i \in inFlight \/ pc \in {"gather", "raised"}
      /\ \A i \in Ids : worker[i] = "cancelled" => pc \in {"gather", "raised"}
      /\ pc = "gather" => \A i \in Ids : worker[i] \in Live => i \in cancelling
  BY DEF IInv, TypeOK, TasksAwaited, StopsAwaited
<1>2. CASE Collect
  <2>1. PICK done \in {{i \in inFlight : Finished(i)}} :
          IF Fatal(done)
          THEN StopRun("budget", inFlight \ done)
          ELSE inFlight' = inFlight \ done /\ pc' = "top" /\ UNCHANGED cancelling
    BY <1>2 DEF Collect
  <2>2. worker' = worker /\ pc = "wait"
    BY <1>2 DEF Collect
  <2>3. \A i \in Ids : worker[i] = "overbudget" => i \in done
    BY <1>1, <2>1, <2>2 DEF Finished, Live, Leased
  <2>4. \A i \in Ids : worker[i] \in Live => i \in inFlight \ done
    BY <1>1, <2>1 DEF Finished
  <2>5. CASE Fatal(done)
    BY <2>1, <2>2, <2>4, <2>5 DEF StopRun, StopsAwaited, Finished
  <2>6. CASE ~Fatal(done)
    BY <1>1, <2>1, <2>2, <2>3, <2>6 DEF Fatal, StopsAwaited
  <2> QED
    BY <2>5, <2>6
<1>3. CASE Cancel
  BY <1>1, <1>3 DEF Cancel, StopRun, Finished, StopsAwaited
<1>4. CASE Return
  BY <1>1, <1>4 DEF Return, RunDry, workerVars, StopsAwaited
<1>5. CASE Raise
  <2>1. \A i \in Ids : worker[i] \notin Live
    BY <1>1, <1>5 DEF Raise, Finished
  <2> QED
    BY <1>1, <1>5, <2>1 DEF Raise, workerVars, StopsAwaited
<1>6. CASE BlockUnreachable \/ StopAtGate \/ AwaitFirst \/ Repair
  <2>1. /\ UNCHANGED <<worker, cancelling, inFlight>>
        /\ pc \in {"top", "sched"} /\ pc' \in {"top", "sched", "gate", "wait"}
    BY <1>6 DEF BlockUnreachable, StopAtGate, AwaitFirst, Repair, RunDry, workerVars
  <2> QED
    BY <1>1, <2>1 DEF StopsAwaited
<1>7. CASE Pause \/ Resume \/ Spend \/ UNCHANGED vars
  <2>1. UNCHANGED <<worker, cancelling, inFlight, pc>>
    BY <1>7 DEF Pause, Resume, Spend, vars, loopVars, workerVars
  <2> QED
    BY <1>1, <2>1 DEF StopsAwaited
<1>8. CASE Dispatch \/ PassGate
  <2>1. PICK S \in SUBSET Ids :
          /\ S \subseteq ToSchedule \/ S \subseteq toDispatch
          /\ Launch(S) /\ pc' \in {"wait", "gate"} /\ pc \in {"sched", "gate"}
    BY <1>8, LaunchEffect
  <2> QED
    BY <1>1, <2>1 DEF Launch, StopsAwaited
<1>9. CASE Acquire
  <2>1. PICK i \in Ids :
              /\ worker[i] = "queued"
              /\ \E w \in {"overbudget", "exec"} : worker' = [worker EXCEPT ![i] = w]
              /\ i \notin cancelling
              /\ UNCHANGED <<loopVars, cancelling>>
    BY <1>9, AcquireStatus
  <2>2. i \in inFlight /\ pc # "gather" /\ ~Ended
    BY <1>1, <2>1 DEF Live
  <2> QED
    BY <1>1, <2>1, <2>2 DEF loopVars, StopsAwaited
<1>10. ASSUME NEW i \in Ids, Worker(i)
       PROVE  StopsAwaited'
  <2>1. /\ worker[i] \in Live /\ worker' = [worker EXCEPT ![i] = worker'[i]]
        /\ cancelling' = cancelling \ {i} /\ UNCHANGED loopVars
    BY <1>10, WorkerStatus
  <2>2. i \in inFlight
    BY <1>1, <2>1
  <2>3. /\ worker'[i] = "cancelled" => pc = "gather"
        /\ pc = "gather" => worker'[i] \notin Live
    BY <1>1, <1>10, <2>1, WorkerOutcome DEF Live, Leased
  <2> QED
    BY <1>1, <2>1, <2>2, <2>3 DEF loopVars, StopsAwaited
<1> QED
  BY <1>2, <1>3, <1>4, <1>5, <1>6, <1>7, <1>8, <1>9, <1>10, NextCases DEF Aside

\* What the loop itself does to the statuses: it only ever blocks subtasks of the run.
LEMMA AsideStatus ==
    ASSUME IInv, Aside
    PROVE  \E B \in SUBSET subtasks :
              /\ status' = [i \in Ids |-> IF i \in B THEN "blocked" ELSE status[i]]
              /\ ~BlockUnreachable /\ ~Return /\ ~Raise => B = {}
<1>1. status \in [Ids -> RunStatus]
  BY DEF IInv, TypeOK
<1>2. CASE BlockUnreachable
  BY <1>2 DEF BlockUnreachable
<1>3. CASE Return
  <2>1. status' = [i \in Ids |-> IF i \in {j \in subtasks : status[j] = "pending"}
                                 THEN "blocked" ELSE status[i]]
    BY <1>3 DEF Return
  <2> QED
    BY <1>3, <2>1
<1>4. CASE Raise
  <2>1. status' = [i \in Ids |-> IF i \in {j \in subtasks : status[j] \in Unsettled}
                                 THEN "blocked" ELSE status[i]]
    BY <1>4 DEF Raise
  <2> QED
    BY <1>4, <2>1
<1>5. CASE ~BlockUnreachable /\ ~Return /\ ~Raise
  <2>1. status' = status
    BY <1>5 DEF Aside, StopAtGate, AwaitFirst, Repair, Collect, Pause, Resume, Cancel, Spend, vars
  <2>2. status' = [i \in Ids |-> IF i \in {} THEN "blocked" ELSE status[i]]
    BY <1>1, <2>1
  <2> QED
    BY <2>2
<1> QED
  BY <1>2, <1>3, <1>4, <1>5

\* A subtask whose task is over is settled, unless it ran out of budget.
LEMMA OutcomeStep ==
    ASSUME IInv, OutcomeRecorded, [Next]_vars
    PROVE  OutcomeRecorded'
<1>1. /\ worker \in [Ids -> WorkerState] /\ status \in [Ids -> RunStatus] /\ dispatched \subseteq Ids
      /\ \A i \in dispatched : worker[i] # "none"
      /\ \A i \in Ids \ subtasks : status[i] = "pending"
      /\ \A i \in Ids : worker[i] = "returned" => status[i] \in Terminal
      /\ \A i \in Ids : status[i] = "running" => worker[i] \in Leased \cup {"overbudget"}
      /\ \A i \in Ids : worker[i] # "none" => i \in subtasks
  BY DEF IInv, TypeOK, OutcomeRecorded, DispatchSound
<1>2. \A i \in Ids : status[i] \in Terminal => status'[i] = status[i]
  BY SettledStep
<1>3. subtasks \subseteq subtasks'
  BY SubtasksKept
<1>4. CASE Aside
  <2>1. UNCHANGED <<worker, dispatched>>
    BY <1>4, AsideKeepsTasks
  <2>2. PICK B \in SUBSET subtasks :
          status' = [i \in Ids |-> IF i \in B THEN "blocked" ELSE status[i]]
    BY <1>4, AsideStatus
  <2> QED
    BY <1>1, <1>2, <1>3, <2>1, <2>2 DEF OutcomeRecorded
<1>5. CASE Dispatch \/ PassGate
  <2>1. PICK S \in SUBSET Ids :
          /\ S \subseteq ToSchedule \/ S \subseteq toDispatch
          /\ Launch(S) /\ UNCHANGED <<subtasks, status>>
    BY <1>5, LaunchEffect
  <2>2. \A i \in S : status[i] = "pending"
    BY <2>1, LaunchSound
  <2> QED
    BY <1>1, <2>1, <2>2 DEF Launch, OutcomeRecorded
<1>6. CASE Acquire
  <2>1. PICK i \in Ids :
              /\ worker[i] = "queued"
              /\ status' = [status EXCEPT ![i] = "running"]
              /\ \E w \in {"overbudget", "exec"} : worker' = [worker EXCEPT ![i] = w]
              /\ UNCHANGED <<subtasks, loopVars>>
    BY <1>6, AcquireStatus
  <2> QED
    BY <1>1, <2>1 DEF OutcomeRecorded, loopVars, Leased
<1>7. ASSUME NEW i \in Ids, Worker(i)
      PROVE  OutcomeRecorded'
  <2>1. /\ worker[i] \in Live /\ worker' = [worker EXCEPT ![i] = worker'[i]]
        /\ UNCHANGED <<subtasks, loopVars>> /\ worker'[i] # "none"
    BY <1>7, WorkerStatus
  <2>2. i \in subtasks
    BY <1>1, <2>1 DEF Live, Leased
  <2>3. /\ worker'[i] = "returned" => status'[i] \in Terminal
        /\ status'[i] = "running" => worker'[i] \in Leased \cup {"overbudget"}
        /\ \A j \in Ids \ {i} : status'[j] = status[j]
    BY <1>1, <1>7, WorkerOutcome DEF Leased, Terminal, Satisfying
  <2> QED
    BY <1>1, <2>1, <2>2, <2>3 DEF OutcomeRecorded, loopVars
<1> QED
  BY <1>4, <1>5, <1>6, <1>7, NextCases

\* When the loop has run dry, a pending subtask waits for one that is hopeless or
\* pending itself: nothing of the run is left that could satisfy it.
LEMMA DryPending ==
    ASSUME RunInv, RunDry, NEW i \in subtasks, status[i] = "pending"
    PROVE  \E d \in deps[i] : d \in subtasks /\ status[d] \in Unmet \cup {"pending"}
<1>1. /\ subtasks \subseteq Ids /\ deps[i] \subseteq Subtasks /\ Subtasks \subseteq subtasks
      /\ worker \in [Ids -> WorkerState] /\ status \in [Ids -> RunStatus]
  BY DEF RunInv, IInv, TypeOK
<1>2. /\ pc = "sched" /\ inFlight = {} /\ i \notin Ready(subtasks, deps, status) \ dispatched
  BY DEF RunDry, ToSchedule
<1>3. \A j \in Ids : worker[j] \in {"none", "returned"}
  BY <1>1, <1>2 DEF RunInv, IInv, TasksAwaited, StopsAwaited, WorkerState
<1>4. i \notin dispatched
  BY <1>1, <1>3, StatusFacts DEF RunInv, OutcomeRecorded
<1>5. PICK d \in deps[i] : status[d] \notin Satisfying
  BY <1>2, <1>4 DEF Ready
<1>6. d \in subtasks /\ d \in Ids
  BY <1>1
<1>7. status[d] # "running"
  BY <1>3, <1>6 DEF RunInv, OutcomeRecorded, Leased
<1> QED
  BY <1>1, <1>5, <1>6, <1>7 DEF RunStatus, Satisfying, Unmet

\* What is given up while the run is on is below a failure.
LEMMA BlockedStep ==
    ASSUME RunInv, [Next]_vars
    PROVE  BlockedBelowFailure'
<1>1. /\ subtasks \subseteq Ids /\ deps \in [Ids -> SUBSET Subtasks] /\ Subtasks \subseteq Ids
      /\ status \in [Ids -> RunStatus]
      /\ \A i \in Ids \ subtasks : status[i] = "pending"
      /\ subtasks' \subseteq Ids
  BY RunTypeStep, IdFacts DEF RunInv, IInv, TypeOK, OutcomeRecorded
<1>2. \A i \in Ids : status[i] \in Terminal => status'[i] = status[i]
  BY SettledStep DEF RunInv
<1>3. subtasks \subseteq subtasks' /\ \A i \in subtasks : deps'[i] = deps[i]
  BY SubtasksKept DEF RunInv
<1>4. ASSUME pc' \notin {"gather", "raised"}
      PROVE  pc \notin {"gather", "raised"}
  <2>1. CASE Aside
    BY <1>4, <2>1 DEF Aside, BlockUnreachable, StopAtGate, AwaitFirst, Repair, RunDry, Return,
            Collect, Raise, Pause, Resume, Cancel, Spend, vars, loopVars
  <2>2. CASE Dispatch \/ PassGate
    BY <2>2, LaunchEffect DEF RunInv
  <2>3. CASE ~Aside /\ ~Dispatch /\ ~PassGate
    <3>1. pc' = pc
      BY <2>3, NextCases, AcquireStatus, WorkerStatus DEF RunInv, loopVars
    <3> QED
      BY <1>4, <3>1
  <2> QED
    BY <2>1, <2>2, <2>3
<1>5. ASSUME pc' \notin {"gather", "raised"}, NEW i \in subtasks',
             status'[i] = "blocked", status[i] # "blocked"
      PROVE  i \in subtasks /\ \E d \in deps[i] : status'[d] \in Unmet
  <2>1. CASE BlockUnreachable
    <3>1. PICK B \in SUBSET subtasks :
            /\ \A j \in B : \E d \in deps[j] : status[d] \in Unmet \/ d \in B
            /\ status' = [j \in Ids |-> IF j \in B THEN "blocked" ELSE status[j]]
      BY <2>1 DEF BlockUnreachable, IsBlockPass
    <3>2. i \in B
      BY <1>1, <1>5, <3>1
    <3>3. PICK d \in deps[i] : status[d] \in Unmet \/ d \in B
      BY <3>1, <3>2
    <3>4. d \in Ids /\ status'[d] \in Unmet
      BY <1>1, <1>2, <3>1, <3>2, <3>3 DEF Unmet, Terminal
    <3> QED
      BY <1>1, <3>2, <3>4
  <2>2. CASE Return
    <3>1. RunDry /\ status' = [j \in Ids |-> IF j \in subtasks /\ status[j] = "pending"
                                             THEN "blocked" ELSE status[j]]
      BY <2>2 DEF Return
    <3>2. i \in subtasks /\ status[i] = "pending"
      BY <1>1, <1>5, <3>1
    <3>3. PICK d \in deps[i] : d \in subtasks /\ status[d] \in Unmet \cup {"pending"}
      BY <3>1, <3>2, DryPending
    <3>4. status'[d] \in Unmet
      BY <1>1, <3>1, <3>3 DEF Unmet
    <3> QED
      BY <3>2, <3>4
  <2>3. CASE Aside /\ ~BlockUnreachable /\ ~Return
    <3>1. ~Raise
      BY <1>5 DEF Raise
    <3>2. status' = [j \in Ids |-> IF j \in {} THEN "blocked" ELSE status[j]]
      BY <2>3, <3>1, AsideStatus DEF RunInv
    <3> QED
      BY <1>1, <1>5, <3>2
  <2>4. CASE Dispatch \/ PassGate
    BY <1>5, <2>4, LaunchEffect DEF RunInv
  <2>5. CASE Acquire
    BY <1>1, <1>5, <2>5, AcquireStatus DEF RunInv
  <2>6. ASSUME NEW j \in Ids, Worker(j)
        PROVE  FALSE
    <3>1. /\ \A k \in Ids \ {j} : status'[k] = status[k]
          /\ UNCHANGED loopVars
      BY <2>6, WorkerStatus DEF RunInv
    <3>2. i = j
      BY <1>1, <1>5, <3>1
    <3>3. j \notin cancelling
      BY <1>5, <3>1 DEF RunInv, StopsAwaited, loopVars
    <3> QED
      BY <1>1, <1>5, <2>6, <3>2, <3>3, WorkerOutcome DEF RunInv, Satisfying
  <2> QED
    BY <2>1, <2>2, <2>3, <2>4, <2>5, <2>6, NextCases
<1>6. ASSUME pc' \notin {"gather", "raised"}, NEW i \in subtasks',
             status'[i] = "blocked", status[i] = "blocked"
      PROVE  i \in subtasks /\ \E d \in deps[i] : status'[d] \in Unmet
  <2>1. i \in subtasks
    BY <1>1, <1>6
  <2>2. PICK d \in deps[i] : status[d] \in Unmet
    BY <1>4, <1>6, <2>1 DEF RunInv, BlockedBelowFailure
  <2> QED
    BY <1>1, <1>2, <2>1, <2>2 DEF Unmet, Terminal
<1> QED
  BY <1>3, <1>5, <1>6 DEF BlockedBelowFailure

\* A run that is over stays so, with the subtasks it had.
LEMMA EndsOnce ==
    ASSUME IInv, [Next]_vars
    PROVE  /\ pc' = "returned" => Return \/ (pc = "returned" /\ UNCHANGED <<subtasks, deps>>)
           /\ pc' = "raised" => Raise \/ (pc = "raised" /\ UNCHANGED <<subtasks, recancelled>>)
<1>1. CASE Aside
  <2>1. CASE Return \/ Raise
    BY <2>1 DEF Return, Raise
  <2>2. CASE BlockUnreachable \/ StopAtGate \/ AwaitFirst \/ Repair \/ Collect
    BY <2>2 DEF BlockUnreachable, StopAtGate, AwaitFirst, Repair, Collect, StopRun
  <2>3. CASE Cancel
    BY <2>3 DEF Cancel, StopRun
  <2>4. CASE Pause \/ Resume \/ Spend \/ UNCHANGED vars
    BY <2>4 DEF Pause, Resume, Spend, vars, loopVars, runVars
  <2> QED
    BY <1>1, <2>1, <2>2, <2>3, <2>4 DEF Aside
<1>2. CASE Dispatch \/ PassGate
  BY <1>2, LaunchEffect
<1>3. CASE Acquire
  BY <1>3 DEF Acquire, loopVars, runVars
<1>4. ASSUME NEW i \in Ids, Worker(i)
      PROVE  UNCHANGED <<subtasks, deps, loopVars>>
  BY <1>4, WorkerStatus
<1> QED
  BY <1>1, <1>2, <1>3, <1>4, NextCases DEF loopVars

\* A run that returns has settled everything.
LEMMA ReturnsStep ==
    ASSUME RunInv, [Next]_vars
    PROVE  ReturnsClosed'
<1>1. SUFFICES ASSUME pc' = "returned", NEW i \in subtasks'
               PROVE  status'[i] \in Terminal
  BY BlockedStep DEF ReturnsClosed, BlockedBelowFailure
<1>2. /\ subtasks \subseteq Ids /\ status \in [Ids -> RunStatus]
      /\ worker \in [Ids -> WorkerState]
  BY DEF RunInv, IInv, TypeOK
<1>3. CASE Return
  <2>1. /\ RunDry /\ subtasks' = subtasks
        /\ status' = [j \in Ids |-> IF j \in subtasks /\ status[j] = "pending"
                                    THEN "blocked" ELSE status[j]]
    BY <1>3 DEF Return, runVars
  <2>2. worker[i] \notin Leased \cup {"overbudget"}
    BY <1>2, <2>1 DEF RunDry, RunInv, IInv, TasksAwaited, StopsAwaited, Live
  <2>3. status[i] # "running"
    BY <1>2, <2>1, <2>2 DEF RunInv, OutcomeRecorded
  <2> QED
    BY <1>2, <2>1, <2>3 DEF RunStatus, Terminal, Satisfying
<1>4. CASE pc = "returned" /\ UNCHANGED <<subtasks, deps>>
  BY <1>2, <1>4, SettledStep DEF RunInv, ReturnsClosed
<1> QED
  BY <1>1, <1>3, <1>4, EndsOnce DEF RunInv

\* So has one that was stopped, but for the interruption of its own sweep.
LEMMA StopSettlesStep ==
    ASSUME RunInv, [Next]_vars
    PROVE  StopSettles'
<1>1. SUFFICES ASSUME pc' = "raised", ~recancelled', NEW i \in subtasks'
               PROVE  status'[i] \in Terminal
  BY DEF StopSettles
<1>2. subtasks \subseteq Ids /\ status \in [Ids -> RunStatus]
  BY DEF RunInv, IInv, TypeOK
<1>3. CASE Raise
  <2>1. /\ ~recancelled /\ subtasks' = subtasks
        /\ status' = [j \in Ids |-> IF j \in subtasks /\ status[j] \in {"pending", "running"}
                                    THEN "blocked" ELSE status[j]]
    BY <1>1, <1>3 DEF Raise, runVars, Unsettled
  <2> QED
    BY <1>2, <2>1 DEF RunStatus, Terminal, Satisfying
<1>4. CASE pc = "raised" /\ UNCHANGED <<subtasks, recancelled>>
  BY <1>1, <1>2, <1>4, SettledStep DEF RunInv, StopSettles
<1> QED
  BY <1>1, <1>3, <1>4, EndsOnce DEF RunInv

-----------------------------------------------------------------------------
\* RunInv is an inductive invariant too.
LEMMA InitRunInv == Init => RunInv
<1> SUFFICES ASSUME Init
             PROVE  RunInv
  OBVIOUS
<1>1. IInv
  BY InitIInv
<1>2. QueuedOnce
  BY DEF Init, QueuedOnce
<1>3. RepairsAreOfFailures /\ Subtasks \subseteq subtasks
  <2>1. subtasks = Subtasks /\ repairs = 0
    BY DEF Init
  <2>2. Subtasks \ Subtasks = {}
    OBVIOUS
  <2> QED
    BY <2>1, <2>2, FS_EmptySet, IdFacts DEF RepairsAreOfFailures
<1>4. StopsAwaited /\ ReturnsClosed /\ StopSettles
  BY DEF Init, StopsAwaited, ReturnsClosed, StopSettles
<1>5. OutcomeRecorded /\ BlockedBelowFailure
  <2>1. \A i \in Ids : status[i] \in {"pending"} \cup Satisfying
    BY DEF Init
  <2>2. subtasks = Subtasks /\ dispatched = {} /\ \A i \in Ids : worker[i] = "none"
    BY DEF Init
  <2>3. \A i \in Ids \ Subtasks : status[i] = "pending"
    BY DEF Init
  <2> QED
    BY <2>1, <2>2, <2>3, IdFacts DEF OutcomeRecorded, BlockedBelowFailure, Satisfying
<1> QED
  BY <1>1, <1>2, <1>3, <1>4, <1>5 DEF RunInv

\* How every run goes and ends: RunInv is an inductive invariant.
THEOREM RunInvariantHolds == Spec => []RunInv
<1>1. RunInv /\ [Next]_vars => RunInv'
  <2> SUFFICES ASSUME RunInv, [Next]_vars
               PROVE  RunInv'
    OBVIOUS
  <2>1. IInv'
    BY TypeStep, SessionsStep, DispatchSoundStep, StatusAgreesStep, TasksAwaitedStep
       DEF RunInv, IInv
  <2>2. QueuedOnce' /\ RepairsAreOfFailures' /\ (Subtasks \subseteq subtasks)'
    BY QueuedOnceStep, RepairsStep DEF RunInv
  <2>3. StopsAwaited' /\ OutcomeRecorded' /\ BlockedBelowFailure' /\ ReturnsClosed' /\ StopSettles'
    BY StopsAwaitedStep, OutcomeStep, BlockedStep, ReturnsStep, StopSettlesStep DEF RunInv
  <2> QED
    BY <2>1, <2>2, <2>3 DEF RunInv
<1> QED
  BY InitRunInv, <1>1, PTL DEF Spec

\* However a run ends it leaves its subtasks as it should.
THEOREM RunLeavesSound == Spec => []RunSound
<1>1. RunInv => RunSound
  <2> SUFFICES ASSUME RunInv
               PROVE  RunSound
    OBVIOUS
  <2>1. NoTaskOutlivesRun
    BY DEF RunInv, IInv, TasksAwaited, NoTaskOutlivesRun
  <2>2. StopNotSwallowed
    BY DEF RunInv, StopsAwaited, StopNotSwallowed
  <2> QED
    BY <2>1, <2>2 DEF RunInv, RunSound
<1> QED
  BY RunInvariantHolds, <1>1, PTL

-----------------------------------------------------------------------------
(* The scheduler implements DagRun *)

\* Both modules mean the same statuses.
LEMMA SameStatuses ==
    /\ Abstract!Satisfying = Satisfying
    /\ Abstract!Terminal = Terminal
    /\ Abstract!Unmet = Unmet
BY DEF Abstract!Satisfying, Satisfying, Abstract!Terminal, Terminal, Abstract!Unmet, Unmet

\* Every step of the scheduler is one of DagRun, or changes nothing DagRun knows.
LEMMA AbstractStep ==
    ASSUME RunInv, [Next]_vars
    PROVE  [Abstract!Next]_Abstract!vars
<1> DEFINE ph == IF Ended THEN "over" ELSE IF pc = "gather" THEN "stopping" ELSE "on"
<1>1. /\ subtasks \subseteq Ids /\ deps \in [Ids -> SUBSET Subtasks] /\ Subtasks \subseteq Ids
      /\ status \in [Ids -> RunStatus] /\ worker \in [Ids -> WorkerState]
      /\ \A i \in Ids : worker[i] \in Live => i \in inFlight /\ ~Ended
      /\ \A i \in Ids : worker[i] # "none" => i \in subtasks /\ DepsMet(i)
      /\ \A i \in Ids : worker[i] \in Leased => status[i] = "running"
      /\ cancelling # {} => pc = "gather"
      /\ \A i \in Ids : worker[i] \in Live /\ pc = "gather" => i \in cancelling
  BY IdFacts DEF RunInv, IInv, TypeOK, TasksAwaited, DispatchSound, StatusAgrees, StopsAwaited
<1>2. CASE BlockUnreachable
  <2>1. PICK B \in SUBSET subtasks :
          /\ \A i \in B : /\ status[i] = "pending"
                          /\ \E d \in deps[i] : status[d] \in Unmet \/ d \in B
          /\ status' = [i \in Ids |-> IF i \in B THEN "blocked" ELSE status[i]]
    BY <1>2 DEF BlockUnreachable, IsBlockPass
  <2>2. \A i \in B : \E d \in deps[i] : status'[d] \in Unmet
    <3> TAKE i \in B
    <3>1. PICK d \in deps[i] : status[d] \in Unmet \/ d \in B
      BY <2>1
    <3>2. d \in Ids
      BY <1>1
    <3> QED
      BY <2>1, <3>1, <3>2 DEF Unmet
  <2>3. ph = "on" /\ ph' = "on" /\ UNCHANGED <<subtasks, deps>>
    BY <1>2 DEF BlockUnreachable, Ended, runVars
  <2> QED
    BY <2>1, <2>2, <2>3, SameStatuses DEF Abstract!Next, Abstract!Block, Abstract!GivenUp
<1>3. CASE Return
  <2> DEFINE B == {i \in subtasks : status[i] = "pending"}
  <2>1. /\ RunDry
        /\ status' = [i \in Ids |-> IF i \in B THEN "blocked" ELSE status[i]]
        /\ pc' = "returned" /\ UNCHANGED <<subtasks, deps>>
    BY <1>3 DEF Return, runVars
  <2>2. \A i \in B : \E d \in deps[i] : status'[d] \in Unmet
    <3> TAKE i \in B
    <3>1. PICK d \in deps[i] : d \in subtasks /\ status[d] \in Unmet \cup {"pending"}
      BY <2>1, DryPending
    <3> QED
      BY <1>1, <2>1, <3>1 DEF Unmet
  <2>3. \A i \in subtasks : status'[i] \in Terminal
    BY <2>1, ReturnsStep DEF ReturnsClosed
  <2>4. ph = "on" /\ ph' = "over"
    BY <2>1 DEF RunDry, Ended
  <2> HIDE DEF ph
  <2> QED
    BY <2>1, <2>2, <2>3, <2>4, SameStatuses DEF Abstract!Next, Abstract!Finish, Abstract!GivenUp, ph
<1>4. CASE Raise
  <2> DEFINE B == {i \in subtasks : status[i] \in Unsettled}
  <2>1. /\ status' = [i \in Ids |-> IF i \in B THEN "blocked" ELSE status[i]]
        /\ ph = "stopping" /\ ph' = "over" /\ UNCHANGED <<subtasks, deps>>
    BY <1>4 DEF Raise, Ended, runVars
  <2>2. B \in SUBSET {i \in subtasks : status[i] \notin Terminal}
    BY StatusFacts DEF Unsettled
  <2> QED
    BY <2>1, <2>2, SameStatuses DEF Abstract!Next, Abstract!Abandon
<1>5. CASE Repair
  <2>1. PICK S \in SUBSET Repairable :
           /\ subtasks' = subtasks \cup {Fix(i) : i \in S}
           /\ deps' = [j \in Ids |-> IF j - N \in S THEN deps[j - N] ELSE deps[j]]
    BY <1>5 DEF Repair
  <2> DEFINE new == {Fix(i) : i \in S}
             repaired == [j \in new |-> j - N]
  <2>2. \A i \in S : i \in subtasks /\ status[i] = "failed" /\ Fix(i) \in Ids \ subtasks
    BY IdFacts DEF Repairable
  <2>3. new \in SUBSET (Ids \ subtasks)
    BY <2>2
  <2>4. \A i \in S : i \in Int /\ Fix(i) - N = i
    BY SchedulerAssumption DEF Fix, Repairable, Subtasks
  <2>5. \A j \in Ids : j \in new <=> j - N \in S
    <3> TAKE j \in Ids
    <3>1. j \in Int /\ N \in Int /\ Fix(j - N) = j
      BY SchedulerAssumption, IdFacts DEF Fix
    <3> QED
      BY <2>4, <3>1
  <2>6. repaired \in [new -> {f \in subtasks : status[f] = "failed"}]
    BY <2>2, <2>4
  <2>7. deps' = [j \in Ids |-> IF j \in new THEN deps[repaired[j]] ELSE deps[j]]
    BY <2>1, <2>5
  <2>8. ph = "on" /\ ph' = "on" /\ status' = status /\ subtasks' = subtasks \cup new
    BY <1>5, <2>1 DEF Repair, RunDry, Ended
  <2> HIDE DEF new, repaired, ph
  <2> QED
    BY <2>3, <2>6, <2>7, <2>8 DEF Abstract!Next, Abstract!Repair, ph
<1>6. CASE Collect \/ Cancel
  <2>1. status' = status /\ UNCHANGED <<subtasks, deps>>
    BY <1>6 DEF Collect, Cancel, runVars
  <2>2. \/ ph' = ph
        \/ ph = "on" /\ ph' = "stopping"
    BY <1>6 DEF Collect, Cancel, StopRun, Ended
  <2> QED
    BY <2>1, <2>2 DEF Abstract!Next, Abstract!Stop, Abstract!vars
<1>7. CASE StopAtGate \/ AwaitFirst \/ Pause \/ Resume \/ Spend \/ UNCHANGED vars
  <2>1. status' = status /\ UNCHANGED <<subtasks, deps>> /\ ph' = ph
    BY <1>7 DEF StopAtGate, AwaitFirst, Pause, Resume, Spend, vars, loopVars, runVars, Ended
  <2> QED
    BY <2>1 DEF Abstract!vars
<1>8. CASE Dispatch \/ PassGate
  <2>1. UNCHANGED <<subtasks, deps, status>> /\ pc \in {"sched", "gate"} /\ pc' \in {"wait", "gate"}
    BY <1>8, LaunchEffect DEF RunInv
  <2> QED
    BY <2>1 DEF Abstract!vars, Ended
<1>9. CASE Acquire
  <2>1. PICK i \in Ids :
              /\ worker[i] = "queued" /\ status[i] = "pending"
              /\ status' = [status EXCEPT ![i] = "running"]
              /\ i \notin cancelling
              /\ UNCHANGED <<subtasks, deps, loopVars>>
    BY <1>9, AcquireStatus DEF RunInv
  <2>2. ph = "on" /\ ph' = ph
    BY <1>1, <2>1 DEF Live, Ended, loopVars
  <2>3. i \in subtasks /\ \A d \in deps[i] : status[d] \in Satisfying
    BY <1>1, <2>1 DEF DepsMet
  <2> QED
    BY <2>1, <2>2, <2>3, SameStatuses DEF Abstract!Next, Abstract!Start
<1>10. ASSUME NEW i \in Ids, Worker(i)
       PROVE  [Abstract!Next]_Abstract!vars
  <2>1. UNCHANGED <<subtasks, deps>> /\ ph' = ph /\ ph # "over" /\ worker[i] \in Live
    BY <1>1, <1>10, WorkerStatus DEF RunInv, loopVars, Ended
  <2>2. CASE status' = status
    BY <2>1, <2>2 DEF Abstract!vars
  <2>3. CASE worker[i] \in Leased /\ \E o \in Satisfying \cup {"failed"} :
                                        status' = [status EXCEPT ![i] = o]
    BY <1>1, <2>1, <2>3, SameStatuses DEF Abstract!Next, Abstract!Settle
  <2>4. CASE /\ i \in cancelling /\ status[i] = "running"
             /\ status' = [status EXCEPT ![i] = IF @ = "running" THEN "blocked" ELSE @]
    <3>1. ph = "stopping"
      BY <1>1, <2>1, <2>4
    <3>2. status' = [j \in Ids |-> IF j \in {i} THEN "blocked" ELSE status[j]]
      BY <1>1, <2>4
    <3>3. {i} \in SUBSET {j \in subtasks : status[j] \notin Terminal}
      BY <1>1, <2>1, <2>4, StatusFacts DEF Live, Leased
    <3> QED
      BY <2>1, <3>1, <3>2, <3>3, SameStatuses DEF Abstract!Next, Abstract!Abandon
  <2> QED
    BY <1>1, <1>10, <2>2, <2>3, <2>4, WorkerOutcome DEF RunInv
<1> QED
  BY <1>2, <1>3, <1>4, <1>5, <1>6, <1>7, <1>8, <1>9, <1>10, NextCases DEF Aside

\* The scheduler implements DagRun: whatever holds of DagRun's runs holds of its.
THEOREM Refinement == Spec => ImplementsDagRun
<1>1. Init => Abstract!Init
  BY SameStatuses DEF Init, Abstract!Init, Ended
<1> QED
  BY <1>1, AbstractStep, RunInvariantHolds, PTL DEF Spec, ImplementsDagRun, Abstract!Spec
=============================================================================
