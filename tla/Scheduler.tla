------------------------------ MODULE Scheduler ------------------------------
(***************************************************************************)
(* orchestration/scheduler.py: the rolling dispatch of one run's subtasks, *)
(* with the session semaphore of session_pool.py, the pause gate of        *)
(* run_control.py and the replan hook of engine.py.                        *)
(*                                                                         *)
(* Everything runs on one asyncio event loop, so an action is what one     *)
(* coroutine does between two awaits.  Scheduler.run is one coroutine (pc) *)
(* and _run_one is one asyncio task per dispatched subtask (worker).       *)
(***************************************************************************)
EXTENDS Task, Sequences

CONSTANTS
    N,                  \* the plan has subtasks 1..N
    Plans,              \* the dependency maps the plan may have
    MaxConcurrent,      \* settings.max_concurrent_sessions
    MaxRetries,         \* settings.max_retries: re-runs after a failed review
    TransientRetries,   \* settings.llm_max_retries: re-runs after a transient error
    Degrade,            \* settings.degrade_on_partial
    MaxRepairs,         \* engine._MAX_REPAIRS, or 0 without settings.adaptive_replan
    HasBudget,          \* settings.budget_usd is set
    MaxPauses,          \* bound: how often the operator pauses the run
    MaxCancels          \* bound: how often the run's task is cancelled

Subtasks == 1..N
Fix(i)   == N + i       \* the id of the repair of subtask i
Ids      == 1..(2 * N)

ASSUME SchedulerAssumption ==
    /\ N \in Nat
    /\ Plans \subseteq [Subtasks -> SUBSET Subtasks]
    /\ MaxConcurrent \in Nat \ {0}
    /\ {MaxRetries, TransientRetries, MaxRepairs, MaxPauses, MaxCancels} \subseteq Nat
    /\ {Degrade, HasBudget} \subseteq BOOLEAN

VARIABLES
    subtasks,    \* TaskRun.subtasks: the ids of the run
    deps,        \* SubTask.depends_on
    status,      \* SubTaskState.status
    pc,          \* where Scheduler.run stands
    toDispatch,  \* the rest of `ready` while its for loop waits at the gate
    dispatched,  \* ids some task was created for
    inFlight,    \* ids whose task Scheduler.run still waits for
    worker,      \* where the task of each id stands
    reviews,     \* review_attempts of _attempt_loop
    transients,  \* i of _execute_with_backoff
    cancelling,  \* tasks asked to cancel that have not run since
    free,        \* the semaphore's value
    waiters,     \* the semaphore's FIFO queue
    paused,      \* RunControl.paused: the gate's event is clear
    released,    \* the gate's waiter was woken by a resume
    overBudget,  \* usage.cost_usd > budget_usd
    repairs,     \* Engine._repairs
    cause,       \* why the run is being stopped
    recancelled, \* cancelled again while it waits for its tasks to stop
    pauses,      \* how often the run was paused
    cancels      \* how often it was cancelled

runVars    == <<subtasks, deps, repairs>>
loopVars   == <<pc, toDispatch, dispatched, inFlight, cause, recancelled>>
workerVars == <<worker, reviews, transients, cancelling, free, waiters>>
opVars     == <<paused, released, overBudget, pauses, cancels>>
vars       == <<runVars, status, loopVars, workerVars, opVars>>

\* Tasks holding a session, and tasks that have not ended.
Leased == {"exec", "backoff", "verify"}
Live   == Leased \cup {"queued"}
WorkerState == Live \cup {"none", "returned", "overbudget", "cancelled"}

LeasedIds == {i \in Ids : worker[i] \in Leased}

\* Between "top" and the next await Scheduler.run has the event loop to
\* itself: no other coroutine takes a step.
LoopHeld == pc \in {"top", "sched"}
Ended    == pc \in {"returned", "raised"}

TypeOK ==
    /\ subtasks \in SUBSET Ids
    /\ deps \in [Ids -> SUBSET Subtasks]
    /\ status \in [Ids -> RunStatus]
    /\ pc \in {"top", "sched", "gate", "wait", "gather", "returned", "raised"}
    /\ {toDispatch, dispatched, inFlight, cancelling} \subseteq SUBSET Ids
    /\ worker \in [Ids -> WorkerState]
    /\ reviews \in [Ids -> 0..MaxRetries]
    /\ transients \in [Ids -> 0..TransientRetries]
    /\ free \in 0..MaxConcurrent
    /\ waiters \in Seq(Ids)
    /\ {paused, released, overBudget, recancelled} \subseteq BOOLEAN
    /\ repairs \in 0..MaxRepairs
    /\ cause \in {"none", "budget", "cancel"}
    /\ pauses \in 0..MaxPauses
    /\ cancels \in 0..MaxCancels

\* TaskRun.from_plan, and what Engine._restore_checkpoints may add on resume:
\* finished subtasks, in any combination, since a checkpoint may be missing.
Init ==
    /\ subtasks = Subtasks
    /\ \E plan \in Plans : deps = [i \in Ids |-> IF i \in Subtasks THEN plan[i] ELSE {}]
    /\ status \in [Ids -> {"pending"} \cup Satisfying]
    /\ \A i \in Ids \ Subtasks : status[i] = "pending"
    /\ pc = "top"
    /\ toDispatch = {} /\ dispatched = {} /\ inFlight = {} /\ cancelling = {}
    /\ worker = [i \in Ids |-> "none"]
    /\ reviews = [i \in Ids |-> 0]
    /\ transients = [i \in Ids |-> 0]
    /\ free = MaxConcurrent
    /\ waiters = <<>>
    /\ paused = FALSE /\ released = FALSE /\ overBudget = FALSE
    /\ repairs = 0
    /\ cause = "none" /\ recancelled = FALSE
    /\ pauses = 0 /\ cancels = 0

-----------------------------------------------------------------------------
(* Scheduler.run: the loop *)

\* Mutant of BlockUnreachable: passed with caveats is not good enough to go on.
BlockOnCaveats ==
    /\ pc = "top"
    /\ \E B \in SUBSET subtasks :
          /\ IsBlockPass(B, subtasks, deps,
              [i \in Ids |-> IF status[i] = "passed_with_caveats" THEN "failed" ELSE status[i]])
          /\ status' = [i \in Ids |-> IF i \in B THEN "blocked" ELSE status[i]]
    /\ pc' = "sched"
    /\ UNCHANGED <<runVars, toDispatch, dispatched, inFlight, cause, recancelled,
                   workerVars, opVars>>

BlockUnreachable ==
    /\ pc = "top"
    /\ \E B \in SUBSET subtasks :
          /\ IsBlockPass(B, subtasks, deps, status)
          /\ status' = [i \in Ids |-> IF i \in B THEN "blocked" ELSE status[i]]
    /\ pc' = "sched"
    /\ UNCHANGED <<runVars, toDispatch, dispatched, inFlight, cause, recancelled,
                   workerVars, opVars>>

\* A task leaves ready() only when it holds a session, hence `dispatched`.
ToSchedule == Ready(subtasks, deps, status) \ dispatched

\* The ids of S in dict order, as the for loop visits them.
InOrder(S) == {q \in [1..Cardinality(S) -> S] :
                  \A j, k \in 1..Cardinality(S) : j < k => q[j] < q[k]}

\* ensure_future(_run_one): the new tasks queue for the semaphore in order.
Launch(S) ==
    /\ \E q \in InOrder(S) : waiters' = waiters \o q
    /\ worker' = [i \in Ids |-> IF i \in S THEN "queued" ELSE worker[i]]
    /\ dispatched' = dispatched \cup S
    /\ inFlight' = inFlight \cup S
    /\ UNCHANGED <<reviews, transients, cancelling, free>>

\* An open gate does not suspend the loop: all of `ready` is dispatched at once.
Dispatch ==
    /\ pc = "sched"
    /\ ~paused
    /\ ToSchedule # {}
    /\ Launch(ToSchedule)
    /\ pc' = "wait"
    /\ UNCHANGED <<runVars, status, toDispatch, cause, recancelled, opVars>>

StopAtGate ==
    /\ pc = "sched"
    /\ paused
    /\ ToSchedule # {}
    /\ toDispatch' = ToSchedule
    /\ pc' = "gate"
    /\ UNCHANGED <<runVars, status, dispatched, inFlight, cause, recancelled,
                   workerVars, opVars>>

\* A resume woke the gate's waiter.  If the run was paused again meanwhile,
\* the next iteration waits again, so one subtask slips through.
PassGate ==
    /\ pc = "gate"
    /\ released
    /\ \E S \in SUBSET toDispatch :
          /\ IF paused
             THEN \E i \in toDispatch : S = {i} /\ \A j \in toDispatch : i <= j
             ELSE S = toDispatch
          /\ Launch(S)
          /\ toDispatch' = toDispatch \ S
          /\ pc' = IF S = toDispatch THEN "wait" ELSE "gate"
    /\ released' = FALSE
    /\ UNCHANGED <<runVars, status, cause, recancelled, paused, overBudget, pauses, cancels>>

AwaitFirst ==
    /\ pc = "sched"
    /\ ToSchedule = {}
    /\ inFlight # {}
    /\ pc' = "wait"
    /\ UNCHANGED <<runVars, status, toDispatch, dispatched, inFlight, cause, recancelled,
                   workerVars, opVars>>

RunDry == pc = "sched" /\ ToSchedule = {} /\ inFlight = {}

\* Engine._make_replan: failed subtasks of the plan that have no repair yet.
Repairable == {i \in subtasks \cap Subtasks : status[i] = "failed" /\ Fix(i) \notin subtasks}

\* The first of them, as many as the cap leaves.
Repair ==
    /\ RunDry
    /\ repairs < MaxRepairs
    /\ Repairable # {}
    /\ \E S \in SUBSET Repairable :
          /\ \A i \in S, j \in Repairable \ S : i < j
          /\ IF Cardinality(Repairable) <= MaxRepairs - repairs
             THEN S = Repairable
             ELSE Cardinality(S) = MaxRepairs - repairs
          /\ subtasks' = subtasks \cup {Fix(i) : i \in S}
          /\ deps' = [j \in Ids |-> IF j - N \in S THEN deps[j - N] ELSE deps[j]]
          /\ repairs' = repairs + Cardinality(S)
    /\ pc' = "top"
    /\ UNCHANGED <<status, toDispatch, dispatched, inFlight, cause, recancelled,
                   workerVars, opVars>>

Return ==
    /\ RunDry
    /\ repairs = MaxRepairs \/ Repairable = {}
    /\ status' = [i \in Ids |->
                    IF i \in subtasks /\ status[i] = "pending" THEN "blocked" ELSE status[i]]
    /\ pc' = "returned"
    /\ UNCHANGED <<runVars, toDispatch, dispatched, inFlight, cause, recancelled,
                   workerVars, opVars>>

Finished(i) == worker[i] \notin Live

\* except (BudgetExceeded, CancelledError): cancel what is in flight, gather it.
StopRun(why, S) ==
    /\ pc' = "gather"
    /\ inFlight' = S
    /\ cancelling' = {i \in S : ~Finished(i)}
    /\ cause' = why
    /\ toDispatch' = {}

\* Among the tasks that ended, one raised BudgetExceeded.
Fatal(done) == \E i \in done : worker[i] = "overbudget"

\* asyncio.wait(FIRST_COMPLETED) returns every task that has ended by then.
Collect ==
    /\ pc = "wait"
    /\ \E done \in {{i \in inFlight : Finished(i)}} :
          /\ done # {}
          /\ IF Fatal(done)
             THEN StopRun("budget", inFlight \ done)
             ELSE /\ inFlight' = inFlight \ done
                  /\ pc' = "top"
                  /\ UNCHANGED <<cancelling, cause, toDispatch>>
    /\ UNCHANGED <<runVars, status, dispatched, recancelled,
                   worker, reviews, transients, free, waiters, opVars>>

\* Mutants of Unsettled: the subtasks still running are forgotten, or the
\* failed ones swept up with the rest.
UnsettledPending == {"pending"}
UnsettledUnsatisfied == RunStatus \ Satisfying

\* _finalize_nonterminal, unless gather itself was cancelled; then only the
\* finally clause runs, which settles the pending subtasks alone.
Unsettled == IF recancelled THEN {"pending"} ELSE {"pending", "running"}

Raise ==
    /\ pc = "gather"
    /\ \A i \in inFlight : Finished(i)
    /\ status' = [i \in Ids |->
                    IF i \in subtasks /\ status[i] \in Unsettled THEN "blocked" ELSE status[i]]
    /\ pc' = "raised"
    /\ cause' = IF recancelled THEN "cancel" ELSE cause
    /\ UNCHANGED <<runVars, toDispatch, dispatched, inFlight, recancelled, workerVars, opVars>>

-----------------------------------------------------------------------------
(* _run_one: one task per dispatched subtask.  A task asked to cancel only  *)
(* takes the step Cancelled.                                                *)

Runs(i, w) == ~LoopHeld /\ worker[i] = w /\ i \notin cancelling

\* Mutant of Leave: the session is not given back.
LeaveLeaking(i, w) ==
    /\ worker' = [worker EXCEPT ![i] = w]
    /\ UNCHANGED free

\* The lease ends: the context manager releases the semaphore.
Leave(i, w) ==
    /\ worker' = [worker EXCEPT ![i] = w]
    /\ free' = free + 1

\* execute() refuses to start over budget: BudgetExceeded leaves the task, and
\* the subtask keeps the status it had.
Attempt(i) ==
    IF overBudget THEN Leave(i, "overbudget")
    ELSE worker' = [worker EXCEPT ![i] = "exec"] /\ UNCHANGED free

Settle(i, outcome) ==
    /\ status' = [status EXCEPT ![i] = outcome]
    /\ Leave(i, "returned")

\* SessionPool.acquire, then _run_one up to its first await.
Acquire ==
    /\ waiters # <<>>
    /\ free > 0
    /\ LET i == Head(waiters) IN
          /\ Runs(i, "queued")
          /\ status' = [status EXCEPT ![i] = "running"]
          /\ worker' = [worker EXCEPT ![i] = IF overBudget THEN "overbudget" ELSE "exec"]
          /\ free' = IF overBudget THEN free ELSE free - 1
    /\ waiters' = Tail(waiters)
    /\ UNCHANGED <<runVars, loopVars, reviews, transients, cancelling, opVars>>

ExecuteReturns(i) ==
    /\ Runs(i, "exec")
    /\ worker' = [worker EXCEPT ![i] = "verify"]
    /\ UNCHANGED <<runVars, status, loopVars, reviews, transients, cancelling, free,
                   waiters, opVars>>

ExecuteTransient(i) ==
    /\ Runs(i, "exec")
    /\ IF transients[i] < TransientRetries
       THEN /\ transients' = [transients EXCEPT ![i] = @ + 1]
            /\ worker' = [worker EXCEPT ![i] = "backoff"]
            /\ UNCHANGED <<status, free>>
       ELSE Settle(i, "failed") /\ UNCHANGED transients
    /\ UNCHANGED <<runVars, loopVars, reviews, cancelling, waiters, opVars>>

BackoffEnds(i) ==
    /\ Runs(i, "backoff")
    /\ Attempt(i)
    /\ UNCHANGED <<runVars, status, loopVars, reviews, transients, cancelling, waiters, opVars>>

\* Any other exception of execute fails the subtask without a retry.
ExecuteErrors(i) ==
    /\ Runs(i, "exec")
    /\ Settle(i, "failed")
    /\ UNCHANGED <<runVars, loopVars, reviews, transients, cancelling, waiters, opVars>>

VerifyPasses(i) ==
    /\ Runs(i, "verify")
    /\ Settle(i, "passed")
    /\ UNCHANGED <<runVars, loopVars, reviews, transients, cancelling, waiters, opVars>>

\* Mutant of VerifyFails: the failed review is not counted.
VerifyFailsUncounted(i) ==
    /\ Runs(i, "verify")
    /\ IF reviews[i] < MaxRetries
       THEN Attempt(i) /\ UNCHANGED status
       ELSE Settle(i, "failed")
    /\ UNCHANGED <<runVars, loopVars, reviews, transients, cancelling, waiters, opVars>>

\* A failed verdict, or an exception of verify, which counts as one.  The last
\* one degrades to a soft success if there is output to build on.
VerifyFails(i) ==
    /\ Runs(i, "verify")
    /\ IF reviews[i] < MaxRetries
       THEN /\ reviews' = [reviews EXCEPT ![i] = @ + 1]
            /\ transients' = [transients EXCEPT ![i] = 0]
            /\ Attempt(i)
            /\ UNCHANGED status
       ELSE /\ \E hasOutput \in BOOLEAN :
                  Settle(i, IF Degrade /\ hasOutput THEN "passed_with_caveats" ELSE "failed")
            /\ UNCHANGED <<reviews, transients>>
    /\ UNCHANGED <<runVars, loopVars, cancelling, waiters, opVars>>

\* CancelledError arrives.  A task still queued never held a session, and its
\* subtask stays pending.
Cancelled(i) ==
    /\ ~LoopHeld
    /\ i \in cancelling
    /\ cancelling' = cancelling \ {i}
    /\ IF worker[i] = "queued"
       THEN /\ worker' = [worker EXCEPT ![i] = "cancelled"]
            /\ \E k \in DOMAIN waiters :
                  /\ waiters[k] = i
                  /\ waiters' = SubSeq(waiters, 1, k - 1) \o SubSeq(waiters, k + 1, Len(waiters))
            /\ UNCHANGED <<status, free>>
       ELSE /\ Leave(i, "cancelled")
            /\ status' = [status EXCEPT ![i] = IF @ = "running" THEN "blocked" ELSE @]
            /\ UNCHANGED waiters
    /\ UNCHANGED <<runVars, loopVars, reviews, transients, opVars>>

Worker(i) ==
    \/ ExecuteReturns(i) \/ ExecuteTransient(i) \/ BackoffEnds(i) \/ ExecuteErrors(i)
    \/ VerifyPasses(i) \/ VerifyFails(i) \/ Cancelled(i)

-----------------------------------------------------------------------------
(* The operator, and what the model calls cost *)

Pause ==
    /\ ~LoopHeld /\ ~Ended
    /\ ~paused
    /\ pauses < MaxPauses
    /\ paused' = TRUE
    /\ pauses' = pauses + 1
    /\ UNCHANGED <<runVars, status, loopVars, workerVars, released, overBudget, cancels>>

Resume ==
    /\ ~LoopHeld /\ ~Ended
    /\ paused
    /\ paused' = FALSE
    /\ released' = (pc = "gate")
    /\ UNCHANGED <<runVars, status, loopVars, workerVars, overBudget, pauses, cancels>>

\* The run's task is cancelled: Scheduler.run stops, or is already stopping
\* and waits for its tasks, which are cancelled again.
Cancel ==
    /\ cancels < MaxCancels
    /\ cancels' = cancels + 1
    /\ \/ /\ pc \in {"gate", "wait"}
          /\ StopRun("cancel", inFlight)
          /\ UNCHANGED recancelled
       \/ /\ pc = "gather" /\ inFlight # {}
          /\ recancelled' = TRUE
          /\ cancelling' = {i \in inFlight : ~Finished(i)}
          /\ UNCHANGED <<pc, inFlight, cause, toDispatch>>
    /\ UNCHANGED <<runVars, status, dispatched, worker, reviews, transients, free, waiters,
                   paused, released, overBudget, pauses>>

\* The cost of the calls made so far passes the cap.
Spend ==
    /\ HasBudget /\ ~overBudget
    /\ ~LoopHeld
    /\ \E i \in Ids : worker[i] \in {"exec", "verify"}
    /\ overBudget' = TRUE
    /\ UNCHANGED <<runVars, status, loopVars, workerVars, paused, released, pauses, cancels>>

Terminated == Ended /\ UNCHANGED vars

Loop ==
    \/ BlockUnreachable \/ Dispatch \/ StopAtGate \/ PassGate \/ AwaitFirst
    \/ Repair \/ Return \/ Collect \/ Raise

Next ==
    \/ Loop
    \/ Acquire
    \/ \E i \in Ids : Worker(i)
    \/ Pause \/ Resume \/ Cancel \/ Spend
    \/ Terminated

Spec == Init /\ [][Next]_vars

\* The event loop runs whatever can run; execute and verify are bounded by
\* settings.subtask_max_seconds and the provider's timeouts, and a backoff by
\* its delay.  Nothing makes the operator resume, pause or cancel.
Fairness ==
    /\ WF_vars(Loop)
    /\ WF_vars(Acquire)
    /\ \A i \in Ids : WF_vars(Worker(i))

LiveSpec == Spec /\ Fairness

-----------------------------------------------------------------------------
(* Safety *)

\* A subtask is handed to a task only once all its dependencies are satisfied,
\* and they stay so: neither a late failure, a cancellation nor a repair takes
\* back what a started subtask builds on (ready(), `dispatched`).
DependenciesFirst ==
    \A i \in subtasks : worker[i] # "none" => \A d \in deps[i] : status[d] \in Satisfying

\* Every path out of a task gives its session back, once: the semaphore and
\* the sessions out add up to the bound (SessionPool.lease).
SessionsAccounted ==
    free + Cardinality(LeasedIds) = MaxConcurrent

\* The semaphore's queue holds each waiting subtask once: one that is ready but
\* still queued is not dispatched again by a later pass of the loop.
QueuedOnce ==
    /\ \A i \in Ids : worker[i] = "queued" <=> \E k \in DOMAIN waiters : waiters[k] = i
    /\ \A j, k \in DOMAIN waiters : waiters[j] = waiters[k] => j = k

\* A run that returns has settled everything, and each subtask it gave up is
\* below one that failed: none is given up for any other reason.
ReturnsClosed ==
    pc = "returned" =>
        \A i \in subtasks :
            /\ status[i] \in Terminal
            /\ status[i] = "blocked" => \E d \in deps[i] : status[d] \in Unmet

\* When Scheduler.run is over, no task of it is left running, whatever way and
\* however often it was stopped.
NoTaskOutlivesRun ==
    Ended => \A i \in Ids : worker[i] \notin Live

\* A run stopped once leaves every subtask settled, also the one whose
\* BudgetExceeded stopped it, which no handler of its own settles.
StopSettles ==
    pc = "raised" /\ ~recancelled => \A i \in subtasks : status[i] \in Terminal

\* A run in which a subtask was refused for its budget, or cancelled, never
\* returns as if it had run to its end, however many others end with it.
StopNotSwallowed ==
    pc = "returned" => \A i \in Ids : worker[i] \notin {"overbudget", "cancelled"}

\* Each repair belongs to a failed subtask of the plan and waits for what that
\* one waited for; the cap counts them all (Engine._make_replan).
RepairsAreOfFailures ==
    /\ Cardinality(subtasks \ Subtasks) = repairs
    /\ \A i \in Subtasks : Fix(i) \in subtasks =>
          status[i] = "failed" /\ deps[Fix(i)] = deps[i]

\* The way a run leaves its subtasks, however it ends: each queued once and each
\* repair accounted for, no task left, nothing given up but for a failure when it
\* returns, everything settled when it is stopped, and a stop never swallowed.
RunSound ==
    /\ QueuedOnce /\ RepairsAreOfFailures
    /\ ReturnsClosed /\ NoTaskOutlivesRun /\ StopSettles /\ StopNotSwallowed

\* No step takes back a settled status: not a late cancellation, not the final
\* sweep, not another pass over the plan.
SettledStays ==
    [][\A i \in subtasks : status[i] \in Terminal => status'[i] = status[i]]_vars

-----------------------------------------------------------------------------
(* The inductive invariant behind the safety properties *)

DepsMet(i) == \A d \in deps[i] : status[d] \in Satisfying

\* What was dispatched, or is about to be, is a subtask of the run with its
\* dependencies satisfied, and nothing is dispatched twice.
DispatchSound ==
    /\ \A i \in Ids : worker[i] # "none" => i \in subtasks \cap dispatched /\ DepsMet(i)
    /\ \A i \in toDispatch : i \in subtasks /\ worker[i] = "none" /\ DepsMet(i)
    /\ pc # "gate" => toDispatch = {}

\* The status of a subtask agrees with where its task stands.
StatusAgrees ==
    \A i \in Ids :
        /\ worker[i] = "queued" \/ i \in toDispatch => status[i] = "pending"
        /\ worker[i] \in Leased => status[i] = "running"

\* Scheduler.run waits for every task that has not ended, and only such a task
\* has a cancellation on its way.
TasksAwaited ==
    /\ \A i \in Ids : worker[i] \in Live => i \in inFlight /\ ~Ended
    /\ \A i \in cancelling : worker[i] \in Live

IInv ==
    /\ TypeOK
    /\ SessionsAccounted
    /\ DispatchSound
    /\ StatusAgrees
    /\ TasksAwaited

\* While the run is on it holds every subtask that ran out of budget among those
\* it waits for, and has cancelled none; once it is being stopped, each task left
\* has its cancellation on the way.
StopsAwaited ==
    /\ cancelling # {} => pc = "gather"
    /\ pc = "returned" => inFlight = {}
    /\ \A i \in Ids :
          /\ worker[i] = "overbudget" => i \in inFlight \/ pc \in {"gather", "raised"}
          /\ worker[i] = "cancelled" => pc \in {"gather", "raised"}
          /\ pc = "gather" /\ worker[i] \in Live => i \in cancelling

\* What became of a dispatched subtask shows in its status: only one that still
\* runs, or ran out of budget, is left running.  A repair not yet added is pending.
OutcomeRecorded ==
    /\ \A i \in dispatched : worker[i] # "none"
    /\ \A i \in Ids \ subtasks : status[i] = "pending"
    /\ \A i \in Ids :
          /\ worker[i] = "returned" => status[i] \in Terminal
          /\ status[i] = "running" => worker[i] \in Leased \cup {"overbudget"}

\* A run that is on gives up nothing but what is below a failure.
BlockedBelowFailure ==
    pc \notin {"gather", "raised"} =>
        \A i \in subtasks : status[i] = "blocked" => \E d \in deps[i] : status[d] \in Unmet

RunInv ==
    /\ IInv
    /\ Subtasks \subseteq subtasks
    /\ QueuedOnce /\ RepairsAreOfFailures
    /\ StopsAwaited /\ OutcomeRecorded /\ BlockedBelowFailure
    /\ ReturnsClosed /\ StopSettles

-----------------------------------------------------------------------------
(* Liveness *)

\* Unless the operator leaves it paused, every run ends; a cancelled one ends even then.
RunEnds == (<>Ended \/ <>[]paused) /\ (cancels > 0 ~> Ended)

-----------------------------------------------------------------------------
\* The scheduler implements DagRun.
Abstract == INSTANCE DagRun WITH
    phase <- IF Ended THEN "over" ELSE IF pc = "gather" THEN "stopping" ELSE "on"

ImplementsDagRun == Abstract!Spec
=============================================================================
