# Formal models of dev-assistant

TLA+ models, model checks and machine-checked proofs of dev-assistant (the Python package
`src/ai_dev_assistant` of this repository): the server's queue of runs, the scheduler of
one run's subtasks and what those do with models, budget, worktrees and tests, the life
of a run over stops, resumes and crashes, the review of its work, the fan-out over
projects, the background ticks, the talk between agents and operators, and the stores
that all of them share.

Paths below are relative to the package; `docs/` is the repository's.

## 1. The system and its parts

A *run* (also "task") is one prompt given to the server. The engine asks a
model for a plan, a DAG of *subtasks*, executes each with an agent, verifies the
result, and leaves the work on a branch `ada/<run id>` of the project, from which
a reviewer accepts subtasks one by one or as a whole.

| part | source | state it keeps | operations |
|---|---|---|---|
| Task queue | `web/server.py` | `app.state.running`, `live`, `concurrency`, `paused` | submit, resume, cancel, delete, promote, reorder, pause, configure, `_pump`, `_start`, `_run_task`, `_sanitize_queue` |
| Run store | `orchestration/run_store.py` | SQLite: `runs`, `queue`, `subtask_states`, `subtask_reviews` | one commit per call; `interrupt_orphans` at startup |
| Engine | `engine.py` | one run: usage, costs, merge commits, repairs | plan, execute, verify, checkpoint, resume, finalize, learn |
| Plans | `agents/orchestrator.py`, `orchestration/task.py`, `web/server.py` | the plan on the screen, in the queue, in the run's row | plan, refine, edit, approve, clean up, validate, resume |
| DAG scheduler | `orchestration/scheduler.py` | `in_flight`, `dispatched`, the status of each subtask | `run`, `_run_one`, `_attempt_loop`, `_execute_with_backoff`, `_finalize_nonterminal` |
| Session pool | `orchestration/session_pool.py` | a semaphore, idle sessions | `lease`, `acquire`, `release`, reaper |
| Run control | `orchestration/run_control.py` | gate, steering notes, attention requests | pause, resume, `ask`, `wait_answer`, `drain_steer` |
| Event broker | `web/server.py`, `orchestration/events.py` | backlog and subscribers per run | publish, join, replay, evict |
| Agents, providers | `llm/`, `agents/`, `tools/registry.py` | the turns of an agent, usage | `run_agent`, retries, delegation, tools |
| Verification | `engine.py`, `verification.py`, `static_checks.py`, `agents/reviewer.py` | an index of the workspace, baselines | tests, static checks, review, the gate over them |
| Subtask worktrees | `vcs.py`, `engine.py` (`execute`) | worktrees, branches, the recorded merge of each subtask | add, merge, remove, under a lock, in threads |
| Review flow | `projects.py`, `vcs.py`, `gc.py`, `web/server.py` | decisions, accepted and rollback commits | accept, reject, rollback, deliver, collect |
| Fan-out | `orchestration/fanout.py`, `web/server.py` | waves of child runs | split, wait, roll up |
| Ticks | `web/server.py`, `maintenance.py`, `orchestration/schedules.py`, `github.py`, `analytics.py` | schedules, last-run marks, the seen-set, fired thresholds | the schedule, maintenance, GitHub and spend ticks |
| Registry | `projects.py`, `workspaces.py` | two JSON files | create, import, archive, delete, policies, workspaces |
| Sandbox | `execution.py`, `tools/registry.py` | process groups by run, the tier bound last, `PYTHONPATH` | start, kill, wait |
| Memory and knowledge | `memory/`, `knowledge/` | rows and vectors, the graph file, the code index | remember, evict, edit, save, distill, index |
| Console stores | `web/users.py`, `web/push.py`, `agents/custom.py`, `config.py`, `notify.py` | users, subscriptions, keys, agents, overrides | edits, sends |
| Backup | `backup.py` | archives of the data directory | create, list, restore |
| Evals | `evals/` | scorecards, the history of scores | the golden suite, replays, A/B comparisons |

### How the parts interact

The server's handlers and every run share one asyncio event loop. A handler
changes the rows of the run store and `app.state`, then calls `_pump`, which takes
runs off the persisted queue while slots are free and starts `_run_task` as an
asyncio task. That builds an `Engine`, whose `run` plans, then awaits
`Scheduler.run`, which starts one asyncio task per ready subtask. Each of
those leases a session from the pool, and alternates `execute` and `verify`, both
callbacks of the engine. `execute` creates a worktree, runs the agent in it, merges
it into the run's branch and removes it, each git operation in a worker thread.
Cancellation enters from outside as `CancelledError` at whatever `await` a coroutine
stands; a spent budget enters as `BudgetExceeded` out of `execute`. Both travel from
the subtask's task to `Scheduler.run`, and from there to `_run_task`, each level with its
own handlers and `finally` clauses. An agent that asks waits on a future of the run's
`RunControl`, which the answer of an operator reaches through the handler for steering
notes. Ticks are loops of the server: they enqueue runs as a handler would, and keep what they
did in files of their own. Review requests, imports, deletions and sends run
in worker threads beside all that, and share JSON files and git repositories with it.

### What is hard about it

- A dispatched subtask is still `pending` until it holds a session; the loop may
  look at it again in between.
- Cancellation reaches every coroutine at a different `await`, and can come twice.
- `app.state.running` is a set that handlers and `finally` clauses update by hand.
- Every call of the run store commits on its own, so a crash falls between two of them.
- A thread started for a cancelled coroutine runs on, without the lock it was
  started under.
- All runs of a project share one repository and its branch names, and all runs of
  a process one environment, one sandbox setting and one registry of processes.
- Subtasks that run side by side read and write one workspace, and share one budget.
- The gate, the queue's pause, the retries and the replan hook all re-enter the
  dispatch loop.
- JSON files are read and written whole, without a lock, and truncated before they
  are filled.
- Ticks do something and record it afterwards.

`PROJECT.json` lists each such hazard at its line, and the properties against it.

### What makes each part correct

- Scheduler: a subtask starts on satisfied dependencies only; a settled status is
  final; every way out of a task returns its session; a stopped run leaves no task
  behind and everything settled; a run ends; nothing starts past the budget or
  through the closed gate.
- Task queue: no run is executed twice at once; no slot is lost, none idles while a
  run waits; an outcome on record stays; every queued run is served.
- Agents: the budget is overspent by a bounded amount; broken work does not pass; a cost is
  attributed to who caused it; everybody ends.
- Worktrees: a subtask works alone in its checkout; git operations on a workspace
  are serial; what a subtask passed for is on the branch, under a commit of
  its own; nothing is left behind.
- Run lifecycle: what was checkpointed is not done again, over any stops and resumes;
  a run on record as completed is completed; a crash strands no run.
- Plans: what a run works on is in order and names agents that exist; a plan in order is
  never refused; a resume goes on with the plan it began with.
- Review flow: the target holds the commits the decisions recorded; a rollback takes away only
  what was its subtask's merge commit; no decided work is collected that the target lacks, but
  for what an accept of another merge commit passed over.
- Attention: an agent hears the first answer to its own request, and no grant that was not
  given; a socket is sent everything once.
- Fan-out, ticks: each piece of work is started once, or once more for a lost state; a
  failed upstream does not hang its dependents; what is due is served.
- Stores: what was asked for is what is kept, as long as nothing overlaps or crashes, and
  what overlaps or crashes loses no more than the model says.

## 2. Modules

| module | what it is |
|---|---|
| `Task` | `orchestration/task.py` as operators: the statuses, `Ready`, one pass of `block_unreachable` |
| `DagRun` | abstract specification: what a run of a plan promises about its subtasks, whatever the scheduling |
| `Scheduler` | `Scheduler.run` and its tasks, the semaphore, the gate and the replan hook; implements `DagRun` |
| `Scheduler_proofs` | theorems about `Scheduler`, and that it implements `DagRun` |
| `AgentLoop` | what subtasks do inside `execute` and `verify`: turns, retries, budget, merges, tests, the gate |
| `TaskQueue` | the queue of `web/server.py` with the durable rows of the run store, shutdown, crash and restart |
| `Worktrees` | `execute` and the subtask worktrees of `vcs.py`: lock, threads, merges, recorded commits |
| `Worktrees_proofs` | theorems about `Worktrees` |
| `RunLifecycle` | `Engine.run` around the scheduler, with the rows and checkpoints of the run store, crash and resume; uses `DagRun` for the scheduler |
| `RunLifecycle_proofs` | theorems about `RunLifecycle` |
| `ReviewFlow` | accept, reject, roll back, deliver and collect, by requests that overlap |
| `ReviewFlow_proofs` | theorems about `ReviewFlow` |
| `Fanout` | a parent run and its child runs, by waves |
| `Fanout_proofs` | theorems about `Fanout` |
| `GithubPoller` | the GitHub tick with its state file |
| `Registry` | `projects.json`, `workspaces.json` and the maintenance tick |
| `Cron` | cron expressions on a calendar, and the search of `next_fire` |
| `Schedules` | the schedule table and its tick |
| `Server` | `TaskQueue` composed with `GithubPoller`, `Registry` and `Schedules` |
| `Server_proofs` | theorems about `Server` and its parts |
| `Attention` | questions, permissions and answers over attempts of a run; broker, Home, `ada attend`, sockets |
| `Attention_proofs` | theorems about `Attention` |
| `Planning` | a plan from the editor to the run and back from its checkpoint |
| `Memory`, `KnowledgeGraph`, `CodeIndex` | the stores of `memory/` and `knowledge/` |
| `Processes`, `Ambient` | child processes of runs, and what runs of one process share |
| `PushStore`, `SpendAlerts`, `Console`, `Backup` | what the console and its notices keep, and the archive of it |
| `Evals` | the golden suite and its history |
| `Host` | the eleven modules from `Planning` to `Evals` composed |
| `Host_proofs` | theorems about `AgentLoop`, and about `Host` and its parts |
| `MCScheduler`, `MCAgentLoop`, `MCTaskQueue`, `MCWorktrees`, `MCRunLifecycle`, `MCReviewFlow`, `MCFanout`, `MCAttention`, `MCServer` | instances for TLC; that of `Server` serves three runs |
| `MCHost` | `Host` for TLC, with one part that moves in a behaviour |

An operator described as *Mutant of X* is `X` with a plausible bug; nothing uses it.
It serves to show that the property named for it in `PROJECT.json` can fail. The proofs are
TLAPS proofs (section 4).

### DagRun, the abstract specification

Subtasks are pending, running, settled or given up; a run is on, being stopped, or over.
Only seven kinds of step exist: start on satisfied dependencies, settle what runs,
give up what depends on a failed or given-up subtask, add a repair, finish,
stop, abandon. There is no loop, task, session, gate or retry. `Scheduler` implements
it (`ImplementsDagRun`, a refinement that TLC checks and `Scheduler_proofs` proves), with `phase` as the only mapped
variable: "over" once `Scheduler.run` ended, "stopping" while it gathers its tasks.

### Scheduler

An action is what one coroutine does between two `await`s, since nothing else runs
meanwhile on the event loop. `pc` is where `Scheduler.run` stands: at the top of
its loop (`"top"`), after `block_unreachable` (`"sched"`), at the gate, in
`asyncio.wait`, or in the `gather` of its exception handler. While it is at
`"top"` or `"sched"` it has the loop to itself (`LoopHeld`), and no other action is
enabled. `worker[i]` is where the asyncio task of subtask `i` stands: queued on the
semaphore, in `execute`, in a backoff, in `verify`, or how it ended. `subtasks`, `deps`
and `status` are those of `TaskRun`; `dispatched`, `inFlight` and `toDispatch` the
local variables of the loop; `free` and `waiters` the semaphore. `cancelling` holds tasks
with a `CancelledError` on its way, because a task that is cancelled runs
again only later, and other tasks may take a step before.

| action | code |
|---|---|
| `BlockUnreachable`, `Dispatch`, `StopAtGate`, `PassGate`, `AwaitFirst`, `Collect` | the loop of `run` |
| `Repair`, `Return` | the replan hook when the run is dry, or the end |
| `Raise` | the exception handler once all tasks are stopped, and `_finalize_nonterminal` |
| `Acquire` | `SessionPool.acquire` and the first attempt |
| `ExecuteReturns`, `ExecuteTransient`, `ExecuteErrors`, `BackoffEnds` | `_execute_with_backoff` |
| `VerifyPasses`, `VerifyFails` | `_attempt_loop` |
| `Cancelled` | a `CancelledError` in `_run_one`, wherever it stands |
| `Pause`, `Resume`, `Cancel`, `Spend` | the operator, the engine's task, the provider's usage |

`block_unreachable` is one pass in dict order, so that what it marks depends on the
order of the plan. `IsBlockPass` allows every outcome some order has.

### TaskQueue

`row` and `queue` are the durable rows; `running`, `handle` (`app.state.tasks`),
`concurrency` and `queuePaused` are `app.state`, lost in a crash. The id of a run comes from the
client, and `Submit` takes any, whatever became of it before: its row says `queued`, its entry is the
last of the queue (`Enqueued`). So several coroutines of one id may be alive, at most one of which a cancel
reaches; `co[t, i]` is where the `i`-th `_run_task` of run `t` stands: created and not yet run,
planning, working, or in its `finally` clause. `reused` remembers the ids submitted while they had a
slot or a coroutine. Of the engine only what reaches the run's row is kept.
`Pump` is `_pump` as a function of the queue and the slots: every handler that calls
it applies it within its own action. `Shutdown` cancels every coroutine and
`Exit` waits for them; `Crash` may come between any two actions, and
`CrashInCancel` between the two commits of one handler. `Boot` is `create_app` and
`_sanitize_queue`.

### Worktrees

`at[i]` is where the execution of subtask `i` stands: waiting for the lock, in a git
operation, preparing the prompt, in the agent, or in review. `threads` are the git
operations that run in worker threads, apart from the coroutine that awaits them:
a cancellation makes a thread an orphan (`awaited = FALSE`) that finishes later
(`OrphanEnds`). A branch is a sequence of commits (`log`), each the set of
changes it brings; a change is a subtask and an attempt of it, so that one can ask
which commit delivers whose work. `dirty` is what lies uncommitted in the workspace and
goes into the next snapshot commit. The effect of an awaited thread is one step with the
return to its coroutine: until then it still holds the lock, and no sibling looks.
Subtasks carry no dependencies here: which run in parallel is `Scheduler`'s matter.

### RunLifecycle

`subtasks`, `deps`, `status` and `phase` are the `TaskRun` in memory; `Run == INSTANCE
DagRun` gives their steps, so that the lifecycle relies on what `Scheduler` is shown to
implement and on nothing else of it. `stage` is where `Engine.run` stands: starting
(planning, or restoring), scheduling, finalizing, closing. `row`, `saved`, `ckpt`
and `resume` are the rows of the run store and the queued payload, `merged` the auto-merge
into the review target; they survive a crash, everything else is lost (`Crash`, `Boot`).

| action | code |
|---|---|
| `Begin`, `PlanReady`, `StartFails` | `_run_task` up to the plan; `_restore_checkpoints` on resume |
| `SchedulerStep`, `Errs`, `BudgetExceeded`, `CancelScheduler` | `Scheduler.run`, by its promise |
| `Verdict` | `verify` with its checkpoint, and the status the scheduler then sets |
| `SchedulerOver`, `AutoMerge`, `FinalizeEnds` | the exception handlers of `Engine.run`, `_finalize_run` |
| `CheckpointNext`, `Close` | the `finally` clause: `_checkpoint_all`, one commit per subtask, and `finish` |
| `ResumeRun`, `Crash`, `Boot` | the operator; the process; `interrupt_orphans` |

The commit of a verdict and the status that follows it are one step: on the event loop
nothing runs between them that reads either, and a crash between them leaves the same
rows as a crash after them. `_checkpoint_all` writes in the order of the plan, which may
list a subtask before its dependencies; here it is any order. SQLite commits are
assumed to succeed while the process lives.

### AgentLoop

Where `Scheduler` takes `execute` and `verify` as two awaits, `AgentLoop` opens them up for
subtasks that run side by side. `at[s]` is the place of subtask `s`: preparing, in a call
of the model, waiting before a retry of it, merging, merged, under review, in its tests.
`spent` is the usage of the provider they share, `cap` the `max_cost_usd` of each agent,
`before` and `cost` how `_cost_delta` attributes spending. A delegation whose call raises is run
again on a provider of its own (engine.py:1093-1103); what it spends there is in `unseen` and in nothing the
code reads. The workspace is, for each subtask, the tests named after the files it changes: none, passing or
failing (`named`), which a merge of its own sets. `since` is what `_file_index` shows each subtask as changed, siblings' merges
included, and `Selected` the tests run for it. Static checks come to any counts, and any of them may time out
or crash and give none (`Counts`); the gate compares counts, check by check.

| action | code |
|---|---|
| `Refuses`, `Cancel` | the budget check at the top of `execute`; the run is stopped |
| `Starts`, `Begins`, `Answers` | `execute` up to the agent, one turn of `run_agent` with its tools and delegations |
| `FailsForNow`, `WaitEnds`, `GivesUp`, `FailsForGood` | `with_retry`, errors that are not retried, the wall-clock cap |
| `Merges`, `MergesNothing`, `Returns` | the merge, `_emit_diff`, `_cost_delta` |
| `Reviewed`, `ReviewFails`, `Judged` | `verify`: reviewer, `gather_signals` with the tests chosen by name and the static checks, `apply_objective_gate` |

The tools of a turn run to their end in the same step: synchronous handlers hold the event
loop. Tests that are named after no changed file are not run, and nothing is claimed of them. The loop inside the Claude SDK is not the repository's and is not modelled; its hook
denies tools past the same cap.

### ReviewFlow

A change is what an attempt of a subtask put on the branch of the run, by a merge commit of its own. `mergeOf`
is the one on record for the subtask, which the next attempt overwrites: by its own (`MergesChange`), by the
head of the branch when it changed nothing, whoever's that is (`MergesNothing`), or by none (`MergeConflicts`). So an accept picks
one change of a subtask that may have several, or a sibling's. `recorded` remembers all that ever was on record for a
subtask; a change that was so for two is `Shared`, one of several of which another was accepted is `PassedOver`. A subtask may be
attempted again whatever came of it: its status is the scheduler's matter.

A request does its git work in a worker thread and commits its decision afterwards; `req[r]`
is where each stands. `log` is the review target, commit by commit, each with the changes it adds
and removes; `onTarget` what it contains; `decision` and `accepted` the rows. In a
checkout the tool owns, the commit of an accept is read by a second git command (`ReadsHead`), and
another request may come between. The run may be resumed and bring `late` changes; `GcReports` and `GcRemoves` are the
two halves of a collection, with any step between. `disturbed` remembers the subtasks on which
requests overlapped or a crash fell, of which the code promises nothing.

### Fanout

`_dependency_waves` is a recursive function (`Done`), so that a cycle of dependencies is found the way the
code finds it. Children of a wave are tasks gathered by the parent; a semaphore bounds them and a first
one may go ahead alone (`stagger`). A child breaks where its engine cannot be built,
is cancelled with the parent, or ends with a status; `GatherRaises` is `gather` without
`return_exceptions`, which leaves the siblings running. The parent's row and the links of
the children are the run store's.

### GithubPoller

One tick of `_github_tick` over one repository and one pull request: `disk` is
`github_seen.json`, loaded when the tick starts, `mem` the copy it works on, saved when it
ends (`TickEnds`); `Cut` is a crash or shutdown at any `await` in between. Comments come in two streams,
read one after the other, with a cursor in whole seconds (`prSeen`). `passedOver` remembers the comments
the cursor may have left behind: of a second it had already reached, or while a stream
failed or was already read, or before a posted result moved it.

### Registry

An operation is a sequence of phases (read, heal, truncate, fill, for either file); the event
loop serves one request at a time, workers and the tick serve theirs beside it. A torn
registry reads as the default project alone and is written back so (`Heals`). `asked` is
what the operations that ended ask the files to hold, if they never overlapped. `fires` counts the
maintenance runs of a project since it was registered: one that is deleted and registered again
has no mark of its last run, and may be run again.

### Cron and Schedules

`Values`, `Matches`, `Skip` and `NextFire` are the cron parser and `next_fire`, on any calendar of hours,
days, weeks and months counted from 0 (`SumTo`, `MonthOf`, `DayOf`); it has no leap years. TLC takes
two-minute hours, two-hour days, a three-day week and months of two lengths, in which every case of the search
(skip a month, a day, an hour; the day of the month or of the week) still occurs.
The tick of `Schedules` reads the due rows in a thread, enqueues a run for each and marks it, in two commits.

### Server

The queue and the three parts above run in one process but share no state: what a tick enqueues is a
`Submit` of the queue, which may come at any time anyway. `ServerNext` is a step of any one of
them. A product of four state spaces shows nothing that they do not show alone, so the runs check
`PollerAlone`, `RegistryAlone` and `SchedulesAlone`, behaviours of the server in which the others rest (the queue has
a run of its own); `AloneIsServer` and `ServerStaysSound` (section 4) are what licenses that.

### Attention

One run over several attempts. `pending` is `RunControl._pending`, `notes` the steering
notes, `loop` the answers on their way to a future by `call_soon_threadsafe`; `Wakes` and `TimesOut`
race for the waiting agent. `events`, `listed`, `broker` and `timers` are the `Broker`, which a
resumed run reuses and a timer of its last attempt evicts. Requests are named by the attempt as well as by the
id the code gives them, because ids start again with every attempt. `view` and `seen` are what
the console and `ada attend` have read.

### Planning

The plan on the screen, the queue's payload, the row, the engine and the checkpoints of one
run id. `Sanitized` is the orchestrator's clean-up, `Accepted` the cap and `TaskRun.validate`.
What Kahn's sort takes off is the least set of subtasks from which nothing more comes off (`NoMore`, `Sorted`).
The scheduler is taken in short: a subtask passes once those
it needs have, and is checkpointed.

### The stores and what surrounds the runs

`Memory`: a row and its vector are written by two commits with the embedding between
them, and evicted, edited and deleted meanwhile. `KnowledgeGraph`: every run loads, asserts
and saves under a file lock, taking in what is on disk; distillation unlinks the file without it.
`CodeIndex`: passes over several working trees bring one database up to date, and
may be cut. `Processes`: the three ways the server starts children, their registration by run, and
the kill of a cancel. `Ambient`: the sandbox the run started last has bound,
`PYTHONPATH` while a tool runs, and the setting an A/B comparison puts into the environment.
`PushStore` and `SpendAlerts`: files rewritten by handlers, threads and a tick.
`Console`: the JSON stores whose handlers run through on the event loop, and the sessions of users. `Backup`:
backups beside the writers of a live server, several at once and under one name if they begin in one second; restores that are cut short. `Evals`: the
golden suite, attempt by attempt with setup, failures (after some of the graders, too), graders and the engines to close, the file of scores it appends to, and the series read from it.

`Host` composes these eleven modules, whose steps come in any order. None reads or writes another's
state, so an interleaving of two shows TLC nothing that each does not show alone: in `MCHost`
`part` chooses the one that moves, and the behaviours checked are those of each. The theorems are
about `Host`, with all of them moving.

## 3. Runs

Bounds are constants of the modules, named `Max...`; they cap what the operator
or the environment does, never what the program does by itself.

| run | instance | what it shows |
|---|---|---|
| `scheduler` | a chain listed from its end and a join of 3 subtasks, 2 sessions, a retry of each kind, a repair, budget, a pause, a cancel | dispatch, retries, repairs and stops are right whatever settles when; the inductive invariant of its proofs; implements `DagRun`; a run ends |
| `agents` | 2 subtasks, each executed twice at most, 2 turns, a retry, budget 2, calls of cost 1, a delegation of cost 1 on either provider, 2 static checks, one of them without a count before the run | overspending is bounded, and what no usage has by what one has; work whose own tests fail never passes; costs cover what was spent of the shared provider; everybody ends |
| `taskqueue` | 2 runs, 1 or 2 slots, a restart, a resume or a submission of a used id, 2 coroutines of an id at once | no second copy of a run within reach, no idle slot, what a cancel reaches has its slot, an entry has its row; but for ids submitted again while alive, no second copy at all, outcomes stay, an entry waits; a queued run is served, a cancelled coroutine ends |
| `worktrees` | 2 subtasks, a cancellation anywhere, a resume, the branch of one held by another run at times | without cancellation isolation, serial git, own commits on the branch, nothing left behind; always: no passed work is dropped, every subtask ends, the lock is free again |
| `lifecycle` | 2 subtasks and a repair, any plan, a crash, 2 resumes, auto-merge on | what is on record as done is not done again, only a crash takes work back, a completed run is recorded so, the row always gets an outcome |
| `review` | 2 subtasks, 2 changes by any attempts, both kinds of checkout, 3 requests of any kind at once, or 2 with a crash and a resume (`Bounded`) | target, recorded commits and collection agree; a rollback takes only what was its subtask's |
| `fanout` | 3 projects, any dependencies, bounds 0 and 2, with and without stagger, an engine that breaks, a cancel | who builds on whom is told and waits; the rollup is true; everything ends |
| `github` | 2 issues, one without a prompt, a comment in each stream, 2 faults | nothing is started twice but for a lost state; every issue and comment is answered |
| `registry` | 2 projects, 2 workspaces, 1 worker, 2 requests, 2 hours, a crash | workspaces stay disjoint and acyclic; what does not overlap is kept; who opts in is served |
| `schedules` | 2 schedules, the expressions of `MCServer`, 3 requests, a crash or failed write | the cron search is right from any time of the year; each due time fires once; what is due is served |
| `attention` | 1 agent, console and `ada attend`, 1 socket, 2 attempts, 2 answers | the right answer to the right request, once; sockets hear all; no agent waits for ever |
| `host` | the eleven parts of `Host` at the bounds of `host.cfg`, one of which moves, a crash | memory, knowledge, processes, notices, stores, plans and the suite keep what they promise |

A property that is a conjunction is named for what its parts say together; each part is a
definition of its own with a comment of its own in the module.

Why the bounds are enough. Three subtasks in a chain and a join have every relation of
dependencies the code distinguishes, and the chain listed from its end makes the single pass of
`block_unreachable` need several; two sessions for three subtasks make a
queue beside parallel work. One retry of a kind is a first and a last attempt. Two runs and one slot make
a queue, two slots parallel runs; an id submitted again gives a copy beside one that closes after a
deletion (a second such submission, which puts a third in the queue, was checked for the safety properties). In `Worktrees` two subtasks give a merge
between another's creation and merge (3 subtasks were checked without a resume, and a retry of each without one). In `RunLifecycle` two
subtasks give a dependency in either order of the plan, and two resumes a session
that restores what an earlier one had itself restored. Three overlapping requests are the
fewest in which one changes the target between two others; two changes are two attempts of one subtask or
one of each. (Three requests with a crash and a resume were
checked over one subtask with two changes, and over two subtasks with one change.) Two attempts of a run
are the first in which ids come again. A second fault of the poller falls on the tick that
repairs the first. The plans of `Planning` are all 512 ways for three subtasks to need
each other, and the odd ones a user or a model may write.
Each property fails in a mutant of the code under the same bounds.

### Disagreements between the code and its documents

The models have what the code does; where a document, comment or docstring says otherwise, the
saying is a definition that no run checks, because it does not hold. Checked as a property under the constants
given, TLC finds it violated.

| definition | said in | what happens | constants |
|---|---|---|---|
| `TaskQueue!StartupLeavesNoOrphan` | docs/ARCHITECTURE.md:87-88 | the removal from the queue is committed before the row says `running` (run_store.py:399-400, server.py:770), a cancel removes the entry before it changes the row (server.py:972-973): a crash in between leaves a row `queued` that nothing starts and resume refuses | 2 runs, `Limits = {1}`, `MaxRequeues = 0`, a restart |
| `TaskQueue!NeverTwice` | server.py:735 | the guard looks at the slots: a deletion frees the slot at once and only asks the coroutine to cancel (server.py:1372-1394), and a client may submit the id again before it has ended (server.py:928) | 1 run, 1 slot, 1 submission again |
| `Worktrees!RecordedMergeIsOwn` | engine.py:1062 | the merge of a branch without commits returns HEAD (vcs.py:177-178), which is recorded as the subtask's commit | `EmptyDiffs = TRUE`, no rivals, cancels, resumes |
| `Worktrees!GitSerial` | engine.py:1228 | cancelling the `await` of a thread inside `git_lock` frees the lock while the thread runs | `worktrees.cfg` |
| `RunLifecycle!PassedIsCheckpointed` | docs/IMPROVEMENTS.md:478 | the checkpoint is written before the verdict changes the status (engine.py:1314, scheduler.py:176-177), and a restore looks at the status only (engine.py:889) | `MergeMode = FALSE`, no crash, no resume |
| `ReviewFlow!RollbackRevertsExactly` | projects.py:495-496 | an attempt that changed nothing has a sibling's commit on record (vcs.py:177-178), which its accept and rollback then move; and in a checkout the commit of an accept is read off HEAD by a second command (vcs.py:434, 441) without a lock (server.py:2215-2216) | 2 requests, `Checkouts = {FALSE}`, 1 change, no crash, no resume |
| `ReviewFlow!AcceptBringsAll` | docs/PLAN.md:214-215 | a second attempt overwrites the merge commit of the first (engine.py:1220), and an accept picks the recorded one (server.py:2199-2216) | 1 subtask, 1 request, `Checkouts = {FALSE}`, 2 changes, no crash, no resume |
| `ReviewFlow!CollectedIsDelivered` | gc.py:16-18 | the same, and the branch with the first attempt is deleted; or delivering a run records its failed subtasks as accepted (server.py:2170-2177), a resume adds their work, and the branch counts as accepted (gc.py:77-86) | 1 subtask, 2 requests, `Checkouts = {FALSE}`, 2 changes, no crash, no resume |
| `Fanout!FailureIsolated` | fanout.py:5-6 | an engine is built outside the `try` (fanout.py:166): `gather` raises and the parent fails while its children run on | 2 projects, `Bounds = {2}`, 1 broken |
| `Registry!FiresOncePerWindow` | maintenance.py:251-252 | `set_policy` writes back what it read before the tick's mark (projects.py:377-381, server.py:2844-2845) | 3 requests, 1 hour, no crash |
| `Attention!OpenRequestsSurface` | docs/FEATURES.md:181-182 | the timer of an earlier attempt evicts the Broker that a resumed run reuses (server.py:717-726, 999-1001), and Home lists nothing; or it shows the earlier attempt's question of the same id (server.py:1257-1262) | `attention.cfg` |
| `GithubPoller!EveryCommentHeard` | docs/FEATURES.md:353 | the cursor passes over comments of the same second, of a stream that failed, or between the two reads | `github.cfg` |
| `AgentLoop!TurnedAwayWhenSpent` | claude_sdk_provider.py:358-359 | an agent's cap is what is left of the budget (engine.py:1200), compared with what the whole run has spent (anthropic_provider.py:59): past half of it agents stop before their first turn | `agents.cfg` |
| `AgentLoop!SoftPassIsOwn` | verification.py:292 | the changed files include those siblings merged meanwhile, so that their tests may carry the override | `agents.cfg` |
| `AgentLoop!SiblingsCannotFail` | engine.py:1285 | the files counted as changed include those siblings merged meanwhile, whose tests are run too | `agents.cfg` |
| `Planning!CheckpointsFit` | engine.py:394-395 | the client's task id is not checked to be new (server.py:928): submitted again with a changed plan, stopped and resumed, it takes over the first plan's checkpoints | `host.cfg` |
| `Memory!NeverDangling` | store.py:261-262 | a deletion between an edit's commit and its vector leaves the vector, which then swallows a new lesson as a duplicate | `host.cfg` |
| `KnowledgeGraph!NoFactLost` | graph.py:311-312 | the unlink of a distillation takes no lock (distill.py:321) | `host.cfg`, no crash |
| `CodeIndex!KnownIsIndexed` | code_index.py:201-202 | two passes over one file, or one cut by the end of its run, leave a row whose windows are missing | `host.cfg` |
| `Processes!NoneOutlivesCancel` | execution.py:281-282 | a cancel during the last tests unregisters their process without killing it (execution.py:372-374) | `host.cfg`, no crash |
| `PushStore!MintedOnce` | push.py:11 | two threads that find no key pair each make one; the browser may hold the one that is overwritten | `host.cfg` |
| `SpendAlerts!NeverTwice` | analytics.py:311-312 | a crash cuts the file that remembers | `host.cfg` |
| `Console!NothingForgotten` | config.py:605 | after a crash cut the overlay, the next save keeps none of the existing keys | `host.cfg` |
| `Backup!NeverOverwritten` | backup.py:102 | two backups of one second, in threads of two requests, both find the name free, and the later one replaces the earlier archive | `host.cfg` |
| `Backup!NoneTorn` | backup.py:7 | JSON files are copied as they stand, while a writer has truncated them | `host.cfg` |
| `Evals!NoSkipState` | ab.py:84 | a missing tool yields a skipped card (harness.py:275-276), which an A/B comparison counts as a failed attempt | `host.cfg` |
| `Ambient!TierIsOwn` | engine.py:383-385 | the sandbox is process-wide: the run started last decides for all | `host.cfg` |
| `Ambient!KnobRestored` | ab.py:10 | two comparisons that overlap restore in the wrong order | `host.cfg` |
| `Ambient!ArmHasValue` | ab.py:157 | an arm whose value is the environment's gets the value the replay pins | `host.cfg` |

Others, which the models reproduce as the code has them and no definition states:

- A second cancellation during the stop ends `gather` before the tasks settled, and the
  final sweep then leaves a running subtask `running` (`Unsettled`; scheduler.py:126
  against 17-18). `StopSettles` excepts it.
- A slot is lost when `Engine(...)` raises, when a run is cancelled before its first step,
  or when a cancel arrives in `engine.aclose()` (`ConstructFails`, `NeverStarts`,
  `CloseCancelled`; web/server.py:775, 802 against 586). `QueuedServed` excepts it.
- Deleting a running run frees its slot while it still executes, so that more runs
  execute than the limit (`Delete`; web/server.py:1380 against config.py:85).
- Runs cancelled by a shutdown pump the queue into the dying process (`Closes` while
  `server = "stopping"`; web/server.py:809 against 1446).
- Two runs of a project with a subtask of the same id compete for one branch name, and
  the second works unisolated (`Rivals`; vcs.py:91, engine.py:1071-1074 against README.md:53).
- A resume erases the recorded merges of subtasks that passed before (`Resume`; engine.py:343,
  867 and run_store.py:223 against docs/PLAN.md:218-219).
- A worktree left by a cancellation between its creation and the `try` (engine.py:1143)
  makes the resumed subtask work unisolated and uncommitted (docs/IMPROVEMENTS.md:48-49).
- The checkpoint of a repair is never restored, as no saved plan holds its id (`Restored`;
  engine.py:878, 942).
- A schedule deleted between the read of the due rows and its mark has its run enqueued, and left
  to the next pump (`MarksStarted`; server.py:2732-2734).
- A subtask's cost includes what its siblings spent meanwhile, and a retry overwrites it
  (`CostDelta`); delegated agents get no cap, and one that is run again on a provider of its own
  spends what neither the budget nor any cost shows (`Answers`, `unseen`; engine.py:1093-1103 against
  docs/DEPLOYMENT.md:221).
- A static problem passes where its check timed out or crashed, or where the count is made up for by problems that
  were repaired (`Counts`, `Regressed`; static_checks.py:109-151 against verification.py:299-301).
- Operators' answers other than a denial are a grant, and one operator note that names a
  request resolves it whatever its kind (`Takes`).
- A torn line of the history takes the line appended after it along (`Appended`), and an engine
  that cannot be built ends the whole suite (`Dies`).

### Deadlock

Deadlock is checked for `Scheduler`, which stutters explicitly once it ended
(`Terminated`), and for `TaskQueue`, where the operator can always do something or the
server is started again. It is not checked elsewhere: a run, a request, a tick or an edit may be
over, and nobody is obliged to begin another; that what was begun ends is a liveness property where
something waits (`RunEnds`, `AllEnd`, `AllSettle`, `RunSettles`, `FanoutEnds`, `WaitsEnd`, `AllStarted`, `DueIsServed`, `OptInServed`).

### Fairness

`Scheduler`: weak fairness of the loop, of `Acquire` and of each task. The event loop
runs what can run, and `execute` and `verify` end by `subtask_max_seconds` and the provider's
timeouts. Acquiring is one action on a FIFO queue, as `asyncio.Semaphore` is, so no
strong fairness is needed. Nothing obliges the operator to resume, cancel or pause,
nor the provider to spend: `RunEnds` excepts a run that stays paused.

`AgentLoop`: weak fairness of each subtask and of the refusal when the budget is spent. Calls,
commands and waits have timeouts.

`TaskQueue`: weak fairness of each coroutine, of the exit of a stopping process and of
a restart (Docker's restart policy, docs/DEPLOYMENT.md). `QueuedServed` excepts a
queue that stays paused and a lost slot, which the code allows (see above).

`Worktrees`: weak fairness of each subtask's execution and of orphaned threads. A git
command and an agent end; `asyncio.Lock` is FIFO, and as attempts are finite weak
fairness suffices.

`RunLifecycle`: weak fairness of the engine as a whole and of a restart. Planning and
finalizing are bounded by timeouts, and the scheduler ends by `RunEnds`. A
retried subtask repeats its `Verdict` without any change, which is a stuttering step:
fairness then takes another one, as the retries of the code are bounded.

`Fanout`: weak fairness of the parent and of each child; a child is a run, and runs end.

`GithubPoller`, `Schedules`, `Registry`: weak fairness of the tick, which the server's loop
calls for ever, and in `Registry` of the threads that serve a request. Faults are bounded, so that a tick gets through at
last; GitHub's comments are not obliged to come.

`Attention`: weak fairness only of the waiting agent's own wake-up or timeout. No operator
is obliged to read or to answer.

The other modules state safety only.

## 4. Proofs

TLC checks the instances above; the theorems here hold for every value of the constants. Each
component has one inductive invariant, which contains or implies the property a run checks,
and each of them was checked by TLC before it was proved. Where a table names a property of a run,
the theorem states that property.

Assumptions on constants stand in the modules that declare them (`ASSUME`), and TLC evaluates each on
the runs. They say that numbers are naturals and sets that must be counted finite, and what else is said below.

### Scheduler

For every number of subtasks, every set of plans, every number of sessions, retries and repairs, and
every setting:

| theorem | statement |
|---|---|
| `InvariantHolds` | `Spec => []IInv`: the inductive invariant of dispatch |
| `TypeCorrect` | `Spec => []TypeOK` |
| `SessionsBalance` | `Spec => []SessionsAccounted`: every way out of a task returns its session, once |
| `DependenciesHold` | `Spec => []DependenciesFirst`: what was dispatched has, and keeps, satisfied dependencies |
| `NoTaskLeft` | `Spec => []NoTaskOutlivesRun`: when the run is over none of its tasks is alive |
| `SettledForGood` | `Spec => SettledStays`: no step changes a settled status |
| `RunInvariantHolds` | `Spec => []RunInv`: the inductive invariant of how a run goes and ends |
| `RunLeavesSound` | `Spec => []RunSound`: nobody queues twice, repairs are of failures, a run that returns is closed, one that is stopped is settled and says so |
| `Refinement` | `Spec => ImplementsDagRun`: the scheduler implements the abstract run |

The only assumption is `SchedulerAssumption`: numbers are naturals, there is at least one
session, and a plan maps subtasks to sets of subtasks (acyclicity is not needed).

The argument. `SessionsAccounted` and `SettledStays` are not inductive alone: that a
session is returned once depends on `worker`, and that a settled subtask is not
started again depends on what the loop believes to be dispatched. `IInv` adds
`DispatchSound` (what was or is about to be dispatched is a subtask of the run with
satisfied dependencies, and no task exists for what still waits at the gate),
`StatusAgrees` (queued tasks are pending, leased ones running) and `TasksAwaited`
(every live task is in `inFlight`, and none lives after the end). Each conjunct has a
lemma of its own (`SessionsStep`, `TasksAwaitedStep`, ...), each over the actions that can
disturb it; `AsideKeepsTasks` and `NextCases` set the others aside at once.
`SettledStep`, that no step changes a settled status, is what keeps
`DepsMet` once it holds, and with it `DispatchSound`.

How a run ends needs more. That a stopped run has settled everything follows from what its tasks
left when they ended (`OutcomeRecorded`) and from who is still to be cancelled (`StopsAwaited`); that a
run which returns is closed, from the reason each blocked subtask had (`BlockedBelowFailure`), since
`block_unreachable` stops at the first pass that changes nothing. The queue of the semaphore is a
sequence, and `QueuedOnce` is kept by the lemmas on sequences without an element, with one more, or cut
(`HoldsWithout`, `HoldsConcat`, `HoldsCut`). With `RunInv` each action maps to a step of `DagRun` or to a stutter
(`AbstractStep`): `Acquire` to a start, a verdict or an error to a settling, a pass of
`block_unreachable` to giving up what a failure blocks, `Raise` to the abandoning.

### AgentLoop (in `Host_proofs`)

For every finite set of subtasks, every budget, cost of a call and of a
delegation, number of turns, retries and executions:

| theorem | statement |
|---|---|
| `TypeCorrect` | `Spec => []TypeOK`: with it, no call, agent or subtask is tried more often than its setting allows |
| `SpendingBounded` | `Spec => []SpendBounded`: the shared usage passes the budget by a turn with its delegations and a review of each subtask, at most; what delegations spend on providers of their own is at most a multiple of that usage |
| `BrokenNeverPasses` | `Spec => []NothingBrokenPasses`: what passes has not broken the tests named after the files it changed |
| `CostsCovered` | `Spec => CostCoversOwn`: the cost attributed to a subtask covers what its last execution spent of the shared provider |

The assumption is `AgentLoopAssumption`: the subtasks are finite, the numbers naturals, the
budget, the cost of a call, the turns and the tries positive.

The argument. `SpendBounded` says nothing of where the subtasks are, and is not inductive. `Overdraft`
is: what is spent, and a turn and a review for each subtask that is in a turn, and a review for each that
waits for one, is together within the bound. While the budget is not passed there is room for
everybody (`WithinBudget`); once it is, the top of the tool loop and the check in `execute` let no
subtask take up a turn it did not have (`Top`), so that each step pays from its own share (`Turned`,
`Paid`) or leaves it (`Leaving`). The sums are products of cardinalities, for which `Products` and `Sizes`
stand. Each delegation belongs to a turn that is paid (`UnseenStep`). `NothingBrokenPasses` needs that a subtask's own merge stays known to it until its
verdict, whatever siblings merge (`Known`), and `CostCoversOwn` that
the shared usage grows by no less than the subtask's own calls (`OwnPaid`).

### TaskQueue (in `Server_proofs`)

For every set of runs, every limit, every number of restarts, resumes and submissions:

| theorem | statement |
|---|---|
| `InvariantHolds` | `Spec => []IInv`: the inductive invariant |
| `QueueAgrees` | `Spec => []QueueInv`: the types; an entry of the queue is there once and has a row; what a cancel reaches has its slot; no slot idles while a run waits; but for ids submitted again while they lived, an entry waits and what is alive is within reach or deleted |
| `ExecutedOnce` | `Spec => RunsOnce`: no second copy of a run within reach, whatever is submitted; but for ids submitted again while they lived, no second copy and no outcome rewritten |

The assumption is `TaskQueueAssumption`: the limits are positive, the bounds naturals. The runs need not be
finitely many. At most `MaxAlive` coroutines of an id, any number, are alive at once.

The argument. `QueueInv` does not say what the row of a live run says, on which `RunsOnce` depends, nor that a
deleted run's coroutine was asked to cancel. `IInv` adds both (`RunFits`, for the ids not submitted again
while they lived), and that nothing runs in
a process that is gone (`DownIdle`). `Fits` is stated of any queue, rows, slots, coroutines and handles, because
every handler hands `_pump` a state of its own making: `PumpFits` shows once that `_pump` keeps what fits and
leaves no idle slot, and each handler is left to show that what it hands over fits (`SubmitPumps` to `BootPumps`,
collected in `Pumped`). The other steps are `Quiet`, but for those that take the process down. `Kept`, the rows a
`DELETE` leaves in their order, is defined by rank, so that
what it returns follows by counting (`Ranks`, `KeptSound`) and needs no induction; that new
positions of the same entries are each there once is counted too (`ReorderQuiet`).

### RunLifecycle

For every set of plans, any number of subtasks and repairs, of resumes and of crashes:

| theorem | statement |
|---|---|
| `LifeInvariantHolds` | `Spec => []LifeInv`: the inductive invariant |
| `RecordHolds` | `Spec => []RecordSound`: a session builds on satisfied dependencies; no row is left running by a process that is up and idle; a run completed without a crash has each subtask on record as passed |
| `DoneForGood` | `Spec => DoneStaysDone`: only a crash takes back what was done, and a resumed session does not do it again |

The assumption is `RunLifecycleAssumption`: plans map subtasks to sets of subtasks, the bounds are naturals.

The argument. A property of the record needs to know what is written already. `Written` says it of each moment:
outside the `finally` clause nothing is left to write, within it what is not yet written is
in `unsaved`, and between two sessions each status is on record. With `RowKept` (the row keeps up with the
stage, and a first session starts from nothing) and `DoneKept` (a resumed session holds as done what is on record
as done) this carries from one session to the next. The scheduler enters by its promise alone: `DagStep` shows
once what any step of `DagRun` leaves (`DagSafe`), and the lemmas of the lifecycle use no more
of it, so that `Refinement` above is what connects the two.

### Worktrees

For every set of subtasks and rivals, any number of retries, cancellations and resumes:

| theorem | statement |
|---|---|
| `WorkInvariantHolds` | `Spec => []WorkInv`: the inductive invariant |
| `WorkStaysSeparate` | `Spec => []WorkSeparate`: no passed work is dropped; if every execution changes something, a recorded merge is its own; without a cancellation each subtask has its checkout, git runs one at a time, what passed is on the branch, nothing is left behind |

The assumption is `WorktreesAssumption`, of which finiteness is not used.

The argument. The lock is held by the one subtask that waits for a thread (`LockHeld`), a thread that is awaited
is awaited where its subtask stands (`AwaitedThere`), and what an abandoned thread is about to
remove keeps another worktree from being added under the same name (`OwnTree`): this is what still
holds after a cancellation has freed the lock under a running thread. `KeptSomewhere` follows a change from
the agent that made it to the branch, the workspace, or the merge about to happen. `Undisturbed` is what holds in
addition until somebody cancels. The branch only grows (`SnapshotFacts`, `LogGrows`).

### ReviewFlow

For every set of subtasks and requests, both kinds of checkout, any number of changes, resumes and crashes:

| theorem | statement |
|---|---|
| `ReviewInvariantHolds` | `Spec => []ReviewInv`: the inductive invariant |
| `ReviewStaysSound` | `Spec => []ReviewSound`: target and recorded commits agree between the steps of the requests, but for disturbed subtasks and shared changes; a collected branch held nothing decided that the target's history lacks, but what an accept of another merge commit passed over |
| `RollbacksTakeOwn` | `Spec => RollbackTakesOwn`: what leaves the target leaves it by the rollback of a subtask whose merge commit it was, or of a disturbed one |

The assumption is `ReviewAssumption`, of which only `Checkouts \subseteq BOOLEAN` is used.

The argument. Requests that overlap on a subtask make it `disturbed` (`Apart`), and so does, in a checkout, any overlap,
because HEAD is read by a second command. So the commit an undisturbed accept records, or an undisturbed rollback
reverts, brings what was that subtask's merge commit and nothing else (`CommitsOwn`), and whatever is on the branch, the
target or in its history was made and recorded first (`Known`). A subtask speaks for its `Mine` changes, which
no other ever had on record. `AgreedOf` says of each undisturbed subtask that target and decision
agree, or that one request has moved the target and is about to record so; `Landed`
that what was merged, picked, or recorded as accepted is in the history or was passed over; `GoneDecided` that when a branch is gone, or a
collector holds the report to remove it, everything was decided, and stays so whatever comes between report and removal.
Each action has a lemma; those that commit share `GitStep` and `AgreedGit`, those that record `RecordStep`, those that
only move a request on `MoveStep`, the attempts `AttemptStep`, those that touch no request `IdleStep`; `OwnStays` and
`CommitsStay` carry the facts about commits over a growing log.

### Fanout

For every finite set of projects, all dependencies between them, every bound, and any number of broken engines and
cancellations:

| theorem | statement |
|---|---|
| `FanInvariantHolds` | `Spec => []FanInv`: the inductive invariant |
| `FanoutStaysSound` | `Spec => []FanoutSound`: who builds on whom was told what it came to; the parent's row says what its children came to |
| `ResultsStay` | a result, once there, is not changed |

The assumption is `FanoutAssumption`: the projects are a finite set of integers, not empty.

The argument. `Told` and `WavesOver` say which waves are over and what their children heard, `Validated` that no child exists of a
cycle, `ResultsOwn` that a result is that of a child which returned. They speak of `Done`, the recursive function
that `_dependency_waves` is; the prover unfolds it only after a proof that it has a solution (`DoneDef`), which
needs induction over the number of waves. The library's induction theorems take a predicate, which is out of reach;
`NatSetInduction` states the principle for sets of naturals, and is proved from the well-foundedness of `<`.

### Attention

For any number of agents, clients, sockets, attempts, requests and answers:

| theorem | statement |
|---|---|
| `AskInvariantHolds` | `Spec => []AskInv`: the inductive invariant |
| `AgentsHearRight` | `Spec => []HeardRight`: what an agent hears is the first answer its own request took, worded as sent, and a grant only what was allowed |
| `EveryoneToldRight` | `Spec => []ToldRight`: an answer is heard or becomes a note, never both, never twice; a socket is sent all events of its Broker in order |

The assumptions are `AttentionAssumption` (operators type "allow", "deny" or something else; the agents are finitely many)
and `NoneAssumption`, that the value for no answer is not an answer.

The argument. Answers are numbered as they are sent. The callbacks on their way to the event loop run in that order
(`InOrder`), and all that an open request took is still on its way (`FirstAnswers`), so that the
first to arrive is the first taken, whatever arrives after it. `WaitsApart` keeps the requests of different agents apart,
`NotesApart` the answers taken by requests from those queued as notes, `TakenRight` what was read on a screen from what it is
taken for, and `SocketsFollow` that no socket follows a Broker that is still to come when Brokers are evicted and reused.

### The server (`Server_proofs`)

For every set of issues, comments, projects, workspaces, workers and schedules, every calendar and every
expression on it, any number of operations, faults and crashes, and with the steps of all parts in any order:

| theorem | statement |
|---|---|
| `PollInvariantHolds` | `ServerSpec => []PollInv`: the inductive invariant of the poller |
| `PollerStaysSound` | `ServerSpec => []PollerSound`: an issue is started and a comment answered once, and once more for each time the state was lost |
| `RegInvariantHolds` | `ServerSpec => []RegInv`: the inductive invariant of the registry |
| `WorkspacesStaySound` | `ServerSpec => []WorkspacesSound`: workspaces are disjoint, and their dependencies can be ordered |
| `RegistryStaysKept` | `ServerSpec => []RegistryKept`: what did not overlap and was not cut is kept, and maintenance comes once in its window |
| `SchedInvariantHolds` | `ServerSpec => []SchedInv`: the inductive invariant of the schedules |
| `SchedulesStaySound` | `ServerSpec => []SchedulesSound`: each due time fires once, and once more for each crash or failed write |
| `NextFireStaysFirst` | `ServerSpec => []NextFireIsFirst`: the search finds the first minute that matches |
| `AloneIsServer` | `PollerAlone \/ RegistryAlone \/ SchedulesAlone => ServerSpec`: what the runs check are behaviours of the server |
| `ServerStaysSound` | `ServerSpec => []ServerSound`: queue, poller, registry and schedules together |

The assumptions are `TaskQueueAssumption`, `CronAssumption` (units of the calendar are positive, there is a month) and
`ServerAssumption` (those of the parts: finite sets of issues and schedules, positive intervals, streams that are one of the two;
the cron expressions in use are among those given).

The poller. A count of runs says nothing until one knows what the tick that is under way has already done and not
yet saved. `TickAhead` says that its copy holds all that is on disk and that what it has still to look at is new to it;
`OncePerLoss` counts for each issue and comment one run if it is remembered, in the copy or on disk, and one for each fault.

The registry. That workspaces are disjoint holds whatever overlaps, because each write is a whole list that was
checked (`GroupsSound`); that dependencies can be ordered is stated of every set of members, since edges are only
taken away where members are (`RegStands`). What was asked for is kept only while nothing overlaps:
`Undisturbed` says of that time that one operation is under way at most (`OneAtATime`), that what it holds is what
the files say (`HasRead`), and that a project whose maintenance fired in this window is marked, or about to be (`FiredMarked`).

The schedules. A row that fires twice would be enqueued, not marked, and read as due again. `SnapshotOnce` and
`NotYet` say that what the tick still has to enqueue is there once and was not enqueued; `Marked` that what it passed is
marked or was lost to a mishap; `AtMostOnce` counts. `WaitsCounted` says which runs may be left to a later pump: those whose start was not recorded.

The search. `NextFire` is a recursive function over times, whose solution must first be shown to exist (`SearchExists`). On
any calendar the months cover the year and do not overlap (`SumsExist`, `MonthExists`, `MonthUnique`), a skip goes
forward (`SkipAhead`), and no minute it passes matches, because the field that failed is the same all the way
(`SkippedNone`). So the search stops at the first match or past the year (`SearchFinds`), by induction on
what is left of the year.

### The host (`Host_proofs`)

For every instance of the eleven parts, with their steps in any order:

| theorem | statement |
|---|---|
| `MemoryStaysSound` | `HostSpec => []MemorySound`: rows and vectors agree but where calls met on a row or an embedding failed; lessons differ but for those written beside one another, edited or not embedded; the cap holds; a lesson is dropped as a duplicate of nothing only after calls met |
| `KnowledgeStaysSound` | `HostSpec => []KnowledgeSound`: what was saved to the graph stays, but where a distillation or a crash met a save; what was distilled away comes back only with a run that holds or asserts it; the rows of the code index tell which windows are there, but where passes met or were cut |
| `ProcessesStaySound` | `HostSpec => []ProcessesSound`: every child has a caller that waits for it but for those gone astray, until a crash only the tests of a run's end when a cancel hits them; no cancel kills a process already reaped; until a crash a project has one app; a run that is alone has its own sandbox tier, a tool its own package path, and comparisons that do not overlap restore the setting |
| `NoticesStaySound` | `HostSpec => []NoticesSound`: subscriptions and key survive what does not meet, a threshold is told once a month |
| `StoresStaySound` | `HostSpec => []StoresSound`: the console's stores hold what they were told, archives are complete, restores delete nothing |
| `PlansStaySound` | `HostSpec => []PlansSound`: exactly the plans in order are accepted, no run is stuck on its plan, a resume goes on with the plan it began with |
| `EvalsStaySound` | `HostSpec => []EvalsSound`: the report is complete, green means passed, engines are closed, the history holds what was recorded, the series has each commit's latest |

The assumptions are in `Host`, one for each part that needs one, with the reason: a memory that is capped keeps something, the
indexer saves to the graph and the distiller is somebody else, a JSON store is not a database, plans are lists and the
default agent is built in, tasks of the suite have a part.

A step of the host is a step of one part and leaves the others alone (`HostSteps`); each part has an invariant that
holds at first, is kept by its steps, and gives the property. What each needs beyond the property:

- `MemoryInv`: what a call is about to embed is what the row says (`EmbedsWritten`, `RowRecalled`, `RowFound`), until calls meet on
  the row; lessons nobody doubts differ from each other and from those about to be written (`LessonsDiffer`).
- `GraphInv`: who has the file between its truncation and its end (`FileLocked`), and where each fact that is owed to the file
  is until it is there: with the one that writes, or with the distillation (`OwedHeld`, `IndexedOwed`). `IndexInv`: what a pass
  holds is of its own tree and no older than its stamp (`PassesRead`), and where no passes met, one at most writes the windows
  of a file, and its row tells which there are (`FileTold`).
- `ProcessesInv`: the run whose tool's command is waited for holds the event loop (`ToolHoldsLoop`), and until a crash the server
  knows the app that is up (`AppKnown`). `AmbientInv`: nothing was configured since a run that is alone started (`AloneConfigured`), the
  path is that of the tool at work (`PathOfTool`), and without overlap the knob is that of the one comparison (`KnobsApart`).
- `PushInv`: until rewrites meet there is one at a time, which writes what is to be on file (`OneRewrite`); a key is on file before
  anybody has it (`OneKey`). `AlertsInv`: what was told is noted and not to be told again (`ToldOnce`), and what the file counts as
  told was told, is about to be, or was missed (`FiredTold`).
- `ConsoleInv`: a save adds one change to a store that holds what was asked (`StoresKept`), the settings in force are those on file
  (`OverlayLive`), users have the tokens they asked for, each given out once (`TokensAsked`, `TokensFresh`).
- `BackupInv`: a backup is under way only while the server is up, a restore only while it is down (`OneOfThem`); a backup has
  what it owes for the files it copied and can still get it for those left (`StagingComplete`), and a restore has put back what
  is not left (`Extracted`).
- `PlansInv`: what is stored was cleaned up (`StoredCleaned`), an id that was submitted once has one plan from the queue to the checkpoints
  (`SubmittedOnce`, `SameWork`, `PassedOfPlan`). That the checks accept just the plans in order (`AcceptedInOrder`) is the correctness of Kahn's
  sort: what comes off can be numbered, by the largest part that can, and what can be numbered comes off, by the least number that does not.
- `EvalsInv`: the cards there are of each task are those due so far (`Counted`), and each says the truth (`TrueCards`).
  `HistoryInv`: only the last line of the file can be cut and not ended. The series is a recursive function over the entries;
  after k of them it lists, in order, the places that are the latest of their commit among the first k (`SeriesAt`), and one
  entry more takes its commit's place out and puts its own at the end (`SeriesGoesOn`). `Kept`, the members of a list at some
  places in their order, is defined by rank, and what it returns follows by counting (`RanksOf`, `KeptPlaces`, `KeptMore`).

Induction over numbers, where a proof needs it (`SeriesThere`, `TableThere`, `SearchFinds`), is of a set of numbers
instead of a predicate (`AllNumbers`), and follows from the well-foundedness of `<`.

### What is only model-checked

Liveness and everything under fairness: `RunEnds`, `Progress`, `AllEnd`, `RunSettles`, `FanoutEnds`, `WaitsEnd`, `AllSettle`,
`AllStarted`, `OptInServed` and `DueIsServed`. Their proofs need ENABLED, which the prover does not reason about. Every safety
property that a run checks is proved; what the tables leave out is parts of those they name.

## 5. Not modelled, and why

- Texts: prompts, playbooks, documents, diffs, logs, events other than those that
  carry a request or the end of a run. No state of the program depends on them but by a model's answer,
  which is nondeterministic here.
- Whether a verdict, a score or an embedding is right: numeric or a model's judgement.
- The loop inside the Claude SDK, the wire formats of the providers, record and replay of calls.
- In `Worktrees`: a crash of the process; git commands that fail for reasons
  of the file system; the partial effect of a thread that another disturbs.
- In `RunLifecycle`: learning, documents and the knowledge graph; a commit that fails while
  the process lives.
- In `TaskQueue`: parents of a fan-out, which take slots with a body of their own (`Fanout` has the body).
- In `GithubPoller`: several repositories; HTTP, pages and tokens. In `Schedules`: time zones and the
  clock being set back. In `Attention`: sockets of a run whose Broker is gone, which replay a file.
- In `ReviewFlow`: picks of a commit that is no change of the run (the base of the branch, or a snapshot of a dirty
  workspace, as the recorded HEAD); the statuses of subtasks.
- In `Planning`: a commit of the run store that fails, which the engine swallows (engine.py:440-443).
- In `Processes`: working directories. In `Evals`: the limit of the series to its latest commits, graders by themselves.
- Idle sessions and the reaper of the pool; resource limits and the arguments of sandboxes;
  schema migrations; search, charts and other read-only reports.
- The web console and the editor extension: clients of the HTTP API, whose calls are the
  operator's actions here.

## 6. Plan

Done: the modules of section 2, and the proofs of every safety property. What would come next:

1. `TaskQueue` with parents of fan-outs, over `Fanout`'s promise.
2. Crashes of the process in `Worktrees`, with the branches and directories the next start finds.
3. The budget cap of an agent as the providers compare it (`TurnedAwayWhenSpent`), once the code states which of the
   two readings is meant.
