----------------------------- MODULE TaskQueue -----------------------------
(***************************************************************************)
(* web/server.py: the server's task queue.  Runs are submitted, wait in    *)
(* the queue, are started by _pump while slots are free, and are cancelled,*)
(* deleted, resumed, and carried over a restart of the server.             *)
(*                                                                         *)
(* The id of a run comes from the client.  One that is queued, running,    *)
(* over or deleted may be submitted again, so that several coroutines of   *)
(* one id may be alive; app.state.tasks has the newest at most.            *)
(*                                                                         *)
(* The rows of runs.db (run_store.py) are durable; app.state is not.  The  *)
(* handlers and the run coroutines share one event loop, so an action is   *)
(* one handler, or what _run_task does between two awaits.  Of an Engine   *)
(* only what reaches the row of the run is kept: whether there is a plan   *)
(* to run or to resume is left open (RunLifecycle has it).                 *)
(***************************************************************************)
EXTENDS Integers, Sequences, FiniteSets

CONSTANTS
    Tasks,              \* ids of runs
    Concurrency,        \* settings.max_concurrent_runs, at least 1
    Limits,             \* what the operator may set the concurrency to
    MaxRestarts,        \* bound: how often the server goes down
    MaxRequeues,        \* bound: how often an id is queued again, by a resume or a
                        \* submission
    MaxAlive            \* bound: how many coroutines of one id are alive at once

ASSUME TaskQueueAssumption ==
    /\ Concurrency \in Nat \ {0}
    /\ Limits \subseteq Nat \ {0}
    /\ {MaxRestarts, MaxRequeues} \subseteq Nat
    /\ MaxAlive \in Nat \ {0}

Copies == 1..MaxAlive
Coros  == Tasks \X Copies       \* the coroutines _run_task that may be alive

VARIABLES
    row,         \* runs.status; a run has no row before its submission and
                 \* none after its deletion
    queue,       \* the queue table, by position
    server,      \* is the process serving, shutting down, or gone
    running,     \* app.state.running
    co,          \* where each coroutine stands
    handle,      \* app.state.tasks: a coroutine of the id, alive or done, or 0
    cancelReq,   \* coroutines asked to cancel that have not run since
    doomed,      \* coroutines the shutdown waits for
    concurrency, \* app.state.concurrency
    queuePaused, \* app.state.paused
    restarts, requeues,
    reused       \* history: ids submitted, since the server started, while they had
                 \* a slot or a coroutine

durableVars == <<row, queue>>
knobs       == <<concurrency, queuePaused>>
counters    == <<restarts, requeues>>
vars        == <<durableVars, server, running, co, handle, cancelReq, doomed, knobs,
                 counters, reused>>

NoRow     == {"absent", "deleted"}
Outcomes  == {"completed", "partial", "failed", "over_budget"}
Resumable == {"interrupted", "failed", "over_budget", "cancelled", "partial"}
TerminalRow == Outcomes \cup {"cancelled", "interrupted"}

Live(t) == \E i \in Copies : co[t, i] # "none"

\* app.state.tasks has a coroutine of the run, and it is not done
Held(t) == handle[t] # 0 /\ co[t, handle[t]] # "none"

TypeOK ==
    /\ row \in [Tasks -> NoRow \cup TerminalRow \cup {"queued", "running"}]
    /\ queue \in Seq(Tasks)
    /\ {running, reused} \subseteq SUBSET Tasks
    /\ {cancelReq, doomed} \subseteq SUBSET Coros
    /\ server \in {"up", "stopping", "down"}
    /\ co \in [Coros -> {"none", "created", "planning", "working", "closing"}]
    /\ handle \in [Tasks -> Copies \cup {0}]
    /\ concurrency \in Limits \cup {Concurrency}
    /\ queuePaused \in BOOLEAN
    /\ restarts \in 0..MaxRestarts
    /\ requeues \in 0..MaxRequeues

Init ==
    /\ row = [t \in Tasks |-> "absent"]
    /\ queue = <<>>
    /\ server = "up"
    /\ running = {}
    /\ co = [x \in Coros |-> "none"]
    /\ handle = [t \in Tasks |-> 0]
    /\ cancelReq = {} /\ doomed = {}
    /\ concurrency = Concurrency
    /\ queuePaused = FALSE
    /\ restarts = 0 /\ requeues = 0
    /\ reused = {}

-----------------------------------------------------------------------------
(* _pump and _start *)

Queued == {queue[k] : k \in DOMAIN queue}

\* The entries at the positions `keep`, in their order.
Rank(keep, k) == Cardinality({j \in keep : j <= k})
Kept(keep) ==
    [n \in 1..Cardinality(keep) |-> queue[CHOOSE k \in keep : Rank(keep, k) = n]]

Without(t) == Kept({k \in DOMAIN queue : queue[k] # t})

\* enqueue: the entry of an id goes to the end, also that of one that has an entry.
Enqueued(t) == Append(Without(t), t)

\* Mutant of Startable: without the guard against a second copy.
StartableTwice(q, active, n) == {q[k] : k \in 1..n}

\* What the first n entries of q start: an entry already running is dropped.
Startable(q, active, n) == {q[k] : k \in 1..n} \ active

\* _pump leaves its loop once it has taken n entries.
PumpStops(q, active, n) ==
    \/ queuePaused'
    \/ Cardinality(active \cup Startable(q, active, n)) >= concurrency'
    \/ n = Len(q)

\* The coroutine that a start of the run creates.
Fresh(t, coNow) == CHOOSE i \in Copies : coNow[t, i] = "none"

\* _pump on the queue q, with `active` as app.state.running, coNow as the coroutines and
\* tasks as app.state.tasks: entries are taken from the front until the slots are full,
\* the queue empty or it is paused.
Pump(q, active, coNow, tasks) ==
    \E n \in 0..Len(q) :
        /\ PumpStops(q, active, n)
        /\ \A m \in 0..(n - 1) : ~PumpStops(q, active, m)
        /\ queue' = SubSeq(q, n + 1, Len(q))
        /\ running' = active \cup Startable(q, active, n)
        /\ co' = [x \in Coros |->
                    IF x[1] \in Startable(q, active, n) /\ x[2] = Fresh(x[1], coNow)
                    THEN "created" ELSE coNow[x]]
        /\ handle' = [t \in Tasks |->
                    IF t \in Startable(q, active, n) THEN Fresh(t, coNow) ELSE tasks[t]]

-----------------------------------------------------------------------------
(* The handlers *)

\* A coroutine of the run can be created (MaxAlive).
CanStart(t) == \E i \in Copies : co[t, i] = "none"

Requeue ==
    /\ requeues < MaxRequeues
    /\ requeues' = requeues + 1

\* POST /api/run with an id that the client may have used before: whatever became of it,
\* its row says "queued" from now on and its entry is the last.
Submit(t) ==
    /\ server = "up"
    /\ CanStart(t)
    /\ IF row[t] = "absent" THEN UNCHANGED requeues ELSE Requeue
    /\ row' = [row EXCEPT ![t] = "queued"]
    /\ reused' = IF t \in running \/ Live(t) THEN reused \cup {t} ELSE reused
    /\ UNCHANGED knobs
    /\ Pump(Enqueued(t), running, co, handle)
    /\ UNCHANGED <<server, cancelReq, doomed, restarts>>

\* Mutant of ResumeTask: only the row is asked whether the run is over.
ResumeTaskEarly(t) ==
    /\ server = "up"
    /\ CanStart(t)
    /\ row[t] \in Resumable
    /\ Requeue
    /\ row' = [row EXCEPT ![t] = "queued"]
    /\ UNCHANGED knobs
    /\ Pump(Enqueued(t), running, co, handle)
    /\ UNCHANGED <<server, cancelReq, doomed, restarts, reused>>

\* POST /api/tasks/{id}/resume
ResumeTask(t) ==
    /\ server = "up"
    /\ CanStart(t)
    /\ t \notin running
    /\ row[t] \in Resumable
    /\ Requeue
    /\ row' = [row EXCEPT ![t] = "queued"]
    /\ UNCHANGED knobs
    /\ Pump(Enqueued(t), running, co, handle)
    /\ UNCHANGED <<server, cancelReq, doomed, restarts, reused>>

\* POST /api/run/{id}/cancel of a run whose coroutine the server has
CancelRunning(t) ==
    /\ server = "up"
    /\ Held(t)
    /\ cancelReq' = cancelReq \cup {<<t, handle[t]>>}
    /\ UNCHANGED <<durableVars, server, running, co, handle, doomed, knobs, counters, reused>>

\* the same of a run that waits in the queue
CancelQueued(t) ==
    /\ server = "up"
    /\ ~Held(t)
    /\ t \in Queued
    /\ queue' = Without(t)
    /\ row' = [row EXCEPT ![t] = "cancelled"]
    /\ UNCHANGED <<server, running, co, handle, cancelReq, doomed, knobs, counters, reused>>

\* DELETE /api/tasks/{id}: slot, handle and row go at once, the coroutine is only asked
\* to cancel.
Delete(t) ==
    /\ server = "up"
    /\ row[t] \notin NoRow
    /\ row' = [row EXCEPT ![t] = "deleted"]
    /\ cancelReq' = IF Held(t) THEN cancelReq \cup {<<t, handle[t]>>} ELSE cancelReq
    /\ UNCHANGED knobs
    /\ Pump(Without(t), running \ {t}, co, [handle EXCEPT ![t] = 0])
    /\ UNCHANGED <<server, doomed, counters, reused>>

Promote(t) ==
    /\ server = "up"
    /\ t \in Queued
    /\ UNCHANGED knobs
    /\ Pump(<<t>> \o Without(t), running, co, handle)
    /\ UNCHANGED <<row, server, cancelReq, doomed, counters, reused>>

\* The new positions may order the entries in any way; no pump.
Reorder ==
    /\ server = "up"
    /\ \E q \in [DOMAIN queue -> Queued] :
          /\ {q[k] : k \in DOMAIN q} = Queued
          /\ queue' = q
    /\ UNCHANGED <<row, server, running, co, handle, cancelReq, doomed, knobs, counters, reused>>

PauseQueue ==
    /\ server = "up"
    /\ ~queuePaused
    /\ queuePaused' = TRUE
    /\ UNCHANGED <<durableVars, server, running, co, handle, cancelReq, doomed, concurrency,
                   counters, reused>>

ResumeQueue ==
    /\ server = "up"
    /\ queuePaused
    /\ queuePaused' = FALSE
    /\ UNCHANGED concurrency
    /\ Pump(queue, running, co, handle)
    /\ UNCHANGED <<row, server, cancelReq, doomed, counters, reused>>

Configure(limit) ==
    /\ server = "up"
    /\ concurrency' = limit
    /\ UNCHANGED queuePaused
    /\ Pump(queue, running, co, handle)
    /\ UNCHANGED <<row, server, cancelReq, doomed, counters, reused>>

-----------------------------------------------------------------------------
(* _run_task: the coroutine x = <<t, i>> of the run t *)

Runs(x, at) == server # "down" /\ co[x] = at /\ x \notin cancelReq

\* set_status and finish: UPDATE, without a row no effect
SetRow(t, st) == row' = IF row[t] = "deleted" THEN row ELSE [row EXCEPT ![t] = st]

\* runs.start: UPSERT
StartRow(t) == row' = [row EXCEPT ![t] = "running"]

Moves(x, to) ==
    /\ co' = [co EXCEPT ![x] = to]
    /\ UNCHANGED <<queue, server, running, handle, doomed, knobs, counters, reused>>

\* runs.start, then Engine(...), up to the first await of Engine.run
FirstStep(x) ==
    /\ Runs(x, "created") /\ row[x[1]] # "deleted"
    /\ StartRow(x[1])
    /\ Moves(x, "planning")
    /\ UNCHANGED cancelReq

\* Engine(...) raises (a locked database, unreadable project settings): that is
\* after runs.start and before the try, so no handler and no finally sees it.
ConstructFails(x) ==
    /\ Runs(x, "created") /\ row[x[1]] # "deleted"
    /\ StartRow(x[1])
    /\ Moves(x, "none")
    /\ UNCHANGED cancelReq

\* The deletion of the run took its Broker, which the first line asks for.
BrokerGone(x) ==
    /\ Runs(x, "created") /\ row[x[1]] = "deleted"
    /\ Moves(x, "none")
    /\ UNCHANGED <<row, cancelReq>>

\* A task cancelled before its first step never enters its body.
NeverStarts(x) ==
    /\ server # "down"
    /\ co[x] = "created"
    /\ x \in cancelReq
    /\ cancelReq' = cancelReq \ {x}
    /\ Moves(x, "none")
    /\ UNCHANGED row

\* Engine.run has a valid plan, made, given or stored: runs.start again.
PlanReady(x) ==
    /\ Runs(x, "planning")
    /\ StartRow(x[1])
    /\ Moves(x, "working")
    /\ UNCHANGED cancelReq

\* Any error: no plan to resume from, an invalid plan, an LLM error, a bug.
Fails(x) ==
    /\ (Runs(x, "planning") \/ Runs(x, "working"))
    /\ SetRow(x[1], "failed")
    /\ Moves(x, "closing")
    /\ UNCHANGED cancelReq

Finishes(x) ==
    /\ Runs(x, "working")
    /\ \E outcome \in Outcomes : SetRow(x[1], outcome)
    /\ Moves(x, "closing")
    /\ UNCHANGED cancelReq

\* Mutant of CancelArrives: it is taken for a failed call, which is tried again.
CancelArrivesRetried(x) ==
    /\ server # "down"
    /\ co[x] \in {"planning", "working"}
    /\ x \in cancelReq
    /\ cancelReq' = cancelReq \ {x}
    /\ Moves(x, co[x])
    /\ UNCHANGED row

CancelArrives(x) ==
    /\ server # "down"
    /\ co[x] \in {"planning", "working"}
    /\ x \in cancelReq
    /\ cancelReq' = cancelReq \ {x}
    /\ SetRow(x[1], "cancelled")
    /\ Moves(x, "closing")

\* The finally clause, after engine.aclose(): slot and handle go by the id, whoever's
\* they are.
Closes(x) ==
    /\ Runs(x, "closing")
    /\ UNCHANGED knobs
    /\ Pump(queue, running \ {x[1]}, [co EXCEPT ![x] = "none"], [handle EXCEPT ![x[1]] = 0])
    /\ UNCHANGED <<row, server, cancelReq, doomed, counters, reused>>

\* A cancel that arrives in engine.aclose() leaves the finally clause there:
\* the rest of it, the slot, the handle and the pump, is skipped.
CloseCancelled(x) ==
    /\ server # "down"
    /\ co[x] = "closing"
    /\ x \in cancelReq
    /\ cancelReq' = cancelReq \ {x}
    /\ Moves(x, "none")
    /\ UNCHANGED row

Coroutine(x) ==
    \/ FirstStep(x) \/ ConstructFails(x) \/ BrokerGone(x) \/ NeverStarts(x) \/ PlanReady(x)
    \/ Fails(x) \/ Finishes(x) \/ CancelArrives(x) \/ Closes(x) \/ CloseCancelled(x)

-----------------------------------------------------------------------------
(* The process *)

\* What memory held is gone.
Lose ==
    /\ server' = "down"
    /\ running' = {} /\ cancelReq' = {} /\ doomed' = {}
    /\ co' = [x \in Coros |-> "none"]
    /\ handle' = [t \in Tasks |-> 0]
    /\ UNCHANGED <<row, knobs, requeues, reused>>

\* A graceful stop: no more requests, and every coroutine alive is cancelled
\* (asyncio.run); those started meanwhile are not.
Shutdown ==
    /\ server = "up"
    /\ restarts < MaxRestarts
    /\ restarts' = restarts + 1
    /\ server' = "stopping"
    /\ cancelReq' = {x \in Coros : co[x] # "none"}
    /\ doomed' = {x \in Coros : co[x] # "none"}
    /\ UNCHANGED <<durableVars, running, co, handle, knobs, requeues, reused>>

Exit ==
    /\ server = "stopping"
    /\ \A x \in doomed : co[x] = "none"
    /\ Lose
    /\ UNCHANGED <<queue, restarts>>

Crash ==
    /\ server = "up"
    /\ restarts < MaxRestarts
    /\ restarts' = restarts + 1
    /\ Lose
    /\ UNCHANGED queue

\* The same between the two commits of cancelling or deleting a run that waits.
CrashInCancel(t) ==
    /\ server = "up"
    /\ restarts < MaxRestarts
    /\ restarts' = restarts + 1
    /\ t \in Queued
    /\ queue' = Without(t)
    /\ Lose

\* create_app marks the runs it finds running as interrupted; startup drops
\* the entries of finished runs (_sanitize_queue) and pumps.
Boot ==
    /\ server = "down"
    /\ server' = "up"
    /\ row' = [t \in Tasks |-> IF row[t] = "running" THEN "interrupted" ELSE row[t]]
    /\ concurrency' = Concurrency
    /\ queuePaused' = FALSE
    /\ reused' = {}
    /\ Pump(Kept({k \in DOMAIN queue : row'[queue[k]] \notin TerminalRow}), {}, co, handle)
    /\ UNCHANGED <<cancelReq, doomed, counters>>

Operator ==
    \/ \E t \in Tasks : Submit(t) \/ ResumeTask(t) \/ CancelRunning(t) \/ CancelQueued(t)
    \/ \E t \in Tasks : Delete(t) \/ Promote(t)
    \/ Reorder \/ PauseQueue \/ ResumeQueue
    \/ \E limit \in Limits : Configure(limit)

Next ==
    \/ Operator
    \/ \E x \in Coros : Coroutine(x)
    \/ \E t \in Tasks : CrashInCancel(t)
    \/ Shutdown \/ Exit \/ Crash \/ Boot

Spec == Init /\ [][Next]_vars

\* Coroutines make progress (model and tool calls are bounded), a stopping
\* process exits and is started again.  The operator may do nothing.
Fairness ==
    /\ \A x \in Coros : WF_vars(Coroutine(x))
    /\ WF_vars(Exit)
    /\ WF_vars(Boot)

LiveSpec == Spec /\ Fairness

-----------------------------------------------------------------------------
(* Safety *)

\* A run has one entry at most, and a row.  Unless its id was submitted again while it
\* had a slot or a coroutine, a run in the queue waits: its row says so and nothing runs
\* it, so that neither a restart nor the pump's guard has its entry to throw away.
QueueConsistent ==
    /\ \A j, k \in DOMAIN queue : queue[j] = queue[k] => j = k
    /\ \A t \in Queued : row[t] \notin NoRow
    /\ \A t \in Queued \ reused : row[t] = "queued" /\ t \notin running /\ ~Live(t)

\* What a cancel would reach takes up a slot.  Unless its id was submitted again, a cancel
\* reaches a run as long as it is alive, or it was deleted.
LiveCounted ==
    /\ \A t \in Tasks : Held(t) => t \in running
    /\ \A t \in Tasks \ reused : Live(t) => Held(t) \/ row[t] = "deleted"

\* No slot stays free while a run waits: every handler that adds an entry,
\* frees a slot or adds slots pumps, and so does the end of every coroutine.
NoIdleSlot ==
    server # "down" /\ ~queuePaused /\ queue # <<>> => Cardinality(running) >= concurrency

\* What holds between any two steps of the server: the entries are runs that wait,
\* what lives takes up its slot, and no slot idles.
QueueInv == TypeOK /\ QueueConsistent /\ LiveCounted /\ NoIdleSlot

Starts(t) == \E i \in Copies : co[t, i] # "created" /\ co'[t, i] = "created"

\* The coroutine the server has of the run goes on, but no longer in its hands.
LetGo(t) == Held(t) /\ handle'[t] # handle[t] /\ co'[t, handle[t]] # "none"

\* A coroutine of the run reaches the end of its finally clause.
OneCloses(t) == \E i \in Copies : co[t, i] = "closing" /\ co'[t, i] # "closing"

\* A run whose coroutine the server has is not started a second time, and that coroutine
\* stays in its hands until the run is deleted, or a coroutine of the same id that was
\* deleted before it ends.  And a run whose id was not submitted again while it was
\* alive is not executed twice at once, also not while it closes its engine; how it
\* ended stays on record until the operator resubmits, resumes or deletes it: no late
\* cancel and no cleanup rewrites it.
RunsOnce ==
    [][\A t \in Tasks :
        /\ Held(t) /\ Starts(t) => OneCloses(t)
        /\ LetGo(t) => row'[t] = "deleted" \/ OneCloses(t)
        /\ t \notin reused' =>
              /\ Live(t) => ~Starts(t)
              /\ row[t] \in TerminalRow => row'[t] \in {row[t], "queued", "deleted"}]_vars

\* web/server.py:735: "never start a second copy of a running task".
NeverTwice == [][\A t \in Tasks : Live(t) => ~Starts(t)]_vars

\* docs/ARCHITECTURE.md:87-88: "startup cleanup marks orphaned runs interrupted".
\* After a start no run is on record as queued that nothing will ever start.
StartupLeavesNoOrphan ==
    [][server = "down" =>
        \A t \in Tasks : row'[t] = "queued" => Live(t)' \/ t \in Queued']_vars

-----------------------------------------------------------------------------
(* Liveness *)

\* Unless a slot is lost, or the queue left paused, a queued run gets its turn,
\* whatever the operator promotes before it.
QueuedServed ==
    [](running \subseteq {t \in Tasks : Live(t)}) /\ []<>~queuePaused =>
        \A t \in Tasks : (t \in Queued) ~> (t \notin Queued)

\* A cancelled run ends.
CancelEnds == \A x \in Coros : (x \in cancelReq) ~> (co[x] = "none")

\* Who waits for its turn gets it, and who is cancelled ends.
Progress == QueuedServed /\ CancelEnds
=============================================================================
