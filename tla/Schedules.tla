------------------------------ MODULE Schedules ------------------------------
(***************************************************************************)
(* Recurring runs: the schedule table of orchestration/schedules.py, and   *)
(* the server's tick that enqueues a run for each due schedule and then    *)
(* marks it started (web/server.py, _schedules_tick).                      *)
(*                                                                         *)
(* Time is counted in minutes, and when a cron expression fires next is    *)
(* given (module Cron).  The due rows are read in a worker thread, so that *)
(* requests may come before the tick goes on; from there it runs through,  *)
(* but for a crash.                                                        *)
(***************************************************************************)
EXTENDS Integers, Sequences, FiniteSets, Functions

CONSTANTS
    Ids,                        \* schedules, each created once at most
    Crons,                      \* expressions users give
    NextFire,                   \* when each fires after each time, or NoTime
    Intervals,                  \* intervals users give, in minutes
    MaxClock,                   \* bound: the time
    MaxRequests, MaxMishaps     \* bounds: requests, and failed writes and crashes

\* What is assumed of them.
SchedulesAssumption ==
    /\ IsFiniteSet(Ids) /\ Ids \subseteq Nat
    /\ "none" \notin Crons
    /\ Intervals \subseteq Nat \ {0}
    /\ {MaxClock, MaxRequests, MaxMishaps} \subseteq Nat

VARIABLES
    table,      \* the rows of the schedules table
    clock,
    stage,      \* of the tick: idle, read, loop, or mark
    snapshot,   \* the due rows it read, in creation order
    started,    \* whether it counted one as started
    waiting,    \* enqueued, and not offered to the pump
    requests, mishaps,
    fired,      \* history: runs enqueued, by schedule and due time
    strays      \* history: schedules whose mark failed

tick == <<stage, snapshot, started>>
vars == <<table, clock, tick, waiting, requests, mishaps, fired, strays>>

NoCron == "none"
NoHours == 0
NoTime == -1

-----------------------------------------------------------------------------
(* The table. *)

Live == DOMAIN table

\* Mutant: always the creation.
ReferenceCreated(r) == r.created
Reference(r) == IF r.last = NoTime THEN r.created ELSE r.last

\* When a row is due next: a cron expression counts from the last start, or the creation;
\* an interval that never ran is due at once (next_run_at, _is_due).
DueAt(r) ==
    IF r.cron # NoCron THEN NextFire[r.cron][Reference(r)]
    ELSE IF r.last = NoTime THEN r.created ELSE r.last + r.every

IsDue(r) == r.enabled /\ DueAt(r) # NoTime /\ DueAt(r) <= clock

Never(r) == r.cron # NoCron /\ DueAt(r) = NoTime

\* An expression that never fires is skipped.  Mutant: it stops the poll.
DueRowsAll == IF \E s \in Live : Never(table[s]) THEN {} ELSE {s \in Live : IsDue(table[s])}
DueRows == {s \in Live : IsDue(table[s])}

\* The rows in the order of their creation.
Before(x, y) == \/ table[x].created < table[y].created
                \/ table[x].created = table[y].created /\ x < y
InOrder(S) == {q \in [1..Cardinality(S) -> S] : \A j, k \in DOMAIN q : j < k => Before(q[j], q[k])}

Init ==
    /\ table = <<>> /\ clock = 0
    /\ stage = "idle" /\ snapshot = <<>> /\ started = FALSE
    /\ waiting = {} /\ requests = 0 /\ mishaps = 0 /\ strays = {}
    /\ fired = [s \in Ids |-> [t \in 0..MaxClock |-> 0]]

-----------------------------------------------------------------------------
(* Requests: served by the event loop, so not while the tick goes through. *)

Served ==
    /\ stage \in {"idle", "read"}
    /\ requests < MaxRequests /\ requests' = requests + 1
    /\ UNCHANGED <<clock, tick, waiting, mishaps, fired, strays>>

\* Exactly one of an interval and a cron expression.
Create(s) ==
    /\ Served /\ s \notin Live /\ fired[s] = [t \in 0..MaxClock |-> 0]
    /\ \E e \in Intervals \cup {NoHours}, c \in Crons \cup {NoCron} :
        /\ (e = NoHours) # (c = NoCron)
        /\ table' = [x \in Live \cup {s} |->
                       IF x = s THEN [enabled |-> TRUE, every |-> e, cron |-> c,
                                      last |-> NoTime, created |-> clock]
                       ELSE table[x]]

Switch(s) ==
    /\ Served /\ s \in Live
    /\ table' = [table EXCEPT ![s].enabled = ~@]

\* A cron expression takes over; without one the interval must be there.
Recur(s) ==
    /\ Served /\ s \in Live
    /\ \E e \in Intervals \cup {NoHours, table[s].every}, c \in Crons \cup {NoCron, table[s].cron} :
        /\ e # NoHours \/ c # NoCron
        /\ table' = [table EXCEPT ![s].every = e, ![s].cron = c]

Delete(s) ==
    /\ Served /\ s \in Live
    /\ table' = Restrict(table, Live \ {s})

-----------------------------------------------------------------------------
(* The tick. *)

Now == Head(snapshot).s

TickReads ==
    /\ stage = "idle" /\ stage' = "read"
    /\ \E order \in InOrder(DueRows) :
          snapshot' = [k \in DOMAIN order |-> [s |-> order[k], at |-> DueAt(table[order[k]])]]
    /\ UNCHANGED <<requests, table, clock, started, waiting, mishaps, fired, strays>>

\* The next due row gets a run, in one commit; a failure leaves it for the next tick.
Enqueues ==
    /\ stage \in {"read", "loop"} /\ snapshot # <<>>
    /\ \/ /\ stage' = "mark"
          /\ fired' = [fired EXCEPT ![Now][Head(snapshot).at] = @ + 1]
          /\ waiting' = waiting \cup {Now}
          /\ UNCHANGED <<snapshot, mishaps>>
       \/ /\ mishaps < MaxMishaps /\ mishaps' = mishaps + 1
          /\ stage' = "loop" /\ snapshot' = Tail(snapshot)
          /\ UNCHANGED <<fired, waiting>>
    /\ UNCHANGED <<requests, table, clock, started, strays>>

\* The start is recorded, in another; a row that is gone raises, and the run stays.
MarksStarted ==
    /\ stage = "mark" /\ stage' = "loop"
    /\ snapshot' = Tail(snapshot)
    /\ \/ /\ Now \in Live
          /\ table' = [table EXCEPT ![Now].last = clock]
          /\ started' = TRUE
          /\ UNCHANGED <<mishaps, strays>>
       \/ /\ \/ Now \notin Live /\ UNCHANGED mishaps
             \/ mishaps < MaxMishaps /\ mishaps' = mishaps + 1
          /\ strays' = strays \cup {Now}
          /\ UNCHANGED <<requests, table, started>>
    /\ UNCHANGED <<requests, clock, waiting, fired>>

\* The pump is called if a start was counted.  Mutant: unless several wait.
PumpedSingle == IF started /\ Cardinality(waiting) = 1 THEN {} ELSE waiting
Pumped == IF started THEN {} ELSE waiting

TickEnds ==
    /\ stage \in {"read", "loop"} /\ snapshot = <<>>
    /\ stage' = "idle" /\ started' = FALSE
    /\ waiting' = Pumped
    /\ UNCHANGED <<requests, table, clock, snapshot, mishaps, fired, strays>>

\* A crash; the next start of the server pumps what is queued.
Crash ==
    /\ mishaps < MaxMishaps /\ mishaps' = mishaps + 1
    /\ stage' = "idle" /\ snapshot' = <<>> /\ started' = FALSE
    /\ waiting' = {}
    /\ UNCHANGED <<requests, table, clock, fired, strays>>

MinutePasses ==
    /\ clock < MaxClock /\ clock' = clock + 1
    /\ UNCHANGED <<requests, table, tick, waiting, mishaps, fired, strays>>

Tick == TickReads \/ Enqueues \/ MarksStarted \/ TickEnds

Next ==
    \/ Tick \/ Crash \/ MinutePasses
    \/ \E s \in Ids : Create(s) \/ Switch(s) \/ Recur(s) \/ Delete(s)

Spec == Init /\ [][Next]_vars /\ WF_vars(Tick)

-----------------------------------------------------------------------------
(* Properties. *)

\* The type of every variable; no row was started in the future.
TypeOK ==
    /\ Live \subseteq Ids
    /\ \A s \in Live : /\ table[s].every # NoHours \/ table[s].cron # NoCron
                       /\ table[s].last # NoTime => table[s].last \in table[s].created..clock
    /\ stage \in {"idle", "read", "loop", "mark"}
    /\ stage = "mark" => snapshot # <<>>
    /\ waiting \subseteq Ids

\* A row fires once for each time it is due, whatever is changed meanwhile, and once more
\* at most for each crash or failed write between the two commits.
FiredOnce == \A s \in Ids, t \in 0..MaxClock : fired[s][t] <= 1 + mishaps

\* A run is left to the next pump only if its mark failed.
LeftWaiting == stage = "idle" => waiting \subseteq strays

\* Every row has a time to fire and was not started in the future, fires once for each
\* of them, and its run is pumped.
SchedulesSound == TypeOK /\ FiredOnce /\ LeftWaiting

DueRow(s) == s \in Live /\ IsDue(table[s])

\* A due schedule fires, unless it is switched off, changed or deleted.
DueIsServed ==
    \A s \in Ids : DueRow(s) ~> ~DueRow(s)
=============================================================================
