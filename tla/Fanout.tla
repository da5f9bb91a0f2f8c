------------------------------ MODULE Fanout ------------------------------
(***************************************************************************)
(* orchestration/fanout.py and _run_fanout of web/server.py: one task run  *)
(* in several projects, each by a child run of its own, in waves given by  *)
(* the dependencies among the projects, and rolled up into a parent run.   *)
(*                                                                         *)
(* The children of a wave are asyncio tasks gathered by the parent; all    *)
(* but a first one that goes ahead (stagger) take a semaphore.  gather     *)
(* raises as soon as one of them does, and leaves the others running.      *)
(***************************************************************************)
EXTENDS Integers, FiniteSets

CONSTANTS
    Projects,       \* the slugs, a set of integers: the caller's order
    Bounds,         \* the values of max_concurrent_runs considered
    MaxBroken,      \* bound: how many engines fail to be built
    MaxCancels      \* bound: how often the parent is cancelled

ASSUME FanoutAssumption ==
    /\ Projects \subseteq Int /\ IsFiniteSet(Projects) /\ Projects # {}
    /\ Bounds \subseteq Int
    /\ {MaxBroken, MaxCancels} \subseteq Nat

VARIABLES
    deps,       \* project_deps, normalized
    stagger,
    bound,      \* max_concurrent_runs
    stage,      \* where run_cross_project stands
    wave,       \* the wave under way
    child,      \* where the task of each child stands
    holds,      \* the children that hold the semaphore
    results,    \* the status of each child that returned
    heard,      \* the upstream projects whose results the prompt of each child tells
    linked,     \* child rows that name their parent
    row,        \* runs.status of the parent
    broken,     \* engines that could not be built
    cancels

config == <<deps, stagger, bound>>
vars == <<config, stage, wave, child, holds, results, heard, linked, row, broken, cancels>>

Statuses == {"completed", "partial", "failed"}
Ended    == Statuses \cup {"broken", "cancelled"}
Active   == {"waiting", "running", "cancelling"}

\* validate_project_deps refuses unknown slugs and self-dependencies.
Deps == {d \in [Projects -> SUBSET Projects] : \A s \in Projects : s \notin d[s]}

\* _dependency_waves: the projects of the first k waves.  Mutant: one upstream will do.
DoneAny[k \in 0..Cardinality(Projects)] ==
    IF k = 0 THEN {} ELSE {s \in Projects : \/ deps[s] = {}
                                            \/ deps[s] \cap DoneAny[k - 1] # {}}
DoneAfterAny(k) == DoneAny[k]
Done[k \in 0..Cardinality(Projects)] ==
    IF k = 0 THEN {} ELSE {s \in Projects : deps[s] \subseteq Done[k - 1]}
DoneAfter(k) == Done[k]
Wave(k) == DoneAfter(k) \ DoneAfter(k - 1)

\* Mutant of Cyclic: the check is left to the waves.
CyclicUnchecked == FALSE
Cyclic == DoneAfter(Cardinality(Projects)) # Projects

First(S) == CHOOSE s \in S : \A t \in S : s <= t

Init ==
    /\ deps \in Deps /\ stagger \in BOOLEAN /\ bound \in Bounds
    /\ stage = "validate" /\ wave = 0
    /\ child = [s \in Projects |-> "none"] /\ holds = {}
    /\ results = [s \in Projects |-> "none"]
    /\ heard = [s \in Projects |-> {}]
    /\ linked = {} /\ row = "running" /\ broken = {} /\ cancels = 0

-----------------------------------------------------------------------------
(* The parent. *)

\* A cycle is refused before any child exists; _run_fanout then fails the run.
Validate ==
    /\ stage = "validate"
    /\ IF Cyclic THEN stage' = "closed" /\ row' = "failed"
       ELSE stage' = "next" /\ UNCHANGED row
    /\ UNCHANGED <<config, wave, child, holds, results, heard, linked, broken, cancels>>

\* A wave starts: each prompt gets what is known of its upstream projects.
StartWave ==
    /\ stage = "next" /\ DoneAfter(wave) # Projects
    /\ Wave(wave + 1) # {}
    /\ wave' = wave + 1
    /\ LET new == Wave(wave + 1)
           ahead == stagger /\ wave = 0 /\ Cardinality(new) > 1
           now == IF ahead THEN {First(new)} ELSE new
       IN  /\ stage' = IF ahead THEN "first" ELSE "gather"
           /\ child' = [s \in Projects |-> IF s \in now THEN "waiting" ELSE child[s]]
           /\ heard' = [s \in Projects |->
                            IF s \in new THEN {u \in deps[s] : results[u] # "none"}
                            ELSE heard[s]]
    /\ UNCHANGED <<config, holds, results, linked, row, broken, cancels>>

\* The child that went ahead is back.
StartRest ==
    /\ stage = "first" /\ cancels = 0
    /\ child[First(Wave(1))] \in Statuses
    /\ stage' = "gather"
    /\ child' = [s \in Projects |-> IF s \in Wave(1) /\ child[s] = "none"
                                    THEN "waiting" ELSE child[s]]
    /\ UNCHANGED <<config, wave, holds, results, heard, linked, row, broken, cancels>>

WaveDone ==
    /\ stage = "gather" /\ cancels = 0
    /\ \A s \in Wave(wave) : child[s] \in Statuses
    /\ stage' = IF DoneAfter(wave) = Projects THEN "rollup" ELSE "next"
    /\ UNCHANGED <<config, wave, child, holds, results, heard, linked, row, broken, cancels>>

Overall ==
    IF \A s \in Projects : results[s] = "completed" THEN "completed"
    ELSE IF \A s \in Projects : results[s] = "failed" THEN "failed" ELSE "partial"

\* rollup.md is written first; if that fails the run does.
Rollup ==
    /\ stage = "rollup"
    /\ row' \in {Overall, "failed"}
    /\ stage' = "closed"
    /\ UNCHANGED <<config, wave, child, holds, results, heard, linked, broken, cancels>>

\* The first exception of a child ends gather, the parent's row and its store.
GatherRaises ==
    /\ stage \in {"first", "gather"}
    /\ \E s \in Wave(wave) : child[s] = "broken"
    /\ stage' = "closed" /\ row' = "failed"
    /\ UNCHANGED <<config, wave, child, holds, results, heard, linked, broken, cancels>>

-----------------------------------------------------------------------------
(* A child. *)

ReleasedBy(s) == holds \ {s}
Limit == IF bound < 1 THEN 1 ELSE bound

\* It goes ahead, or takes the semaphore; then its engine is built.
ChildStarts(s) ==
    /\ child[s] = "waiting"
    /\ stage = "first" \/ Cardinality(holds) < Limit
    /\ child' = [child EXCEPT ![s] = "running"]
    /\ holds' = IF stage = "first" THEN holds ELSE holds \cup {s}
    /\ UNCHANGED <<config, stage, wave, results, heard, linked, row, broken, cancels>>

\* engine_factory raises, outside the try.
ChildBreaks(s) ==
    /\ child[s] = "waiting"
    /\ stage = "first" \/ Cardinality(holds) < Limit
    /\ Cardinality(broken) < MaxBroken
    /\ broken' = broken \cup {s}
    /\ child' = [child EXCEPT ![s] = "broken"]
    /\ UNCHANGED <<config, stage, wave, holds, results, heard, linked, row, cancels>>

\* The engine returns, or raises, which counts as failed.
ChildEnds(s) ==
    /\ child[s] \in {"running", "cancelling"}
    /\ \E st \in Statuses :
        /\ child' = [child EXCEPT ![s] = st]
        /\ results' = [results EXCEPT ![s] = st]
    /\ linked' = IF stage = "closed" THEN linked ELSE linked \cup {s}   \* the store is closed
    /\ holds' = ReleasedBy(s)
    /\ UNCHANGED <<config, stage, wave, heard, row, broken, cancels>>

\* A cancelled child has settled its run and closed its engine; it records nothing here.
ChildCancelled(s) ==
    /\ child[s] = "cancelling"
    /\ child' = [child EXCEPT ![s] = "cancelled"]
    /\ holds' = ReleasedBy(s)
    /\ UNCHANGED <<config, stage, wave, results, heard, linked, row, broken, cancels>>

-----------------------------------------------------------------------------
(* Cancelling the parent reaches every child of the wave. *)

Cancel ==
    /\ stage \in {"first", "gather"}
    /\ cancels < MaxCancels
    /\ cancels' = cancels + 1
    /\ child' = [s \in Projects |-> IF child[s] = "waiting" THEN "cancelled"
                                    ELSE IF child[s] = "running" THEN "cancelling"
                                    ELSE child[s]]
    /\ UNCHANGED <<config, stage, wave, holds, results, heard, linked, row, broken>>

\* The first child that ends cancelled ends gather; if none does, gather raises when all
\* are done.
ParentCancelled ==
    /\ stage \in {"first", "gather"}
    /\ cancels > 0
    /\ \/ \E s \in Wave(wave) : child[s] = "cancelled"
       \/ \A s \in Wave(wave) : child[s] \in Statuses \cup {"none"}
    /\ stage' = "closed" /\ row' = "cancelled"
    /\ UNCHANGED <<config, wave, child, holds, results, heard, linked, broken, cancels>>

Child(s) == ChildStarts(s) \/ ChildEnds(s) \/ ChildCancelled(s)
Parent == Validate \/ StartWave \/ StartRest \/ WaveDone \/ Rollup \/ GatherRaises
          \/ ParentCancelled

Next ==
    \/ Parent \/ Cancel
    \/ \E s \in Projects : Child(s) \/ ChildBreaks(s)

\* A task that can run runs; a child run ends (RunLifecycle's RunSettles).
Spec == Init /\ [][Next]_vars /\ WF_vars(Parent) /\ \A s \in Projects : WF_vars(Child(s))

-----------------------------------------------------------------------------
(* Properties. *)

\* The type of every variable; no more children hold the semaphore than it has permits.
TypeOK ==
    /\ Cardinality(holds) <= Limit
    /\ deps \in Deps /\ stagger \in BOOLEAN /\ bound \in Bounds
    /\ stage \in {"validate", "next", "first", "gather", "rollup", "closed"}
    /\ wave \in 0..Cardinality(Projects)
    /\ child \in [Projects -> Ended \cup Active \cup {"none"}]
    /\ {holds, linked, broken} \subseteq SUBSET Projects
    /\ results \in [Projects -> Statuses \cup {"none"}]
    /\ heard \in [Projects -> SUBSET Projects]
    /\ row \in Statuses \cup {"running", "cancelled"}
    /\ cancels \in Nat

\* A child starts once every project it depends on has a result, and is told of each of
\* them, those that failed included (upstream_section).
UpstreamsHeard ==
    \A s \in Projects : child[s] # "none" =>
        /\ heard[s] = deps[s]
        /\ \A u \in deps[s] : results[u] # "none"

\* A parent that was neither cancelled nor met an engine that could not be built ends
\* with a result of every child, none of them still at work, all of them linked to it, and
\* an outcome no better than theirs: one child failing never blocks the others.
RollupTrue ==
    stage = "closed" /\ row # "cancelled" /\ broken = {} /\ ~Cyclic =>
        /\ \A s \in Projects : results[s] # "none" /\ child[s] \notin Active
        /\ linked = Projects
        /\ row = "completed" => \A s \in Projects : results[s] = "completed"

\* A child is told of what it builds on, and the parent tells what its children came to.
FanoutSound == TypeOK /\ UpstreamsHeard /\ RollupTrue

\* Every fan-out ends, whatever its dependencies, and whatever its children come to;
\* and so does every child.
FanoutEnds == <>(stage = "closed" /\ \A s \in Projects : child[s] \notin Active)

\* What fanout.py says: one child failing never blocks the others, so that a failed parent
\* leaves none at work.
FailureIsolated == row = "failed" => \A s \in Projects : child[s] \notin Active
=============================================================================
