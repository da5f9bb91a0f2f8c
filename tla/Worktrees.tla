----------------------------- MODULE Worktrees -----------------------------
(***************************************************************************)
(* engine.py (execute) and vcs.py: the git worktree each execution of a    *)
(* subtask works in, how its changes get onto the branch of its run, and   *)
(* which commit is recorded for it, which is what accepting the subtask    *)
(* later cherry-picks.                                                     *)
(*                                                                         *)
(* The subtasks of a run share its workspace, a worktree of the project's  *)
(* repository, and a git_lock.  A git operation runs in a thread, which a  *)
(* cancellation of the coroutine that awaits it does not stop.  All runs   *)
(* of a project share the repository and its branch names: another run may *)
(* hold the branch of a subtask that has the same id there.                *)
(***************************************************************************)
EXTENDS Integers, Sequences, FiniteSets

CONSTANTS
    Subtasks,       \* the subtasks of the run
    Rivals,         \* those whose branch, ada/wt-<id>, another run may hold
    MaxRetries,     \* settings.max_retries
    EmptyDiffs,     \* may an execution change no file
    MaxCancels,     \* bound: how often the run is cancelled
    MaxResumes      \* bound: how often it is resumed

ASSUME WorktreesAssumption ==
    /\ IsFiniteSet(Subtasks)
    /\ Rivals \subseteq Subtasks
    /\ {MaxRetries, MaxCancels, MaxResumes} \subseteq Nat
    /\ EmptyDiffs \in BOOLEAN

VARIABLES
    at,         \* where the execution of each subtask stands
    isolated,   \* use_wt
    leaving,    \* the exception that passes through the finally clause
    attempts,   \* SubTaskState.attempts
    reviews,    \* failed reviews and transient errors of this dispatch
    cancelReq,  \* coroutines asked to cancel that have not run since
    lock,       \* the holder of the git_lock, if any
    threads,    \* git operations running: [op, sub, awaited]
    trees,      \* subtasks whose worktree and branch exist in the repository
    base,       \* how long the log was when the worktree was added
    edits,      \* subtasks whose worktree holds changes
    log,        \* commits of the run's branch, each the changes it brings
    dirty,      \* uncommitted changes in the workspace of the run
    mergeOf,    \* Engine._merge_by_subtask: a position in the log, 0 for ""
    kept,       \* changes made and not reported as a merge conflict
    cancels, resumes

coVars   == <<at, isolated, leaving, attempts, reviews, cancelReq>>
gitVars  == <<trees, base, edits, log, dirty>>
recVars  == <<mergeOf, kept>>
counters == <<cancels, resumes>>
vars     == <<coVars, lock, threads, gitVars, recVars, counters>>

Over == {"passed", "failed", "stopped"}
RunOver == \A i \in Subtasks : at[i] \in Over

\* The changes execution a of subtask i makes.
Change == Subtasks \X Nat
Thread == [op : {"add", "merge", "remove"}, sub : Subtasks, awaited : BOOLEAN]

TypeOK ==
    /\ at \in [Subtasks -> {"idle", "lockAdd", "add", "prepare", "agent", "lockMerge", "merge",
                            "lockRemove", "remove", "review"} \cup Over]
    /\ isolated \in [Subtasks -> BOOLEAN]
    /\ leaving \in [Subtasks -> {"no", "error", "cancelled"}]
    /\ attempts \in [Subtasks -> Nat]
    /\ reviews \in [Subtasks -> 0..MaxRetries]
    /\ {cancelReq, trees, edits} \subseteq SUBSET Subtasks
    /\ lock \in SUBSET Subtasks
    /\ threads \subseteq Thread
    /\ base \in [Subtasks -> Nat]
    /\ log \in Seq(SUBSET Change)
    /\ dirty \subseteq Change
    /\ \A i \in Subtasks : mergeOf[i] \in 0..Len(log)
    /\ kept \subseteq Change
    /\ cancels \in 0..MaxCancels
    /\ resumes \in 0..MaxResumes

Init ==
    /\ at = [i \in Subtasks |-> "idle"]
    /\ isolated = [i \in Subtasks |-> FALSE]
    /\ leaving = [i \in Subtasks |-> "no"]
    /\ attempts = [i \in Subtasks |-> 0]
    /\ reviews = [i \in Subtasks |-> 0]
    /\ cancelReq = {} /\ trees = {} /\ edits = {} /\ threads = {} /\ kept = {}
    /\ lock = {}
    /\ base = [i \in Subtasks |-> 0]
    /\ log = <<{}>>    \* the commit the run's branch starts at
    /\ dirty = {}
    /\ mergeOf = [i \in Subtasks |-> 0]
    /\ cancels = 0 /\ resumes = 0

-----------------------------------------------------------------------------
(* vcs.py *)

\* Mutant of Snapshot: a dirty workspace is not committed before a merge.
SnapshotNothing == log

\* _commit_all of a dirty workspace: the log with what it snapshots.
Snapshot == IF dirty = {} THEN log ELSE Append(log, dirty)

\* worktree_add, which `git worktree add -b` refuses if the branch is there.
WorktreeAdd(i, added) ==
    /\ log' = Snapshot
    /\ dirty' = {}
    /\ IF added
       THEN trees' = trees \cup {i} /\ base' = [base EXCEPT ![i] = Len(log')]
       ELSE UNCHANGED <<trees, base>>
    /\ UNCHANGED edits

\* May it be added, or refused.
MayAdd(i) == IF i \in trees THEN {FALSE} ELSE IF i \in Rivals THEN BOOLEAN ELSE {TRUE}

\* worktree_merge, merged or not; without commits of its own the branch is up
\* to date, which git reports as a success.
WorktreeMerge(i, merged) ==
    /\ log' = IF merged /\ i \in edits THEN Append(Snapshot, {<<i, attempts[i]>>}) ELSE Snapshot
    /\ dirty' = {}
    /\ UNCHANGED <<trees, base, edits>>

\* A merge conflicts only with what came onto the branch since the worktree
\* was added.
MayConflict(i) == i \in edits /\ Len(Snapshot) > base[i]

WorktreeRemove(i) ==
    /\ trees' = trees \ {i}
    /\ edits' = edits \ {i}
    /\ UNCHANGED <<base, log, dirty>>

-----------------------------------------------------------------------------
(* execute *)

CanRun(i, p) == at[i] = p /\ i \notin cancelReq

Goes(i, p) == at' = [at EXCEPT ![i] = p]

\* Scheduler dispatches the subtask, or tries it again.
Execute(i) ==
    /\ CanRun(i, "idle")
    /\ attempts' = [attempts EXCEPT ![i] = @ + 1]
    /\ leaving' = [leaving EXCEPT ![i] = "no"]
    /\ Goes(i, "lockAdd")
    /\ UNCHANGED <<isolated, reviews, cancelReq, lock, threads, gitVars, recVars, counters>>

\* Mutant of GitStarts: without the lock.
GitStartsUnlocked(i, waits, op) ==
    /\ CanRun(i, waits)
    /\ threads' = threads \cup {[op |-> op, sub |-> i, awaited |-> TRUE]}
    /\ Goes(i, op)
    /\ UNCHANGED <<isolated, leaving, attempts, reviews, cancelReq, lock, gitVars, recVars, counters>>

\* async with git_lock: await to_thread(op)
GitStarts(i, waits, op) ==
    /\ CanRun(i, waits)
    /\ lock = {}
    /\ lock' = {i}
    /\ threads' = threads \cup {[op |-> op, sub |-> i, awaited |-> TRUE]}
    /\ Goes(i, op)
    /\ UNCHANGED <<isolated, leaving, attempts, reviews, cancelReq, gitVars, recVars, counters>>

AddStarts(i)    == GitStarts(i, "lockAdd", "add")
MergeStarts(i)  == GitStarts(i, "lockMerge", "merge")
RemoveStarts(i) == GitStarts(i, "lockRemove", "remove")

\* Mutant of GitEnds: the lock is not released.
GitEndsLocked(i, op) ==
    /\ CanRun(i, op)
    /\ threads' = threads \ {[op |-> op, sub |-> i, awaited |-> TRUE]}
    /\ UNCHANGED lock

\* The thread of i is done and i goes on, outside the lock.
GitEnds(i, op) ==
    /\ CanRun(i, op)
    /\ lock' = {}
    /\ threads' = threads \ {[op |-> op, sub |-> i, awaited |-> TRUE]}

\* Another attempt while this dispatch has one left.
Again(i, ends) ==
    IF reviews[i] < MaxRetries
    THEN Goes(i, "idle") /\ reviews' = [reviews EXCEPT ![i] = @ + 1]
    ELSE \E e \in ends : Goes(i, e) /\ UNCHANGED reviews

\* Where i is after execute, which returned or raised: a transient error is
\* tried again, another one is not.
Leaves(i) ==
    CASE leaving[i] = "no"        -> Goes(i, "review") /\ UNCHANGED reviews
      [] leaving[i] = "error"     -> Again(i, {"failed"}) \/ (Goes(i, "failed") /\ UNCHANGED reviews)
      [] leaving[i] = "cancelled" -> Goes(i, "stopped") /\ UNCHANGED reviews

\* Without a worktree the subtask works in the shared workspace.
AddEnds(i) ==
    /\ GitEnds(i, "add")
    /\ \E added \in MayAdd(i) :
          /\ WorktreeAdd(i, added)
          /\ isolated' = [isolated EXCEPT ![i] = added]
    /\ Goes(i, "prepare")
    /\ UNCHANGED <<leaving, attempts, reviews, cancelReq, recVars, counters>>

\* The prompt is assembled, with awaits outside any try.
Prepared(i) ==
    /\ CanRun(i, "prepare")
    /\ Goes(i, "agent")
    /\ UNCHANGED <<isolated, leaving, attempts, reviews, cancelReq, lock, threads, gitVars,
                   recVars, counters>>

AgentReturns(i) ==
    /\ CanRun(i, "agent")
    /\ \E changes \in {TRUE, ~EmptyDiffs} :
          /\ kept' = IF changes THEN kept \cup {<<i, attempts[i]>>} ELSE kept
          /\ edits' = IF changes /\ isolated[i] THEN edits \cup {i} ELSE edits
          /\ dirty' = IF changes /\ ~isolated[i] THEN dirty \cup {<<i, attempts[i]>>} ELSE dirty
    /\ Goes(i, IF isolated[i] THEN "lockMerge" ELSE "review")
    /\ UNCHANGED <<isolated, leaving, attempts, reviews, cancelReq, lock, threads, trees, base,
                   log, mergeOf, counters>>

\* An error, or the wall-clock cap; what was written in the workspace stays.
AgentFails(i) ==
    /\ CanRun(i, "agent")
    /\ leaving' = [leaving EXCEPT ![i] = "error"]
    /\ IF isolated[i]
       THEN Goes(i, "lockRemove") /\ UNCHANGED <<reviews, dirty>>
       ELSE /\ Again(i, {"failed"}) \/ (Goes(i, "failed") /\ UNCHANGED reviews)
            /\ dirty' = dirty \cup {<<i, attempts[i]>>}
    /\ UNCHANGED <<isolated, attempts, cancelReq, lock, threads, trees, base, edits, log,
                   recVars, counters>>

\* The commit recorded is HEAD after the merge, or none after a conflict.
MergeEnds(i) ==
    /\ GitEnds(i, "merge")
    /\ \E merged \in {TRUE, ~MayConflict(i)} :
          /\ WorktreeMerge(i, merged)
          /\ mergeOf' = [mergeOf EXCEPT ![i] = IF merged THEN Len(log') ELSE 0]
          /\ kept' = IF merged THEN kept ELSE kept \ {<<i, attempts[i]>>}
    /\ Goes(i, "lockRemove")
    /\ UNCHANGED <<isolated, leaving, attempts, reviews, cancelReq, counters>>

RemoveEnds(i) ==
    /\ GitEnds(i, "remove")
    /\ WorktreeRemove(i)
    /\ Leaves(i)
    /\ UNCHANGED <<isolated, leaving, attempts, cancelReq, recVars, counters>>

\* The verdict on what execute returned (Scheduler._attempt_loop).
ReviewPasses(i) ==
    /\ CanRun(i, "review")
    /\ Goes(i, "passed")
    /\ UNCHANGED <<isolated, leaving, attempts, reviews, cancelReq, lock, threads, gitVars,
                   recVars, counters>>

ReviewFails(i) ==
    /\ CanRun(i, "review")
    /\ Again(i, {"passed", "failed"})   \* passed with caveats, or not
    /\ UNCHANGED <<isolated, leaving, attempts, cancelReq, lock, threads, gitVars, recVars, counters>>

-----------------------------------------------------------------------------
(* Cancellation, threads nobody waits for, and resuming *)

\* The run is cancelled, by the operator or because its budget is spent.
Cancel ==
    /\ cancels < MaxCancels
    /\ ~RunOver
    /\ cancels' = cancels + 1
    /\ cancelReq' = {i \in Subtasks : at[i] \notin Over}
    /\ UNCHANGED <<at, isolated, leaving, attempts, reviews, lock, threads, gitVars, recVars, resumes>>

\* CancelledError is raised where i waits.  From the agent on it passes through
\* the finally clause; the lock is released, a thread runs on unawaited.
CancelArrives(i) ==
    /\ i \in cancelReq
    /\ cancelReq' = cancelReq \ {i}
    /\ lock' = lock \ {i}
    /\ threads' = {IF t.sub = i THEN [t EXCEPT !.awaited = FALSE] ELSE t : t \in threads}
    /\ IF isolated[i] /\ at[i] \in {"agent", "lockMerge", "merge"}
       THEN Goes(i, "lockRemove") /\ leaving' = [leaving EXCEPT ![i] = "cancelled"]
       ELSE Goes(i, "stopped") /\ UNCHANGED leaving
    /\ UNCHANGED <<isolated, attempts, reviews, gitVars, recVars, counters>>

\* Nobody learns what the thread did: no commit is recorded.
OrphanEnds(t) ==
    /\ ~t.awaited
    /\ threads' = threads \ {t}
    /\ CASE t.op = "add"    -> \E added \in MayAdd(t.sub) : WorktreeAdd(t.sub, added)
         [] t.op = "merge"  -> \E merged \in {t.sub \in trees,
                                              t.sub \in trees /\ ~MayConflict(t.sub)} :
                                  WorktreeMerge(t.sub, merged)
         [] t.op = "remove" -> WorktreeRemove(t.sub)
    /\ UNCHANGED <<coVars, lock, recVars, counters>>

\* A resumed run keeps its passed subtasks and starts the others anew, under a
\* new lock.  The commits recorded are not restored, and the next checkpoint of every
\* subtask overwrites them in the run store.
Resume ==
    /\ resumes < MaxResumes
    /\ RunOver /\ \E i \in Subtasks : at[i] # "passed"
    /\ resumes' = resumes + 1
    /\ at' = [i \in Subtasks |-> IF at[i] = "passed" THEN "passed" ELSE "idle"]
    /\ reviews' = [i \in Subtasks |-> 0]
    /\ isolated' = [i \in Subtasks |-> FALSE]
    /\ mergeOf' = [i \in Subtasks |-> 0]
    /\ lock' = {}
    /\ UNCHANGED <<leaving, attempts, cancelReq, threads, gitVars, kept, cancels>>

Exec(i) ==
    \/ Execute(i) \/ AddStarts(i) \/ AddEnds(i) \/ Prepared(i)
    \/ AgentReturns(i) \/ AgentFails(i)
    \/ MergeStarts(i) \/ MergeEnds(i) \/ RemoveStarts(i) \/ RemoveEnds(i)
    \/ ReviewPasses(i) \/ ReviewFails(i)
    \/ CancelArrives(i)

Next ==
    \/ \E i \in Subtasks : Exec(i)
    \/ \E t \in threads : OrphanEnds(t)
    \/ Cancel \/ Resume

Fairness ==
    /\ \A i \in Subtasks : WF_vars(Exec(i))
    /\ WF_vars(\E t \in threads : OrphanEnds(t))

Spec == Init /\ [][Next]_vars /\ Fairness

-----------------------------------------------------------------------------
(* Properties *)

OnBranch == UNION {log[n] : n \in DOMAIN log}

\* One git operation at a time runs on the workspace of the run: the git_lock
\* covers every thread (engine.py:1039, "serializes worktree add/merge").
GitSerial == Cardinality(threads) <= 1

\* The commit recorded for a subtask brings its changes and nobody else's:
\* accepting it delivers that subtask (engine.py:1220, server.py:2199).
RecordedMergeIsOwn ==
    \A i \in Subtasks : mergeOf[i] # 0 =>
        log[mergeOf[i]] # {} /\ \A c \in log[mergeOf[i]] : c[1] = i

\* What a subtask passed for is on the branch of its run, whatever its siblings
\* merged meanwhile, unless a conflict was reported (vcs.py:148-180).
PassedWorkOnBranch ==
    \A i \in Subtasks \ Rivals :
        at[i] = "passed" /\ <<i, attempts[i]>> \in kept => <<i, attempts[i]>> \in OnBranch

\* When the subtasks of the run are over no worktree of theirs is left, nor the
\* branch that would keep another from being added (engine.py:1226-1230).
NothingLeftBehind == RunOver /\ threads = {} => trees = {}

\* A subtask that works has a checkout of its own, at every attempt, unless
\* another run of the project holds its branch (engine.py:1060-1074).
AgentsIsolated == \A i \in Subtasks \ Rivals : at[i] = "agent" => isolated[i]

\* Work that no worktree separates is still accounted for: what an unisolated
\* subtask passed for lies in the workspace until a sibling's snapshot commits
\* it, and is never dropped by an add, a merge or a conflict (vcs.py:119-123,
\* 159-161).
NothingDropped ==
    \A i \in Subtasks :
        at[i] = "passed" /\ <<i, attempts[i]>> \in kept => <<i, attempts[i]>> \in OnBranch \cup dirty

\* In a run that nobody cancels every subtask works for itself: in a checkout of its
\* own, one git operation at a time, and what it passed for lands on the branch, with
\* nothing left behind.  In any run nothing is dropped, and the commit recorded for a
\* subtask is its own, if every execution changes something: the merge of a branch
\* without commits records HEAD (vcs.py:177).
WorkSeparate ==
    /\ TypeOK /\ NothingDropped
    /\ EmptyDiffs \/ RecordedMergeIsOwn
    /\ cancels = 0 => AgentsIsolated /\ GitSerial /\ PassedWorkOnBranch /\ NothingLeftBehind

\* Whatever fails, is cancelled or resumed, the subtasks of the run come to an
\* end and leave the lock free, and a cancelled one ends though a sibling was
\* cancelled while it held the lock: no one waits for the other (engine.py:1064-1230).
AllEnd ==
    /\ []<>(RunOver /\ lock = {})
    /\ \A i \in Subtasks : i \in cancelReq ~> at[i] \in Over
=============================================================================
