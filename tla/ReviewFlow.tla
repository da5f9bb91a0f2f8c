---------------------------- MODULE ReviewFlow ----------------------------
(***************************************************************************)
(* projects.py, vcs.py, gc.py and the review handlers of web/server.py:    *)
(* how the work of a run reaches the project's review target, subtask by   *)
(* subtask or as a whole, how it is taken back, and when its branch may be *)
(* collected.                                                              *)
(*                                                                         *)
(* A subtask may be attempted more than once.  Each attempt that changed   *)
(* something puts a commit of its own on the branch of the run, and the    *)
(* last attempt's is the one on record to be accepted; an attempt that     *)
(* changed nothing leaves the head of the branch on record, whoever's it   *)
(* is.                                                                     *)
(*                                                                         *)
(* A request does its git work in a worker thread and commits its decision *)
(* afterwards, so that requests overlap, and a crash falls between both.   *)
(* In an owned checkout git works in the checkout itself, and the commit   *)
(* it made is read off HEAD by a second command (InCheckout).  Otherwise   *)
(* it works in a temporary worktree; a branch is checked out in one        *)
(* worktree at a time, so that nothing comes between the two commands.     *)
(***************************************************************************)
EXTENDS Integers, Sequences, FiniteSets

CONSTANTS
    Subtasks,       \* the subtasks of the run
    Requests,       \* bound: the requests made; each identity is used once
    Checkouts,      \* the cases considered: is the target checked out in a
                    \* checkout the tool owns
    MaxMerges,      \* bound: the changes the run makes, over all its attempts
    MaxResumes,     \* bound: how often the run is resumed
    MaxCrashes      \* bound: how often the server dies

ASSUME ReviewAssumption ==
    /\ IsFiniteSet(Subtasks)
    /\ Checkouts \subseteq BOOLEAN
    /\ {MaxMerges, MaxResumes, MaxCrashes} \subseteq Nat

\* What an attempt of a subtask changed: its merge commit on the branch.
Changes == [of : Subtasks, no : 1 .. MaxMerges]
Of(i) == {c \in Changes : c.of = i}

VARIABLES
    inCheckout, \* does git work in the checkout of the target
    run,        \* runs.status
    work,       \* the changes on the branch of the run
    head,       \* the one its head is, if any
    mergeOf,    \* subtask_states.merge_commit: {}, or the change of that commit
    branch,     \* does the branch ada/<run id> exist
    log,        \* commits of the review target: what each adds and removes
    onTarget,   \* the changes the target contains
    mergedIn,   \* the changes of the branch that merges brought in
    decision,   \* subtask_reviews.decision
    accepted,   \* subtask_reviews.accepted_commit: a position in log, 0 for none
    req,        \* where each request stands
    resumes, crashes,
    disturbed,  \* history: subtasks two requests worked on at once (in a checkout:
                \* whose requests overlapped with any), or a crash hit
    recorded,   \* history: all that was ever the merge commit of a subtask
    late        \* history: changes that came after the decision of their subtask

gitVars    == <<branch, log, onTarget, mergedIn>>
reviewVars == <<decision, accepted>>
runVars    == <<inCheckout, run, work, head, mergeOf, recorded, resumes, late>>
vars == <<runVars, gitVars, reviewVars, req, crashes, disturbed>>

Terminal    == {"completed", "failed", "partial"}     \* _TERMINAL_STATUSES
Resumable   == {"failed", "partial"}                  \* _RESUMABLE_STATUSES
Collectible == {"completed", "failed"}                \* _COLLECTIBLE_STATUSES

Free == [op |-> "none", subs |-> {}, picks |-> {}, at |-> "free", commit |-> 0]
Done == [Free EXCEPT !.at = "done"]
\* The stages of a request: before its git command, before reading HEAD, before
\* reading the reviews, before committing its decision, over.
Stages == {"free", "git", "head", "reads", "record", "done"}

InFlight(r) == req[r].at \notin {"free", "done"}
\* deliver does its bookkeeping on the event loop, without an await.
LoopHeld == \E r \in Requests : req[r].op = "deliver" /\ req[r].at = "record"

Init ==
    /\ inCheckout \in Checkouts
    /\ run = "running"
    /\ work = {} /\ head = {}
    /\ mergeOf = [i \in Subtasks |-> {}]
    /\ recorded = [i \in Subtasks |-> {}]
    /\ branch = TRUE
    /\ log = <<>> /\ onTarget = {} /\ mergedIn = {}
    /\ decision = [i \in Subtasks |-> "none"]
    /\ accepted = [i \in Subtasks |-> 0]
    /\ req = [r \in Requests |-> Free]
    /\ resumes = 0 /\ crashes = 0
    /\ disturbed = {} /\ late = {}

-----------------------------------------------------------------------------
(* Commits on the review target. *)

Commit(adds, removes) ==
    /\ log' = Append(log, [adds |-> adds, removes |-> removes])
    /\ onTarget' = (onTarget \ removes) \cup adds

\* cherry_pick_merge, cherry_pick_in_checkout.  Git refuses a pick that leaves
\* nothing to commit.
CherryPick(cs) ==
    /\ cs \cap onTarget = {}
    /\ Commit(cs, {})
    /\ UNCHANGED <<branch, mergedIn>>

\* revert_merge, revert_in_checkout.
Revert(k) ==
    /\ log[k].adds \cup log[k].removes # {}
    /\ log[k].adds \subseteq onTarget
    /\ log[k].removes \cap onTarget = {}
    /\ Commit(log[k].removes, log[k].adds)
    /\ UNCHANGED <<branch, mergedIn>>

\* merge_branch, merge_in_checkout.  What was merged before stays as the target
\* has it; what was only picked, or picked and reverted, comes in with the merge.
MergeBranch ==
    /\ branch
    /\ mergedIn' = mergedIn \cup work
    /\ IF work \subseteq mergedIn
       THEN UNCHANGED <<log, onTarget>>                \* Already up to date
       ELSE Commit(work \ mergedIn, {})
    /\ UNCHANGED branch

-----------------------------------------------------------------------------
(* The run. *)

\* worktree_merge at the end of an attempt, under the lock of the run.  A merge that
\* brings nothing succeeds, and the commit then read is whatever the head is.  The
\* checkpoint of the attempt may fail, or the server die before it.
Merges(i, change) ==
    /\ run = "running" /\ branch
    /\ work' = work \cup change
    /\ head' = IF change = {} THEN head ELSE change
    /\ recorded' = [recorded EXCEPT ![i] = @ \cup head']
    /\ \E m \in {head', mergeOf[i]} : mergeOf' = [mergeOf EXCEPT ![i] = m]
    /\ late' = IF \/ decision[i] # "none"
                  \/ \E r \in Requests : InFlight(r) /\ req[r].op = "deliver"
               THEN late \cup change ELSE late
    /\ UNCHANGED <<inCheckout, run, resumes, gitVars, reviewVars, req, crashes, disturbed>>

MergesNothing(i) == Merges(i, {})

MergesChange(i) ==
    \E c \in Of(i) :
        /\ c \notin recorded[i]
        /\ \A n \in 1 .. c.no - 1 : [of |-> i, no |-> n] \in recorded[i]  \* numbered in order
        /\ Cardinality(UNION {recorded[j] : j \in Subtasks}) < MaxMerges
        /\ Merges(i, {c})

\* The merge conflicts and is aborted.
MergeConflicts(i) ==
    /\ run = "running" /\ branch
    /\ mergeOf' = [mergeOf EXCEPT ![i] = {}]
    /\ UNCHANGED <<inCheckout, run, work, head, recorded, resumes, late,
                   gitVars, reviewVars, req, crashes, disturbed>>

\* A session ends.  With git_mode "merge" a completed run merges its branch by itself,
\* unless the target is checked out.
RunEnds ==
    /\ run = "running"
    /\ \E st \in Terminal :
        /\ run' = st
        /\ \/ UNCHANGED gitVars
           \/ st = "completed" /\ ~inCheckout /\ MergeBranch
    /\ UNCHANGED <<inCheckout, work, head, mergeOf, recorded, resumes, late,
                   reviewVars, req, crashes, disturbed>>

\* resume_task; task_worktree_add puts the branch back to work, or makes it anew.  The
\* next checkpoint of a subtask restored from an earlier session has no merge commit.
ResumeRun ==
    /\ run \in Resumable /\ ~LoopHeld
    /\ resumes < MaxResumes
    /\ resumes' = resumes + 1
    /\ run' = "running"
    /\ branch' = TRUE
    /\ work' = IF branch THEN work ELSE {}
    /\ head' = IF branch THEN head ELSE {}
    /\ \E restored \in SUBSET Subtasks :
        mergeOf' = [i \in Subtasks |-> IF i \in restored THEN {} ELSE mergeOf[i]]
    /\ UNCHANGED <<inCheckout, recorded, late, log, onTarget, mergedIn, reviewVars, req, crashes, disturbed>>

-----------------------------------------------------------------------------
(* Requests. *)

Touched(a, b) == IF inCheckout /\ a # {} /\ b # {} THEN a \cup b ELSE a \cap b

Starts(r, op, subs, picks, commit) ==
    /\ req[r] = Free /\ ~LoopHeld
    /\ \A q \in Requests : req[q] # Free \/ r = q \/ ~(q < r)   \* identities in order
    /\ req' = [req EXCEPT ![r] = [op |-> op, subs |-> subs, picks |-> picks,
                                   at |-> "git", commit |-> commit]]
    /\ disturbed' = disturbed \cup
                    UNION {Touched(subs, req[q].subs) : q \in {q \in Requests : InFlight(q)}}
    /\ UNCHANGED <<runVars, gitVars, reviewVars, crashes>>

AcceptStarts(r, i) ==
    /\ run \in Terminal
    /\ mergeOf[i] # {}
    /\ Starts(r, "accept", {i}, mergeOf[i], 0)

\* Mutant of AcceptPicks: the commit is read off the branch after the temporary
\* worktree is gone.
AcceptPicksReadsLate(r) ==
    /\ req[r].op = "accept" /\ req[r].at = "git"
    /\ CherryPick(req[r].picks)
    /\ req' = [req EXCEPT ![r].at = "head"]
    /\ UNCHANGED <<runVars, reviewVars, crashes, disturbed>>

AcceptPicks(r) ==
    /\ req[r].op = "accept" /\ req[r].at = "git"
    /\ CherryPick(req[r].picks)
    /\ req' = [req EXCEPT ![r].at = IF inCheckout THEN "head" ELSE "record",
                          ![r].commit = IF inCheckout THEN 0 ELSE Len(log')]
    /\ UNCHANGED <<runVars, reviewVars, crashes, disturbed>>

\* The rev-parse after a pick in the checkout.
ReadsHead(r) ==
    /\ req[r].at = "head"
    /\ req' = [req EXCEPT ![r].at = "record", ![r].commit = Len(log)]
    /\ UNCHANGED <<runVars, gitVars, reviewVars, crashes, disturbed>>

AcceptRecords(r) ==
    /\ req[r].op = "accept" /\ req[r].at = "record"
    /\ \E i \in req[r].subs :
        /\ decision' = [decision EXCEPT ![i] = "accepted"]
        /\ accepted' = [accepted EXCEPT ![i] = req[r].commit]
    /\ req' = [req EXCEPT ![r] = Done]
    /\ UNCHANGED <<runVars, gitVars, crashes, disturbed>>

RollbackStarts(r, i) ==
    /\ decision[i] = "accepted" /\ accepted[i] # 0
    /\ Starts(r, "rollback", {i}, {}, accepted[i])

RollbackReverts(r) ==
    /\ req[r].op = "rollback" /\ req[r].at = "git"
    /\ Revert(req[r].commit)
    /\ req' = [req EXCEPT ![r].at = "record"]
    /\ UNCHANGED <<runVars, reviewVars, crashes, disturbed>>

RollbackRecords(r) ==
    /\ req[r].op = "rollback" /\ req[r].at = "record"
    /\ \E i \in req[r].subs : decision' = [decision EXCEPT ![i] = "rolled_back"]
    /\ req' = [req EXCEPT ![r] = Done]
    /\ UNCHANGED <<runVars, gitVars, accepted, crashes, disturbed>>

DeliverStarts(r) ==
    /\ run \in Terminal
    /\ Starts(r, "deliver", Subtasks, {}, 0)

DeliverMerges(r) ==
    /\ req[r].op = "deliver" /\ req[r].at = "git"
    /\ MergeBranch
    /\ req' = [req EXCEPT ![r].at = "reads"]
    /\ UNCHANGED <<runVars, reviewVars, crashes, disturbed>>

\* Every subtask has a row in subtask_states; those without a review are accepted.
DeliverReads(r) ==
    /\ req[r].at = "reads" /\ ~LoopHeld
    /\ req' = [req EXCEPT ![r].at = "record",
                          ![r].subs = {i \in Subtasks : decision[i] = "none"}]
    /\ UNCHANGED <<runVars, gitVars, reviewVars, crashes, disturbed>>

DeliverRecords(r) ==
    /\ req[r].op = "deliver" /\ req[r].at = "record"
    /\ IF req[r].subs = {}
       THEN req' = [req EXCEPT ![r] = Done] /\ UNCHANGED decision
       ELSE \E i \in req[r].subs :
            /\ decision' = [decision EXCEPT ![i] = "accepted"]
            /\ req' = [req EXCEPT ![r].subs = @ \ {i}]
    /\ UNCHANGED <<runVars, gitVars, accepted, crashes, disturbed>>

\* Mutant of Refused: rollback_accept records the decision whatever git answered.
RefusedRecords(r) ==
    /\ req[r].at = "git"
    /\ req' = [req EXCEPT ![r] = IF req[r].op = "rollback"
                                 THEN [req[r] EXCEPT !.at = "record"] ELSE Done]
    /\ UNCHANGED <<runVars, gitVars, reviewVars, crashes, disturbed>>

\* Git refuses: a conflict, uncommitted changes, a target checked out elsewhere, an
\* empty pick or revert, a branch that is gone.
Refused(r) ==
    /\ req[r].at = "git"
    /\ req' = [req EXCEPT ![r] = Done]
    /\ UNCHANGED <<runVars, gitVars, reviewVars, crashes, disturbed>>

\* reject_subtask: one commit, at any time, without git.
Reject(i) ==
    /\ ~LoopHeld
    /\ decision' = [decision EXCEPT ![i] = "rejected"]
    /\ disturbed' = disturbed \cup
                    UNION {{i} \cap req[q].subs : q \in {q \in Requests : InFlight(q)}}
    /\ UNCHANGED <<runVars, gitVars, accepted, req, crashes>>

-----------------------------------------------------------------------------
(* Collecting the branch. *)

\* _fully_accepted.  Mutant: a subtask without a decision does not count.
FullyAcceptedIfDecided == \A i \in Subtasks : decision[i] \in {"accepted", "none"}
FullyAccepted == \A i \in Subtasks : decision[i] = "accepted"

\* cleanup: the report first, then git branch -D, without looking again.
GcReports(r) ==
    /\ branch
    /\ run \in Collectible                      \* and older than keep_days
    /\ FullyAccepted
    /\ Starts(r, "gc", {}, {}, 0)

GcRemoves(r) ==
    /\ req[r].op = "gc" /\ req[r].at = "git"
    /\ branch' = FALSE
    /\ req' = [req EXCEPT ![r] = Done]
    /\ UNCHANGED <<runVars, log, onTarget, mergedIn, reviewVars, crashes, disturbed>>

\* The server dies with its requests, and a run is marked interrupted.
Crash ==
    /\ crashes < MaxCrashes
    /\ \E r \in Requests : InFlight(r)
    /\ crashes' = crashes + 1
    /\ disturbed' = disturbed \cup UNION {req[r].subs : r \in {q \in Requests : InFlight(q)}}
    /\ req' = [r \in Requests |-> IF InFlight(r) THEN Done ELSE req[r]]
    /\ run' = IF run = "running" THEN "partial" ELSE run
    /\ UNCHANGED <<inCheckout, late, work, head, mergeOf, recorded, resumes, gitVars, reviewVars>>

Next ==
    \/ RunEnds \/ ResumeRun \/ Crash
    \/ \E i \in Subtasks : MergesChange(i) \/ MergesNothing(i) \/ MergeConflicts(i) \/ Reject(i)
    \/ \E r \in Requests :
        \/ \E i \in Subtasks : AcceptStarts(r, i) \/ RollbackStarts(r, i)
        \/ DeliverStarts(r) \/ GcReports(r)
        \/ AcceptPicks(r) \/ ReadsHead(r) \/ AcceptRecords(r)
        \/ RollbackReverts(r) \/ RollbackRecords(r)
        \/ DeliverMerges(r) \/ DeliverReads(r) \/ DeliverRecords(r)
        \/ Refused(r) \/ GcRemoves(r)

Spec == Init /\ [][Next]_vars

-----------------------------------------------------------------------------
(* Properties. *)

Decisions == {"none", "accepted", "rejected", "rolled_back"}
Request == [op : {"none", "accept", "rollback", "deliver", "gc"}, subs : SUBSET Subtasks,
            picks : SUBSET Changes, at : Stages, commit : Nat]

\* The type of every variable; what is about to be recorded as the accepted commit is one.
TypeOK ==
    /\ run \in Terminal \cup {"running"}
    /\ {work, head, onTarget, mergedIn, late} \subseteq SUBSET Changes
    /\ {mergeOf, recorded} \subseteq [Subtasks -> SUBSET Changes]
    /\ disturbed \subseteq Subtasks
    /\ branch \in BOOLEAN
    /\ log \in Seq([adds : SUBSET Changes, removes : SUBSET Changes])
    /\ decision \in [Subtasks -> Decisions]
    /\ accepted \in [Subtasks -> 0..Len(log)]
    /\ req \in [Requests -> Request]
    /\ \A r \in Requests : req[r].op = "accept" /\ req[r].at = "record"
                             => req[r].commit \in DOMAIN log
    /\ {resumes, crashes} \subseteq Nat

Quiet(i) == i \notin disturbed /\ \A r \in Requests : InFlight(r) => i \notin req[r].subs

\* Changes that were on record as the merge commit of another subtask, which had changed
\* nothing: whoever accepts or rolls back the one moves the change of the other.
Shared == {c \in Changes : \E i \in Subtasks \ {c.of} : c \in recorded[i]}

\* What the decision on a subtask speaks of: the commit of its acceptance, or all it had
\* on the branch.
Decided(i) == IF accepted[i] # 0 THEN log[accepted[i]].adds ELSE (work \ late) \cap Of(i)

\* What is on record as accepted is on the review target; what is there was accepted
\* once, or came with the whole branch; what was rolled back is not, unless the whole
\* branch was delivered (accept_subtask, rollback_accept, deliver_task).  Between the
\* git command and the commit of a request, and after two requests worked on one
\* subtask at once or a crash hit them, either may be ahead of the other; and a decision
\* says nothing of what a resumed run adds later, nor of a shared change.
TargetMatchesDecisions ==
    \A i \in {i \in Subtasks : Quiet(i)} :
        /\ decision[i] = "accepted" => Decided(i) \subseteq onTarget \cup Shared
        /\ accepted[i] = 0 => onTarget \cap Of(i) \subseteq mergedIn \cup Shared
        /\ decision[i] = "rolled_back" => Decided(i) \cap onTarget \subseteq mergedIn \cup Shared

\* A change leaves the review target only by a rollback that someone asked for a subtask
\* whose merge commit it was: rolling one back takes nothing else away (rollback_accept
\* reverts the recorded accept commit), unless its requests were disturbed.
RollbackTakesOwn ==
    [][\A c \in onTarget \ onTarget' :
        \E r \in Requests :
            /\ req[r].op = "rollback"
            /\ \/ \E i \in req[r].subs : c \in recorded[i]
               \/ req[r].subs \subseteq disturbed]_vars

\* Whatever is collected, and however old the report it was collected by, every change
\* the branch held when its subtask was decided is in the history of the review target,
\* unless the subtask was accepted by itself and had another merge commit besides: an
\* accept brings one (gc.cleanup).
Brought == UNION {log[k].adds : k \in DOMAIN log}
PassedOver(c) == accepted[c.of] # 0 /\ recorded[c.of] # {c}
NoWorkLost == branch \/ \A c \in work \ late : c \in Brought \/ PassedOver(c)

\* Between any two steps of the requests what is recorded and what git holds agree, and
\* nothing that was decided upon is lost.
ReviewSound == TypeOK /\ TargetMatchesDecisions /\ NoWorkLost

-----------------------------------------------------------------------------
(* What the documents say beyond that, and the code does not do. *)

\* Rolling a subtask back reverts exactly the commit of its acceptance, so that it
\* takes nothing else away (rollback_accept).
RollbackRevertsExactly ==
    [][\A c \in onTarget \ onTarget' :
        \E r \in Requests : req[r].op = "rollback" /\ c.of \in req[r].subs]_vars

\* Accepting a subtask takes its work over (accept_subtask), whatever it took to make it.
AcceptBringsAll ==
    \A i \in {i \in Subtasks : Quiet(i)} :
        decision[i] = "accepted" => (work \ late) \cap Of(i) \subseteq onTarget

\* A branch is collected only when all the work on it was accepted (gc.py).
CollectedIsDelivered == branch \/ work \subseteq Brought
=============================================================================
