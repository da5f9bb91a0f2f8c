------------------------------ MODULE AgentLoop ------------------------------
(***************************************************************************)
(* AgentLoop: what the subtasks of one run do inside execute and verify    *)
(* (engine.py), side by side: the turns of their agents, each a call of    *)
(* the model with its retries (llm/), the budget they share, the merge of  *)
(* each into the one workspace, and the objective signals by which each    *)
(* is then judged (verification.py).                                       *)
(*                                                                         *)
(* The loop around them (sessions, order, backoff) is module Scheduler's   *)
(* and the git operations are module Worktrees'.  The workspace is here    *)
(* for each subtask the tests named after its files, if there are any,     *)
(* which only its own change breaks or repairs; static checks count in it  *)
(* whatever number of problems, as any change may move it.  What the code  *)
(* does not read again before it sets it anew has its initial value here.  *)
(***************************************************************************)
EXTENDS Integers, FiniteSets

CONSTANTS
    Subtasks,       \* subtasks that run at the same time
    Budget,         \* settings.budget_usd, which is set
    MaxCost,        \* bound: what one call costs, at least 1
    MaxDelegated,   \* bound: what the delegations of one turn cost, on either provider
    MaxTurns,       \* settings.agent_max_turns
    MaxRetries,     \* settings.llm_max_retries
    BaselineGreen,  \* the tests passed before the run
    Checks,         \* the static checks detected before the run
    Uncounted,      \* those that gave no count then
    OldProblems,    \* what each of them finds before the run
    MaxProblems,    \* bound: what each of them finds at most
    MaxTries        \* how often the scheduler executes a subtask

ASSUME AgentLoopAssumption ==
    /\ IsFiniteSet(Subtasks) /\ BaselineGreen \in BOOLEAN
    /\ {MaxDelegated, MaxRetries, MaxProblems} \subseteq Nat
    /\ Uncounted \subseteq Checks /\ OldProblems \in 0 .. MaxProblems
    /\ {Budget, MaxCost, MaxTurns, MaxTries} \subseteq Nat \ {0}

VARIABLES
    spent,      \* usage.cost_usd of the provider all agents share
    at,         \* where each subtask stands
    tries,      \* how often it was executed
    cap,        \* the max_cost_usd its agent was given
    turns,      \* turns of its agent in this execution
    retry,      \* requests of the present turn that failed
    before,     \* before_cost: what was spent when it started
    since,      \* subtasks whose files differ from before_files
    changed,    \* _changed_by_subtask
    cost,       \* _cost_by_subtask
    llm,        \* the reviewer's verdict passed it
    named,      \* tests named after its files: none, or whether they pass
    own,        \* history: what its last execution spent of the shared provider
    unseen,     \* history: what delegations spent of providers of their own
    shown       \* history: the subtasks whose last execution changed a file's size

execution == <<tries, cap, turns, retry, before, own>>
workspace == <<named, since, shown>>
judgement == <<changed, cost, llm>>
vars == <<spent, unseen, at, execution, workspace, judgement>>

Settled == {"passed", "failed", "stopped"}
Executing == {"prepares", "calls", "waits", "merges", "merged"}
Places == {"new", "review", "tests"} \cup Executing \cup Settled

Zero == [s \in Subtasks |-> 0]
Nothing == [s \in Subtasks |-> {}]
Outcomes == {"none", "green", "red"}

Init ==
    /\ spent = 0 /\ unseen = 0 /\ at = [s \in Subtasks |-> "new"]
    /\ tries = Zero /\ cap = Zero /\ turns = Zero /\ retry = Zero
    /\ before = Zero /\ own = Zero /\ cost = Zero
    /\ named = [s \in Subtasks |-> "none"] /\ shown = {}
    /\ since = Nothing /\ changed = Nothing
    /\ llm = [s \in Subtasks |-> FALSE]

To(s, place) == at' = [at EXCEPT ![s] = place]

\* _attempt_loop and _execute_with_backoff: once more, or the end.  Whether it
\* fails then or is passed with caveats is module Scheduler's.
Again(s) == IF tries[s] < MaxTries THEN "new" ELSE "failed"

-----------------------------------------------------------------------------
(* execute. *)

\* BudgetExceeded, or a cancelled run: the scheduler stops what is not settled.
StopAll ==
    /\ at' = [s \in Subtasks |-> IF at[s] \in Settled THEN at[s] ELSE "stopped"]
    /\ cap' = Zero /\ turns' = Zero /\ retry' = Zero /\ before' = Zero /\ own' = Zero
    /\ cost' = Zero /\ since' = Nothing /\ changed' = Nothing
    /\ llm' = [s \in Subtasks |-> FALSE]
    /\ UNCHANGED <<spent, unseen, tries, named, shown>>

OverBudget == spent > Budget

Refuses == (\E s \in Subtasks : at[s] = "new" /\ OverBudget) /\ StopAll
Cancel == (\E s \in Subtasks : at[s] \notin Settled) /\ StopAll

Starts(s) ==
    /\ at[s] = "new" /\ ~OverBudget
    /\ To(s, "prepares")
    /\ tries' = [tries EXCEPT ![s] = @ + 1]
    /\ before' = [before EXCEPT ![s] = spent] /\ own' = [own EXCEPT ![s] = 0]
    /\ since' = [since EXCEPT ![s] = {}] /\ shown' = shown \ {s}
    /\ UNCHANGED <<spent, unseen, cap, turns, retry, named, judgement>>

\* The top of run_agent's loop.  Mutant: the cap is not looked at again.
Unchecked(n, paid, limit) == IF n < MaxTurns /\ (n > 0 \/ paid < limit) THEN "calls" ELSE "merges"
Top(n, paid, limit) == IF n < MaxTurns /\ paid < limit THEN "calls" ELSE "merges"

\* The locals of run_agent, which are gone once the loop is left.
Locals(s, place, limit, n, failed) ==
    LET on == place \in {"calls", "waits"}
    IN  /\ cap' = [cap EXCEPT ![s] = IF on THEN limit ELSE 0]
        /\ turns' = [turns EXCEPT ![s] = IF on THEN n ELSE 0]
        /\ retry' = [retry EXCEPT ![s] = IF on THEN failed ELSE 0]
        /\ To(s, place)

\* The worktree and the context stand.  The agent gets what is left of the budget.
Remaining == IF spent < Budget THEN Budget - spent ELSE 0

Begins(s) ==
    /\ at[s] = "prepares"
    /\ Locals(s, Top(0, spent, Remaining), Remaining, 0, 0)
    /\ UNCHANGED <<spent, unseen, tries, before, own, workspace, judgement>>

\* spawn: a delegated agent calls the model as often as it likes, without a cap.  After a
\* RuntimeError (any LLMError is one) it is run once more, on a provider of its own, whose
\* usage nobody reads.
Delegations == [shared : 0 .. MaxDelegated, apart : 0 .. MaxDelegated]

\* The model answers; its tools run to their end in the same step.
Answers(s) ==
    /\ at[s] = "calls"
    /\ \E c \in 1 .. MaxCost, d \in Delegations, more \in BOOLEAN :
          /\ ~more => d.shared = 0 /\ d.apart = 0
          /\ spent' = spent + c + d.shared /\ unseen' = unseen + d.apart
          /\ own' = [own EXCEPT ![s] = @ + c + d.shared]
          /\ Locals(s, IF more THEN Top(turns[s] + 1, spent', cap[s]) ELSE "merges",
                    cap[s], turns[s] + 1, 0)
    /\ UNCHANGED <<tries, before, workspace, judgement>>

\* The end of an execution that raised.
Drop(s) ==
    /\ before' = [before EXCEPT ![s] = 0] /\ own' = [own EXCEPT ![s] = 0]
    /\ since' = [since EXCEPT ![s] = {}]

\* with_retry, for the attempts one call has.  Mutant: they are not counted.
NotCounted(s) == retry[s]
Attempt(s) == retry[s] + 1

FailsForNow(s) ==
    /\ at[s] = "calls" /\ Attempt(s) <= MaxRetries
    /\ Locals(s, "waits", cap[s], turns[s], Attempt(s))
    /\ UNCHANGED <<spent, unseen, tries, before, own, workspace, judgement>>

WaitEnds(s) ==
    /\ at[s] = "waits" /\ To(s, "calls")
    /\ UNCHANGED <<spent, unseen, execution, workspace, judgement>>

\* TransientLLMError: the scheduler executes again.
GivesUp(s) ==
    /\ at[s] = "calls" /\ Attempt(s) > MaxRetries
    /\ Locals(s, Again(s), 0, 0, 0) /\ Drop(s)
    /\ UNCHANGED <<spent, unseen, tries, named, shown, judgement>>

\* An error that is not retried, or the wall-clock cap of the subtask.
FailsForGood(s) ==
    /\ at[s] \in {"calls", "waits"}
    /\ Locals(s, "failed", 0, 0, 0) /\ Drop(s)
    /\ UNCHANGED <<spent, unseen, tries, named, shown, judgement>>

\* worktree_merge.  _file_index knows a file by its size alone, and sees what
\* the siblings merge meanwhile too.
Put(set, s, b) == IF b THEN set \cup {s} ELSE set \ {s}

Merges(s) ==
    /\ at[s] = "merges" /\ To(s, "merged")
    /\ \E tests \in Outcomes, resized \in BOOLEAN :
          /\ named' = [named EXCEPT ![s] = tests]
          /\ shown' = Put(shown, s, resized)
          /\ since' = [x \in Subtasks |-> IF at[x] \in Executing /\ resized
                                          THEN since[x] \cup {s} ELSE since[x]]
    /\ UNCHANGED <<spent, unseen, execution, judgement>>

\* A conflict, or an agent that changed nothing.
MergesNothing(s) ==
    /\ at[s] = "merges" /\ To(s, "merged")
    /\ UNCHANGED <<spent, unseen, execution, workspace, judgement>>

\* The end of execute, with _cost_delta and _emit_diff.
\* Mutants: one before_cost for all; the index is taken after the merge.
FromLatest(s) == spent - (CHOOSE m \in {before[x] : x \in Subtasks} :
                                \A x \in Subtasks : before[x] <= m)
CostDelta(s) == spent - before[s]
OthersFiles(s) == since[s] \ {s}
EmitDiff(s) == since[s]

Returns(s) ==
    /\ at[s] = "merged" /\ To(s, "review")
    /\ cost' = [cost EXCEPT ![s] = CostDelta(s)]
    /\ changed' = [changed EXCEPT ![s] = EmitDiff(s)]
    /\ Drop(s)
    /\ UNCHANGED <<spent, unseen, tries, cap, turns, retry, named, shown, llm>>

-----------------------------------------------------------------------------
(* verify. *)

Reviewed(s) ==
    /\ at[s] = "review" /\ To(s, "tests")
    /\ \E c \in 1 .. MaxCost, verdict \in BOOLEAN :
          /\ spent' = spent + c /\ llm' = [llm EXCEPT ![s] = verdict]
    /\ UNCHANGED <<unseen, execution, workspace, changed, cost>>

\* The attempt ends with a verdict.
Ends(s, passed) ==
    /\ To(s, IF passed THEN "passed" ELSE Again(s))
    /\ changed' = [changed EXCEPT ![s] = {}]
    /\ cost' = [cost EXCEPT ![s] = 0] /\ llm' = [llm EXCEPT ![s] = FALSE]

\* An error in verify is a verdict that did not pass.
ReviewFails(s) ==
    /\ at[s] = "review" /\ Ends(s, FALSE)
    /\ UNCHANGED <<spent, unseen, execution, workspace>>

\* _select_test_paths: the tests named after the changed files, and the changed tests.
Selected(s) == {x \in changed[s] : named[x] # "none"}

\* gather_signals runs them in a thread, in the workspace.  A timeout is a failure.
TestResults(s) ==
    {result \in Outcomes :
        /\ result = "none" <=> Selected(s) = {}
        /\ result = "green" => \A x \in Selected(s) : named[x] = "green"}

\* run_static_checks leaves out a check that times out or crashes.  static_delta_note
\* compares counts, so that what one change repairs makes up for what another breaks.
Counts == UNION {[checks -> 0 .. MaxProblems] : checks \in SUBSET Checks}
BaselineCount(k) == IF k \in Uncounted THEN 0 ELSE OldProblems
Regressed(post) == \E k \in DOMAIN post : post[k] > BaselineCount(k)

\* apply_objective_gate.  Tests that failed before the run are not held against the subtask.
NewlyFailing(result) == result = "red" /\ BaselineGreen
ObjectiveGate(s, result, post) ==
    ~NewlyFailing(result) /\ ~Regressed(post) /\ (llm[s] \/ result = "green")

\* The tests, the static checks and the gate, then the end of the attempt.
Judged(s) ==
    /\ at[s] = "tests"
    /\ \E passed \in {ObjectiveGate(s, result, post) : result \in TestResults(s), post \in Counts} :
          Ends(s, passed)
    /\ UNCHANGED <<spent, unseen, execution, workspace>>

-----------------------------------------------------------------------------
SubtaskStep(s) ==
    \/ Starts(s) \/ Begins(s) \/ Answers(s) \/ FailsForNow(s) \/ WaitEnds(s)
    \/ GivesUp(s) \/ FailsForGood(s) \/ Merges(s) \/ MergesNothing(s) \/ Returns(s)
    \/ Reviewed(s) \/ ReviewFails(s) \/ Judged(s)

Next == Refuses \/ Cancel \/ \E s \in Subtasks : SubtaskStep(s)

\* Calls and commands have a timeout, so that every await comes to an end.
Spec == Init /\ [][Next]_vars
             /\ WF_vars(Refuses) /\ \A s \in Subtasks : WF_vars(SubtaskStep(s))

-----------------------------------------------------------------------------
(* Properties. *)

TypeOK ==
    /\ spent \in Nat /\ at \in [Subtasks -> Places]
    /\ tries \in [Subtasks -> 0 .. MaxTries]
    /\ cap \in [Subtasks -> 0 .. Budget] /\ turns \in [Subtasks -> 0 .. MaxTurns]
    /\ retry \in [Subtasks -> 0 .. MaxRetries]
    /\ before \in [Subtasks -> 0 .. Budget] /\ own \in [Subtasks -> Nat]
    /\ cost \in [Subtasks -> Nat] /\ llm \in [Subtasks -> BOOLEAN]
    /\ unseen \in Nat /\ shown \subseteq Subtasks
    /\ named \in [Subtasks -> Outcomes]
    /\ since \in [Subtasks -> SUBSET Subtasks] /\ changed \in [Subtasks -> SUBSET Subtasks]

\* What is spent of the run's provider beyond the budget is at most, of each subtask that
\* runs, a turn with its delegations and a review: run_agent stops before a turn that would
\* overspend, execute before a subtask that would.  What delegations spend of providers of
\* their own is in no usage the budget reads, but each belongs to a turn that is.
SpendBounded ==
    /\ spent <= Budget + Cardinality(Subtasks) * (2 * MaxCost + MaxDelegated)
    /\ unseen <= spent * MaxDelegated

\* The cost attributed to a subtask covers what its execution spent of the run's provider
\* (cost_by_subtask); a delegation that is run again on a provider of its own is in no cost.
CostCoversOwn ==
    [][\A s \in Subtasks : at[s] = "merged" /\ at'[s] = "review" => cost'[s] >= own[s]]_vars

\* Work that passes has not broken the tests named after its files, where they passed
\* before the run and the last execution changed a file's size, whatever the reviewer says
\* and whatever its siblings merge meanwhile.
NothingBrokenPasses ==
    \A s \in Subtasks :
        at[s] = "passed" /\ named[s] = "red" /\ s \in shown => ~BaselineGreen

\* Every subtask comes to an end, however often calls fail.
AllSettle == <>[](\A s \in Subtasks : at[s] \in Settled)

\* An agent is turned away before its first turn only when the budget is spent
\* (provider.run_agent, max_cost_usd).
TurnedAwayWhenSpent ==
    [][\A s \in Subtasks : at[s] = "prepares" /\ at'[s] = "merges" => spent >= Budget]_vars

\* A subtask the reviewer rejected passes on the strength of tests of its own
\* changes only (the soft pass of apply_objective_gate).
SoftPassIsOwn ==
    [][\A s \in Subtasks : at[s] = "tests" /\ at'[s] = "passed" /\ ~llm[s] => s \in shown]_vars

\* Siblings cannot fail each other, as only tests of a subtask's own changes are run for it
\* (Engine._make_verify).
SiblingsCannotFail == \A s \in Subtasks : at[s] = "tests" => Selected(s) \subseteq {s}
=============================================================================
