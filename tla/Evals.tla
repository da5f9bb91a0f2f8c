------------------------------- MODULE Evals --------------------------------
(***************************************************************************)
(* The golden suite and its history: evals/harness.py runs every task of   *)
(* the suite, each some number of times, grades what a run left behind and *)
(* reports; evals/history.py appends the scores to a file of lines and     *)
(* reads them back for the trend.  What a run comes to and what a grader   *)
(* says of it is up to the engine under test.                              *)
(*                                                                         *)
(* Repeats are at least 1 (run_eval); every task has at least one part.    *)
(***************************************************************************)
EXTENDS Integers, Sequences, FiniteSets

CONSTANTS
    Suite,      \* the tasks: [missing: a tool is not installed,
                \*   setup: projects are imported first,
                \*   parts: engines at most, one per project, graded: graders]
    Repeats,    \* the attempts per task that each command asks for
    Shas, Suites,   \* commits, and names of suites in the history
    MaxCrashes  \* bound

VARIABLES
    at,         \* "idle", "task", "setup", "running", "closing", "append", "exit"
    task,       \* the index of the task
    tries,      \* its attempts so far
    card,       \* the card of the attempt under way
    cards,      \* the report: a card per attempt
    engines,    \* engines of the attempt that are open
    sha,        \* the commit checked out
    suite,      \* the name the scores are recorded under
    lines,      \* benchmarks.jsonl; a line is whole, or does not parse
    newline,    \* the file ends with a line break
    evals, crashes,
    \* history
    recorded    \* entries that were written to a line of their own

eval_vars == <<at, task, tries, card, cards, engines>>
file_vars == <<lines, newline, recorded>>
vars == <<eval_vars, file_vars, sha, suite, evals, crashes>>

Card == [task |-> task, passed |-> FALSE, skipped |-> FALSE, graders |-> <<>>,
         status |-> "none", error |-> FALSE]
NoCard == [task |-> 0]
MaxEvals == Len(Repeats)

Init == /\ at = "idle" /\ task = 0 /\ tries = 0 /\ card = NoCard /\ cards = <<>>
        /\ engines = 0 /\ sha \in Shas /\ suite \in Suites
        /\ lines = <<>> /\ newline = TRUE /\ recorded = <<>>
        /\ evals = 0 /\ crashes = 0

Commit == /\ at = "idle" /\ evals \in 1 .. MaxEvals - 1
          /\ sha' \in Shas \ {sha}
          /\ UNCHANGED <<eval_vars, file_vars, suite, evals, crashes>>

(* run_eval: the tasks one after the other.                                *)
Begin == /\ at = "idle" /\ evals < MaxEvals /\ evals' = evals + 1
         /\ at' = "task" /\ task' = 1 /\ suite' \in Suites
         /\ UNCHANGED <<tries, card, cards, engines, file_vars, sha, crashes>>

Current == Suite[task]
Repeat == Repeats[evals]

(* A missing tool skips the task: one card, however often it would run.    *)
Skip == /\ at = "task" /\ task <= Len(Suite) /\ Current.missing
        /\ cards' = Append(cards, [Card EXCEPT !.skipped = TRUE])
        /\ task' = task + 1
        /\ UNCHANGED <<at, tries, card, engines, file_vars, sha, suite, evals, crashes>>

Start == /\ at = "task" /\ task <= Len(Suite) /\ ~Current.missing
         /\ IF tries = Repeat
            THEN task' = task + 1 /\ tries' = 0 /\ UNCHANGED <<at, card>>
            ELSE /\ tries' = tries + 1 /\ card' = Card
                 /\ at' = IF Current.setup THEN "setup" ELSE "running"
                 /\ UNCHANGED task
         /\ UNCHANGED <<cards, engines, file_vars, sha, suite, evals, crashes>>

(* Importing the projects: a broken fixture fails the attempt.             *)
Setup == /\ at = "setup" /\ at' \in {"running", "closing"}
         /\ card' = [card EXCEPT !.error = at' = "closing"]
         /\ UNCHANGED <<task, tries, cards, engines, file_vars, sha, suite, evals, crashes>>

(* The engine of the run; a fan-out makes one when a project's turn comes. *)
Opens == /\ at = "running" /\ engines < Current.parts /\ engines' = engines + 1
         /\ UNCHANGED <<at, task, tries, card, cards, file_vars, sha, suite, evals, crashes>>

(* Mutant: an attempt nothing grades passes.                               *)
MutantGraded(results, status) == \A k \in DOMAIN results : results[k]
(* Every grader must pass; without any, the run must have completed.       *)
Graded(results, status) == IF results = <<>> THEN status = "completed"
                           ELSE \A k \in DOMAIN results : results[k]

(* The run ends and is graded.                                             *)
Grades == /\ at = "running" /\ engines > 0 /\ at' = "closing"
          /\ \E results \in [1 .. Current.graded -> BOOLEAN], status \in {"completed", "partial"} :
                card' = [card EXCEPT !.graders = results, !.status = status,
                                     !.passed = Graded(results, status)]
          /\ UNCHANGED <<task, tries, cards, engines, file_vars, sha, suite, evals, crashes>>

(* Or it times out, or the run or a grader raises: the card says so, and   *)
(* has what was graded before.  A fan-out notes the status of its run      *)
(* first, a single run after its graders.                                  *)
Breaks == /\ at = "running" /\ engines > 0 /\ at' = "closing"
          /\ \E graded \in 0 .. Current.graded, status \in {"none", "completed", "partial"} :
              \E results \in [1 .. graded -> BOOLEAN] :
                /\ graded # 0 => graded < Current.graded
                /\ IF Current.parts = 1 THEN status = "none"
                   ELSE graded # 0 => status # "none"
                /\ card' = [card EXCEPT !.graders = results, !.status = status, !.error = TRUE]
          /\ UNCHANGED <<task, tries, cards, engines, file_vars, sha, suite, evals, crashes>>

(* finally: the engines are closed, one await each.                        *)
Closes == /\ at = "closing" /\ engines > 0 /\ engines' = engines - 1
          /\ UNCHANGED <<at, task, tries, card, cards, file_vars, sha, suite, evals, crashes>>

Report == /\ at = "closing" /\ engines = 0 /\ at' = "task"
          /\ cards' = Append(cards, card) /\ card' = NoCard
          /\ UNCHANGED <<task, tries, engines, file_vars, sha, suite, evals, crashes>>

(* The command ends, and what it held in memory goes.                      *)
Ends == at' = "idle" /\ task' = 0 /\ tries' = 0 /\ card' = NoCard /\ cards' = <<>>
        /\ engines' = 0

(* Making or closing the only engine of an attempt is guarded by nothing:  *)
(* the whole suite ends there.                                             *)
Dies == /\ \/ at = "running" /\ engines = 0 /\ Current.parts = 1
           \/ at = "closing" /\ engines = 1 /\ Current.parts = 1
        /\ Ends
        /\ UNCHANGED <<file_vars, sha, suite, evals, crashes>>

(* The scores are recorded where that was asked for.                       *)
Finish == /\ at = "task" /\ task > Len(Suite)
          /\ at' \in {"append", "exit"}
          /\ UNCHANGED <<task, tries, card, cards, engines, file_vars, sha, suite, evals,
                         crashes>>

Count(s, P(_)) == Cardinality({k \in DOMAIN s : P(s[k])})
Passed(c) == c.passed
Attempted(c) == ~c.skipped

(* _summarize: the scores of the attempted cards.                          *)
Entry == [sha |-> sha, suite |-> suite, id |-> evals,
          passed |-> Count(cards, Passed), runs |-> Count(cards, Attempted)]

(* An entry after a cut one ends up on the same line, which does not parse.*)
Appended(good) == IF newline THEN Append(lines, [whole |-> good, entry |-> Entry])
                  ELSE [lines EXCEPT ![Len(lines)].whole = FALSE]

(* record_result appends an entry and a line break.                        *)
Record == /\ at = "append" /\ at' = "exit"
          /\ lines' = Appended(TRUE) /\ newline' = TRUE
          /\ recorded' = IF newline THEN Append(recorded, Entry) ELSE recorded
          /\ UNCHANGED <<task, tries, card, cards, engines, sha, suite, evals, crashes>>

Exit == /\ at = "exit" /\ Ends
        /\ UNCHANGED <<file_vars, sha, suite, evals, crashes>>

(* A crash cuts the line that is being written.                            *)
Crash == /\ at # "idle" /\ crashes < MaxCrashes /\ crashes' = crashes + 1
         /\ Ends
         /\ IF at = "append" THEN lines' = Appended(FALSE) /\ newline' = FALSE
            ELSE UNCHANGED <<lines, newline>>
         /\ UNCHANGED <<sha, suite, evals, recorded>>

Next == \/ Commit \/ Begin \/ Skip \/ Start \/ Setup \/ Opens \/ Grades \/ Breaks
        \/ Closes \/ Report \/ Dies \/ Finish \/ Record \/ Exit \/ Crash

Spec == Init /\ [][Next]_vars

-----------------------------------------------------------------------------
\* The members of s at the places of keep, in their order.
Kept(s, keep) ==
    [n \in 1 .. Cardinality(keep) |->
        s[CHOOSE k \in keep : Cardinality({j \in keep : j <= k}) = n]]

(* load_history: the lines that parse, newest last.                        *)
Loaded == LET good == Kept(lines, {k \in DOMAIN lines : lines[k].whole})
          IN  [k \in DOMAIN good |-> good[k].entry]
OfSuite(s, name) == Kept(s, {k \in DOMAIN s : s[k].suite = name})

(* trend_report's series: a commit that comes again moves to the end and   *)
(* keeps its latest entry.                                                 *)
Series(s) ==
    LET grow[k \in 0 .. Len(s)] ==
            IF k = 0 THEN <<>>
            ELSE LET r == grow[k - 1]
                 IN  Append(Kept(r, {j \in DOMAIN r : r[j].sha # s[k].sha}), s[k])
    IN  grow[Len(s)]

(* report.passed counts what did not fail; the command is green when that  *)
(* is every card.                                                          *)
NotFailed(c) == c.passed \/ c.skipped
Green == Count(cards, NotFailed) = Len(cards)

(* Every task is in the report, as often as it was to run.                 *)
AllReported == at = "exit" => \A k \in DOMAIN Suite :
    Cardinality({c \in DOMAIN cards : cards[c].task = k})
        = IF Suite[k].missing THEN 1 ELSE Repeat

(* The command is green exactly when every attempt was graded to the end,  *)
(* with all its graders content, or completed where there are none; what   *)
(* could not run on this machine neither helps nor hurts.                  *)
GreenMeansPassed == at = "exit" =>
    (Green <=> \A c \in DOMAIN cards :
        \/ Suite[cards[c].task].missing
        \/ /\ ~cards[c].error
           /\ \A k \in DOMAIN cards[c].graders : cards[c].graders[k]
           /\ Suite[cards[c].task].graded = 0 => cards[c].status = "completed")

(* No engine of an attempt is open when the next one begins.               *)
EnginesClosed == at \in {"idle", "task", "append", "exit"} => engines = 0

(* The history holds what was written to a line of its own, in that order, *)
(* but for the line a crash cut and the one that was appended to it.       *)
HistoryKept == Loaded = recorded

(* The series has every commit of the suite once, with its latest entry,   *)
(* in the order the commits came up last.                                  *)
SeriesSound == \A name \in Suites :
    LET s == OfSuite(Loaded, name)
        r == Series(s)
        Latest(c) == CHOOSE k \in DOMAIN s :
            s[k].sha = c /\ \A j \in DOMAIN s : s[j].sha = c => j <= k
    IN  /\ {r[k].sha : k \in DOMAIN r} = {s[k].sha : k \in DOMAIN s}
        /\ \A k \in DOMAIN r : r[k] = s[Latest(r[k].sha)]
        /\ \A j, k \in DOMAIN r : j < k => Latest(r[j].sha) < Latest(r[k].sha)

EvalsSound == AllReported /\ GreenMeansPassed /\ EnginesClosed /\ HistoryKept /\ SeriesSound

(* Said of _make_arm (ab.py:84), not true of it: an arm counts the cards   *)
(* that were skipped as attempts.                                          *)
NoSkipState == at = "exit" => Count(cards, Attempted) = Len(cards)
=============================================================================
