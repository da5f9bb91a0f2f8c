--------------------------- MODULE GithubPoller ---------------------------
(***************************************************************************)
(* The GitHub poller of web/server.py (_github_tick) over github.py: open  *)
(* issues with the label become runs, finished runs become pull requests,  *)
(* and what reviewers write on a pull request becomes a follow-up run,     *)
(* whose result is posted there.                                           *)
(*                                                                         *)
(* What was handled is kept in one file, loaded when a tick starts and     *)
(* written when it ends.  Every call to GitHub is awaited, so a tick may   *)
(* be cut at any of them, by a crash or by a shutdown, and issues and      *)
(* comments come in meanwhile.  One repository and one pull request of the *)
(* tool's own are modelled.                                                *)
(***************************************************************************)
EXTENDS Integers, Sequences, FiniteSets, Functions

CONSTANTS
    Issues,         \* issues that get the label
    Junk,           \* those without a prompt
    Comments,       \* comments of reviewers on the pull request
    StreamOf,       \* the one of the two streams each comment is in
    MaxFaults       \* bound: listings, enqueues and writes that fail, ticks cut short

\* What is assumed of them.
GithubAssumption ==
    /\ IsFiniteSet(Issues) /\ IsFiniteSet(Comments) /\ Junk \subseteq Issues
    /\ StreamOf \in [Comments -> {"issues", "pulls"}]
    /\ MaxFaults \in Nat

VARIABLES
    open,       \* issues GitHub lists
    posted,     \* when each comment was made (0: not yet)
    clock,      \* the time, in the seconds GitHub and the poller count
    runs,       \* the runs enqueued, in order: what each is for
    disk,       \* github_seen.json
    mem,        \* the state a tick works on
    stage,      \* where the tick stands
    left,       \* the issues, then the comments, then the runs it has left to look at
    dirty,
    faults,
    passedOver  \* history: comments the cursor may have left behind, and why it may

github == <<open, posted, clock>>
tickVars == <<mem, stage, left, dirty>>
vars == <<github, runs, disk, tickVars, faults, passedOver>>

Empty == [seen |-> {}, tracked |-> {}, prSeen |-> 0, pending |-> <<>>]

IsMade(c) == posted[c] > 0
Heard(c) == {k \in DOMAIN runs : c \in runs[k].comments}
RunsOf(i) == {k \in DOMAIN runs : i \in runs[k].issues}
MaxOf(S) == CHOOSE x \in S : \A y \in S : y <= x

Init ==
    /\ open = Junk /\ clock = 1
    /\ posted = [c \in Comments |-> 0]
    /\ runs = <<>>
    /\ disk = Empty /\ mem = Empty
    /\ stage = "idle" /\ left = {} /\ dirty = FALSE
    /\ faults = 0 /\ passedOver = {}

Fails == faults < MaxFaults /\ faults' = faults + 1

-----------------------------------------------------------------------------
(* The world. *)

Labels(i) ==
    /\ i \notin open
    /\ open' = open \cup {i}
    /\ UNCHANGED <<posted, clock, runs, disk, tickVars, faults, passedOver>>

\* Two comments may be made in one second; once the cursor is there, the later of them
\* counts as old.
Comment(c) ==
    /\ ~IsMade(c)
    /\ clock' \in {clock, clock + 1}
    /\ posted' = [posted EXCEPT ![c] = clock']
    /\ passedOver' = IF \E d \in Comments : posted[d] = clock'
                     THEN passedOver \cup {c} ELSE passedOver
    /\ UNCHANGED <<open, runs, disk, tickVars, faults>>

-----------------------------------------------------------------------------
(* One tick. *)

NewRun(issues, comments) ==
    Append(runs, [issues |-> issues, comments |-> comments])

\* The state is read, and the issues are listed, [] on any error; those seen are skipped.
TickStarts ==
    /\ stage = "idle"
    /\ mem' = disk /\ dirty' = FALSE
    /\ stage' = "issues"
    /\ \/ left' = open \ disk.seen /\ UNCHANGED faults
       \/ left' = {} /\ Fails
    /\ UNCHANGED <<github, runs, disk, passedOver>>

Unseen(i) == stage = "issues" /\ i \in left

\* An issue not seen before is enqueued and remembered; one without a prompt is only
\* remembered; one whose enqueue fails is left for the next tick.
\* Mutant: it is remembered all the same.
IssueHandledOnce(i) ==
    /\ Unseen(i)
    /\ left' = left \ {i}
    /\ mem' = [mem EXCEPT !.seen = @ \cup {i}] /\ dirty' = TRUE
    /\ \/ runs' = NewRun({i}, {}) /\ UNCHANGED faults
       \/ Fails /\ UNCHANGED runs
    /\ UNCHANGED <<github, disk, stage, passedOver>>

IssueHandled(i) ==
    /\ Unseen(i)
    /\ left' = left \ {i}
    /\ \/ /\ i \in Junk
          /\ mem' = [mem EXCEPT !.seen = @ \cup {i}] /\ dirty' = TRUE
          /\ UNCHANGED <<runs, faults>>
       \/ /\ i \notin Junk
          /\ runs' = NewRun({i}, {})
          /\ mem' = [mem EXCEPT !.seen = @ \cup {i}, !.tracked = @ \cup {Len(runs')}]
          /\ dirty' = TRUE
          /\ UNCHANGED faults
       \/ i \notin Junk /\ Fails /\ UNCHANGED <<runs, mem, dirty>>
    /\ UNCHANGED <<github, disk, stage, passedOver>>

\* list_pr_comments reads the two streams one after the other, newer than the cursor; one
\* that cannot be read is empty.
Stream(kind) == {c \in Comments : IsMade(c) /\ StreamOf[c] = kind /\ posted[c] > mem.prSeen}

StreamRead(kind, S) ==
    \/ S = Stream(kind) /\ UNCHANGED faults
    \/ S = {} /\ Fails

ReadsIssueStream ==
    /\ stage = "issues" /\ left = {}
    /\ stage' = "pulls"
    /\ \E S \in SUBSET Comments : StreamRead("issues", S) /\ left' = S
    /\ UNCHANGED <<github, runs, disk, mem, dirty, passedOver>>

Cursor(batch) == MaxOf({posted[c] : c \in batch})

Outstanding(s) == s.tracked \cup DOMAIN s.pending

\* The enqueue failed: the comments stay new.  Mutant: the cursor moved before.
CursorMovedFirst(batch) == mem' = [mem EXCEPT !.prSeen = Cursor(batch)] /\ dirty' = TRUE
StayNew(batch) == UNCHANGED <<mem, dirty>>

\* New comments become one follow-up run, and the cursor moves to the newest of them.
FollowUps ==
    /\ stage = "pulls"
    /\ stage' = "results"
    /\ \E S \in SUBSET Comments :
        LET batch == left \cup S
        IN  \/ /\ StreamRead("pulls", S) /\ batch # {}
               /\ runs' = NewRun({}, batch)
               /\ mem' = [mem EXCEPT !.prSeen = Cursor(batch),
                                     !.pending = [k \in DOMAIN @ \cup {Len(runs')} |->
                                                    IF k = Len(runs') THEN 0 ELSE @[k]]]
               /\ dirty' = TRUE
               /\ passedOver' = passedOver \cup
                    {c \in Comments \ batch : IsMade(c) /\ posted[c] \in (mem.prSeen + 1)..Cursor(batch)}
            \/ /\ StreamRead("pulls", S) /\ batch = {}
               /\ UNCHANGED <<runs, mem, dirty, passedOver>>
            \/ /\ S = Stream("pulls") /\ batch # {} /\ Fails
               /\ StayNew(batch)
               /\ UNCHANGED <<runs, passedOver>>
    /\ left' = Outstanding(mem')
    /\ UNCHANGED <<github, disk>>

\* Whether the run is over when the tick looks at it is up to the run.
Looks(k) == stage = "results" /\ k \in left

Forgotten(k) == Restrict(mem.pending, DOMAIN mem.pending \ {k})

\* The result of a follow-up that ended is posted, and the cursor moves to the present;
\* a post that fails is tried again by later ticks, three times in all.
PostFails(k) ==
    /\ Looks(k) /\ k \in DOMAIN mem.pending
    /\ mem' = [mem EXCEPT !.pending = IF mem.pending[k] + 1 >= 3 THEN Forgotten(k)
                                      ELSE [mem.pending EXCEPT ![k] = @ + 1]]
    /\ left' = left \ {k} /\ dirty' = TRUE
    /\ UNCHANGED <<github, runs, disk, stage, faults, passedOver>>

ResultPosted(k) ==
    /\ Looks(k) /\ k \in DOMAIN mem.pending
    /\ mem' = [mem EXCEPT !.pending = Forgotten(k), !.prSeen = MaxOf({@, clock})]
    /\ passedOver' = passedOver \cup {c \in Comments : IsMade(c) /\ Heard(c) = {}}
    /\ left' = left \ {k} /\ dirty' = TRUE
    /\ UNCHANGED <<github, runs, disk, stage, faults>>

\* Of a follow-up whose row was deleted there is nothing to report.
RowGone(k) ==
    /\ Looks(k) /\ k \in DOMAIN mem.pending
    /\ mem' = [mem EXCEPT !.pending = Forgotten(k)]
    /\ left' = left \ {k} /\ dirty' = TRUE
    /\ UNCHANGED <<github, runs, disk, stage, faults, passedOver>>

\* _github_finish: push, open the pull request, comment; then untracked, whatever came
\* of it; or only untracked, if the row was deleted.
Finished(k) ==
    /\ Looks(k) /\ k \in mem.tracked
    /\ mem' = [mem EXCEPT !.tracked = @ \ {k}]
    /\ left' = left \ {k} /\ dirty' = TRUE
    /\ UNCHANGED <<github, runs, disk, stage, faults, passedOver>>

StillRuns(k) ==
    /\ Looks(k)
    /\ left' = left \ {k}
    /\ UNCHANGED <<github, runs, disk, mem, stage, dirty, faults, passedOver>>

\* The state is written if anything changed.  Mutant: only what is tracked and pending is.
SavedPartly == disk' = IF dirty THEN [mem EXCEPT !.seen = disk.seen] ELSE disk
Saved == disk' = IF dirty THEN mem ELSE disk

Forget == stage' = "idle" /\ mem' = Empty /\ dirty' = FALSE /\ left' = {}

\* A write that fails is logged, and the old file stays.
TickEnds ==
    /\ stage = "results" /\ left = {}
    /\ Forget
    /\ \/ Saved /\ UNCHANGED faults
       \/ dirty /\ Fails /\ UNCHANGED disk
    /\ UNCHANGED <<github, runs, passedOver>>

\* A tick is cut: its state is gone, and a write under way may leave a file that cannot
\* be read, which counts as empty.
Cut ==
    /\ stage # "idle" /\ Fails
    /\ Forget
    /\ \/ UNCHANGED disk
       \/ stage = "results" /\ left = {} /\ dirty /\ disk' = Empty
    /\ UNCHANGED <<github, runs, passedOver>>

OnRun(k) == PostFails(k) \/ ResultPosted(k) \/ RowGone(k) \/ Finished(k) \/ StillRuns(k)

Tick == \/ TickStarts \/ ReadsIssueStream \/ FollowUps \/ TickEnds
        \/ \E i \in Issues : IssueHandled(i)
        \/ \E k \in DOMAIN runs : OnRun(k)

Next ==
    \/ Tick \/ Cut
    \/ \E i \in Issues : Labels(i)
    \/ \E c \in Comments : Comment(c)

\* _periodic ticks for as long as the server runs; nothing is asked of GitHub's users.
Spec == Init /\ [][Next]_vars /\ WF_vars(Tick)

-----------------------------------------------------------------------------
(* Properties. *)

\* The type of every variable; no result is tried more than three times.
TypeOK ==
    /\ open \subseteq Issues
    /\ posted \in [Comments -> 0..clock]
    /\ stage \in {"idle", "issues", "pulls", "results"}
    /\ left \subseteq CASE stage = "issues" -> Issues [] stage = "pulls" -> Comments
                         [] OTHER -> DOMAIN runs
    /\ dirty \in BOOLEAN
    /\ \A s \in {mem, disk} :
        /\ s.seen \subseteq Issues /\ s.prSeen <= clock
        /\ s.tracked \subseteq DOMAIN runs
        /\ \A k \in DOMAIN s.pending : k \in DOMAIN runs /\ s.pending[k] \in 0..2

\* An issue is started once, and a comment answered once, and once more at most for each
\* tick whose state was lost: cut, or not written (seen_marker, pr_seen).
StartedOnce ==
    /\ \A i \in Issues : Cardinality(RunsOf(i)) <= 1 + faults
    /\ \A c \in Comments : Cardinality(Heard(c)) <= 1 + faults

\* Nothing is done twice but for a lost state, and no result is tried too often.
PollerSound == TypeOK /\ StartedOnce

\* An issue stays unseen until it has a run; so that every issue with a prompt gets one,
\* over failed calls, failed writes and ticks cut short.
IssueStarted == \A i \in Issues \ Junk : i \in open ~> RunsOf(i) # {}

\* A comment of a reviewer gets a follow-up run, unless the cursor passed it over.
CommentHeard ==
    \A c \in Comments : IsMade(c) ~> Heard(c) # {} \/ c \in passedOver

\* Both: what is asked on GitHub is answered with a run.
AllStarted == IssueStarted /\ CommentHeard

\* What the documents say: every comment becomes part of a follow-up run.
EveryCommentHeard == \A c \in Comments : IsMade(c) ~> Heard(c) # {}
=============================================================================
