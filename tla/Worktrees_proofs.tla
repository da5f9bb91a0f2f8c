-------------------------- MODULE Worktrees_proofs --------------------------
(***************************************************************************)
(* Theorems about Worktrees, for every set of subtasks and rivals and      *)
(* every bound.                                                            *)
(***************************************************************************)
EXTENDS Worktrees, TLAPS, FiniteSetTheorems

GitOps == {"add", "merge", "remove"}

\* Where an execution stands that has a worktree, if it was given one.
Inside == {"prepare", "agent", "lockMerge", "merge", "lockRemove", "remove"}

ToMerge == {"lockMerge", "merge"}

Work(i) == <<i, attempts[i]>>
Remover(i) == [op |-> "remove", sub |-> i, awaited |-> FALSE]

\* The lock is held by the subtask that waits for a thread, and by one at most.
LockHeld ==
    /\ lock = {i \in Subtasks : at[i] \in GitOps}
    /\ \A i, j \in lock : i = j

\* A thread that is awaited is awaited where its subtask stands.
AwaitedThere == \A t \in threads : t.awaited => at[t.sub] = t.op

\* While an execution has its worktree nothing is about to remove it but itself; and
\* what an abandoned thread is about to remove keeps another worktree from being added.
OwnTree ==
    /\ \A i \in Subtasks : at[i] \in Inside \ {"prepare", "agent"} => isolated[i]
    /\ \A i \in Subtasks : isolated[i] /\ at[i] \in Inside =>
                               i \in trees /\ Remover(i) \notin threads
    /\ \A i \in Subtasks : Remover(i) \in threads => i \in trees

\* Changes are kept by an attempt only once its agent has returned, and are then on the
\* branch or in the workspace, or about to be merged, or of an attempt that was cancelled.
KeptSomewhere ==
    /\ \A c \in kept : c[2] <= attempts[c[1]]
    /\ \A i \in Subtasks : at[i] \in {"lockAdd", "add", "prepare", "agent"} => Work(i) \notin kept
    /\ \A i \in Subtasks : Work(i) \in kept =>
          \/ Work(i) \in OnBranch \cup dirty
          \/ at[i] \in ToMerge /\ i \in edits
          \/ leaving[i] = "cancelled" /\ at[i] \in {"lockRemove", "remove", "stopped", "idle"}

\* In a run nobody cancelled no thread is abandoned, a worktree is that of an execution
\* under way, and a subtask without rivals gets one.
Undisturbed ==
    cancels = 0 =>
        /\ cancelReq = {} /\ \A t \in threads : t.awaited
        /\ \A i \in trees : isolated[i] /\ at[i] \in Inside
        /\ \A i \in Subtasks \ Rivals :
              /\ at[i] \in {"prepare", "agent"} => isolated[i]
              /\ Work(i) \in kept => Work(i) \in OnBranch \/ (at[i] \in ToMerge /\ i \in edits)

\* If every execution changes something, what is merged has changes of its own, and so
\* has the commit recorded.
MergesOwn ==
    ~EmptyDiffs =>
        /\ \A i \in Subtasks : at[i] \in ToMerge => i \in edits
        /\ RecordedMergeIsOwn

WorkInv ==
    /\ TypeOK /\ mergeOf \in [Subtasks -> Nat]
    /\ LockHeld /\ AwaitedThere /\ OwnTree /\ KeptSomewhere /\ Undisturbed /\ MergesOwn

Typed == TypeOK /\ mergeOf \in [Subtasks -> Nat]

\* The log of the branch only grows, and what is on it or in the workspace stays there.
LogGrows ==
    /\ log' \in Seq(SUBSET Change) /\ dirty' \subseteq Change
    /\ Len(log) <= Len(log')
    /\ \A n \in 1..Len(log) : log'[n] = log[n]
    /\ OnBranch \subseteq OnBranch'
    /\ OnBranch \cup dirty \subseteq OnBranch' \cup dirty'

-----------------------------------------------------------------------------
(* The log. *)

\* A snapshot commits what was in the workspace behind what is on the branch.
LEMMA SnapshotFacts ==
    ASSUME Typed
    PROVE  /\ Snapshot \in Seq(SUBSET Change)
           /\ Len(log) <= Len(Snapshot)
           /\ \A n \in 1..Len(log) : Snapshot[n] = log[n]
           /\ \A c \in dirty : \E n \in 1..Len(Snapshot) : c \in Snapshot[n]
<1>1. log \in Seq(SUBSET Change) /\ dirty \in SUBSET Change
  BY DEF Typed, TypeOK
<1>2. CASE dirty = {}
  BY <1>1, <1>2 DEF Snapshot
<1>3. CASE dirty # {}
  <2>1. Snapshot = Append(log, dirty)
    BY <1>3 DEF Snapshot
  <2>2. /\ Append(log, dirty) \in Seq(SUBSET Change)
        /\ Len(Append(log, dirty)) = Len(log) + 1 /\ Len(log) \in Nat
        /\ \A n \in 1..Len(log) : Append(log, dirty)[n] = log[n]
        /\ Append(log, dirty)[Len(log) + 1] = dirty
    BY <1>1
  <2> QED
    BY <2>1, <2>2
<1> QED
  BY <1>2, <1>3

\* A log that extends the snapshot keeps all there was.
LEMMA ExtendsSnapshot ==
    ASSUME Typed,
           log' \in Seq(SUBSET Change), dirty' = {}, Len(Snapshot) <= Len(log'),
           \A n \in 1..Len(Snapshot) : log'[n] = Snapshot[n]
    PROVE  LogGrows
<1>1. /\ log \in Seq(SUBSET Change) /\ Snapshot \in Seq(SUBSET Change)
      /\ Len(log) \in Nat /\ Len(Snapshot) \in Nat /\ Len(log') \in Nat
      /\ DOMAIN log = 1..Len(log) /\ DOMAIN log' = 1..Len(log')
  BY SnapshotFacts DEF Typed, TypeOK
<1>2. /\ Len(log) <= Len(log') /\ \A n \in 1..Len(log) : log'[n] = log[n]
  BY <1>1, SnapshotFacts
<1>3. ASSUME NEW c \in OnBranch PROVE c \in OnBranch'
  <2>1. PICK n \in DOMAIN log : c \in log[n]
    BY <1>3 DEF OnBranch
  <2>2. n \in DOMAIN log' /\ c \in log'[n]
    BY <1>1, <1>2, <2>1
  <2> QED
    BY <2>2 DEF OnBranch
<1>4. ASSUME NEW c \in dirty PROVE c \in OnBranch'
  <2>1. PICK n \in 1..Len(Snapshot) : c \in Snapshot[n]
    BY SnapshotFacts
  <2>2. n \in DOMAIN log' /\ c \in log'[n]
    BY <1>1, <2>1
  <2> QED
    BY <2>2 DEF OnBranch
<1> QED
  BY <1>2, <1>3, <1>4 DEF LogGrows

\* Nothing is lost while neither the log nor the workspace loses anything.
LEMMA SameLogGrows ==
    ASSUME Typed, log' = log, dirty \subseteq dirty', dirty' \subseteq Change
    PROVE  LogGrows
BY DEF Typed, TypeOK, LogGrows, OnBranch

\* What adding a worktree does to the log.
LEMMA AddGrows ==
    ASSUME Typed, NEW i \in Subtasks, NEW added \in BOOLEAN, WorktreeAdd(i, added)
    PROVE  LogGrows
BY SnapshotFacts, ExtendsSnapshot DEF WorktreeAdd

\* What a merge does to the log: the changes of i are its last commit if they were merged.
LEMMA MergeGrows ==
    ASSUME Typed, NEW i \in Subtasks, NEW merged \in BOOLEAN, WorktreeMerge(i, merged)
    PROVE  /\ LogGrows
           /\ merged /\ i \in edits =>
                 /\ Len(log') \in 1..Len(log') /\ log'[Len(log')] = {Work(i)}
                 /\ Work(i) \in OnBranch'
<1>1. /\ Snapshot \in Seq(SUBSET Change) /\ Len(Snapshot) \in Nat
  BY SnapshotFacts
<1>2. CASE ~(merged /\ i \in edits)
  BY <1>1, <1>2, ExtendsSnapshot DEF WorktreeMerge
<1>3. CASE merged /\ i \in edits
  <2>1. log' = Append(Snapshot, {Work(i)}) /\ dirty' = {}
    BY <1>3 DEF WorktreeMerge, Work
  <2>2. {Work(i)} \in SUBSET Change
    BY DEF Work, Change, Typed, TypeOK
  <2>3. /\ log' \in Seq(SUBSET Change) /\ Len(log') = Len(Snapshot) + 1
        /\ log'[Len(log')] = {Work(i)} /\ DOMAIN log' = 1..Len(log')
        /\ \A n \in 1..Len(Snapshot) : log'[n] = Snapshot[n]
    BY <1>1, <2>1, <2>2
  <2>4. LogGrows
    BY <1>1, <2>1, <2>3, ExtendsSnapshot
  <2>5. Len(log') \in DOMAIN log' /\ Len(log') \in 1..Len(log')
    BY <1>1, <2>3
  <2> QED
    BY <2>3, <2>4, <2>5 DEF OnBranch
<1> QED
  BY <1>2, <1>3

\* Every step keeps what is on the branch or in the workspace.
LEMMA LogStep ==
    ASSUME Typed, [Next]_vars
    PROVE  LogGrows
<1>1. CASE UNCHANGED <<log, dirty>>
  BY <1>1, SameLogGrows DEF Typed, TypeOK
<1>2. ASSUME NEW i \in Subtasks, AgentReturns(i) \/ AgentFails(i)
      PROVE  LogGrows
  <2>1. Work(i) \in Change
    BY DEF Work, Change, Typed, TypeOK
  <2>2. /\ log' = log
        /\ dirty' = dirty \/ dirty' = dirty \cup {Work(i)}
    BY <1>2 DEF AgentReturns, AgentFails, Work
  <2> QED
    BY <2>1, <2>2, SameLogGrows DEF Typed, TypeOK
<1>3. ASSUME NEW i \in Subtasks, AddEnds(i) \/ MergeEnds(i)
      PROVE  LogGrows
  BY <1>3, AddGrows, MergeGrows DEF AddEnds, MergeEnds, MayAdd
<1>4. ASSUME NEW t \in threads, OrphanEnds(t)
      PROVE  LogGrows
  <2>1. t \in Thread /\ t.sub \in Subtasks /\ t.op \in {"add", "merge", "remove"}
    BY DEF Typed, TypeOK, Thread
  <2>2. CASE t.op = "add"
    BY <1>4, <2>1, <2>2, AddGrows DEF OrphanEnds, MayAdd
  <2>3. CASE t.op = "merge"
    <3>1. PICK merged \in {t.sub \in trees, t.sub \in trees /\ ~MayConflict(t.sub)} :
                WorktreeMerge(t.sub, merged)
      BY <1>4, <2>3 DEF OrphanEnds
    <3>2. merged \in BOOLEAN
      <4>1. (t.sub \in trees) \in BOOLEAN /\ (t.sub \in trees /\ ~MayConflict(t.sub)) \in BOOLEAN
        BY DEF MayConflict
      <4> QED
        BY <3>1, <4>1
    <3> QED
      BY <2>1, <3>1, <3>2, MergeGrows
  <2>4. CASE t.op = "remove"
    BY <1>1, <1>4, <2>4 DEF OrphanEnds, WorktreeRemove
  <2> QED
    BY <2>1, <2>2, <2>3, <2>4
<1>5. ASSUME NEW i \in Subtasks, Exec(i), ~AgentReturns(i), ~AgentFails(i), ~AddEnds(i), ~MergeEnds(i)
      PROVE  LogGrows
  BY <1>1, <1>5 DEF Exec, Execute, AddStarts, MergeStarts, RemoveStarts, GitStarts, Prepared,
     RemoveEnds, WorktreeRemove, ReviewPasses, ReviewFails, CancelArrives, gitVars
<1>6. CASE Cancel \/ Resume \/ UNCHANGED vars
  BY <1>1, <1>6 DEF Cancel, Resume, vars, gitVars
<1> QED
  BY <1>2, <1>3, <1>4, <1>5, <1>6 DEF Next

-----------------------------------------------------------------------------
(* Types. *)

\* A retry stays within what the dispatch has left.
LEMMA AgainTypes ==
    ASSUME Typed, NEW i \in Subtasks, NEW ends \in SUBSET Over, Again(i, ends)
    PROVE  /\ \E e \in ends \cup {"idle"} : at' = [at EXCEPT ![i] = e]
           /\ reviews' \in [Subtasks -> 0..MaxRetries]
<1>1. reviews \in [Subtasks -> 0..MaxRetries] /\ MaxRetries \in Nat
  BY WorktreesAssumption DEF Typed, TypeOK
<1>2. CASE reviews[i] < MaxRetries
  <2>1. reviews' = [reviews EXCEPT ![i] = @ + 1] /\ at' = [at EXCEPT ![i] = "idle"]
    BY <1>2 DEF Again, Goes
  <2>2. reviews[i] + 1 \in 0..MaxRetries
    BY <1>1, <1>2
  <2> QED
    BY <1>1, <2>1, <2>2
<1>3. CASE ~(reviews[i] < MaxRetries)
  <2>1. \E e \in ends : at' = [at EXCEPT ![i] = e] /\ UNCHANGED reviews
    BY <1>3 DEF Again, Goes
  <2> QED
    BY <1>1, <2>1
<1> QED
  BY <1>2, <1>3

\* Where an execution can be when it leaves its worktree.
LEMMA LeavesTypes ==
    ASSUME Typed, NEW i \in Subtasks, Leaves(i)
    PROVE  /\ \E e \in Over \cup {"idle", "review"} : at' = [at EXCEPT ![i] = e]
           /\ leaving[i] = "cancelled" => at' = [at EXCEPT ![i] = "stopped"]
           /\ reviews' \in [Subtasks -> 0..MaxRetries]
<1>1. leaving[i] \in {"no", "error", "cancelled"}
  BY DEF Typed, TypeOK
<1>2. CASE leaving[i] = "no"
  BY <1>2 DEF Leaves, Goes, Typed, TypeOK
<1>3. CASE leaving[i] = "error"
  <2>1. Again(i, {"failed"}) \/ (Goes(i, "failed") /\ UNCHANGED reviews)
    BY <1>3 DEF Leaves
  <2>2. {"failed"} \in SUBSET Over /\ "failed" \in Over
    BY DEF Over
  <2>3. CASE Again(i, {"failed"})
    BY <1>3, <2>2, <2>3, AgainTypes
  <2>4. CASE Goes(i, "failed") /\ UNCHANGED reviews
    <3>1. reviews' \in [Subtasks -> 0..MaxRetries]
      BY <2>4 DEF Typed, TypeOK
    <3> QED
      BY <1>3, <2>2, <2>4, <3>1 DEF Goes
  <2> QED
    BY <2>1, <2>3, <2>4
<1>4. CASE leaving[i] = "cancelled"
  BY <1>4 DEF Leaves, Goes, Typed, TypeOK, Over
<1> QED
  BY <1>1, <1>2, <1>3, <1>4

\* What is abandoned when i is cancelled: its threads, of which it awaited the one of the
\* operation it stood at.
LEMMA CancelThreads ==
    ASSUME Typed, NEW i \in Subtasks, CancelArrives(i)
    PROVE  /\ threads' \subseteq Thread
           /\ \A u \in threads' : u.awaited => u \in threads /\ u.sub # i
           /\ \A j \in Subtasks : Remover(j) \in threads' =>
                 Remover(j) \in threads \/ (j = i /\ [op |-> "remove", sub |-> i, awaited |-> TRUE] \in threads)
<1>1. threads' = {IF t.sub = i THEN [t EXCEPT !.awaited = FALSE] ELSE t : t \in threads}
  BY DEF CancelArrives
<1>2. threads \subseteq Thread
  BY DEF Typed, TypeOK
<1>3. ASSUME NEW u \in threads'
      PROVE  /\ u \in Thread
             /\ u.awaited => u \in threads /\ u.sub # i
  <2>1. PICK t \in threads : u = IF t.sub = i THEN [t EXCEPT !.awaited = FALSE] ELSE t
    BY <1>1
  <2> QED
    BY <1>2, <2>1 DEF Thread
<1>4. ASSUME NEW j \in Subtasks, Remover(j) \in threads'
      PROVE  Remover(j) \in threads \/ (j = i /\ [op |-> "remove", sub |-> i, awaited |-> TRUE] \in threads)
  <2>1. PICK t \in threads : Remover(j) = IF t.sub = i THEN [t EXCEPT !.awaited = FALSE] ELSE t
    BY <1>1, <1>4
  <2>2. CASE t.sub # i
    BY <2>1, <2>2
  <2>3. CASE t.sub = i
    <3>1. t \in Thread /\ Remover(j) = [t EXCEPT !.awaited = FALSE]
      BY <1>2, <2>1, <2>3
    <3>2. t.op = "remove" /\ t.sub = j
      BY <3>1 DEF Thread, Remover
    <3>3. t = [op |-> "remove", sub |-> i, awaited |-> TRUE] \/ t = Remover(j)
      BY <2>3, <3>1, <3>2 DEF Thread, Remover
    <3> QED
      BY <2>3, <3>2, <3>3
  <2> QED
    BY <2>2, <2>3
<1> QED
  BY <1>3, <1>4

\* Type correctness is inductive.
LEMMA TypeStep ==
    ASSUME Typed, [Next]_vars
    PROVE  Typed'
<1> USE DEF Over, Goes
<1>1. LogGrows
  BY LogStep
<1>2. /\ log \in Seq(SUBSET Change) /\ log' \in Seq(SUBSET Change) /\ dirty' \subseteq Change
      /\ Len(log) \in Nat /\ Len(log') \in Nat /\ Len(log) <= Len(log')
  BY <1>1 DEF LogGrows, Typed, TypeOK
<1>3. UNCHANGED mergeOf =>
          mergeOf' \in [Subtasks -> Nat] /\ \A i \in Subtasks : mergeOf'[i] \in 0..Len(log')
  BY <1>2 DEF Typed, TypeOK
<1>4. ASSUME NEW i \in Subtasks,
             Execute(i) \/ AddStarts(i) \/ MergeStarts(i) \/ RemoveStarts(i) \/ Prepared(i)
             \/ ReviewPasses(i)
      PROVE  Typed'
  <2>1. Change' = Change /\ Thread' = Thread
    BY DEF Change, Thread
  <2>2. CASE Execute(i)
    BY <1>2, <1>3, <2>2 DEF Execute, CanRun, Typed, TypeOK, gitVars, recVars, counters
  <2>3. CASE AddStarts(i) \/ MergeStarts(i) \/ RemoveStarts(i)
    <3>1. PICK op \in {"add", "merge", "remove"} :
             /\ at' = [at EXCEPT ![i] = op] /\ lock' = {i}
             /\ threads' = threads \cup {[op |-> op, sub |-> i, awaited |-> TRUE]}
             /\ UNCHANGED <<isolated, leaving, attempts, reviews, cancelReq, gitVars, recVars, counters>>
      BY <2>3 DEF AddStarts, MergeStarts, RemoveStarts, GitStarts
    <3>2. [op |-> op, sub |-> i, awaited |-> TRUE] \in Thread
      BY DEF Thread
    <3> QED
      BY <1>2, <1>3, <3>1, <3>2 DEF Typed, TypeOK, gitVars, recVars, counters
  <2>4. CASE Prepared(i)
    BY <1>2, <1>3, <2>4 DEF Prepared, CanRun, Typed, TypeOK, gitVars, recVars, counters
  <2>5. CASE ReviewPasses(i)
    BY <1>2, <1>3, <2>5 DEF ReviewPasses, CanRun, Typed, TypeOK, gitVars, recVars, counters
  <2> QED
    BY <1>4, <2>2, <2>3, <2>4, <2>5
<1>5. ASSUME NEW i \in Subtasks, AddEnds(i)
      PROVE  Typed'
  <2>1. PICK added \in MayAdd(i) : WorktreeAdd(i, added) /\ isolated' = [isolated EXCEPT ![i] = added]
    BY <1>5 DEF AddEnds
  <2>2. added \in BOOLEAN
    BY DEF MayAdd
  <2>3. trees' \subseteq Subtasks /\ base' \in [Subtasks -> Nat] /\ edits' \subseteq Subtasks
    <3>1. Len(log') \in Nat
      BY <1>2 DEF Typed, TypeOK
    <3> QED
      BY <2>1, <3>1 DEF WorktreeAdd, Typed, TypeOK
  <2> QED
    <3>1. at' = [at EXCEPT ![i] = "prepare"] /\ lock' = {} /\ threads' \subseteq threads
      BY <1>5 DEF AddEnds, GitEnds, Goes
    <3>2. isolated' \in [Subtasks -> BOOLEAN]
      BY <2>1, <2>2 DEF Typed, TypeOK
    <3>3. UNCHANGED <<leaving, attempts, reviews, cancelReq, recVars, counters>>
      BY <1>5 DEF AddEnds
    <3> QED
      BY <1>2, <1>3, <2>1, <2>3, <3>1, <3>2, <3>3 DEF Typed, TypeOK, recVars, counters
<1>6. ASSUME NEW i \in Subtasks, AgentReturns(i)
      PROVE  Typed'
  <2>1. Work(i) \in Change
    BY DEF Work, Change, Typed, TypeOK
  <2>2. /\ kept' \subseteq kept \cup {Work(i)} /\ edits' \subseteq edits \cup {i}
        /\ at' = [at EXCEPT ![i] = IF isolated[i] THEN "lockMerge" ELSE "review"]
        /\ UNCHANGED <<isolated, leaving, attempts, reviews, cancelReq, lock, threads, trees, base,
                   log, mergeOf, counters>>
    BY <1>6 DEF AgentReturns, Work
  <2> QED
    BY <1>2, <1>3, <2>1, <2>2 DEF Typed, TypeOK, counters
<1>7. ASSUME NEW i \in Subtasks, AgentFails(i)
      PROVE  Typed'
  <2>1. /\ leaving' \in [Subtasks -> {"no", "error", "cancelled"}]
        /\ UNCHANGED <<isolated, attempts, cancelReq, lock, threads, trees, base, edits, log, recVars,
                       counters>>
    BY <1>7 DEF AgentFails, Typed, TypeOK
  <2>2. /\ \E e \in Over \cup {"idle", "lockRemove"} : at' = [at EXCEPT ![i] = e]
        /\ reviews' \in [Subtasks -> 0..MaxRetries]
    <3>1. CASE isolated[i]
      BY <1>7, <3>1 DEF AgentFails, Typed, TypeOK
    <3>2. CASE ~isolated[i]
      <4>1. Again(i, {"failed"}) \/ (at' = [at EXCEPT ![i] = "failed"] /\ UNCHANGED reviews)
        BY <1>7, <3>2 DEF AgentFails
      <4>2. {"failed"} \in SUBSET Over
        OBVIOUS
      <4>3. CASE Again(i, {"failed"})
        BY <4>2, <4>3, AgainTypes
      <4>4. CASE at' = [at EXCEPT ![i] = "failed"] /\ UNCHANGED reviews
        BY <4>4 DEF Typed, TypeOK
      <4> QED
        BY <4>1, <4>3, <4>4
    <3> QED
      BY <3>1, <3>2
  <2> QED
    <3>1. at' \in [Subtasks -> {"idle", "lockAdd", "add", "prepare", "agent", "lockMerge", "merge",
                               "lockRemove", "remove", "review"} \cup Over]
      BY <2>2 DEF Typed, TypeOK
    <3> QED
      BY <1>2, <1>3, <2>1, <2>2, <3>1 DEF Typed, TypeOK, recVars, counters
<1>8. ASSUME NEW i \in Subtasks, MergeEnds(i)
      PROVE  Typed'
  <2>1. /\ mergeOf' = [mergeOf EXCEPT ![i] = Len(log')] \/ mergeOf' = [mergeOf EXCEPT ![i] = 0]
        /\ kept' \subseteq kept /\ UNCHANGED <<trees, base, edits>>
    BY <1>8 DEF MergeEnds, WorktreeMerge
  <2>2. mergeOf' \in [Subtasks -> Nat] /\ \A j \in Subtasks : mergeOf'[j] \in 0..Len(log')
    <3>1. PICK n \in {0, Len(log')} : mergeOf' = [mergeOf EXCEPT ![i] = n]
      BY <2>1
    <3>2. n \in 0..Len(log') /\ n \in Nat
      BY <1>2
    <3>3. mergeOf \in [Subtasks -> Nat] /\ \A j \in Subtasks : mergeOf[j] \in 0..Len(log)
      BY DEF Typed, TypeOK
    <3> QED
      BY <1>2, <3>1, <3>2, <3>3
  <2> QED
    BY <1>2, <1>8, <2>1, <2>2 DEF MergeEnds, GitEnds, CanRun, Typed, TypeOK, counters
<1>9. ASSUME NEW i \in Subtasks, RemoveEnds(i)
      PROVE  Typed'
  <2>1. /\ \E e \in Over \cup {"idle", "review"} : at' = [at EXCEPT ![i] = e]
        /\ reviews' \in [Subtasks -> 0..MaxRetries]
    BY <1>9, LeavesTypes DEF RemoveEnds
  <2> QED
    <3>1. at' \in [Subtasks -> {"idle", "lockAdd", "add", "prepare", "agent", "lockMerge", "merge",
                               "lockRemove", "remove", "review"} \cup Over]
      BY <2>1 DEF Typed, TypeOK
    <3> QED
      BY <1>2, <1>3, <1>9, <2>1, <3>1 DEF RemoveEnds, GitEnds, WorktreeRemove, Typed, TypeOK, recVars,
         counters
<1>10. ASSUME NEW i \in Subtasks, ReviewFails(i)
       PROVE  Typed'
  <2>1. /\ \E e \in Over \cup {"idle"} : at' = [at EXCEPT ![i] = e]
        /\ reviews' \in [Subtasks -> 0..MaxRetries]
    BY <1>10, AgainTypes DEF ReviewFails
  <2> QED
    BY <1>2, <1>3, <1>10, <2>1 DEF ReviewFails, Typed, TypeOK, gitVars, recVars, counters
<1>11. ASSUME NEW i \in Subtasks, CancelArrives(i)
       PROVE  Typed'
  <2>1. threads' \subseteq Thread
    BY <1>11, CancelThreads
  <2>2. /\ at' \in [Subtasks -> {"idle", "lockAdd", "add", "prepare", "agent", "lockMerge", "merge",
                            "lockRemove", "remove", "review"} \cup Over]
        /\ leaving' \in [Subtasks -> {"no", "error", "cancelled"}]
    BY <1>11 DEF CancelArrives, Typed, TypeOK
  <2> QED
    BY <1>2, <1>3, <1>11, <2>1, <2>2 DEF CancelArrives, Typed, TypeOK, Thread, gitVars, recVars,
       counters
<1>12. ASSUME NEW t \in threads, OrphanEnds(t)
       PROVE  Typed'
  <2>1. t \in Thread /\ t.sub \in Subtasks /\ t.op \in {"add", "merge", "remove"}
    BY DEF Typed, TypeOK, Thread
  <2>2. trees' \subseteq Subtasks /\ base' \in [Subtasks -> Nat] /\ edits' \subseteq Subtasks
    <3>1. CASE t.op = "add"
      BY <1>2, <1>12, <2>1, <3>1 DEF OrphanEnds, WorktreeAdd, Typed, TypeOK
    <3>2. CASE t.op = "merge"
      BY <1>12, <2>1, <3>2 DEF OrphanEnds, WorktreeMerge, Typed, TypeOK
    <3>3. CASE t.op = "remove"
      BY <1>12, <2>1, <3>3 DEF OrphanEnds, WorktreeRemove, Typed, TypeOK
    <3> QED
      BY <2>1, <3>1, <3>2, <3>3
  <2>3. threads' \subseteq threads /\ UNCHANGED <<coVars, lock, recVars, counters>>
    BY <1>12 DEF OrphanEnds
  <2> QED
    BY <1>2, <1>3, <2>2, <2>3 DEF Typed, TypeOK, Thread, coVars, recVars, counters
<1>13. CASE Cancel
  <2>1. /\ cancels' = cancels + 1 /\ cancels' \in 0..MaxCancels
        /\ cancelReq' \subseteq Subtasks
        /\ UNCHANGED <<at, isolated, leaving, attempts, reviews, lock, threads, gitVars, recVars, resumes>>
    BY <1>13, WorktreesAssumption DEF Cancel, Typed, TypeOK
  <2> QED
    BY <1>2, <1>3, <2>1 DEF Typed, TypeOK, gitVars, recVars
<1>14. CASE Resume
  BY <1>2, <1>14, WorktreesAssumption DEF Resume, Typed, TypeOK, gitVars, RunOver
<1>15. CASE UNCHANGED vars
  BY <1>15 DEF vars, coVars, gitVars, recVars, counters, Typed, TypeOK, Thread, Change
<1> QED
  BY <1>4, <1>5, <1>6, <1>7, <1>8, <1>9, <1>10, <1>11, <1>12, <1>13, <1>14, <1>15 DEF Next, Exec

-----------------------------------------------------------------------------
(* The lock and the threads. *)

\* A step of one execution moves no other, and it moves from where it stood.
LEMMA OnlyItsOwn ==
    ASSUME Typed, NEW i \in Subtasks, Exec(i)
    PROVE  /\ \A j \in Subtasks \ {i} :
                /\ at'[j] = at[j] /\ isolated'[j] = isolated[j] /\ leaving'[j] = leaving[j]
                /\ attempts'[j] = attempts[j] /\ mergeOf'[j] = mergeOf[j]
                /\ j \in trees' <=> j \in trees
                /\ j \in edits' <=> j \in edits
           /\ cancelReq' \subseteq cancelReq
           /\ UNCHANGED counters
<1> USE DEF Goes, coVars, gitVars, recVars, counters
<1>1. CASE Execute(i) \/ Prepared(i) \/ ReviewPasses(i)
  BY <1>1 DEF Execute, Prepared, ReviewPasses, Typed, TypeOK
<1>2. CASE AddStarts(i) \/ MergeStarts(i) \/ RemoveStarts(i)
  BY <1>2 DEF AddStarts, MergeStarts, RemoveStarts, GitStarts, Typed, TypeOK
<1>3. CASE AddEnds(i)
  BY <1>3 DEF AddEnds, WorktreeAdd, Typed, TypeOK
<1>4. CASE AgentReturns(i)
  BY <1>4 DEF AgentReturns, Typed, TypeOK
<1>5. ASSUME NEW e, at' = [at EXCEPT ![i] = e]
      PROVE  \A j \in Subtasks \ {i} : at'[j] = at[j]
  BY <1>5 DEF Typed, TypeOK
<1>6. CASE AgentFails(i)
  <2>1. \E e : at' = [at EXCEPT ![i] = e]
    BY <1>6 DEF AgentFails, Again
  <2> QED
    BY <1>5, <1>6, <2>1 DEF AgentFails, Typed, TypeOK
<1>7. CASE MergeEnds(i)
  BY <1>7 DEF MergeEnds, WorktreeMerge, Typed, TypeOK
<1>8. CASE RemoveEnds(i)
  <2>1. \E e : at' = [at EXCEPT ![i] = e]
    BY <1>8, LeavesTypes DEF RemoveEnds
  <2> QED
    BY <1>5, <1>8, <2>1 DEF RemoveEnds, WorktreeRemove, Typed, TypeOK
<1>9. CASE ReviewFails(i)
  <2>1. \E e : at' = [at EXCEPT ![i] = e]
    BY <1>9 DEF ReviewFails, Again
  <2> QED
    BY <1>5, <1>9, <2>1 DEF ReviewFails, Typed, TypeOK
<1>10. CASE CancelArrives(i)
  BY <1>10 DEF CancelArrives, Typed, TypeOK
<1> QED
  BY <1>1, <1>2, <1>3, <1>4, <1>6, <1>7, <1>8, <1>9, <1>10 DEF Exec

\* Where a step of an execution takes it, from where, and what becomes of the lock.
LEMMA LockMoves ==
    ASSUME Typed, NEW i \in Subtasks, Exec(i)
    PROVE  \/ at[i] \notin GitOps /\ at'[i] \notin GitOps /\ lock' = lock
           \/ lock = {} /\ lock' = {i} /\ at[i] \notin GitOps /\ at'[i] \in GitOps
           \/ at[i] \in GitOps /\ at'[i] \notin GitOps /\ lock' = {}
           \/ at'[i] \notin GitOps /\ lock' = lock \ {i}
<1> USE DEF Goes, CanRun, GitOps, Over
<1>1. CASE Execute(i) \/ Prepared(i) \/ ReviewPasses(i)
  BY <1>1 DEF Execute, Prepared, ReviewPasses, Typed, TypeOK
<1>2. CASE AddStarts(i) \/ MergeStarts(i) \/ RemoveStarts(i)
  BY <1>2 DEF AddStarts, MergeStarts, RemoveStarts, GitStarts, Typed, TypeOK
<1>3. CASE AddEnds(i)
  BY <1>3 DEF AddEnds, GitEnds, Typed, TypeOK
<1>4. CASE AgentReturns(i)
  BY <1>4 DEF AgentReturns, Typed, TypeOK
<1>6. CASE AgentFails(i)
  <2>1. \E e \in Over \cup {"idle", "lockRemove"} : at' = [at EXCEPT ![i] = e]
    BY <1>6 DEF AgentFails, Again
  <2> QED
    BY <1>6, <2>1 DEF AgentFails, Typed, TypeOK
<1>7. CASE MergeEnds(i)
  BY <1>7 DEF MergeEnds, GitEnds, Typed, TypeOK
<1>8. CASE RemoveEnds(i)
  <2>1. \E e \in Over \cup {"idle", "review"} : at' = [at EXCEPT ![i] = e]
    BY <1>8, LeavesTypes DEF RemoveEnds
  <2> QED
    BY <1>8, <2>1 DEF RemoveEnds, GitEnds, Typed, TypeOK
<1>9. CASE ReviewFails(i)
  <2>1. \E e \in Over \cup {"idle"} : at' = [at EXCEPT ![i] = e]
    BY <1>9 DEF ReviewFails, Again
  <2> QED
    BY <1>9, <2>1 DEF ReviewFails, Typed, TypeOK
<1>10. CASE CancelArrives(i)
  BY <1>10 DEF CancelArrives, Typed, TypeOK
<1> QED
  BY <1>1, <1>2, <1>3, <1>4, <1>6, <1>7, <1>8, <1>9, <1>10 DEF Exec

\* The lock is held by the one that waits for a thread.
LEMMA LockStep ==
    ASSUME Typed, LockHeld, [Next]_vars
    PROVE  LockHeld'
<1>1. ASSUME NEW i \in Subtasks, Exec(i)
      PROVE  LockHeld'
  <2>1. \A j \in Subtasks \ {i} : at'[j] = at[j]
    BY <1>1, OnlyItsOwn
  <2>2. i \in lock <=> at[i] \in GitOps
    BY DEF LockHeld
  <2>3. i \in lock => lock = {i}
    BY DEF LockHeld
  <2>4. lock' = {j \in Subtasks : at'[j] \in GitOps}
    BY <1>1, <2>1, <2>2, <2>3, LockMoves DEF LockHeld
  <2>5. \A j, k \in lock' : j = k
    BY <1>1, LockMoves DEF LockHeld
  <2> QED
    BY <2>4, <2>5 DEF LockHeld
<1>2. CASE \E t \in threads : OrphanEnds(t)
  BY <1>2 DEF OrphanEnds, coVars, LockHeld
<1>3. CASE Cancel \/ UNCHANGED vars
  BY <1>3 DEF Cancel, vars, coVars, LockHeld
<1>4. CASE Resume
  <2>1. \A j \in Subtasks : at'[j] \notin GitOps
    BY <1>4 DEF Resume, GitOps
  <2> QED
    BY <1>4, <2>1 DEF Resume, LockHeld
<1> QED
  BY <1>1, <1>2, <1>3, <1>4 DEF Next

\* What is awaited is awaited where its subtask stands.
LEMMA AwaitedStep ==
    ASSUME Typed, AwaitedThere, [Next]_vars
    PROVE  AwaitedThere'
<1> DEFINE Awaited(i) == [op |-> at[i], sub |-> i, awaited |-> TRUE]
<1>1. \A t \in threads : t.sub \in Subtasks /\ (t.awaited => t = Awaited(t.sub))
  BY DEF AwaitedThere, Typed, TypeOK, Thread
<1> HIDE DEF Awaited
<1>2. ASSUME NEW i \in Subtasks, Exec(i)
      PROVE  AwaitedThere'
  <2>1. \A j \in Subtasks \ {i} : at'[j] = at[j]
    BY <1>2, OnlyItsOwn
  <2>2. CASE \E op \in GitOps : /\ at' = [at EXCEPT ![i] = op]
                                /\ threads' = threads \cup {[op |-> op, sub |-> i, awaited |-> TRUE]}
                                /\ at[i] \notin GitOps
    <3>1. \A t \in threads : t.awaited => t.sub # i
      BY <2>2 DEF AwaitedThere, Typed, TypeOK, Thread, GitOps
    <3> QED
      BY <1>1, <2>1, <2>2, <3>1 DEF AwaitedThere, Typed, TypeOK
  <2>3. CASE threads' = threads \ {[op |-> at[i], sub |-> i, awaited |-> TRUE]}
    <3>1. \A t \in threads' : t \in threads /\ (t.awaited => t.sub # i)
      BY <1>1, <2>3 DEF Awaited
    <3> QED
      BY <1>1, <2>1, <3>1 DEF AwaitedThere
  <2>4. CASE UNCHANGED threads /\ at[i] \notin GitOps
    <3>1. \A t \in threads : t.awaited => t.sub # i
      BY <2>4 DEF AwaitedThere, Typed, TypeOK, Thread, GitOps
    <3> QED
      BY <1>1, <2>1, <2>4, <3>1 DEF AwaitedThere
  <2>5. CASE CancelArrives(i)
    <3>1. \A u \in threads' : u.awaited => u \in threads /\ u.sub # i
      BY <2>5, CancelThreads
    <3> QED
      BY <1>1, <2>1, <3>1 DEF AwaitedThere
  <2>6. \/ CancelArrives(i)
        \/ UNCHANGED threads /\ at[i] \notin GitOps
        \/ threads' = threads \ {[op |-> at[i], sub |-> i, awaited |-> TRUE]}
        \/ \E op \in GitOps : /\ at' = [at EXCEPT ![i] = op]
                              /\ threads' = threads \cup {[op |-> op, sub |-> i, awaited |-> TRUE]}
                              /\ at[i] \notin GitOps
    BY <1>2 DEF Exec, Execute, AddStarts, MergeStarts, RemoveStarts, GitStarts, AddEnds, MergeEnds,
       RemoveEnds, GitEnds, Prepared, AgentReturns, AgentFails, ReviewPasses, ReviewFails, CanRun,
       Goes, GitOps
  <2> QED
    BY <2>2, <2>3, <2>4, <2>5, <2>6
<1>3. CASE \E t \in threads : OrphanEnds(t)
  BY <1>3 DEF OrphanEnds, coVars, AwaitedThere
<1>4. CASE Cancel \/ UNCHANGED vars
  BY <1>4 DEF Cancel, vars, coVars, AwaitedThere
<1>5. CASE Resume
  <2>1. \A t \in threads : ~t.awaited
    BY <1>5 DEF Resume, RunOver, Over, AwaitedThere, Typed, TypeOK, Thread
  <2> QED
    BY <1>5, <2>1 DEF Resume, AwaitedThere
<1> QED
  BY <1>2, <1>3, <1>4, <1>5 DEF Next

-----------------------------------------------------------------------------
(* The worktrees. *)

\* A removal is abandoned only when its subtask is cancelled while it waits for it.
LEMMA NewRemover ==
    ASSUME Typed, AwaitedThere, NEW i \in Subtasks, Exec(i),
           NEW j \in Subtasks, Remover(j) \in threads', Remover(j) \notin threads
    PROVE  j = i /\ at[i] = "remove" /\ at'[i] = "stopped" /\ trees' = trees
<1>1. CASE CancelArrives(i)
  <2>1. j = i /\ [op |-> "remove", sub |-> i, awaited |-> TRUE] \in threads
    BY <1>1, CancelThreads
  <2>2. at[i] = "remove"
    BY <2>1 DEF AwaitedThere
  <2> QED
    BY <1>1, <2>1, <2>2 DEF CancelArrives, Goes, gitVars, Typed, TypeOK
<1>2. CASE ~CancelArrives(i)
  <2>1. \/ threads' \subseteq threads
        \/ \E op : threads' = threads \cup {[op |-> op, sub |-> i, awaited |-> TRUE]}
    BY <1>2 DEF Exec, Execute, AddStarts, MergeStarts, RemoveStarts, GitStarts, AddEnds, MergeEnds,
       RemoveEnds, GitEnds, Prepared, AgentReturns, AgentFails, ReviewPasses, ReviewFails
  <2>2. \A op : Remover(j) # [op |-> op, sub |-> i, awaited |-> TRUE]
    BY DEF Remover
  <2> QED
    BY <2>1, <2>2
<1> QED
  BY <1>1, <1>2

\* What a step of an execution does to its own worktree.
LEMMA OwnMoves ==
    ASSUME Typed, OwnTree, NEW i \in Subtasks, Exec(i)
    PROVE  \/ /\ at'[i] \notin Inside /\ trees' = trees
              /\ at[i] \in Inside => ~isolated[i] \/ CancelArrives(i)
           \/ /\ at[i] = "add" /\ at'[i] = "prepare" /\ ~isolated'[i] /\ trees' = trees
              /\ i \in trees \cup Rivals
           \/ at[i] = "add" /\ at'[i] = "prepare" /\ isolated'[i] /\ i \notin trees /\ i \in trees'
           \/ /\ {at[i], at'[i]} \subseteq Inside /\ isolated' = isolated /\ trees' = trees
              /\ at'[i] \in {"prepare", "agent"} => at[i] \in {"prepare", "agent"}
              /\ at'[i] \in Inside \ {"prepare", "agent"} => isolated[i]
           \/ at[i] = "remove" /\ at'[i] \notin Inside /\ trees' = trees \ {i}
<1> USE DEF Goes, CanRun, Over, gitVars, coVars, Inside
<1>1. CASE Execute(i) \/ Prepared(i) \/ ReviewPasses(i)
  BY <1>1 DEF Execute, Prepared, ReviewPasses, Typed, TypeOK
<1>2. CASE AddStarts(i) \/ MergeStarts(i) \/ RemoveStarts(i)
  BY <1>2 DEF AddStarts, MergeStarts, RemoveStarts, GitStarts, Typed, TypeOK, OwnTree
<1>3. CASE AddEnds(i)
  BY <1>3 DEF AddEnds, GitEnds, WorktreeAdd, MayAdd, Typed, TypeOK
<1>4. CASE AgentReturns(i)
  BY <1>4 DEF AgentReturns, Typed, TypeOK
<1>5. CASE AgentFails(i)
  <2>1. CASE isolated[i]
    BY <1>5, <2>1 DEF AgentFails, Typed, TypeOK
  <2>2. CASE ~isolated[i]
    <3>1. \E e \in Over \cup {"idle"} : at' = [at EXCEPT ![i] = e]
      BY <1>5, <2>2 DEF AgentFails, Again
    <3> QED
      BY <1>5, <3>1 DEF AgentFails, Typed, TypeOK
  <2> QED
    BY <2>1, <2>2
<1>6. CASE MergeEnds(i)
  BY <1>6 DEF MergeEnds, GitEnds, WorktreeMerge, Typed, TypeOK, OwnTree
<1>7. CASE RemoveEnds(i)
  <2>1. \E e \in Over \cup {"idle", "review"} : at' = [at EXCEPT ![i] = e]
    BY <1>7, LeavesTypes DEF RemoveEnds
  <2> QED
    BY <1>7, <2>1 DEF RemoveEnds, GitEnds, WorktreeRemove, Typed, TypeOK
<1>8. CASE ReviewFails(i)
  <2>1. \E e \in Over \cup {"idle"} : at' = [at EXCEPT ![i] = e]
    BY <1>8 DEF ReviewFails, Again
  <2> QED
    BY <1>8, <2>1 DEF ReviewFails, Typed, TypeOK
<1>9. CASE CancelArrives(i)
  BY <1>9 DEF CancelArrives, Typed, TypeOK
<1> QED
  BY <1>1, <1>2, <1>3, <1>4, <1>5, <1>6, <1>7, <1>8, <1>9 DEF Exec

\* A worktree is there as long as its execution needs it.
LEMMA OwnTreeStep ==
    ASSUME Typed, AwaitedThere, OwnTree, [Next]_vars
    PROVE  OwnTree'
<1> USE DEF Remover
<1>1. ASSUME NEW i \in Subtasks, Exec(i)
      PROVE  OwnTree'
  <2>1. \A j \in Subtasks \ {i} : /\ at'[j] = at[j] /\ isolated'[j] = isolated[j]
                                  /\ j \in trees' <=> j \in trees
    BY <1>1, OnlyItsOwn
  <2> HIDE DEF Remover
  <2>2. ASSUME NEW j \in Subtasks, at'[j] \in Inside \ {"prepare", "agent"}
        PROVE  isolated'[j]
    BY <1>1, <2>1, <2>2, OwnMoves DEF OwnTree, Inside
  <2>3. ASSUME NEW j \in Subtasks, isolated'[j], at'[j] \in Inside
        PROVE  j \in trees' /\ Remover(j) \notin threads'
    <3>1. j \in trees'
      BY <1>1, <2>1, <2>3, OwnMoves DEF OwnTree
    <3>2. Remover(j) \notin threads
      BY <1>1, <2>1, <2>3, OwnMoves DEF OwnTree
    <3>3. at'[i] = "stopped" => j # i
      BY <2>3 DEF Inside
    <3> QED
      BY <1>1, <3>1, <3>2, <3>3, NewRemover
  <2>4. ASSUME NEW j \in Subtasks, Remover(j) \in threads'
        PROVE  j \in trees'
    <3>1. CASE Remover(j) \in threads
      <4>1. j \in trees
        BY <3>1 DEF OwnTree
      <4>2. at[j] = "remove" => ~isolated[j] /\ FALSE
        BY <3>1 DEF OwnTree, Inside
      <4> QED
        BY <1>1, <2>1, <4>1, <4>2, OwnMoves
    <3>2. CASE Remover(j) \notin threads
      <4>1. j = i /\ at[i] = "remove" /\ trees' = trees
        BY <1>1, <2>4, <3>2, NewRemover
      <4> QED
        BY <4>1 DEF OwnTree, Inside
    <3> QED
      BY <3>1, <3>2
  <2> QED
    BY <2>2, <2>3, <2>4 DEF OwnTree
<1>2. ASSUME NEW t \in threads, OrphanEnds(t)
      PROVE  OwnTree'
  <2>1. t \in Thread /\ ~t.awaited /\ threads' = threads \ {t} /\ UNCHANGED <<at, isolated>>
    BY <1>2 DEF OrphanEnds, coVars, Typed, TypeOK
  <2>2. CASE t.op = "add"
    <3>1. trees \subseteq trees'
      BY <1>2, <2>2 DEF OrphanEnds, WorktreeAdd
    <3> QED
      BY <2>1, <3>1 DEF OwnTree
  <2>3. CASE t.op = "merge"
    <3>1. trees = trees'
      BY <1>2, <2>3 DEF OrphanEnds, WorktreeMerge
    <3> QED
      BY <2>1, <3>1 DEF OwnTree
  <2>4. CASE t.op = "remove"
    <3>1. t = Remover(t.sub) /\ trees' = trees \ {t.sub}
      BY <1>2, <2>1, <2>4 DEF OrphanEnds, WorktreeRemove, Thread
    <3> QED
      BY <2>1, <3>1 DEF OwnTree
  <2> QED
    BY <2>1, <2>2, <2>3, <2>4 DEF Thread
<1>3. CASE Cancel \/ UNCHANGED vars
  BY <1>3 DEF Cancel, vars, coVars, gitVars, OwnTree
<1>4. CASE Resume
  BY <1>4 DEF Resume, gitVars, OwnTree, Inside
<1> QED
  BY <1>1, <1>2, <1>3, <1>4 DEF Next

-----------------------------------------------------------------------------
(* What is kept. *)

Early == {"lockAdd", "add", "prepare", "agent"}

Landed(i) == Work(i) \in OnBranch \cup dirty
Merging(i) == at[i] \in ToMerge /\ i \in edits
GivenUp(i) == leaving[i] = "cancelled" /\ at[i] \in {"lockRemove", "remove", "stopped", "idle"}

\* What a step of an execution does to what is kept of it: a new attempt has changed
\* nothing, what its agent changed is in its worktree or in the workspace, and a merge
\* puts it on the branch or gives it up.
LEMMA KeptMoves ==
    ASSUME Typed, OwnTree, KeptSomewhere, NEW i \in Subtasks, Exec(i)
    PROVE  /\ kept' \subseteq kept \cup {Work(i)}
           /\ \/ attempts' = attempts
              \/ attempts' = [attempts EXCEPT ![i] = @ + 1] /\ kept' = kept
           /\ at'[i] \in Early => Work(i)' \notin kept'
           /\ Work(i)' \in kept' => Landed(i)' \/ Merging(i)' \/ GivenUp(i)'
<1> USE DEF Goes, CanRun, Over, gitVars, coVars, recVars, Early, ToMerge, Merging, GivenUp
<1>0. LogGrows
  BY LogStep DEF Next
<1>1. Landed(i) /\ attempts' = attempts => Landed(i)'
  BY <1>0 DEF LogGrows, Landed, Work
<1>2. /\ at[i] \in Early => Work(i) \notin kept
      /\ Work(i) \in kept => Landed(i) \/ Merging(i) \/ GivenUp(i)
  BY DEF KeptSomewhere, Landed
<1>3. attempts' = attempts => Work(i)' = Work(i)
  BY DEF Work
<1>4. CASE Execute(i)
  <2>1. Work(i)' = <<i, attempts[i] + 1>> /\ kept' = kept
    BY <1>4 DEF Execute, Work, Typed, TypeOK
  <2>2. Work(i)' \notin kept
    BY <2>1 DEF KeptSomewhere, Typed, TypeOK
  <2> QED
    BY <1>4, <2>1, <2>2 DEF Execute
<1>5. CASE Prepared(i) \/ ReviewPasses(i)
  BY <1>1, <1>2, <1>3, <1>5 DEF Prepared, ReviewPasses, Typed, TypeOK
<1>6. CASE AddStarts(i) \/ MergeStarts(i) \/ RemoveStarts(i)
  BY <1>1, <1>2, <1>3, <1>6 DEF AddStarts, MergeStarts, RemoveStarts, GitStarts, Typed, TypeOK
<1>7. CASE AddEnds(i)
  <2>1. at[i] = "add" /\ at'[i] = "prepare" /\ kept' = kept /\ attempts' = attempts
    BY <1>7 DEF AddEnds, GitEnds, Typed, TypeOK
  <2> QED
    BY <1>2, <1>3, <2>1
<1>8. CASE AgentReturns(i)
  <2>1. attempts' = attempts /\ Work(i) \notin kept
    BY <1>2, <1>8 DEF AgentReturns
  <2>2. /\ at' = [at EXCEPT ![i] = IF isolated[i] THEN "lockMerge" ELSE "review"]
        /\ \/ kept' = kept
           \/ /\ kept' = kept \cup {Work(i)}
              /\ isolated[i] => i \in edits'
              /\ ~isolated[i] => Work(i) \in dirty'
    BY <1>8 DEF AgentReturns, Work
  <2>3. at'[i] = IF isolated[i] THEN "lockMerge" ELSE "review"
    BY <2>2 DEF Typed, TypeOK
  <2>4. Work(i) \in dirty' => Landed(i)'
    BY <1>3, <2>1 DEF Landed
  <2> QED
    BY <1>3, <2>1, <2>2, <2>3, <2>4
<1>9. CASE AgentFails(i)
  <2>1. attempts' = attempts /\ kept' = kept /\ Work(i) \notin kept
    BY <1>2, <1>9 DEF AgentFails
  <2> QED
    BY <1>3, <2>1
<1>10. CASE MergeEnds(i)
  <2>1. PICK merged \in {TRUE, ~MayConflict(i)} :
            /\ WorktreeMerge(i, merged)
            /\ kept' = IF merged THEN kept ELSE kept \ {Work(i)}
    BY <1>10 DEF MergeEnds, Work
  <2>2. merged \in BOOLEAN
    BY DEF MayConflict
  <2>3. attempts' = attempts /\ at[i] = "merge" /\ at'[i] = "lockRemove" /\ leaving' = leaving
    BY <1>10 DEF MergeEnds, GitEnds, Typed, TypeOK
  <2>4. CASE merged /\ i \in edits
    BY <1>3, <2>1, <2>2, <2>3, <2>4, MergeGrows DEF Landed
  <2>5. CASE ~(merged /\ i \in edits)
    BY <1>1, <1>2, <1>3, <2>1, <2>2, <2>3, <2>5
  <2> QED
    BY <2>4, <2>5
<1>11. CASE RemoveEnds(i)
  <2>1. at[i] = "remove" /\ kept' = kept /\ attempts' = attempts /\ leaving' = leaving
    BY <1>11 DEF RemoveEnds, GitEnds
  <2>2. /\ \E e \in Over \cup {"idle", "review"} : at' = [at EXCEPT ![i] = e]
        /\ leaving[i] = "cancelled" => at' = [at EXCEPT ![i] = "stopped"]
    BY <1>11, LeavesTypes DEF RemoveEnds
  <2>3. at'[i] \in Over \cup {"idle", "review"} /\ (leaving[i] = "cancelled" => at'[i] = "stopped")
    BY <2>2 DEF Typed, TypeOK
  <2> QED
    BY <1>1, <1>2, <1>3, <2>1, <2>3
<1>12. CASE ReviewFails(i)
  <2>1. \E e \in Over \cup {"idle"} : at' = [at EXCEPT ![i] = e]
    BY <1>12 DEF ReviewFails, Again
  <2>2. /\ at[i] = "review" /\ kept' = kept /\ attempts' = attempts
        /\ at'[i] \in Over \cup {"idle"}
    BY <1>12, <2>1 DEF ReviewFails, Typed, TypeOK
  <2> QED
    BY <1>1, <1>2, <1>3, <2>2
<1>13. CASE CancelArrives(i)
  <2>1. /\ kept' = kept /\ attempts' = attempts
        /\ \/ at'[i] = "lockRemove" /\ leaving'[i] = "cancelled"
           \/ at'[i] = "stopped" /\ leaving' = leaving /\ at[i] \notin ToMerge
    BY <1>13 DEF CancelArrives, Typed, TypeOK, OwnTree, Inside
  <2> QED
    BY <1>1, <1>2, <1>3, <2>1
<1> QED
  BY <1>4, <1>5, <1>6, <1>7, <1>8, <1>9, <1>10, <1>11, <1>12, <1>13 DEF Exec

\* The steps that are not of an execution leave what is kept where it is.
LEMMA KeptElsewhere ==
    ASSUME Typed, OwnTree, KeptSomewhere, LogGrows,
           UNCHANGED <<attempts, kept, leaving>>,
           \A j \in Subtasks : \/ at'[j] = at[j] /\ (Merging(j) => j \in edits')
                               \/ at'[j] = "idle" /\ (at[j] \in {"idle", "stopped"} \/ Landed(j) \/ Work(j) \notin kept)
    PROVE  KeptSomewhere'
<1>1. \A j \in Subtasks : Work(j)' = Work(j) /\ (Landed(j) => Landed(j)')
  BY DEF Work, Landed, LogGrows
<1>2. ASSUME NEW j \in Subtasks, Work(j) \in kept
      PROVE  Landed(j)' \/ Merging(j)' \/ GivenUp(j)'
  <2>1. Landed(j) \/ Merging(j) \/ GivenUp(j)
    BY <1>2 DEF KeptSomewhere, Landed, Merging, GivenUp
  <2> QED
    BY <1>1, <1>2, <2>1 DEF Merging, GivenUp, ToMerge
<1>3. \A j \in Subtasks : at'[j] \in {"lockAdd", "add", "prepare", "agent"} => at'[j] = at[j]
  OBVIOUS
<1> QED
  BY <1>1, <1>2, <1>3 DEF KeptSomewhere, Landed, Merging, GivenUp

\* A thread nobody waits for takes no changes from a subtask that is to merge them.
LEMMA OrphanKeepsEdits ==
    ASSUME Typed, OwnTree, NEW t \in threads, OrphanEnds(t), NEW j \in Subtasks, Merging(j)
    PROVE  j \in edits'
<1>1. t \in Thread /\ ~t.awaited
  BY DEF OrphanEnds, Typed, TypeOK
<1>2. j \in edits /\ Remover(j) \notin threads
  BY DEF Merging, ToMerge, OwnTree, Inside
<1>3. CASE t.op = "remove"
  <2>1. t = Remover(t.sub) /\ edits' = edits \ {t.sub}
    BY <1>1, <1>3 DEF OrphanEnds, WorktreeRemove, Thread, Remover
  <2> QED
    BY <1>2, <2>1
<1>4. CASE t.op # "remove"
  <2>1. t.op = "add" \/ t.op = "merge"
    BY <1>1, <1>4 DEF Thread
  <2>2. edits' = edits
    BY <2>1 DEF OrphanEnds, WorktreeAdd, WorktreeMerge
  <2> QED
    BY <1>2, <2>2
<1> QED
  BY <1>3, <1>4

\* What is kept stays on the branch, in the workspace or about to be merged.
LEMMA KeptStep ==
    ASSUME Typed, AwaitedThere, OwnTree, KeptSomewhere, [Next]_vars
    PROVE  KeptSomewhere'
<1>0. LogGrows
  BY LogStep
<1>1. ASSUME NEW i \in Subtasks, Exec(i)
      PROVE  KeptSomewhere'
  <2>1. \A j \in Subtasks \ {i} : /\ at'[j] = at[j] /\ leaving'[j] = leaving[j]
                                  /\ Work(j)' = Work(j) /\ (j \in edits' <=> j \in edits)
                                  /\ Landed(j) => Landed(j)'
    <3>1. \A j \in Subtasks \ {i} : /\ at'[j] = at[j] /\ leaving'[j] = leaving[j]
                                    /\ attempts'[j] = attempts[j] /\ (j \in edits' <=> j \in edits)
      BY <1>1, OnlyItsOwn
    <3> QED
      BY <1>0, <3>1 DEF Work, Landed, LogGrows
  <2>2. /\ kept' \subseteq kept \cup {Work(i)}
        /\ \/ attempts' = attempts
           \/ attempts' = [attempts EXCEPT ![i] = @ + 1] /\ kept' = kept
        /\ at'[i] \in Early => Work(i)' \notin kept'
        /\ Work(i)' \in kept' => Landed(i)' \/ Merging(i)' \/ GivenUp(i)'
    BY <1>1, KeptMoves
  <2>3. \A c \in kept' : c[2] <= attempts'[c[1]]
    <3>1. attempts \in [Subtasks -> Nat] /\ \A c \in kept : c[1] \in Subtasks /\ c[2] \in Nat
      BY DEF Typed, TypeOK, Change
    <3>2. Work(i)[1] = i /\ Work(i)[2] = attempts[i]
      BY DEF Work
    <3> QED
      BY <2>2, <3>1, <3>2 DEF KeptSomewhere
  <2>4. \A j \in Subtasks \ {i} : Work(j) # Work(i)
    BY DEF Work
  <2>5. ASSUME NEW j \in Subtasks \ {i}
        PROVE  /\ at'[j] \in Early => Work(j)' \notin kept'
               /\ Work(j)' \in kept' => Landed(j)' \/ Merging(j)' \/ GivenUp(j)'
    <3>1. Work(j)' \in kept' => Work(j) \in kept
      BY <2>1, <2>2, <2>4, <2>5
    <3>2. /\ at[j] \in Early => Work(j) \notin kept
          /\ Work(j) \in kept => Landed(j) \/ Merging(j) \/ GivenUp(j)
      BY DEF KeptSomewhere, Landed, Merging, GivenUp, Early
    <3> QED
      BY <2>1, <3>1, <3>2 DEF Merging, GivenUp, Early
  <2>6. ASSUME NEW j \in Subtasks
        PROVE  /\ at'[j] \in Early => Work(j)' \notin kept'
               /\ Work(j)' \in kept' => Landed(j)' \/ Merging(j)' \/ GivenUp(j)'
    BY <2>2, <2>5
  <2> QED
    BY <2>3, <2>6 DEF KeptSomewhere, Landed, Merging, GivenUp, Early
<1>2. ASSUME NEW t \in threads, OrphanEnds(t)
      PROVE  KeptSomewhere'
  <2>1. t \in Thread /\ ~t.awaited /\ UNCHANGED <<at, leaving, attempts, kept>>
    BY <1>2 DEF OrphanEnds, coVars, recVars, Typed, TypeOK
  <2>2. \A j \in Subtasks : Merging(j) => j \in edits'
    BY <1>2, OrphanKeepsEdits
  <2> QED
    BY <1>0, <2>1, <2>2, KeptElsewhere
<1>3. CASE Cancel \/ UNCHANGED vars
  BY <1>0, <1>3, KeptElsewhere DEF Cancel, vars, coVars, gitVars, recVars, Merging
<1>4. CASE Resume
  <2>1. \A j \in Subtasks : at[j] \in Over /\ at'[j] = IF at[j] = "passed" THEN "passed" ELSE "idle"
    BY <1>4 DEF Resume, RunOver
  <2>2. \A j \in Subtasks : at[j] # "stopped" /\ Work(j) \in kept => Landed(j)
    BY <2>1 DEF KeptSomewhere, Landed, ToMerge, Over
  <2>3. \A j \in Subtasks : \/ at'[j] = at[j] /\ (Merging(j) => j \in edits')
                            \/ /\ at'[j] = "idle"
                               /\ at[j] \in {"idle", "stopped"} \/ Landed(j) \/ Work(j) \notin kept
    BY <2>1, <2>2 DEF Merging, ToMerge, Over
  <2> QED
    BY <1>0, <1>4, <2>3, KeptElsewhere DEF Resume
<1> QED
  BY <1>1, <1>2, <1>3, <1>4 DEF Next

-----------------------------------------------------------------------------
(* A run that is not cancelled, and commits that are recorded. *)

\* What a step of an execution that is not a cancellation does with what is kept of it,
\* if it has a worktree: it goes from the worktree to the branch.
LEMMA KeptByMerge ==
    ASSUME Typed, OwnTree, KeptSomewhere, NEW i \in Subtasks, Exec(i), ~CancelArrives(i),
           at[i] = "agent" => isolated[i],
           Work(i) \in kept => Work(i) \in OnBranch \/ Merging(i),
           Work(i)' \in kept'
    PROVE  Work(i)' \in OnBranch' \/ Merging(i)'
<1> USE DEF Goes, CanRun, Over, gitVars, recVars, ToMerge, Merging
<1>1. LogGrows
  BY LogStep DEF Next
<1>2. attempts' = attempts => Work(i)' = Work(i)
  BY DEF Work
<1>3. Work(i) \in OnBranch /\ attempts' = attempts => Work(i)' \in OnBranch'
  BY <1>1, <1>2 DEF LogGrows
<1>4. CASE Execute(i)
  BY <1>4, KeptMoves DEF Execute, Early, Typed, TypeOK
<1>5. CASE Prepared(i) \/ ReviewPasses(i)
  BY <1>2, <1>3, <1>5 DEF Prepared, ReviewPasses, Typed, TypeOK
<1>6. CASE AddStarts(i) \/ MergeStarts(i) \/ RemoveStarts(i)
  BY <1>2, <1>3, <1>6 DEF AddStarts, MergeStarts, RemoveStarts, GitStarts, Typed, TypeOK
<1>7. CASE AddEnds(i)
  <2>1. at'[i] = "prepare"
    BY <1>7 DEF AddEnds, Typed, TypeOK
  <2> QED
    BY <2>1, KeptMoves DEF Early
<1>8. CASE AgentReturns(i)
  <2>1. attempts' = attempts /\ Work(i) \notin kept /\ isolated[i]
    BY <1>8 DEF AgentReturns, KeptSomewhere
  <2>2. at' = [at EXCEPT ![i] = "lockMerge"] /\ (kept' = kept \/ i \in edits')
    BY <1>8, <2>1 DEF AgentReturns
  <2>3. at'[i] = "lockMerge"
    BY <2>2 DEF Typed, TypeOK
  <2> QED
    BY <1>2, <2>1, <2>2, <2>3
<1>9. CASE AgentFails(i)
  <2>1. attempts' = attempts /\ kept' = kept /\ Work(i) \notin kept
    BY <1>9 DEF AgentFails, KeptSomewhere
  <2> QED
    BY <1>2, <2>1
<1>10. CASE MergeEnds(i)
  <2>1. PICK merged \in {TRUE, ~MayConflict(i)} :
            /\ WorktreeMerge(i, merged)
            /\ kept' = IF merged THEN kept ELSE kept \ {Work(i)}
    BY <1>10 DEF MergeEnds, Work
  <2>2. merged \in BOOLEAN /\ attempts' = attempts /\ at[i] = "merge"
    BY <1>10 DEF MayConflict, MergeEnds, GitEnds
  <2>3. CASE merged /\ i \in edits
    BY <1>2, <2>1, <2>2, <2>3, MergeGrows
  <2>4. CASE ~(merged /\ i \in edits)
    BY <1>2, <1>3, <2>1, <2>2, <2>4
  <2> QED
    BY <2>3, <2>4
<1>11. CASE RemoveEnds(i) \/ ReviewFails(i)
  <2>1. at[i] \in {"remove", "review"} /\ kept' = kept /\ attempts' = attempts
    BY <1>11 DEF RemoveEnds, ReviewFails, GitEnds
  <2> QED
    BY <1>2, <1>3, <2>1
<1> QED
  BY <1>4, <1>5, <1>6, <1>7, <1>8, <1>9, <1>10, <1>11 DEF Exec

\* A run that is not cancelled goes as execute means it to.
LEMMA UndisturbedStep ==
    ASSUME Typed, OwnTree, KeptSomewhere, Undisturbed, [Next]_vars
    PROVE  Undisturbed'
<1> SUFFICES ASSUME cancels' = 0
             PROVE  Undisturbed'
  BY DEF Undisturbed
<1>1. LogGrows
  BY LogStep
<1>2. cancels = 0 /\ ~Cancel
  <2>1. Cancel => cancels' = cancels + 1 /\ cancels \in Nat
    BY WorktreesAssumption DEF Cancel, Typed, TypeOK
  <2>2. Cancel => FALSE
    BY <2>1
  <2> QED
    BY <2>2 DEF Next, Exec, Execute, AddStarts, MergeStarts, RemoveStarts, GitStarts, AddEnds, Prepared,
       AgentReturns, AgentFails, MergeEnds, RemoveEnds, ReviewPasses, ReviewFails, CancelArrives,
       OrphanEnds, Resume, vars, counters
<1>3. /\ cancelReq = {} /\ \A t \in threads : t.awaited
      /\ \A i \in trees : isolated[i] /\ at[i] \in Inside
      /\ \A i \in Subtasks \ Rivals :
            /\ at[i] \in {"prepare", "agent"} => isolated[i]
            /\ Work(i) \in kept => Work(i) \in OnBranch \/ Merging(i)
  BY <1>2 DEF Undisturbed, Merging
<1>4. ASSUME NEW i \in Subtasks, Exec(i)
      PROVE  Undisturbed'
  <2>1. ~CancelArrives(i) /\ cancelReq' = {}
    BY <1>3, <1>4, OnlyItsOwn DEF CancelArrives
  <2>2. \A t \in threads' : t.awaited
    <3>1. \/ threads' \subseteq threads
          \/ \E op : threads' = threads \cup {[op |-> op, sub |-> i, awaited |-> TRUE]}
      BY <1>4, <2>1 DEF Exec, Execute, AddStarts, MergeStarts, RemoveStarts, GitStarts, AddEnds, MergeEnds,
         RemoveEnds, GitEnds, Prepared, AgentReturns, AgentFails, ReviewPasses, ReviewFails
    <3> QED
      BY <1>3, <3>1
  <2>3. \A j \in Subtasks \ {i} :
            /\ at'[j] = at[j] /\ isolated'[j] = isolated[j] /\ attempts'[j] = attempts[j]
            /\ j \in trees' <=> j \in trees
            /\ j \in edits' <=> j \in edits
    BY <1>4, OnlyItsOwn
  <2>4. trees' \subseteq Subtasks
    BY TypeStep DEF Typed, TypeOK
  <2>5. i \in trees' => isolated'[i] /\ at'[i] \in Inside
    BY <1>3, <1>4, <2>1, OwnMoves DEF Inside
  <2>6. i \notin Rivals /\ at'[i] \in {"prepare", "agent"} => isolated'[i]
    BY <1>3, <1>4, OwnMoves DEF Inside
  <2>7. i \notin Rivals /\ Work(i)' \in kept' => Work(i)' \in OnBranch' \/ Merging(i)'
    BY <1>3, <1>4, <2>1, KeptByMerge
  <2>8. ASSUME NEW j \in Subtasks \ {i}, j \notin Rivals, Work(j)' \in kept'
        PROVE  Work(j)' \in OnBranch' \/ Merging(j)'
    <3>1. Work(j)' = Work(j) /\ Work(j) # Work(i)
      BY <2>3 DEF Work
    <3>2. Work(j) \in kept
      BY <1>4, <2>8, <3>1, KeptMoves
    <3> QED
      BY <1>1, <1>3, <2>3, <2>8, <3>1, <3>2 DEF LogGrows, Merging
  <2>9. \A j \in trees' : isolated'[j] /\ at'[j] \in Inside
    BY <1>3, <2>3, <2>4, <2>5
  <2>10. \A j \in Subtasks \ Rivals :
            /\ at'[j] \in {"prepare", "agent"} => isolated'[j]
            /\ Work(j)' \in kept' => Work(j)' \in OnBranch' \/ Merging(j)'
    BY <1>3, <2>3, <2>6, <2>7, <2>8
  <2> QED
    BY <2>1, <2>2, <2>9, <2>10 DEF Undisturbed, Merging
<1>5. ~\E t \in threads : OrphanEnds(t)
  BY <1>3 DEF OrphanEnds
<1>6. CASE Resume
  <2>1. /\ \A j \in Subtasks : at[j] \in Over /\ at'[j] \in {"passed", "idle"}
        /\ UNCHANGED <<attempts, cancelReq, threads, trees, edits, log, kept>>
    BY <1>6 DEF Resume, RunOver, gitVars
  <2>2. trees = {}
    BY <1>3, <2>1 DEF Over, Inside, Typed, TypeOK
  <2>3. \A j \in Subtasks : Work(j)' = Work(j) /\ (Work(j) \in OnBranch => Work(j) \in OnBranch')
    BY <1>1, <2>1 DEF Work, LogGrows
  <2> QED
    BY <1>3, <2>1, <2>2, <2>3 DEF Undisturbed, Merging, ToMerge, Over
<1>7. CASE UNCHANGED vars
  BY <1>7 DEF vars, coVars, gitVars, recVars, counters, Undisturbed, Work, OnBranch
<1> QED
  BY <1>2, <1>4, <1>5, <1>6, <1>7 DEF Next

\* A commit that is recorded brings the changes of its subtask.
LEMMA MergesOwnStep ==
    ASSUME Typed, OwnTree, MergesOwn, [Next]_vars
    PROVE  MergesOwn'
<1> SUFFICES ASSUME ~EmptyDiffs
             PROVE  MergesOwn'
  BY DEF MergesOwn
<1>1. LogGrows
  BY LogStep
<1>2. (\A j \in Subtasks : at[j] \in ToMerge => j \in edits) /\ RecordedMergeIsOwn
  BY DEF MergesOwn
<1>3. ASSUME NEW j \in Subtasks, mergeOf'[j] = mergeOf[j], mergeOf'[j] # 0
      PROVE  log'[mergeOf'[j]] # {} /\ \A c \in log'[mergeOf'[j]] : c[1] = j
  <2>1. mergeOf[j] \in 1..Len(log)
    BY <1>3 DEF Typed, TypeOK
  <2>2. log'[mergeOf'[j]] = log[mergeOf[j]]
    BY <1>1, <1>3, <2>1 DEF LogGrows
  <2> QED
    BY <1>2, <1>3, <2>2 DEF RecordedMergeIsOwn
<1>4. ASSUME NEW i \in Subtasks, Exec(i)
      PROVE  MergesOwn'
  <2>1. \A j \in Subtasks \ {i} : /\ at'[j] = at[j] /\ mergeOf'[j] = mergeOf[j]
                                  /\ j \in edits' <=> j \in edits
    BY <1>4, OnlyItsOwn
  <2>2. CASE MergeEnds(i)
    <3>1. i \in edits /\ at'[i] = "lockRemove"
      BY <1>2, <2>2 DEF MergeEnds, GitEnds, CanRun, Goes, ToMerge, Typed, TypeOK
    <3>2. PICK merged \in {TRUE, ~MayConflict(i)} :
              /\ WorktreeMerge(i, merged)
              /\ mergeOf' = [mergeOf EXCEPT ![i] = IF merged THEN Len(log') ELSE 0]
      BY <2>2 DEF MergeEnds
    <3>3. merged \in BOOLEAN
      BY DEF MayConflict
    <3>4. mergeOf'[i] = IF merged THEN Len(log') ELSE 0
      BY <3>2 DEF Typed
    <3>5. merged => log'[Len(log')] = {Work(i)}
      BY <3>1, <3>2, <3>3, MergeGrows
    <3>6. Work(i)[1] = i
      BY DEF Work
    <3>7. mergeOf'[i] # 0 => log'[mergeOf'[i]] # {} /\ \A c \in log'[mergeOf'[i]] : c[1] = i
      BY <3>3, <3>4, <3>5, <3>6
    <3>8. RecordedMergeIsOwn'
      BY <1>3, <2>1, <3>7 DEF RecordedMergeIsOwn
    <3>9. \A j \in Subtasks : at'[j] \in ToMerge => j \in edits'
      BY <1>2, <2>1, <3>1 DEF ToMerge
    <3> QED
      BY <3>8, <3>9 DEF MergesOwn
  <2>3. CASE ~MergeEnds(i)
    <3>1. mergeOf' = mergeOf
      BY <1>4, <2>3 DEF Exec, Execute, AddStarts, MergeStarts, RemoveStarts, GitStarts, AddEnds, RemoveEnds,
         Prepared, AgentReturns, AgentFails, ReviewPasses, ReviewFails, CancelArrives, recVars
    <3>2. at'[i] \in ToMerge => i \in edits'
      <4>1. CASE AgentReturns(i)
        <5>1. isolated[i] => i \in edits'
          BY <4>1 DEF AgentReturns
        <5> QED
          BY <4>1, <5>1 DEF AgentReturns, Goes, ToMerge, Typed, TypeOK
      <4>2. CASE MergeStarts(i)
        BY <1>2, <4>2 DEF MergeStarts, GitStarts, CanRun, Goes, ToMerge, gitVars
      <4>3. CASE ~AgentReturns(i) /\ ~MergeStarts(i)
        <5>1. at'[i] \notin ToMerge
          <6>1. CASE AgentFails(i) \/ ReviewFails(i)
            <7>1. \E e \in Over \cup {"idle", "lockRemove"} : at' = [at EXCEPT ![i] = e]
              BY <6>1 DEF AgentFails, ReviewFails, Again, Goes, Over
            <7> QED
              BY <7>1 DEF Over, ToMerge, Typed, TypeOK
          <6>2. CASE RemoveEnds(i)
            <7>1. \E e \in Over \cup {"idle", "review"} : at' = [at EXCEPT ![i] = e]
              BY <6>2, LeavesTypes DEF RemoveEnds
            <7> QED
              BY <7>1 DEF Over, ToMerge, Typed, TypeOK
          <6>3. CASE AddStarts(i) \/ RemoveStarts(i)
            <7>1. at' = [at EXCEPT ![i] = "add"] \/ at' = [at EXCEPT ![i] = "remove"]
              BY <6>3 DEF AddStarts, RemoveStarts, GitStarts, Goes
            <7> QED
              BY <7>1 DEF ToMerge, Typed, TypeOK
          <6>4. CASE Execute(i) \/ AddEnds(i) \/ Prepared(i) \/ ReviewPasses(i) \/ CancelArrives(i)
            BY <6>4 DEF Execute, AddEnds, Prepared, ReviewPasses, CancelArrives, Goes, ToMerge, Typed, TypeOK
          <6> QED
            BY <1>4, <2>3, <4>3, <6>1, <6>2, <6>3, <6>4 DEF Exec
        <5> QED
          BY <5>1
      <4> QED
        BY <4>1, <4>2, <4>3
    <3> QED
      BY <1>2, <1>3, <2>1, <3>1, <3>2 DEF MergesOwn, RecordedMergeIsOwn
  <2> QED
    BY <2>2, <2>3
<1>5. ASSUME NEW t \in threads, OrphanEnds(t)
      PROVE  MergesOwn'
  <2>1. UNCHANGED <<at, mergeOf>>
    BY <1>5 DEF OrphanEnds, coVars, recVars
  <2>2. \A j \in Subtasks : Merging(j) => j \in edits'
    BY <1>5, OrphanKeepsEdits
  <2> QED
    BY <1>2, <1>3, <2>1, <2>2 DEF MergesOwn, RecordedMergeIsOwn, Merging
<1>6. CASE Cancel \/ UNCHANGED vars
  <2>1. UNCHANGED <<at, mergeOf, edits>>
    BY <1>6 DEF Cancel, vars, coVars, gitVars, recVars
  <2> QED
    BY <1>2, <1>3, <2>1 DEF MergesOwn, RecordedMergeIsOwn
<1>7. CASE Resume
  BY <1>7 DEF Resume, MergesOwn, RecordedMergeIsOwn, ToMerge
<1> QED
  BY <1>4, <1>5, <1>6, <1>7 DEF Next

-----------------------------------------------------------------------------
(* The theorems. *)

\* A run starts with nothing under way.
LEMMA InitWorkInv == Init => WorkInv
<1> SUFFICES ASSUME Init PROVE WorkInv
  OBVIOUS
<1>1. log \in Seq(SUBSET Change) /\ Len(log) = 1
  BY DEF Init
<1>2. Typed
  BY <1>1, WorktreesAssumption DEF Init, Typed, TypeOK, Thread, Change
<1>3. LockHeld /\ AwaitedThere /\ OwnTree /\ KeptSomewhere /\ Undisturbed /\ MergesOwn
  BY DEF Init, LockHeld, GitOps, AwaitedThere, OwnTree, Inside, KeptSomewhere, Undisturbed, MergesOwn,
     ToMerge, RecordedMergeIsOwn
<1> QED
  BY <1>2, <1>3 DEF WorkInv, Typed

\* The invariant of the worktrees is inductive, whatever is cancelled or resumed.
THEOREM WorkInvariantHolds == Spec => []WorkInv
<1>1. WorkInv /\ [Next]_vars => WorkInv'
  BY TypeStep, LockStep, AwaitedStep, OwnTreeStep, KeptStep, UndisturbedStep, MergesOwnStep
     DEF WorkInv, Typed
<1> QED
  BY InitWorkInv, <1>1, PTL DEF Spec

\* The threads of a run that is not cancelled are at most one.
LEMMA OneThread ==
    ASSUME WorkInv, cancels = 0
    PROVE  GitSerial
<1>1. threads \subseteq Thread /\ \A t \in threads : t.awaited /\ at[t.sub] = t.op
  BY DEF WorkInv, TypeOK, AwaitedThere, Undisturbed
<1>2. \A t \in threads : t.sub \in lock /\ t = [op |-> at[t.sub], sub |-> t.sub, awaited |-> TRUE]
  BY <1>1 DEF WorkInv, LockHeld, Thread, GitOps
<1>3. \A t, u \in threads : t = u
  <2> SUFFICES ASSUME NEW t \in threads, NEW u \in threads PROVE t = u
    OBVIOUS
  <2>1. t.sub = u.sub
    BY <1>2 DEF WorkInv, LockHeld
  <2> QED
    BY <1>2, <2>1
<1>4. CASE threads = {}
  BY <1>4, FS_EmptySet DEF GitSerial
<1>5. CASE threads # {}
  <2>1. PICK t \in threads : threads = {t}
    BY <1>3, <1>5
  <2> QED
    <3>1. Cardinality({t}) = 1
      BY FS_Singleton
    <3> QED
      BY <2>1, <3>1 DEF GitSerial
<1> QED
  BY <1>4, <1>5

\* What separates the work of the subtasks, but for the commits recorded.
LEMMA WorkApart ==
    ASSUME WorkInv
    PROVE  /\ TypeOK /\ NothingDropped
           /\ cancels = 0 => AgentsIsolated /\ GitSerial /\ PassedWorkOnBranch /\ NothingLeftBehind
<1>1. NothingDropped
  BY DEF WorkInv, KeptSomewhere, NothingDropped, Work, ToMerge
<1>2. ASSUME cancels = 0
      PROVE  AgentsIsolated /\ PassedWorkOnBranch /\ NothingLeftBehind
  <2>1. AgentsIsolated /\ PassedWorkOnBranch
    BY <1>2 DEF WorkInv, Undisturbed, AgentsIsolated, PassedWorkOnBranch, Work, ToMerge
  <2>2. NothingLeftBehind
    BY <1>2 DEF WorkInv, Undisturbed, NothingLeftBehind, RunOver, Over, Inside, TypeOK
  <2> QED
    BY <2>1, <2>2
<1> QED
  BY <1>1, <1>2, OneThread DEF WorkInv

\* Whatever is cancelled or resumed, and whoever holds the branches of the rivals, the
\* work of the subtasks stays apart in all that the run checks: nothing that passed is
\* dropped, what is recorded for a subtask is its own unless executions change nothing,
\* and without a cancel each has its checkout, git runs once at a time, what passed is on
\* the branch and nothing is left behind.
THEOREM WorkStaysSeparate == Spec => []WorkSeparate
<1>1. WorkInv => WorkSeparate
  BY WorkApart DEF WorkInv, MergesOwn, WorkSeparate
<1> QED
  BY WorkInvariantHolds, <1>1, PTL
=============================================================================
