--------------------------- MODULE KnowledgeGraph ---------------------------
(***************************************************************************)
(* The knowledge graph of a project (knowledge/graph.py): every run loads  *)
(* the file, asserts facts in memory and saves at its end; a refresh of    *)
(* the index saves and then records the commit it indexed (projects.py);   *)
(* distillation merges and prunes (knowledge/distill.py).  A save holds a  *)
(* file lock and takes in what is on disk; loading, and the unlink of a    *)
(* distillation, hold nothing.  A graph is the weight of each fact, 0 when *)
(* it has no such edge; a file cut in the middle of a write reads as none. *)
(***************************************************************************)
EXTENDS Integers, FiniteSets

CONSTANTS
    Runs,       \* runs and the indexer
    Indexer,    \* the one of Runs that is a refresh of the index
    Domain,     \* facts of the domain layer
    RunLayer,   \* facts the engine asserts of its own runs
    MaxWeight,  \* bound: assertions of one fact in one graph
    MaxWork,    \* bound: loads, of runs and of distillations
    MaxCrashes  \* bound

VARIABLES
    file,       \* "none", "torn" or "whole"
    disk,       \* the graph in a whole file
    unlinked,   \* the run whose write goes to an inode unlinked under it
    mem,        \* the graph each actor has in memory
    at,         \* where each actor is
    holder,     \* who has the file lock
    indexed,    \* the facts of the commit recorded as last_indexed_commit
    loads, crashes,
    \* history
    owed,       \* the weights of the last saves that nothing undid or crossed
    removed,    \* facts a distillation ever removed
    distilled,  \* facts a distillation removed that nobody held or asserted since
    crossed     \* a crash or a distillation met a save

vars == <<file, disk, unlinked, mem, at, holder, indexed, loads, crashes, owed,
          removed, distilled, crossed>>

Distiller == "distiller"
Actors == Runs \cup {Distiller}
Facts == Domain \cup RunLayer
Empty == [f \in Facts |-> 0]
Larger(x, y) == IF x >= y THEN x ELSE y

(* _load and _merge_from_disk: an unreadable file counts as no file.       *)
OnDisk == IF file = "whole" THEN disk ELSE Empty
(* _ingest_edge: a fact of both graphs keeps the larger weight.            *)
Merge(g, h) == [f \in Facts |-> Larger(g[f], h[f])]

Init == /\ file = "none" /\ disk = Empty /\ unlinked = {} /\ indexed = Empty
        /\ mem = [a \in Actors |-> Empty] /\ at = [a \in Actors |-> "away"]
        /\ holder = {} /\ loads = 0 /\ crashes = 0
        /\ owed = Empty /\ removed = {} /\ distilled = {} /\ crossed = FALSE

Load(r) ==
    /\ at[r] = "away" /\ loads < MaxWork
    /\ mem' = [mem EXCEPT ![r] = OnDisk]
    /\ at' = [at EXCEPT ![r] = "open"]
    /\ loads' = loads + 1
    /\ UNCHANGED <<file, disk, unlinked, holder, indexed, crashes, owed, removed, distilled, crossed>>

(* add_fact: a new edge, or one more assertion of it.                      *)
AddFact(r, f) ==
    /\ at[r] = "open" /\ mem[r][f] < MaxWeight
    /\ r = Indexer => f \in Domain
    /\ mem' = [mem EXCEPT ![r][f] = @ + 1]
    /\ distilled' = distilled \ {f}
    /\ UNCHANGED <<file, disk, unlinked, at, holder, indexed, loads, crashes, owed, removed, crossed>>

(* Mutant: a save writes its own graph over the file.                      *)
MutantTakenIn(a) == mem[a]
TakenIn(a) == Merge(mem[a], OnDisk)

(* save: under the lock, the file is taken in and opened for writing.      *)
StartSave(a) ==
    /\ at[a] = IF a = Distiller THEN "cleared" ELSE "open"
    /\ holder = {}
    /\ mem' = [mem EXCEPT ![a] = TakenIn(a)]
    /\ file' = "torn" /\ disk' = Empty
    /\ holder' = {a}
    /\ at' = [at EXCEPT ![a] = "writing"]
    /\ UNCHANGED <<unlinked, indexed, loads, crashes, owed, removed, distilled, crossed>>

(* The write ends and the lock is released.                                *)
EndSave(a) ==
    /\ at[a] = "writing"
    /\ IF a \in unlinked THEN UNCHANGED <<file, disk>>
       ELSE file' = "whole" /\ disk' = mem[a]
    /\ owed' = IF a \in unlinked \/ at[Distiller] \in {"open", "cleared"} THEN owed
               ELSE Merge(owed, mem[a])
    /\ crossed' = (crossed \/ a \in unlinked \/ at[Distiller] \in {"open", "cleared"})
    /\ unlinked' = unlinked \ {a}
    /\ holder' = {}
    /\ at' = [at EXCEPT ![a] = IF a = Indexer THEN "saved" ELSE "away"]
    /\ UNCHANGED <<mem, indexed, loads, crashes, removed, distilled>>

(* refresh_index records the head once the graph is saved; every refresh   *)
(* here finds a new head.                                                  *)
Record ==
    /\ at[Indexer] = "saved"
    /\ indexed' = mem[Indexer]
    /\ at' = [at EXCEPT ![Indexer] = "away"]
    /\ UNCHANGED <<file, disk, unlinked, mem, holder, loads, crashes, owed, removed, distilled, crossed>>

(* graph2_distill opens the graph; one too small to distill is left alone. *)
Open ==
    /\ at[Distiller] = "away" /\ loads < MaxWork
    /\ \E f \in Domain : OnDisk[f] > 0
    /\ mem' = [mem EXCEPT ![Distiller] = OnDisk]
    /\ at' = [at EXCEPT ![Distiller] = "open"]
    /\ loads' = loads + 1
    /\ UNCHANGED <<file, disk, unlinked, holder, indexed, crashes, owed, removed, distilled, crossed>>

(* distill_report: the facts a pass may prune are stale ones of weight 1   *)
(* in the domain layer.                                                    *)
Prunable(g) == {f \in Domain : g[f] = 1}
(* Variants of one name, none of which the run layer touches.              *)
Mergeable(g) == {p \in Domain \X Domain : p[1] # p[2] /\ g[p[1]] > 0 /\ g[p[2]] > 0}
(* _merge_nodes: the kept one has the larger weight.                       *)
MergedAs(g, p) == [g EXCEPT ![p[1]] = Larger(@, g[p[2]]), ![p[2]] = 0]
Pruned(g, S) == [f \in Facts |-> IF f \in S THEN 0 ELSE g[f]]

(* distill up to its unlink of the file, which takes no lock.              *)
Distil(g) ==
    /\ at[Distiller] = "open"
    /\ LET gone == {f \in Facts : g[f] < mem[Distiller][f]}
       IN  /\ removed' = removed \cup gone
           /\ distilled' = (distilled \ {f \in Facts : g[f] > 0}) \cup
                           {f \in gone : \A r \in Runs : at[r] = "away" \/ mem[r][f] = 0}
           /\ owed' = [f \in Facts |-> IF f \in gone \cap Domain THEN 0 ELSE owed[f]]
    /\ mem' = [mem EXCEPT ![Distiller] = g]
    /\ unlinked' = holder
    /\ file' = "none" /\ disk' = Empty
    /\ at' = [at EXCEPT ![Distiller] = "cleared"]
    /\ UNCHANGED <<holder, indexed, loads, crashes, crossed>>

(* The process of an actor dies; the lock goes with it, a file being       *)
(* written stays cut, and a distillation between unlink and write leaves   *)
(* no file.                                                                *)
Crash(a) ==
    /\ at[a] # "away" /\ crashes < MaxCrashes
    /\ at' = [at EXCEPT ![a] = "away"]
    /\ holder' = holder \ {a}
    /\ unlinked' = unlinked \ {a}
    /\ LET fatal == at[a] = "cleared" \/ (at[a] = "writing" /\ a \notin unlinked)
       IN  /\ owed' = IF fatal THEN Empty ELSE owed
           /\ crossed' = (crossed \/ fatal)
    /\ crashes' = crashes + 1
    /\ UNCHANGED <<file, disk, mem, indexed, loads, removed, distilled>>

Next ==
    \/ \E r \in Runs : Load(r) \/ \E f \in Facts : AddFact(r, f)
    \/ \E a \in Actors : StartSave(a) \/ EndSave(a) \/ Crash(a)
    \/ Record \/ Open
    \/ \E S \in SUBSET Prunable(mem[Distiller]) : Distil(Pruned(mem[Distiller], S))
    \/ \E p \in Mergeable(mem[Distiller]) : Distil(MergedAs(mem[Distiller], p))

(* What runs saved stays in the file whenever it is whole, unless a        *)
(* distillation was open across the save or a crash cut the file; a        *)
(* distillation takes only what it reports, never a fact of the run layer. *)
KeptFacts == file = "whole" /\ at[Distiller] # "cleared" =>
    \A f \in Facts : disk[f] >= owed[f]

(* A file that is not whole is on its way to be, or somebody died on it.   *)
WholeAgain == file = "torn" => holder # {} \/ crossed

(* Distilled facts come back only from a run that holds or asserts them.   *)
StaysDistilled == \A f \in distilled : disk[f] = 0

(* The facts of a commit recorded as indexed are kept in the graph.        *)
IndexedIsStored == ~crossed => \A f \in Facts \ removed : owed[f] >= indexed[f]

(* The file of the graph, the unlocked unlink included, loses facts only   *)
(* where a distillation or a crash met a save.                             *)
GraphSound == KeptFacts /\ WholeAgain /\ StaysDistilled /\ IndexedIsStored

(* knowledge/graph.py:311 "the last writer no longer silently discards the *)
(* other run's facts": not when a distillation meets the save.             *)
NoFactLost == file = "whole" => \A r \in Runs, f \in Facts \ removed :
    at[r] = "away" => disk[f] >= mem[r][f]
=============================================================================
