------------------------------ MODULE CodeIndex ------------------------------
(***************************************************************************)
(* The code index of a project (knowledge/code_index.py): every run of the *)
(* project passes over its own working tree at its start and brings one    *)
(* shared database up to date, each file in several commits.  The engine   *)
(* waits for the pass only so long, and closes the database at its end     *)
(* under a pass that still runs.  A version of a file stands for both its  *)
(* (mtime, size) and its text; the trees of two runs never share one.      *)
(***************************************************************************)
EXTENDS Integers, FiniteSets

CONSTANTS
    Trees,      \* the working trees of the project's runs, one pass on each
    Files,
    MaxVersion, \* bound: the versions of a file in a tree
    MaxPasses   \* bound

VARIABLES
    tree,       \* tree -> file -> version, 0 when it is not there
    files,      \* the files table: file -> the stamp it was indexed at
    chunks,     \* the vectors table: file -> window -> the version of its text
    pass,       \* the pass over each tree
    passes,
    mixed       \* history: files left by two passes at once, or by a cut pass

vars == <<tree, files, chunks, pass, passes, mixed>>

None == <<"none", 0>>
Windows == 1 .. 2
Blank == [w \in Windows |-> None]
Idle == [at |-> "idle"]

Init == /\ tree = [t \in Trees |-> [f \in Files |-> 0]]
        /\ files = [f \in Files |-> None]
        /\ chunks = [f \in Files |-> Blank]
        /\ pass = [t \in Trees |-> Idle]
        /\ passes = 0
        /\ mixed = {}

(* An agent, or git, writes or removes a file of the tree; what is removed *)
(* and written again has a later stamp.                                    *)
Write(t, f) ==
    /\ tree[t][f] \in 0 .. MaxVersion - 1
    /\ tree' = [tree EXCEPT ![t][f] = @ + 1]
    /\ UNCHANGED <<files, chunks, pass, passes, mixed>>

Remove(t, f) ==
    /\ tree[t][f] = MaxVersion
    /\ tree' = [tree EXCEPT ![t][f] = -1]
    /\ UNCHANGED <<files, chunks, pass, passes, mixed>>

(* index_workspace reads what is known and lists the tree; the cap on the  *)
(* number of files may leave some of them out of the pass.                 *)
Start(t) ==
    /\ pass[t] = Idle /\ passes < MaxPasses
    /\ \E visit \in SUBSET {f \in Files : tree[t][f] > 0} :
          pass' = [pass EXCEPT ![t] =
              [at |-> "walk", known |-> files, todo |-> visit, seen |-> {},
               capped |-> visit # {f \in Files : tree[t][f] > 0}]]
    /\ passes' = passes + 1
    /\ UNCHANGED <<tree, files, chunks, mixed>>

(* The stamp of the next file; one whose stamp is known is left alone.     *)
Stat(t, f) ==
    /\ pass[t].at = "walk" /\ f \in pass[t].todo
    /\ LET rest == [pass[t] EXCEPT !.todo = @ \ {f}]
           stamp == <<t, tree[t][f]>>
       IN  pass' = [pass EXCEPT ![t] =
              CASE tree[t][f] <= 0 -> rest
                [] stamp = rest.known[f] -> [rest EXCEPT !.seen = @ \cup {f}]
                [] OTHER -> [at |-> "read", file |-> f, stamp |-> stamp, rest |-> rest]]
    /\ UNCHANGED <<tree, files, chunks, passes, mixed>>

(* The text, as it is by now, or nothing eligible.                         *)
Read(t) ==
    /\ pass[t].at = "read"
    /\ LET now == tree[t][pass[t].file]
       IN  pass' = [pass EXCEPT ![t] =
              IF now <= 0 THEN @.rest
              ELSE [at |-> "drop", file |-> @.file, stamp |-> @.stamp,
                    rest |-> [pass[t].rest EXCEPT !.seen = @ \cup {pass[t].file}],
                    text |-> <<t, now>>, todo |-> Windows]]
    /\ UNCHANGED <<tree, files, chunks, passes, mixed>>

Inside(f) == {t \in Trees : pass[t].at = "add" /\ pass[t].file = f}

(* _index_file: the old windows go in one commit, ...                      *)
Drop(t) ==
    /\ pass[t].at = "drop"
    /\ LET f == pass[t].file
       IN  /\ chunks' = [chunks EXCEPT ![f] = Blank]
           /\ mixed' = IF Inside(f) = {} THEN mixed \ {f} ELSE mixed \cup {f}
    /\ pass' = [pass EXCEPT ![t].at = "add"]
    /\ UNCHANGED <<tree, files, passes>>

(* ... each new one comes in one of its own, ...                           *)
Add(t) ==
    /\ pass[t].at = "add"
    /\ \E w \in pass[t].todo :
          /\ \A x \in pass[t].todo : w <= x
          /\ chunks' = [chunks EXCEPT ![pass[t].file][w] = pass[t].text]
          /\ pass' = [pass EXCEPT ![t].todo = @ \ {w}]
    /\ UNCHANGED <<tree, files, passes, mixed>>

Indexed(t) == pass[t].at = "add" /\ pass[t].todo = {}

(* ... and the row says which version they are of, last.                   *)
Row(t) ==
    /\ Indexed(t)
    /\ files' = [files EXCEPT ![pass[t].file] = pass[t].stamp]
    /\ pass' = [pass EXCEPT ![t] = @.rest]
    /\ UNCHANGED <<tree, chunks, passes, mixed>>

(* A complete pass drops what it knew and did not see: the windows, then   *)
(* the row.                                                                *)
Stale(t) == {f \in Files : pass[t].known[f] # None /\ f \notin pass[t].seen}

Prune(t) ==
    /\ pass[t].at = "walk" /\ pass[t].todo = {} /\ ~pass[t].capped
    /\ \E f \in Stale(t) :
          /\ chunks' = [chunks EXCEPT ![f] = Blank]
          /\ mixed' = IF Inside(f) = {} THEN mixed ELSE mixed \cup {f}
          /\ pass' = [pass EXCEPT ![t] = [at |-> "forget", file |-> f,
                                          rest |-> [pass[t] EXCEPT !.known[f] = None]]]
    /\ UNCHANGED <<tree, files, passes>>

Forget(t) ==
    /\ pass[t].at = "forget"
    /\ LET f == pass[t].file
       IN  /\ files' = [files EXCEPT ![f] = None]
           /\ mixed' = IF chunks[f] = Blank THEN mixed ELSE mixed \cup {f}
    /\ pass' = [pass EXCEPT ![t] = @.rest]
    /\ UNCHANGED <<tree, chunks, passes>>

End(t) ==
    /\ pass[t].at = "walk" /\ pass[t].todo = {} /\ (pass[t].capped \/ Stale(t) = {})
    /\ pass' = [pass EXCEPT ![t] = Idle]
    /\ UNCHANGED <<tree, files, chunks, passes, mixed>>

(* The engine closes the database under the pass, or its process dies.     *)
Cut(t) ==
    /\ pass[t] # Idle
    /\ mixed' = IF pass[t].at \in {"add", "forget"} THEN mixed \cup {pass[t].file} ELSE mixed
    /\ pass' = [pass EXCEPT ![t] = Idle]
    /\ UNCHANGED <<tree, files, chunks, passes>>

Next == \E t \in Trees :
    \/ \E f \in Files : Write(t, f) \/ Remove(t, f) \/ Stat(t, f)
    \/ Start(t) \/ Read(t) \/ Drop(t) \/ Add(t) \/ Row(t)
    \/ Prune(t) \/ Forget(t) \/ End(t) \/ Cut(t)

Busy(f) == \E t \in Trees : pass[t].at \in {"add", "forget"} /\ pass[t].file = f

(* A file that its row calls indexed has all its windows, all of one       *)
(* version: the one of the row, or a later one of the same tree, and then  *)
(* the tree has moved on too, so its next pass does not take it for known. *)
RowsTell == \A f \in Files :
    Busy(f) \/ f \in mixed \/ files[f] = None \/
    \E v \in files[f][2] .. MaxVersion :
        /\ chunks[f] = [w \in Windows |-> <<files[f][1], v>>]
        /\ v > files[f][2] => tree[files[f][1]][f] # files[f][2]

(* What no row tells of is not retrieved.                                  *)
NothingStray == \A f \in Files :
    Busy(f) \/ f \in mixed \/ files[f] # None \/ chunks[f] = Blank

(* Retrieval serves whole files, except where two passes met or one was    *)
(* cut, until the next pass that does not know the file.                   *)
IndexSound == RowsTell /\ NothingStray

(* knowledge/code_index.py: "Files whose (path, mtime, size) match the     *)
(* last index pass are left alone; changed files are re-chunked": a file   *)
(* a complete pass leaves alone need not have its windows.                 *)
KnownIsIndexed == \A t \in Trees, f \in Files :
    ~Busy(f) /\ files[f] = <<t, tree[t][f]>> => \A w \in Windows : chunks[f][w] # None
=============================================================================
