------------------------------- MODULE Memory -------------------------------
(***************************************************************************)
(* The memory store of a project (memory/store.py) and the vectors kept    *)
(* beside its rows (memory/vector.py).  A row and its vector are written   *)
(* by two commits with the embedding between them, while every run, and    *)
(* every request of the curation endpoints, opens the database for itself. *)
(* A text stands for all the texts within the duplicate threshold of it.   *)
(* created_at is read with the insert it dates, so age is the order of ids *)
(***************************************************************************)
EXTENDS Integers, FiniteSets

CONSTANTS
    Actors,     \* runs and curation requests
    Scopes,     \* a lesson's scope, "longterm", and the scope of a task
    Texts,
    Cap,        \* ADA_MEMORY_MAX_ENTRIES, of the whole store
    MaxIds,     \* bound: rows ever written
    MaxEdits,   \* bound: edits and deletions
    MaxFailures \* bound: times the embedder fails

VARIABLES
    rows,       \* the memory table: id -> scope and content
    vectors,    \* the vectors table: id -> scope, embedded text, stored text
    last,       \* AUTOINCREMENT: the last id given
    call,       \* what each actor is in the middle of
    edits, failures,
    \* history
    raced,      \* ids removed, or rewritten, while a call on them was under way
    unembedded, \* ids whose vector was never written
    doubted,    \* ids whose content did not come from an undisturbed remember_unique
    swallowed   \* lessons taken for duplicates of a row that does not exist

vars == <<rows, vectors, last, call, edits, failures, raced, unembedded,
          doubted, swallowed>>

Idle == [at |-> "idle"]
Ids == 1 .. MaxIds
Without(f, S) == [i \in DOMAIN f \ S |-> f[i]]
Put(f, i, v) == [j \in DOMAIN f \cup {i} |-> IF j = i THEN v ELSE f[j]]
Embedding(i) == {a \in Actors : call[a].at = "embed" /\ call[a].id = i}

Init == /\ rows = <<>> /\ vectors = <<>> /\ last = 0
        /\ call = [a \in Actors |-> Idle]
        /\ edits = 0 /\ failures = 0
        /\ raced = {} /\ unembedded = {} /\ doubted = {} /\ swallowed = {}

(* VectorStore.search at the duplicate threshold: the rows of the scope    *)
(* whose vector is that of the text.                                       *)
Near(scope, t) == {i \in DOMAIN vectors : vectors[i].scope = scope /\ vectors[i].of = t}

(* remember_unique embeds and searches before it takes any lock; a failure *)
(* to embed here leaves nothing behind (the engine degrades to a plain     *)
(* note, which is the same call again).                                    *)
RememberUnique(a, scope, t) ==
    /\ call[a] = Idle
    /\ IF Near(scope, t) = {}
       THEN /\ call' = [call EXCEPT ![a] = [at |-> "insert", scope |-> scope, text |-> t,
                              alone |-> \A b \in Actors : call[b] = Idle \/ call[b].text # t]]
            /\ UNCHANGED swallowed
       ELSE \E i \in Near(scope, t) :
               /\ swallowed' = IF i \in DOMAIN rows THEN swallowed ELSE swallowed \cup {i}
               /\ UNCHANGED call
    /\ UNCHANGED <<rows, vectors, last, edits, failures, raced, unembedded, doubted>>

(* The rows _enforce_cap_locked evicts: the oldest beyond the cap.         *)
Overflow(R) == {i \in DOMAIN R : Cardinality({j \in DOMAIN R : j >= i}) > Cap}

(* Mutant: the cap evicts rows and leaves their vectors.                   *)
MutantEvicted(V, gone) == V
Evicted(V, gone) == Without(V, gone)

(* remember: the row and the evictions in one commit.                      *)
Insert(a) ==
    /\ call[a].at = "insert" /\ last < MaxIds
    /\ LET i == last + 1
           R == Put(rows, i, [scope |-> call[a].scope, text |-> call[a].text])
           gone == Overflow(R)
       IN  /\ rows' = Without(R, gone)
           /\ vectors' = Evicted(vectors, gone)
           /\ last' = i
           /\ raced' = raced \cup {j \in gone : Embedding(j) # {}}
           /\ doubted' = IF call[a].alone THEN doubted ELSE doubted \cup {i}
           /\ call' = [call EXCEPT ![a] = [at |-> "embed", id |-> i, scope |-> @.scope,
                                           text |-> @.text, new |-> TRUE]]
    /\ UNCHANGED <<edits, failures, unembedded, swallowed>>

(* VectorStore.add after the commit: INSERT OR REPLACE, whether or not the *)
(* row is still there.                                                     *)
Embed(a) ==
    /\ call[a].at = "embed"
    /\ vectors' = Put(vectors, call[a].id, [scope |-> call[a].scope, of |-> call[a].text,
                                            text |-> call[a].text])
    /\ call' = [call EXCEPT ![a] = Idle]
    /\ UNCHANGED <<rows, last, edits, failures, raced, unembedded, doubted, swallowed>>

(* The embedder fails: a new row stays without a vector; an edited one     *)
(* keeps its stale vector and gets the new text beside it.                 *)
EmbedFails(a) ==
    /\ call[a].at = "embed" /\ failures < MaxFailures
    /\ LET i == call[a].id
       IN  /\ vectors' = IF call[a].new \/ i \notin DOMAIN vectors THEN vectors
                         ELSE [vectors EXCEPT ![i].text = call[a].text]
           /\ unembedded' = IF call[a].new \/ i \notin DOMAIN vectors
                            THEN unembedded \cup {i} ELSE unembedded
           /\ doubted' = doubted \cup {i}
    /\ failures' = failures + 1
    /\ call' = [call EXCEPT ![a] = Idle]
    /\ UNCHANGED <<rows, last, edits, raced, swallowed>>

(* update_memory, up to the commit of the row.                             *)
Edit(a, i, t) ==
    /\ call[a] = Idle /\ i \in DOMAIN rows /\ edits < MaxEdits
    /\ rows' = [rows EXCEPT ![i].text = t]
    /\ call' = [call EXCEPT ![a] = [at |-> "embed", id |-> i, scope |-> rows[i].scope,
                                    text |-> t, new |-> FALSE]]
    /\ raced' = IF Embedding(i) = {} THEN raced ELSE raced \cup {i}
    /\ doubted' = doubted \cup {i}
    /\ edits' = edits + 1
    /\ UNCHANGED <<vectors, last, failures, unembedded, swallowed>>

(* delete_memory: the row and its vector in one commit.                    *)
Delete(a, i) ==
    /\ call[a] = Idle /\ i \in DOMAIN rows /\ edits < MaxEdits
    /\ rows' = Without(rows, {i})
    /\ vectors' = Without(vectors, {i})
    /\ raced' = IF Embedding(i) = {} THEN raced ELSE raced \cup {i}
    /\ edits' = edits + 1
    /\ UNCHANGED <<last, call, failures, unembedded, doubted, swallowed>>

Next == \E a \in Actors :
    \/ \E s \in Scopes, t \in Texts : RememberUnique(a, s, t)
    \/ Insert(a) \/ Embed(a) \/ EmbedFails(a)
    \/ \E i \in Ids : Delete(a, i) \/ \E t \in Texts : Edit(a, i, t)

(***************************************************************************)
(* MemoryStore.recall for a query that is a text: search_hybrid finds it   *)
(* by its vector or by its stored text, and only rows come back.           *)
(***************************************************************************)
Recall(scope, t) ==
    {i \in DOMAIN vectors \cap DOMAIN rows :
        vectors[i].scope = scope /\ (vectors[i].of = t \/ vectors[i].text = t)}

(* Only ids a call was racing on have a vector without a row.              *)
NoGhosts == DOMAIN vectors \subseteq DOMAIN rows \cup raced

(* A row is recalled by what it says, once nothing is writing its vector   *)
(* and unless its embedding failed or calls met on it.                     *)
Recallable == \A i \in DOMAIN rows \ (raced \cup unembedded) :
    Embedding(i) = {} => i \in Recall(rows[i].scope, rows[i].text)

(* Undisturbed lessons of a scope are pairwise different.                  *)
NoTwins == \A i, j \in DOMAIN rows \ doubted :
    i # j => rows[i] # rows[j] \/ {i, j} \cap raced # {}

(* The store never exceeds its cap, and a lesson is dropped as a duplicate *)
(* of nothing only after calls met on an id.                               *)
CapHeld == Cardinality(DOMAIN rows) <= Cap
NothingSwallowed == swallowed \subseteq raced

(* The rows and their vectors agree, whatever the order of the commits.    *)
MemorySound == NoGhosts /\ Recallable /\ NoTwins /\ CapHeld /\ NothingSwallowed

(* memory/store.py:261 "dropping its vector too so recall/search can never *)
(* resurface a dangling ref": not when the delete meets an edit.           *)
NeverDangling == DOMAIN vectors \subseteq DOMAIN rows
=============================================================================
