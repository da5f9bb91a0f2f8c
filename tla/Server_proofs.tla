--------------------------- MODULE Server_proofs ---------------------------
(***************************************************************************)
(* Proofs about what the server does beside a single run: the task queue,  *)
(* for any set of runs, any settings and any number of restarts and        *)
(* resumes; the GitHub poller; the project registry and its workspaces;    *)
(* cron expressions over any calendar, and the schedules.                  *)
(***************************************************************************)
EXTENDS Server, Functions, FunctionTheorems, FiniteSetTheorems, SequenceTheorems,
        WellFoundedInduction, TLAPS

-----------------------------------------------------------------------------
(* The task queue. *)

Places  == {"none", "created", "planning", "working", "closing"}
Rows    == NoRow \cup TerminalRow \cup {"queued", "running"}
Handles == Copies \cup {0}

Entries(q)  == {q[k] : k \in DOMAIN q}
Distinct(q) == \A j, k \in DOMAIN q : q[j] = q[k] => j = k

-----------------------------------------------------------------------------
(* The inductive invariant. *)

\* The i-th coroutine of a run t that was not submitted again while it lived, by the rows r,
\* the coroutines c, the handles h and the cancels k: it is the one the server has or its run
\* was deleted, its row says what it does, and when its run was deleted it was told.
RunFits(t, i, r, c, h, k) ==
    /\ c[t, i] # "none" => i = h[t] \/ r[t] = "deleted"
    /\ c[t, i] = "created" => r[t] \in {"queued", "deleted"}
    /\ c[t, i] \in {"planning", "working"} => r[t] \in {"running", "deleted"}
    /\ c[t, i] = "closing" => r[t] \in Outcomes \cup {"cancelled", "deleted"}
    /\ r[t] = "deleted" /\ c[t, i] \in {"created", "planning", "working"} => <<t, i>> \in k

\* A queue q fits rows r, slots a, coroutines c, handles h, cancels k and resubmitted ids u:
\* an entry has a row and can be started, what the server has of a run takes its slot; and
\* but for the ids in u, an entry waits and the coroutines fit.
Fits(q, r, a, c, h, k, u) ==
    /\ Distinct(q)
    /\ \A t \in Entries(q) : r[t] \notin NoRow /\ \E i \in Copies : c[t, i] = "none"
    /\ \A t \in Entries(q) \ u :
          r[t] = "queued" /\ t \notin a /\ \A i \in Copies : c[t, i] = "none"
    /\ \A t \in Tasks, i \in Copies : h[t] = i /\ c[t, i] # "none" => t \in a
    /\ \A t \in Tasks \ u : \A i \in Copies : RunFits(t, i, r, c, h, k)

\* Nothing runs in a process that is gone.
DownIdle == server = "down" => \A t \in Tasks, i \in Copies : co[t, i] = "none"

IInv ==
    TypeOK /\ NoIdleSlot /\ DownIdle /\ Fits(queue, row, running, co, handle, cancelReq, reused)

-----------------------------------------------------------------------------
(* Taking entries out of the queue. *)

\* Every rank is the rank of one position.
LEMMA Ranks ==
    ASSUME NEW keep \in SUBSET Nat, IsFiniteSet(keep)
    PROVE  \A n \in 1..Cardinality(keep) : \E k \in keep : Rank(keep, k) = n
  <1> DEFINE upTo(k) == {j \in keep : j <= k}
             r == [k \in keep |-> Rank(keep, k)]
             ranks == 1..Cardinality(keep)
  <1>1. Cardinality(keep) \in Nat
    BY FS_CardinalityType
  <1>2. \A k \in keep : /\ upTo(k) \in SUBSET keep /\ k \in upTo(k) /\ IsFiniteSet(upTo(k))
                        /\ Cardinality(upTo(k)) \in ranks
    <2> SUFFICES ASSUME NEW k \in keep
                 PROVE  /\ upTo(k) \in SUBSET keep /\ k \in upTo(k) /\ IsFiniteSet(upTo(k))
                        /\ Cardinality(upTo(k)) \in ranks
      OBVIOUS
    <2>1. upTo(k) \in SUBSET keep /\ k \in upTo(k)
      OBVIOUS
    <2>2. IsFiniteSet(upTo(k)) /\ Cardinality(upTo(k)) <= Cardinality(keep)
      BY <2>1, FS_Subset
    <2>3. Cardinality(upTo(k)) \in Nat
      BY <2>2, FS_CardinalityType
    <2>4. Cardinality(upTo(k)) # 0
      <3> HIDE DEF upTo
      <3> QED BY <2>1, <2>2, FS_EmptySet
    <2> QED
      BY <1>1, <2>1, <2>2, <2>3, <2>4
  <1>3. r \in [keep -> ranks]
    BY <1>2 DEF Rank
  <1>4. ASSUME NEW j \in keep, NEW k \in keep, j < k PROVE r[j] # r[k]
    <2>1. upTo(j) \in SUBSET upTo(k) /\ k \notin upTo(j) /\ k \in upTo(k)
      <3>1. j \in Nat /\ k \in Nat /\ ~(k <= j) /\ k <= k
        BY <1>4
      <3>2. \A i \in keep : i <= j => i <= k
        BY <1>4
      <3> QED
        BY <3>1, <3>2
    <2>2. IsFiniteSet(upTo(k)) /\ upTo(j) # upTo(k)
      BY <1>2, <2>1
    <2>3. Cardinality(upTo(j)) # Cardinality(upTo(k))
      <3> HIDE DEF upTo
      <3> QED BY <2>1, <2>2, FS_Subset
    <2> QED
      BY <2>3 DEF Rank
  <1>5. r \in Injection(keep, ranks)
    <2>1. \A j, k \in keep : r[j] = r[k] => j = k
      <3> SUFFICES ASSUME NEW j \in keep, NEW k \in keep, r[j] = r[k], j # k PROVE FALSE
        OBVIOUS
      <3>1. j < k \/ k < j
        OBVIOUS
      <3> QED
        BY <1>4, <3>1
    <2> HIDE DEF r
    <2> QED
      BY <1>3, <2>1, Fun_IsInj
  <1>6. IsFiniteSet(ranks) /\ Cardinality(ranks) = Cardinality(keep)
    BY <1>1, FS_Interval
  <1>7. r \in Surjection(keep, ranks)
    <2> HIDE DEF r, ranks
    <2> QED BY <1>5, <1>6, FS_Injection
  <1>8. \A n \in ranks : \E k \in keep : r[k] = n
    <2> HIDE DEF r, ranks
    <2> QED BY <1>7, Fun_SurjectionProperties
  <1> QED
    BY <1>8

\* What is kept are entries of the queue, each once if it was there once.
LEMMA KeptSound ==
    ASSUME queue \in Seq(Tasks), NEW keep \in SUBSET DOMAIN queue
    PROVE  /\ Kept(keep) \in Seq(Tasks)
           /\ Entries(Kept(keep)) \subseteq {queue[k] : k \in keep}
           /\ Distinct(queue) => Distinct(Kept(keep))
  <1> DEFINE pick(n) == CHOOSE k \in keep : Rank(keep, k) = n
  <1>1. DOMAIN queue = 1..Len(queue) /\ Len(queue) \in Nat
    BY LenProperties
  <1>2. keep \in SUBSET Nat /\ IsFiniteSet(keep)
    <2>1. keep \in SUBSET (1..Len(queue)) /\ keep \in SUBSET Nat
      BY <1>1
    <2>2. IsFiniteSet(1..Len(queue))
      BY <1>1, FS_Interval
    <2> QED
      BY <2>1, <2>2, FS_Subset
  <1>3. Cardinality(keep) \in Nat
    BY <1>2, FS_CardinalityType
  <1>4. \A n \in 1..Cardinality(keep) : pick(n) \in keep /\ Rank(keep, pick(n)) = n
    <2> SUFFICES ASSUME NEW n \in 1..Cardinality(keep)
                 PROVE  pick(n) \in keep /\ Rank(keep, pick(n)) = n
      OBVIOUS
    <2>1. \E k \in keep : Rank(keep, k) = n
      BY <1>2, Ranks
    <2> QED
      BY <2>1
  <1> DEFINE kept == [n \in 1..Cardinality(keep) |-> queue[pick(n)]]
  <1>5. Kept(keep) = kept
    BY DEF Kept
  <1> HIDE DEF pick
  <1>6. \A k \in keep : queue[k] \in Tasks
    BY <1>1, ElementOfSeq
  <1>7. kept \in [1..Cardinality(keep) -> Tasks]
    BY <1>4, <1>6
  <1>8. kept \in Seq(Tasks)
    BY <1>3, <1>7, SeqDef
  <1>9. Entries(kept) \subseteq {queue[k] : k \in keep}
    BY <1>4 DEF Entries
  <1>10. ASSUME Distinct(queue) PROVE Distinct(kept)
    <2> SUFFICES ASSUME NEW m \in 1..Cardinality(keep), NEW n \in 1..Cardinality(keep),
                        kept[m] = kept[n]
                 PROVE  m = n
      BY DEF Distinct
    <2>1. queue[pick(m)] = queue[pick(n)] /\ {pick(m), pick(n)} \subseteq DOMAIN queue
      BY <1>4
    <2>2. pick(m) = pick(n)
      BY <1>10, <2>1 DEF Distinct
    <2> QED
      BY <1>4, <2>2
  <1> QED
    BY <1>5, <1>8, <1>9, <1>10

\* Removing a run leaves the others.
LEMMA WithoutSound ==
    ASSUME queue \in Seq(Tasks), NEW t
    PROVE  /\ Without(t) \in Seq(Tasks)
           /\ Entries(Without(t)) \subseteq Queued \ {t}
           /\ Distinct(queue) => Distinct(Without(t))
  <1> DEFINE keep == {k \in DOMAIN queue : queue[k] # t}
  <1>1. keep \in SUBSET DOMAIN queue
    OBVIOUS
  <1>2. {queue[k] : k \in keep} \subseteq Queued \ {t}
    BY DEF Queued
  <1> HIDE DEF keep
  <1>3. /\ Kept(keep) \in Seq(Tasks)
        /\ Entries(Kept(keep)) \subseteq {queue[k] : k \in keep}
        /\ Distinct(queue) => Distinct(Kept(keep))
    BY <1>1, KeptSound
  <1> QED
    BY <1>2, <1>3 DEF Without, keep

\* An entry at the end, or at the front, of a queue without it.
LEMMA AddEntry ==
    ASSUME NEW q \in Seq(Tasks), NEW t \in Tasks, Distinct(q), t \notin Entries(q)
    PROVE  /\ Append(q, t) \in Seq(Tasks) /\ <<t>> \o q \in Seq(Tasks)
           /\ Entries(Append(q, t)) = Entries(q) \cup {t} /\ Distinct(Append(q, t))
           /\ Entries(<<t>> \o q) = Entries(q) \cup {t} /\ Distinct(<<t>> \o q)
  <1>1. Len(q) \in Nat /\ DOMAIN q = 1..Len(q)
    BY LenProperties
  <1>2. /\ Append(q, t) \in Seq(Tasks) /\ DOMAIN Append(q, t) = 1..(Len(q) + 1)
        /\ \A i \in 1..Len(q) : Append(q, t)[i] = q[i]
        /\ Append(q, t)[Len(q) + 1] = t
    BY <1>1, AppendProperties, LenProperties
  <1>3. <<t>> \in Seq(Tasks) /\ Len(<<t>>) = 1 /\ <<t>>[1] = t
    OBVIOUS
  <1>4. /\ <<t>> \o q \in Seq(Tasks) /\ DOMAIN (<<t>> \o q) = 1..(Len(q) + 1)
        /\ (<<t>> \o q)[1] = t
        /\ \A i \in 2..(Len(q) + 1) : (<<t>> \o q)[i] = q[i - 1]
    <2>1. /\ <<t>> \o q \in Seq(Tasks) /\ Len(<<t>> \o q) = 1 + Len(q)
          /\ \A i \in 1..(1 + Len(q)) : (<<t>> \o q)[i] = IF i <= 1 THEN <<t>>[i] ELSE q[i - 1]
      BY <1>3, ConcatProperties
    <2> QED
      BY <1>1, <1>3, <2>1, LenProperties
  <1>5. Entries(Append(q, t)) = Entries(q) \cup {t} /\ Distinct(Append(q, t))
    BY <1>1, <1>2 DEF Entries, Distinct
  <1>6. Entries(<<t>> \o q) = Entries(q) \cup {t}
    <2> DEFINE z == <<t>> \o q
    <2>1. /\ DOMAIN z = 1..(Len(q) + 1) /\ z[1] = t
          /\ \A i \in 2..(Len(q) + 1) : z[i] = q[i - 1]
      BY <1>4
    <2> HIDE DEF z
    <2>2. \A i \in 1..Len(q) : i + 1 \in 1..(Len(q) + 1) /\ z[i + 1] = q[i]
      <3> SUFFICES ASSUME NEW i \in 1..Len(q)
                   PROVE  i + 1 \in 1..(Len(q) + 1) /\ z[i + 1] = q[i]
        OBVIOUS
      <3>1. i + 1 \in 2..(Len(q) + 1) /\ i + 1 \in 1..(Len(q) + 1) /\ (i + 1) - 1 = i
        BY <1>1
      <3> QED
        BY <2>1, <3>1
    <2>3. t \in Entries(z)
      BY <1>1, <2>1 DEF Entries
    <2>4. Entries(q) \subseteq Entries(z)
      BY <1>1, <2>1, <2>2 DEF Entries
    <2>5. ASSUME NEW i \in 1..(Len(q) + 1) PROVE z[i] \in Entries(q) \cup {t}
      <3>1. CASE i = 1
        BY <2>1, <3>1
      <3>2. CASE i # 1
        <4>1. i \in 2..(Len(q) + 1) /\ i - 1 \in 1..Len(q)
          BY <1>1, <3>2
        <4> QED
          BY <1>1, <2>1, <4>1 DEF Entries
      <3> QED
        BY <3>1, <3>2
    <2>6. Entries(z) \subseteq Entries(q) \cup {t}
      BY <2>1, <2>5 DEF Entries
    <2> QED
      BY <2>3, <2>4, <2>6 DEF z
  <1>7. Distinct(<<t>> \o q)
    BY <1>1, <1>4 DEF Entries, Distinct
  <1> QED
    BY <1>2, <1>4, <1>5, <1>6, <1>7

\* enqueue: the entries of the others stay, that of the id is the last.
LEMMA EnqueuedSound ==
    ASSUME queue \in Seq(Tasks), Distinct(queue), NEW t \in Tasks
    PROVE  /\ Enqueued(t) \in Seq(Tasks) /\ Distinct(Enqueued(t))
           /\ Entries(Enqueued(t)) \subseteq (Queued \ {t}) \cup {t}
  <1>1. /\ Without(t) \in Seq(Tasks) /\ Distinct(Without(t))
        /\ Entries(Without(t)) \subseteq Queued \ {t}
    BY WithoutSound
  <1>2. /\ Append(Without(t), t) \in Seq(Tasks) /\ Distinct(Append(Without(t), t))
        /\ Entries(Append(Without(t), t)) = Entries(Without(t)) \cup {t}
    <2>1. t \notin Entries(Without(t))
      BY <1>1
    <2> QED
      BY <1>1, <2>1, AddEntry
  <1> QED
    BY <1>1, <1>2 DEF Enqueued

-----------------------------------------------------------------------------
(* _pump *)

\* The length of what is left of x entries after the first n.
LEMMA LengthLeft ==
    ASSUME NEW x \in Nat, NEW n \in 0..x
    PROVE  (IF n + 1 <= x THEN x - (n + 1) + 1 ELSE 0) = x - n
  OBVIOUS

\* Each run in S gets a coroutine that is free in c, the others are as in c and h.
StartsFresh(S, c, h) ==
    /\ co' = [x \in Coros |-> IF x[1] \in S /\ x[2] = Fresh(x[1], c) THEN "created" ELSE c[x]]
    /\ handle' = [t \in Tasks |-> IF t \in S THEN Fresh(t, c) ELSE h[t]]

\* The pump over q took the entries in S, and stopped because it had to.
Takes(S, q, a, c, h) ==
    /\ queue' \in Seq(Tasks) /\ Distinct(queue')
    /\ Entries(queue') \subseteq Entries(q) \ S
    /\ running' = a \cup S
    /\ StartsFresh(S, c, h)
    /\ ~queuePaused' /\ queue' # <<>> => Cardinality(running') >= concurrency'

TakesSome(q, a, c, h) == \E S \in SUBSET (Entries(q) \ a) : Takes(S, q, a, c, h)

\* The same, one run at a time.
Started(S, c, h) ==
    /\ co' \in [Coros -> Places] /\ handle' \in [Tasks -> Handles]
    /\ \A t \in S : \E f \in Copies :
         /\ handle'[t] = f /\ c[t, f] = "none" /\ co'[t, f] = "created"
         /\ \A i \in Copies : i # f => co'[t, i] = c[t, i]
    /\ \A t \in Tasks \ S : handle'[t] = h[t] /\ \A i \in Copies : co'[t, i] = c[t, i]

\* It starts some entries, which leave the queue, and stops only when the queue is paused
\* or empty or the slots are full.
LEMMA PumpEffect ==
    ASSUME NEW q \in Seq(Tasks), Distinct(q),
           NEW a \in SUBSET Tasks, NEW c \in [Coros -> Places], NEW h \in [Tasks -> Handles],
           Pump(q, a, c, h)
    PROVE  TakesSome(q, a, c, h)
  <1>1. Len(q) \in Nat /\ DOMAIN q = 1..Len(q) /\ \A k \in 1..Len(q) : q[k] \in Tasks
    BY LenProperties, ElementOfSeq
  <1>2. PICK n \in 0..Len(q) :
          /\ PumpStops(q, a, n)
          /\ queue' = SubSeq(q, n + 1, Len(q))
          /\ running' = a \cup Startable(q, a, n)
          /\ co' = [x \in Coros |->
                      IF x[1] \in Startable(q, a, n) /\ x[2] = Fresh(x[1], c)
                      THEN "created" ELSE c[x]]
          /\ handle' = [t \in Tasks |-> IF t \in Startable(q, a, n) THEN Fresh(t, c) ELSE h[t]]
    BY Zenon DEF Pump
  <1> DEFINE S == {q[k] : k \in 1..n} \ a
  <1>3. S \in SUBSET (Entries(q) \ a) /\ Startable(q, a, n) = S
    BY <1>1 DEF Entries, Startable
  <1>4. /\ queue' \in Seq(Tasks)
        /\ DOMAIN queue' = 1..(Len(q) - n)
        /\ \A k \in 1..(Len(q) - n) : queue'[k] = q[n + k]
    <2>1. \A i \in (n + 1)..Len(q) : q[i] \in Tasks
      BY <1>1
    <2>2. n + 1 \in Int /\ Len(q) \in Int
      BY <1>1
    <2>3. /\ SubSeq(q, n + 1, Len(q)) \in Seq(Tasks)
          /\ Len(SubSeq(q, n + 1, Len(q))) = IF n + 1 <= Len(q) THEN Len(q) - (n + 1) + 1 ELSE 0
          /\ \A i \in 1..(Len(q) - (n + 1) + 1) : SubSeq(q, n + 1, Len(q))[i] = q[(n + 1) + i - 1]
      BY <2>1, <2>2, SubSeqProperties
    <2>4. queue' \in Seq(Tasks) /\ DOMAIN queue' = 1..Len(queue')
      BY <1>2, <2>3, LenProperties
    <2>5. Len(queue') = Len(q) - n
      <3>1. Len(queue') = IF n + 1 <= Len(q) THEN Len(q) - (n + 1) + 1 ELSE 0
        BY <1>2, <2>3
      <3> QED
        BY <1>1, <3>1, LengthLeft
    <2>6. \A k \in 1..(Len(q) - n) : queue'[k] = q[n + k]
      BY <1>1, <1>2, <2>3
    <2> QED
      BY <2>4, <2>5, <2>6
  <1>5. \A k \in 1..(Len(q) - n) : n + k \in DOMAIN q /\ n + k \notin 1..n
    BY <1>1
  <1>6. Distinct(queue')
    <2> SUFFICES ASSUME NEW j \in 1..(Len(q) - n), NEW k \in 1..(Len(q) - n),
                        queue'[j] = queue'[k]
                 PROVE  j = k
      BY <1>4 DEF Distinct
    <2>1. n + j = n + k
      BY <1>4, <1>5 DEF Distinct
    <2> QED
      BY <1>1, <2>1
  <1>7. Entries(queue') \subseteq Entries(q) \ S
    <2> SUFFICES ASSUME NEW k \in 1..(Len(q) - n)
                 PROVE  queue'[k] \in Entries(q) \ S
      BY <1>4 DEF Entries
    <2>1. queue'[k] = q[n + k] /\ n + k \in DOMAIN q /\ n + k \notin 1..n
      BY <1>4, <1>5
    <2>2. 1..n \subseteq DOMAIN q
      BY <1>1
    <2>3. q[n + k] \notin S
      BY <2>1, <2>2 DEF Distinct
    <2> QED
      BY <2>1, <2>3 DEF Entries
  <1>8. ~queuePaused' /\ queue' # <<>> => Cardinality(running') >= concurrency'
    <2>1. n = Len(q) => queue' = <<>>
      BY <1>1, <1>4, <1>2, SubSeqEmpty
    <2> QED
      BY <1>2, <2>1 DEF PumpStops
  <1>9. running' = a \cup S /\ StartsFresh(S, c, h)
    BY <1>2, <1>3, Zenon DEF StartsFresh
  <1> HIDE DEF S
  <1>10. Takes(S, q, a, c, h)
    BY <1>4, <1>6, <1>7, <1>8, <1>9, Zenon DEF Takes
  <1> QED
    BY <1>3, <1>10 DEF TakesSome

\* What it does to each coroutine and handle: a run it starts gets one that was free.
LEMMA PumpStarts ==
    ASSUME NEW S \in SUBSET Tasks, NEW c \in [Coros -> Places], NEW h \in [Tasks -> Handles],
           \A t \in S : \E i \in Copies : c[t, i] = "none", StartsFresh(S, c, h)
    PROVE  Started(S, c, h)
  <1>1. \A t \in S : Fresh(t, c) \in Copies /\ c[t, Fresh(t, c)] = "none"
    BY DEF Fresh
  <1>2. \A t \in Tasks : handle'[t] = IF t \in S THEN Fresh(t, c) ELSE h[t]
    BY DEF StartsFresh
  <1>3. \A t \in Tasks, i \in Copies :
          co'[t, i] = IF t \in S /\ i = Fresh(t, c) THEN "created" ELSE c[t, i]
    BY DEF Coros, StartsFresh
  <1>4. co' \in [Coros -> Places]
    BY DEF Places, StartsFresh
  <1>5. handle' \in [Tasks -> Handles]
    BY <1>1 DEF Handles, StartsFresh
  <1>6. ASSUME NEW t \in S
        PROVE  \E f \in Copies :
                 /\ handle'[t] = f /\ c[t, f] = "none" /\ co'[t, f] = "created"
                 /\ \A i \in Copies : i # f => co'[t, i] = c[t, i]
    <2>1. PICK f \in Copies : f = Fresh(t, c) /\ c[t, f] = "none"
      BY <1>1
    <2>2. t \in Tasks
      OBVIOUS
    <2>3. handle'[t] = f /\ co'[t, f] = "created"
      BY <1>2, <1>3, <2>1, <2>2
    <2>4. \A i \in Copies : i # f => co'[t, i] = c[t, i]
      BY <1>3, <2>1, <2>2
    <2> QED
      BY <2>1, <2>3, <2>4
  <1>7. ASSUME NEW t \in Tasks \ S
        PROVE  handle'[t] = h[t] /\ \A i \in Copies : co'[t, i] = c[t, i]
    BY <1>2, <1>3
  <1> QED
    BY <1>4, <1>5, <1>6, <1>7 DEF Started

\* What a pump over q changes in c and h is that entries without a slot are started.
StartsWaiting(q, a, c, h) ==
    /\ \A t \in Tasks, i \in Copies :
         co'[t, i] # c[t, i] =>
            t \in Entries(q) \ a /\ c[t, i] = "none" /\ co'[t, i] = "created"
    /\ \A t \in Tasks : handle'[t] # h[t] => t \in Entries(q) \ a

\* A pump over a queue that fits leaves everything fitting, and no slot idle.
LEMMA PumpFits ==
    ASSUME NEW q \in Seq(Tasks), NEW a \in SUBSET Tasks,
           NEW c \in [Coros -> Places], NEW h \in [Tasks -> Handles],
           Fits(q, row', a, c, h, cancelReq', reused'), Pump(q, a, c, h)
    PROVE  /\ queue' \in Seq(Tasks) /\ running' \in SUBSET Tasks
           /\ co' \in [Coros -> Places] /\ handle' \in [Tasks -> Handles]
           /\ Fits(queue', row', running', co', handle', cancelReq', reused')
           /\ NoIdleSlot'
           /\ StartsWaiting(q, a, c, h)
  <1>0. PICK S \in SUBSET (Entries(q) \ a) : Takes(S, q, a, c, h)
    <2>1. Distinct(q)
      BY DEF Fits
    <2>2. TakesSome(q, a, c, h)
      BY <2>1, PumpEffect
    <2> QED
      BY <2>2, Zenon DEF TakesSome
  <1>1. /\ queue' \in Seq(Tasks) /\ Distinct(queue')
        /\ Entries(queue') \subseteq Entries(q) \ S
        /\ running' = a \cup S /\ StartsFresh(S, c, h)
        /\ ~queuePaused' /\ queue' # <<>> => Cardinality(running') >= concurrency'
    BY <1>0, Zenon DEF Takes
  <1>2. Entries(q) \subseteq Tasks /\ S \in SUBSET Tasks
    BY <1>1, LenProperties, ElementOfSeq DEF Entries
  <1>3. /\ \A t \in Entries(q) : row'[t] \notin NoRow /\ \E i \in Copies : c[t, i] = "none"
        /\ \A t \in Entries(q) \ reused' :
              row'[t] = "queued" /\ t \notin a /\ \A i \in Copies : c[t, i] = "none"
        /\ \A t \in Tasks, i \in Copies : h[t] = i /\ c[t, i] # "none" => t \in a
        /\ \A t \in Tasks \ reused' : \A i \in Copies : RunFits(t, i, row', c, h, cancelReq')
    BY DEF Fits
  <1>4. /\ co' \in [Coros -> Places] /\ handle' \in [Tasks -> Handles]
        /\ \A t \in S : \E f \in Copies :
             /\ handle'[t] = f /\ c[t, f] = "none" /\ co'[t, f] = "created"
             /\ \A i \in Copies : i # f => co'[t, i] = c[t, i]
        /\ \A t \in Tasks \ S : /\ handle'[t] = h[t]
                                /\ \A i \in Copies : co'[t, i] = c[t, i]
    <2>1. \A t \in S : \E i \in Copies : c[t, i] = "none"
      BY <1>1, <1>3
    <2>2. Started(S, c, h)
      BY <1>1, <1>2, <2>1, PumpStarts
    <2> QED
      BY <2>2 DEF Started
  <1>5. \A t \in Entries(queue') :
          /\ row'[t] \notin NoRow /\ \E i \in Copies : co'[t, i] = "none"
          /\ t \notin reused' =>
               row'[t] = "queued" /\ t \notin running' /\ \A i \in Copies : co'[t, i] = "none"
    <2> SUFFICES ASSUME NEW t \in Entries(queue')
                 PROVE  /\ row'[t] \notin NoRow /\ \E i \in Copies : co'[t, i] = "none"
                        /\ t \notin reused' =>
                             /\ row'[t] = "queued" /\ t \notin running'
                             /\ \A i \in Copies : co'[t, i] = "none"
      OBVIOUS
    <2>1. t \in Entries(q) /\ t \in Tasks \ S
      BY <1>1, <1>2
    <2>2. \A i \in Copies : co'[t, i] = c[t, i]
      BY <1>4, <2>1
    <2>3. t \notin a => t \notin running'
      BY <1>1, <2>1
    <2> QED
      BY <1>3, <2>1, <2>2, <2>3
  <1>6. \A t \in Tasks, i \in Copies : handle'[t] = i /\ co'[t, i] # "none" => t \in running'
    <2> SUFFICES ASSUME NEW t \in Tasks, NEW i \in Copies, handle'[t] = i, co'[t, i] # "none",
                        t \notin S
                 PROVE  t \in a
      BY <1>1
    <2>1. h[t] = i /\ c[t, i] = co'[t, i]
      BY <1>4
    <2> QED
      BY <1>3, <2>1
  <1>7. \A t \in Tasks \ reused' : \A i \in Copies :
          RunFits(t, i, row', co', handle', cancelReq')
    <2> SUFFICES ASSUME NEW t \in Tasks \ reused', NEW i \in Copies
                 PROVE  RunFits(t, i, row', co', handle', cancelReq')
      OBVIOUS
    <2>1. CASE t \in S
      <3>1. row'[t] = "queued" /\ c[t, i] = "none"
        BY <1>1, <1>3, <2>1
      <3>2. PICK f \in Copies : /\ handle'[t] = f /\ co'[t, f] = "created"
                                 /\ \A j \in Copies : j # f => co'[t, j] = c[t, j]
        BY <1>4, <2>1
      <3> QED
        BY <3>1, <3>2 DEF RunFits
    <2>2. CASE t \notin S
      <3>1. co'[t, i] = c[t, i] /\ handle'[t] = h[t] /\ RunFits(t, i, row', c, h, cancelReq')
        BY <1>3, <1>4, <2>2
      <3> QED
        BY <3>1 DEF RunFits
    <2> QED
      BY <2>1, <2>2
  <1>8. NoIdleSlot'
    BY <1>1 DEF NoIdleSlot
  <1>9. running' \in SUBSET Tasks
    BY <1>1, <1>2
  <1>10. Fits(queue', row', running', co', handle', cancelReq', reused')
    BY <1>1, <1>5, <1>6, <1>7, Zenon DEF Fits
  <1>11. ASSUME NEW t \in Tasks, NEW i \in Copies, co'[t, i] # c[t, i]
         PROVE  t \in Entries(q) \ a /\ c[t, i] = "none" /\ co'[t, i] = "created"
    <2>1. t \in S
      BY <1>4, <1>11
    <2>2. PICK f \in Copies : /\ c[t, f] = "none" /\ co'[t, f] = "created"
                               /\ \A j \in Copies : j # f => co'[t, j] = c[t, j]
      BY <1>4, <2>1
    <2>3. i = f
      BY <1>11, <2>2
    <2> QED
      BY <1>1, <2>1, <2>2, <2>3
  <1>12. ASSUME NEW t \in Tasks, handle'[t] # h[t] PROVE t \in Entries(q) \ a
    BY <1>1, <1>4, <1>12
  <1>13. StartsWaiting(q, a, c, h)
    BY <1>11, <1>12 DEF StartsWaiting
  <1> QED
    BY <1>1, <1>4, <1>8, <1>9, <1>10, <1>13

-----------------------------------------------------------------------------
(* Steps that pump. *)

\* The types of what a pump leaves alone.
RestTyped ==
    /\ row \in [Tasks -> Rows]
    /\ reused \in SUBSET Tasks
    /\ {cancelReq, doomed} \subseteq SUBSET Coros
    /\ server \in {"up", "stopping", "down"}
    /\ concurrency \in Limits \cup {Concurrency}
    /\ queuePaused \in BOOLEAN
    /\ restarts \in 0..MaxRestarts
    /\ requeues \in 0..MaxRequeues

\* The type invariant, split into what a pump changes and the rest.
LEMMA TypesSplit ==
    /\ TypeOK <=> /\ RestTyped
                  /\ queue \in Seq(Tasks) /\ running \in SUBSET Tasks
                  /\ co \in [Coros -> Places] /\ handle \in [Tasks -> Handles]
    /\ TypeOK' <=> /\ RestTyped'
                   /\ queue' \in Seq(Tasks) /\ running' \in SUBSET Tasks
                   /\ co' \in [Coros -> Places] /\ handle' \in [Tasks -> Handles]
  BY DEF TypeOK, RestTyped, Rows, Places, Handles

\* Every step that pumps does so over a queue that fits: a queue q of entries that wait or of
\* ids submitted again, without the coroutine that closes, with the handles and the slots
\* but those that a deletion or the end of a coroutine takes.
PumpsOver(q, a, c, h) ==
    /\ Fits(q, row', a, c, h, cancelReq', reused') /\ Pump(q, a, c, h)
    /\ \A t \in Tasks, i \in Copies :
          c[t, i] # co[t, i] => co[t, i] = "closing" /\ c[t, i] = "none"
    /\ \A t \in Entries(q) \ reused' : \A i \in Copies : co[t, i] = "none"
    /\ \A t \in Tasks : h[t] # handle[t] =>
          \/ t \notin Entries(q) /\ row'[t] = "deleted"
          \/ \E i \in Copies : c[t, i] # co[t, i]

Pumped ==
    /\ RestTyped' /\ server' # "down"
    /\ \E q \in Seq(Tasks), a \in SUBSET Tasks, c \in [Coros -> Places], h \in [Tasks -> Handles] :
          PumpsOver(q, a, c, h)

\* After a step that pumps the invariant holds.
LEMMA PumpedInv == ASSUME Pumped PROVE IInv'
  <1>1. PICK q \in Seq(Tasks), a \in SUBSET Tasks, c \in [Coros -> Places],
             h \in [Tasks -> Handles] : PumpsOver(q, a, c, h)
    BY Zenon DEF Pumped
  <1>2. Fits(q, row', a, c, h, cancelReq', reused') /\ Pump(q, a, c, h)
    BY <1>1 DEF PumpsOver
  <1>3. /\ queue' \in Seq(Tasks) /\ running' \in SUBSET Tasks
        /\ co' \in [Coros -> Places] /\ handle' \in [Tasks -> Handles]
        /\ Fits(queue', row', running', co', handle', cancelReq', reused')
        /\ NoIdleSlot'
    BY <1>2, PumpFits
  <1>4. RestTyped' /\ server' # "down"
    BY DEF Pumped
  <1>5. TypeOK' /\ DownIdle'
    BY <1>3, <1>4, TypesSplit DEF DownIdle
  <1> QED
    BY <1>3, <1>5 DEF IInv

\* The same with handles and coroutines as they are.
LEMMA PlainPump ==
    ASSUME NEW q \in Seq(Tasks), NEW a \in SUBSET Tasks,
           co \in [Coros -> Places], handle \in [Tasks -> Handles],
           RestTyped', server' # "down",
           Fits(q, row', a, co, handle, cancelReq', reused'), Pump(q, a, co, handle)
    PROVE  Pumped
  <1>1. \A t \in Entries(q) \ reused' : \A i \in Copies : co[t, i] = "none"
    BY DEF Fits
  <1>2. /\ \A t \in Tasks, i \in Copies :
              co[t, i] # co[t, i] => co[t, i] = "closing" /\ co[t, i] = "none"
        /\ \A t \in Tasks : handle[t] # handle[t] =>
              \/ t \notin Entries(q) /\ row'[t] = "deleted"
              \/ \E i \in Copies : co[t, i] # co[t, i]
    OBVIOUS
  <1>3. PumpsOver(q, a, co, handle)
    BY <1>1, <1>2, Zenon DEF PumpsOver
  <1> QED
    BY <1>3, Zenon DEF Pumped

\* What the invariant says.
LEMMA QueueFacts ==
    ASSUME IInv
    PROVE  /\ RestTyped
           /\ queue \in Seq(Tasks) /\ running \in SUBSET Tasks
           /\ co \in [Coros -> Places] /\ handle \in [Tasks -> Handles]
           /\ row \in [Tasks -> Rows] /\ reused \in SUBSET Tasks /\ cancelReq \in SUBSET Coros
           /\ Distinct(queue) /\ Entries(queue) = Queued /\ Queued \subseteq Tasks
           /\ \A t \in Queued : row[t] \notin NoRow /\ \E i \in Copies : co[t, i] = "none"
           /\ \A t \in Queued \ reused :
                row[t] = "queued" /\ t \notin running /\ \A i \in Copies : co[t, i] = "none"
           /\ \A t \in Tasks, i \in Copies : handle[t] = i /\ co[t, i] # "none" => t \in running
           /\ \A t \in Tasks \ reused : \A i \in Copies :
                RunFits(t, i, row, co, handle, cancelReq)
  <1>1. /\ RestTyped
        /\ queue \in Seq(Tasks) /\ running \in SUBSET Tasks
        /\ co \in [Coros -> Places] /\ handle \in [Tasks -> Handles]
    BY TypesSplit DEF IInv
  <1>2. Entries(queue) = Queued
    BY DEF Entries, Queued
  <1>3. Queued \subseteq Tasks
    BY <1>1, LenProperties, ElementOfSeq DEF Queued
  <1>4. row \in [Tasks -> Rows] /\ reused \in SUBSET Tasks /\ cancelReq \in SUBSET Coros
    BY <1>1 DEF RestTyped
  <1> QED
    BY <1>1, <1>2, <1>3, <1>4 DEF IInv, Fits

\* 0 is no coroutine.
LEMMA NoCopy == 0 \notin Copies
  BY DEF Copies

\* The server has the one that its handle names.
LEMMA HeldOne ==
    ASSUME handle \in [Tasks -> Handles], NEW t \in Tasks
    PROVE  Held(t) <=> \E i \in Copies : handle[t] = i /\ co[t, i] # "none"
  <1>2. handle[t] # 0 <=> handle[t] \in Copies
    BY NoCopy DEF Handles
  <1> QED
    BY <1>2, Zenon DEF Held

\* Who is asked to cancel is a coroutine.
LEMMA ToldTyped ==
    ASSUME handle \in [Tasks -> Handles], cancelReq \in SUBSET Coros, NEW t \in Tasks
    PROVE  Held(t) => cancelReq \cup {<<t, handle[t]>>} \in SUBSET Coros
  <1>1. Held(t) => handle[t] \in Copies
    BY HeldOne
  <1> QED
    BY <1>1 DEF Coros

\* Of a run that was not submitted again and not deleted only the one the server has lives.
LEMMA OneAlive ==
    ASSUME IInv, NEW t \in Tasks \ reused, NEW i \in Copies, NEW j \in Copies,
           co[t, i] # "none", co[t, j] # "none", row[t] # "deleted"
    PROVE  i = j /\ handle[t] = i /\ Held(t)
  <1>1. i = handle[t] /\ j = handle[t]
    BY QueueFacts DEF RunFits
  <1> QED
    BY <1>1, QueueFacts, HeldOne

\* enqueue fits: the id waits, or it is one that was submitted again.
LEMMA EnqueuedPumps ==
    ASSUME IInv, NEW t \in Tasks, CanStart(t), row' = [row EXCEPT ![t] = "queued"],
           reused' = reused \/ reused' = reused \cup {t},
           t \notin reused' => t \notin running /\ ~Live(t),
           cancelReq' = cancelReq, RestTyped', server' # "down",
           Pump(Enqueued(t), running, co, handle)
    PROVE  Pumped
  <1>1. /\ Enqueued(t) \in Seq(Tasks) /\ Distinct(Enqueued(t))
        /\ Entries(Enqueued(t)) \subseteq (Queued \ {t}) \cup {t}
    BY QueueFacts, EnqueuedSound
  <1>2. \A u \in Tasks : row'[u] = IF u = t THEN "queued" ELSE row[u]
    BY QueueFacts
  <1>3. \A u \in Entries(Enqueued(t)) :
          /\ row'[u] \notin NoRow /\ \E i \in Copies : co[u, i] = "none"
          /\ u \notin reused' =>
               row'[u] = "queued" /\ u \notin running /\ \A i \in Copies : co[u, i] = "none"
    <2> SUFFICES ASSUME NEW u \in Entries(Enqueued(t))
                 PROVE  /\ row'[u] \notin NoRow /\ \E i \in Copies : co[u, i] = "none"
                        /\ u \notin reused' =>
                             /\ row'[u] = "queued" /\ u \notin running
                             /\ \A i \in Copies : co[u, i] = "none"
      OBVIOUS
    <2>1. CASE u = t
      <3>1. row'[u] = "queued" /\ \E i \in Copies : co[u, i] = "none"
        BY <1>2, <2>1 DEF CanStart
      <3>2. u \notin reused' => u \notin running /\ \A i \in Copies : co[u, i] = "none"
        BY <2>1, Zenon DEF Live
      <3> QED
        BY <3>1, <3>2 DEF NoRow
    <2>2. CASE u # t
      <3>1. u \in Queued /\ u \in Tasks /\ (u \notin reused' => u \notin reused)
        BY <1>1, <2>2, QueueFacts
      <3> QED
        BY <1>2, <2>2, <3>1, QueueFacts
    <2> QED
      BY <2>1, <2>2
  <1>4. \A u \in Tasks \ reused' : \A i \in Copies : RunFits(u, i, row', co, handle, cancelReq')
    <2> SUFFICES ASSUME NEW u \in Tasks \ reused', NEW i \in Copies
                 PROVE  RunFits(u, i, row', co, handle, cancelReq')
      OBVIOUS
    <2>1. CASE u = t
      BY <2>1 DEF Live, RunFits
    <2>2. CASE u # t
      <3>1. row'[u] = row[u] /\ RunFits(u, i, row, co, handle, cancelReq)
        BY <1>2, <2>2, QueueFacts
      <3> QED
        BY <3>1 DEF RunFits
    <2> QED
      BY <2>1, <2>2
  <1>5. \A u \in Tasks, i \in Copies : handle[u] = i /\ co[u, i] # "none" => u \in running
    BY QueueFacts
  <1>6. Fits(Enqueued(t), row', running, co, handle, cancelReq', reused')
    BY <1>1, <1>3, <1>4, <1>5, Zenon DEF Fits
  <1> QED
    BY <1>1, <1>6, PlainPump, QueueFacts

\* start_run: an id in use, or queued again, or new.
LEMMA SubmitPumps == ASSUME IInv, NEW t \in Tasks, Submit(t) PROVE Pumped
  <1> USE DEF Submit
  <1>1. RestTyped' /\ server' # "down"
    <2>1. row' \in [Tasks -> Rows]
      BY QueueFacts DEF Rows
    <2>2. requeues' \in 0..MaxRequeues
      <3>1. requeues \in 0..MaxRequeues
        BY QueueFacts DEF RestTyped
      <3> QED
        BY <3>1, TaskQueueAssumption DEF Requeue
    <2>3. reused' \in SUBSET Tasks
      BY QueueFacts
    <2> QED
      BY <2>1, <2>2, <2>3, QueueFacts DEF RestTyped, knobs
  <1>2. /\ reused' = reused \/ reused' = reused \cup {t}
        /\ t \notin reused' => t \notin running /\ ~Live(t)
    OBVIOUS
  <1> QED
    BY <1>1, <1>2, EnqueuedPumps

\* resume_task: what is over and has no slot is not alive.
LEMMA ResumePumps == ASSUME IInv, NEW t \in Tasks, ResumeTask(t) PROVE Pumped
  <1> USE DEF ResumeTask
  <1>1. RestTyped' /\ server' # "down"
    <2>1. row' \in [Tasks -> Rows]
      BY QueueFacts DEF Rows
    <2>2. requeues' \in 0..MaxRequeues
      <3>1. requeues \in 0..MaxRequeues
        BY QueueFacts DEF RestTyped
      <3> QED
        BY <3>1, TaskQueueAssumption DEF Requeue
    <2> QED
      BY <2>1, <2>2, QueueFacts DEF RestTyped, knobs
  <1>2. ASSUME t \notin reused, NEW i \in Copies, co[t, i] # "none" PROVE FALSE
    <2>1. row[t] # "deleted"
      BY DEF Resumable
    <2>2. Held(t)
      BY <1>2, <2>1, OneAlive
    <2> QED
      BY <2>2, QueueFacts, HeldOne
  <1>3. t \notin reused' => t \notin running /\ ~Live(t)
    BY <1>2 DEF Live
  <1> QED
    BY <1>1, <1>3, EnqueuedPumps

\* delete_task: the slot may go, for the handle goes too, and what it had is told.
LEMMA DeletePumps == ASSUME IInv, NEW t \in Tasks, Delete(t) PROVE Pumped
  <1> USE DEF Delete
  <1> DEFINE h == [handle EXCEPT ![t] = 0]
  <1>1. /\ Without(t) \in Seq(Tasks) /\ Distinct(Without(t))
        /\ Entries(Without(t)) \subseteq Queued \ {t}
    BY QueueFacts, WithoutSound
  <1>2. /\ h \in [Tasks -> Handles] /\ h[t] = 0 /\ \A u \in Tasks : u # t => h[u] = handle[u]
        /\ \A u \in Tasks : row'[u] = IF u = t THEN "deleted" ELSE row[u]
        /\ cancelReq \subseteq cancelReq' /\ cancelReq' \in SUBSET Coros
    <2>1. h \in [Tasks -> Handles] /\ h[t] = 0 /\ \A u \in Tasks : u # t => h[u] = handle[u]
      BY QueueFacts DEF Handles
    <2>2. cancelReq \subseteq cancelReq' /\ cancelReq' \in SUBSET Coros
      BY QueueFacts, ToldTyped
    <2>3. \A u \in Tasks : row'[u] = IF u = t THEN "deleted" ELSE row[u]
      BY QueueFacts
    <2> QED
      BY <2>1, <2>2, <2>3
  <1> HIDE DEF h
  <1>3. \A u \in Entries(Without(t)) :
          /\ row'[u] \notin NoRow /\ \E i \in Copies : co[u, i] = "none"
          /\ u \notin reused' =>
               row'[u] = "queued" /\ u \notin running \ {t} /\ \A i \in Copies : co[u, i] = "none"
    BY <1>1, <1>2, QueueFacts
  <1>4. \A u \in Tasks, i \in Copies : h[u] = i /\ co[u, i] # "none" => u \in running \ {t}
    <2>1. \A u \in Tasks, i \in Copies : h[u] = i => u # t
      BY <1>2, NoCopy
    <2> QED
      BY <1>2, <2>1, QueueFacts
  <1>5. \A u \in Tasks \ reused' : \A i \in Copies : RunFits(u, i, row', co, h, cancelReq')
    <2> SUFFICES ASSUME NEW u \in Tasks \ reused', NEW i \in Copies
                 PROVE  RunFits(u, i, row', co, h, cancelReq')
      OBVIOUS
    <2>1. CASE u = t
      <3>1. row'[t] = "deleted"
        BY <1>2
      <3>2. co[t, i] # "none" => <<t, i>> \in cancelReq'
        <4>1. co[t, i] # "none" => Held(t) /\ handle[t] = i
          BY <2>1, OneAlive DEF NoRow
        <4> QED
          BY <4>1
      <3> QED
        BY <2>1, <3>1, <3>2 DEF RunFits
    <2>2. CASE u # t
      <3>1. /\ row'[u] = row[u] /\ h[u] = handle[u] /\ RunFits(u, i, row, co, handle, cancelReq)
        BY <1>2, <2>2, QueueFacts
      <3> QED
        BY <1>2, <3>1 DEF RunFits
    <2> QED
      BY <2>1, <2>2
  <1>6. running \ {t} \in SUBSET Tasks
    BY QueueFacts
  <1>7. Fits(Without(t), row', running \ {t}, co, h, cancelReq', reused')
    BY <1>1, <1>3, <1>4, <1>5, Zenon DEF Fits
  <1>8. RestTyped' /\ server' # "down"
    BY <1>2, QueueFacts DEF RestTyped, knobs, counters, Rows, NoRow
  <1>9. Pump(Without(t), running \ {t}, co, h)
    BY DEF h
  <1>10. /\ \A u \in Entries(Without(t)) \ reused' : \A i \in Copies : co[u, i] = "none"
         /\ \A u \in Tasks, i \in Copies :
              co[u, i] # co[u, i] => co[u, i] = "closing" /\ co[u, i] = "none"
         /\ \A u \in Tasks : h[u] # handle[u] =>
              \/ u \notin Entries(Without(t)) /\ row'[u] = "deleted"
              \/ \E i \in Copies : co[u, i] # co[u, i]
    BY <1>1, <1>2, <1>3
  <1>11. PumpsOver(Without(t), running \ {t}, co, h)
    BY <1>7, <1>9, <1>10, Zenon DEF PumpsOver
  <1>12. co \in [Coros -> Places]
    BY QueueFacts
  <1> QED
    BY <1>1, <1>2, <1>6, <1>8, <1>11, <1>12, Zenon DEF Pumped

\* A pump of entries that are all in the queue already, with the rest as it is.
LEMMA SameEntriesPump ==
    ASSUME IInv, NEW q \in Seq(Tasks), Distinct(q), Entries(q) \subseteq Queued,
           UNCHANGED <<row, cancelReq, reused>>, RestTyped', server' # "down",
           Pump(q, running, co, handle)
    PROVE  Pumped
  <1>1. \A t \in Entries(q) :
          /\ row'[t] \notin NoRow /\ \E i \in Copies : co[t, i] = "none"
          /\ t \notin reused' =>
               row'[t] = "queued" /\ t \notin running /\ \A i \in Copies : co[t, i] = "none"
    BY QueueFacts
  <1>2. /\ \A t \in Tasks, i \in Copies : handle[t] = i /\ co[t, i] # "none" => t \in running
        /\ \A t \in Tasks \ reused' : \A i \in Copies :
              RunFits(t, i, row', co, handle, cancelReq')
    BY QueueFacts
  <1>3. Fits(q, row', running, co, handle, cancelReq', reused')
    BY <1>1, <1>2, Zenon DEF Fits
  <1> QED
    BY <1>3, PlainPump, QueueFacts

\* promote_task: the entry moves to the front.
LEMMA PromotePumps == ASSUME IInv, NEW t \in Tasks, Promote(t) PROVE Pumped
  <1> USE DEF Promote
  <1> DEFINE q == <<t>> \o Without(t)
  <1>1. /\ Without(t) \in Seq(Tasks) /\ Distinct(Without(t))
        /\ Entries(Without(t)) \subseteq Queued \ {t}
    BY QueueFacts, WithoutSound
  <1>2. q \in Seq(Tasks) /\ Distinct(q) /\ Entries(q) = Entries(Without(t)) \cup {t}
    BY <1>1, AddEntry
  <1>3. Entries(q) \subseteq Queued
    BY <1>1, <1>2
  <1>4. RestTyped' /\ server' # "down" /\ UNCHANGED <<row, cancelReq, reused>>
    BY QueueFacts DEF RestTyped, knobs, counters
  <1>5. Pump(q, running, co, handle)
    OBVIOUS
  <1> HIDE DEF q
  <1> QED
    BY <1>2, <1>3, <1>4, <1>5, SameEntriesPump

\* Resuming the queue and new limits pump the queue as it is.
LEMMA KnobsPump ==
    ASSUME IInv, ResumeQueue \/ \E limit \in Limits : Configure(limit)
    PROVE  Pumped
  <1>1. /\ RestTyped' /\ server' # "down" /\ UNCHANGED <<row, cancelReq, reused>>
        /\ Pump(queue, running, co, handle)
    BY QueueFacts DEF ResumeQueue, Configure, RestTyped, counters
  <1> QED
    BY <1>1, QueueFacts, SameEntriesPump

\* The finally clause: with the coroutine the slot and the handle of its id go.
LEMMA ClosesPumps ==
    ASSUME IInv, NEW t \in Tasks, NEW i \in Copies, Closes(<<t, i>>)
    PROVE  Pumped
  <1> DEFINE c == [co EXCEPT ![<<t, i>>] = "none"]
             h == [handle EXCEPT ![t] = 0]
  <1>0. /\ co[t, i] = "closing" /\ server # "down"
        /\ UNCHANGED <<row, server, cancelReq, doomed, concurrency, queuePaused, restarts,
                       requeues, reused>>
        /\ Pump(queue, running \ {t}, c, h)
    BY QueueFacts DEF Closes, Runs, RestTyped, knobs, counters
  <1>1. /\ c \in [Coros -> Places] /\ h \in [Tasks -> Handles]
        /\ running \ {t} \in SUBSET Tasks
    BY QueueFacts DEF Places, Handles
  <1>2. /\ \A u \in Tasks, j \in Copies :
              c[u, j] = IF u = t /\ j = i THEN "none" ELSE co[u, j]
        /\ \A u \in Tasks : h[u] = IF u = t THEN 0 ELSE handle[u]
    BY QueueFacts DEF Coros
  <1> HIDE DEF c, h
  <1>3. \A u \in Queued :
          /\ row[u] \notin NoRow /\ \E j \in Copies : c[u, j] = "none"
          /\ u \notin reused =>
               /\ row[u] = "queued" /\ u \notin running \ {t}
               /\ \A j \in Copies : c[u, j] = "none" /\ co[u, j] = "none"
    <2> SUFFICES ASSUME NEW u \in Queued
                 PROVE  /\ row[u] \notin NoRow /\ \E j \in Copies : c[u, j] = "none"
                        /\ u \notin reused =>
                             /\ row[u] = "queued" /\ u \notin running \ {t}
                             /\ \A j \in Copies : c[u, j] = "none" /\ co[u, j] = "none"
      OBVIOUS
    <2>1. u \in Tasks /\ row[u] \notin NoRow
      BY QueueFacts
    <2>2. PICK j \in Copies : co[u, j] = "none"
      BY QueueFacts
    <2>3. c[u, j] = "none"
      BY <1>2, <2>1, <2>2
    <2>4. u \notin reused =>
            row[u] = "queued" /\ u \notin running /\ \A m \in Copies : co[u, m] = "none"
      BY QueueFacts
    <2>5. u \notin reused => \A m \in Copies : c[u, m] = "none"
      BY <1>2, <2>1, <2>4
    <2> QED
      BY <2>1, <2>3, <2>4, <2>5
  <1>4. \A u \in Tasks, j \in Copies : h[u] = j /\ c[u, j] # "none" => u \in running \ {t}
    <2> SUFFICES ASSUME NEW u \in Tasks, NEW j \in Copies, h[u] = j, c[u, j] # "none"
                 PROVE  u \in running \ {t}
      OBVIOUS
    <2>2. u # t /\ handle[u] = j
      BY <1>2, NoCopy
    <2>3. co[u, j] # "none"
      BY <1>2, <2>2
    <2> QED
      BY <2>2, <2>3, QueueFacts
  <1>5. \A u \in Tasks \ reused : \A j \in Copies : RunFits(u, j, row, c, h, cancelReq)
    <2> SUFFICES ASSUME NEW u \in Tasks \ reused, NEW j \in Copies
                 PROVE  RunFits(u, j, row, c, h, cancelReq)
      OBVIOUS
    <2>1. RunFits(u, j, row, co, handle, cancelReq)
      BY QueueFacts
    <2>2. CASE u # t
      <3>1. c[u, j] = co[u, j] /\ h[u] = handle[u]
        BY <1>2, <2>2
      <3> QED
        BY <2>1, <3>1 DEF RunFits
    <2>3. CASE u = t /\ j = i
      BY <1>2, <2>3 DEF RunFits
    <2>4. CASE u = t /\ j # i
      <3>1. c[u, j] = co[u, j]
        BY <1>2, <2>4
      <3>2. co[u, j] # "none" => row[u] = "deleted"
        BY <1>0, <2>4, OneAlive
      <3> QED
        BY <2>1, <3>1, <3>2 DEF RunFits
    <2> QED
      BY <2>2, <2>3, <2>4
  <1>6. Fits(queue, row', running \ {t}, c, h, cancelReq', reused')
    <2>1. row' = row /\ cancelReq' = cancelReq /\ reused' = reused
      BY <1>0
    <2>2. Distinct(queue) /\ Entries(queue) = Queued
      BY QueueFacts
    <2>3. Fits(queue, row, running \ {t}, c, h, cancelReq, reused)
      BY <1>3, <1>4, <1>5, <2>2, Zenon DEF Fits
    <2> QED
      BY <2>1, <2>3
  <1>7. RestTyped' /\ server' # "down"
    BY <1>0, QueueFacts DEF RestTyped
  <1>8. /\ \A u \in Entries(queue) \ reused' : \A j \in Copies : co[u, j] = "none"
        /\ \A u \in Tasks, j \in Copies :
              c[u, j] # co[u, j] => co[u, j] = "closing" /\ c[u, j] = "none"
        /\ \A u \in Tasks : h[u] # handle[u] =>
              \/ u \notin Entries(queue) /\ row'[u] = "deleted"
              \/ \E j \in Copies : c[u, j] # co[u, j]
    <2>1. \A u \in Entries(queue) \ reused' : \A j \in Copies : co[u, j] = "none"
      BY <1>0, <1>3, QueueFacts
    <2>2. c[t, i] # co[t, i]
      BY <1>0, <1>2
    <2>3. \A u \in Tasks, j \in Copies :
            c[u, j] # co[u, j] => co[u, j] = "closing" /\ c[u, j] = "none"
      BY <1>0, <1>2
    <2>4. \A u \in Tasks : h[u] # handle[u] => u = t
      BY <1>2
    <2> QED
      BY <2>1, <2>2, <2>3, <2>4
  <1>9. PumpsOver(queue, running \ {t}, c, h)
    BY <1>0, <1>6, <1>8, Zenon DEF PumpsOver
  <1>10. queue \in Seq(Tasks)
    BY QueueFacts
  <1> QED
    BY <1>1, <1>7, <1>9, <1>10, Zenon DEF Pumped

\* The start of a server: nothing is alive, and every entry it keeps waits.
LEMMA BootPumps == ASSUME IInv, Boot PROVE Pumped
  <1> USE DEF Boot
  <1> DEFINE keep == {k \in DOMAIN queue : row'[queue[k]] \notin TerminalRow}
  <1>1. \A t \in Tasks, i \in Copies : co[t, i] = "none"
    BY DEF IInv, DownIdle
  <1>2. RestTyped' /\ server' # "down"
    <2>1. row' \in [Tasks -> Rows]
      BY QueueFacts DEF Rows, TerminalRow
    <2> QED
      BY <2>1, QueueFacts DEF RestTyped, counters
  <1>3. /\ keep \in SUBSET DOMAIN queue /\ {queue[k] : k \in keep} \subseteq Queued
        /\ \A t \in {queue[k] : k \in keep} : row'[t] \notin TerminalRow
    BY DEF Queued
  <1>4. Pump(Kept(keep), {}, co, handle)
    OBVIOUS
  <1> HIDE DEF keep
  <1>5. /\ Kept(keep) \in Seq(Tasks) /\ Distinct(Kept(keep))
        /\ Entries(Kept(keep)) \subseteq {queue[k] : k \in keep}
    BY <1>3, QueueFacts, KeptSound
  <1>6. \A t \in Entries(Kept(keep)) : t \in Queued /\ row'[t] = "queued"
    <2> SUFFICES ASSUME NEW t \in Entries(Kept(keep))
                 PROVE  t \in Queued /\ row'[t] = "queued"
      OBVIOUS
    <2>1. t \in Queued /\ t \in Tasks /\ row'[t] \notin TerminalRow
      BY <1>3, <1>5, QueueFacts
    <2>2. row[t] \in Rows \ NoRow
      BY <2>1, QueueFacts
    <2> QED
      BY <2>1, <2>2 DEF Rows, TerminalRow
  <1>7. \E i \in Copies : TRUE
    BY TaskQueueAssumption DEF Copies
  <1>8. Fits(Kept(keep), row', {}, co, handle, cancelReq', reused')
    <2>1. \A t \in Entries(Kept(keep)) :
            /\ row'[t] \notin NoRow /\ \E i \in Copies : co[t, i] = "none"
            /\ row'[t] = "queued" /\ t \notin {} /\ \A i \in Copies : co[t, i] = "none"
      BY <1>1, <1>6, <1>7, QueueFacts DEF NoRow
    <2>2. \A t \in Tasks, i \in Copies : handle[t] = i /\ co[t, i] # "none" => t \in {}
      BY <1>1
    <2>3. \A t \in Tasks \ reused' : \A i \in Copies : RunFits(t, i, row', co, handle, cancelReq')
      BY <1>1 DEF RunFits
    <2> QED
      BY <1>5, <2>1, <2>2, <2>3, Zenon DEF Fits
  <1>9. {} \in SUBSET Tasks /\ co \in [Coros -> Places] /\ handle \in [Tasks -> Handles]
    BY QueueFacts
  <1> QED
    BY <1>2, <1>4, <1>5, <1>8, <1>9, PlainPump

-----------------------------------------------------------------------------
(* Steps that do not pump. *)

\* The empty queue is the one without entries.
LEMMA NoEntries ==
    ASSUME NEW q \in Seq(Tasks)
    PROVE  q = <<>> <=> Entries(q) = {}
  <1>1. DOMAIN q = 1..Len(q) /\ Len(q) \in Nat
    BY LenProperties
  <1>2. ASSUME q # <<>> PROVE Entries(q) # {}
    <2>1. Len(q) \in Nat \ {0}
      BY <1>2, EmptySeq
    <2>2. 1 \in DOMAIN q
      BY <1>1, <2>1
    <2> QED
      BY <2>2 DEF Entries
  <1>3. ASSUME q = <<>> PROVE Entries(q) = {}
    <2>1. DOMAIN q = {}
      BY <1>1, <1>3, EmptySeq
    <2> QED
      BY <2>1 DEF Entries
  <1> QED
    BY <1>2, <1>3

\* What such a step keeps: it adds nothing to the queue, takes no slot, starts nothing, and
\* what it does to a row fits the coroutines.
Quiet ==
    /\ RestTyped'
    /\ queue' \in Seq(Tasks) /\ Distinct(queue') /\ Queued' \subseteq Queued
    /\ UNCHANGED <<running, handle, reused, concurrency>>
    /\ co' \in [Coros -> Places]
    /\ queuePaused' \/ queuePaused' = queuePaused
    /\ server # "down" /\ server' # "down"
    /\ \A t \in Tasks, i \in Copies :
          /\ co'[t, i] # "none" => co[t, i] # "none"
          /\ co'[t, i] = "created" => co[t, i] = "created"
    /\ \A t \in Queued' : row'[t] \notin NoRow /\ (t \notin reused => row'[t] = "queued")
    /\ \A t \in Tasks \ reused : \A i \in Copies : RunFits(t, i, row', co', handle', cancelReq')

\* After a quiet step the invariant holds.
LEMMA QuietInv == ASSUME IInv, Quiet PROVE IInv'
  <1> USE DEF Quiet
  <1>1. Entries(queue') = Queued'
    BY DEF Entries, Queued
  <1>2. \A t \in Entries(queue') :
          /\ row'[t] \notin NoRow /\ \E i \in Copies : co'[t, i] = "none"
          /\ t \notin reused' =>
               row'[t] = "queued" /\ t \notin running' /\ \A i \in Copies : co'[t, i] = "none"
    BY <1>1, QueueFacts
  <1>3. \A t \in Tasks, i \in Copies : handle'[t] = i /\ co'[t, i] # "none" => t \in running'
    BY QueueFacts
  <1>4. Fits(queue', row', running', co', handle', cancelReq', reused')
    <2>1. Distinct(queue')
      OBVIOUS
    <2>2. reused' = reused
      OBVIOUS
    <2>3. \A t \in Tasks \ reused' : \A i \in Copies :
            RunFits(t, i, row', co', handle', cancelReq')
      BY <2>2
    <2>4. /\ \A t \in Entries(queue') : row'[t] \notin NoRow /\ \E i \in Copies : co'[t, i] = "none"
          /\ \A t \in Entries(queue') \ reused' :
               row'[t] = "queued" /\ t \notin running' /\ \A i \in Copies : co'[t, i] = "none"
      BY <1>2
    <2> QED
      BY <1>3, <2>1, <2>3, <2>4, Zenon DEF Fits
  <1>5. queue' # <<>> => queue # <<>>
    <2>1. queue = <<>> => Queued = {}
      BY QueueFacts, NoEntries
    <2>2. queue' \in Seq(Tasks) /\ Queued' \subseteq Queued
      OBVIOUS
    <2>3. queue' # <<>> => Queued' # {}
      <3> HIDE DEF Quiet
      <3> QED
        BY <1>1, <2>2, NoEntries
    <2> QED
      BY <2>1, <2>2, <2>3
  <1>6. NoIdleSlot'
    <2>1. NoIdleSlot /\ server # "down" /\ running' = running /\ concurrency' = concurrency
      BY DEF IInv
    <2>2. ~queuePaused' => ~queuePaused
      BY Zenon
    <2> QED
      BY <1>5, <2>1, <2>2, Zenon DEF NoIdleSlot
  <1>7. TypeOK' /\ DownIdle'
    BY QueueFacts, TypesSplit DEF DownIdle
  <1> QED
    BY <1>4, <1>6, <1>7 DEF IInv

\* A coroutine that moves on without a pump, with its row set to what its place allows.
LEMMA MovesQuiet ==
    ASSUME IInv, NEW t \in Tasks, NEW i \in Copies, server # "down", co[t, i] # "none",
           NEW to \in Places \ {"created"}, Moves(<<t, i>>, to),
           NEW st \in Rows \ NoRow, row' = row \/ row' = [row EXCEPT ![t] = st],
           cancelReq' = cancelReq \/ cancelReq' = cancelReq \ {<<t, i>>},
           t \notin reused =>
              /\ row[t] = "deleted" => row'[t] = "deleted"
              /\ RunFits(t, i, row', co', handle', cancelReq')
    PROVE  Quiet
  <1>1. /\ UNCHANGED <<queue, server, running, handle, doomed, concurrency, queuePaused,
                       restarts, requeues, reused>>
        /\ co' = [co EXCEPT ![<<t, i>>] = to]
    BY DEF Moves, knobs, counters
  <1>2. /\ co' \in [Coros -> Places]
        /\ \A u \in Tasks, j \in Copies : co'[u, j] = IF u = t /\ j = i THEN to ELSE co[u, j]
    BY <1>1, QueueFacts DEF Coros
  <1>3. \A u \in Tasks : row'[u] \in {row[u], st} /\ (u # t => row'[u] = row[u])
    BY QueueFacts
  <1>4. RestTyped'
    <2>1. row' \in [Tasks -> Rows] /\ cancelReq' \in SUBSET Coros
      BY QueueFacts
    <2> QED
      BY <1>1, <2>1, QueueFacts DEF RestTyped
  <1>5. Queued' = Queued
    BY <1>1 DEF Queued
  <1>6. \A u \in Queued' : row'[u] \notin NoRow /\ (u \notin reused => row'[u] = "queued")
    <2> SUFFICES ASSUME NEW u \in Queued
                 PROVE  row'[u] \notin NoRow /\ (u \notin reused => row'[u] = "queued")
      BY <1>5
    <2>1. u \in Tasks /\ row[u] \notin NoRow /\ (u \notin reused => row[u] = "queued" /\ u # t)
      BY QueueFacts
    <2> QED
      BY <1>3, <2>1
  <1>7. \A u \in Tasks \ reused : \A j \in Copies : RunFits(u, j, row', co', handle', cancelReq')
    <2> SUFFICES ASSUME NEW u \in Tasks \ reused, NEW j \in Copies, ~(u = t /\ j = i)
                 PROVE  RunFits(u, j, row', co', handle', cancelReq')
      OBVIOUS
    <2>1. /\ co'[u, j] = co[u, j] /\ handle' = handle
          /\ <<u, j>> \in cancelReq => <<u, j>> \in cancelReq'
          /\ RunFits(u, j, row, co, handle, cancelReq)
      <3>1. co'[u, j] = co[u, j] /\ handle' = handle
        BY <1>1, <1>2
      <3>2. <<u, j>> # <<t, i>>
        OBVIOUS
      <3>3. <<u, j>> \in cancelReq => <<u, j>> \in cancelReq'
        BY <3>2
      <3> QED
        BY <3>1, <3>3, QueueFacts
    <2>2. CASE row'[u] = row[u]
      BY <2>1, <2>2 DEF RunFits
    <2>3. CASE row'[u] # row[u]
      <3>1. u = t /\ row[t] # "deleted" /\ j # i
        BY <1>3, <2>3
      <3>2. co[u, j] = "none"
        BY <3>1, OneAlive
      <3> QED
        BY <2>1, <3>2 DEF RunFits
    <2> QED
      BY <2>2, <2>3
  <1>8. \A u \in Tasks, j \in Copies :
          /\ co'[u, j] # "none" => co[u, j] # "none"
          /\ co'[u, j] = "created" => co[u, j] = "created"
    BY <1>2
  <1>9. queue' \in Seq(Tasks) /\ Distinct(queue') /\ Queued' \subseteq Queued
    BY <1>1, <1>5, QueueFacts
  <1> QED
    BY <1>1, <1>2, <1>4, <1>6, <1>7, <1>8, <1>9 DEF Quiet

\* Every step of _run_task but the last is quiet.
LEMMA CoroutineQuiet ==
    ASSUME IInv, NEW t \in Tasks, NEW i \in Copies, Coroutine(<<t, i>>), ~Closes(<<t, i>>)
    PROVE  Quiet
  <1> DEFINE x == <<t, i>>
  <1>0. /\ RestTyped /\ row[t] \in Rows /\ co[t, i] \in Places
        /\ co \in [Coros -> Places] /\ row \in [Tasks -> Rows]
        /\ t \notin reused => RunFits(t, i, row, co, handle, cancelReq)
        /\ {"running", "failed", "cancelled"} \cup Outcomes \subseteq Rows \ NoRow
        /\ {"none", "planning", "working", "closing"} \subseteq Places \ {"created"}
        /\ x \in Coros
    BY QueueFacts DEF Rows, NoRow, TerminalRow, Outcomes, Places, Coros
  <1>a. ASSUME NEW to \in Places, Moves(x, to) PROVE co'[t, i] = to /\ handle' = handle
    BY <1>0, <1>a DEF Moves
  <1>b. ASSUME NEW st, SetRow(t, st)
        PROVE  /\ row' = row \/ row' = [row EXCEPT ![t] = st]
               /\ row'[t] = IF row[t] = "deleted" THEN "deleted" ELSE st
    BY <1>0, <1>b DEF SetRow
  <1>c. ASSUME StartRow(t) PROVE row' = [row EXCEPT ![t] = "running"] /\ row'[t] = "running"
    BY <1>0, <1>c DEF StartRow
  <1>d. "running" \in Rows \ NoRow /\ "failed" \in Rows \ NoRow /\ "cancelled" \in Rows \ NoRow
    BY <1>0
  <1>1. CASE FirstStep(x)
    <2>1. /\ server # "down" /\ co[t, i] = "created" /\ row[t] # "deleted" /\ cancelReq' = cancelReq
          /\ StartRow(t) /\ Moves(x, "planning")
      BY <1>1 DEF FirstStep, Runs
    <2>2. t \notin reused => RunFits(t, i, row', co', handle', cancelReq')
      BY <1>0, <1>a, <1>c, <2>1 DEF RunFits
    <2> QED
      BY <1>0, <1>c, <1>d, <2>1, <2>2, MovesQuiet
  <1>2. CASE ConstructFails(x)
    <2>1. /\ server # "down" /\ co[t, i] = "created" /\ row[t] # "deleted" /\ cancelReq' = cancelReq
          /\ StartRow(t) /\ Moves(x, "none")
      BY <1>2 DEF ConstructFails, Runs
    <2>2. t \notin reused => RunFits(t, i, row', co', handle', cancelReq')
      BY <1>0, <1>a, <2>1 DEF RunFits
    <2> QED
      BY <1>0, <1>c, <1>d, <2>1, <2>2, MovesQuiet
  <1>3. CASE BrokerGone(x) \/ NeverStarts(x) \/ CloseCancelled(x)
    <2>1. /\ server # "down" /\ co[t, i] # "none" /\ row' = row
          /\ cancelReq' = cancelReq \/ cancelReq' = cancelReq \ {x} 
          /\ Moves(x, "none")
      BY <1>3 DEF BrokerGone, NeverStarts, CloseCancelled, Runs
    <2>2. t \notin reused => RunFits(t, i, row', co', handle', cancelReq')
      BY <1>0, <1>a, <2>1 DEF RunFits
    <2> QED
      BY <1>0, <1>d, <2>1, <2>2, MovesQuiet
  <1>4. CASE PlanReady(x)
    <2>1. /\ server # "down" /\ co[t, i] = "planning" /\ x \notin cancelReq /\ cancelReq' = cancelReq
          /\ StartRow(t) /\ Moves(x, "working")
      BY <1>4 DEF PlanReady, Runs
    <2>2. t \notin reused => row[t] # "deleted" /\ RunFits(t, i, row', co', handle', cancelReq')
      BY <1>0, <1>a, <1>c, <2>1 DEF RunFits
    <2> QED
      BY <1>0, <1>c, <1>d, <2>1, <2>2, MovesQuiet
  <1>5. CASE Fails(x)
    <2>1. /\ server # "down" /\ co[t, i] # "none" /\ cancelReq' = cancelReq
          /\ SetRow(t, "failed") /\ Moves(x, "closing")
      BY <1>5 DEF Fails, Runs
    <2>2. t \notin reused => RunFits(t, i, row', co', handle', cancelReq')
      BY <1>0, <1>a, <1>b, <2>1 DEF RunFits, Outcomes
    <2> QED
      BY <1>0, <1>b, <1>d, <2>1, <2>2, MovesQuiet
  <1>6. CASE Finishes(x)
    <2>0. PICK o \in Outcomes : SetRow(t, o)
      BY <1>6 DEF Finishes
    <2>1. /\ server # "down" /\ co[t, i] # "none" /\ cancelReq' = cancelReq /\ Moves(x, "closing")
          /\ o \in Rows \ NoRow
      BY <1>0, <1>6 DEF Finishes, Runs
    <2>2. t \notin reused => RunFits(t, i, row', co', handle', cancelReq')
      BY <1>0, <1>a, <1>b, <2>0, <2>1 DEF RunFits
    <2> QED
      BY <1>0, <1>b, <2>0, <2>1, <2>2, MovesQuiet
  <1>7. CASE CancelArrives(x)
    <2>1. /\ server # "down" /\ co[t, i] # "none" /\ cancelReq' = cancelReq \ {x}
          /\ SetRow(t, "cancelled") /\ Moves(x, "closing")
      BY <1>7 DEF CancelArrives
    <2>2. t \notin reused => RunFits(t, i, row', co', handle', cancelReq')
      BY <1>0, <1>a, <1>b, <2>1 DEF RunFits
    <2> QED
      BY <1>0, <1>b, <1>d, <2>1, <2>2, MovesQuiet
  <1> QED
    BY <1>1, <1>2, <1>3, <1>4, <1>5, <1>6, <1>7 DEF Coroutine

\* cancel_run is quiet: of a live run it changes nothing here, a queued one it takes out.
LEMMA CancelQuiet ==
    ASSUME IInv, NEW t \in Tasks, CancelRunning(t) \/ CancelQueued(t)
    PROVE  Quiet
  <1>1. CASE CancelRunning(t)
    <2>1. /\ UNCHANGED <<row, queue, server, running, co, handle, doomed, concurrency, queuePaused,
                         restarts, requeues, reused>>
          /\ cancelReq \subseteq cancelReq' /\ server = "up"
      BY <1>1 DEF CancelRunning, durableVars, knobs, counters
    <2>2. cancelReq' \in SUBSET Coros
      BY <1>1, QueueFacts, ToldTyped DEF CancelRunning
    <2>3. RestTyped' /\ Queued' = Queued
      BY <2>1, <2>2, QueueFacts DEF RestTyped, Queued
    <2>4. \A u \in Tasks \ reused : \A j \in Copies : RunFits(u, j, row', co', handle', cancelReq')
      <3> SUFFICES ASSUME NEW u \in Tasks \ reused, NEW j \in Copies
                   PROVE  RunFits(u, j, row', co', handle', cancelReq')
        OBVIOUS
      <3>1. RunFits(u, j, row, co, handle, cancelReq)
        BY QueueFacts
      <3> QED
        BY <2>1, <3>1 DEF RunFits
    <2> QED
      BY <2>1, <2>3, <2>4, QueueFacts DEF Quiet
  <1>2. CASE CancelQueued(t)
    <2>1. /\ queue' \in Seq(Tasks) /\ Distinct(queue') /\ Entries(queue') \subseteq Queued \ {t}
          /\ t \in Queued
          /\ UNCHANGED <<server, running, co, handle, cancelReq, doomed, concurrency, queuePaused,
                         restarts, requeues, reused>>
          /\ server = "up" /\ row' = [row EXCEPT ![t] = "cancelled"]
      BY <1>2, QueueFacts, WithoutSound DEF CancelQueued, knobs, counters
    <2>2. Queued' \subseteq Queued \ {t}
      BY <2>1 DEF Entries, Queued
    <2>3. RestTyped'
      BY <2>1, QueueFacts DEF RestTyped, Rows, TerminalRow
    <2>4. \A u \in Queued' : row'[u] \notin NoRow /\ (u \notin reused => row'[u] = "queued")
      BY <2>1, <2>2, QueueFacts
    <2>5. \A u \in Tasks \ reused : \A j \in Copies : RunFits(u, j, row', co', handle', cancelReq')
      <3> SUFFICES ASSUME NEW u \in Tasks \ reused, NEW j \in Copies
                   PROVE  RunFits(u, j, row', co', handle', cancelReq')
        OBVIOUS
      <3>1. RunFits(u, j, row, co, handle, cancelReq)
        BY QueueFacts
      <3>2. CASE u = t
        BY <2>1, <3>2, QueueFacts DEF RunFits
      <3>3. CASE u # t
        <4>1. row'[u] = row[u]
          BY <2>1, <3>3, QueueFacts
        <4> QED
          BY <2>1, <3>1, <4>1 DEF RunFits
      <3> QED
        BY <3>2, <3>3
    <2> QED
      BY <2>1, <2>2, <2>3, <2>4, <2>5, QueueFacts DEF Quiet
  <1> QED
    BY <1>1, <1>2

\* New positions of the same entries are again each once: as many positions as entries.
LEMMA ReorderQuiet == ASSUME IInv, Reorder PROVE Quiet
  <1>1. PICK q \in [DOMAIN queue -> Queued] : {q[k] : k \in DOMAIN q} = Queued /\ queue' = q
    BY DEF Reorder
  <1>2. Len(queue) \in Nat /\ DOMAIN queue = 1..Len(queue)
    BY QueueFacts, LenProperties
  <1>3. IsFiniteSet(DOMAIN queue)
    BY <1>2, FS_Interval
  <1> DEFINE f == [k \in DOMAIN queue |-> queue[k]]
  <1>4. f \in Bijection(DOMAIN queue, Queued)
    <2>1. f \in [DOMAIN queue -> Queued] /\ \A x \in Queued : \E k \in DOMAIN queue : f[k] = x
      BY DEF Queued
    <2>2. \A j, k \in DOMAIN queue : f[j] = f[k] => j = k
      BY QueueFacts DEF Distinct
    <2> HIDE DEF f
    <2> QED
      BY <2>1, <2>2, Fun_IsBij
  <1>5. IsFiniteSet(Queued) /\ Cardinality(Queued) = Cardinality(DOMAIN queue)
    <2>1. ExistsBijection(DOMAIN queue, Queued)
      BY <1>4 DEF ExistsBijection
    <2> QED
      BY <1>3, <2>1, FS_Bijection
  <1>6. q \in Surjection(DOMAIN queue, Queued)
    BY <1>1, Fun_IsSurj
  <1>7. q \in Injection(DOMAIN queue, Queued)
    BY <1>3, <1>5, <1>6, FS_SurjSameCardinalityImpliesInj
  <1>8. Distinct(queue')
    BY <1>1, <1>7, Fun_InjectionProperties DEF Distinct
  <1>9. queue' \in Seq(Tasks)
    <2>1. queue' \in [1..Len(queue) -> Tasks]
      BY <1>1, <1>2, QueueFacts
    <2> QED
      BY <1>2, <2>1, SeqDef
  <1>10. Queued' = Queued /\ RestTyped'
    BY <1>1, QueueFacts DEF Queued, Reorder, RestTyped, knobs, counters
  <1>11. /\ UNCHANGED <<row, running, co, handle, cancelReq, reused, concurrency, queuePaused,
                        server>>
         /\ server = "up"
    BY DEF Reorder, knobs
  <1> QED
    BY <1>8, <1>9, <1>10, <1>11, QueueFacts DEF Quiet

\* A paused queue may hold entries beside free slots.
LEMMA PauseQuiet == ASSUME IInv, PauseQueue PROVE Quiet
  <1>1. RestTyped' /\ Queued' = Queued
    BY QueueFacts DEF PauseQueue, RestTyped, durableVars, counters, Queued
  <1>2. /\ UNCHANGED <<row, queue, running, co, handle, cancelReq, reused, concurrency, server>>
        /\ server = "up" /\ queuePaused'
    BY DEF PauseQueue, durableVars
  <1> QED
    BY <1>1, <1>2, QueueFacts DEF Quiet

\* A graceful stop only marks coroutines.
LEMMA ShutdownQuiet == ASSUME IInv, Shutdown PROVE Quiet
  <1>1. /\ UNCHANGED <<row, queue, running, co, handle, reused, concurrency, queuePaused, requeues>>
        /\ server = "up" /\ server' = "stopping"
        /\ cancelReq' = {x \in Coros : co[x] # "none"}
    BY DEF Shutdown, durableVars, knobs
  <1>2. RestTyped' /\ Queued' = Queued
    <2>1. restarts' \in 0..MaxRestarts
      <3>1. restarts \in 0..MaxRestarts
        BY QueueFacts DEF RestTyped
      <3> QED
        BY <3>1, TaskQueueAssumption DEF Shutdown
    <2> QED
      BY <1>1, <2>1, QueueFacts DEF Shutdown, RestTyped, Queued
  <1>3. \A u \in Tasks \ reused : \A j \in Copies : RunFits(u, j, row', co', handle', cancelReq')
    <2> SUFFICES ASSUME NEW u \in Tasks \ reused, NEW j \in Copies
                 PROVE  RunFits(u, j, row', co', handle', cancelReq')
      OBVIOUS
    <2>1. RunFits(u, j, row, co, handle, cancelReq)
      BY QueueFacts
    <2>2. co[u, j] # "none" => <<u, j>> \in cancelReq'
      BY <1>1 DEF Coros
    <2> QED
      BY <1>1, <2>1, <2>2 DEF RunFits
  <1> QED
    BY <1>1, <1>2, <1>3, QueueFacts DEF Quiet

\* When the process goes, the queue loses entries at most.
LEMMA DownInv ==
    ASSUME IInv, NEW t, Exit \/ Crash \/ CrashInCancel(t)
    PROVE  IInv'
  <1>1. /\ server' = "down" /\ running' = {} /\ row' = row /\ reused' = reused
        /\ cancelReq' = {} /\ doomed' = {}
        /\ co' = [x \in Coros |-> "none"] /\ handle' = [u \in Tasks |-> 0]
        /\ UNCHANGED <<concurrency, queuePaused, requeues>>
        /\ queue' = queue \/ queue' = Without(t)
    BY DEF Exit, Lose, Crash, CrashInCancel, knobs
  <1>2. RestTyped'
    <2>1. restarts' \in 0..MaxRestarts
      <3>1. restarts \in 0..MaxRestarts
        BY QueueFacts DEF RestTyped
      <3> QED
        BY <3>1, TaskQueueAssumption DEF Exit, Crash, CrashInCancel
    <2> QED
      BY <1>1, <2>1, QueueFacts DEF RestTyped
  <1>3. queue' \in Seq(Tasks) /\ Distinct(queue') /\ Entries(queue') \subseteq Queued
    <2>1. CASE queue' = queue
      BY <2>1, QueueFacts
    <2>2. CASE queue' = Without(t)
      BY <2>2, QueueFacts, WithoutSound
    <2> QED
      BY <1>1, <2>1, <2>2
  <1>4. \A u \in Tasks, j \in Copies : co'[u, j] = "none"
    BY <1>1 DEF Coros
  <1>5. Fits(queue', row', running', co', handle', cancelReq', reused')
    <2>1. \A u \in Entries(queue') :
            /\ row'[u] \notin NoRow /\ \E j \in Copies : co'[u, j] = "none"
            /\ u \notin reused' =>
                 row'[u] = "queued" /\ u \notin running' /\ \A j \in Copies : co'[u, j] = "none"
      BY <1>1, <1>3, <1>4, QueueFacts
    <2>2. \A u \in Tasks, j \in Copies : handle'[u] = j /\ co'[u, j] # "none" => u \in running'
      BY <1>4
    <2>3. \A u \in Tasks \ reused' : \A j \in Copies :
            RunFits(u, j, row', co', handle', cancelReq')
      BY <1>4 DEF RunFits
    <2> QED
      BY <1>3, <2>1, <2>2, <2>3 DEF Fits
  <1>6. TypeOK' /\ DownIdle' /\ NoIdleSlot'
    <2>1. co' \in [Coros -> Places] /\ handle' \in [Tasks -> Handles] /\ running' \in SUBSET Tasks
      BY <1>1 DEF Places, Handles
    <2> QED
      BY <1>1, <1>2, <1>3, <1>4, <2>1, TypesSplit DEF DownIdle, NoIdleSlot
  <1> QED
    BY <1>5, <1>6 DEF IInv

-----------------------------------------------------------------------------
(* The theorems. *)

\* A coroutine is one of a run.
LEMMA CoroutinesOf ==
    ASSUME NEW x \in Coros
    PROVE  \E t \in Tasks, i \in Copies : x = <<t, i>>
  BY DEF Coros

\* A step pumps, or is quiet, or takes the process down.
LEMMA NextCases ==
    ASSUME IInv, Next
    PROVE  Pumped \/ Quiet \/ (\E t \in Tasks : CrashInCancel(t)) \/ Exit \/ Crash
  <1>1. ASSUME NEW t \in Tasks, Submit(t) \/ ResumeTask(t) \/ Delete(t) \/ Promote(t)
        PROVE  Pumped
    BY <1>1, SubmitPumps, ResumePumps, DeletePumps, PromotePumps
  <1>2. ASSUME NEW t \in Tasks, CancelRunning(t) \/ CancelQueued(t) PROVE Quiet
    BY <1>2, CancelQuiet
  <1>3. ASSUME NEW x \in Coros, Coroutine(x) PROVE Pumped \/ Quiet
    <2>1. PICK t \in Tasks, i \in Copies : x = <<t, i>>
      BY CoroutinesOf
    <2> QED
      BY <1>3, <2>1, ClosesPumps, CoroutineQuiet
  <1>4. ASSUME ResumeQueue \/ \E limit \in Limits : Configure(limit) PROVE Pumped
    BY <1>4, KnobsPump
  <1>5. CASE Operator
    BY <1>1, <1>2, <1>4, <1>5, ReorderQuiet, PauseQuiet DEF Operator
  <1> QED
    BY <1>3, <1>5, ShutdownQuiet, BootPumps DEF Next

\* Every step keeps the invariant.
LEMMA InvariantStep == IInv /\ [Next]_vars => IInv'
  <1> SUFFICES ASSUME IInv, [Next]_vars PROVE IInv'
    OBVIOUS
  <1>1. CASE Next
    <2>1. ASSUME Exit \/ Crash PROVE IInv'
      BY <2>1, DownInv
    <2> QED
      BY <1>1, <2>1, NextCases, PumpedInv, QuietInv, DownInv
  <1>2. CASE UNCHANGED vars
    <2> USE <1>2 DEF vars, durableVars, knobs, counters
    <2>1. TypeOK'
      BY DEF TypeOK, IInv
    <2>2. NoIdleSlot' /\ DownIdle'
      BY DEF IInv, NoIdleSlot, DownIdle
    <2>3. Fits(queue', row', running', co', handle', cancelReq', reused')
      BY DEF IInv
    <2> QED
      BY <2>1, <2>2, <2>3 DEF IInv
  <1> QED
    BY <1>1, <1>2

\* An empty server fits.
LEMMA InitIInv == Init => IInv
  <1> SUFFICES ASSUME Init PROVE IInv
    OBVIOUS
  <1> USE TaskQueueAssumption DEF Init
  <1>1. queue \in Seq(Tasks) /\ DOMAIN queue = {}
    BY EmptySeq
  <1>2. TypeOK
    <2>1. 0 \in 0..MaxRestarts /\ 0 \in 0..MaxRequeues
      OBVIOUS
    <2>2. queue \in Seq(Tasks) /\ queuePaused \in BOOLEAN
      BY <1>1
    <2> QED
      BY <2>1, <2>2 DEF TypeOK, NoRow
  <1>3. \A t \in Tasks, i \in Copies : co[t, i] = "none"
    BY DEF Coros
  <1>4. NoIdleSlot /\ DownIdle
    BY <1>3 DEF NoIdleSlot, DownIdle
  <1>5. Fits(queue, row, running, co, handle, cancelReq, reused)
    <2>1. \A t \in Tasks : handle[t] = 0
      OBVIOUS
    <2>2. Entries(queue) = {} /\ Distinct(queue)
      BY <1>1 DEF Distinct, Entries
    <2> QED
      BY <1>3, <2>1, <2>2 DEF Fits, RunFits
  <1> QED
    BY <1>2, <1>4, <1>5 DEF IInv

\* What RunsOnce says of a step.
RunsOnceStep ==
    \A t \in Tasks :
        /\ Held(t) /\ Starts(t) => OneCloses(t)
        /\ LetGo(t) => row'[t] = "deleted" \/ OneCloses(t)
        /\ t \notin reused' =>
              /\ Live(t) => ~Starts(t)
              /\ row[t] \in TerminalRow => row'[t] \in {row[t], "queued", "deleted"}

\* A pump starts only what waits, or what an id was submitted for again and no handle keeps.
LEMMA StartsOnce ==
    ASSUME IInv, Next, NEW t \in Tasks
    PROVE  /\ Held(t) /\ Starts(t) => OneCloses(t)
           /\ LetGo(t) => row'[t] = "deleted" \/ OneCloses(t)
           /\ t \notin reused' /\ Live(t) => ~Starts(t)
  <1>1. CASE Pumped
    <2>0. PICK q \in Seq(Tasks), a \in SUBSET Tasks, c \in [Coros -> Places],
               h \in [Tasks -> Handles] : PumpsOver(q, a, c, h)
      BY <1>1, Zenon DEF Pumped
    <2>1. /\ Fits(q, row', a, c, h, cancelReq', reused') /\ Pump(q, a, c, h)
          /\ \A u \in Tasks, i \in Copies :
                c[u, i] # co[u, i] => co[u, i] = "closing" /\ c[u, i] = "none"
          /\ \A u \in Entries(q) \ reused' : \A i \in Copies : co[u, i] = "none"
          /\ \A u \in Tasks : h[u] # handle[u] =>
                \/ u \notin Entries(q) /\ row'[u] = "deleted"
                \/ \E i \in Copies : c[u, i] # co[u, i]
      BY <2>0, Zenon DEF PumpsOver
    <2>2. /\ \A i \in Copies : co'[t, i] # c[t, i] =>
                t \in Entries(q) \ a /\ c[t, i] = "none" /\ co'[t, i] = "created"
          /\ handle'[t] # h[t] => t \in Entries(q) \ a
      <3>1. StartsWaiting(q, a, c, h)
        BY <2>1, PumpFits
      <3> QED
        BY <3>1 DEF StartsWaiting
    <2>3. \A i \in Copies : h[t] = i /\ c[t, i] # "none" => t \in a
      BY <2>1 DEF Fits
    <2>4. ASSUME NEW i \in Copies, c[t, i] # co[t, i] PROVE OneCloses(t)
      <3>1. co[t, i] = "closing" /\ c[t, i] = "none"
        BY <2>1, <2>4
      <3>2. co'[t, i] # "closing"
        BY <2>2, <3>1
      <3> QED
        BY <3>1, <3>2 DEF OneCloses
    <2>5. ASSUME Starts(t), ~OneCloses(t) PROVE t \in Entries(q) \ a
      <3>1. PICK i \in Copies : co[t, i] # "created" /\ co'[t, i] = "created"
        BY <2>5 DEF Starts
      <3>2. co'[t, i] # c[t, i]
        BY <2>4, <2>5, <3>1
      <3> QED
        BY <2>2, <3>2
    <2>6. ASSUME Held(t), t \in Entries(q) \ a PROVE OneCloses(t)
      <3> SUFFICES ASSUME ~OneCloses(t) PROVE FALSE
        OBVIOUS
      <3>1. \A i \in Copies : c[t, i] = co[t, i]
        BY <2>4
      <3>2. h[t] = handle[t]
        BY <2>1, <2>6, <3>1
      <3>3. PICK j \in Copies : handle[t] = j /\ co[t, j] # "none"
        BY <2>6, QueueFacts, HeldOne
      <3> QED
        BY <2>3, <2>6, <3>1, <3>2, <3>3
    <2>7. LetGo(t) => row'[t] = "deleted" \/ OneCloses(t)
      <3> SUFFICES ASSUME LetGo(t), ~OneCloses(t) PROVE row'[t] = "deleted"
        OBVIOUS
      <3>1. Held(t) /\ handle'[t] # handle[t]
        BY DEF LetGo
      <3>2. handle'[t] = h[t]
        BY <2>2, <2>6, <3>1
      <3> QED
        BY <2>1, <2>4, <3>1, <3>2
    <2>8. ASSUME t \notin reused', Live(t), Starts(t) PROVE FALSE
      <3>1. PICK i \in Copies : co[t, i] # "created" /\ co'[t, i] = "created"
        BY <2>8 DEF Starts
      <3>2. c[t, i] # "created"
        BY <2>1, <3>1
      <3>3. t \in Entries(q) \ reused'
        BY <2>2, <2>8, <3>1, <3>2
      <3> QED
        BY <2>1, <2>8, <3>3 DEF Live
    <2> QED
      BY <2>5, <2>6, <2>7, <2>8
  <1>2. CASE Quiet
    BY <1>2 DEF Quiet, Starts, LetGo
  <1>3. CASE (\E u \in Tasks : CrashInCancel(u)) \/ Exit \/ Crash
    <2>1. co' = [x \in Coros |-> "none"]
      BY <1>3 DEF CrashInCancel, Exit, Lose, Crash
    <2>2. \A i \in Copies : co'[t, i] = "none"
      BY <2>1 DEF Coros
    <2>3. Held(t) => \E i \in Copies : handle[t] = i
      BY QueueFacts, HeldOne
    <2> QED
      BY <2>2, <2>3 DEF Starts, LetGo
  <1> QED
    BY <1>1, <1>2, <1>3, NextCases

\* A coroutine writes the row of a run that has not ended; handlers write "queued" or
\* remove the row; a start rewrites rows that say "running".
LEMMA RecordKept ==
    ASSUME IInv, Next, NEW t \in Tasks, t \notin reused', row[t] \in TerminalRow
    PROVE  row'[t] \in {row[t], "queued", "deleted"}
  <1> USE DEF TerminalRow, Outcomes
  <1>0. RestTyped /\ row \in [Tasks -> Rows]
    BY QueueFacts
  <1>1. ASSUME NEW u \in Tasks, Submit(u) \/ ResumeTask(u) \/ Delete(u) \/ Promote(u)
        PROVE  row'[t] \in {row[t], "queued", "deleted"}
    BY <1>0, <1>1 DEF Submit, ResumeTask, Delete, Promote
  <1>2. ASSUME NEW u \in Tasks, CancelRunning(u) \/ CancelQueued(u)
        PROVE  row'[t] \in {row[t], "queued", "deleted"}
    <2>1. CASE CancelRunning(u)
      BY <2>1 DEF CancelRunning, durableVars
    <2>2. CASE CancelQueued(u)
      <3>1. u \in Queued /\ reused' = reused /\ row' = [row EXCEPT ![u] = "cancelled"]
        BY <2>2 DEF CancelQueued
      <3>2. u # t
        BY <3>1, QueueFacts
      <3> QED
        BY <1>0, <3>1, <3>2
    <2> QED
      BY <1>2, <2>1, <2>2
  <1>3. ASSUME NEW u \in Tasks, NEW i \in Copies, Coroutine(<<u, i>>)
        PROVE  row'[t] \in {row[t], "queued", "deleted"}
    <2>1. reused' = reused
      BY <1>3 DEF Coroutine, FirstStep, ConstructFails, BrokerGone, NeverStarts, PlanReady, Fails,
                  Finishes, CancelArrives, Closes, CloseCancelled, Moves
    <2>2. \/ row' = row
          \/ /\ co[u, i] \in {"created", "planning", "working"}
             /\ StartRow(u) \/ \E st : SetRow(u, st)
      <3>1. CASE FirstStep(<<u, i>>) \/ ConstructFails(<<u, i>>) \/ PlanReady(<<u, i>>)
        BY <3>1 DEF FirstStep, ConstructFails, PlanReady, Runs
      <3>2. CASE Fails(<<u, i>>)
        <4>1. co[u, i] \in {"planning", "working"} /\ SetRow(u, "failed")
          BY <3>2 DEF Fails, Runs
        <4> QED
          BY <4>1, Zenon
      <3>3. CASE Finishes(<<u, i>>)
        <4>1. co[u, i] = "working" /\ \E o \in Outcomes : SetRow(u, o)
          BY <3>3 DEF Finishes, Runs
        <4> QED
          BY <4>1, Zenon
      <3>4. CASE CancelArrives(<<u, i>>)
        <4>1. co[u, i] \in {"planning", "working"} /\ SetRow(u, "cancelled")
          BY <3>4 DEF CancelArrives
        <4> QED
          BY <4>1, Zenon
      <3>5. CASE BrokerGone(<<u, i>>) \/ NeverStarts(<<u, i>>) \/ Closes(<<u, i>>)
                 \/ CloseCancelled(<<u, i>>)
        BY <3>5 DEF BrokerGone, NeverStarts, Closes, CloseCancelled
      <3> QED
        BY <1>3, <3>1, <3>2, <3>3, <3>4, <3>5 DEF Coroutine
    <2>3. ASSUME u = t, co[u, i] \in {"created", "planning", "working"} PROVE FALSE
      <3>1. RunFits(t, i, row, co, handle, cancelReq)
        BY <2>1, QueueFacts
      <3> QED
        BY <2>3, <3>1 DEF RunFits
    <2>4. CASE u # t
      BY <1>0, <2>2, <2>4 DEF StartRow, SetRow
    <2> QED
      BY <2>2, <2>3, <2>4
  <1>4. CASE Operator
    BY <1>1, <1>2, <1>4
       DEF Operator, Reorder, PauseQueue, ResumeQueue, Configure, durableVars
  <1>5. CASE (\E u \in Tasks : CrashInCancel(u)) \/ Shutdown \/ Exit \/ Crash
    BY <1>5 DEF CrashInCancel, Shutdown, Exit, Crash, Lose, durableVars
  <1>6. CASE Boot
    BY <1>0, <1>6 DEF Boot
  <1>7. ASSUME NEW x \in Coros, Coroutine(x)
        PROVE  row'[t] \in {row[t], "queued", "deleted"}
    <2>1. PICK u \in Tasks, i \in Copies : x = <<u, i>>
      BY CoroutinesOf
    <2> QED
      BY <1>3, <1>7, <2>1
  <1> QED
    BY <1>4, <1>5, <1>6, <1>7 DEF Next

\* The inductive invariant holds in every behaviour.
THEOREM InvariantHolds == Spec => []IInv
  <1>1. Init => IInv
    BY InitIInv
  <1>2. IInv /\ [Next]_vars => IInv'
    BY InvariantStep
  <1> QED
    BY <1>1, <1>2, PTL DEF Spec

\* The invariant is stronger than what the run checks.
LEMMA QueueGives == IInv => QueueInv
  <1> SUFFICES ASSUME IInv PROVE QueueInv
    OBVIOUS
  <1>1. TypeOK /\ NoIdleSlot
    BY DEF IInv
  <1>2. QueueConsistent
    BY QueueFacts DEF QueueConsistent, Distinct, Live
  <1>3. \A t \in Tasks : Held(t) => t \in running
    BY QueueFacts, HeldOne
  <1>4. ASSUME NEW t \in Tasks \ reused, Live(t), row[t] # "deleted" PROVE Held(t)
    BY <1>4, OneAlive DEF Live
  <1>5. LiveCounted
    BY <1>3, <1>4 DEF LiveCounted
  <1> QED
    BY <1>1, <1>2, <1>5 DEF QueueInv

\* _pump, the handlers and _run_task keep queue, slots, rows and coroutines in agreement, and
\* no slot idles while a run waits.  An id that is submitted again while it has a slot or a
\* coroutine is held to less: its entry is one, has a row, and what a cancel reaches has a
\* slot.
THEOREM QueueAgrees == Spec => []QueueInv
  BY QueueGives, InvariantHolds, PTL

\* _start never starts a second copy of a run whose coroutine the server has in its hands; it
\* lets go of one only when the run is deleted, or a coroutine of the id ends that a deletion
\* left behind.  But for ids submitted again while they lived, a run is never executed
\* twice at once and no late cancel, cleanup or start of the server rewrites an outcome.
THEOREM ExecutedOnce == Spec => RunsOnce
  <1>1. IInv /\ [Next]_vars => [RunsOnceStep]_vars
    BY StartsOnce, RecordKept DEF RunsOnceStep
  <1>2. Spec => []IInv
    BY InvariantHolds
  <1>3. RunsOnceStep <=> \A t \in Tasks :
          /\ Held(t) /\ Starts(t) => OneCloses(t)
          /\ LetGo(t) => row'[t] = "deleted" \/ OneCloses(t)
          /\ t \notin reused' =>
                /\ Live(t) => ~Starts(t)
                /\ row[t] \in TerminalRow => row'[t] \in {row[t], "queued", "deleted"}
    BY DEF RunsOnceStep
  <1> QED
    BY <1>1, <1>2, <1>3, PTL DEF Spec, RunsOnce

-----------------------------------------------------------------------------
(* Each part beside the others. *)

\* A step of the server is a step of one part, and is nothing to the others (Server).
LEMMA ServerSteps ==
    [ServerNext]_serverVars =>
        [Next]_vars /\ [Poll!Next]_(Poll!vars) /\ [Reg!Next]_(Reg!vars) /\ [Sched!Next]_(Sched!vars)
<1>1. UNCHANGED poller => UNCHANGED Poll!vars
  BY DEF poller, Poll!vars, Poll!github, Poll!tickVars
<1>2. UNCHANGED registry => UNCHANGED Reg!vars
  BY DEF registry, Reg!vars, Reg!files
<1>3. UNCHANGED schedules => UNCHANGED Sched!vars
  BY DEF schedules, Sched!vars, Sched!tick
<1> QED
  BY <1>1, <1>2, <1>3 DEF ServerNext, serverVars

\* What a run that looks at one part checks is a behaviour of the server.
THEOREM AloneIsServer == PollerAlone \/ RegistryAlone \/ SchedulesAlone => ServerSpec
<1>1. AtRest => ServerInit
  BY DEF AtRest
<1>2. [Poll!Next /\ UNCHANGED <<vars, registry, schedules>>]_serverVars => [ServerNext]_serverVars
  BY DEF ServerNext
<1>3. [Reg!Next /\ UNCHANGED <<vars, poller, schedules>>]_serverVars => [ServerNext]_serverVars
  BY DEF ServerNext
<1>4. [Sched!Next /\ UNCHANGED <<vars, poller, registry>>]_serverVars => [ServerNext]_serverVars
  BY DEF ServerNext
<1> QED
  BY <1>1, <1>2, <1>3, <1>4, PTL DEF ServerSpec, PollerAlone, RegistryAlone, SchedulesAlone

-----------------------------------------------------------------------------
(* The GitHub poller. *)

\* The state a tick works on, and what the file holds.
PollState ==
    [seen : SUBSET Issues, tracked : SUBSET DOMAIN started, prSeen : 0..ghClock,
     pending : UNION {[D -> 0..2] : D \in SUBSET DOMAIN started}]

PollTypes ==
    /\ open \subseteq Issues
    /\ ghClock \in Nat \ {0} /\ faults \in Nat
    /\ posted \in [Comments -> 0..ghClock]
    /\ started \in Seq([issues : SUBSET Issues, comments : SUBSET Comments])
    /\ mem \in PollState /\ disk \in PollState
    /\ ghStage \in {"idle", "issues", "pulls", "results"}
    /\ left \subseteq CASE ghStage = "issues" -> Issues [] ghStage = "pulls" -> Comments
                         [] OTHER -> DOMAIN started
    /\ dirty \in BOOLEAN

\* A tick adds to what was handled; while nothing is dirty it works on what the file holds.
\* What it still has to look at is new to it.
TickAhead ==
    /\ ghStage = "idle" => mem = Poll!Empty /\ ~dirty
    /\ ghStage # "idle" => /\ disk.seen \subseteq mem.seen /\ disk.prSeen <= mem.prSeen
                           /\ ~dirty => mem = disk
    /\ ghStage = "issues" => left \cap mem.seen = {}
    /\ ghStage = "pulls" => \A c \in left : posted[c] > mem.prSeen

\* There is a run of what is remembered, and one more for each time it was forgotten.
Remembered(i) == i \in mem.seen \cup disk.seen
Passed(c) == posted[c] > 0 /\ (posted[c] <= mem.prSeen \/ posted[c] <= disk.prSeen)

OncePerLoss ==
    /\ \A i \in Issues : Cardinality(Poll!RunsOf(i)) <= faults + (IF Remembered(i) THEN 1 ELSE 0)
    /\ \A c \in Comments : Cardinality(Poll!Heard(c)) <= faults + (IF Passed(c) THEN 1 ELSE 0)
    /\ \A c \in Comments : Poll!Heard(c) # {} => posted[c] > 0

PollInv == PollTypes /\ TickAhead /\ OncePerLoss

-----------------------------------------------------------------------------
\* A set with one position more has one element more at most.
LEMMA OneMore ==
    ASSUME NEW n \in Nat, NEW A \in SUBSET (1..n), NEW B \in SUBSET (A \cup {n + 1})
    PROVE  /\ Cardinality(A) \in Nat /\ Cardinality(B) \in Nat
           /\ Cardinality(B) <= Cardinality(A) + 1
           /\ n + 1 \notin B => Cardinality(B) <= Cardinality(A)
<1>1. IsFiniteSet(A)
  <2>1. IsFiniteSet(1..n)
    BY FS_Interval
  <2> QED
    BY <2>1, FS_Subset
<1>2. IsFiniteSet(A \cup {n + 1}) /\ Cardinality(A \cup {n + 1}) = Cardinality(A) + 1
  BY <1>1, FS_AddElement
<1>3. IsFiniteSet(B) /\ Cardinality(B) <= Cardinality(A) + 1
  <2>1. IsFiniteSet(B) /\ Cardinality(B) <= Cardinality(A \cup {n + 1})
    BY <1>2, FS_Subset, Zenon
  <2> QED
    BY <1>2, <2>1
<1>4. ASSUME n + 1 \notin B
      PROVE  Cardinality(B) <= Cardinality(A)
  <2>1. B \in SUBSET A
    BY <1>4
  <2> QED
    BY <1>1, <2>1, FS_Subset
<1> QED
  BY <1>1, <1>3, <1>4, FS_CardinalityType

\* The module counts as this one does.
LEMMA PollCounts == \A S : Poll!Cardinality(S) = Cardinality(S)
BY DEF Poll!Cardinality, Cardinality

\* The greatest of a set of times.
LEMMA Latest ==
    ASSUME NEW n \in Nat, NEW S, S \subseteq 0..n, S # {}
    PROVE  Poll!MaxOf(S) \in S /\ \A y \in S : y <= Poll!MaxOf(S)
<1> DEFINE R == OpToRel(<, Nat)
           T == {n - x : x \in S}
<1>1. IsWellFoundedOn(R, Nat)
  BY NatLessThanWellFounded, Zenon
<1>2. \A x, y \in Nat : <<x, y>> \in R <=> x < y
  BY DEF OpToRel
<1>3. T \subseteq Nat /\ T # {}
  <2>1. \A x \in S : n - x \in Nat
    OBVIOUS
  <2> QED
    BY <2>1
<1> HIDE DEF R
<1>4. PICK m \in T : \A y \in T : ~(<<y, m>> \in R)
  BY <1>1, <1>3, WFMin
<1>5. PICK x \in S : m = n - x
  BY <1>4
<1>6. \A y \in S : y <= x
  <2> TAKE y \in S
  <2>1. n - y \in T /\ n - y \in Nat /\ m \in Nat
    BY <1>3
  <2>2. ~(n - y < m)
    BY <1>2, <1>4, <2>1
  <2> QED
    BY <1>5, <2>2
<1> QED
  BY <1>6 DEF Poll!MaxOf

\* A run is enqueued of issues and comments.
LEMMA PollEnqueues ==
    ASSUME PollTypes, NEW I \in SUBSET Issues, NEW C \in SUBSET Comments,
           started' = Poll!NewRun(I, C)
    PROVE  /\ started' \in Seq([issues : SUBSET Issues, comments : SUBSET Comments])
           /\ DOMAIN started \subseteq DOMAIN started' /\ Len(started') = Len(started) + 1
           /\ Len(started') \in DOMAIN started' /\ Len(started') \notin DOMAIN started
           /\ \A i \in Issues : /\ Cardinality(Poll!RunsOf(i)) \in Nat
                                /\ Cardinality(Poll!RunsOf(i)') \in Nat
                                /\ Cardinality(Poll!RunsOf(i)') <= Cardinality(Poll!RunsOf(i)) + 1
                                /\ i \notin I => Cardinality(Poll!RunsOf(i)') <= Cardinality(Poll!RunsOf(i))
           /\ \A c \in Comments : /\ Cardinality(Poll!Heard(c)) \in Nat
                                  /\ Cardinality(Poll!Heard(c)') \in Nat
                                  /\ Cardinality(Poll!Heard(c)') <= Cardinality(Poll!Heard(c)) + 1
                                  /\ c \notin C => /\ Cardinality(Poll!Heard(c)') <= Cardinality(Poll!Heard(c))
                                                   /\ Poll!Heard(c) = {} => Poll!Heard(c)' = {}
<1> DEFINE n == Len(started)
           r == [issues |-> I, comments |-> C]
<1>1. /\ started' = Append(started, r) /\ n \in Nat /\ DOMAIN started = 1..n
      /\ r \in [issues : SUBSET Issues, comments : SUBSET Comments]
  BY DEF Poll!NewRun, PollTypes
<1>2. /\ started' \in Seq([issues : SUBSET Issues, comments : SUBSET Comments])
      /\ DOMAIN started' = 1..(n + 1) /\ Len(started') = n + 1 /\ started'[n + 1] = r
      /\ \A k \in 1..n : started'[k] = started[k]
  BY <1>1 DEF PollTypes
<1>3. ASSUME NEW i \in Issues
      PROVE  /\ Poll!RunsOf(i) \subseteq 1..n /\ Poll!RunsOf(i)' \subseteq Poll!RunsOf(i) \cup {n + 1}
             /\ i \notin I => n + 1 \notin Poll!RunsOf(i)'
  BY <1>1, <1>2 DEF Poll!RunsOf
<1>4. ASSUME NEW c \in Comments
      PROVE  /\ Poll!Heard(c) \subseteq 1..n /\ Poll!Heard(c)' \subseteq Poll!Heard(c) \cup {n + 1}
             /\ c \notin C => n + 1 \notin Poll!Heard(c)'
  BY <1>1, <1>2 DEF Poll!Heard
<1>5. ASSUME NEW i \in Issues
      PROVE  /\ Cardinality(Poll!RunsOf(i)) \in Nat
             /\ Cardinality(Poll!RunsOf(i)') \in Nat
             /\ Cardinality(Poll!RunsOf(i)') <= Cardinality(Poll!RunsOf(i)) + 1
             /\ i \notin I => Cardinality(Poll!RunsOf(i)') <= Cardinality(Poll!RunsOf(i))
  BY <1>1, <1>3, OneMore
<1>6. ASSUME NEW c \in Comments
      PROVE  /\ Cardinality(Poll!Heard(c)) \in Nat
             /\ Cardinality(Poll!Heard(c)') \in Nat
             /\ Cardinality(Poll!Heard(c)') <= Cardinality(Poll!Heard(c)) + 1
             /\ c \notin C => /\ Cardinality(Poll!Heard(c)') <= Cardinality(Poll!Heard(c))
                              /\ Poll!Heard(c) = {} => Poll!Heard(c)' = {}
  BY <1>1, <1>4, OneMore
<1>7. 1..n \subseteq 1..(n + 1) /\ n + 1 \in 1..(n + 1) /\ n + 1 \notin 1..n
  BY <1>1
<1> QED
  BY <1>1, <1>2, <1>5, <1>6, <1>7

\* How often something was enqueued is a number.
LEMMA PollSizes ==
    ASSUME PollTypes
    PROVE  /\ \A i \in Issues : Cardinality(Poll!RunsOf(i)) \in Nat
           /\ \A c \in Comments : Cardinality(Poll!Heard(c)) \in Nat
<1>1. Len(started) \in Nat /\ DOMAIN started = 1..Len(started)
  BY DEF PollTypes
<1>2. \A i \in Issues : Poll!RunsOf(i) \in SUBSET (1..Len(started))
  BY <1>1 DEF Poll!RunsOf
<1>3. \A c \in Comments : Poll!Heard(c) \in SUBSET (1..Len(started))
  BY <1>1 DEF Poll!Heard
<1> QED
  BY <1>1, <1>2, <1>3, OneMore

\* Nothing is enqueued, and what is forgotten is lost by a fault.
LEMMA PollQuiet ==
    ASSUME PollTypes, OncePerLoss, UNCHANGED <<posted, started>>, faults' \in Nat,
           \/ faults' = faults + 1
           \/ /\ faults' = faults
              /\ \A i \in Issues : Remembered(i) => Remembered(i)'
              /\ \A c \in Comments : Passed(c) => Passed(c)'
    PROVE  OncePerLoss'
<1>1. faults \in Nat
  BY DEF PollTypes
<1>2. ASSUME NEW i \in Issues
      PROVE  Cardinality(Poll!RunsOf(i)') <= faults' + (IF Remembered(i)' THEN 1 ELSE 0)
  <2>1. Poll!RunsOf(i)' = Poll!RunsOf(i) /\ Cardinality(Poll!RunsOf(i)) \in Nat
    BY PollSizes DEF Poll!RunsOf
  <2>2. Cardinality(Poll!RunsOf(i)) <= faults + (IF Remembered(i) THEN 1 ELSE 0)
    BY DEF OncePerLoss
  <2> HIDE DEF Remembered
  <2> QED
    BY <1>1, <2>1, <2>2
<1>3. ASSUME NEW c \in Comments
      PROVE  /\ Cardinality(Poll!Heard(c)') <= faults' + (IF Passed(c)' THEN 1 ELSE 0)
             /\ Poll!Heard(c)' # {} => posted'[c] > 0
  <2>1. Poll!Heard(c)' = Poll!Heard(c) /\ Cardinality(Poll!Heard(c)) \in Nat
    BY PollSizes DEF Poll!Heard
  <2>2. Cardinality(Poll!Heard(c)) <= faults + (IF Passed(c) THEN 1 ELSE 0)
    BY DEF OncePerLoss
  <2>3. Poll!Heard(c)' # {} => posted'[c] > 0
    BY <2>1 DEF OncePerLoss
  <2> QED
    BY <1>1, <2>1, <2>2, <2>3
<1> QED
  BY <1>2, <1>3 DEF OncePerLoss

\* States fit the runs and the time still when both go on.
LEMMA PollStates ==
    ASSUME PollTypes, DOMAIN started \subseteq DOMAIN started', ghClock' \in Nat, ghClock <= ghClock'
    PROVE  PollState \subseteq PollState'
<1>1. 0..ghClock \subseteq 0..ghClock'
  BY DEF PollTypes
<1>2. SUBSET DOMAIN started \subseteq SUBSET DOMAIN started'
  OBVIOUS
<1>3. UNION {[D -> 0..2] : D \in SUBSET DOMAIN started} \subseteq UNION {[D -> 0..2] : D \in SUBSET DOMAIN started'}
  BY <1>2
<1> QED
  BY <1>1, <1>2, <1>3 DEF PollState

\* Nothing handled is a state.
LEMMA PollEmpty ==
    ASSUME ghClock \in Nat
    PROVE  Poll!Empty \in PollState
<1>1. <<>> \in [{} -> 0..2] /\ {} \in SUBSET DOMAIN started
  OBVIOUS
<1>2. <<>> \in UNION {[D -> 0..2] : D \in SUBSET DOMAIN started}
  BY <1>1
<1>3. 0 \in 0..ghClock
  OBVIOUS
<1> QED
  BY <1>2, <1>3 DEF Poll!Empty, PollState

\* What was not handled before is enqueued, once, and remembered.
LEMMA PollGrows ==
    ASSUME PollTypes, OncePerLoss, NEW I \in SUBSET Issues, NEW C \in SUBSET Comments,
           started' = Poll!NewRun(I, C), UNCHANGED posted, faults' \in Nat, faults <= faults',
           \A i \in Issues : Remembered(i) => Remembered(i)' /\ i \notin I,
           \A c \in Comments : Passed(c) => Passed(c)' /\ c \notin C,
           \A i \in I : Remembered(i)',
           \A c \in C : Passed(c)'
    PROVE  OncePerLoss'
<1>1. faults \in Nat
  BY DEF PollTypes
<1>2. ASSUME NEW i \in Issues
      PROVE  Cardinality(Poll!RunsOf(i)') <= faults' + (IF Remembered(i)' THEN 1 ELSE 0)
  <2>1. /\ Cardinality(Poll!RunsOf(i)) \in Nat /\ Cardinality(Poll!RunsOf(i)') \in Nat
        /\ Cardinality(Poll!RunsOf(i)') <= Cardinality(Poll!RunsOf(i)) + 1
        /\ i \notin I => Cardinality(Poll!RunsOf(i)') <= Cardinality(Poll!RunsOf(i))
    BY PollEnqueues
  <2>2. Cardinality(Poll!RunsOf(i)) <= faults + (IF Remembered(i) THEN 1 ELSE 0)
    BY DEF OncePerLoss
  <2>3. CASE i \in I
    BY <1>1, <2>1, <2>2, <2>3
  <2>4. CASE i \notin I
    BY <1>1, <2>1, <2>2, <2>4
  <2> QED
    BY <2>3, <2>4
<1>3. ASSUME NEW c \in Comments
      PROVE  /\ Cardinality(Poll!Heard(c)') <= faults' + (IF Passed(c)' THEN 1 ELSE 0)
             /\ Poll!Heard(c)' # {} => posted'[c] > 0
  <2>1. /\ Cardinality(Poll!Heard(c)) \in Nat /\ Cardinality(Poll!Heard(c)') \in Nat
        /\ Cardinality(Poll!Heard(c)') <= Cardinality(Poll!Heard(c)) + 1
        /\ c \notin C => /\ Cardinality(Poll!Heard(c)') <= Cardinality(Poll!Heard(c))
                         /\ Poll!Heard(c) = {} => Poll!Heard(c)' = {}
    BY PollEnqueues
  <2>2. /\ Cardinality(Poll!Heard(c)) <= faults + (IF Passed(c) THEN 1 ELSE 0)
        /\ Poll!Heard(c) # {} => posted[c] > 0
    BY DEF OncePerLoss
  <2>3. CASE c \in C
    <3>1. posted'[c] > 0
      BY <2>3 DEF Passed
    <3> QED
      BY <1>1, <2>1, <2>2, <2>3, <3>1
  <2>4. CASE c \notin C
    BY <1>1, <2>1, <2>2, <2>4
  <2> QED
    BY <2>3, <2>4
<1> QED
  BY <1>2, <1>3 DEF OncePerLoss

-----------------------------------------------------------------------------
(* The steps. *)

LEMMA PollStarts == Poll!Init => PollInv
<1> SUFFICES ASSUME Poll!Init PROVE PollInv
  OBVIOUS
<1>1. started = <<>> /\ DOMAIN started = {} /\ ghClock = 1 /\ faults = 0
  BY DEF Poll!Init
<1>2. Poll!Empty \in PollState
  BY <1>1, PollEmpty
<1>3. PollTypes
  <2>1. started \in Seq([issues : SUBSET Issues, comments : SUBSET Comments])
    BY <1>1
  <2>2. posted \in [Comments -> 0..ghClock]
    BY <1>1 DEF Poll!Init
  <2>3. left = {} /\ open \subseteq Issues /\ mem \in PollState /\ disk \in PollState
    BY <1>2, ServerAssumption DEF Poll!Init, Poll!GithubAssumption
  <2>4. ghClock \in Nat \ {0} /\ faults \in Nat /\ ghStage = "idle" /\ dirty = FALSE
    BY <1>1 DEF Poll!Init
  <2> QED
    BY <2>1, <2>2, <2>3, <2>4 DEF PollTypes
<1>4. TickAhead
  BY DEF Poll!Init, TickAhead
<1>5. /\ \A i : Poll!RunsOf(i) = {}
      /\ \A c : Poll!Heard(c) = {}
  BY <1>1 DEF Poll!RunsOf, Poll!Heard
<1>6. OncePerLoss
  <2>1. Cardinality({}) = 0
    BY FS_EmptySet
  <2>2. ASSUME NEW i \in Issues
        PROVE  Cardinality(Poll!RunsOf(i)) <= faults + (IF Remembered(i) THEN 1 ELSE 0)
    <3>1. Cardinality(Poll!RunsOf(i)) = 0
      BY <1>5, <2>1
    <3> QED
      BY <1>1, <3>1
  <2>3. ASSUME NEW c \in Comments
        PROVE  Cardinality(Poll!Heard(c)) <= faults + (IF Passed(c) THEN 1 ELSE 0)
    <3>1. Cardinality(Poll!Heard(c)) = 0
      BY <1>5, <2>1
    <3> QED
      BY <1>1, <3>1
  <2> QED
    BY <1>5, <2>2, <2>3 DEF OncePerLoss
<1> QED
  BY <1>3, <1>4, <1>6 DEF PollInv

LEMMA PollWorld ==
    ASSUME PollInv,
           \/ \E i \in Issues : Poll!Labels(i)
           \/ \E c \in Comments : Poll!Comment(c)
    PROVE  PollInv'
<1>1. PollTypes /\ TickAhead /\ OncePerLoss
  BY DEF PollInv
<1>2. CASE \E i \in Issues : Poll!Labels(i)
  <2>1. PICK i \in Issues : Poll!Labels(i)
    BY <1>2
  <2>2. UNCHANGED <<posted, ghClock, started, disk, mem, ghStage, left, dirty, faults>>
    BY <2>1 DEF Poll!Labels, Poll!tickVars
  <2>3. PollTypes'
    BY <1>1, <2>1, <2>2 DEF Poll!Labels, PollTypes, PollState
  <2>4. TickAhead'
    BY <1>1, <2>2 DEF TickAhead, Poll!Empty
  <2>5. OncePerLoss'
    BY <1>1, <2>2, PollQuiet DEF Remembered, Passed, PollTypes
  <2> QED
    BY <2>3, <2>4, <2>5 DEF PollInv
<1>3. CASE \E c \in Comments : Poll!Comment(c)
  <2>1. PICK d \in Comments : Poll!Comment(d)
    BY <1>3
  <2>2. /\ posted[d] = 0 /\ ghClock' \in {ghClock, ghClock + 1}
        /\ posted' = [posted EXCEPT ![d] = ghClock']
        /\ UNCHANGED <<open, started, disk, mem, ghStage, left, dirty, faults>>
    BY <1>1, <2>1 DEF Poll!Comment, Poll!IsMade, Poll!tickVars, PollTypes
  <2>3. ghClock' \in Nat \ {0} /\ ghClock <= ghClock' /\ 0..ghClock \subseteq 0..ghClock'
    BY <1>1, <2>2 DEF PollTypes
  <2>4. PollTypes'
    <3>1. posted' \in [Comments -> 0..ghClock']
      BY <1>1, <2>2, <2>3 DEF PollTypes
    <3>2. PollState \subseteq PollState'
      BY <1>1, <2>2, <2>3, PollStates
    <3> QED
      BY <1>1, <2>2, <2>3, <3>1, <3>2 DEF PollTypes
  <2>5. d \notin left \/ ghStage # "pulls"
    BY <1>1, <2>2 DEF TickAhead, PollTypes, PollState
  <2>6. TickAhead'
    BY <1>1, <2>2, <2>5 DEF TickAhead, Poll!Empty, PollTypes
  <2>7. ASSUME NEW i \in Issues
        PROVE  Cardinality(Poll!RunsOf(i)') <= faults' + (IF Remembered(i)' THEN 1 ELSE 0)
    BY <1>1, <2>2 DEF OncePerLoss, Poll!RunsOf, Remembered
  <2>8. ASSUME NEW c \in Comments
        PROVE  /\ Cardinality(Poll!Heard(c)') <= faults' + (IF Passed(c)' THEN 1 ELSE 0)
               /\ Poll!Heard(c)' # {} => posted'[c] > 0
    <3>1. Poll!Heard(c)' = Poll!Heard(c)
      BY <2>2 DEF Poll!Heard
    <3>2. CASE c = d
      <4>1. Poll!Heard(c) = {}
        BY <1>1, <2>2, <3>2 DEF OncePerLoss
      <4>2. Cardinality(Poll!Heard(c)') = 0
        BY <3>1, <4>1, FS_EmptySet
      <4> QED
        BY <1>1, <2>2, <3>1, <4>1, <4>2 DEF PollTypes
    <3>3. CASE c # d
      <4>1. posted'[c] = posted[c] /\ (Passed(c)' <=> Passed(c))
        BY <1>1, <2>2, <3>3 DEF Passed, PollTypes
      <4> QED
        BY <1>1, <2>2, <3>1, <4>1 DEF OncePerLoss
    <3> QED
      BY <3>2, <3>3
  <2> QED
    BY <2>4, <2>6, <2>7, <2>8 DEF PollInv, OncePerLoss
<1> QED
  BY <1>2, <1>3

\* A tick starts from what the file holds, and ends by writing what it worked on.
LEMMA PollTurns ==
    ASSUME PollInv, Poll!TickStarts \/ Poll!TickEnds \/ Poll!Cut
    PROVE  PollInv'
<1>1. PollTypes /\ TickAhead /\ OncePerLoss
  BY DEF PollInv
<1>2. UNCHANGED <<open, posted, ghClock, started>> /\ PollState' = PollState
  BY DEF Poll!TickStarts, Poll!TickEnds, Poll!Cut, Poll!github, PollState
<1>3. Poll!Empty \in PollState
  BY <1>1, PollEmpty DEF PollTypes
<1>4. faults' \in {faults, faults + 1} /\ faults' \in Nat
  BY <1>1 DEF Poll!TickStarts, Poll!TickEnds, Poll!Cut, Poll!Fails, PollTypes
<1>5. CASE Poll!TickStarts
  <2>1. /\ ghStage = "idle" /\ ghStage' = "issues" /\ mem' = disk /\ disk' = disk /\ dirty' = FALSE
        /\ left' \subseteq open \ disk.seen
    BY <1>5 DEF Poll!TickStarts
  <2>2. PollTypes'
    BY <1>1, <1>2, <1>4, <2>1 DEF PollTypes
  <2>3. TickAhead'
    BY <1>1, <2>1 DEF TickAhead, PollTypes, PollState
  <2>4. /\ \A i \in Issues : Remembered(i) => Remembered(i)'
        /\ \A c \in Comments : Passed(c) => Passed(c)'
    <3>1. mem.seen = {} /\ mem.prSeen = 0
      BY <1>1, <2>1 DEF TickAhead, Poll!Empty
    <3> QED
      BY <1>1, <1>2, <2>1, <3>1 DEF Remembered, Passed, PollTypes
  <2>5. OncePerLoss'
    BY <1>1, <1>2, <1>4, <2>4, PollQuiet
  <2> QED
    BY <2>2, <2>3, <2>5 DEF PollInv
<1>6. CASE Poll!TickEnds \/ Poll!Cut
  <2>1. /\ ghStage # "idle" /\ ghStage' = "idle" /\ mem' = Poll!Empty /\ dirty' = FALSE /\ left' = {}
        /\ \/ disk' = (IF dirty THEN mem ELSE disk) /\ faults' = faults
           \/ disk' \in {disk, Poll!Empty} /\ faults' = faults + 1
    BY <1>6 DEF Poll!TickEnds, Poll!Cut, Poll!Forget, Poll!Saved, Poll!Fails
  <2>2. disk' \in PollState
    BY <1>1, <1>3, <2>1 DEF PollTypes
  <2>3. PollTypes'
    BY <1>1, <1>2, <1>3, <1>4, <2>1, <2>2 DEF PollTypes
  <2>4. TickAhead'
    BY <2>1 DEF TickAhead, Poll!Empty
  <2>5. ASSUME faults' = faults
        PROVE  /\ \A i \in Issues : Remembered(i) => Remembered(i)'
               /\ \A c \in Comments : Passed(c) => Passed(c)'
    <3>1. disk' = mem
      BY <1>1, <2>1, <2>5 DEF TickAhead, PollTypes
    <3>2. /\ disk.seen \subseteq mem.seen /\ disk.prSeen <= mem.prSeen
          /\ disk.prSeen \in Nat /\ mem.prSeen \in Nat /\ \A c \in Comments : posted[c] \in Nat
      BY <1>1, <2>1 DEF TickAhead, PollTypes, PollState
    <3> QED
      BY <1>2, <3>1, <3>2 DEF Remembered, Passed
  <2>6. OncePerLoss'
    BY <1>1, <1>2, <1>4, <2>5, PollQuiet
  <2> QED
    BY <2>3, <2>4, <2>6 DEF PollInv
<1> QED
  BY <1>5, <1>6

\* An issue is looked at.
LEMMA PollIssue ==
    ASSUME PollInv, NEW i \in Issues, Poll!IssueHandled(i)
    PROVE  PollInv'
<1>1. PollTypes /\ TickAhead /\ OncePerLoss
  BY DEF PollInv
<1>2. /\ ghStage = "issues" /\ ghStage' = "issues" /\ i \in left /\ left' = left \ {i}
      /\ UNCHANGED <<open, posted, ghClock, disk>>
  BY DEF Poll!IssueHandled, Poll!Unseen, Poll!github
<1>3. i \notin mem.seen /\ i \notin disk.seen
  BY <1>1, <1>2 DEF TickAhead
<1>4. CASE i \in Junk
  <2>1. /\ mem' = [mem EXCEPT !.seen = @ \cup {i}] /\ dirty' = TRUE
        /\ UNCHANGED <<started, faults>>
    BY <1>4 DEF Poll!IssueHandled
  <2>2. mem' \in PollState /\ mem'.seen = mem.seen \cup {i} /\ mem'.prSeen = mem.prSeen
    BY <1>1, <2>1 DEF PollTypes, PollState
  <2>3. PollState' = PollState
    BY <1>2, <2>1 DEF PollState
  <2>4. PollTypes'
    BY <1>1, <1>2, <2>1, <2>2, <2>3 DEF PollTypes
  <2>5. TickAhead'
    BY <1>1, <1>2, <2>1, <2>2 DEF TickAhead
  <2>6. OncePerLoss'
    <3>1. \A j \in Issues : Remembered(j) => Remembered(j)'
      BY <1>2, <2>2 DEF Remembered
    <3>2. \A c \in Comments : Passed(c) => Passed(c)'
      BY <1>2, <2>2 DEF Passed
    <3> QED
      BY <1>1, <1>2, <2>1, <3>1, <3>2, PollQuiet DEF PollTypes
  <2> QED
    BY <2>4, <2>5, <2>6 DEF PollInv
<1>5. CASE /\ i \notin Junk /\ started' = Poll!NewRun({i}, {})
           /\ mem' = [mem EXCEPT !.seen = @ \cup {i}, !.tracked = @ \cup {Len(started')}]
           /\ dirty' = TRUE /\ UNCHANGED faults
  <2>1. /\ started' \in Seq([issues : SUBSET Issues, comments : SUBSET Comments])
        /\ DOMAIN started \subseteq DOMAIN started' /\ Len(started') \in DOMAIN started'
    <3>1. {i} \in SUBSET Issues /\ {} \in SUBSET Comments
      OBVIOUS
    <3> QED
      BY <1>1, <1>5, <3>1, PollEnqueues
  <2>2. PollState \subseteq PollState'
    BY <1>1, <1>2, <2>1, PollStates DEF PollTypes
  <2>3. mem' \in PollState' /\ mem'.seen = mem.seen \cup {i} /\ mem'.prSeen = mem.prSeen
    <3>1. mem \in PollState'
      BY <1>1, <2>2 DEF PollTypes
    <3> QED
      BY <1>5, <2>1, <3>1 DEF PollState
  <2>4. PollTypes'
    BY <1>1, <1>2, <1>5, <2>1, <2>2, <2>3 DEF PollTypes
  <2>5. TickAhead'
    BY <1>1, <1>2, <1>5, <2>3 DEF TickAhead
  <2>6. \A j \in Issues : (Remembered(j) => Remembered(j)' /\ j \notin {i}) /\ Remembered(i)'
    BY <1>2, <1>3, <2>3 DEF Remembered
  <2>7. \A c \in Comments : Passed(c) => Passed(c)'
    BY <1>2, <2>3 DEF Passed
  <2>8. OncePerLoss'
    <3>1. {i} \in SUBSET Issues /\ {} \in SUBSET Comments /\ faults' \in Nat /\ faults <= faults'
      BY <1>1, <1>5 DEF PollTypes
    <3> QED
      BY <1>1, <1>2, <1>5, <2>6, <2>7, <3>1, PollGrows
  <2> QED
    BY <2>4, <2>5, <2>8 DEF PollInv
<1>6. CASE UNCHANGED <<started, mem, dirty>> /\ Poll!Fails
  <2>1. faults' = faults + 1 /\ faults' \in Nat
    BY <1>1, <1>6 DEF Poll!Fails, PollTypes
  <2>2. PollTypes'
    BY <1>1, <1>2, <1>6, <2>1 DEF PollTypes, PollState
  <2>3. TickAhead'
    BY <1>1, <1>2, <1>6 DEF TickAhead, Poll!Empty
  <2> QED
    BY <1>1, <1>2, <1>6, <2>1, <2>2, <2>3, PollQuiet DEF PollInv
<1> QED
  BY <1>4, <1>5, <1>6 DEF Poll!IssueHandled

\* The comments are read and become a follow-up.
LEMMA PollComments ==
    ASSUME PollInv, Poll!ReadsIssueStream \/ Poll!FollowUps
    PROVE  PollInv'
<1>1. PollTypes /\ TickAhead /\ OncePerLoss
  BY DEF PollInv
<1>2. UNCHANGED <<open, posted, ghClock, disk>>
  BY DEF Poll!ReadsIssueStream, Poll!FollowUps, Poll!github
<1>3. \A c \in Comments : posted[c] \in Nat /\ posted[c] <= ghClock
  BY <1>1 DEF PollTypes
<1>4. /\ mem.prSeen \in 0..ghClock /\ disk.prSeen \in 0..ghClock /\ ghClock \in Nat
      /\ mem.seen \subseteq Issues /\ mem.tracked \subseteq DOMAIN started
      /\ DOMAIN mem.pending \subseteq DOMAIN started
  BY <1>1 DEF PollTypes, PollState
<1>5. CASE Poll!ReadsIssueStream
  <2>1. /\ ghStage = "issues" /\ ghStage' = "pulls" /\ UNCHANGED <<started, mem, dirty>>
        /\ left' \subseteq {c \in Comments : posted[c] > mem.prSeen}
        /\ faults' \in {faults, faults + 1}
    BY <1>5 DEF Poll!ReadsIssueStream, Poll!StreamRead, Poll!Stream, Poll!Fails
  <2>2. PollTypes'
    BY <1>1, <1>2, <2>1 DEF PollTypes, PollState
  <2>3. TickAhead'
    BY <1>1, <1>2, <2>1 DEF TickAhead
  <2>4. OncePerLoss'
    BY <1>1, <1>2, <2>1, <2>2, PollQuiet DEF PollTypes, Remembered, Passed
  <2> QED
    BY <2>2, <2>3, <2>4 DEF PollInv
<1>6. CASE Poll!FollowUps
  <2>1. /\ ghStage = "pulls" /\ ghStage' = "results" /\ left' = Poll!Outstanding(mem')
    BY <1>6 DEF Poll!FollowUps
  <2>2. PICK S \in SUBSET Comments :
           \/ /\ Poll!StreamRead("pulls", S) /\ left \cup S # {}
              /\ started' = Poll!NewRun({}, left \cup S)
              /\ mem' = [mem EXCEPT !.prSeen = Poll!Cursor(left \cup S),
                                    !.pending = [k \in DOMAIN @ \cup {Len(started')} |->
                                                     IF k = Len(started') THEN 0 ELSE @[k]]]
              /\ dirty' = TRUE
           \/ /\ Poll!StreamRead("pulls", S) /\ UNCHANGED <<started, mem, dirty>>
           \/ /\ Poll!Fails /\ UNCHANGED <<started, mem, dirty>>
    BY <1>6 DEF Poll!FollowUps, Poll!StayNew
  <2>3. CASE /\ Poll!StreamRead("pulls", S) /\ left \cup S # {}
             /\ started' = Poll!NewRun({}, left \cup S)
             /\ mem' = [mem EXCEPT !.prSeen = Poll!Cursor(left \cup S),
                                   !.pending = [k \in DOMAIN @ \cup {Len(started')} |->
                                                    IF k = Len(started') THEN 0 ELSE @[k]]]
             /\ dirty' = TRUE
    <3> DEFINE C == left \cup S
               n == Len(started')
    <3>1. S \in SUBSET Comments /\ \A c \in S : posted[c] > mem.prSeen
      BY <2>3 DEF Poll!StreamRead, Poll!Stream
    <3>2. C \in SUBSET Comments /\ C # {} /\ \A c \in C : posted[c] > mem.prSeen
      BY <1>1, <2>1, <2>3, <3>1 DEF TickAhead, PollTypes
    <3>3. faults' \in Nat /\ faults <= faults'
      BY <1>1, <2>3 DEF Poll!StreamRead, Poll!Fails, PollTypes
    <3> HIDE DEF C
    <3>4. Poll!Cursor(C) \in 0..ghClock /\ \A c \in C : posted[c] <= Poll!Cursor(C)
      <4> DEFINE T == {posted[c] : c \in C}
      <4>1. T \subseteq 0..ghClock /\ T # {}
        BY <1>1, <3>2 DEF PollTypes
      <4>2. Poll!Cursor(C) = Poll!MaxOf(T)
        BY DEF Poll!Cursor
      <4>3. \A c \in C : posted[c] \in T
        OBVIOUS
      <4> HIDE DEF T
      <4>4. Poll!MaxOf(T) \in T /\ \A y \in T : y <= Poll!MaxOf(T)
        BY <1>4, <4>1, Latest
      <4> QED
        BY <4>1, <4>2, <4>3, <4>4
    <3>5. Poll!Cursor(C) > mem.prSeen
      BY <1>3, <1>4, <3>2, <3>4
    <3>6. started' = Poll!NewRun({}, C)
      BY <2>3 DEF C
    <3>7. /\ started' \in Seq([issues : SUBSET Issues, comments : SUBSET Comments])
          /\ DOMAIN started \subseteq DOMAIN started' /\ n \in DOMAIN started'
      BY <1>1, <3>2, <3>6, PollEnqueues
    <3>8. PollState \subseteq PollState'
      BY <1>1, <1>2, <3>7, PollStates DEF PollTypes
    <3>9. mem' = [mem EXCEPT !.prSeen = Poll!Cursor(C), !.pending = [k \in DOMAIN @ \cup {n} |-> IF k = n THEN 0 ELSE @[k]]]
      BY <2>3 DEF C
    <3> HIDE DEF n
    <3>10. [k \in DOMAIN mem.pending \cup {n} |-> IF k = n THEN 0 ELSE mem.pending[k]] \in UNION {[D -> 0..2] : D \in SUBSET DOMAIN started'}
      <4>1. PICK D \in SUBSET DOMAIN started : mem.pending \in [D -> 0..2]
        BY <1>1 DEF PollTypes, PollState
      <4>2. D \cup {n} \in SUBSET DOMAIN started'
        BY <3>7
      <4>3. [k \in DOMAIN mem.pending \cup {n} |-> IF k = n THEN 0 ELSE mem.pending[k]] \in [D \cup {n} -> 0..2]
        BY <4>1
      <4> QED
        BY <4>2, <4>3
    <3>11. /\ mem' \in PollState' /\ mem'.seen = mem.seen /\ mem'.prSeen = Poll!Cursor(C)
           /\ mem'.tracked \subseteq DOMAIN started' /\ DOMAIN mem'.pending \subseteq DOMAIN started'
      <4>1. mem \in PollState' /\ Poll!Cursor(C) \in 0..ghClock'
        BY <1>1, <1>2, <3>4, <3>8 DEF PollTypes
      <4>2. mem' \in PollState' /\ mem'.seen = mem.seen /\ mem'.prSeen = Poll!Cursor(C)
        BY <3>9, <3>10, <4>1 DEF PollState
      <4> QED
        BY <4>2 DEF PollState
    <3>12. PollTypes'
      <4>1. left' \subseteq DOMAIN started'
        BY <2>1, <3>11 DEF Poll!Outstanding
      <4> QED
        BY <1>1, <1>2, <2>1, <2>3, <3>3, <3>7, <3>8, <3>11, <4>1 DEF PollTypes
    <3>13. TickAhead'
      BY <1>1, <1>2, <1>4, <2>1, <2>3, <3>4, <3>5, <3>11 DEF TickAhead
    <3>14. \A i \in Issues : Remembered(i) => Remembered(i)'
      BY <1>2, <3>11 DEF Remembered
    <3>15. \A c \in Comments : Passed(c) => Passed(c)' /\ c \notin C
      BY <1>1, <1>2, <1>3, <1>4, <2>1, <3>2, <3>4, <3>5, <3>11 DEF Passed, TickAhead
    <3>16. \A c \in C : Passed(c)'
      BY <1>2, <1>3, <1>4, <3>2, <3>4, <3>11 DEF Passed
    <3>17. OncePerLoss'
      BY <1>1, <1>2, <3>2, <3>3, <3>6, <3>14, <3>15, <3>16, PollGrows
    <3> QED
      BY <3>12, <3>13, <3>17 DEF PollInv
  <2>4. CASE UNCHANGED <<started, mem, dirty>> /\ (Poll!StreamRead("pulls", S) \/ Poll!Fails)
    <3>1. faults' \in {faults, faults + 1} /\ faults' \in Nat
      BY <1>1, <2>4 DEF Poll!StreamRead, Poll!Fails, PollTypes
    <3>2. left' \subseteq DOMAIN started'
      BY <1>4, <2>1, <2>4 DEF Poll!Outstanding
    <3>3. PollTypes'
      BY <1>1, <1>2, <2>1, <2>4, <3>1, <3>2 DEF PollTypes, PollState
    <3>4. TickAhead'
      BY <1>1, <1>2, <2>1, <2>4 DEF TickAhead
    <3>5. OncePerLoss'
      BY <1>1, <1>2, <2>4, <3>1, PollQuiet DEF Remembered, Passed
    <3> QED
      BY <3>3, <3>4, <3>5 DEF PollInv
  <2> QED
    BY <2>2, <2>3, <2>4
<1> QED
  BY <1>5, <1>6

\* The runs are looked at: what ended is posted, or given up, and forgotten.
LEMMA PollResults ==
    ASSUME PollInv, NEW k \in DOMAIN started, Poll!OnRun(k)
    PROVE  PollInv'
<1>1. PollTypes /\ TickAhead /\ OncePerLoss
  BY DEF PollInv
<1>2. /\ ghStage = "results" /\ ghStage' = "results" /\ left' = left \ {k}
      /\ UNCHANGED <<open, posted, ghClock, started, disk, faults>>
  BY DEF Poll!OnRun, Poll!PostFails, Poll!ResultPosted, Poll!RowGone, Poll!Finished,
     Poll!StillRuns, Poll!Looks, Poll!github
<1>3. PollState' = PollState
  BY <1>2 DEF PollState
<1>4. /\ mem.prSeen \in 0..ghClock /\ disk.prSeen \in 0..ghClock /\ ghClock \in Nat
      /\ \A c \in Comments : posted[c] \in Nat
  BY <1>1 DEF PollTypes, PollState
<1>5. mem' \in PollState /\ mem'.seen = mem.seen /\ mem.prSeen <= mem'.prSeen
  <2>1. CASE Poll!PostFails(k)
    <3>1. k \in DOMAIN mem.pending
      BY <2>1 DEF Poll!PostFails
    <3>2. PICK D \in SUBSET DOMAIN started : mem.pending \in [D -> 0..2]
      BY <1>1 DEF PollTypes, PollState
    <3>3. mem \in PollState
      BY <1>1 DEF PollTypes
    <3>4. CASE mem.pending[k] + 1 >= 3
      <4>1. mem' = [mem EXCEPT !.pending = Poll!Forgotten(k)]
        BY <2>1, <3>4 DEF Poll!PostFails
      <4>2. Poll!Forgotten(k) \in [D \ {k} -> 0..2] /\ D \ {k} \in SUBSET DOMAIN started
        BY <3>2 DEF Poll!Forgotten, Poll!Restrict
      <4>3. Poll!Forgotten(k) \in UNION {[E -> 0..2] : E \in SUBSET DOMAIN started}
        BY <4>2
      <4> QED
        BY <1>4, <3>3, <4>1, <4>3 DEF PollState
    <3>5. CASE ~(mem.pending[k] + 1 >= 3)
      <4>1. mem' = [mem EXCEPT !.pending = [mem.pending EXCEPT ![k] = @ + 1]]
        BY <2>1, <3>5 DEF Poll!PostFails
      <4>2. [mem.pending EXCEPT ![k] = @ + 1] \in [D -> 0..2]
        BY <3>1, <3>2, <3>5
      <4>3. [mem.pending EXCEPT ![k] = @ + 1] \in UNION {[E -> 0..2] : E \in SUBSET DOMAIN started}
        BY <4>2
      <4> QED
        BY <1>4, <3>3, <4>1, <4>3 DEF PollState
    <3> QED
      BY <3>4, <3>5
  <2>2. CASE Poll!ResultPosted(k)
    <3>1. mem' = [mem EXCEPT !.pending = Poll!Forgotten(k), !.prSeen = Poll!MaxOf({@, ghClock})]
      BY <2>2 DEF Poll!ResultPosted
    <3>2. PICK D \in SUBSET DOMAIN started : mem.pending \in [D -> 0..2]
      BY <1>1 DEF PollTypes, PollState
    <3>3. Poll!Forgotten(k) \in [D \ {k} -> 0..2] /\ D \ {k} \in SUBSET DOMAIN started
      BY <3>2 DEF Poll!Forgotten, Poll!Restrict
    <3>4. Poll!Forgotten(k) \in UNION {[E -> 0..2] : E \in SUBSET DOMAIN started}
      BY <3>3
    <3>5. Poll!MaxOf({mem.prSeen, ghClock}) \in 0..ghClock /\ mem.prSeen <= Poll!MaxOf({mem.prSeen, ghClock})
      <4>1. {mem.prSeen, ghClock} \subseteq 0..ghClock /\ {mem.prSeen, ghClock} # {}
        BY <1>4
      <4>2. /\ Poll!MaxOf({mem.prSeen, ghClock}) \in {mem.prSeen, ghClock}
            /\ \A y \in {mem.prSeen, ghClock} : y <= Poll!MaxOf({mem.prSeen, ghClock})
        BY <1>4, <4>1, Latest
      <4> QED
        BY <4>1, <4>2
    <3> QED
      BY <1>1, <3>1, <3>4, <3>5 DEF PollTypes, PollState
  <2>3. CASE Poll!Finished(k) \/ Poll!StillRuns(k)
    BY <1>1, <1>4, <2>3 DEF Poll!Finished, Poll!StillRuns, PollTypes, PollState
  <2>4. CASE Poll!RowGone(k)
    <3>1. PICK D \in SUBSET DOMAIN started : mem.pending \in [D -> 0..2]
      BY <1>1 DEF PollTypes, PollState
    <3>2. Poll!Forgotten(k) \in [D \ {k} -> 0..2] /\ D \ {k} \in SUBSET DOMAIN started
      BY <3>1 DEF Poll!Forgotten, Poll!Restrict
    <3>3. Poll!Forgotten(k) \in UNION {[E -> 0..2] : E \in SUBSET DOMAIN started}
      BY <3>2
    <3>4. mem' = [mem EXCEPT !.pending = Poll!Forgotten(k)]
      BY <2>4 DEF Poll!RowGone
    <3>5. mem \in PollState
      BY <1>1 DEF PollTypes
    <3> QED
      BY <1>4, <3>3, <3>4, <3>5 DEF PollState
  <2> QED
    BY <2>1, <2>2, <2>3, <2>4 DEF Poll!OnRun
<1>6. dirty' \in BOOLEAN /\ (~dirty' => ~dirty /\ mem' = mem)
  BY <1>1 DEF Poll!OnRun, Poll!PostFails, Poll!ResultPosted, Poll!RowGone, Poll!Finished,
     Poll!StillRuns, PollTypes
<1>7. PollTypes'
  BY <1>1, <1>2, <1>3, <1>5, <1>6 DEF PollTypes
<1>8. TickAhead'
  <2>1. mem'.prSeen \in 0..ghClock
    BY <1>5 DEF PollState
  <2> QED
    BY <1>1, <1>2, <1>4, <1>5, <1>6, <2>1 DEF TickAhead
<1>9. OncePerLoss'
  <2>1. \A i \in Issues : Remembered(i) => Remembered(i)'
    BY <1>2, <1>5 DEF Remembered
  <2>2. mem'.prSeen \in 0..ghClock
    BY <1>5 DEF PollState
  <2>3. \A c \in Comments : Passed(c) => Passed(c)'
    BY <1>2, <1>4, <1>5, <2>2 DEF Passed
  <2> QED
    BY <1>1, <1>2, <2>1, <2>3, PollQuiet DEF PollTypes
<1> QED
  BY <1>7, <1>8, <1>9 DEF PollInv

LEMMA PollStep ==
    ASSUME PollInv, [Poll!Next]_(Poll!vars)
    PROVE  PollInv'
<1>1. CASE UNCHANGED Poll!vars
  <2>1. UNCHANGED <<open, posted, ghClock, started, disk, mem, ghStage, left, dirty, faults>>
    BY <1>1 DEF Poll!vars, Poll!github, Poll!tickVars
  <2>2. PollTypes' /\ TickAhead'
    BY <2>1 DEF PollInv, PollTypes, PollState, TickAhead, Poll!Empty
  <2>3. OncePerLoss'
    BY <2>1, PollQuiet DEF PollInv, PollTypes, Remembered, Passed
  <2> QED
    BY <2>2, <2>3 DEF PollInv
<1>2. CASE Poll!Next
  BY <1>2, PollWorld, PollTurns, PollIssue, PollComments, PollResults DEF Poll!Next, Poll!Tick
<1> QED
  BY <1>1, <1>2

\* The inductive invariant of the poller: a tick adds to what was handled, and what was
\* handled has one run more than it was forgotten, at most (_github_tick).
THEOREM PollInvariantHolds == ServerSpec => []PollInv
<1>1. ServerInit => PollInv
  BY PollStarts DEF ServerInit
<1>2. PollInv /\ [ServerNext]_serverVars => PollInv'
  BY PollStep, ServerSteps
<1> QED
  BY <1>1, <1>2, PTL DEF ServerSpec

\* An issue is started once, and a comment answered once, and once more at most for each
\* tick whose state was lost; no result is tried more than three times (_github_tick).
THEOREM PollerStaysSound == ServerSpec => []PollerSound
<1>1. PollInv => Poll!PollerSound
  <2> SUFFICES ASSUME PollInv PROVE Poll!PollerSound
    OBVIOUS
  <2>1. PollTypes /\ OncePerLoss
    BY DEF PollInv
  <2>2. Poll!TypeOK
    <3>1. ASSUME NEW s \in {mem, disk}
          PROVE  /\ s.seen \subseteq Issues /\ s.prSeen <= ghClock
                 /\ s.tracked \subseteq DOMAIN started
                 /\ \A k \in DOMAIN s.pending : k \in DOMAIN started /\ s.pending[k] \in 0..2
      <4>1. s \in PollState /\ ghClock \in Nat
        BY <2>1 DEF PollTypes
      <4>2. PICK D \in SUBSET DOMAIN started : s.pending \in [D -> 0..2]
        BY <4>1 DEF PollState
      <4> QED
        BY <4>1, <4>2 DEF PollState
    <3> QED
      BY <2>1, <3>1 DEF PollTypes, Poll!TypeOK
  <2>3. ASSUME NEW i \in Issues
        PROVE  Cardinality(Poll!RunsOf(i)) <= 1 + faults
    <3>1. Cardinality(Poll!RunsOf(i)) \in Nat /\ faults \in Nat
      BY <2>1, PollSizes DEF PollTypes
    <3>2. Cardinality(Poll!RunsOf(i)) <= faults + (IF Remembered(i) THEN 1 ELSE 0)
      BY <2>1 DEF OncePerLoss
    <3> QED
      BY <3>1, <3>2
  <2>4. ASSUME NEW c \in Comments
        PROVE  Cardinality(Poll!Heard(c)) <= 1 + faults
    <3>1. Cardinality(Poll!Heard(c)) \in Nat /\ faults \in Nat
      BY <2>1, PollSizes DEF PollTypes
    <3>2. Cardinality(Poll!Heard(c)) <= faults + (IF Passed(c) THEN 1 ELSE 0)
      BY <2>1 DEF OncePerLoss
    <3> QED
      BY <3>1, <3>2
  <2>5. Poll!StartedOnce
    BY <2>3, <2>4, PollCounts DEF Poll!StartedOnce
  <2> QED
    BY <2>2, <2>5 DEF Poll!PollerSound
<1> QED
  BY <1>1, PollInvariantHolds, PTL DEF PollerSound

-----------------------------------------------------------------------------
(* The registry and the workspaces. *)

RegPolicy == [budget : BOOLEAN, on : BOOLEAN, last : 0..hour]
RegEntry  == [archived : BOOLEAN, policy : RegPolicy]
RegFiles  == UNION {[D -> RegEntry] : D \in SUBSET Projects}
RegGroup  == [members : SUBSET Projects, deps : SUBSET (Projects \X Projects)]

RegKinds == {"register", "archive", "policy", "maintain", "mark", "delete", "assign", "unassign",
             "ungroup", "deps", "due"}

\* What an operation of each kind may have left to do.
RegLeft(kind) ==
    CASE kind \in {"register", "archive"} -> {<<"reg">>}
      [] kind \in {"policy", "maintain", "mark"} -> {<<"look", "reg">>, <<"reg">>}
      [] kind = "delete" -> {<<"look", "groups", "reg">>, <<"groups", "reg">>, <<"reg">>}
      [] kind = "assign" -> {<<"look", "groups">>, <<"groups">>}
      [] kind \in {"unassign", "ungroup", "deps"} -> {<<"groups">>}
      [] kind = "due" -> {<<"look">>}
      [] kind = "none" -> {}

RegTodos == {<<"reg">>, <<"look", "reg">>, <<"look", "groups", "reg">>, <<"groups", "reg">>,
             <<"look", "groups">>, <<"groups">>, <<"look">>}

RegOp ==
    [kind : RegKinds \cup {"none"}, p : Projects \cup {"none"}, w : Workspaces \cup {"none"},
     todo : RegTodos \cup {<<>>}, step : {"read", "heal", "truncate", "fill"},
     entries : RegFiles, policy : RegPolicy, copy : [Workspaces -> RegGroup]]

\* A project is in one workspace, dependencies are among members, without a cycle.
GroupsSound(g) ==
    /\ g \in [Workspaces -> RegGroup]
    /\ \A v, w \in Workspaces : v # w => g[v].members \cap g[w].members = {}
    /\ \A w \in Workspaces : /\ g[w].deps \subseteq g[w].members \X g[w].members
                             /\ Reg!Acyclic(g[w].deps)

\* An operation under way, and what it holds when it is about to write.
Writes(o) == o.step \in {"truncate", "fill"}
RegStands(o) ==
    o.todo # <<>> =>
        /\ o.todo \in RegLeft(o.kind)
        /\ o.kind # "due" => o.p \in Projects
        /\ o.kind \in {"assign", "unassign", "ungroup", "deps"} => o.w \in Workspaces
        /\ o.step = "heal" => Head(o.todo) \in {"look", "reg"}
        /\ Writes(o) => Head(o.todo) \in {"reg", "groups"}
        /\ Writes(o) /\ Head(o.todo) = "reg" => Reg!Applies(o, o.entries)
        /\ Writes(o) /\ Head(o.todo) = "groups" => GroupsSound(o.copy)

RegTypes ==
    /\ hour \in Nat \ {0} /\ hour \in Reg!Hours
    /\ reg \in RegFiles /\ GroupsSound(groups)
    /\ regTorn \in BOOLEAN /\ groupsTorn \in BOOLEAN
    /\ actor \in [Reg!Actors -> RegOp] /\ \A a \in Reg!Actors : RegStands(actor[a])
    /\ \A a \in Reg!Actors \ {"loop"} : Reg!Busy(a) => actor[a].kind \in Reg!WorkerKinds \cup {"due", "mark"}
    /\ \A a \in Reg!Actors : Reg!Busy(a) => (a = "tick" <=> actor[a].kind \in {"due", "mark"})
    /\ due \subseteq Projects
    /\ Reg!Busy("tick") /\ actor["tick"].kind = "due" => due = {}
    /\ asked \in [reg : RegFiles, disturbed : BOOLEAN]
    /\ fires \in [Projects -> [Reg!Hours -> Nat]]

\* While no two operations overlap and none is cut, the one under way has read what the
\* files hold, and they hold what was asked.
OneAtATime ==
    /\ \A a, b \in Reg!Actors : Reg!Busy(a) /\ Reg!Busy(b) => a = b
    /\ reg = asked.reg
    /\ regTorn => \E a \in Reg!Actors : Reg!Busy(a) /\ Reg!Phase(a) = "reg" /\ actor[a].step = "fill"
    /\ groupsTorn => \E a \in Reg!Actors : Reg!Busy(a) /\ Reg!Phase(a) = "groups" /\ actor[a].step = "fill"
    /\ \A w \in Workspaces : groups[w].members \subseteq DOMAIN reg

HasRead(a) ==
    Reg!Busy(a) =>
        /\ actor[a].step # "heal"
        /\ Reg!Phase(a) = "reg" /\ Writes(actor[a]) => actor[a].entries = reg
        /\ Reg!Phase(a) = "groups" /\ Writes(actor[a]) => actor[a].copy = groups
        /\ Reg!Phase(a) = "reg" /\ actor[a].kind \in {"policy", "maintain", "mark"} =>
              actor[a].p \in DOMAIN reg /\ actor[a].policy = reg[actor[a].p].policy
        /\ Reg!Phase(a) = "groups" /\ actor[a].kind = "assign" => actor[a].p \in DOMAIN reg
        /\ Reg!Phase(a) = "reg" /\ actor[a].kind = "delete" =>
              \A w \in Workspaces : actor[a].p \notin groups[w].members

\* What fired in this window is marked, or about to be.
Marking(p) == Reg!Busy("tick") /\ actor["tick"].kind = "mark" /\ actor["tick"].p = p
FiredMarked ==
    /\ \A p \in Projects, h \in Reg!Hours : fires[p][h] <= 1 /\ (h > hour => fires[p][h] = 0)
    /\ \A p \in Projects : fires[p][hour] # 0 =>
          p \in DOMAIN reg /\ (reg[p].policy.last = hour \/ p \in due \/ Marking(p))

Undisturbed == OneAtATime /\ (\A a \in Reg!Actors : HasRead(a)) /\ FiredMarked

RegInv == RegTypes /\ (~asked.disturbed => Undisturbed)

-----------------------------------------------------------------------------
\* The tuples of phases, taken apart.
LEMMA RegTuples ==
    /\ \A t \in RegTodos : t # <<>> /\ Head(t) \in {"look", "reg", "groups"}
    /\ Head(<<"reg">>) = "reg" /\ Len(<<"reg">>) = 1
    /\ Head(<<"groups">>) = "groups" /\ Len(<<"groups">>) = 1
    /\ Head(<<"look">>) = "look" /\ Len(<<"look">>) = 1
    /\ Head(<<"look", "reg">>) = "look" /\ Tail(<<"look", "reg">>) = <<"reg">>
    /\ Len(<<"look", "reg">>) = 2
    /\ Head(<<"look", "groups">>) = "look" /\ Tail(<<"look", "groups">>) = <<"groups">>
    /\ Len(<<"look", "groups">>) = 2
    /\ Head(<<"groups", "reg">>) = "groups" /\ Tail(<<"groups", "reg">>) = <<"reg">>
    /\ Len(<<"groups", "reg">>) = 2
    /\ Head(<<"look", "groups", "reg">>) = "look" /\ Len(<<"look", "groups", "reg">>) = 3
    /\ Tail(<<"look", "groups", "reg">>) = <<"groups", "reg">>
BY DEF RegTodos

\* What an operation of each kind does when it starts is among what it may have left.
LEMMA RegPhases ==
    /\ \A k \in RegKinds : Reg!Phases(k) \in RegLeft(k)
    /\ \A k \in RegKinds : RegLeft(k) \subseteq RegTodos
<1>1. ASSUME NEW k \in RegKinds
      PROVE  Reg!Phases(k) \in RegLeft(k)
  BY DEF RegKinds, RegLeft, Reg!Phases, Reg!DeletePhases
<1>2. ASSUME NEW k \in RegKinds
      PROVE  RegLeft(k) \subseteq RegTodos
  BY DEF RegKinds, RegLeft, RegTodos
<1> QED
  BY <1>1, <1>2

\* Nothing is registered in the empty registry.
LEMMA RegEmpty == Reg!Empty \in RegFiles /\ DOMAIN Reg!Empty = {}
<1>1. Reg!Empty = [x \in {} |-> x] /\ DOMAIN Reg!Empty = {}
  BY DEF Reg!Empty
<1>2. Reg!Empty \in [{} -> RegEntry]
  BY <1>1
<1> QED
  BY <1>1, <1>2, Zenon DEF RegFiles

\* An operation that is over, and the default policy.
LEMMA RegIdles ==
    ASSUME RegTypes
    PROVE  /\ Reg!Idle \in RegOp /\ Reg!Idle.todo = <<>> /\ Reg!Idle.kind = "none"
           /\ Reg!Idle.step = "read"
           /\ RegStands(Reg!Idle)
           /\ Reg!NewEntry \in RegEntry /\ Reg!NewEntry.policy.last = 0
<1>1. Reg!NewEntry \in RegEntry /\ Reg!NewEntry.policy \in RegPolicy /\ Reg!NewEntry.policy.last = 0
  BY DEF Reg!NewEntry, RegEntry, RegPolicy, RegTypes
<1>2. [w \in Workspaces |-> Reg!NoGroup] \in [Workspaces -> RegGroup]
  BY DEF Reg!NoGroup, RegGroup
<1>3. /\ Reg!Idle.kind = "none" /\ Reg!Idle.p = "none" /\ Reg!Idle.w = "none" /\ Reg!Idle.todo = <<>>
      /\ Reg!Idle.step = "read" /\ Reg!Idle.entries = Reg!Empty
      /\ Reg!Idle.policy = Reg!NewEntry.policy /\ Reg!Idle.copy = [w \in Workspaces |-> Reg!NoGroup]
  BY Zenon DEF Reg!Idle
<1>4. Reg!Idle \in RegOp
  BY <1>1, <1>2, RegEmpty DEF Reg!Idle, RegOp
<1> QED
  BY <1>1, <1>3, <1>4 DEF RegStands

\* What is left once the phase at hand is over.
LEMMA RegRest ==
    ASSUME RegTypes, NEW o \in RegOp, RegStands(o), o.todo # <<>>
    PROVE  /\ Reg!Rest(o) \in RegOp /\ RegStands(Reg!Rest(o))
           /\ Reg!Rest(o).step = "read"
           /\ Reg!Rest(o).todo # <<>> =>
                 /\ Reg!Rest(o).kind = o.kind /\ Reg!Rest(o).p = o.p /\ Reg!Rest(o).w = o.w
                 /\ Reg!Rest(o).policy = o.policy
                 /\ o.kind # "due" /\ Head(o.todo) # "reg"
                 /\ Head(Reg!Rest(o).todo) = "reg" =>
                       IF o.kind = "delete" THEN Head(o.todo) = "groups" ELSE Head(o.todo) = "look"
                 /\ Head(Reg!Rest(o).todo) \in {"reg", "groups"}
                 /\ Head(Reg!Rest(o).todo) = "groups" => Head(o.todo) = "look"
<1>1. /\ o.kind \in RegKinds /\ o.todo \in RegLeft(o.kind) /\ o.todo \in RegTodos
  <2>1. o.todo \in RegLeft(o.kind) /\ o.kind \in RegKinds \cup {"none"}
    BY DEF RegStands, RegOp
  <2>2. o.kind # "none"
    BY <2>1 DEF RegLeft
  <2> QED
    BY <2>1, <2>2, RegPhases
<1>2. CASE Len(o.todo) = 1
  BY <1>2, RegIdles DEF Reg!Rest
<1>3. CASE Len(o.todo) # 1
  <2> DEFINE r == [o EXCEPT !.todo = Tail(o.todo), !.step = "read"]
  <2>1. Reg!Rest(o) = r
    BY <1>3 DEF Reg!Rest
  <2>2. /\ o.todo \in {<<"look", "reg">>, <<"look", "groups", "reg">>, <<"groups", "reg">>,
                       <<"look", "groups">>}
        /\ Tail(o.todo) \in RegTodos /\ Tail(o.todo) # <<>>
        /\ Head(o.todo) # "reg"
    BY <1>1, <1>3, RegTuples DEF RegTodos
  <2>3. /\ r \in RegOp /\ r.kind = o.kind /\ r.p = o.p /\ r.w = o.w /\ r.policy = o.policy
        /\ r.todo = Tail(o.todo) /\ r.step = "read"
    BY <2>2 DEF RegOp
  <2>4. /\ Tail(o.todo) \in RegLeft(o.kind) /\ o.kind # "due"
        /\ Head(Tail(o.todo)) = "reg" =>
              IF o.kind = "delete" THEN Head(o.todo) = "groups" ELSE Head(o.todo) = "look"
        /\ Head(Tail(o.todo)) \in {"reg", "groups"}
        /\ Head(Tail(o.todo)) = "groups" => Head(o.todo) = "look"
    <3> DEFINE k == o.kind
               t == o.todo
    <3>1. k \in RegKinds /\ t \in RegLeft(k)
      BY <1>1
    <3> HIDE DEF k, t
    <3>2. CASE t = <<"look", "reg">>
      <4>1. k \in {"policy", "maintain", "mark"}
        BY <3>1, <3>2 DEF RegLeft, RegKinds
      <4> QED
        BY <3>2, <4>1, RegTuples DEF RegLeft, k, t
    <3>3. CASE t = <<"look", "groups", "reg">>
      <4>1. k = "delete"
        BY <3>1, <3>3 DEF RegLeft, RegKinds
      <4> QED
        BY <3>3, <4>1, RegTuples DEF RegLeft, k, t
    <3>4. CASE t = <<"groups", "reg">>
      <4>1. k = "delete"
        BY <3>1, <3>4 DEF RegLeft, RegKinds
      <4> QED
        BY <3>4, <4>1, RegTuples DEF RegLeft, k, t
    <3>5. CASE t = <<"look", "groups">>
      <4>1. k = "assign"
        BY <3>1, <3>5 DEF RegLeft, RegKinds
      <4> QED
        BY <3>5, <4>1, RegTuples DEF RegLeft, k, t
    <3> QED
      BY <2>2, <3>2, <3>3, <3>4, <3>5 DEF t
  <2>5. RegStands(r)
    BY <2>3, <2>4 DEF RegStands, Writes
  <2> QED
    BY <2>1, <2>2, <2>3, <2>4, <2>5
<1> QED
  BY <1>2, <1>3

\* What an operation makes of a registry is a registry.
LEMMA RegRegistered ==
    ASSUME RegTypes, NEW o \in RegOp, NEW f \in RegFiles, o.p \in Projects, Reg!Applies(o, f),
           o.kind \in {"register", "archive", "policy", "maintain", "mark", "delete"}
    PROVE  /\ Reg!Registered(o, f) \in RegFiles
           /\ DOMAIN Reg!Registered(o, f) = CASE o.kind = "register" -> DOMAIN f \cup {o.p}
                                              [] o.kind = "delete" -> DOMAIN f \ {o.p}
                                              [] OTHER -> DOMAIN f
           /\ o.kind # "register" => o.p \in DOMAIN f
<1>1. PICK D \in SUBSET Projects : f \in [D -> RegEntry]
  BY DEF RegFiles
<1>2. \A E \in SUBSET Projects : [E -> RegEntry] \subseteq RegFiles
  BY DEF RegFiles
<1>3. o.policy \in RegPolicy /\ hour \in 0..hour
  BY DEF RegOp, RegTypes
<1>4. CASE o.kind = "register"
  <2>1. /\ Reg!Registered(o, f) = [p \in D \cup {o.p} |-> IF p = o.p THEN Reg!NewEntry ELSE f[p]]
        /\ DOMAIN f = D
    BY <1>1, <1>4 DEF Reg!Registered
  <2>2. Reg!NewEntry \in RegEntry
    BY RegIdles
  <2>3. /\ Reg!Registered(o, f) \in [D \cup {o.p} -> RegEntry]
        /\ DOMAIN Reg!Registered(o, f) = D \cup {o.p}
    BY <1>1, <2>1, <2>2
  <2> QED
    BY <1>2, <1>4, <2>1, <2>3
<1>5. CASE o.kind # "register"
  <2>1. o.p \in D /\ DOMAIN f = D /\ f[o.p] \in RegEntry
    BY <1>1, <1>5 DEF Reg!Applies
  <2>2. CASE o.kind = "delete"
    <3>1. Reg!Registered(o, f) = [p \in D \ {o.p} |-> f[p]]
      BY <2>1, <2>2 DEF Reg!Registered, Reg!Restrict
    <3>2. Reg!Registered(o, f) \in [D \ {o.p} -> RegEntry] /\ DOMAIN Reg!Registered(o, f) = D \ {o.p}
      BY <1>1, <3>1
    <3> QED
      BY <1>2, <2>1, <2>2, <3>2
  <2>3. CASE o.kind = "archive"
    <3>1. Reg!Registered(o, f) = [f EXCEPT ![o.p] = [f[o.p] EXCEPT !.archived = ~f[o.p].archived]]
      BY <2>3 DEF Reg!Registered
    <3>2. [f[o.p] EXCEPT !.archived = ~f[o.p].archived] \in RegEntry
      BY <2>1 DEF RegEntry
    <3>3. Reg!Registered(o, f) \in [D -> RegEntry] /\ DOMAIN Reg!Registered(o, f) = D
      BY <1>1, <3>1, <3>2
    <3> QED
      BY <1>2, <2>1, <2>3, <3>3
  <2>4. CASE o.kind \in {"policy", "maintain", "mark"}
    <3>1. PICK q \in RegPolicy :
            Reg!Registered(o, f) = [f EXCEPT ![o.p] = [f[o.p] EXCEPT !.policy = q]]
      <4>1. CASE o.kind = "policy"
        BY <1>3, <4>1 DEF Reg!Registered, RegPolicy
      <4>2. CASE o.kind = "maintain"
        BY <1>3, <4>2 DEF Reg!Registered, RegPolicy
      <4>3. CASE o.kind = "mark"
        BY <1>3, <4>3 DEF Reg!Registered, Reg!Marked, RegPolicy
      <4> QED
        BY <2>4, <4>1, <4>2, <4>3
    <3>2. [f[o.p] EXCEPT !.policy = q] \in RegEntry
      BY <2>1 DEF RegEntry
    <3>3. Reg!Registered(o, f) \in [D -> RegEntry] /\ DOMAIN Reg!Registered(o, f) = D
      BY <1>1, <3>1, <3>2
    <3> QED
      BY <1>2, <2>1, <2>4, <3>3
  <2> QED
    BY <1>5, <2>2, <2>3, <2>4
<1> QED
  BY <1>4, <1>5

\* A part of dependencies without a cycle has none.
LEMMA RegPartAcyclic ==
    /\ \A D, E : D \subseteq E /\ Reg!Acyclic(E) => Reg!Acyclic(D)
    /\ Reg!Acyclic({})
<1>1. ASSUME NEW D, NEW E, D \subseteq E, Reg!Acyclic(E)
      PROVE  Reg!Acyclic(D)
  <2> SUFFICES ASSUME NEW rest \in (SUBSET Projects) \ {{}}
               PROVE  \E p \in rest : \A q \in rest : <<p, q>> \notin D
    BY DEF Reg!Acyclic
  <2>1. PICK p \in rest : \A q \in rest : <<p, q>> \notin E
    BY <1>1 DEF Reg!Acyclic
  <2> QED
    BY <1>1, <2>1
<1>2. Reg!Acyclic({})
  <2> SUFFICES ASSUME NEW rest \in (SUBSET Projects) \ {{}}
               PROVE  \E p \in rest : \A q \in rest : <<p, q>> \notin {}
    BY DEF Reg!Acyclic
  <2>1. PICK p \in rest : TRUE
    OBVIOUS
  <2> QED
    BY <2>1
<1> QED
  BY <1>1, <1>2

\* What an operation makes of the workspaces it read is sound; no workspace gains a
\* project but by an assignment, and none keeps one that is deleted.
LEMMA RegGrouped ==
    ASSUME NEW o \in RegOp, NEW g, GroupsSound(g), o.p \in Projects,
           o.kind # "delete" => o.w \in Workspaces,
           o.kind \in {"assign", "unassign", "delete", "ungroup", "deps"},
           NEW h \in Reg!Grouped(o, g)
    PROVE  /\ GroupsSound(h)
           /\ \A w \in Workspaces : h[w].members \subseteq g[w].members \cup {o.p}
           /\ o.kind # "assign" => \A w \in Workspaces : h[w].members \subseteq g[w].members
           /\ o.kind = "delete" => \A w \in Workspaces : o.p \notin h[w].members
<1> DEFINE Pruned(v) == [members |-> g[v].members \ {o.p},
                         deps |-> {d \in g[v].deps : o.p \notin {d[1], d[2]}}]
<1>1. ASSUME NEW v \in Workspaces
      PROVE  /\ g[v] \in RegGroup /\ g[v].deps \subseteq g[v].members \X g[v].members
             /\ Reg!Acyclic(g[v].deps)
             /\ Reg!RemoveMember(g[v], o.p) = Pruned(v)
             /\ Pruned(v) \in RegGroup
             /\ Pruned(v).members \subseteq g[v].members /\ o.p \notin Pruned(v).members
             /\ Pruned(v).deps \subseteq Pruned(v).members \X Pruned(v).members
             /\ Reg!Acyclic(Pruned(v).deps)
  <2>1. /\ g[v] \in RegGroup /\ g[v].deps \subseteq g[v].members \X g[v].members
        /\ Reg!Acyclic(g[v].deps)
    BY DEF GroupsSound
  <2>2. Reg!RemoveMember(g[v], o.p) = Pruned(v)
    BY DEF Reg!RemoveMember
  <2>3. /\ Pruned(v) \in RegGroup
        /\ Pruned(v).members \subseteq g[v].members /\ o.p \notin Pruned(v).members
        /\ Pruned(v).deps \subseteq g[v].deps
    BY <2>1 DEF RegGroup
  <2>4. Pruned(v).deps \subseteq Pruned(v).members \X Pruned(v).members
    BY <2>1
  <2>5. Reg!Acyclic(Pruned(v).deps)
    BY <2>1, <2>3, RegPartAcyclic
  <2> QED
    BY <2>1, <2>2, <2>3, <2>4, <2>5
<1>2. /\ g \in [Workspaces -> RegGroup]
      /\ \A v, w \in Workspaces : v # w => g[v].members \cap g[w].members = {}
  BY DEF GroupsSound
<1> HIDE DEF Pruned
<1>3. CASE o.kind = "assign"
  <2> DEFINE r == [g[o.w] EXCEPT !.members = @ \cup {o.p}]
  <2>1. h = [w \in Workspaces |-> IF w = o.w THEN r ELSE Pruned(w)]
    BY <1>1, <1>3 DEF Reg!Grouped, Reg!Assigned
  <2>2. r \in RegGroup /\ r.members = g[o.w].members \cup {o.p} /\ r.deps = g[o.w].deps
    BY <1>1, <1>3 DEF RegGroup
  <2> HIDE DEF r
  <2>3. h \in [Workspaces -> RegGroup]
    BY <1>1, <2>1, <2>2
  <2>4. \A v, w \in Workspaces : v # w => h[v].members \cap h[w].members = {}
    BY <1>1, <1>2, <1>3, <2>1, <2>2
  <2>5. \A w \in Workspaces : /\ h[w].deps \subseteq h[w].members \X h[w].members
                              /\ Reg!Acyclic(h[w].deps)
    BY <1>1, <1>3, <2>1, <2>2
  <2>6. \A w \in Workspaces : h[w].members \subseteq g[w].members \cup {o.p}
    BY <1>1, <2>1, <2>2
  <2> QED
    BY <1>3, <2>3, <2>4, <2>5, <2>6 DEF GroupsSound
<1>4. CASE o.kind # "assign"
  <2>1. /\ h \in [Workspaces -> RegGroup]
        /\ \A v \in Workspaces : /\ h[v].members \subseteq g[v].members
                                 /\ h[v].deps \subseteq h[v].members \X h[v].members
                                 /\ Reg!Acyclic(h[v].deps)
                                 /\ o.kind = "delete" => o.p \notin h[v].members
    <3>1. CASE o.kind = "unassign"
      <4>1. h = [g EXCEPT ![o.w] = Pruned(o.w)]
        BY <1>1, <3>1 DEF Reg!Grouped
      <4> QED
        BY <1>1, <1>2, <3>1, <4>1
    <3>2. CASE o.kind = "delete"
      <4>1. h = [w \in Workspaces |-> Pruned(w)]
        BY <1>1, <3>2 DEF Reg!Grouped
      <4> QED
        BY <1>1, <3>2, <4>1
    <3>3. CASE o.kind = "ungroup"
      <4>1. h = [g EXCEPT ![o.w] = Reg!NoGroup]
        BY <3>3 DEF Reg!Grouped
      <4>2. Reg!NoGroup \in RegGroup /\ Reg!NoGroup.members = {} /\ Reg!NoGroup.deps = {}
        BY DEF Reg!NoGroup, RegGroup
      <4> QED
        BY <1>1, <1>2, <3>3, <4>1, <4>2, RegPartAcyclic
    <3>4. CASE o.kind = "deps"
      <4>1. PICK D \in SUBSET (g[o.w].members \X g[o.w].members) :
              Reg!Acyclic(D) /\ h = [g EXCEPT ![o.w] = [g[o.w] EXCEPT !.deps = D]]
        BY <3>4 DEF Reg!Grouped
      <4> DEFINE r == [g[o.w] EXCEPT !.deps = D]
      <4>2. r \in RegGroup /\ r.members = g[o.w].members /\ r.deps = D
        BY <1>1, <3>4, <4>1 DEF RegGroup
      <4> HIDE DEF r
      <4>3. h = [g EXCEPT ![o.w] = r]
        BY <4>1 DEF r
      <4> QED
        BY <1>1, <1>2, <3>4, <4>1, <4>2, <4>3
    <3> QED
      BY <1>4, <3>1, <3>2, <3>3, <3>4
  <2>2. \A v, w \in Workspaces : v # w => h[v].members \cap h[w].members = {}
    BY <1>2, <2>1
  <2> QED
    BY <1>4, <2>1, <2>2 DEF GroupsSound
<1> QED
  BY <1>3, <1>4

\* An operation moves on, or one starts: what every actor is in stays as it should.
LEMMA RegActs ==
    ASSUME RegTypes, NEW a \in Reg!Actors, NEW o \in RegOp, RegStands(o), hour' = hour,
           actor' = [actor EXCEPT ![a] = o],
           o.todo # <<>> => /\ a # "loop" => o.kind \in Reg!WorkerKinds \cup {"due", "mark"}
                            /\ a = "tick" <=> o.kind \in {"due", "mark"}
    PROVE  /\ actor' \in [Reg!Actors -> RegOp'] /\ \A b \in Reg!Actors : RegStands(actor'[b])
           /\ \A b \in Reg!Actors \ {"loop"} :
                 Reg!Busy(b)' => actor'[b].kind \in Reg!WorkerKinds \cup {"due", "mark"}
           /\ \A b \in Reg!Actors : Reg!Busy(b)' => (b = "tick" <=> actor'[b].kind \in {"due", "mark"})
           /\ \A b \in Reg!Actors : Reg!Busy(b)' <=> actor'[b].todo # <<>>
           /\ \A b \in Reg!Actors : actor'[b] = IF b = a THEN o ELSE actor[b]
           /\ RegFiles' = RegFiles /\ RegOp' = RegOp
<1>1. RegFiles' = RegFiles /\ RegOp' = RegOp
  BY DEF RegFiles, RegOp, RegEntry, RegPolicy
<1>2. /\ actor \in [Reg!Actors -> RegOp]
      /\ \A b \in Reg!Actors : RegStands(actor[b])
      /\ \A b \in Reg!Actors \ {"loop"} :
            Reg!Busy(b) => actor[b].kind \in Reg!WorkerKinds \cup {"due", "mark"}
      /\ \A b \in Reg!Actors : Reg!Busy(b) => (b = "tick" <=> actor[b].kind \in {"due", "mark"})
  BY DEF RegTypes
<1>3. \A b \in Reg!Actors : actor'[b] = IF b = a THEN o ELSE actor[b]
  BY <1>2
<1>4. \A b \in Reg!Actors : /\ Reg!Busy(b)' <=> actor'[b].todo # <<>>
                            /\ Reg!Busy(b) <=> actor[b].todo # <<>>
  BY DEF Reg!Busy
<1>5. actor' \in [Reg!Actors -> RegOp]
  BY <1>2
<1> QED
  BY <1>1, <1>2, <1>3, <1>4, <1>5

\* What an actor is in, when it is busy.
LEMMA RegBusy ==
    ASSUME RegTypes, NEW a \in Reg!Actors, Reg!Busy(a)
    PROVE  /\ actor[a] \in RegOp /\ RegStands(actor[a]) /\ actor[a].todo # <<>>
           /\ actor[a].kind \in RegKinds /\ Reg!Phase(a) = Head(actor[a].todo)
           /\ a # "loop" => actor[a].kind \in Reg!WorkerKinds \cup {"due", "mark"}
           /\ a = "tick" <=> actor[a].kind \in {"due", "mark"}
           /\ Reg!Phase(a) \in {"look", "reg", "groups"}
           /\ actor[a].kind = "due" => Reg!Phase(a) = "look"
           /\ Reg!Phase(a) = "reg" =>
                 actor[a].kind \in {"register", "archive", "policy", "maintain", "mark", "delete"}
           /\ Reg!Phase(a) = "groups" =>
                 actor[a].kind \in {"assign", "unassign", "delete", "ungroup", "deps"}
<1>1. /\ actor[a] \in RegOp /\ RegStands(actor[a]) /\ actor[a].todo # <<>>
      /\ Reg!Phase(a) = Head(actor[a].todo)
      /\ a # "loop" => actor[a].kind \in Reg!WorkerKinds \cup {"due", "mark"}
      /\ a = "tick" <=> actor[a].kind \in {"due", "mark"}
  BY DEF RegTypes, Reg!Busy, Reg!Phase
<1> DEFINE k == actor[a].kind
           t == actor[a].todo
<1>2. t \in RegLeft(k) /\ k \in RegKinds \cup {"none"}
  BY <1>1 DEF RegStands, RegOp
<1> HIDE DEF k, t
<1>3. k # "none"
  BY <1>2 DEF RegLeft
<1>4. k \in RegKinds /\ t \in RegTodos
  BY <1>2, <1>3, RegPhases
<1>5. k = "due" => t = <<"look">>
  BY <1>2 DEF RegLeft
<1>6. Head(t) = "reg" => k \in {"register", "archive", "policy", "maintain", "mark", "delete"}
  <2>1. CASE k \in {"assign", "unassign", "ungroup", "deps", "due"}
    BY <1>2, <2>1, RegTuples DEF RegLeft
  <2> QED
    BY <1>4, <2>1 DEF RegKinds
<1>7. Head(t) = "groups" => k \in {"assign", "unassign", "delete", "ungroup", "deps"}
  <2>1. CASE k \in {"register", "archive", "policy", "maintain", "mark", "due"}
    BY <1>2, <2>1, RegTuples DEF RegLeft
  <2> QED
    BY <1>4, <2>1 DEF RegKinds
<1> QED
  BY <1>1, <1>4, <1>5, <1>6, <1>7, RegTuples DEF k, t

\* A look at the registry.
LEMMA RegLooks ==
    ASSUME RegTypes, NEW a \in Reg!Actors, Reg!Busy(a), NEW items \in RegFiles,
           Reg!Phase(a) \in {"look", "reg"}, hour' = hour, Reg!LooksUp(a, items)
    PROVE  /\ \E o \in RegOp :
                /\ actor' = [actor EXCEPT ![a] = o]
                /\ RegStands(o) /\ o.step # "fill" /\ o.step # "heal"
                /\ o.todo # <<>> => o.kind = actor[a].kind /\ o.kind # "due"
           /\ due' \subseteq Projects /\ (actor[a].kind # "due" => due' = due)
           /\ fires' \in [Projects -> [Reg!Hours -> Nat]]
<1>1. /\ actor[a] \in RegOp /\ RegStands(actor[a]) /\ actor[a].todo # <<>>
      /\ Reg!Phase(a) = Head(actor[a].todo)
      /\ Reg!Phase(a) = "reg" => actor[a].kind # "due"
  BY RegBusy
<1>2. CASE actor[a].kind = "due"
  <2>1. /\ actor' = [actor EXCEPT ![a] = Reg!Idle] /\ due' = Reg!Due(items)
        /\ fires' = [p \in Projects |->
                       [fires[p] EXCEPT ![hour] = @ + (IF p \in Reg!Due(items) THEN 1 ELSE 0)]]
    BY <1>2 DEF Reg!LooksUp, Reg!Set
  <2>2. due' \subseteq Projects
    BY <2>1 DEF Reg!Due, RegFiles
  <2>3. fires \in [Projects -> [Reg!Hours -> Nat]]
    BY DEF RegTypes
  <2>4. fires' \in [Projects -> [Reg!Hours -> Nat]]
    <3> DEFINE n(p) == IF p \in Reg!Due(items) THEN 1 ELSE 0
               more(p) == [fires[p] EXCEPT ![hour] = @ + n(p)]
    <3>1. ASSUME NEW p \in Projects
          PROVE  more(p) \in [Reg!Hours -> Nat]
      <4>1. fires[p] \in [Reg!Hours -> Nat] /\ n(p) \in Nat
        BY <2>3
      <4>2. hour \in Reg!Hours
        BY DEF RegTypes
      <4>3. fires[p][hour] + n(p) \in Nat
        BY <4>1, <4>2
      <4> HIDE DEF n
      <4> QED
        BY <4>1, <4>3
    <3>2. fires' = [p \in Projects |-> more(p)]
      BY <2>1
    <3> HIDE DEF more
    <3> QED
      BY <3>1, <3>2
  <2> QED
    BY <1>2, <2>1, <2>2, <2>4, RegIdles
<1>3. CASE actor[a].kind # "due"
  <2> DEFINE n == actor[a]
  <2>1. /\ Reg!Set(a, CASE Reg!Phase(a) = "look" /\ n.p \in DOMAIN items ->
                             Reg!Rest([n EXCEPT !.policy = items[n.p].policy])
                        [] Reg!Phase(a) = "reg" /\ Reg!Applies(n, items) ->
                             [n EXCEPT !.entries = items, !.step = "truncate"]
                        [] OTHER -> Reg!Idle)
        /\ due' = due /\ fires' = fires
    BY <1>3 DEF Reg!LooksUp
  <2>2. due' \subseteq Projects /\ fires' \in [Projects -> [Reg!Hours -> Nat]]
    BY <2>1 DEF RegTypes
  <2>3. CASE Reg!Phase(a) = "look" /\ n.p \in DOMAIN items
    <3> DEFINE m == [n EXCEPT !.policy = items[n.p].policy]
    <3>1. items[n.p].policy \in RegPolicy
      BY <2>3 DEF RegFiles, RegEntry
    <3>2. /\ m \in RegOp /\ m.todo = n.todo /\ m.kind = n.kind /\ m.p = n.p /\ m.w = n.w
          /\ m.step = n.step /\ m.entries = n.entries /\ m.copy = n.copy
      BY <1>1, <3>1 DEF RegOp
    <3> HIDE DEF m
    <3>3. RegStands(m)
      BY <1>1, <3>2 DEF RegStands, Writes, Reg!Applies
    <3>4. /\ Reg!Rest(m) \in RegOp /\ RegStands(Reg!Rest(m)) /\ Reg!Rest(m).step = "read"
          /\ Reg!Rest(m).todo # <<>> => Reg!Rest(m).kind = n.kind
      BY <1>1, <3>2, <3>3, RegRest
    <3>5. actor' = [actor EXCEPT ![a] = Reg!Rest(m)]
      BY <2>1, <2>3 DEF Reg!Set, m
    <3> QED
      BY <1>3, <2>1, <2>2, <3>4, <3>5
  <2>4. CASE Reg!Phase(a) = "reg" /\ Reg!Applies(n, items)
    <3> DEFINE m == [n EXCEPT !.entries = items, !.step = "truncate"]
    <3>1. /\ m \in RegOp /\ m.todo = n.todo /\ m.kind = n.kind /\ m.p = n.p /\ m.w = n.w
          /\ m.step = "truncate" /\ m.entries = items
      BY <1>1 DEF RegOp
    <3>2. actor' = [actor EXCEPT ![a] = m]
      BY <2>1, <2>4 DEF Reg!Set
    <3> HIDE DEF m
    <3>3. RegStands(m)
      BY <1>1, <2>4, <3>1 DEF RegStands, Writes, Reg!Applies
    <3> QED
      BY <1>3, <2>1, <2>2, <3>1, <3>2, <3>3
  <2>5. CASE ~(Reg!Phase(a) = "look" /\ n.p \in DOMAIN items)
             /\ ~(Reg!Phase(a) = "reg" /\ Reg!Applies(n, items))
    <3>1. actor' = [actor EXCEPT ![a] = Reg!Idle]
      BY <2>1, <2>5 DEF Reg!Set
    <3> QED
      BY <1>3, <2>1, <2>2, <3>1, RegIdles
  <2> QED
    BY <2>3, <2>4, <2>5
<1> QED
  BY <1>2, <1>3

\* A step of an actor that leaves the files, and the tick's work, as they should be.
LEMMA RegStepTypes ==
    ASSUME RegTypes, NEW a \in Reg!Actors, NEW o \in RegOp, RegStands(o), hour' = hour,
           actor' = [actor EXCEPT ![a] = o],
           o.todo # <<>> => /\ a # "loop" => o.kind \in Reg!WorkerKinds \cup {"due", "mark"}
                            /\ a = "tick" <=> o.kind \in {"due", "mark"},
           reg' \in RegFiles, GroupsSound(groups'), regTorn' \in BOOLEAN, groupsTorn' \in BOOLEAN,
           asked' \in [reg : RegFiles, disturbed : BOOLEAN],
           fires' \in [Projects -> [Reg!Hours -> Nat]],
           due' \subseteq Projects,
           actor'["tick"].todo # <<>> /\ actor'["tick"].kind = "due" => due' = {}
    PROVE  RegTypes'
<1>1. /\ actor' \in [Reg!Actors -> RegOp'] /\ \A b \in Reg!Actors : RegStands(actor'[b])
      /\ \A b \in Reg!Actors \ {"loop"} :
            Reg!Busy(b)' => actor'[b].kind \in Reg!WorkerKinds \cup {"due", "mark"}
      /\ \A b \in Reg!Actors : Reg!Busy(b)' => (b = "tick" <=> actor'[b].kind \in {"due", "mark"})
      /\ \A b \in Reg!Actors : Reg!Busy(b)' <=> actor'[b].todo # <<>>
      /\ RegFiles' = RegFiles /\ RegOp' = RegOp
  BY RegActs
<1>2. hour' \in Nat \ {0} /\ hour' \in Reg!Hours
  BY DEF RegTypes
<1>3. Reg!Actors' = Reg!Actors /\ "tick" \in Reg!Actors
  BY DEF Reg!Actors
<1>4. /\ Reg!Busy("tick")' /\ actor'["tick"].kind = "due" => due' = {}
      /\ asked' \in [reg : RegFiles', disturbed : BOOLEAN] /\ reg' \in RegFiles'
  BY <1>1, <1>3
<1> QED
  BY <1>1, <1>2, <1>4 DEF RegTypes

\* What a step of an actor leaves is of the types it should be of.
LEMMA RegStepsTypes ==
    ASSUME RegInv, NEW a \in Reg!Actors, Reg!Step(a)
    PROVE  RegTypes'
<1>0. RegTypes
  BY DEF RegInv
<1> DEFINE n == actor[a]
<1>1. /\ reg \in RegFiles /\ GroupsSound(groups) /\ regTorn \in BOOLEAN /\ groupsTorn \in BOOLEAN
      /\ asked \in [reg : RegFiles, disturbed : BOOLEAN] /\ actor \in [Reg!Actors -> RegOp]
      /\ fires \in [Projects -> [Reg!Hours -> Nat]] /\ due \subseteq Projects
      /\ "tick" \in Reg!Actors
      /\ actor["tick"].todo # <<>> /\ actor["tick"].kind = "due" => due = {}
  BY <1>0 DEF RegTypes, Reg!Actors, Reg!Busy
<1>2. hour' = hour /\ Reg!Busy(a)
  BY DEF Reg!Step, Reg!Reads, Reg!Heals, Reg!ReadsGroups, Reg!Truncates, Reg!FillsRegistry,
         Reg!FillsGroups
<1>3. /\ n \in RegOp /\ RegStands(n) /\ n.todo # <<>> /\ n.kind \in RegKinds
      /\ Reg!Phase(a) = Head(n.todo)
      /\ a # "loop" => n.kind \in Reg!WorkerKinds \cup {"due", "mark"}
      /\ a = "tick" <=> n.kind \in {"due", "mark"}
      /\ Reg!Phase(a) \in {"look", "reg", "groups"}
      /\ n.kind = "due" => Reg!Phase(a) = "look"
      /\ Reg!Phase(a) = "reg" =>
            n.kind \in {"register", "archive", "policy", "maintain", "mark", "delete"}
      /\ Reg!Phase(a) = "groups" => n.kind \in {"assign", "unassign", "delete", "ungroup", "deps"}
  BY <1>2, <1>0, RegBusy
<1> HIDE DEF n
<1>4. /\ Reg!Idle \in RegOp /\ RegStands(Reg!Idle) /\ Reg!Idle.todo = <<>>
      /\ Reg!Rest(n) \in RegOp /\ RegStands(Reg!Rest(n))
      /\ Reg!Rest(n).todo # <<>> => Reg!Rest(n).kind = n.kind /\ n.kind # "due"
  BY <1>3, <1>0, RegIdles, RegRest
\* A step that leaves the tick's work and what was asked alone.
<1>5. ASSUME NEW o \in RegOp, RegStands(o), o.todo # <<>> => o.kind = n.kind,
             actor' = [actor EXCEPT ![a] = o], reg' \in RegFiles, GroupsSound(groups'),
             regTorn' \in BOOLEAN, groupsTorn' \in BOOLEAN,
             asked' \in [reg : RegFiles, disturbed : BOOLEAN],
             fires' \in [Projects -> [Reg!Hours -> Nat]], due' = due
      PROVE  RegTypes'
  <2>1. actor'["tick"].todo # <<>> /\ actor'["tick"].kind = "due" => due' = {}
    BY <1>1, <1>3, <1>5 DEF n
  <2> QED
    BY <1>1, <1>2, <1>3, <1>5, <2>1, <1>0, RegStepTypes
\* A look at the registry, as it is or healed.
<1>6. ASSUME NEW items \in RegFiles, Reg!LooksUp(a, items), Reg!Phase(a) \in {"look", "reg"},
             reg' \in RegFiles, regTorn' \in BOOLEAN, groups' = groups, groupsTorn' = groupsTorn,
             asked' = asked
      PROVE  RegTypes'
  <2>1. /\ due' \subseteq Projects /\ (n.kind # "due" => due' = due)
        /\ fires' \in [Projects -> [Reg!Hours -> Nat]]
    BY <1>2, <1>6, <1>0, RegLooks DEF n
  <2>2. PICK o \in RegOp : /\ actor' = [actor EXCEPT ![a] = o] /\ RegStands(o)
                           /\ o.todo # <<>> => o.kind = n.kind /\ o.kind # "due"
    BY <1>2, <1>6, <1>0, RegLooks DEF n
  <2>3. actor'["tick"].todo # <<>> /\ actor'["tick"].kind = "due" => due' = {}
    <3>1. CASE a = "tick"
      BY <1>1, <2>2, <3>1
    <3>2. CASE a # "tick"
      BY <1>1, <1>3, <2>1, <2>2, <3>2
    <3> QED
      BY <3>1, <3>2
  <2> QED
    BY <1>1, <1>2, <1>3, <1>6, <2>1, <2>2, <2>3, <1>0, RegStepTypes
<1>7. CASE Reg!Reads(a)
  <2>1. CASE regTorn
    <3> DEFINE m == [n EXCEPT !.step = "heal"]
    <3>1. /\ m \in RegOp /\ m.todo = n.todo /\ m.kind = n.kind /\ m.p = n.p /\ m.w = n.w
          /\ m.step = "heal"
      BY <1>3 DEF RegOp
    <3>2. actor' = [actor EXCEPT ![a] = m] /\ Reg!Phase(a) \in {"look", "reg"}
      BY <1>7, <2>1 DEF Reg!Reads, Reg!Set, n
    <3> HIDE DEF m
    <3>3. RegStands(m)
      BY <1>3, <3>1, <3>2 DEF RegStands, Writes
    <3>4. UNCHANGED <<due, fires, reg, groups, regTorn, groupsTorn, asked>>
      BY <1>7, <2>1 DEF Reg!Reads, Reg!files
    <3> QED
      BY <1>1, <1>5, <3>1, <3>2, <3>3, <3>4
  <2>2. CASE ~regTorn
    <3>1. /\ Reg!LooksUp(a, reg) /\ Reg!Phase(a) \in {"look", "reg"}
          /\ UNCHANGED <<reg, groups, regTorn, groupsTorn, asked>>
      BY <1>7, <2>2 DEF Reg!Reads, Reg!files
    <3> QED
      BY <1>1, <1>6, <3>1
  <2> QED
    BY <2>1, <2>2
<1>8. CASE Reg!Heals(a)
  <2>1. /\ reg' = Reg!Empty /\ regTorn' = FALSE /\ Reg!LooksUp(a, Reg!Empty)
        /\ UNCHANGED <<groups, groupsTorn, asked>> /\ n.step = "heal"
    BY <1>8 DEF Reg!Heals, n
  <2>2. Reg!Phase(a) \in {"look", "reg"}
    BY <1>3, <2>1 DEF RegStands
  <2> QED
    BY <1>6, <2>1, <2>2, RegEmpty
<1>9. CASE Reg!ReadsGroups(a)
  <2>1. UNCHANGED <<due, fires, reg, groups, regTorn, groupsTorn, asked>> /\ Reg!Phase(a) = "groups"
    BY <1>9 DEF Reg!ReadsGroups, Reg!files
  <2> DEFINE m == [n EXCEPT !.copy = groups, !.step = "truncate"]
  <2>2. \/ actor' = [actor EXCEPT ![a] = Reg!Rest(n)]
        \/ actor' = [actor EXCEPT ![a] = Reg!Idle]
        \/ actor' = [actor EXCEPT ![a] = m]
    BY <1>9 DEF Reg!ReadsGroups, Reg!Set, n
  <2>3. /\ m \in RegOp /\ m.todo = n.todo /\ m.kind = n.kind /\ m.p = n.p /\ m.w = n.w
        /\ m.step = "truncate" /\ m.copy = groups
    BY <1>1, <1>3 DEF RegOp, GroupsSound
  <2> HIDE DEF m
  <2>4. RegStands(m)
    BY <1>1, <1>3, <2>1, <2>3 DEF RegStands, Writes
  <2> QED
    BY <1>1, <1>4, <1>5, <2>1, <2>2, <2>3, <2>4
<1>10. CASE Reg!Truncates(a)
  <2> DEFINE m == [n EXCEPT !.step = "fill"]
  <2>1. /\ n.step = "truncate" /\ actor' = [actor EXCEPT ![a] = m]
        /\ UNCHANGED <<due, fires, reg, groups, asked>>
        /\ regTorn' \in {TRUE, regTorn} /\ groupsTorn' \in {TRUE, groupsTorn}
    BY <1>10 DEF Reg!Truncates, Reg!Set, n
  <2>2. /\ m \in RegOp /\ m.todo = n.todo /\ m.kind = n.kind /\ m.p = n.p /\ m.w = n.w
        /\ m.step = "fill" /\ m.copy = n.copy /\ m.entries = n.entries
    BY <1>3 DEF RegOp
  <2> HIDE DEF m
  <2>3. RegStands(m)
    BY <1>3, <2>1, <2>2 DEF RegStands, Writes, Reg!Applies
  <2> QED
    BY <1>1, <1>5, <2>1, <2>2, <2>3
<1>11. CASE Reg!FillsRegistry(a)
  <2> DEFINE b == IF n.p \in DOMAIN asked.reg THEN asked.reg[n.p].policy ELSE n.policy
             m == [n EXCEPT !.policy = b]
  <2>1. /\ Reg!Phase(a) = "reg" /\ n.step = "fill"
        /\ reg' = Reg!Registered(n, n.entries) /\ regTorn' = FALSE
        /\ asked' = IF asked.disturbed THEN asked
                    ELSE [asked EXCEPT !.reg = Reg!Registered(m, asked.reg)]
        /\ fires' = IF n.kind = "delete" THEN [fires EXCEPT ![n.p] = [h \in Reg!Hours |-> 0]]
                    ELSE fires
        /\ actor' = [actor EXCEPT ![a] = Reg!Idle]
        /\ UNCHANGED <<groups, groupsTorn, due>>
    BY <1>11 DEF Reg!FillsRegistry, Reg!Set, n
  <2>2. /\ n.p \in Projects /\ Reg!Applies(n, n.entries) /\ n.entries \in RegFiles
        /\ n.kind \in {"register", "archive", "policy", "maintain", "mark", "delete"}
    BY <1>3, <2>1 DEF RegStands, Writes, RegOp
  <2>3. reg' \in RegFiles
    BY <1>3, <2>1, <2>2, <1>0, RegRegistered
  <2>4. fires' \in [Projects -> [Reg!Hours -> Nat]]
    BY <1>1, <2>1
  <2>5. asked' \in [reg : RegFiles, disturbed : BOOLEAN]
    <3>1. CASE asked.disturbed
      BY <1>1, <2>1, <3>1
    <3>2. CASE ~asked.disturbed
      <4>1. n.entries = reg /\ reg = asked.reg
        BY <1>2, <2>1, <3>2 DEF RegInv, Undisturbed, OneAtATime, HasRead, Writes, n
      <4>2. b \in RegPolicy
        BY <1>1, <1>3 DEF RegOp, RegFiles, RegEntry
      <4> HIDE DEF b
      <4>3. m \in RegOp /\ m.kind = n.kind /\ m.p = n.p
        BY <1>3, <4>2 DEF RegOp
      <4> HIDE DEF m
      <4>4. Reg!Applies(m, asked.reg)
        BY <2>2, <4>1, <4>3 DEF Reg!Applies
      <4>5. Reg!Registered(m, asked.reg) \in RegFiles
        BY <1>0, <1>1, <2>2, <4>3, <4>4, RegRegistered
      <4> QED
        BY <1>1, <2>1, <3>2, <4>5
    <3> QED
      BY <3>1, <3>2
  <2> QED
    BY <1>1, <1>4, <1>5, <2>1, <2>3, <2>4, <2>5
<1>12. CASE Reg!FillsGroups(a)
  <2>1. /\ Reg!Phase(a) = "groups" /\ n.step = "fill"
        /\ groups' \in Reg!Grouped(n, n.copy) /\ groupsTorn' = FALSE
        /\ actor' = [actor EXCEPT ![a] = Reg!Rest(n)]
        /\ UNCHANGED <<reg, regTorn, due, asked, fires>>
    BY <1>12 DEF Reg!FillsGroups, Reg!Set, n
  <2>2. /\ n.p \in Projects /\ GroupsSound(n.copy)
        /\ n.kind \in {"assign", "unassign", "delete", "ungroup", "deps"}
        /\ n.kind # "delete" => n.w \in Workspaces
    BY <1>3, <2>1 DEF RegStands, Writes
  <2>3. GroupsSound(groups')
    BY <1>3, <2>1, <2>2, <1>0, RegGrouped
  <2> QED
    BY <1>1, <1>4, <1>5, <2>1, <2>3
<1> QED
  BY <1>7, <1>8, <1>9, <1>10, <1>11, <1>12 DEF Reg!Step

\* An operation starts.
LEMMA RegStarts ==
    ASSUME RegTypes, NEW a \in Reg!Actors, NEW k \in RegKinds, NEW o \in RegOp,
           o.kind = k, o.step = "read", k # "due" => o.p \in Projects,
           k \in {"assign", "unassign", "ungroup", "deps"} => o.w \in Workspaces,
           hour' = hour, Reg!Starts(a, o),
           a # "loop" => k \in Reg!WorkerKinds \cup {"due", "mark"},
           a = "tick" <=> k \in {"due", "mark"},
           reg' = reg, groups' = groups, regTorn' = regTorn, groupsTorn' = groupsTorn, fires' = fires,
           due' \subseteq Projects, a # "tick" => due' = due, k = "due" => due' = {}
    PROVE  /\ RegTypes'
           /\ \E m \in RegOp : /\ m.kind = k /\ m.p = o.p /\ m.w = o.w /\ m.step = "read"
                               /\ m.todo = Reg!Phases(k) /\ m.todo # <<>>
                               /\ actor' = [actor EXCEPT ![a] = m]
           /\ ~Reg!Busy(a)
           /\ asked'.reg = asked.reg
           /\ ~asked'.disturbed => ~asked.disturbed /\ \A b \in Reg!Actors \ {a} : ~Reg!Busy(b)
<1> DEFINE m == [o EXCEPT !.todo = Reg!Phases(k)]
<1>1. /\ ~Reg!Busy(a) /\ actor' = [actor EXCEPT ![a] = m]
      /\ asked' = [asked EXCEPT !.disturbed = asked.disturbed \/ Reg!Disturbs(a)]
  BY DEF Reg!Starts, Reg!Set
<1>2. Reg!Phases(k) \in RegLeft(k) /\ Reg!Phases(k) \in RegTodos /\ Reg!Phases(k) # <<>>
  BY RegPhases, RegTuples
<1>3. /\ m \in RegOp /\ m.kind = k /\ m.p = o.p /\ m.w = o.w /\ m.step = "read"
      /\ m.todo = Reg!Phases(k)
  BY <1>2 DEF RegOp
<1> HIDE DEF m
<1>4. RegStands(m)
  BY <1>2, <1>3 DEF RegStands, Writes
<1>5. /\ asked \in [reg : RegFiles, disturbed : BOOLEAN]
      /\ reg \in RegFiles /\ GroupsSound(groups) /\ regTorn \in BOOLEAN /\ groupsTorn \in BOOLEAN
      /\ fires \in [Projects -> [Reg!Hours -> Nat]] /\ actor \in [Reg!Actors -> RegOp]
      /\ "tick" \in Reg!Actors
      /\ actor["tick"].todo # <<>> /\ actor["tick"].kind = "due" => due = {}
  BY DEF RegTypes, Reg!Actors, Reg!Busy
<1>6. /\ asked' \in [reg : RegFiles, disturbed : BOOLEAN] /\ asked'.reg = asked.reg
      /\ ~asked'.disturbed => ~asked.disturbed /\ ~Reg!Disturbs(a)
  <2>1. Reg!Disturbs(a) \in BOOLEAN
    BY DEF Reg!Disturbs
  <2> QED
    BY <1>1, <1>5, <2>1
<1>7. actor'["tick"].todo # <<>> /\ actor'["tick"].kind = "due" => due' = {}
  BY <1>1, <1>3, <1>5
<1>8. RegTypes'
  BY <1>1, <1>3, <1>4, <1>5, <1>6, <1>7, RegStepTypes
<1> QED
  BY <1>1, <1>2, <1>3, <1>6, <1>8 DEF Reg!Disturbs

\* An operation of the tick, before it starts.
LEMMA RegTickAsks ==
    ASSUME RegTypes
    PROVE  /\ [Reg!Idle EXCEPT !.kind = "due"] \in RegOp
           /\ [Reg!Idle EXCEPT !.kind = "due"].kind = "due"
           /\ [Reg!Idle EXCEPT !.kind = "due"].step = "read"
           /\ \A p \in Projects : /\ [Reg!Idle EXCEPT !.kind = "mark", !.p = p] \in RegOp
                                  /\ [Reg!Idle EXCEPT !.kind = "mark", !.p = p].kind = "mark"
                                  /\ [Reg!Idle EXCEPT !.kind = "mark", !.p = p].p = p
                                  /\ [Reg!Idle EXCEPT !.kind = "mark", !.p = p].step = "read"
<1>1. Reg!Idle \in RegOp /\ Reg!Idle.step = "read"
  BY RegIdles
<1>2. "due" \in RegKinds /\ "mark" \in RegKinds
  BY DEF RegKinds
<1> QED
  BY <1>1, <1>2 DEF RegOp

\* What a request, the tick, the clock and a crash do.
LEMMA RegRequests ==
    ASSUME RegTypes, NEW a \in Reg!Actors \ {"tick"}, Reg!Request(a)
    PROVE  /\ RegTypes'
           /\ \E m \in RegOp : /\ m.step = "read" /\ m.kind \notin {"due", "mark"}
                               /\ m.todo = Reg!Phases(m.kind) /\ m.todo # <<>> /\ m.kind \in RegKinds
                               /\ actor' = [actor EXCEPT ![a] = m]
           /\ asked'.reg = asked.reg
           /\ ~asked'.disturbed => ~asked.disturbed /\ \A b \in Reg!Actors : ~Reg!Busy(b)
<1>1. PICK k \in (IF a = "loop" THEN Reg!LoopKinds ELSE Reg!WorkerKinds), p \in Projects,
           w \in Workspaces :
        Reg!Starts(a, [Reg!Idle EXCEPT !.kind = k, !.p = p, !.w = w])
  BY DEF Reg!Request
<1>2. /\ reg' = reg /\ groups' = groups /\ regTorn' = regTorn /\ groupsTorn' = groupsTorn
      /\ due' = due /\ hour' = hour /\ fires' = fires
  BY DEF Reg!Request, Reg!files
<1>3. /\ k \in RegKinds /\ k \notin {"due", "mark"}
      /\ a # "loop" => k \in Reg!WorkerKinds \cup {"due", "mark"}
  BY <1>1 DEF Reg!LoopKinds, Reg!WorkerKinds, RegKinds
<1> DEFINE o == [Reg!Idle EXCEPT !.kind = k, !.p = p, !.w = w]
<1>4. o \in RegOp /\ o.kind = k /\ o.p = p /\ o.w = w /\ o.step = "read"
  <2>1. Reg!Idle \in RegOp /\ Reg!Idle.step = "read"
    BY RegIdles
  <2> QED
    BY <1>3, <2>1 DEF RegOp
<1>5. Reg!Starts(a, o)
  BY <1>1
<1> HIDE DEF o
<1>6. due \subseteq Projects
  BY DEF RegTypes
<1>7. /\ RegTypes'
      /\ \E m \in RegOp : /\ m.kind = k /\ m.p = o.p /\ m.w = o.w /\ m.step = "read"
                          /\ m.todo = Reg!Phases(k) /\ m.todo # <<>>
                          /\ actor' = [actor EXCEPT ![a] = m]
      /\ ~Reg!Busy(a)
      /\ asked'.reg = asked.reg
      /\ ~asked'.disturbed => ~asked.disturbed /\ \A b \in Reg!Actors \ {a} : ~Reg!Busy(b)
  BY <1>1, <1>2, <1>3, <1>4, <1>5, <1>6, RegStarts
<1> QED
  BY <1>3, <1>7

LEMMA RegTicks ==
    ASSUME RegTypes, Reg!Tick
    PROVE  /\ RegTypes' /\ "tick" \in Reg!Actors
           /\ \E m \in RegOp : /\ m.step = "read" /\ m.kind \in {"due", "mark"}
                               /\ m.todo = Reg!Phases(m.kind) /\ m.todo # <<>>
                               /\ actor' = [actor EXCEPT !["tick"] = m]
                               /\ IF m.kind = "due" THEN due = {} /\ due' = {}
                                  ELSE due' = due \ {m.p}
           /\ ~Reg!Busy("tick")
           /\ asked'.reg = asked.reg
           /\ ~asked'.disturbed => ~asked.disturbed /\ \A b \in Reg!Actors : ~Reg!Busy(b)
<1>1. /\ reg' = reg /\ groups' = groups /\ regTorn' = regTorn /\ groupsTorn' = groupsTorn
      /\ hour' = hour /\ fires' = fires
  BY DEF Reg!Tick, Reg!TickLooks, Reg!Marks, Reg!files
<1>2. /\ "tick" \in Reg!Actors /\ due \subseteq Projects /\ "due" \in RegKinds /\ "mark" \in RegKinds
      /\ "tick" # "loop"
  BY DEF RegTypes, Reg!Actors, RegKinds
<1>3. CASE Reg!TickLooks
  <2> DEFINE o == [Reg!Idle EXCEPT !.kind = "due"]
  <2>1. due = {} /\ due' = {} /\ Reg!Starts("tick", o)
    BY <1>3 DEF Reg!TickLooks
  <2>2. o \in RegOp /\ o.kind = "due" /\ o.step = "read"
    BY RegTickAsks
  <2> HIDE DEF o
  <2>3. /\ RegTypes'
        /\ \E m \in RegOp : /\ m.kind = "due" /\ m.p = o.p /\ m.w = o.w /\ m.step = "read"
                            /\ m.todo = Reg!Phases("due") /\ m.todo # <<>>
                            /\ actor' = [actor EXCEPT !["tick"] = m]
        /\ ~Reg!Busy("tick")
        /\ asked'.reg = asked.reg
        /\ ~asked'.disturbed => ~asked.disturbed /\ \A b \in Reg!Actors \ {"tick"} : ~Reg!Busy(b)
    BY <1>1, <1>2, <2>1, <2>2, RegStarts
  <2> QED
    BY <1>2, <2>1, <2>3
<1>4. ASSUME NEW p \in Projects, Reg!Marks(p)
      PROVE  /\ RegTypes'
             /\ \E m \in RegOp : /\ m.step = "read" /\ m.kind = "mark"
                                 /\ m.todo = Reg!Phases(m.kind) /\ m.todo # <<>>
                                 /\ actor' = [actor EXCEPT !["tick"] = m]
                                 /\ due' = due \ {m.p}
             /\ ~Reg!Busy("tick")
             /\ asked'.reg = asked.reg
             /\ ~asked'.disturbed => ~asked.disturbed /\ \A b \in Reg!Actors : ~Reg!Busy(b)
  <2> DEFINE o == [Reg!Idle EXCEPT !.kind = "mark", !.p = p]
  <2>1. due' = due \ {p} /\ Reg!Starts("tick", o)
    BY <1>4 DEF Reg!Marks
  <2>2. o \in RegOp /\ o.kind = "mark" /\ o.p = p /\ o.step = "read"
    BY RegTickAsks
  <2> HIDE DEF o
  <2>3. /\ RegTypes'
        /\ \E m \in RegOp : /\ m.kind = "mark" /\ m.p = o.p /\ m.w = o.w /\ m.step = "read"
                            /\ m.todo = Reg!Phases("mark") /\ m.todo # <<>>
                            /\ actor' = [actor EXCEPT !["tick"] = m]
        /\ ~Reg!Busy("tick")
        /\ asked'.reg = asked.reg
        /\ ~asked'.disturbed => ~asked.disturbed /\ \A b \in Reg!Actors \ {"tick"} : ~Reg!Busy(b)
    BY <1>1, <1>2, <2>1, <2>2, RegStarts
  <2> QED
    BY <1>2, <2>1, <2>2, <2>3
<1> QED
  BY <1>2, <1>3, <1>4 DEF Reg!Tick

\* An hour later, what was a time in the past still is.
LEMMA RegHourTypes ==
    ASSUME RegTypes, Reg!HourPasses
    PROVE  RegTypes'
<1>1. /\ hour \in Nat \ {0} /\ hour' = hour + 1 /\ hour' \in Reg!Hours /\ hour' \in Nat \ {0}
      /\ ~Reg!Busy("tick") /\ due = {}
      /\ UNCHANGED <<reg, groups, regTorn, groupsTorn, actor, due, asked, fires>>
  BY ServerAssumption DEF Reg!HourPasses, Reg!files, RegTypes, Reg!Hours, Reg!RegistryAssumption
<1>2. RegPolicy \subseteq RegPolicy'
  BY <1>1 DEF RegPolicy
<1>3. RegEntry \subseteq RegEntry'
  BY <1>2 DEF RegEntry
<1>4. RegFiles \subseteq RegFiles'
  <2> SUFFICES ASSUME NEW f \in RegFiles
               PROVE  f \in RegFiles'
    OBVIOUS
  <2>1. PICK D \in SUBSET Projects : f \in [D -> RegEntry]
    BY DEF RegFiles
  <2>2. f \in [D -> RegEntry']
    BY <1>3, <2>1
  <2> QED
    BY <2>2 DEF RegFiles
<1>5. RegOp \subseteq RegOp'
  BY <1>2, <1>4 DEF RegOp
<1>6. actor' \in [Reg!Actors -> RegOp']
  BY <1>1, <1>5 DEF RegTypes
<1>7. asked' \in [reg : RegFiles', disturbed : BOOLEAN] /\ reg' \in RegFiles'
  BY <1>1, <1>4 DEF RegTypes
<1>8. \A a \in Reg!Actors : Reg!Busy(a)' <=> Reg!Busy(a)
  BY <1>1 DEF Reg!Busy
<1> QED
  BY <1>1, <1>6, <1>7, <1>8 DEF RegTypes

\* A crash ends what every actor was in.
LEMMA RegCrashTypes ==
    ASSUME RegTypes, Reg!Crash
    PROVE  /\ RegTypes' /\ \A a \in Reg!Actors : ~Reg!Busy(a)'
           /\ due' = {} /\ UNCHANGED <<reg, groups, regTorn, groupsTorn, hour, fires>>
           /\ asked'.reg = asked.reg
           /\ ~asked'.disturbed => ~asked.disturbed /\ due = {} /\ \A a \in Reg!Actors : ~Reg!Busy(a)
<1> DEFINE cut == due # {} \/ \E a \in Reg!Actors : Reg!Busy(a)
<1>1. /\ UNCHANGED <<reg, groups, regTorn, groupsTorn, hour, fires>> /\ due' = {}
      /\ actor' = [a \in Reg!Actors |-> Reg!Idle]
      /\ asked' = [asked EXCEPT !.disturbed = asked.disturbed \/ cut]
  BY DEF Reg!Crash, Reg!files
<1>2. /\ Reg!Idle \in RegOp /\ RegStands(Reg!Idle) /\ Reg!Idle.todo = <<>>
  BY RegIdles
<1>3. RegFiles' = RegFiles /\ RegOp' = RegOp
  BY <1>1 DEF RegFiles, RegOp, RegEntry, RegPolicy
<1>4. /\ actor' \in [Reg!Actors -> RegOp'] /\ \A a \in Reg!Actors : actor'[a] = Reg!Idle
      /\ \A a \in Reg!Actors : ~Reg!Busy(a)'
  BY <1>1, <1>2, <1>3 DEF Reg!Busy
<1>5. cut \in BOOLEAN
  OBVIOUS
<1>6. asked \in [reg : RegFiles, disturbed : BOOLEAN]
  BY DEF RegTypes
<1>7. /\ asked' \in [reg : RegFiles', disturbed : BOOLEAN] /\ asked'.reg = asked.reg
      /\ ~asked'.disturbed => ~asked.disturbed /\ ~cut
  <2> HIDE DEF cut
  <2> QED
    BY <1>1, <1>3, <1>5, <1>6
<1>8. "tick" \in Reg!Actors
  BY DEF Reg!Actors
<1>9. RegTypes'
  BY <1>1, <1>2, <1>3, <1>4, <1>7, <1>8 DEF RegTypes
<1> QED
  BY <1>1, <1>4, <1>7, <1>9

\* What becomes of an entry: only the one asked for changes, and of its policy the time of the
\* last maintenance run only by a mark.
LEMMA RegChanges ==
    ASSUME RegTypes, NEW o \in RegOp, NEW f \in RegFiles, o.p \in Projects, Reg!Applies(o, f),
           o.kind \in {"register", "archive", "policy", "maintain", "mark", "delete"},
           o.kind \in {"policy", "maintain", "mark"} => o.policy = f[o.p].policy
    PROVE  /\ \A q \in DOMAIN f \ {o.p} : /\ q \in DOMAIN Reg!Registered(o, f)
                                          /\ Reg!Registered(o, f)[q] = f[q]
           /\ o.kind \notin {"register", "delete"} =>
                 /\ o.p \in DOMAIN Reg!Registered(o, f)
                 /\ Reg!Registered(o, f)[o.p].policy.last =
                       IF o.kind = "mark" THEN hour ELSE f[o.p].policy.last
<1>1. PICK D \in SUBSET Projects : f \in [D -> RegEntry]
  BY DEF RegFiles
<1>2. DOMAIN f = D /\ (o.kind # "register" => o.p \in D) /\ (o.kind = "register" => o.p \notin D)
  BY <1>1 DEF Reg!Applies
<1>3. CASE o.kind = "register"
  <2>1. Reg!Registered(o, f) = [p \in D \cup {o.p} |-> IF p = o.p THEN Reg!NewEntry ELSE f[p]]
    BY <1>2, <1>3 DEF Reg!Registered
  <2> QED
    BY <1>2, <1>3, <2>1
<1>4. CASE o.kind = "delete"
  <2>1. Reg!Registered(o, f) = [p \in D \ {o.p} |-> f[p]]
    BY <1>2, <1>4 DEF Reg!Registered, Reg!Restrict
  <2> QED
    BY <1>2, <1>4, <2>1
<1>5. CASE o.kind \in {"archive", "policy", "maintain", "mark"}
  <2> DEFINE e == f[o.p]
             q == CASE o.kind = "policy" -> [o.policy EXCEPT !.budget = TRUE]
                    [] o.kind = "maintain" -> [o.policy EXCEPT !.on = TRUE]
                    [] o.kind = "mark" -> [o.policy EXCEPT !.last = hour]
             r == IF o.kind = "archive" THEN [e EXCEPT !.archived = ~e.archived]
                  ELSE [e EXCEPT !.policy = q]
  <2>1. Reg!Registered(o, f) = [f EXCEPT ![o.p] = r]
    <3>1. CASE o.kind = "archive"
      BY <3>1 DEF Reg!Registered
    <3>2. CASE o.kind = "policy"
      BY <3>2 DEF Reg!Registered
    <3>3. CASE o.kind = "maintain"
      BY <3>3 DEF Reg!Registered
    <3>4. CASE o.kind = "mark"
      BY <3>4 DEF Reg!Registered, Reg!Marked
    <3> QED
      BY <1>5, <3>1, <3>2, <3>3, <3>4
  <2>2. e \in RegEntry /\ o.p \in D /\ o.policy \in RegPolicy
    BY <1>1, <1>2, <1>5 DEF RegOp
  <2>3. r.policy.last = IF o.kind = "mark" THEN hour ELSE e.policy.last
    <3>1. CASE o.kind = "archive"
      BY <2>2, <3>1 DEF RegEntry
    <3>2. CASE o.kind = "policy"
      BY <2>2, <3>2 DEF RegEntry, RegPolicy
    <3>3. CASE o.kind = "maintain"
      BY <2>2, <3>3 DEF RegEntry, RegPolicy
    <3>4. CASE o.kind = "mark"
      BY <2>2, <3>4 DEF RegEntry, RegPolicy
    <3> QED
      BY <1>5, <3>1, <3>2, <3>3, <3>4
  <2> HIDE DEF r
  <2>4. Reg!Registered(o, f)[o.p] = r /\ DOMAIN Reg!Registered(o, f) = D
    BY <1>1, <2>1, <2>2
  <2>5. \A p \in D \ {o.p} : Reg!Registered(o, f)[p] = f[p]
    BY <1>1, <2>1, <2>2
  <2> QED
    BY <1>2, <1>5, <2>2, <2>3, <2>4, <2>5
<1> QED
  BY <1>3, <1>4, <1>5

\* What an operation is asked for is what it makes of the registry it read, when no other
\* came between its look and its reading.
LEMMA RegAsAsked ==
    ASSUME NEW o \in RegOp, NEW f,
           o.kind \in {"register", "archive", "policy", "maintain", "mark", "delete"},
           o.kind \in {"policy", "maintain", "mark"} => o.p \in DOMAIN f /\ o.policy = f[o.p].policy,
           NEW b, b = IF o.p \in DOMAIN f THEN f[o.p].policy ELSE o.policy
    PROVE  Reg!Registered([o EXCEPT !.policy = b], f) = Reg!Registered(o, f)
<1> DEFINE m == [o EXCEPT !.policy = b]
<1>1. m.kind = o.kind /\ m.p = o.p /\ m.policy = b
  BY DEF RegOp
<1> HIDE DEF m
<1>2. CASE o.kind \in {"policy", "maintain", "mark"}
  <2>1. b = o.policy
    BY <1>2
  <2> QED
    BY <1>1, <1>2, <2>1 DEF Reg!Registered, m
<1>3. CASE o.kind = "register"
  BY <1>1, <1>3 DEF Reg!Registered, m
<1>4. CASE o.kind = "archive"
  BY <1>1, <1>4 DEF Reg!Registered, m
<1>5. CASE o.kind = "delete"
  BY <1>1, <1>5 DEF Reg!Registered, m
<1> QED
  BY <1>2, <1>3, <1>4, <1>5

\* While nothing was disturbed, whatever is busy is busy alone.
LEMMA RegAlone ==
    ASSUME RegTypes, OneAtATime, NEW a \in Reg!Actors, \A b \in Reg!Actors \ {a} : ~Reg!Busy(b),
           NEW o, actor' = [actor EXCEPT ![a] = o]
    PROVE  /\ actor'[a] = o /\ \A b \in Reg!Actors \ {a} : actor'[b] = actor[b] /\ ~Reg!Busy(b)'
           /\ \A b, c \in Reg!Actors : Reg!Busy(b)' /\ Reg!Busy(c)' => b = c
           /\ \A b \in Reg!Actors \ {a} : HasRead(b)'
           /\ Reg!Busy(a)' <=> o.todo # <<>>
           /\ Reg!Phase(a)' = Head(o.todo)
           /\ \A p \in Projects : Marking(p)' <=>
                 IF a = "tick" THEN o.todo # <<>> /\ o.kind = "mark" /\ o.p = p ELSE FALSE
           /\ a # "tick" => \A p \in Projects : ~Marking(p)
<1>1. /\ actor \in [Reg!Actors -> RegOp] /\ "tick" \in Reg!Actors
  BY DEF RegTypes, Reg!Actors
<1>2. actor'[a] = o /\ \A b \in Reg!Actors \ {a} : actor'[b] = actor[b]
  BY <1>1
<1>3. \A b \in Reg!Actors \ {a} : ~Reg!Busy(b)'
  BY <1>2 DEF Reg!Busy
<1>4. /\ Reg!Busy(a)' <=> o.todo # <<>>
      /\ Reg!Phase(a)' = Head(o.todo)
  BY <1>2 DEF Reg!Busy, Reg!Phase
<1>5. \A b, c \in Reg!Actors : Reg!Busy(b)' /\ Reg!Busy(c)' => b = c
  BY <1>3
<1>6. \A b \in Reg!Actors \ {a} : HasRead(b)'
  BY <1>3 DEF HasRead
<1>7. \A p \in Projects : Marking(p)' <=>
         IF a = "tick" THEN o.todo # <<>> /\ o.kind = "mark" /\ o.p = p ELSE FALSE
  BY <1>1, <1>2, <1>3, <1>4 DEF Marking
<1>8. a # "tick" => \A p \in Projects : ~Marking(p)
  BY <1>1 DEF Marking
<1> QED
  BY <1>2, <1>3, <1>4, <1>5, <1>6, <1>7, <1>8

\* An operation that starts while none is under way has read nothing yet.
LEMMA RegStartsAlone ==
    ASSUME RegTypes, Undisturbed, NEW a \in Reg!Actors, \A b \in Reg!Actors : ~Reg!Busy(b),
           NEW m \in RegOp, m.step = "read", m.kind \in RegKinds, m.todo = Reg!Phases(m.kind),
           m.todo # <<>>, actor' = [actor EXCEPT ![a] = m], asked'.reg = asked.reg,
           UNCHANGED <<reg, groups, regTorn, groupsTorn>>
    PROVE  OneAtATime' /\ \A b \in Reg!Actors : HasRead(b)'
<1>1. OneAtATime /\ \A b \in Reg!Actors : HasRead(b)
  BY DEF Undisturbed
<1>2. /\ actor'[a] = m /\ \A b \in Reg!Actors \ {a} : HasRead(b)'
      /\ \A b, c \in Reg!Actors : Reg!Busy(b)' /\ Reg!Busy(c)' => b = c
      /\ Reg!Phase(a)' = Head(m.todo)
  BY <1>1, RegAlone
<1>3. ~regTorn /\ ~groupsTorn /\ reg = asked.reg
      /\ \A w \in Workspaces : groups[w].members \subseteq DOMAIN reg
  BY <1>1 DEF OneAtATime
<1>4. m.kind \in {"policy", "maintain", "mark", "delete", "assign"} => Head(m.todo) = "look"
  BY RegTuples DEF Reg!Phases, Reg!DeletePhases
<1>5. HasRead(a)'
  BY <1>2, <1>4 DEF HasRead, Writes
<1>6. OneAtATime'
  BY <1>2, <1>3 DEF OneAtATime
<1> QED
  BY <1>2, <1>5, <1>6

\* A look at the registry, while nothing was disturbed: what fires was not marked in this
\* window, and what is taken along is what the registry holds.
LEMMA RegLooksAlone ==
    ASSUME RegTypes, Undisturbed, NEW a \in Reg!Actors, Reg!Busy(a), ~regTorn, ~groupsTorn,
           Reg!Phase(a) \in {"look", "reg"}, Reg!LooksUp(a, reg),
           UNCHANGED <<reg, groups, regTorn, groupsTorn, hour, asked>>
    PROVE  Undisturbed'
<1> DEFINE n == actor[a]
<1>1. /\ n \in RegOp /\ RegStands(n) /\ n.todo # <<>> /\ n.kind \in RegKinds
      /\ Reg!Phase(a) = Head(n.todo)
      /\ a = "tick" <=> n.kind \in {"due", "mark"}
      /\ n.kind = "due" => Reg!Phase(a) = "look"
      /\ Reg!Phase(a) = "reg" =>
            n.kind \in {"register", "archive", "policy", "maintain", "mark", "delete"}
      /\ n.kind # "due" => n.p \in Projects
  BY RegBusy DEF RegStands
<1>2. /\ OneAtATime /\ FiredMarked /\ HasRead(a)
      /\ \A b \in Reg!Actors \ {a} : ~Reg!Busy(b)
      /\ reg = asked.reg /\ \A w \in Workspaces : groups[w].members \subseteq DOMAIN reg
  BY DEF Undisturbed, OneAtATime
<1>3. /\ Reg!Idle.todo = <<>> /\ Reg!Idle.kind = "none"
      /\ fires \in [Projects -> [Reg!Hours -> Nat]] /\ hour \in Nat \ {0} /\ hour \in Reg!Hours
      /\ reg \in RegFiles /\ "tick" \in Reg!Actors
      /\ a = "tick" /\ n.kind = "due" => due = {}
  BY RegIdles DEF RegTypes, Reg!Actors
\* Whatever becomes of the operation.
<1>4. ASSUME NEW o, actor' = [actor EXCEPT ![a] = o], o.todo # <<>> => HasRead(a)'
      PROVE  /\ OneAtATime' /\ \A b \in Reg!Actors : HasRead(b)'
             /\ \A p \in Projects : Marking(p)' <=>
                   IF a = "tick" THEN o.todo # <<>> /\ o.kind = "mark" /\ o.p = p ELSE FALSE
             /\ a # "tick" => \A p \in Projects : ~Marking(p)
  <2>1. /\ \A b \in Reg!Actors \ {a} : HasRead(b)'
        /\ \A b, c \in Reg!Actors : Reg!Busy(b)' /\ Reg!Busy(c)' => b = c
        /\ Reg!Busy(a)' <=> o.todo # <<>>
        /\ \A p \in Projects : Marking(p)' <=>
              IF a = "tick" THEN o.todo # <<>> /\ o.kind = "mark" /\ o.p = p ELSE FALSE
        /\ a # "tick" => \A p \in Projects : ~Marking(p)
    BY <1>2, <1>4, RegAlone
  <2>2. OneAtATime'
    BY <1>2, <2>1 DEF OneAtATime
  <2>3. HasRead(a)'
    BY <1>4, <2>1 DEF HasRead
  <2> QED
    BY <2>1, <2>2, <2>3
<1>5. /\ \A p \in Projects, h \in Reg!Hours : fires[p][h] <= 1 /\ (h > hour => fires[p][h] = 0)
      /\ \A p \in Projects : fires[p][hour] # 0 =>
            p \in DOMAIN reg /\ (reg[p].policy.last = hour \/ p \in due \/ Marking(p))
  BY <1>2 DEF FiredMarked
<1>6. CASE n.kind = "due"
  <2>1. /\ actor' = [actor EXCEPT ![a] = Reg!Idle] /\ due' = Reg!Due(reg)
        /\ fires' = [p \in Projects |->
                       [fires[p] EXCEPT ![hour] = @ + (IF p \in Reg!Due(reg) THEN 1 ELSE 0)]]
    BY <1>6 DEF Reg!LooksUp, Reg!Set
  <2>2. OneAtATime' /\ \A b \in Reg!Actors : HasRead(b)'
    BY <1>3, <1>4, <2>1
  <2>3. \A p \in Projects : ~Marking(p)
    BY <1>1, <1>6 DEF Marking
  <2>4. due = {}
    BY <1>1, <1>3, <1>6
  <2>5. ASSUME NEW p \in Reg!Due(reg)
        PROVE  p \in DOMAIN reg /\ p \in Projects /\ reg[p].policy.last # hour /\ fires[p][hour] = 0
    <3>1. /\ p \in DOMAIN reg /\ reg[p].policy.last \in 0..hour
          /\ reg[p].policy.last = 0 \/ reg[p].policy.last + 1 <= hour
      BY <1>3, <2>5 DEF Reg!Due, Reg!Elapsed, RegFiles, RegEntry, RegPolicy
    <3>2. p \in Projects
      BY <1>3, <3>1 DEF RegFiles
    <3>3. reg[p].policy.last # hour
      BY <1>3, <3>1
    <3>4. fires[p][hour] = 0
      BY <1>3, <1>5, <2>3, <2>4, <3>2, <3>3
    <3> QED
      BY <3>1, <3>2, <3>3, <3>4
  <2>6. ASSUME NEW p \in Projects
        PROVE  /\ p \in Reg!Due(reg) => fires'[p][hour] = 1
               /\ p \notin Reg!Due(reg) => fires'[p][hour] = fires[p][hour]
               /\ \A h \in Reg!Hours \ {hour} : fires'[p][h] = fires[p][h]
    <3>1. fires[p] \in [Reg!Hours -> Nat]
      BY <1>3
    <3>2. fires'[p] = [fires[p] EXCEPT ![hour] = @ + (IF p \in Reg!Due(reg) THEN 1 ELSE 0)]
      BY <2>1
    <3>3. p \in Reg!Due(reg) => fires'[p] = [fires[p] EXCEPT ![hour] = fires[p][hour] + 1]
      BY <3>2
    <3>4. p \notin Reg!Due(reg) => fires'[p] = [fires[p] EXCEPT ![hour] = fires[p][hour] + 0]
      BY <3>2
    <3>5. fires[p][hour] \in Nat /\ fires[p][hour] + 0 = fires[p][hour]
      BY <1>3, <3>1
    <3>6. p \in Reg!Due(reg) => fires[p][hour] + 1 = 1
      BY <2>5
    <3> QED
      BY <1>3, <3>1, <3>3, <3>4, <3>5, <3>6
  <2>7. \A p \in Projects, h \in Reg!Hours : fires'[p][h] <= 1 /\ (h > hour => fires'[p][h] = 0)
    <3> TAKE p \in Projects, h \in Reg!Hours
    <3>1. CASE h = hour
      BY <1>3, <1>5, <2>6, <3>1
    <3>2. CASE h # hour
      BY <1>5, <2>6, <3>2
    <3> QED
      BY <3>1, <3>2
  <2>8. \A p \in Projects : fires'[p][hour] # 0 => p \in DOMAIN reg /\ (reg[p].policy.last = hour \/ p \in due')
    BY <1>5, <2>1, <2>3, <2>4, <2>5, <2>6
  <2>9. FiredMarked'
    BY <2>7, <2>8 DEF FiredMarked, Reg!Hours
  <2> QED
    BY <2>2, <2>9 DEF Undisturbed, Reg!Actors
<1>7. CASE n.kind # "due"
  <2>1. /\ Reg!Set(a, CASE Reg!Phase(a) = "look" /\ n.p \in DOMAIN reg ->
                             Reg!Rest([n EXCEPT !.policy = reg[n.p].policy])
                        [] Reg!Phase(a) = "reg" /\ Reg!Applies(n, reg) ->
                             [n EXCEPT !.entries = reg, !.step = "truncate"]
                        [] OTHER -> Reg!Idle)
        /\ due' = due /\ fires' = fires
    BY <1>7 DEF Reg!LooksUp
\* The mark of what fired goes on.
  <2>2. ASSUME NEW o, actor' = [actor EXCEPT ![a] = o], o.todo # <<>> => HasRead(a)',
               n.kind = "mark" /\ n.p \in DOMAIN reg => o.todo # <<>> /\ o.kind = "mark" /\ o.p = n.p
        PROVE  Undisturbed'
    <3>1. OneAtATime' /\ \A b \in Reg!Actors : HasRead(b)'
      BY <1>4, <2>2
    <3>2. \A p \in Projects : Marking(p) /\ p \in DOMAIN reg => Marking(p)'
      <4> TAKE p \in Projects
      <4> SUFFICES ASSUME Marking(p), p \in DOMAIN reg
                   PROVE  Marking(p)'
        OBVIOUS
      <4>1. a = "tick"
        BY <1>4, <2>2
      <4>2. n.kind = "mark" /\ n.p = p
        BY <4>1 DEF Marking
      <4> QED
        BY <1>4, <2>2, <4>1, <4>2
    <3>3. FiredMarked'
      BY <1>5, <2>1, <3>2 DEF FiredMarked, Reg!Hours
    <3> QED
      BY <3>1, <3>3 DEF Undisturbed, Reg!Actors
  <2>3. CASE Reg!Phase(a) = "look" /\ n.p \in DOMAIN reg
    <3> DEFINE m == [n EXCEPT !.policy = reg[n.p].policy]
               o == Reg!Rest(m)
    <3>1. reg[n.p].policy \in RegPolicy
      BY <1>3, <2>3 DEF RegFiles, RegEntry
    <3>2. /\ m \in RegOp /\ m.todo = n.todo /\ m.kind = n.kind /\ m.p = n.p /\ m.w = n.w
          /\ m.step = n.step /\ m.entries = n.entries /\ m.copy = n.copy
          /\ m.policy = reg[n.p].policy
      BY <1>1, <3>1 DEF RegOp
    <3>3. actor' = [actor EXCEPT ![a] = o]
      BY <2>1, <2>3 DEF Reg!Set
    <3> HIDE DEF m
    <3>4. RegStands(m)
      BY <1>1, <3>2 DEF RegStands, Writes, Reg!Applies
    <3>5. /\ o \in RegOp /\ o.step = "read"
          /\ o.todo # <<>> =>
                /\ o.kind = n.kind /\ o.p = n.p /\ o.w = n.w /\ o.policy = reg[n.p].policy
                /\ Head(o.todo) = "reg" => o.kind # "delete"
      BY <1>1, <2>3, <3>2, <3>4, RegRest
    <3>6. n.kind = "mark" => o.todo # <<>>
      <4> SUFFICES ASSUME n.kind = "mark"
                   PROVE  o.todo # <<>>
        OBVIOUS
      <4>1. m.todo = <<"look", "reg">>
        <5>1. m.todo \in {<<"look", "reg">>, <<"reg">>}
          BY <1>1, <3>2 DEF RegStands, RegLeft
        <5> QED
          BY <1>1, <2>3, <3>2, <5>1, RegTuples
      <4>2. o = [m EXCEPT !.todo = Tail(m.todo), !.step = "read"]
        BY <4>1, RegTuples DEF Reg!Rest
      <4>3. o.todo = <<"reg">>
        BY <3>2, <4>1, <4>2, RegTuples DEF RegOp
      <4> QED
        BY <4>3
    <3> HIDE DEF o
    <3>7. o.todo # <<>> => HasRead(a)'
      <4>1. actor'[a] = o /\ Reg!Phase(a)' = Head(o.todo)
        BY <1>2, <3>3, RegAlone
      <4> QED
        BY <2>3, <3>5, <4>1 DEF HasRead, Writes
    <3> QED
      BY <1>1, <2>2, <3>3, <3>5, <3>6, <3>7
  <2>4. CASE Reg!Phase(a) = "reg" /\ Reg!Applies(n, reg)
    <3> DEFINE m == [n EXCEPT !.entries = reg, !.step = "truncate"]
    <3>1. /\ m.todo = n.todo /\ m.kind = n.kind /\ m.p = n.p /\ m.w = n.w
          /\ m.step = "truncate" /\ m.entries = reg /\ m.policy = n.policy
      BY <1>1, <1>3 DEF RegOp
    <3>2. actor' = [actor EXCEPT ![a] = m]
      BY <2>1, <2>4 DEF Reg!Set
    <3> HIDE DEF m
    <3>3. HasRead(a)'
      <4>1. actor'[a] = m /\ Reg!Phase(a)' = Head(m.todo)
        BY <1>2, <3>2, RegAlone
      <4>2. Reg!Phase(a)' = "reg"
        BY <1>1, <2>4, <3>1, <4>1
      <4> QED
        BY <1>2, <2>4, <3>1, <4>1, <4>2 DEF HasRead
    <3> QED
      BY <1>1, <2>2, <3>1, <3>2, <3>3
  <2>5. CASE ~(Reg!Phase(a) = "look" /\ n.p \in DOMAIN reg)
             /\ ~(Reg!Phase(a) = "reg" /\ Reg!Applies(n, reg))
    <3>1. actor' = [actor EXCEPT ![a] = Reg!Idle]
      BY <2>1, <2>5 DEF Reg!Set
    <3>2. ~(n.kind = "mark" /\ n.p \in DOMAIN reg)
      BY <2>5 DEF Reg!Applies
    <3> QED
      BY <1>3, <2>2, <3>1, <3>2
  <2> QED
    BY <2>3, <2>4, <2>5
<1> QED
  BY <1>6, <1>7

\* The registry is filled with what was asked for.
LEMMA RegFillsAlone ==
    ASSUME RegTypes, Undisturbed, ~asked.disturbed, NEW a \in Reg!Actors, Reg!FillsRegistry(a)
    PROVE  Undisturbed'
<1> DEFINE n == actor[a]
           b == IF n.p \in DOMAIN reg THEN reg[n.p].policy ELSE n.policy
<1>1. /\ Reg!Busy(a) /\ Reg!Phase(a) = "reg" /\ n.step = "fill"
      /\ reg' = Reg!Registered(n, n.entries) /\ regTorn' = FALSE
      /\ fires' = IF n.kind = "delete" THEN [fires EXCEPT ![n.p] = [h \in Reg!Hours |-> 0]]
                  ELSE fires
      /\ actor' = [actor EXCEPT ![a] = Reg!Idle]
      /\ UNCHANGED <<groups, groupsTorn, due, hour>>
  BY DEF Reg!FillsRegistry, Reg!Set
<1>2. /\ n \in RegOp /\ RegStands(n) /\ n.todo # <<>> /\ Reg!Phase(a) = Head(n.todo)
      /\ a = "tick" <=> n.kind \in {"due", "mark"}
      /\ n.kind \in {"register", "archive", "policy", "maintain", "mark", "delete"}
  BY <1>1, RegBusy
<1>3. n.p \in Projects /\ Reg!Applies(n, n.entries)
  BY <1>1, <1>2 DEF RegStands, Writes
<1>4. /\ OneAtATime /\ FiredMarked /\ HasRead(a)
      /\ \A c \in Reg!Actors \ {a} : ~Reg!Busy(c)
      /\ reg = asked.reg /\ \A w \in Workspaces : groups[w].members \subseteq DOMAIN reg
      /\ ~groupsTorn
  BY <1>1 DEF Undisturbed, OneAtATime
<1>5. /\ n.entries = reg
      /\ n.kind \in {"policy", "maintain", "mark"} => n.p \in DOMAIN reg /\ n.policy = reg[n.p].policy
      /\ n.kind = "delete" => \A w \in Workspaces : n.p \notin groups[w].members
  BY <1>1, <1>4 DEF HasRead, Writes
<1>6. /\ reg \in RegFiles /\ asked \in [reg : RegFiles, disturbed : BOOLEAN]
      /\ fires \in [Projects -> [Reg!Hours -> Nat]] /\ hour \in Nat \ {0} /\ hour \in Reg!Hours
      /\ Reg!Idle.todo = <<>> /\ Reg!Idle.kind = "none"
  BY RegIdles DEF RegTypes
<1>7. asked'.reg = reg'
  <2>1. asked' = [asked EXCEPT !.reg = Reg!Registered([n EXCEPT !.policy = b], reg)]
    BY <1>4 DEF Reg!FillsRegistry
  <2>2. Reg!Registered([n EXCEPT !.policy = b], reg) = Reg!Registered(n, reg)
    BY <1>2, <1>5, RegAsAsked
  <2> QED
    BY <1>1, <1>5, <1>6, <2>1, <2>2
<1>8. /\ DOMAIN reg' = CASE n.kind = "register" -> DOMAIN reg \cup {n.p}
                         [] n.kind = "delete" -> DOMAIN reg \ {n.p}
                         [] OTHER -> DOMAIN reg
      /\ n.kind = "register" => n.p \notin DOMAIN reg
  BY <1>1, <1>2, <1>3, <1>5, <1>6, RegRegistered DEF Reg!Applies
<1>9. /\ \A q \in DOMAIN reg \ {n.p} : q \in DOMAIN reg' /\ reg'[q] = reg[q]
      /\ n.kind \notin {"register", "delete"} =>
            n.p \in DOMAIN reg' /\ reg'[n.p].policy.last = IF n.kind = "mark" THEN hour
                                                           ELSE reg[n.p].policy.last
  BY <1>1, <1>2, <1>3, <1>5, <1>6, RegChanges
<1>10. /\ \A c \in Reg!Actors \ {a} : HasRead(c)'
       /\ \A c, d \in Reg!Actors : Reg!Busy(c)' /\ Reg!Busy(d)' => c = d
       /\ ~Reg!Busy(a)'
       /\ a # "tick" => \A p \in Projects : ~Marking(p)
  BY <1>1, <1>4, <1>6, RegAlone
<1>11. HasRead(a)'
  BY <1>10 DEF HasRead
<1>12. \A w \in Workspaces : groups[w].members \subseteq DOMAIN reg'
  BY <1>2, <1>4, <1>5, <1>8
<1>13. OneAtATime'
  BY <1>1, <1>4, <1>7, <1>10, <1>12 DEF OneAtATime
<1>14. \A p \in Projects, h \in Reg!Hours : /\ fires'[p][h] <= 1 /\ (h > hour => fires'[p][h] = 0)
                                            /\ fires'[p][h] # 0 => fires[p][h] # 0
                                            /\ fires'[p][h] # 0 => ~(n.kind = "delete" /\ p = n.p)
  <2> TAKE p \in Projects, h \in Reg!Hours
  <2>1. fires[p][h] <= 1 /\ (h > hour => fires[p][h] = 0)
    BY <1>4 DEF FiredMarked
  <2>2. CASE n.kind = "delete" /\ p = n.p
    BY <1>1, <1>3, <1>6, <2>2
  <2>3. CASE ~(n.kind = "delete" /\ p = n.p)
    BY <1>1, <1>3, <1>6, <2>1, <2>3
  <2> QED
    BY <2>2, <2>3
<1>15. ASSUME NEW p \in Projects, fires'[p][hour] # 0
       PROVE  p \in DOMAIN reg' /\ (reg'[p].policy.last = hour \/ p \in due)
  <2>1. fires[p][hour] # 0 /\ ~(n.kind = "delete" /\ p = n.p)
    BY <1>6, <1>14, <1>15
  <2>2. p \in DOMAIN reg /\ (reg[p].policy.last = hour \/ p \in due \/ Marking(p))
    BY <1>4, <2>1 DEF FiredMarked
  <2>3. Marking(p) => n.kind = "mark" /\ n.p = p
    BY <1>10 DEF Marking
  <2>4. CASE p = n.p
    BY <1>2, <1>8, <1>9, <2>1, <2>2, <2>3, <2>4
  <2>5. CASE p # n.p
    BY <1>9, <2>2, <2>3, <2>5
  <2> QED
    BY <2>4, <2>5
<1>16. FiredMarked'
  BY <1>1, <1>14, <1>15 DEF FiredMarked, Reg!Hours
<1> QED
  BY <1>10, <1>11, <1>13, <1>16 DEF Undisturbed, Reg!Actors

\* A step of an actor that is busy alone.
LEMMA RegStepAlone ==
    ASSUME RegTypes, Undisturbed, ~asked.disturbed, NEW a \in Reg!Actors, Reg!Step(a)
    PROVE  Undisturbed'
<1> DEFINE n == actor[a]
<1>1. hour' = hour /\ Reg!Busy(a)
  BY DEF Reg!Step, Reg!Reads, Reg!Heals, Reg!ReadsGroups, Reg!Truncates, Reg!FillsRegistry,
         Reg!FillsGroups
<1>2. /\ n \in RegOp /\ RegStands(n) /\ n.todo # <<>> /\ n.kind \in RegKinds
      /\ Reg!Phase(a) = Head(n.todo)
      /\ a = "tick" <=> n.kind \in {"due", "mark"}
      /\ Reg!Phase(a) \in {"look", "reg", "groups"}
      /\ n.kind = "due" => Reg!Phase(a) = "look"
      /\ Reg!Phase(a) = "groups" => n.kind \in {"assign", "unassign", "delete", "ungroup", "deps"}
  BY <1>1, RegBusy
<1>3. /\ OneAtATime /\ FiredMarked /\ HasRead(a)
      /\ \A c \in Reg!Actors \ {a} : ~Reg!Busy(c)
      /\ reg = asked.reg /\ \A w \in Workspaces : groups[w].members \subseteq DOMAIN reg
      /\ regTorn => Reg!Phase(a) = "reg" /\ n.step = "fill"
      /\ groupsTorn => Reg!Phase(a) = "groups" /\ n.step = "fill"
  BY <1>1 DEF Undisturbed, OneAtATime
<1>4. Reg!Idle.todo = <<>> /\ Reg!Idle.kind = "none"
  BY RegIdles
\* A step that leaves the registry and what fired, and goes on with a mark.
<1>5. ASSUME NEW o, actor' = [actor EXCEPT ![a] = o], o.todo # <<>> => HasRead(a)',
             UNCHANGED <<reg, asked, due, fires>>,
             \A w \in Workspaces : groups'[w].members \subseteq DOMAIN reg,
             n.kind = "mark" => o.todo # <<>> /\ o.kind = "mark" /\ o.p = n.p,
             regTorn' => o.todo # <<>> /\ Head(o.todo) = "reg" /\ o.step = "fill",
             groupsTorn' => o.todo # <<>> /\ Head(o.todo) = "groups" /\ o.step = "fill"
      PROVE  Undisturbed'
  <2>1. /\ \A c \in Reg!Actors \ {a} : HasRead(c)'
        /\ \A c, d \in Reg!Actors : Reg!Busy(c)' /\ Reg!Busy(d)' => c = d
        /\ actor'[a] = o /\ Reg!Phase(a)' = Head(o.todo)
        /\ \A p \in Projects : Marking(p)' <=>
              IF a = "tick" THEN o.todo # <<>> /\ o.kind = "mark" /\ o.p = p ELSE FALSE
        /\ a # "tick" => \A p \in Projects : ~Marking(p)
        /\ Reg!Busy(a)' <=> o.todo # <<>>
    <3>1. OneAtATime /\ \A b \in Reg!Actors \ {a} : ~Reg!Busy(b)
      BY <1>3
    <3>2. actor' = [actor EXCEPT ![a] = o]
      BY <1>5
    <3> QED
      BY <3>1, <3>2, RegAlone
  <2>2. HasRead(a)'
    <3>1. Reg!Busy(a)' <=> o.todo # <<>>
      BY <2>1, Zenon
    <3> QED
      BY <1>5, <3>1 DEF HasRead
  <2>3. Reg!Actors' = Reg!Actors
    BY DEF Reg!Actors
  <2>4. OneAtATime'
    BY <1>3, <1>5, <2>1, <2>3 DEF OneAtATime
  <2>5. \A p \in Projects : Marking(p) => Marking(p)'
    <3> TAKE p \in Projects
    <3>1. Marking(p) => a = "tick" /\ n.kind = "mark" /\ n.p = p
      BY <2>1 DEF Marking
    <3> QED
      BY <1>5, <2>1, <3>1
  <2>6. FiredMarked'
    BY <1>1, <1>3, <1>5, <2>5 DEF FiredMarked, Reg!Hours
  <2> QED
    BY <2>1, <2>2, <2>3, <2>4, <2>6 DEF Undisturbed
<1>6. CASE Reg!Reads(a)
  <2>1. n.step = "read" /\ Reg!Phase(a) \in {"look", "reg"}
    BY <1>6 DEF Reg!Reads
  <2>2. ~regTorn /\ ~groupsTorn
    BY <1>3, <2>1
  <2>3. Reg!LooksUp(a, reg) /\ UNCHANGED <<reg, groups, regTorn, groupsTorn, asked>>
    BY <1>6, <2>2 DEF Reg!Reads, Reg!files
  <2> QED
    BY <1>1, <2>1, <2>2, <2>3, RegLooksAlone
<1>7. CASE Reg!Heals(a)
  BY <1>1, <1>3, <1>7 DEF Reg!Heals, HasRead
<1>8. CASE Reg!ReadsGroups(a)
  <2>1. /\ UNCHANGED <<reg, groups, regTorn, groupsTorn, due, fires, asked>>
        /\ Reg!Phase(a) = "groups" /\ n.step = "read"
    BY <1>8 DEF Reg!ReadsGroups, Reg!files
  <2>2. ~regTorn /\ ~groupsTorn /\ n.kind # "mark"
    BY <1>2, <1>3, <2>1
  <2>3. CASE n.kind = "delete" /\ ~\E w \in Workspaces : n.p \in groups[w].members
    <3> DEFINE o == Reg!Rest(n)
    <3>1. actor' = [actor EXCEPT ![a] = o]
      BY <1>8, <2>3 DEF Reg!ReadsGroups, Reg!Set
    <3>2. /\ o.step = "read"
          /\ o.todo # <<>> => o.kind = "delete" /\ o.p = n.p /\ Head(o.todo) \in {"reg", "groups"}
      BY <1>2, <2>3, RegRest
    <3> HIDE DEF o
    <3>3. o.todo # <<>> => HasRead(a)'
      <4>1. actor'[a] = o /\ Reg!Phase(a)' = Head(o.todo)
        BY <1>3, <3>1, RegAlone
      <4> QED
        BY <2>1, <2>3, <3>2, <4>1 DEF HasRead, Writes
    <3> QED
      BY <1>3, <1>5, <2>1, <2>2, <3>1, <3>3
  <2>4. CASE n.kind = "unassign" /\ n.p \notin groups[n.w].members
    <3>1. actor' = [actor EXCEPT ![a] = Reg!Idle]
      BY <1>8, <2>2, <2>4 DEF Reg!ReadsGroups, Reg!Set
    <3> QED
      BY <1>3, <1>4, <1>5, <2>1, <2>2, <3>1
  <2>5. CASE ~(n.kind = "delete" /\ ~\E w \in Workspaces : n.p \in groups[w].members)
             /\ ~(n.kind = "unassign" /\ n.p \notin groups[n.w].members)
    <3> DEFINE o == [n EXCEPT !.copy = groups, !.step = "truncate"]
    <3>1. actor' = [actor EXCEPT ![a] = o]
      BY <1>8, <2>2, <2>5 DEF Reg!ReadsGroups, Reg!Set
    <3>2. /\ o.todo = n.todo /\ o.kind = n.kind /\ o.p = n.p /\ o.copy = groups
          /\ o.step = "truncate"
      BY <1>2 DEF RegOp
    <3> HIDE DEF o
    <3>3. HasRead(a)'
      <4>1. actor'[a] = o /\ Reg!Phase(a)' = Head(o.todo)
        BY <1>3, <3>1, RegAlone
      <4>2. Reg!Phase(a)' = "groups"
        BY <1>2, <2>1, <3>2, <4>1
      <4> QED
        BY <1>1, <1>3, <2>1, <3>2, <4>1, <4>2 DEF HasRead
    <3> QED
      BY <1>3, <1>5, <2>1, <2>2, <3>1, <3>3
  <2> QED
    BY <2>3, <2>4, <2>5
<1>9. CASE Reg!Truncates(a)
  <2> DEFINE o == [n EXCEPT !.step = "fill"]
  <2>1. /\ n.step = "truncate" /\ actor' = [actor EXCEPT ![a] = o]
        /\ UNCHANGED <<reg, groups, due, fires, asked>>
        /\ regTorn' => regTorn \/ Reg!Phase(a) = "reg"
        /\ groupsTorn' => groupsTorn \/ Reg!Phase(a) # "reg"
    BY <1>9 DEF Reg!Truncates, Reg!Set
  <2>2. /\ o.todo = n.todo /\ o.kind = n.kind /\ o.p = n.p /\ o.copy = n.copy
        /\ o.entries = n.entries /\ o.policy = n.policy /\ o.step = "fill"
    BY <1>2 DEF RegOp
  <2> HIDE DEF o
  <2>3. Reg!Phase(a) \in {"reg", "groups"} /\ ~regTorn /\ ~groupsTorn
    BY <1>2, <1>3, <2>1 DEF RegStands, Writes
  <2>4. HasRead(a)'
    <3>1. actor'[a] = o /\ Reg!Phase(a)' = Head(o.todo)
      BY <1>3, <2>1, RegAlone
    <3>2. Reg!Phase(a)' = Reg!Phase(a)
      BY <1>2, <2>2, <3>1
    <3> QED
      BY <1>1, <1>3, <2>1, <2>2, <3>1, <3>2 DEF HasRead, Writes
  <2> QED
    BY <1>2, <1>3, <1>5, <2>1, <2>2, <2>3, <2>4
<1>10. CASE Reg!FillsRegistry(a)
  BY <1>10, RegFillsAlone
<1>11. CASE Reg!FillsGroups(a)
  <2> DEFINE o == Reg!Rest(n)
  <2>1. /\ Reg!Phase(a) = "groups" /\ n.step = "fill"
        /\ groups' \in Reg!Grouped(n, n.copy) /\ groupsTorn' = FALSE
        /\ actor' = [actor EXCEPT ![a] = o]
        /\ UNCHANGED <<reg, regTorn, due, asked, fires>>
    BY <1>11 DEF Reg!FillsGroups, Reg!Set
  <2>2. /\ n.p \in Projects /\ GroupsSound(n.copy) /\ n.copy = groups
        /\ n.kind \in {"assign", "unassign", "delete", "ungroup", "deps"}
        /\ n.kind # "delete" => n.w \in Workspaces
        /\ ~regTorn
        /\ n.kind = "assign" => n.p \in DOMAIN reg
    BY <1>1, <1>2, <1>3, <2>1 DEF RegStands, Writes, HasRead
  <2>3. /\ \A w \in Workspaces : groups'[w].members \subseteq groups[w].members \cup {n.p}
        /\ n.kind # "assign" => \A w \in Workspaces : groups'[w].members \subseteq groups[w].members
        /\ n.kind = "delete" => \A w \in Workspaces : n.p \notin groups'[w].members
    BY <1>2, <2>1, <2>2, RegGrouped
  <2>4. \A w \in Workspaces : groups'[w].members \subseteq DOMAIN reg
    BY <1>3, <2>2, <2>3
  <2>5. /\ o.step = "read"
        /\ o.todo # <<>> => /\ o.kind = n.kind /\ o.p = n.p
                            /\ Head(o.todo) = "reg" => n.kind = "delete" \/ Head(n.todo) = "look"
                            /\ Head(o.todo) = "groups" => Head(n.todo) = "look"
    BY <1>2, RegRest
  <2> HIDE DEF o
  <2>6. o.todo # <<>> => HasRead(a)'
    <3>1. actor'[a] = o /\ Reg!Phase(a)' = Head(o.todo)
      BY <1>3, <2>1, RegAlone
    <3> QED
      BY <1>2, <2>1, <2>3, <2>5, <3>1 DEF HasRead, Writes
  <2> QED
    BY <1>5, <2>1, <2>2, <2>4, <2>6
<1> QED
  BY <1>6, <1>7, <1>8, <1>9, <1>10, <1>11 DEF Reg!Step

\* It holds in the initial states.
LEMMA RegFirst ==
    ASSUME Reg!Init
    PROVE  RegInv
<1>1. PICK S \in {{}, Projects} :
        /\ reg = [p \in S |-> Reg!NewEntry]
        /\ groups = [w \in Workspaces |->
                       IF w = Reg!First THEN [Reg!NoGroup EXCEPT !.members = S] ELSE Reg!NoGroup]
  BY DEF Reg!Init
<1>2. /\ regTorn = FALSE /\ groupsTorn = FALSE
      /\ actor = [a \in Reg!Actors |-> Reg!Idle] /\ due = {} /\ hour = 1
      /\ asked = [reg |-> reg, disturbed |-> FALSE]
      /\ fires = [p \in Projects |-> [h \in Reg!Hours |-> 0]]
  BY DEF Reg!Init
<1>3. hour \in Nat \ {0} /\ hour \in Reg!Hours
  BY <1>2, ServerAssumption DEF Reg!Hours, Reg!RegistryAssumption
<1>4. Reg!NewEntry \in RegEntry
  BY <1>3 DEF Reg!NewEntry, RegEntry, RegPolicy
<1>5. reg \in RegFiles /\ DOMAIN reg = S
  <2>1. reg \in [S -> RegEntry] /\ S \in SUBSET Projects
    BY <1>1, <1>4
  <2> QED
    BY <2>1 DEF RegFiles
<1>6. \A w \in Workspaces : /\ groups[w] \in RegGroup /\ groups[w].deps = {}
                            /\ groups[w].members = IF w = Reg!First THEN S ELSE {}
  BY <1>1 DEF Reg!NoGroup, RegGroup
<1>7. GroupsSound(groups)
  <2>1. groups \in [Workspaces -> RegGroup]
    BY <1>1, <1>6
  <2>2. \A v, w \in Workspaces : v # w => groups[v].members \cap groups[w].members = {}
    BY <1>6
  <2>3. \A w \in Workspaces : /\ groups[w].deps \subseteq groups[w].members \X groups[w].members
                              /\ Reg!Acyclic(groups[w].deps)
    BY <1>6, RegPartAcyclic
  <2> QED
    BY <2>1, <2>2, <2>3 DEF GroupsSound
<1>8. /\ Reg!Idle \in RegOp /\ RegStands(Reg!Idle) /\ Reg!Idle.todo = <<>>
  <2>1. /\ Reg!Idle.kind = "none" /\ Reg!Idle.p = "none" /\ Reg!Idle.w = "none"
        /\ Reg!Idle.todo = <<>>
        /\ Reg!Idle.step = "read" /\ Reg!Idle.entries = Reg!Empty
        /\ Reg!Idle.policy = Reg!NewEntry.policy /\ Reg!Idle.copy = [w \in Workspaces |-> Reg!NoGroup]
    BY Zenon DEF Reg!Idle
  <2>2. [w \in Workspaces |-> Reg!NoGroup] \in [Workspaces -> RegGroup]
    BY DEF Reg!NoGroup, RegGroup
  <2>3. Reg!NewEntry.policy \in RegPolicy
    BY <1>4 DEF RegEntry
  <2>4. Reg!Idle \in RegOp
    BY <2>2, <2>3, RegEmpty DEF Reg!Idle, RegOp
  <2> QED
    BY <2>1, <2>4 DEF RegStands
<1>9. \A a \in Reg!Actors : actor[a] = Reg!Idle /\ ~Reg!Busy(a)
  BY <1>2, <1>8 DEF Reg!Busy
<1>10. "tick" \in Reg!Actors
  BY DEF Reg!Actors
<1>11. RegTypes
  BY <1>2, <1>3, <1>5, <1>7, <1>8, <1>9, <1>10 DEF RegTypes
<1>12. OneAtATime
  BY <1>2, <1>5, <1>6, <1>9 DEF OneAtATime
<1>13. \A a \in Reg!Actors : HasRead(a)
  BY <1>9 DEF HasRead
<1>14. FiredMarked
  BY <1>2, <1>3 DEF FiredMarked
<1> QED
  BY <1>11, <1>12, <1>13, <1>14 DEF RegInv, Undisturbed

\* Every step keeps it.
LEMMA RegNext ==
    ASSUME RegInv, [Reg!Next]_(Reg!vars)
    PROVE  RegInv'
<1>1. RegTypes /\ (~asked.disturbed => Undisturbed)
  BY DEF RegInv
<1>2. "tick" \in Reg!Actors /\ Reg!Actors' = Reg!Actors
  BY DEF Reg!Actors
<1>3. ASSUME NEW a \in Reg!Actors, Reg!Step(a)
      PROVE  RegInv'
  <2>1. RegTypes'
    BY <1>3, RegStepsTypes
  <2>2. asked'.disturbed = asked.disturbed
    <3>1. asked \in [reg : RegFiles, disturbed : BOOLEAN]
      BY <1>1 DEF RegTypes
    <3> QED
      BY <1>3, <3>1 DEF Reg!Step, Reg!Reads, Reg!Heals, Reg!ReadsGroups, Reg!Truncates,
                        Reg!FillsRegistry, Reg!FillsGroups
  <2>3. ~asked.disturbed => Undisturbed'
    BY <1>1, <1>3, RegStepAlone
  <2> QED
    BY <2>1, <2>2, <2>3 DEF RegInv
<1>4. ASSUME NEW a \in Reg!Actors \ {"tick"}, Reg!Request(a)
      PROVE  RegInv'
  <2>1. /\ RegTypes' /\ asked'.reg = asked.reg
        /\ ~asked'.disturbed => ~asked.disturbed /\ \A b \in Reg!Actors : ~Reg!Busy(b)
    BY <1>1, <1>4, RegRequests
  <2>2. PICK m \in RegOp : /\ m.step = "read" /\ m.kind \notin {"due", "mark"}
                           /\ m.todo = Reg!Phases(m.kind) /\ m.todo # <<>> /\ m.kind \in RegKinds
                           /\ actor' = [actor EXCEPT ![a] = m]
    BY <1>1, <1>4, RegRequests
  <2>3. UNCHANGED <<reg, groups, regTorn, groupsTorn, due, hour, fires>>
    BY <1>4 DEF Reg!Request, Reg!files
  <2>4. ASSUME ~asked'.disturbed
        PROVE  Undisturbed'
    <3>1. Undisturbed /\ \A b \in Reg!Actors : ~Reg!Busy(b)
      BY <1>1, <2>1, <2>4
    <3>2. OneAtATime' /\ \A b \in Reg!Actors : HasRead(b)'
      BY <1>1, <2>1, <2>2, <2>3, <3>1, RegStartsAlone
    <3>3. \A p \in Projects : ~Marking(p)
      BY <1>2, <3>1 DEF Marking
    <3>4. FiredMarked'
      BY <2>3, <3>1, <3>3 DEF Undisturbed, FiredMarked, Reg!Hours
    <3> QED
      BY <1>2, <3>2, <3>4 DEF Undisturbed
  <2> QED
    BY <2>1, <2>4 DEF RegInv
<1>5. ASSUME Reg!Tick
      PROVE  RegInv'
  <2>1. /\ RegTypes' /\ asked'.reg = asked.reg
        /\ ~asked'.disturbed => ~asked.disturbed /\ \A b \in Reg!Actors : ~Reg!Busy(b)
    BY <1>1, <1>5, RegTicks
  <2>2. PICK m \in RegOp : /\ m.step = "read" /\ m.kind \in {"due", "mark"}
                           /\ m.todo = Reg!Phases(m.kind) /\ m.todo # <<>>
                           /\ actor' = [actor EXCEPT !["tick"] = m]
                           /\ IF m.kind = "due" THEN due = {} /\ due' = {}
                              ELSE due' = due \ {m.p}
    BY <1>1, <1>5, RegTicks
  <2>3. UNCHANGED <<reg, groups, regTorn, groupsTorn, hour, fires>>
    BY <1>5 DEF Reg!Tick, Reg!TickLooks, Reg!Marks, Reg!files
  <2>4. ASSUME ~asked'.disturbed
        PROVE  Undisturbed'
    <3>1. Undisturbed /\ \A b \in Reg!Actors : ~Reg!Busy(b)
      BY <1>1, <2>1, <2>4
    <3>2. OneAtATime' /\ \A b \in Reg!Actors : HasRead(b)'
      <4>1. m.kind \in RegKinds
        BY <2>2 DEF RegKinds
      <4> QED
        BY <1>1, <1>2, <2>1, <2>2, <2>3, <3>1, <4>1, RegStartsAlone
    <3>3. \A p \in Projects : ~Marking(p)
      BY <1>2, <3>1 DEF Marking
    <3>4. \A p \in Projects : p \in due => p \in due' \/ Marking(p)'
      <4>1. OneAtATime /\ \A b \in Reg!Actors \ {"tick"} : ~Reg!Busy(b)
        BY <3>1 DEF Undisturbed
      <4>2. \A p \in Projects : Marking(p)' <=>
              IF "tick" = "tick" THEN m.todo # <<>> /\ m.kind = "mark" /\ m.p = p ELSE FALSE
        BY <1>1, <1>2, <2>2, <4>1, RegAlone
      <4>3. \A p \in Projects : Marking(p)' <=> m.todo # <<>> /\ m.kind = "mark" /\ m.p = p
        BY <4>2, Zenon
      <4> QED
        BY <2>2, <4>3
    <3>5. FiredMarked'
      BY <2>3, <3>1, <3>3, <3>4 DEF Undisturbed, FiredMarked, Reg!Hours
    <3> QED
      BY <1>2, <3>2, <3>5 DEF Undisturbed
  <2> QED
    BY <2>1, <2>4 DEF RegInv
<1>6. ASSUME Reg!HourPasses
      PROVE  RegInv'
  <2>1. RegTypes'
    BY <1>1, <1>6, RegHourTypes
  <2>2. /\ UNCHANGED <<reg, groups, regTorn, groupsTorn, actor, due, asked, fires>>
        /\ hour' = hour + 1 /\ hour \in Nat \ {0} /\ hour' \in Reg!Hours
        /\ ~Reg!Busy("tick") /\ due = {}
    BY <1>1, <1>6, <2>1 DEF Reg!HourPasses, Reg!files, RegTypes, Reg!Hours
  <2>3. \A b \in Reg!Actors : /\ Reg!Busy(b)' <=> Reg!Busy(b)
                              /\ Reg!Phase(b)' = Reg!Phase(b)
    BY <2>2 DEF Reg!Busy, Reg!Phase
  <2>4. ASSUME ~asked.disturbed
        PROVE  Undisturbed'
    <3>1. Undisturbed
      BY <1>1, <2>4
    <3>2. OneAtATime'
      BY <1>2, <2>2, <2>3, <3>1 DEF Undisturbed, OneAtATime
    <3>3. \A b \in Reg!Actors : HasRead(b)'
      BY <2>2, <2>3, <3>1 DEF Undisturbed, HasRead
    <3>4. \A p \in Projects, h \in Reg!Hours : fires[p][h] <= 1 /\ (h > hour + 1 => fires[p][h] = 0)
      BY <2>2, <3>1 DEF Undisturbed, FiredMarked, Reg!Hours
    <3>5. \A p \in Projects : fires[p][hour + 1] = 0
      BY <2>2, <3>1 DEF Undisturbed, FiredMarked
    <3>6. FiredMarked'
      BY <2>2, <3>4, <3>5 DEF FiredMarked, Reg!Hours
    <3> QED
      BY <1>2, <3>2, <3>3, <3>6 DEF Undisturbed
  <2> QED
    BY <2>1, <2>2, <2>4 DEF RegInv
<1>7. ASSUME Reg!Crash
      PROVE  RegInv'
  <2>1. /\ RegTypes' /\ \A a \in Reg!Actors : ~Reg!Busy(a)'
        /\ due' = {} /\ UNCHANGED <<reg, groups, regTorn, groupsTorn, hour, fires>>
        /\ asked'.reg = asked.reg
        /\ ~asked'.disturbed => ~asked.disturbed /\ due = {} /\ \A a \in Reg!Actors : ~Reg!Busy(a)
    BY <1>1, <1>7, RegCrashTypes
  <2>2. ASSUME ~asked'.disturbed
        PROVE  Undisturbed'
    <3>1. Undisturbed /\ due = {} /\ \A a \in Reg!Actors : ~Reg!Busy(a)
      BY <1>1, <2>1, <2>2
    <3>2. OneAtATime'
      BY <1>2, <2>1, <3>1 DEF Undisturbed, OneAtATime
    <3>3. \A b \in Reg!Actors : HasRead(b)'
      BY <2>1 DEF HasRead
    <3>4. \A p \in Projects : ~Marking(p)
      BY <1>2, <3>1 DEF Marking
    <3>5. FiredMarked'
      BY <2>1, <3>1, <3>4 DEF Undisturbed, FiredMarked, Reg!Hours
    <3> QED
      BY <1>2, <3>2, <3>3, <3>5 DEF Undisturbed
  <2> QED
    BY <2>1, <2>2 DEF RegInv
<1>8. ASSUME UNCHANGED Reg!vars
      PROVE  RegInv'
  <2>1. UNCHANGED <<reg, groups, regTorn, groupsTorn, actor, due, hour, asked, fires>>
    BY <1>8 DEF Reg!vars, Reg!files
  <2>2. \A b \in Reg!Actors : /\ Reg!Busy(b)' <=> Reg!Busy(b)
                              /\ Reg!Phase(b)' = Reg!Phase(b)
    BY <2>1 DEF Reg!Busy, Reg!Phase
  <2>3. RegFiles' = RegFiles /\ RegOp' = RegOp
    BY <2>1 DEF RegFiles, RegOp, RegEntry, RegPolicy
  <2>4. RegTypes'
    BY <1>1, <1>2, <2>1, <2>2, <2>3 DEF RegTypes
  <2>5. ASSUME Undisturbed
        PROVE  Undisturbed'
    <3>1. OneAtATime'
      BY <1>2, <2>1, <2>2, <2>5 DEF Undisturbed, OneAtATime
    <3>2. \A b \in Reg!Actors : HasRead(b)'
      BY <2>1, <2>2, <2>5 DEF Undisturbed, HasRead
    <3>3. FiredMarked'
      BY <1>2, <2>1, <2>2, <2>5 DEF Undisturbed, FiredMarked, Marking, Reg!Hours
    <3> QED
      BY <1>2, <3>1, <3>2, <3>3 DEF Undisturbed
  <2> QED
    BY <1>1, <2>1, <2>4, <2>5 DEF RegInv
<1> QED
  BY <1>3, <1>4, <1>5, <1>6, <1>7, <1>8 DEF Reg!Next

\* The invariant holds of the registry, whatever the projects, workspaces, workers and bounds.
THEOREM RegInvariantHolds == ServerSpec => []RegInv
<1>1. ServerInit => RegInv
  BY RegFirst DEF ServerInit
<1>2. RegInv /\ [ServerNext]_serverVars => RegInv'
  BY RegNext, ServerSteps
<1> QED
  BY <1>1, <1>2, PTL DEF ServerSpec

\* Whatever overlaps, and wherever a crash comes between a truncated and a filled file, a project
\* is in one workspace, and the dependencies of a workspace are among its members and can be
\* ordered (workspaces.py).
THEOREM WorkspacesStaySound == ServerSpec => []WorkspacesSound
<1>1. RegInv => Reg!WorkspacesSound
  <2> SUFFICES ASSUME RegInv
               PROVE  Reg!WorkspacesSound
    OBVIOUS
  <2>1. RegTypes
    BY DEF RegInv
  <2>2. DOMAIN reg \subseteq Projects /\ \A p \in DOMAIN reg : reg[p].policy.last \in 0..hour
    BY <2>1 DEF RegTypes, RegFiles, RegEntry, RegPolicy
  <2>3. \A a \in Reg!Actors : actor[a].step \in {"read", "heal", "truncate", "fill"}
    BY <2>1 DEF RegTypes, RegOp
  <2>4. Reg!TypeOK
    BY <2>1, <2>2, <2>3 DEF RegTypes, Reg!TypeOK
  <2> QED
    BY <2>1, <2>4 DEF RegTypes, GroupsSound, Reg!WorkspacesSound
<1> QED
  BY <1>1, RegInvariantHolds, PTL DEF WorkspacesSound

\* While no two operations overlap and none is cut, the registry holds what was asked for, a
\* workspace has registered projects only, and no maintenance fires twice in a window.
THEOREM RegistryStaysKept == ServerSpec => []RegistryKept
<1>1. RegInv => Reg!RegistryKept
  <2> SUFFICES ASSUME RegInv, ~asked.disturbed
               PROVE  /\ Reg!FiresOncePerWindow
                      /\ (\A a \in Reg!Actors : ~Reg!Busy(a)) =>
                            /\ reg = asked.reg /\ ~regTorn
                            /\ \A w \in Workspaces : groups[w].members \subseteq DOMAIN reg
    BY DEF Reg!RegistryKept, Reg!RegistryAsAsked, Reg!MarkedOnce
  <2>1. OneAtATime /\ FiredMarked
    BY DEF RegInv, Undisturbed
  <2> QED
    BY <2>1 DEF OneAtATime, FiredMarked, Reg!FiresOncePerWindow
<1> QED
  BY <1>1, RegInvariantHolds, PTL DEF RegistryKept

-----------------------------------------------------------------------------
(* Cron expressions: the calendar. *)

\* Induction over the natural numbers, for a set of them.
LEMMA SetOfNat ==
    ASSUME NEW S, S \subseteq Nat, 0 \in S, \A n \in S : n + 1 \in S
    PROVE  S = Nat
<1> DEFINE R == OpToRel(<, Nat)
<1>1. IsWellFoundedOn(R, Nat)
  BY NatLessThanWellFounded, Zenon
<1>2. \A x, y \in Nat : <<x, y>> \in R <=> x < y
  BY DEF OpToRel
<1> HIDE DEF R
<1> SUFFICES ASSUME Nat \ S # {} PROVE FALSE
  OBVIOUS
<1>3. PICK m \in Nat \ S : \A y \in Nat \ S : ~(<<y, m>> \in R)
  BY <1>1, WFMin
<1>4. m - 1 \in Nat /\ m - 1 < m /\ (m - 1) + 1 = m
  BY <1>3
<1>5. m - 1 \in S
  BY <1>2, <1>3, <1>4
<1> QED
  BY <1>3, <1>4, <1>5

\* The least of a set of times.
LEMMA Earliest ==
    ASSUME NEW S, S \subseteq Nat, S # {}
    PROVE  \E t \in S : \A u \in S : t <= u
<1> DEFINE R == OpToRel(<, Nat)
<1>1. IsWellFoundedOn(R, Nat)
  BY NatLessThanWellFounded, Zenon
<1>2. \A x, y \in Nat : <<x, y>> \in R <=> x < y
  BY DEF OpToRel
<1> HIDE DEF R
<1>3. PICK t \in S : \A u \in S : ~(<<u, t>> \in R)
  BY <1>1, WFMin
<1>4. ASSUME NEW u \in S
      PROVE  t <= u
  <2>1. u \in Nat /\ t \in Nat
    OBVIOUS
  <2>2. ~(u < t)
    BY <1>2, <1>3, <2>1
  <2> QED
    BY <2>1, <2>2
<1> QED
  BY <1>4

Months == 1..Len(MonthLengths)

\* What is assumed of the calendar.
LEMMA CalendarTypes ==
    /\ MinutesIn \in Nat \ {0} /\ HoursIn \in Nat \ {0} /\ WeekDays \in Nat \ {0}
    /\ MaxMinutes \in Nat /\ DayMinutes \in Nat \ {0}
    /\ Len(MonthLengths) \in Nat \ {0}
    /\ \A k \in Months : MonthLengths[k] \in Nat \ {0}
<1>1. /\ MinutesIn \in Nat \ {0} /\ HoursIn \in Nat \ {0} /\ WeekDays \in Nat \ {0}
      /\ MaxMinutes \in Nat
  BY CronAssumption
<1>2. MinutesIn * HoursIn \in Nat \ {0}
  BY <1>1
<1>3. MonthLengths \in Seq(Nat \ {0}) /\ MonthLengths # <<>>
  BY CronAssumption
<1> QED
  BY <1>1, <1>2, <1>3 DEF DayMinutes, Months

\* The days of the year before each month: the recursive definition has a solution.
SumsUpTo(n, f) ==
    f = [k \in 0..n |-> IF k = 0 THEN 0 ELSE f[k - 1] + MonthLengths[k]]

LEMMA SumsExist == \A n \in 0..Len(MonthLengths) : \E f : SumsUpTo(n, f)
<1> DEFINE S == {n \in Nat : n <= Len(MonthLengths) => \E f : SumsUpTo(n, f)}
<1>1. 0 \in S
  <2>1. SumsUpTo(0, [k \in 0..0 |-> 0])
    BY DEF SumsUpTo
  <2> QED
    BY <2>1
<1>2. ASSUME NEW n \in S
      PROVE  n + 1 \in S
  <2> SUFFICES ASSUME n + 1 <= Len(MonthLengths)
               PROVE  \E f : SumsUpTo(n + 1, f)
    OBVIOUS
  <2>1. n \in Nat /\ n <= Len(MonthLengths)
    BY CalendarTypes
  <2>2. PICK f : SumsUpTo(n, f)
    BY <2>1
  <2> DEFINE g == [k \in 0..(n + 1) |-> IF k = n + 1 THEN f[n] + MonthLengths[n + 1] ELSE f[k]]
  <2>3. DOMAIN f = 0..n /\ \A k \in 0..n : f[k] = IF k = 0 THEN 0 ELSE f[k - 1] + MonthLengths[k]
    BY <2>2 DEF SumsUpTo
  <2>4. ASSUME NEW k \in 0..(n + 1)
        PROVE  g[k] = IF k = 0 THEN 0 ELSE g[k - 1] + MonthLengths[k]
    <3>1. CASE k = n + 1
      <4>1. k # 0 /\ k - 1 = n /\ n \in 0..(n + 1) /\ n # n + 1
        BY <2>1, <3>1
      <4> QED
        BY <3>1, <4>1
    <3>2. CASE k # n + 1
      <4>1. k \in 0..n /\ g[k] = f[k]
        BY <2>1, <3>2
      <4>2. k # 0 => k - 1 \in 0..(n + 1) /\ k - 1 # n + 1 /\ g[k - 1] = f[k - 1]
        BY <2>1, <4>1
      <4> QED
        BY <2>3, <4>1, <4>2
    <3> QED
      BY <3>1, <3>2
  <2>5. SumsUpTo(n + 1, g)
    BY <2>4 DEF SumsUpTo
  <2> QED
    BY <2>5
<1>3. S = Nat
  <2> HIDE DEF S
  <2> QED
    BY <1>1, <1>2, SetOfNat DEF S
<1> QED
  BY <1>3, CalendarTypes

LEMMA Sums ==
    /\ DOMAIN SumTo = 0..Len(MonthLengths) /\ SumTo[0] = 0
    /\ \A k \in Months : SumTo[k] = SumTo[k - 1] + MonthLengths[k]
<1>1. \E f : SumsUpTo(Len(MonthLengths), f)
  BY SumsExist, CalendarTypes
<1>2. SumsUpTo(Len(MonthLengths), SumTo)
  BY <1>1 DEF SumTo, SumsUpTo
<1> QED
  BY <1>2, CalendarTypes DEF SumsUpTo, Months

\* The months follow one another, and the year is their sum.
LEMMA SumsGrow ==
    /\ \A k \in 0..Len(MonthLengths) : SumTo[k] \in Nat
    /\ \A j, k \in 0..Len(MonthLengths) : j <= k => SumTo[j] <= SumTo[k]
    /\ \A k \in Months : MonthLengths[k] <= SumTo[k]
    /\ YearDays \in Nat \ {0}
<1> DEFINE L == Len(MonthLengths)
<1>1. L \in Nat \ {0} /\ \A k \in Months : MonthLengths[k] \in Nat \ {0}
  BY CalendarTypes
<1>2. SumTo[0] = 0 /\ \A k \in Months : SumTo[k] = SumTo[k - 1] + MonthLengths[k]
  BY Sums
<1> DEFINE S == {n \in Nat : n <= L => /\ SumTo[n] \in Nat
                                       /\ \A j \in 0..n : SumTo[j] \in Nat /\ SumTo[j] <= SumTo[n]}
<1>3. 0 \in S
  BY <1>2
<1>4. ASSUME NEW n \in S
      PROVE  n + 1 \in S
  <2> SUFFICES ASSUME n + 1 <= L
               PROVE  /\ SumTo[n + 1] \in Nat
                      /\ \A j \in 0..(n + 1) : SumTo[j] \in Nat /\ SumTo[j] <= SumTo[n + 1]
    OBVIOUS
  <2>1. n \in Nat /\ n <= L /\ n + 1 \in Months /\ (n + 1) - 1 = n
    BY <1>1 DEF Months
  <2>2. SumTo[n] \in Nat /\ \A j \in 0..n : SumTo[j] \in Nat /\ SumTo[j] <= SumTo[n]
    BY <2>1
  <2>3. SumTo[n + 1] = SumTo[n] + MonthLengths[n + 1]
    BY <1>2, <2>1
  <2>4. SumTo[n + 1] \in Nat /\ SumTo[n] <= SumTo[n + 1]
    BY <1>1, <2>1, <2>2, <2>3
  <2>5. ASSUME NEW j \in 0..(n + 1)
        PROVE  SumTo[j] \in Nat /\ SumTo[j] <= SumTo[n + 1]
    <3>1. CASE j = n + 1
      BY <2>4, <3>1
    <3>2. CASE j # n + 1
      <4>1. j \in 0..n
        BY <2>1, <3>2
      <4> QED
        BY <2>2, <2>4, <4>1
    <3> QED
      BY <3>1, <3>2
  <2> QED
    BY <2>4, <2>5
<1>5. S = Nat
  <2> HIDE DEF S
  <2> QED
    BY <1>3, <1>4, SetOfNat DEF S
<1>6. \A k \in 0..L : SumTo[k] \in Nat /\ \A j \in 0..k : SumTo[j] <= SumTo[k]
  BY <1>1, <1>5
<1>7. \A k \in Months : MonthLengths[k] <= SumTo[k]
  <2> SUFFICES ASSUME NEW k \in Months
               PROVE  MonthLengths[k] <= SumTo[k]
    OBVIOUS
  <2>1. k - 1 \in 0..L
    BY <1>1 DEF Months
  <2> QED
    BY <1>1, <1>2, <1>6, <2>1
<1>8. YearDays \in Nat \ {0}
  <2>1. L \in Months /\ L \in 0..L
    BY <1>1 DEF Months
  <2> QED
    BY <1>1, <1>6, <1>7, <2>1 DEF YearDays
<1>9. \A j, k \in 0..L : j <= k => SumTo[j] <= SumTo[k]
  BY <1>1, <1>6
<1> QED
  BY <1>6, <1>7, <1>8, <1>9

\* A day of the year is in one month.
LEMMA MonthExists ==
    ASSUME NEW d \in 0..(YearDays - 1)
    PROVE  \E k \in Months : SumTo[k - 1] <= d /\ d < SumTo[k]
<1> DEFINE L == Len(MonthLengths)
           S == {k \in 0..L : d < SumTo[k]}
<1>1. L \in Nat \ {0} /\ d \in Nat /\ d < YearDays
  BY CalendarTypes, SumsGrow
<1>2. L \in S
  BY <1>1 DEF YearDays
<1>3. PICK k \in S : \A j \in S : k <= j
  <2>1. S \subseteq Nat /\ S # {}
    BY <1>2
  <2> HIDE DEF S
  <2> QED
    BY <2>1, Earliest
<1>4. k # 0
  <2>1. 0 \notin S
    BY <1>1, Sums
  <2> QED
    BY <1>3, <2>1
<1>5. k \in Months /\ k - 1 \in 0..L /\ k - 1 < k
  BY <1>1, <1>4 DEF Months
<1>6. k - 1 \notin S
  BY <1>3, <1>5
<1>7. SumTo[k - 1] <= d
  BY <1>1, <1>5, <1>6, SumsGrow
<1> QED
  BY <1>5, <1>7

LEMMA MonthUnique ==
    ASSUME NEW d \in Nat, NEW j \in Months, NEW k \in Months,
           SumTo[j - 1] <= d, d < SumTo[j], SumTo[k - 1] <= d, d < SumTo[k]
    PROVE  j = k
<1>1. /\ j - 1 \in 0..Len(MonthLengths) /\ k - 1 \in 0..Len(MonthLengths)
      /\ j \in 0..Len(MonthLengths) /\ k \in 0..Len(MonthLengths)
      /\ j \in Nat /\ k \in Nat
  BY CalendarTypes DEF Months
<1>2. /\ SumTo[j - 1] \in Nat /\ SumTo[j] \in Nat /\ SumTo[k - 1] \in Nat /\ SumTo[k] \in Nat
      /\ j <= k - 1 => SumTo[j] <= SumTo[k - 1]
      /\ k <= j - 1 => SumTo[k] <= SumTo[j - 1]
  BY <1>1, SumsGrow
<1> QED
  BY <1>1, <1>2

\* Division, as the calendar uses it.
LEMMA Quotients ==
    ASSUME NEW t \in Nat, NEW d \in Nat \ {0}
    PROVE  /\ t \div d \in Nat /\ t % d \in 0..(d - 1)
           /\ (t \div d) * d <= t /\ t < (t \div d + 1) * d
           /\ \A q \in Nat : q * d <= t /\ t < (q + 1) * d => t \div d = q
<1>1. t \div d \in Nat
  OBVIOUS
<1>2. t % d \in 0..(d - 1)
  OBVIOUS
<1>3. (t \div d) * d <= t /\ t < (t \div d + 1) * d
  OBVIOUS
<1>4. ASSUME NEW q \in Nat, q * d <= t, t < (q + 1) * d
      PROVE  t \div d = q
  BY <1>4
<1> QED
  BY <1>1, <1>2, <1>3, <1>4

LEMMA RestOf ==
    ASSUME NEW t \in Nat, NEW d \in Nat \ {0}
    PROVE  t % d = t - (t \div d) * d
OBVIOUS

LEMMA RestMoves ==
    ASSUME NEW n \in Nat, NEW j \in Nat, NEW d \in Nat \ {0}, (n % d) + j < d
    PROVE  (n + j) % d = (n % d) + j
<1>1. n % d = n - (n \div d) * d
  BY RestOf
<1>2. n \div d \in Nat /\ (n \div d) * d \in Nat
  BY Quotients
<1>3. (n \div d) * d <= n + j /\ n + j < (n \div d) * d + d
  BY <1>1, <1>2
<1>4. (n \div d + 1) * d = (n \div d) * d + d
  BY <1>2
<1>5. n + j \in Nat
  OBVIOUS
<1>6. (n + j) \div d = n \div d
  BY <1>2, <1>3, <1>4, <1>5, Quotients
<1>7. (n + j) % d = (n + j) - ((n + j) \div d) * d
  BY <1>5, RestOf
<1> QED
  BY <1>1, <1>2, <1>6, <1>7

\* Where a minute is in the calendar.
LEMMA DayFacts ==
    ASSUME NEW t \in Nat
    PROVE  /\ DayNumber(t) \in Nat /\ DayNumber(t) * DayMinutes <= t
           /\ t < (DayNumber(t) + 1) * DayMinutes
           /\ DayNumber(t) % YearDays \in 0..(YearDays - 1)
           /\ MonthOf(t) \in Months
           /\ SumTo[MonthOf(t) - 1] <= DayNumber(t) % YearDays
           /\ DayNumber(t) % YearDays < SumTo[MonthOf(t)]
           /\ DayOf(t) \in Nat /\ DayOf(t) <= DayNumber(t) /\ DayOf(t) < MonthLengths[MonthOf(t)]
<1> DEFINE d == DayNumber(t) % YearDays
<1>1. /\ DayNumber(t) \in Nat /\ DayNumber(t) * DayMinutes <= t
      /\ t < (DayNumber(t) + 1) * DayMinutes
  BY CalendarTypes, Quotients DEF DayNumber
<1>2. d \in 0..(YearDays - 1) /\ d \in Nat
  <2>1. YearDays \in Nat \ {0}
    BY SumsGrow
  <2>2. d \in 0..(YearDays - 1)
    BY <1>1, <2>1, Quotients
  <2> QED
    BY <2>1, <2>2
<1>3. d <= DayNumber(t)
  <2>1. /\ d = DayNumber(t) - (DayNumber(t) \div YearDays) * YearDays
        /\ DayNumber(t) \div YearDays \in Nat
    BY <1>1, SumsGrow, Quotients, RestOf
  <2>2. (DayNumber(t) \div YearDays) * YearDays \in Nat
    BY <2>1, SumsGrow
  <2> QED
    BY <1>1, <2>1, <2>2
<1>4. MonthOf(t) \in Months /\ SumTo[MonthOf(t) - 1] <= d /\ d < SumTo[MonthOf(t)]
  <2>1. \E k \in Months : SumTo[k - 1] <= d /\ d < SumTo[k]
    BY <1>2, MonthExists
  <2> QED
    BY <2>1 DEF MonthOf, Months
<1>5. SumTo[MonthOf(t)] = SumTo[MonthOf(t) - 1] + MonthLengths[MonthOf(t)]
  BY <1>4, Sums
<1>6. SumTo[MonthOf(t) - 1] \in Nat /\ MonthLengths[MonthOf(t)] \in Nat
  BY <1>4, CalendarTypes, SumsGrow DEF Months
<1>7. DayOf(t) = d - SumTo[MonthOf(t) - 1]
  BY DEF DayOf
<1>8. DayOf(t) \in Nat /\ DayOf(t) <= DayNumber(t) /\ DayOf(t) < MonthLengths[MonthOf(t)]
  <2> HIDE DEF d
  <2> QED
    BY <1>1, <1>2, <1>3, <1>4, <1>5, <1>6, <1>7
<1> QED
  BY <1>1, <1>2, <1>4, <1>8

\* Two minutes of a day are in one month, and match the same days.
LEMMA SameDay ==
    ASSUME NEW t, NEW u, DayNumber(u) = DayNumber(t), NEW c
    PROVE  MonthOf(u) = MonthOf(t) /\ (CronDayMatches(c, u) <=> CronDayMatches(c, t))
<1>1. MonthOf(u) = MonthOf(t)
  BY DEF MonthOf
<1>2. DayOf(u) = DayOf(t) /\ WeekDayOf(u) = WeekDayOf(t)
  BY <1>1 DEF DayOf, WeekDayOf
<1> QED
  BY <1>1, <1>2 DEF CronDayMatches

\* The first of the next month: all the days up to it are in the month.
LEMMA SameMonth ==
    ASSUME NEW t \in Nat, NEW u \in Nat, t <= u, u < NextMonth(t)
    PROVE  MonthOf(u) = MonthOf(t)
<1> DEFINE m == MonthOf(t)
           n == DayNumber(t)
           k == DayNumber(u)
           d == n % YearDays
<1>1. /\ n \in Nat /\ n * DayMinutes <= t /\ m \in Months
      /\ SumTo[m - 1] <= d /\ d < SumTo[m] /\ d \in Nat
      /\ DayOf(t) \in Nat /\ DayOf(t) <= n
  BY DayFacts
<1>2. k \in Nat /\ k * DayMinutes <= u /\ u < (k + 1) * DayMinutes
  BY DayFacts
<1>3. /\ DayMinutes \in Nat \ {0} /\ YearDays \in Nat \ {0} /\ MonthLengths[m] \in Nat
      /\ SumTo[m - 1] \in Nat /\ SumTo[m] = SumTo[m - 1] + MonthLengths[m] /\ SumTo[m] <= YearDays
  <2>1. m \in 0..Len(MonthLengths) /\ m - 1 \in 0..Len(MonthLengths)
    BY <1>1, CalendarTypes DEF Months
  <2>2. Len(MonthLengths) \in 0..Len(MonthLengths) /\ m <= Len(MonthLengths)
    BY <1>1, CalendarTypes DEF Months
  <2> QED
    BY <1>1, <2>1, <2>2, CalendarTypes, Sums, SumsGrow DEF YearDays
<1>4. DayOf(t) = d - SumTo[m - 1]
  BY DEF DayOf
<1>5. NextMonth(t) = (n - DayOf(t) + MonthLengths[m]) * DayMinutes
  BY DEF NextMonth
<1> HIDE DEF m, n, k, d
<1>6. n <= k
  <2>1. n * DayMinutes < (k + 1) * DayMinutes
    BY <1>1, <1>2, <1>3
  <2> QED
    BY <1>1, <1>2, <1>3, <2>1
<1>7. k < n - DayOf(t) + MonthLengths[m]
  <2> DEFINE e == n - DayOf(t) + MonthLengths[m]
  <2>1. e \in Nat
    BY <1>1, <1>3
  <2>2. k * DayMinutes < e * DayMinutes
    BY <1>2, <1>3, <1>5, <2>1
  <2> HIDE DEF e
  <2>3. k < e
    BY <1>2, <1>3, <2>1, <2>2
  <2> QED
    BY <2>3 DEF e
<1>8. d + (k - n) < SumTo[m] /\ k - n \in Nat
  BY <1>1, <1>2, <1>3, <1>4, <1>6, <1>7
<1>9. k % YearDays = d + (k - n)
  <2>1. d + (k - n) < YearDays
    BY <1>1, <1>3, <1>8
  <2>2. n % YearDays = d
    BY DEF d
  <2>3. (n + (k - n)) % YearDays = d + (k - n)
    BY <1>1, <1>3, <1>8, <2>1, <2>2, RestMoves
  <2>4. n + (k - n) = k
    BY <1>1, <1>2
  <2> QED
    BY <2>3, <2>4
<1>10. /\ MonthOf(u) \in Months /\ SumTo[MonthOf(u) - 1] <= k % YearDays
       /\ k % YearDays < SumTo[MonthOf(u)] /\ k % YearDays \in Nat
  BY DayFacts DEF k
<1>11. SumTo[m - 1] <= k % YearDays /\ k % YearDays < SumTo[m]
  BY <1>1, <1>3, <1>8, <1>9
<1> QED
  BY <1>1, <1>10, <1>11, MonthUnique DEF m

-----------------------------------------------------------------------------
(* Cron expressions: the search. *)

\* The next minute to try is later, and at most a year later.
LEMMA SkipAhead ==
    ASSUME NEW c, NEW t \in Nat
    PROVE  Skip(c, t) \in Nat /\ t < Skip(c, t) /\ Skip(c, t) <= t + YearDays * DayMinutes
<1>1. /\ MinutesIn \in Nat \ {0} /\ HoursIn \in Nat \ {0} /\ DayMinutes \in Nat \ {0}
      /\ DayMinutes = MinutesIn * HoursIn
  BY CalendarTypes DEF DayMinutes
<1>2. YearDays \in Nat \ {0}
  BY SumsGrow
<1>3. /\ DayNumber(t) \in Nat /\ DayNumber(t) * DayMinutes <= t
      /\ t < (DayNumber(t) + 1) * DayMinutes
      /\ MonthOf(t) \in Months /\ DayOf(t) \in Nat /\ DayOf(t) <= DayNumber(t)
      /\ DayOf(t) < MonthLengths[MonthOf(t)]
  BY DayFacts
<1>4. YearDays * DayMinutes \in Nat /\ DayMinutes <= YearDays * DayMinutes
  BY <1>1, <1>2
<1>5. NextDay(t) \in Nat /\ t < NextDay(t) /\ NextDay(t) <= t + YearDays * DayMinutes
  <2>1. NextDay(t) = DayNumber(t) * DayMinutes + DayMinutes
    BY <1>1, <1>3 DEF NextDay
  <2>2. DayNumber(t) * DayMinutes \in Nat
    BY <1>1, <1>3
  <2>3. t < NextDay(t)
    BY <1>3 DEF NextDay
  <2> QED
    BY <1>1, <1>3, <1>4, <2>1, <2>2, <2>3
<1>6. NextHour(t) \in Nat /\ t < NextHour(t) /\ NextHour(t) <= t + YearDays * DayMinutes
  <2>1. /\ t \div MinutesIn \in Nat /\ (t \div MinutesIn) * MinutesIn <= t
        /\ t < (t \div MinutesIn + 1) * MinutesIn
    BY <1>1, Quotients
  <2>2. MinutesIn <= DayMinutes
    BY <1>1
  <2>3. (t \div MinutesIn + 1) * MinutesIn = (t \div MinutesIn) * MinutesIn + MinutesIn
    BY <1>1, <2>1
  <2>4. (t \div MinutesIn) * MinutesIn \in Nat
    BY <1>1, <2>1
  <2> QED
    BY <1>1, <1>4, <2>1, <2>2, <2>3, <2>4 DEF NextHour
<1>7. NextMonth(t) \in Nat /\ t < NextMonth(t) /\ NextMonth(t) <= t + YearDays * DayMinutes
  <2> DEFINE n == DayNumber(t)
             l == MonthLengths[MonthOf(t)]
             e == n - DayOf(t) + l
  <2>1. l \in Nat /\ l <= YearDays
    <3>1. /\ MonthOf(t) \in 0..Len(MonthLengths) /\ MonthOf(t) <= Len(MonthLengths)
          /\ Len(MonthLengths) \in 0..Len(MonthLengths)
      BY <1>3, CalendarTypes DEF Months
    <3>2. l \in Nat /\ l <= SumTo[MonthOf(t)] /\ SumTo[MonthOf(t)] <= SumTo[Len(MonthLengths)]
      BY <1>3, <3>1, CalendarTypes, SumsGrow
    <3>3. SumTo[MonthOf(t)] \in Nat /\ SumTo[Len(MonthLengths)] \in Nat
      BY <3>1, SumsGrow
    <3> QED
      BY <3>2, <3>3 DEF YearDays
  <2>2. NextMonth(t) = e * DayMinutes
    BY DEF NextMonth
  <2>3. n \in Nat /\ DayOf(t) \in Nat /\ DayOf(t) <= n /\ DayOf(t) < l
    BY <1>3
  <2> HIDE DEF l, n
  <2>4. e \in Nat /\ n + 1 <= e /\ e <= n + YearDays
    BY <1>2, <2>1, <2>3
  <2> HIDE DEF e
  <2>5. (n + 1) * DayMinutes <= e * DayMinutes /\ e * DayMinutes <= (n + YearDays) * DayMinutes
    BY <1>1, <1>2, <2>3, <2>4
  <2>6. (n + YearDays) * DayMinutes = n * DayMinutes + YearDays * DayMinutes
    BY <1>1, <1>2, <2>3
  <2>7. n * DayMinutes \in Nat /\ e * DayMinutes \in Nat /\ (n + 1) * DayMinutes \in Nat
    BY <1>1, <2>3, <2>4
  <2>8. n * DayMinutes <= t /\ t < (n + 1) * DayMinutes
    BY <1>3 DEF n
  <2> QED
    BY <1>4, <2>2, <2>5, <2>6, <2>7, <2>8
<1>8. t + 1 \in Nat /\ t < t + 1 /\ t + 1 <= t + YearDays * DayMinutes
  BY <1>1, <1>4
<1> QED
  BY <1>5, <1>6, <1>7, <1>8 DEF Skip

\* What is skipped does not match.
LEMMA SkippedNone ==
    ASSUME NEW c, NEW t \in Nat, ~Matches(c, t), NEW u \in Nat, t <= u, u < Skip(c, t)
    PROVE  ~Matches(c, u)
<1>1. /\ MinutesIn \in Nat \ {0} /\ DayMinutes \in Nat \ {0}
      /\ DayNumber(t) \in Nat /\ DayNumber(t) * DayMinutes <= t
  BY CalendarTypes, DayFacts
<1>2. CASE MonthOf(t) \notin c.months
  <2>1. MonthOf(u) = MonthOf(t)
    BY <1>2, SameMonth DEF Skip
  <2> QED
    BY <1>2, <2>1 DEF Matches
<1>3. CASE MonthOf(t) \in c.months /\ ~CronDayMatches(c, t)
  <2>1. u < (DayNumber(t) + 1) * DayMinutes
    BY <1>3 DEF Skip, NextDay
  <2>2. DayNumber(t) * DayMinutes <= u
    <3>1. DayNumber(t) * DayMinutes \in Nat
      BY <1>1
    <3> QED
      BY <1>1, <3>1
  <2>3. DayNumber(u) = DayNumber(t)
    BY <1>1, <2>1, <2>2, Quotients DEF DayNumber
  <2> QED
    BY <1>3, <2>3, SameDay DEF Matches
<1>4. CASE MonthOf(t) \in c.months /\ CronDayMatches(c, t) /\ HourOf(t) \notin c.hours
  <2>1. u < (t \div MinutesIn + 1) * MinutesIn
    BY <1>4 DEF Skip, NextHour
  <2>2. t \div MinutesIn \in Nat /\ (t \div MinutesIn) * MinutesIn <= t
    BY <1>1, Quotients
  <2>3. (t \div MinutesIn) * MinutesIn <= u
    <3>1. (t \div MinutesIn) * MinutesIn \in Nat
      BY <1>1, <2>2
    <3> QED
      BY <2>2, <3>1
  <2>4. u \div MinutesIn = t \div MinutesIn
    BY <1>1, <2>1, <2>2, <2>3, Quotients
  <2> QED
    BY <1>4, <2>4 DEF Matches, HourOf
<1>5. CASE MonthOf(t) \in c.months /\ CronDayMatches(c, t) /\ HourOf(t) \in c.hours
  <2>1. u = t
    BY <1>5 DEF Skip
  <2> QED
    BY <2>1
<1> QED
  BY <1>2, <1>3, <1>4, <1>5

\* The first match from a time to a limit, and what the search computes.
MatchesIn(x, t, limit) == {u \in t..limit : Matches(x, u)}
FirstIn(x, t, limit) ==
    IF MatchesIn(x, t, limit) = {} THEN NoTime
    ELSE CHOOSE u \in MatchesIn(x, t, limit) : \A v \in MatchesIn(x, t, limit) : u <= v

SearchesTo(x, limit, s) ==
    s = [t \in 0..(limit + YearDays * DayMinutes) |->
            IF t > limit THEN NoTime ELSE IF Matches(x, t) THEN t ELSE s[Skip(x, t)]]

LEMMA YearMinutes == YearDays * DayMinutes \in Nat \ {0}
<1>1. YearDays \in Nat \ {0} /\ DayMinutes \in Nat \ {0}
  BY CalendarTypes, SumsGrow
<1> QED
  BY <1>1

\* The first match past a time that does not match is the first from where it skips to.
LEMMA FirstAfter ==
    ASSUME NEW x, NEW limit \in Nat, NEW t \in Nat
    PROVE  /\ t > limit => FirstIn(x, t, limit) = NoTime
           /\ t <= limit /\ Matches(x, t) => FirstIn(x, t, limit) = t
           /\ t <= limit /\ ~Matches(x, t) => FirstIn(x, t, limit) = FirstIn(x, Skip(x, t), limit)
<1>1. ASSUME t > limit
      PROVE  FirstIn(x, t, limit) = NoTime
  <2>1. MatchesIn(x, t, limit) = {}
    BY <1>1 DEF MatchesIn
  <2> QED
    BY <2>1 DEF FirstIn
<1>2. ASSUME t <= limit, Matches(x, t)
      PROVE  FirstIn(x, t, limit) = t
  <2>1. t \in MatchesIn(x, t, limit) /\ \A v \in MatchesIn(x, t, limit) : v \in Nat /\ t <= v
    BY <1>2 DEF MatchesIn
  <2>2. ASSUME NEW u \in MatchesIn(x, t, limit), \A v \in MatchesIn(x, t, limit) : u <= v
        PROVE  u = t
    <3>1. u <= t /\ t <= u /\ u \in Nat
      BY <2>1, <2>2
    <3> QED
      BY <3>1
  <2> QED
    BY <2>1, <2>2 DEF FirstIn
<1>3. ASSUME t <= limit, ~Matches(x, t)
      PROVE  FirstIn(x, t, limit) = FirstIn(x, Skip(x, t), limit)
  <2>1. Skip(x, t) \in Nat /\ t < Skip(x, t)
    BY SkipAhead
  <2>2. ASSUME NEW u \in t..limit, Matches(x, u)
        PROVE  u \in Skip(x, t)..limit
    <3>1. ~(u < Skip(x, t))
      BY <1>3, <2>2, SkippedNone
    <3> QED
      BY <2>1, <3>1
  <2>3. MatchesIn(x, t, limit) = MatchesIn(x, Skip(x, t), limit)
    <3>1. Skip(x, t)..limit \subseteq t..limit
      BY <2>1
    <3> QED
      BY <2>2, <3>1 DEF MatchesIn
  <2> QED
    BY <2>3 DEF FirstIn
<1> QED
  BY <1>1, <1>2, <1>3

\* The recursive definition has a solution, and no other.
LEMMA SearchExists ==
    ASSUME NEW x, NEW limit \in Nat
    PROVE  \E s : SearchesTo(x, limit, s)
<1> DEFINE D == 0..(limit + YearDays * DayMinutes)
           s == [t \in D |-> FirstIn(x, t, limit)]
<1>1. YearDays * DayMinutes \in Nat
  BY YearMinutes
<1>2. ASSUME NEW t \in D
      PROVE  s[t] = IF t > limit THEN NoTime ELSE IF Matches(x, t) THEN t ELSE s[Skip(x, t)]
  <2>1. t \in Nat
    BY <1>1
  <2>2. CASE t > limit
    BY <2>1, <2>2, FirstAfter
  <2>3. CASE t <= limit /\ Matches(x, t)
    <3>1. ~(t > limit)
      BY <2>1, <2>3
    <3> QED
      BY <2>1, <2>3, <3>1, FirstAfter
  <2>4. CASE t <= limit /\ ~Matches(x, t)
    <3>1. ~(t > limit)
      BY <2>1, <2>4
    <3>2. Skip(x, t) \in D
      <4>1. Skip(x, t) \in Nat /\ Skip(x, t) <= t + YearDays * DayMinutes
        BY <2>1, SkipAhead
      <4> QED
        BY <1>1, <2>1, <2>4, <4>1
    <3>3. FirstIn(x, t, limit) = FirstIn(x, Skip(x, t), limit)
      BY <2>1, <2>4, FirstAfter
    <3> QED
      BY <2>4, <3>1, <3>2, <3>3
  <2> QED
    BY <2>1, <2>2, <2>3, <2>4
<1>3. s = [t \in D |->
            IF t > limit THEN NoTime ELSE IF Matches(x, t) THEN t ELSE s[Skip(x, t)]]
  BY <1>2
<1>4. SearchesTo(x, limit, s)
  BY <1>3 DEF SearchesTo
<1> QED
  BY <1>4

LEMMA SearchFinds ==
    ASSUME NEW x, NEW limit \in Nat, NEW s, SearchesTo(x, limit, s),
           NEW t \in 0..(limit + YearDays * DayMinutes)
    PROVE  s[t] = FirstIn(x, t, limit)
<1> DEFINE D == 0..(limit + YearDays * DayMinutes)
           S == {n \in Nat : \A u \in D : limit < u + n => s[u] = FirstIn(x, u, limit)}
<1>1. YearDays * DayMinutes \in Nat
  BY YearMinutes
<1>2. \A u \in D : s[u] = IF u > limit THEN NoTime
                          ELSE IF Matches(x, u) THEN u ELSE s[Skip(x, u)]
  BY DEF SearchesTo
<1>3. \A u \in D : u \in Nat
  BY <1>1
<1> HIDE DEF D
<1>4. 0 \in S
  BY <1>2, <1>3, FirstAfter
<1>5. ASSUME NEW n \in S
      PROVE  n + 1 \in S
  <2> SUFFICES ASSUME NEW u \in D, limit < u + (n + 1)
               PROVE  s[u] = FirstIn(x, u, limit)
    OBVIOUS
  <2>1. u \in Nat
    BY <1>3
  <2>2. CASE u > limit
    BY <1>2, <2>1, <2>2, FirstAfter
  <2>3. CASE u <= limit /\ Matches(x, u)
    <3>1. ~(u > limit)
      BY <2>1, <2>3
    <3> QED
      BY <1>2, <2>1, <2>3, <3>1, FirstAfter
  <2>4. CASE u <= limit /\ ~Matches(x, u)
    <3>1. ~(u > limit)
      BY <2>1, <2>4
    <3>2. /\ Skip(x, u) \in Nat /\ u < Skip(x, u)
          /\ Skip(x, u) <= u + YearDays * DayMinutes
      BY <2>1, SkipAhead
    <3>3. Skip(x, u) \in D /\ limit < Skip(x, u) + n
      BY <1>1, <2>1, <2>4, <3>2 DEF D
    <3>4. s[Skip(x, u)] = FirstIn(x, Skip(x, u), limit)
      BY <3>3
    <3> QED
      BY <1>2, <2>1, <2>4, <3>1, <3>4, FirstAfter
  <2> QED
    BY <2>1, <2>2, <2>3, <2>4
<1>6. S = Nat
  <2> HIDE DEF S
  <2> QED
    BY <1>4, <1>5, SetOfNat DEF S
<1>7. limit + 1 \in S
  <2> HIDE DEF S
  <2> QED
    BY <1>6
<1>8. t \in D /\ t \in Nat
  BY <1>3 DEF D
<1>9. limit < t + (limit + 1)
  BY <1>8
<1> QED
  BY <1>7, <1>8, <1>9

\* next_fire is the first match of the year that follows, whatever the expression and the
\* calendar (next_fire).
LEMMA FiresFirst ==
    ASSUME NEW c \in DOMAIN Expressions, NEW after \in 0..Horizon
    PROVE  /\ NextFire[c][after] = FirstMatch[c][after]
           /\ NextFire[c][after] # NoTime => NextFire[c][after] \in Nat /\ after < NextFire[c][after]
<1> DEFINE limit == SearchFrom(after) + YearDays * DayMinutes
           x == CronOf[c]
           first == FirstIn(x, after + 1, limit)
<1>1. after \in Nat /\ limit \in Nat /\ limit = after + 1 + YearDays * DayMinutes
  BY YearMinutes, CalendarTypes DEF Horizon, SearchFrom
<1>2. c \in DOMAIN CronOf
  BY DEF CronOf
<1>3. NextFire[c][after] = first
  <2>1. NextFire[c][after] = (CHOOSE s : SearchesTo(x, limit, s))[SearchFrom(after)]
    BY <1>2 DEF NextFire, SearchesTo
  <2>2. SearchesTo(x, limit, CHOOSE s : SearchesTo(x, limit, s))
    BY <1>1, SearchExists
  <2>3. SearchFrom(after) = after + 1 /\ after + 1 \in 0..(limit + YearDays * DayMinutes)
    BY <1>1, YearMinutes DEF SearchFrom
  <2> HIDE DEF limit, x
  <2> QED
    BY <1>1, <2>1, <2>2, <2>3, SearchFinds
<1>4. FirstMatch[c][after] = first
  <2>1. MatchesIn(x, after + 1, limit) =
          {t \in (after + 1)..(after + 1 + YearDays * DayMinutes) : Matches(CronOf[c], t)}
    BY <1>1 DEF MatchesIn
  <2>2. FirstMatch[c][after] =
          LET later == {t \in (after + 1)..(after + 1 + YearDays * DayMinutes) : Matches(CronOf[c], t)}
          IN  IF later = {} THEN NoTime ELSE CHOOSE t \in later : \A u \in later : t <= u
    BY <1>2 DEF FirstMatch
  <2> QED
    BY <2>1, <2>2 DEF FirstIn
<1>5. first # NoTime => first \in Nat /\ after < first
  <2> SUFFICES ASSUME MatchesIn(x, after + 1, limit) # {}
               PROVE  first \in Nat /\ after < first
    BY DEF FirstIn
  <2>1. MatchesIn(x, after + 1, limit) \subseteq Nat
    BY <1>1 DEF MatchesIn
  <2>2. \E u \in MatchesIn(x, after + 1, limit) : \A v \in MatchesIn(x, after + 1, limit) : u <= v
    BY <2>1, Earliest
  <2>3. first \in MatchesIn(x, after + 1, limit)
    BY <2>2 DEF FirstIn
  <2> QED
    BY <1>1, <2>3 DEF MatchesIn
<1> QED
  BY <1>3, <1>4, <1>5

-----------------------------------------------------------------------------
(* The schedules. *)

SchedRow ==
    [enabled : BOOLEAN, every : Intervals \cup {0}, cron : Crons \cup {"none"},
     last : (0..minute) \cup {-1}, created : 0..minute]

\* A row has an interval or an expression, and was not started before it was created.
RowSound(r) ==
    /\ r \in SchedRow
    /\ r.every # 0 \/ r.cron # "none"
    /\ r.last # -1 => r.created <= r.last

SchedTypes ==
    /\ minute \in 0..MaxMinutes
    /\ DOMAIN table \subseteq Ids /\ table = [s \in DOMAIN table |-> table[s]]
    /\ \A s \in DOMAIN table : RowSound(table[s])
    /\ stage \in {"idle", "read", "loop", "mark"}
    /\ snapshot \in Seq([s : Ids, at : 0..minute])
    /\ stage = "mark" => snapshot # <<>>
    /\ stage = "idle" => snapshot = <<>> /\ ~counted
    /\ counted \in BOOLEAN /\ waiting \subseteq Ids
    /\ mishaps \in Nat
    /\ fired \in [Ids -> [0..MaxMinutes -> Nat]]

\* The snapshot names each row once.  What it still has to enqueue was not enqueued yet,
\* but for what mishaps repeat; what was enqueued is marked, or about to be, or its row is gone.
Pending(k) == k # 1 \/ stage # "mark"
AboutToMark(s, t) == stage = "mark" /\ snapshot[1].s = s /\ snapshot[1].at = t

SnapshotOnce == \A j, k \in DOMAIN snapshot : snapshot[j].s = snapshot[k].s => j = k
NotYet ==
    \A k \in DOMAIN snapshot : Pending(k) => fired[snapshot[k].s][snapshot[k].at] <= mishaps
Marked ==
    \A s \in DOMAIN table, t \in 0..MaxMinutes :
        fired[s][t] > mishaps => t <= table[s].last \/ AboutToMark(s, t)
AtMostOnce == \A s \in Ids, t \in 0..MaxMinutes : fired[s][t] <= mishaps + 1

\* What waits is counted as started, about to be, or strays.
WaitsCounted ==
    ~counted => \A s \in waiting : s \in strays \/ (stage = "mark" /\ snapshot[1].s = s)

SchedInv == SchedTypes /\ SnapshotOnce /\ NotYet /\ Marked /\ AtMostOnce /\ WaitsCounted

\* What is assumed of the schedules, in the terms of this module.
LEMMA SchedAssumed ==
    /\ IsFiniteSet(Ids) /\ Ids \subseteq Nat /\ "none" \notin Crons
    /\ Intervals \subseteq Nat \ {0} /\ MaxMinutes \in Nat /\ Crons \subseteq DOMAIN Expressions
    /\ \A S : Sched!Cardinality(S) = Cardinality(S)
<1>1. \A S : Sched!IsFiniteSet(S) <=> IsFiniteSet(S)
  BY DEF Sched!IsFiniteSet, IsFiniteSet
<1>2. \A S : Sched!Cardinality(S) = Cardinality(S)
  BY DEF Sched!Cardinality, Cardinality
<1> QED
  BY <1>1, <1>2, ServerAssumption DEF Sched!SchedulesAssumption

\* A row is due later than it was started last, and at a time (next_run_at).
LEMMA DueLater ==
    ASSUME minute \in 0..MaxMinutes, NEW r, RowSound(r)
    PROVE  Sched!DueAt(r) # -1 => Sched!DueAt(r) \in Nat /\ r.last < Sched!DueAt(r)
<1>1. /\ minute \in Nat /\ r.last \in (0..minute) \cup {-1} /\ r.created \in 0..minute
      /\ r.every \in Intervals \cup {0} /\ r.cron \in Crons \cup {"none"}
      /\ r.every # 0 \/ r.cron # "none"
  BY SchedAssumed DEF RowSound, SchedRow
<1>2. CASE r.cron # "none"
  <2>1. Sched!Reference(r) \in 0..minute /\ (r.last # -1 => Sched!Reference(r) = r.last)
    BY <1>1 DEF Sched!Reference, Sched!NoTime
  <2>2. r.cron \in DOMAIN Expressions /\ Sched!Reference(r) \in 0..Horizon
    <3>1. MaxMinutes \in Nat /\ YearDays * DayMinutes \in Nat
      BY SchedAssumed, YearMinutes
    <3> QED
      BY <1>1, <1>2, <2>1, <3>1, SchedAssumed DEF Horizon
  <2>3. Sched!DueAt(r) = NextFire[r.cron][Sched!Reference(r)]
    BY <1>2 DEF Sched!DueAt, Sched!NoCron
  <2>4. Sched!DueAt(r) # -1 => Sched!DueAt(r) \in Nat /\ Sched!Reference(r) < Sched!DueAt(r)
    BY <2>2, <2>3, FiresFirst DEF NoTime
  <2> QED
    BY <1>1, <2>1, <2>4
<1>3. CASE r.cron = "none"
  <2>1. r.every \in Nat \ {0}
    BY <1>1, <1>3, SchedAssumed
  <2>2. Sched!DueAt(r) = IF r.last = -1 THEN r.created ELSE r.last + r.every
    BY <1>3 DEF Sched!DueAt, Sched!NoCron, Sched!NoTime
  <2> QED
    BY <1>1, <2>1, <2>2
<1> QED
  BY <1>2, <1>3

\* What neither fires nor touches the tick keeps the invariant, if rows keep their last start
\* and new ones never fired.
LEMMA SchedQuiet ==
    ASSUME SchedInv, UNCHANGED <<stage, snapshot, counted, waiting, mishaps, fired, strays>>,
           minute <= minute', minute' \in 0..MaxMinutes,
           DOMAIN table' \subseteq Ids, table' = [s \in DOMAIN table' |-> table'[s]],
           \A s \in DOMAIN table' : RowSound(table[s])',
           \A s \in DOMAIN table' : \/ s \in DOMAIN table /\ table'[s].last = table[s].last
                                    \/ fired[s] = [t \in 0..MaxMinutes |-> 0]
    PROVE  SchedInv'
<1>1. SchedTypes /\ SnapshotOnce /\ NotYet /\ Marked /\ AtMostOnce /\ WaitsCounted
  BY DEF SchedInv
<1>2. minute \in Nat /\ minute' \in Nat /\ MaxMinutes \in Nat
  BY <1>1, SchedAssumed DEF SchedTypes
<1>3. SchedTypes'
  <2> DEFINE A == [s : Ids, at : 0..minute]
             B == [s : Ids, at : 0..minute']
  <2>1. snapshot' \in Seq(B)
    <3>1. A \subseteq B
      BY <1>2
    <3>2. snapshot \in Seq(A) /\ snapshot' = snapshot
      BY <1>1 DEF SchedTypes
    <3> HIDE DEF A, B
    <3>3. snapshot \in Seq(B)
      BY <3>1, <3>2, SeqMonotonic
    <3> QED
      BY <3>2, <3>3
  <2> QED
    BY <1>1, <2>1 DEF SchedTypes
<1>4. SnapshotOnce' /\ NotYet' /\ AtMostOnce' /\ WaitsCounted'
  BY <1>1 DEF SnapshotOnce, NotYet, Pending, AtMostOnce, WaitsCounted
<1>5. Marked'
  <2> SUFFICES ASSUME NEW s \in DOMAIN table', NEW t \in 0..MaxMinutes, fired[s][t] > mishaps
               PROVE  t <= table'[s].last \/ AboutToMark(s, t)'
    BY DEF Marked
  <2>1. mishaps \in Nat
    BY <1>1 DEF SchedTypes
  <2>2. ASSUME fired[s] = [u \in 0..MaxMinutes |-> 0]
        PROVE  FALSE
    <3>1. fired[s][t] = 0
      BY <2>2
    <3> QED
      BY <2>1, <3>1
  <2>3. s \in DOMAIN table /\ table'[s].last = table[s].last
    BY <2>2
  <2> QED
    BY <1>1, <2>3 DEF Marked, AboutToMark
<1> QED
  BY <1>3, <1>4, <1>5 DEF SchedInv

\* Requests, and time.
LEMMA SchedRequests ==
    ASSUME SchedInv, NEW s \in Ids,
           Sched!Create(s) \/ Sched!Switch(s) \/ Sched!Recur(s) \/ Sched!Delete(s)
    PROVE  SchedInv'
<1>1. SchedTypes
  BY DEF SchedInv
<1>2. UNCHANGED <<minute, stage, snapshot, counted, waiting, mishaps, fired, strays>>
  BY DEF Sched!Create, Sched!Switch, Sched!Recur, Sched!Delete, Sched!Served, Sched!tick
<1>3. /\ minute \in Nat /\ minute \in 0..MaxMinutes /\ minute' = minute /\ MaxMinutes \in Nat
      /\ DOMAIN table \subseteq Ids
      /\ \A x \in DOMAIN table : RowSound(table[x])
  BY <1>1, <1>2, SchedAssumed DEF SchedTypes
<1>4. ASSUME NEW x \in DOMAIN table
      PROVE  /\ table[x] \in SchedRow /\ (table[x].every # 0 \/ table[x].cron # "none")
             /\ (table[x].last # -1 => table[x].created <= table[x].last)
  BY <1>3 DEF RowSound
<1>5. SchedRow' = SchedRow
  BY <1>2 DEF SchedRow
<1>6. CASE Sched!Create(s)
  <2>1. PICK e \in Intervals \cup {0}, c \in Crons \cup {"none"} :
          /\ (e = 0) # (c = "none")
          /\ table' = [x \in DOMAIN table \cup {s} |->
                         IF x = s THEN [enabled |-> TRUE, every |-> e, cron |-> c,
                                        last |-> -1, created |-> minute]
                         ELSE table[x]]
    BY <1>6 DEF Sched!Create, Sched!Live, Sched!NoHours, Sched!NoCron, Sched!NoTime
  <2>2. s \notin DOMAIN table /\ fired[s] = [t \in 0..MaxMinutes |-> 0]
    BY <1>6 DEF Sched!Create, Sched!Live
  <2>3. /\ DOMAIN table' = DOMAIN table \cup {s}
        /\ table'[s] = [enabled |-> TRUE, every |-> e, cron |-> c, last |-> -1, created |-> minute]
        /\ \A x \in DOMAIN table : table'[x] = table[x]
    BY <2>1, <2>2
  <2>4. table'[s] \in SchedRow /\ (table'[s].every # 0 \/ table'[s].cron # "none") /\ table'[s].last = -1
    BY <1>3, <2>1, <2>3 DEF SchedRow
  <2>5. \A x \in DOMAIN table' : RowSound(table[x])'
    BY <1>4, <1>5, <2>3, <2>4 DEF RowSound
  <2>6. table' = [x \in DOMAIN table' |-> table'[x]]
    BY <2>1
  <2> QED
    BY <1>2, <1>3, <2>2, <2>3, <2>5, <2>6, SchedQuiet
<1>7. CASE Sched!Switch(s)
  <2>1. s \in DOMAIN table /\ table' = [table EXCEPT ![s].enabled = ~table[s].enabled]
    BY <1>7 DEF Sched!Switch, Sched!Live
  <2>2. /\ DOMAIN table' = DOMAIN table
        /\ table'[s] = [table[s] EXCEPT !.enabled = ~table[s].enabled]
        /\ \A x \in DOMAIN table \ {s} : table'[x] = table[x]
    BY <1>1, <2>1 DEF SchedTypes
  <2>3. table[s] \in SchedRow
    BY <1>4, <2>1
  <2>4. /\ table'[s] \in SchedRow /\ table'[s].every = table[s].every /\ table'[s].cron = table[s].cron
        /\ table'[s].last = table[s].last /\ table'[s].created = table[s].created
    BY <2>2, <2>3 DEF SchedRow
  <2>5. \A x \in DOMAIN table' : RowSound(table[x])'
    BY <1>4, <1>5, <2>1, <2>2, <2>4 DEF RowSound
  <2>6. table' = [x \in DOMAIN table' |-> table'[x]]
    BY <1>1, <2>1 DEF SchedTypes
  <2> QED
    BY <1>2, <1>3, <2>1, <2>2, <2>4, <2>5, <2>6, SchedQuiet
<1>8. CASE Sched!Recur(s)
  <2>1. s \in DOMAIN table
    BY <1>8 DEF Sched!Recur, Sched!Live
  <2>2. PICK e \in Intervals \cup {0, table[s].every}, c \in Crons \cup {"none", table[s].cron} :
          /\ e # 0 \/ c # "none"
          /\ table' = [table EXCEPT ![s].every = e, ![s].cron = c]
    BY <1>8 DEF Sched!Recur, Sched!NoHours, Sched!NoCron
  <2>3. /\ DOMAIN table' = DOMAIN table
        /\ table'[s] = [table[s] EXCEPT !.every = e, !.cron = c]
        /\ \A x \in DOMAIN table \ {s} : table'[x] = table[x]
    BY <1>1, <2>1, <2>2 DEF SchedTypes
  <2>4. table[s] \in SchedRow
    BY <1>4, <2>1
  <2>5. /\ table'[s] \in SchedRow /\ table'[s].every = e /\ table'[s].cron = c
        /\ table'[s].last = table[s].last /\ table'[s].created = table[s].created
    <3>1. table'[s] = [enabled |-> table[s].enabled, every |-> e, cron |-> c,
                       last |-> table[s].last, created |-> table[s].created]
      BY <2>3, <2>4 DEF SchedRow
    <3>2. e \in Intervals \cup {0} /\ c \in Crons \cup {"none"}
      BY <2>2, <2>4 DEF SchedRow
    <3> QED
      BY <2>4, <3>1, <3>2 DEF SchedRow
  <2>6. \A x \in DOMAIN table' : RowSound(table[x])'
    BY <1>4, <1>5, <2>1, <2>2, <2>3, <2>5 DEF RowSound
  <2>7. table' = [x \in DOMAIN table' |-> table'[x]]
    BY <1>1, <2>2 DEF SchedTypes
  <2>8. \A x \in DOMAIN table' : x \in DOMAIN table /\ table'[x].last = table[x].last
    BY <2>3, <2>5
  <2> QED
    BY <1>2, <1>3, <2>3, <2>6, <2>7, <2>8, SchedQuiet
<1>9. CASE Sched!Delete(s)
  <2>1. table' = [x \in DOMAIN table \ {s} |-> table[x]]
    BY <1>9 DEF Sched!Delete, Sched!Live, Sched!Restrict
  <2>2. DOMAIN table' \subseteq DOMAIN table /\ \A x \in DOMAIN table' : table'[x] = table[x]
    BY <2>1
  <2>3. \A x \in DOMAIN table' : RowSound(table[x])'
    BY <1>4, <1>5, <2>2 DEF RowSound
  <2>4. table' = [x \in DOMAIN table' |-> table'[x]]
    BY <2>1
  <2> QED
    BY <1>2, <1>3, <2>2, <2>3, <2>4, SchedQuiet
<1> QED
  BY <1>6, <1>7, <1>8, <1>9

\* The tick reads the rows that are due: what was fired for one of them before it was due
\* again is behind its last start.
LEMMA SchedReads ==
    ASSUME SchedInv, Sched!TickReads
    PROVE  SchedInv'
<1>1. SchedTypes /\ SnapshotOnce /\ NotYet /\ Marked /\ AtMostOnce /\ WaitsCounted
  BY DEF SchedInv
<1>2. UNCHANGED <<table, minute, counted, waiting, mishaps, fired, strays>>
  BY DEF Sched!TickReads
<1>3. stage = "idle" /\ stage' = "read"
  BY DEF Sched!TickReads
<1> DEFINE D == Sched!DueRows
<1>4. PICK order \in Sched!InOrder(D) :
        snapshot' = [k \in DOMAIN order |->
                       [s |-> order[k], at |-> Sched!DueAt(table[order[k]])]]
  BY DEF Sched!TickReads
<1>5. /\ minute \in Nat /\ minute \in 0..MaxMinutes /\ MaxMinutes \in Nat /\ mishaps \in Nat
      /\ DOMAIN table \subseteq Ids /\ \A s \in DOMAIN table : RowSound(table[s])
  BY <1>1, SchedAssumed DEF SchedTypes
<1>6. ASSUME NEW s \in D
      PROVE  /\ s \in DOMAIN table /\ s \in Ids
             /\ Sched!DueAt(table[s]) \in 0..minute
             /\ table[s].last < Sched!DueAt(table[s])
  <2>1. /\ s \in DOMAIN table /\ Sched!DueAt(table[s]) # -1 /\ Sched!DueAt(table[s]) <= minute
    BY DEF Sched!DueRows, Sched!IsDue, Sched!Live, Sched!NoTime
  <2>2. Sched!DueAt(table[s]) \in Nat /\ table[s].last < Sched!DueAt(table[s])
    BY <1>5, <2>1, DueLater
  <2> QED
    BY <1>5, <2>1, <2>2
<1>7. /\ Cardinality(D) \in Nat /\ order \in [1..Cardinality(D) -> D]
      /\ \A j, k \in DOMAIN order : j < k => Sched!Before(order[j], order[k])
  <2>1. IsFiniteSet(Ids)
    BY SchedAssumed
  <2>2. D \subseteq Ids
    BY <1>6
  <2>3. Cardinality(D) \in Nat
    BY <2>1, <2>2, FS_Subset, FS_CardinalityType
  <2>4. Sched!Cardinality(D) = Cardinality(D)
    BY SchedAssumed
  <2> QED
    BY <2>3, <2>4 DEF Sched!InOrder
<1> DEFINE n == Cardinality(D)
<1>8. /\ DOMAIN snapshot' = 1..n /\ n \in Nat
      /\ \A k \in 1..n : /\ order[k] \in D
                         /\ snapshot'[k] = [s |-> order[k], at |-> Sched!DueAt(table[order[k]])]
  BY <1>4, <1>7
<1>9. snapshot' \in Seq([s : Ids, at : 0..minute])
  <2>1. \A k \in 1..n : [s |-> order[k], at |-> Sched!DueAt(table[order[k]])] \in [s : Ids, at : 0..minute]
    BY <1>6, <1>8
  <2>2. snapshot' \in [1..n -> [s : Ids, at : 0..minute]]
    BY <1>4, <1>7, <2>1
  <2> QED
    BY <1>8, <2>2, SeqDef
<1> HIDE DEF D, n
<1>10. SchedTypes'
  BY <1>1, <1>2, <1>3, <1>9 DEF SchedTypes, RowSound, SchedRow
<1>11. SnapshotOnce'
  <2> SUFFICES ASSUME NEW j \in 1..n, NEW k \in 1..n, snapshot'[j].s = snapshot'[k].s
               PROVE  j = k
    BY <1>8 DEF SnapshotOnce
  <2>1. order[j] = order[k] /\ order[j] \in D /\ j \in Nat /\ k \in Nat
    BY <1>8
  <2>2. ~Sched!Before(order[j], order[j])
    <3>1. order[j] \in Nat /\ table[order[j]].created \in Nat
      BY <1>5, <1>6, <2>1, SchedAssumed DEF RowSound, SchedRow
    <3> QED
      BY <3>1 DEF Sched!Before
  <2>3. DOMAIN order = 1..n
    BY <1>7 DEF n
  <2>4. ~(j < k) /\ ~(k < j)
    BY <1>7, <2>1, <2>2, <2>3
  <2> QED
    BY <2>1, <2>4
<1>12. NotYet'
  <2> SUFFICES ASSUME NEW k \in 1..n
               PROVE  fired[snapshot'[k].s][snapshot'[k].at] <= mishaps
    BY <1>2, <1>8 DEF NotYet
  <2> DEFINE s == order[k]
             t == Sched!DueAt(table[order[k]])
  <2>1. snapshot'[k].s = s /\ snapshot'[k].at = t /\ s \in D
    BY <1>8
  <2>2. s \in DOMAIN table /\ t \in 0..minute /\ table[s].last < t /\ s \in Ids
    BY <1>6, <2>1
  <2>3. t \in 0..MaxMinutes /\ table[s].last \in Int
    BY <1>5, <2>2 DEF RowSound, SchedRow
  <2>4. fired[s][t] \in Nat
    BY <1>1, <2>2, <2>3 DEF SchedTypes
  <2> HIDE DEF s, t
  <2>5. ~(fired[s][t] > mishaps)
    <3>1. ~AboutToMark(s, t)
      BY <1>3 DEF AboutToMark
    <3>2. t \in Int /\ ~(t <= table[s].last)
      BY <2>2, <2>3
    <3> QED
      BY <1>1, <2>2, <2>3, <3>1, <3>2 DEF Marked
  <2> QED
    BY <1>5, <2>1, <2>4, <2>5
<1>13. Marked'
  BY <1>1, <1>2, <1>3 DEF Marked, AboutToMark
<1>14. AtMostOnce' /\ WaitsCounted'
  BY <1>1, <1>2, <1>3 DEF AtMostOnce, WaitsCounted
<1> QED
  BY <1>10, <1>11, <1>12, <1>13, <1>14 DEF SchedInv

\* What is left when the first of the snapshot is done with.
LEMMA SnapshotLeft ==
    ASSUME SchedTypes, SnapshotOnce, snapshot # <<>>, NEW q, q = Tail(snapshot)
    PROVE  /\ snapshot[1] = Head(snapshot) /\ snapshot[1] \in [s : Ids, at : 0..minute]
           /\ 1 \in DOMAIN snapshot
           /\ q \in Seq([s : Ids, at : 0..minute])
           /\ \A k \in DOMAIN q : /\ k + 1 \in DOMAIN snapshot /\ k + 1 # 1 /\ q[k] = snapshot[k + 1]
                                  /\ q[k].s # snapshot[1].s
           /\ \A j, k \in DOMAIN q : q[j].s = q[k].s => j = k
           /\ \A k \in DOMAIN snapshot : snapshot[k] \in [s : Ids, at : 0..minute] /\ k \in Nat
<1> DEFINE R == [s : Ids, at : 0..minute]
<1>1. snapshot \in Seq(R)
  BY DEF SchedTypes
<1> HIDE DEF R
<1>2. /\ Len(snapshot) \in Nat \ {0} /\ DOMAIN snapshot = 1..Len(snapshot)
      /\ \A k \in 1..Len(snapshot) : snapshot[k] \in R
  BY <1>1, EmptySeq, LenProperties, ElementOfSeq
<1>3. /\ q \in Seq(R) /\ Len(q) = Len(snapshot) - 1 /\ DOMAIN q = 1..Len(q)
      /\ \A k \in 1..Len(q) : q[k] = snapshot[k + 1]
  BY <1>1, HeadTailProperties, LenProperties
<1>4. ASSUME NEW k \in DOMAIN q
      PROVE  k \in Nat /\ k + 1 \in DOMAIN snapshot /\ k + 1 # 1 /\ q[k] = snapshot[k + 1]
  BY <1>2, <1>3
<1>5. 1 \in DOMAIN snapshot /\ snapshot[1] = Head(snapshot)
  BY <1>1, <1>2
<1>6. \A k \in DOMAIN q : q[k].s # snapshot[1].s
  BY <1>4, <1>5 DEF SnapshotOnce
<1>7. \A j, k \in DOMAIN q : q[j].s = q[k].s => j = k
  <2> SUFFICES ASSUME NEW j \in DOMAIN q, NEW k \in DOMAIN q, q[j].s = q[k].s
               PROVE  j = k
    OBVIOUS
  <2>1. j + 1 = k + 1
    BY <1>4 DEF SnapshotOnce
  <2> QED
    BY <1>4, <2>1
<1> QED
  BY <1>2, <1>3, <1>4, <1>5, <1>6, <1>7 DEF R

\* A due row gets a run, or a failure leaves it for the next tick.
LEMMA SchedEnqueues ==
    ASSUME SchedInv, Sched!Enqueues
    PROVE  SchedInv'
<1>1. SchedTypes /\ SnapshotOnce /\ NotYet /\ Marked /\ AtMostOnce /\ WaitsCounted
  BY DEF SchedInv
<1>2. UNCHANGED <<table, minute, counted, strays>>
  BY DEF Sched!Enqueues
<1>3. stage \in {"read", "loop"} /\ snapshot # <<>> /\ stage # "mark"
  BY DEF Sched!Enqueues
<1> DEFINE s == snapshot[1].s
           t == snapshot[1].at
<1>4. /\ minute \in Nat /\ minute <= MaxMinutes /\ MaxMinutes \in Nat /\ mishaps \in Nat
      /\ DOMAIN table \subseteq Ids
      /\ fired \in [Ids -> [0..MaxMinutes -> Nat]]
  BY <1>1, SchedAssumed DEF SchedTypes
<1>5. /\ Head(snapshot) = snapshot[1] /\ 1 \in DOMAIN snapshot
      /\ s \in Ids /\ t \in 0..minute /\ t \in 0..MaxMinutes
  <2>1. snapshot[1] = Head(snapshot) /\ snapshot[1] \in [s : Ids, at : 0..minute] /\ 1 \in DOMAIN snapshot
    BY <1>1, <1>3, SnapshotLeft
  <2> QED
    BY <1>4, <2>1
<1> HIDE DEF s, t
<1>6. fired[s][t] <= mishaps /\ fired[s][t] \in Nat
  <2>1. Pending(1)
    BY <1>3 DEF Pending
  <2> QED
    BY <1>1, <1>4, <1>5, <2>1 DEF NotYet, s, t
<1>7. CASE /\ stage' = "mark" /\ fired' = [fired EXCEPT ![s][t] = fired[s][t] + 1]
           /\ waiting' = waiting \cup {s} /\ UNCHANGED <<snapshot, mishaps>>
  <2>1. /\ fired' \in [Ids -> [0..MaxMinutes -> Nat]] /\ fired'[s][t] = fired[s][t] + 1
        /\ \A x \in Ids, u \in 0..MaxMinutes : x # s \/ u # t => fired'[x][u] = fired[x][u]
    BY <1>4, <1>5, <1>6, <1>7
  <2>2. SchedTypes'
    BY <1>1, <1>2, <1>3, <1>5, <1>7, <2>1 DEF SchedTypes, RowSound, SchedRow
  <2>3. SnapshotOnce'
    BY <1>1, <1>7 DEF SnapshotOnce
  <2>4. NotYet'
    <3> SUFFICES ASSUME NEW k \in DOMAIN snapshot, k # 1
                 PROVE  fired'[snapshot[k].s][snapshot[k].at] <= mishaps
      BY <1>7 DEF NotYet, Pending
    <3>1. snapshot[k].s # s
      BY <1>1, <1>5 DEF SnapshotOnce, s
    <3>2. snapshot[k] \in [s : Ids, at : 0..minute]
      BY <1>1, <1>3, SnapshotLeft
    <3>3. snapshot[k].s \in Ids /\ snapshot[k].at \in 0..MaxMinutes
      BY <1>4, <3>2
    <3>4. fired[snapshot[k].s][snapshot[k].at] <= mishaps
      BY <1>1 DEF NotYet, Pending
    <3> QED
      BY <2>1, <3>1, <3>3, <3>4
  <2>5. Marked'
    <3> SUFFICES ASSUME NEW x \in DOMAIN table, NEW u \in 0..MaxMinutes, fired'[x][u] > mishaps
                 PROVE  u <= table[x].last \/ (x = s /\ u = t)
      BY <1>2, <1>7 DEF Marked, AboutToMark, s, t
    <3>1. CASE x # s \/ u # t
      <4>1. fired[x][u] > mishaps
        BY <1>4, <2>1, <3>1
      <4>2. ~AboutToMark(x, u)
        BY <1>3 DEF AboutToMark
      <4> QED
        BY <1>1, <4>1, <4>2 DEF Marked
    <3> QED
      BY <3>1
  <2>6. AtMostOnce'
    <3> SUFFICES ASSUME NEW x \in Ids, NEW u \in 0..MaxMinutes
                 PROVE  fired'[x][u] <= mishaps + 1
      BY <1>7 DEF AtMostOnce
    <3>1. fired[x][u] <= mishaps + 1
      BY <1>1 DEF AtMostOnce
    <3>2. CASE x = s /\ u = t
      <4>1. fired'[x][u] = fired[s][t] + 1
        BY <2>1, <3>2
      <4> QED
        BY <1>4, <1>6, <4>1
    <3>3. CASE x # s \/ u # t
      BY <2>1, <3>1, <3>3
    <3> QED
      BY <3>2, <3>3
  <2>7. WaitsCounted'
    BY <1>1, <1>2, <1>3, <1>7 DEF WaitsCounted, s
  <2> QED
    BY <2>2, <2>3, <2>4, <2>5, <2>6, <2>7 DEF SchedInv
<1>8. CASE /\ mishaps' = mishaps + 1 /\ stage' = "loop" /\ snapshot' = Tail(snapshot)
           /\ UNCHANGED <<fired, waiting>>
  <2>1. /\ snapshot' \in Seq([s : Ids, at : 0..minute])
        /\ \A k \in DOMAIN snapshot' : /\ k + 1 \in DOMAIN snapshot /\ k + 1 # 1
                                       /\ snapshot'[k] = snapshot[k + 1]
        /\ \A j, k \in DOMAIN snapshot' : snapshot'[j].s = snapshot'[k].s => j = k
    BY <1>1, <1>3, <1>8, SnapshotLeft
  <2>2. \A k \in DOMAIN snapshot' : snapshot'[k] \in [s : Ids, at : 0..minute]
    BY <1>1, <1>3, <2>1, SnapshotLeft
  <2>3. SchedTypes'
    BY <1>1, <1>2, <1>4, <1>8, <2>1 DEF SchedTypes, RowSound, SchedRow
  <2>4. SnapshotOnce'
    BY <2>1 DEF SnapshotOnce
  <2>5. NotYet'
    <3> SUFFICES ASSUME NEW k \in DOMAIN snapshot'
                 PROVE  fired[snapshot'[k].s][snapshot'[k].at] <= mishaps + 1
      BY <1>8 DEF NotYet
    <3>1. snapshot'[k].s \in Ids /\ snapshot'[k].at \in 0..MaxMinutes
      BY <1>4, <2>2
    <3> QED
      BY <1>1, <3>1 DEF AtMostOnce
  <2>6. Marked' /\ AtMostOnce'
    <3>1. ASSUME NEW x \in Ids, NEW u \in 0..MaxMinutes
          PROVE  fired'[x][u] <= mishaps' /\ fired'[x][u] \in Nat /\ mishaps' \in Nat
      BY <1>1, <1>4, <1>8 DEF AtMostOnce
    <3> QED
      BY <1>2, <1>4, <3>1 DEF Marked, AtMostOnce
  <2>7. WaitsCounted'
    BY <1>1, <1>2, <1>3, <1>8 DEF WaitsCounted
  <2> QED
    BY <2>3, <2>4, <2>5, <2>6, <2>7 DEF SchedInv
<1> QED
  BY <1>5, <1>7, <1>8 DEF Sched!Enqueues, Sched!Now, s, t

\* The start is recorded, unless the write fails or the row is gone.
LEMMA SchedMarks ==
    ASSUME SchedInv, Sched!MarksStarted
    PROVE  SchedInv'
<1>1. SchedTypes /\ SnapshotOnce /\ NotYet /\ Marked /\ AtMostOnce /\ WaitsCounted
  BY DEF SchedInv
<1>2. UNCHANGED <<minute, waiting, fired>>
  BY DEF Sched!MarksStarted
<1>3. stage = "mark" /\ stage' = "loop" /\ snapshot' = Tail(snapshot) /\ snapshot # <<>>
  BY <1>1 DEF Sched!MarksStarted, SchedTypes
<1> DEFINE s == snapshot[1].s
           t == snapshot[1].at
<1>4. /\ minute \in Nat /\ minute <= MaxMinutes /\ MaxMinutes \in Nat /\ mishaps \in Nat
      /\ DOMAIN table \subseteq Ids /\ \A x \in DOMAIN table : RowSound(table[x])
      /\ fired \in [Ids -> [0..MaxMinutes -> Nat]]
  BY <1>1, SchedAssumed DEF SchedTypes
<1>5. /\ Head(snapshot) = snapshot[1] /\ s \in Ids /\ t \in 0..minute
      /\ snapshot' \in Seq([s : Ids, at : 0..minute])
      /\ \A k \in DOMAIN snapshot' : /\ k + 1 \in DOMAIN snapshot /\ k + 1 # 1
                                     /\ snapshot'[k] = snapshot[k + 1]
      /\ SnapshotOnce'
  <2>1. snapshot[1] \in [s : Ids, at : 0..minute] /\ Head(snapshot) = snapshot[1]
    BY <1>1, <1>3, SnapshotLeft
  <2>2. /\ snapshot' \in Seq([s : Ids, at : 0..minute])
        /\ \A k \in DOMAIN snapshot' : /\ k + 1 \in DOMAIN snapshot /\ k + 1 # 1
                                       /\ snapshot'[k] = snapshot[k + 1]
        /\ \A j, k \in DOMAIN snapshot' : snapshot'[j].s = snapshot'[k].s => j = k
    BY <1>1, <1>3, SnapshotLeft
  <2> QED
    BY <2>1, <2>2 DEF SnapshotOnce
<1>6. \A k \in DOMAIN snapshot' : fired[snapshot'[k].s][snapshot'[k].at] <= mishaps
  BY <1>1, <1>5 DEF NotYet, Pending
<1>7. \A k \in DOMAIN snapshot' : snapshot'[k].s \in Ids /\ snapshot'[k].at \in 0..MaxMinutes
  <2>1. \A k \in DOMAIN snapshot' : snapshot'[k] \in [s : Ids, at : 0..minute]
    BY <1>5, <1>1, <1>3, SnapshotLeft
  <2> QED
    BY <1>4, <2>1
<1>8. ASSUME NEW x \in DOMAIN table
      PROVE  table[x] \in SchedRow /\ table[x].last \in Int /\ table[x].last <= minute
  BY <1>4 DEF RowSound, SchedRow
<1> HIDE DEF s, t
<1>9. CASE /\ s \in DOMAIN table /\ table' = [table EXCEPT ![s].last = minute]
           /\ counted' = TRUE /\ UNCHANGED <<mishaps, strays>>
  <2>1. /\ DOMAIN table' = DOMAIN table /\ table'[s] = [table[s] EXCEPT !.last = minute]
        /\ \A x \in DOMAIN table \ {s} : table'[x] = table[x]
        /\ table' = [x \in DOMAIN table' |-> table'[x]]
    BY <1>1, <1>9 DEF SchedTypes
  <2>2. /\ table'[s] \in SchedRow /\ table'[s].last = minute /\ table'[s].created = table[s].created
        /\ table'[s].every = table[s].every /\ table'[s].cron = table[s].cron
    <3>1. table[s] \in SchedRow
      BY <1>8, <1>9
    <3>2. table'[s] = [enabled |-> table[s].enabled, every |-> table[s].every, cron |-> table[s].cron,
                       last |-> minute, created |-> table[s].created]
      BY <2>1, <3>1 DEF SchedRow
    <3>3. minute \in (0..minute) \cup {-1}
      BY <1>4
    <3> QED
      BY <3>1, <3>2, <3>3 DEF SchedRow
  <2>3. SchedRow' = SchedRow
    BY <1>2 DEF SchedRow
  <2>4. \A x \in DOMAIN table' : RowSound(table[x])'
    <3>1. table'[s].created <= minute
      BY <1>4, <2>2 DEF SchedRow
    <3> QED
      BY <1>4, <1>9, <2>1, <2>2, <2>3, <3>1 DEF RowSound
  <2>5. SchedTypes'
    BY <1>1, <1>2, <1>3, <1>5, <1>9, <2>1, <2>4 DEF SchedTypes
  <2>6. NotYet' /\ AtMostOnce' /\ WaitsCounted'
    BY <1>1, <1>2, <1>6, <1>9 DEF NotYet, AtMostOnce, WaitsCounted
  <2>7. Marked'
    <3> SUFFICES ASSUME NEW x \in DOMAIN table, NEW u \in 0..MaxMinutes, fired[x][u] > mishaps
                 PROVE  u <= table'[x].last
      BY <1>2, <1>9, <2>1 DEF Marked
    <3>1. u <= table[x].last \/ AboutToMark(x, u)
      BY <1>1 DEF Marked
    <3>2. CASE u <= table[x].last
      <4>1. x # s => table'[x].last = table[x].last
        BY <2>1
      <4>2. table[x].last <= minute /\ table[x].last \in Int
        BY <1>8
      <4> QED
        BY <1>4, <2>2, <3>2, <4>1, <4>2
    <3>3. CASE AboutToMark(x, u)
      <4>1. x = s /\ u = t
        BY <3>3 DEF AboutToMark, s, t
      <4> QED
        BY <1>5, <2>2, <4>1
    <3> QED
      BY <3>1, <3>2, <3>3
  <2> QED
    BY <1>5, <2>5, <2>6, <2>7 DEF SchedInv
<1>10. CASE /\ \/ s \notin DOMAIN table /\ UNCHANGED mishaps
               \/ mishaps' = mishaps + 1
            /\ strays' = strays \cup {s} /\ UNCHANGED <<table, counted>>
  <2>1. mishaps' \in Nat /\ mishaps <= mishaps'
    BY <1>4, <1>10
  <2>2. SchedTypes'
    BY <1>1, <1>2, <1>3, <1>5, <1>10, <2>1 DEF SchedTypes, RowSound, SchedRow
  <2>3. NotYet'
    <3>1. \A k \in DOMAIN snapshot' : fired[snapshot'[k].s][snapshot'[k].at] \in Nat
      BY <1>4, <1>7
    <3> QED
      BY <1>2, <1>4, <1>6, <2>1, <3>1 DEF NotYet
  <2>4. AtMostOnce'
    <3>1. \A x \in Ids, u \in 0..MaxMinutes : fired[x][u] \in Nat /\ fired[x][u] <= mishaps + 1
      BY <1>1, <1>4 DEF AtMostOnce
    <3> QED
      BY <1>2, <1>4, <2>1, <3>1 DEF AtMostOnce
  <2>5. Marked'
    <3> SUFFICES ASSUME NEW x \in DOMAIN table, NEW u \in 0..MaxMinutes, fired[x][u] > mishaps'
                 PROVE  u <= table[x].last
      BY <1>2, <1>10 DEF Marked
    <3>1. fired[x][u] \in Nat /\ fired[x][u] <= mishaps + 1
      BY <1>1, <1>4 DEF AtMostOnce
    <3>2. s \notin DOMAIN table /\ mishaps' = mishaps
      BY <1>4, <1>10, <3>1
    <3>3. ~AboutToMark(x, u)
      BY <3>2 DEF AboutToMark, s
    <3> QED
      BY <1>1, <3>2, <3>3 DEF Marked
  <2>6. WaitsCounted'
    BY <1>1, <1>2, <1>3, <1>10 DEF WaitsCounted, s
  <2> QED
    BY <1>5, <2>2, <2>3, <2>4, <2>5, <2>6 DEF SchedInv
<1> QED
  BY <1>5, <1>9, <1>10 DEF Sched!MarksStarted, Sched!Now, Sched!Live, s

\* The tick ends, or is cut; a minute passes.
LEMMA SchedEnds ==
    ASSUME SchedInv, Sched!TickEnds \/ Sched!Crash \/ Sched!MinutePasses
    PROVE  SchedInv'
<1>1. SchedTypes /\ SnapshotOnce /\ NotYet /\ Marked /\ AtMostOnce /\ WaitsCounted
  BY DEF SchedInv
<1>2. /\ minute \in Nat /\ minute \in 0..MaxMinutes /\ MaxMinutes \in Nat /\ mishaps \in Nat
      /\ DOMAIN table \subseteq Ids /\ \A x \in DOMAIN table : RowSound(table[x])
      /\ fired \in [Ids -> [0..MaxMinutes -> Nat]]
  BY <1>1, SchedAssumed DEF SchedTypes
<1>3. CASE Sched!TickEnds
  <2>1. /\ UNCHANGED <<table, minute, snapshot, mishaps, fired, strays>> /\ counted' = FALSE
        /\ stage \in {"read", "loop"} /\ stage' = "idle" /\ snapshot = <<>>
        /\ waiting' = IF counted THEN {} ELSE waiting
    BY <1>3 DEF Sched!TickEnds, Sched!Pumped
  <2>2. SchedTypes'
    BY <1>1, <2>1 DEF SchedTypes, RowSound, SchedRow
  <2>3. SnapshotOnce' /\ NotYet' /\ Marked' /\ AtMostOnce'
    BY <1>1, <2>1 DEF SnapshotOnce, NotYet, Pending, Marked, AboutToMark, AtMostOnce
  <2>4. WaitsCounted'
    BY <1>1, <2>1 DEF WaitsCounted
  <2> QED
    BY <2>2, <2>3, <2>4 DEF SchedInv
<1>4. CASE Sched!Crash
  <2>1. /\ UNCHANGED <<table, minute, fired, strays>> /\ counted' = FALSE
        /\ stage' = "idle" /\ snapshot' = <<>> /\ waiting' = {} /\ mishaps' = mishaps + 1
    BY <1>4 DEF Sched!Crash
  <2>2. SchedTypes'
    <3>1. snapshot' \in Seq([s : Ids, at : 0..minute'])
      BY <2>1
    <3>2. mishaps' \in Nat /\ minute' = minute
      BY <1>2, <2>1
    <3>3. \A x \in DOMAIN table' : RowSound(table[x])'
      BY <1>2, <2>1 DEF RowSound, SchedRow
    <3> QED
      BY <1>1, <2>1, <3>1, <3>2, <3>3 DEF SchedTypes
  <2>3. SnapshotOnce' /\ NotYet' /\ WaitsCounted'
    BY <2>1 DEF SnapshotOnce, NotYet, WaitsCounted
  <2>4. Marked' /\ AtMostOnce'
    <3>1. ASSUME NEW x \in Ids, NEW u \in 0..MaxMinutes
          PROVE  fired'[x][u] <= mishaps' /\ fired'[x][u] \in Nat /\ mishaps' \in Nat
      BY <1>1, <1>2, <2>1 DEF AtMostOnce
    <3> QED
      BY <1>2, <2>1, <3>1 DEF Marked, AtMostOnce
  <2> QED
    BY <2>2, <2>3, <2>4 DEF SchedInv
<1>5. CASE Sched!MinutePasses
  <2>1. /\ UNCHANGED <<table, stage, snapshot, counted, waiting, mishaps, fired, strays>>
        /\ minute < MaxMinutes /\ minute' = minute + 1
    BY <1>5 DEF Sched!MinutePasses, Sched!tick
  <2>2. minute <= minute' /\ minute' \in 0..MaxMinutes /\ minute' \in Nat
    BY <1>2, <2>1
  <2>3. \A x \in DOMAIN table' : RowSound(table[x])'
    <3>1. SchedRow \subseteq SchedRow'
      BY <1>2, <2>2 DEF SchedRow
    <3> QED
      BY <1>2, <2>1, <3>1 DEF RowSound
  <2>4. table' = [x \in DOMAIN table' |-> table'[x]]
    BY <1>1, <2>1 DEF SchedTypes
  <2> QED
    BY <1>2, <2>1, <2>2, <2>3, <2>4, SchedQuiet
<1> QED
  BY <1>3, <1>4, <1>5

LEMMA SchedStarts ==
    ASSUME Sched!Init
    PROVE  SchedInv
<1>1. /\ table = <<>> /\ minute = 0 /\ stage = "idle" /\ snapshot = <<>> /\ counted = FALSE
      /\ waiting = {} /\ mishaps = 0
      /\ fired = [s \in Ids |-> [t \in 0..MaxMinutes |-> 0]]
  BY DEF Sched!Init
<1>2. DOMAIN table = {} /\ DOMAIN snapshot = {} /\ snapshot \in Seq([s : Ids, at : 0..minute])
  BY <1>1
<1>3. table = [s \in DOMAIN table |-> table[s]]
  BY <1>1
<1>4. fired \in [Ids -> [0..MaxMinutes -> Nat]]
  BY <1>1
<1>5. SchedTypes
  <2>1. minute \in 0..MaxMinutes /\ mishaps \in Nat
    BY <1>1, SchedAssumed
  <2>2. stage = "idle" /\ snapshot = <<>> /\ counted = FALSE /\ waiting = {}
    BY <1>1
  <2> QED
    BY <1>2, <1>3, <1>4, <2>1, <2>2 DEF SchedTypes
<1>6. \A s \in Ids, t \in 0..MaxMinutes : fired[s][t] = 0
  BY <1>1
<1>7. SnapshotOnce /\ NotYet /\ Marked /\ AtMostOnce /\ WaitsCounted
  BY <1>1, <1>2, <1>6 DEF SnapshotOnce, NotYet, Marked, AtMostOnce, WaitsCounted
<1> QED
  BY <1>5, <1>7 DEF SchedInv

\* Every step of the schedules keeps it.
LEMMA SchedStep ==
    ASSUME SchedInv, [Sched!Next]_(Sched!vars)
    PROVE  SchedInv'
<1>1. CASE UNCHANGED Sched!vars
  <2>1. UNCHANGED <<table, minute, stage, snapshot, counted, waiting, mishaps, fired, strays>>
    BY <1>1 DEF Sched!vars, Sched!tick
  <2>2. SchedTypes' /\ SnapshotOnce'
    BY <2>1 DEF SchedInv, SchedTypes, RowSound, SchedRow, SnapshotOnce
  <2> QED
    BY <2>1, <2>2 DEF SchedInv, NotYet, Pending, Marked, AboutToMark, AtMostOnce, WaitsCounted
<1>2. CASE Sched!Next
  BY <1>2, SchedReads, SchedEnqueues, SchedMarks, SchedEnds, SchedRequests
     DEF Sched!Next, Sched!Tick
<1> QED
  BY <1>1, <1>2

\* The inductive invariant of the schedules: what is still to be enqueued was not, and what
\* was is marked or about to be (_schedules_tick).
THEOREM SchedInvariantHolds == ServerSpec => []SchedInv
<1>1. ServerInit => SchedInv
  BY SchedStarts DEF ServerInit
<1>2. SchedInv /\ [ServerNext]_serverVars => SchedInv'
  BY SchedStep, ServerSteps
<1> QED
  BY <1>1, <1>2, PTL DEF ServerSpec

\* A schedule fires once for each time it is due, and once more at most for each crash or
\* failed write; what it enqueued is left to a later pump only if the start was not
\* recorded (_schedules_tick, ScheduleStore.due).
THEOREM SchedulesStaySound == ServerSpec => []SchedulesSound
<1>1. SchedInv => Sched!SchedulesSound
  <2> SUFFICES ASSUME SchedInv PROVE Sched!SchedulesSound
    OBVIOUS
  <2>1. SchedTypes /\ AtMostOnce /\ WaitsCounted
    BY DEF SchedInv
  <2>2. Sched!TypeOK
    <3>1. ASSUME NEW s \in DOMAIN table
          PROVE  /\ table[s].every # 0 \/ table[s].cron # "none"
                 /\ table[s].last # -1 => table[s].last \in table[s].created..minute
      <4>1. /\ RowSound(table[s]) /\ minute \in Nat
        BY <2>1, SchedAssumed DEF SchedTypes
      <4> QED
        BY <4>1 DEF RowSound, SchedRow
    <3> QED
      BY <2>1, <3>1 DEF SchedTypes, Sched!TypeOK, Sched!Live, Sched!NoHours, Sched!NoCron, Sched!NoTime
  <2>3. Sched!FiredOnce
    <3>1. \A s \in Ids, t \in 0..MaxMinutes : fired[s][t] \in Nat /\ mishaps \in Nat
      BY <2>1 DEF SchedTypes
    <3> QED
      BY <2>1, <3>1 DEF AtMostOnce, Sched!FiredOnce
  <2>4. Sched!LeftWaiting
    BY <2>1 DEF SchedTypes, WaitsCounted, Sched!LeftWaiting
  <2> QED
    BY <2>2, <2>3, <2>4 DEF Sched!SchedulesSound
<1> QED
  BY <1>1, SchedInvariantHolds, PTL DEF SchedulesSound

\* The search of a cron expression finds the first minute that matches, however it skips
\* months, days and hours, whatever the expression and the calendar (next_fire).
THEOREM NextFireStaysFirst == ServerSpec => []NextFireIsFirst
<1>1. SchedInv => FirstFrom(minute)
  <2> SUFFICES ASSUME SchedInv, NEW c \in DOMAIN CronOf, NEW d \in 0..(YearDays - 1)
               PROVE  NextFire[c][minute + d * DayMinutes] = FirstMatch[c][minute + d * DayMinutes]
    BY DEF FirstFrom
  <2>1. minute \in Nat /\ minute <= MaxMinutes /\ MaxMinutes \in Nat
    BY SchedAssumed DEF SchedInv, SchedTypes
  <2>2. YearDays \in Nat /\ DayMinutes \in Nat
    BY CalendarTypes, SumsGrow
  <2>3. /\ d * DayMinutes \in Nat /\ YearDays * DayMinutes \in Nat
        /\ d * DayMinutes <= YearDays * DayMinutes
    BY <2>2
  <2>4. minute + d * DayMinutes \in 0..Horizon
    BY <2>1, <2>3 DEF Horizon
  <2>5. c \in DOMAIN Expressions
    BY DEF CronOf
  <2> QED
    BY <2>4, <2>5, FiresFirst
<1> QED
  BY <1>1, SchedInvariantHolds, PTL DEF NextFireIsFirst

-----------------------------------------------------------------------------
(* The server. *)

\* Each part keeps what it promises, whatever steps of the others come in between (create_app).
THEOREM ServerStaysSound == ServerSpec => []ServerSound
<1>1. ServerInit => IInv
  BY InitIInv DEF ServerInit
<1>2. IInv /\ [ServerNext]_serverVars => IInv'
  BY InvariantStep, ServerSteps
<1>3. QueueInv /\ PollerSound /\ WorkspacesSound /\ RegistryKept /\ SchedulesSound => ServerSound
  BY DEF ServerSound
<1> QED
  BY <1>1, <1>2, <1>3, QueueGives, PollerStaysSound, WorkspacesStaySound, RegistryStaysKept,
     SchedulesStaySound, PTL DEF ServerSpec
=============================================================================
