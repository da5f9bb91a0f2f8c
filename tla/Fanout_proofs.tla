---------------------------- MODULE Fanout_proofs ----------------------------
(***************************************************************************)
(* Theorems about Fanout, for every set of projects, every dependencies    *)
(* among them and every bound.                                             *)
(***************************************************************************)
EXTENDS Fanout, TLAPS, FiniteSetTheorems, WellFoundedInduction

N == Cardinality(Projects)

\* The projects of the waves under way or over were told what all their upstream projects
\* came to; the others have not begun.
Told ==
    /\ \A s \in Projects \ DoneAfter(wave) : child[s] = "none"
    /\ \A s \in DoneAfter(wave) : heard[s] = deps[s] /\ \A u \in deps[s] : results[u] # "none"

\* The waves that are over have the results of all their children.
WavesOver ==
    /\ stage \in {"next", "rollup"} => \A s \in DoneAfter(wave) : child[s] \in Statuses
    /\ stage \in {"first", "gather"} =>
          wave > 0 /\ \A s \in DoneAfter(wave - 1) : child[s] \in Statuses
    /\ stage = "first" => wave = 1
    /\ stage = "rollup" => DoneAfter(wave) = Projects

\* No child exists of a fan-out that is not valid, or not validated.
Validated ==
    /\ stage = "validate" => wave = 0
    /\ wave > 0 \/ stage \notin {"validate", "closed"} => ~Cyclic

\* A result is that of a child that returned, and its row says whose it is as long as the
\* parent's store is open; a broken engine is counted.
ResultsOwn ==
    \A s \in Projects :
        /\ results[s] = IF child[s] \in Statuses THEN child[s] ELSE "none"
        /\ child[s] \in Statuses /\ stage # "closed" => s \in linked
        /\ child[s] = "broken" => s \in broken

FanInv == TypeOK /\ Told /\ WavesOver /\ Validated /\ ResultsOwn /\ RollupTrue

-----------------------------------------------------------------------------
(* The waves. *)

\* Induction over the natural numbers, for a set of them.
LEMMA NatSetInduction ==
    ASSUME NEW S, S \subseteq Nat, 0 \in S, \A n \in S : n + 1 \in S
    PROVE  S = Nat
<1> DEFINE R == OpToRel(<, Nat)
<1>1. IsWellFoundedOn(R, Nat)
  BY NatLessThanWellFounded, Zenon
<1>2. \A x, y \in Nat : <<x, y>> \in R <=> x < y
  BY DEF OpToRel
<1> HIDE DEF R
<1>3. SUFFICES ASSUME Nat \ S # {} PROVE FALSE
  OBVIOUS
<1>4. PICK m \in Nat \ S : \A y \in Nat \ S : ~(<<y, m>> \in R)
  BY <1>1, <1>3, WFMin
<1>5. m - 1 \in Nat /\ m - 1 < m /\ (m - 1) + 1 = m
  BY <1>4
<1>6. m - 1 \in S
  BY <1>2, <1>4, <1>5
<1> QED
  BY <1>4, <1>5, <1>6

\* The waves are what _dependency_waves computes: the recursive definition has a solution,
\* by induction on the number of waves.
LEMMA DoneDef ==
     Done = [k \in 0..Cardinality(Projects) |->
                    IF k = 0 THEN {} ELSE {s \in Projects : deps[s] \subseteq Done[k - 1]}]
<1> DEFINE Upto(n, f) == \A k \in 0..n :
               f[k] = IF k = 0 THEN {} ELSE {s \in Projects : deps[s] \subseteq f[k - 1]}
           S == {n \in Nat : \E f : Upto(n, f)}
<1>1. 0 \in S
  <2>1. Upto(0, [k \in {0} |-> {}])
    OBVIOUS
  <2> QED
    BY <2>1
<1>2. ASSUME NEW n \in S
      PROVE  n + 1 \in S
  <2>1. PICK f : Upto(n, f)
    OBVIOUS
  <2> DEFINE g == [k \in 0..(n + 1) |-> IF k = n + 1 THEN {s \in Projects : deps[s] \subseteq f[n]}
                                         ELSE f[k]]
  <2>2. n \in Nat
    OBVIOUS
  <2>3. ASSUME NEW k \in 0..(n + 1)
        PROVE  g[k] = IF k = 0 THEN {} ELSE {s \in Projects : deps[s] \subseteq g[k - 1]}
    <3>1. CASE k = n + 1
      <4>1. k # 0 /\ k - 1 = n /\ n \in 0..(n + 1) /\ n # n + 1
        BY <2>2, <3>1
      <4>2. g[k] = {s \in Projects : deps[s] \subseteq f[n]} /\ g[k - 1] = f[n]
        BY <3>1, <4>1
      <4> QED
        BY <4>1, <4>2
    <3>2. CASE k # n + 1
      <4>1. k \in 0..n /\ (k # 0 => k - 1 \in 0..(n + 1) /\ k - 1 # n + 1)
        BY <2>2, <3>2
      <4>2. g[k] = f[k] /\ (k # 0 => g[k - 1] = f[k - 1])
        BY <3>2, <4>1
      <4> QED
        BY <2>1, <4>1, <4>2
    <3> QED
      BY <3>1, <3>2
  <2>4. Upto(n + 1, g)
    BY <2>3
  <2> HIDE DEF Upto, g
  <2>5. n + 1 \in Nat /\ \E u : Upto(n + 1, u)
    BY <2>2, <2>4
  <2> QED
    BY <2>5
<1>3. S = Nat
  <2> HIDE DEF Upto
  <2>1. S \subseteq Nat
    OBVIOUS
  <2> HIDE DEF S
  <2> QED
    BY <1>1, <1>2, <2>1, NatSetInduction
<1>4. Cardinality(Projects) \in Nat
  BY FanoutAssumption, FS_CardinalityType
<1>5. PICK f : Upto(Cardinality(Projects), f)
  <2>1. Cardinality(Projects) \in S
    BY <1>3, <1>4
  <2> HIDE DEF Upto
  <2> QED
    BY <2>1
<1> DEFINE h == [k \in 0..Cardinality(Projects) |-> f[k]]
<1>6. h = [k \in 0..Cardinality(Projects) |->
             IF k = 0 THEN {} ELSE {s \in Projects : deps[s] \subseteq h[k - 1]}]
  <2>1. \A k \in 0..Cardinality(Projects) : k # 0 => h[k - 1] = f[k - 1]
    BY <1>4
  <2> QED
    BY <1>5, <2>1
<1> HIDE DEF h
<1>7. \E g : g = [k \in 0..Cardinality(Projects) |->
             IF k = 0 THEN {} ELSE {s \in Projects : deps[s] \subseteq g[k - 1]}]
  BY <1>6
<1> QED
  BY <1>7, Zenon DEF Done

\* The waves depend on the dependencies alone.
LEMMA DoneSame ==
    ASSUME deps' = deps
    PROVE  Done' = Done
BY DEF Done

\* Every wave only depends on earlier waves, and a project once done stays so.
LEMMA DoneFacts ==
    /\ N \in Nat
    /\ DoneAfter(0) = {}
    /\ \A k \in 0..N : DoneAfter(k) \subseteq Projects
    /\ \A k \in 0..N : k < N => /\ DoneAfter(k) \subseteq DoneAfter(k + 1)
                                /\ \A s \in DoneAfter(k + 1) : deps[s] \subseteq DoneAfter(k)
<1>1. N \in Nat
  BY FanoutAssumption, FS_CardinalityType DEF N
<1>2. \A k \in 0..N : Done[k] = IF k = 0 THEN {} ELSE {s \in Projects : deps[s] \subseteq Done[k - 1]}
  BY DoneDef DEF N
<1>3. Done[0] = {}
  <2>1. 0 \in 0..N
    BY <1>1
  <2> QED
    BY <1>2, <2>1
<1>4. \A k \in 0..N : Done[k] \subseteq Projects
  BY <1>2
<1>5. \A k \in 0..N : k < N => Done[k + 1] = {s \in Projects : deps[s] \subseteq Done[k]}
  <2> SUFFICES ASSUME NEW k \in 0..N, k < N
               PROVE  Done[k + 1] = {s \in Projects : deps[s] \subseteq Done[k]}
    OBVIOUS
  <2>1. k + 1 \in 0..N /\ k + 1 # 0 /\ (k + 1) - 1 = k
    BY <1>1
  <2> QED
    BY <1>2, <2>1
<1>6. \A k \in Nat : k < N => Done[k] \subseteq Done[k + 1]
  <2> DEFINE S == {k \in Nat : k < N => Done[k] \subseteq Done[k + 1]}
  <2>1. 0 \in S
    BY <1>3
  <2>2. ASSUME NEW k \in S
        PROVE  k + 1 \in S
    <3>1. k \in Nat /\ (k < N => Done[k] \subseteq Done[k + 1])
      OBVIOUS
    <3>2. ASSUME k + 1 < N
          PROVE  Done[k + 1] \subseteq Done[(k + 1) + 1]
      <4>1. k \in 0..N /\ k < N /\ k + 1 \in 0..N
        BY <1>1, <3>1, <3>2
      <4>2. /\ Done[k + 1] = {s \in Projects : deps[s] \subseteq Done[k]}
            /\ Done[(k + 1) + 1] = {s \in Projects : deps[s] \subseteq Done[k + 1]}
        BY <1>5, <3>2, <4>1
      <4> QED
        BY <3>1, <4>1, <4>2
    <3> QED
      BY <3>1, <3>2
  <2>3. S \subseteq Nat
    OBVIOUS
  <2>4. S = Nat
    <3> HIDE DEF S
    <3> QED
      BY <2>1, <2>2, <2>3, NatSetInduction
  <2> QED
    BY <2>4
<1>7. \A k \in 0..N : k < N => /\ Done[k] \subseteq Done[k + 1]
                               /\ \A s \in Done[k + 1] : deps[s] \subseteq Done[k]
  BY <1>1, <1>5, <1>6
<1> QED
  BY <1>1, <1>3, <1>4, <1>7 DEF DoneAfter

\* The waves do not change.
LEMMA WavesSame ==
    ASSUME [Next]_vars
    PROVE  /\ config' = config
           /\ \A k : DoneAfter(k)' = DoneAfter(k) /\ Wave(k)' = Wave(k)
           /\ Cyclic' = Cyclic
<1>1. config' = config
  BY DEF Next, Parent, Validate, StartWave, StartRest, WaveDone, Rollup, GatherRaises, ParentCancelled, Cancel,
     Child, ChildStarts, ChildBreaks, ChildEnds, ChildCancelled, vars
<1>2. Done' = Done
  BY <1>1, DoneSame DEF config
<1> QED
  BY <1>1, <1>2 DEF DoneAfter, Wave, Cyclic

-----------------------------------------------------------------------------
(* Each conjunct of the invariant. *)

\* The semaphore has as many permits as the setting says, and one at least.
LEMMA PermitsKept ==
    ASSUME TypeOK, NEW s \in Projects, Cardinality(holds) < Limit
    PROVE  Cardinality(holds \cup {s}) <= Limit
<1>1. IsFiniteSet(holds)
  BY FanoutAssumption, FS_Subset DEF TypeOK
<1>2. Cardinality(holds) \in Nat
  BY <1>1, FS_CardinalityType
<1>4. Cardinality(holds \cup {s}) = IF s \in holds THEN Cardinality(holds) ELSE Cardinality(holds) + 1
  BY <1>1, FS_AddElement
<1>3. Limit \in Int
  BY FanoutAssumption DEF Limit, TypeOK
<1> QED
  BY <1>2, <1>3, <1>4

\* What is given back is no more than what was taken.
LEMMA PermitsReturned ==
    ASSUME TypeOK, NEW s \in Projects
    PROVE  Cardinality(holds \ {s}) <= Limit
<1>1. IsFiniteSet(holds)
  BY FanoutAssumption, FS_Subset DEF TypeOK
<1>2. /\ Cardinality(holds) \in Nat /\ Cardinality(holds \ {s}) \in Nat
      /\ Cardinality(holds \ {s}) <= Cardinality(holds)
  BY <1>1, FS_CardinalityType, FS_RemoveElement, FS_Subset
<1>3. Limit \in Int
  BY FanoutAssumption DEF Limit, TypeOK
<1> QED
  BY <1>2, <1>3 DEF TypeOK

\* What the parent does keeps types.
LEMMA ParentTypes ==
    ASSUME TypeOK, Validated, Parent
    PROVE  TypeOK'
<1> USE DEF config, Statuses, Ended, Active, Limit
<1>1. CASE Validate \/ WaveDone \/ GatherRaises \/ ParentCancelled
  BY <1>1 DEF Validate, WaveDone, GatherRaises, ParentCancelled, TypeOK
<1>2. CASE Rollup
  BY <1>2 DEF Rollup, Overall, TypeOK
<1>3. CASE StartWave
  <2>1. wave + 1 \in 0..N
    <3>1. wave # N
      BY <1>3, DoneFacts DEF StartWave, Validated, Cyclic, N
    <3> QED
      BY <3>1, DoneFacts DEF TypeOK, N
  <2>2. heard' \in [Projects -> SUBSET Projects]
    BY <1>3 DEF StartWave, TypeOK, Deps
  <2> DEFINE now == IF stagger /\ wave = 0 /\ Cardinality(Wave(wave + 1)) > 1
                    THEN {First(Wave(wave + 1))} ELSE Wave(wave + 1)
  <2>3. /\ child' = [s \in Projects |-> IF s \in now THEN "waiting" ELSE child[s]]
        /\ stage' \in {"first", "gather"} /\ wave' = wave + 1
        /\ UNCHANGED <<config, holds, results, linked, row, broken, cancels>>
    BY <1>3 DEF StartWave
  <2> HIDE DEF now
  <2> QED
    BY <2>1, <2>2, <2>3 DEF TypeOK, N
<1>4. CASE StartRest
  BY <1>4 DEF StartRest, TypeOK
<1> QED
  BY <1>1, <1>2, <1>3, <1>4 DEF Parent

\* Type correctness is inductive.
LEMMA TypeStep ==
    ASSUME TypeOK, Validated, [Next]_vars
    PROVE  TypeOK'
<1> USE DEF config, Statuses, Ended, Active
<1>1. ASSUME NEW s \in Projects, ChildStarts(s)
      PROVE  TypeOK'
  <2>1. Cardinality(holds') <= Limit'
    BY <1>1, PermitsKept DEF ChildStarts, TypeOK, Limit
  <2> QED
    BY <1>1, <2>1 DEF ChildStarts, TypeOK
<1>2. ASSUME NEW s \in Projects, ChildEnds(s)
      PROVE  TypeOK'
  <2>1. Cardinality(holds') <= Limit'
    BY <1>2, PermitsReturned DEF ChildEnds, ReleasedBy, Limit
  <2>2. PICK st \in Statuses : /\ child' = [child EXCEPT ![s] = st]
                               /\ results' = [results EXCEPT ![s] = st]
    BY <1>2 DEF ChildEnds
  <2>3. /\ linked' \subseteq linked \cup {s} /\ holds' \subseteq holds
        /\ UNCHANGED <<config, stage, wave, heard, row, broken, cancels>>
    BY <1>2 DEF ChildEnds, ReleasedBy
  <2> QED
    BY <2>1, <2>2, <2>3 DEF TypeOK
<1>3. ASSUME NEW s \in Projects, ChildCancelled(s)
      PROVE  TypeOK'
  <2>1. Cardinality(holds') <= Limit'
    BY <1>3, PermitsReturned DEF ChildCancelled, ReleasedBy, Limit
  <2> QED
    BY <1>3, <2>1 DEF ChildCancelled, ReleasedBy, TypeOK
<1>4. ASSUME NEW s \in Projects, ChildBreaks(s)
      PROVE  TypeOK'
  BY <1>4 DEF ChildBreaks, TypeOK, Limit
<1>5. CASE Cancel
  BY <1>5 DEF Cancel, TypeOK, Limit
<1>6. CASE UNCHANGED vars
  BY <1>6 DEF vars, TypeOK, Limit
<1> QED
  BY <1>1, <1>2, <1>3, <1>4, <1>5, <1>6, ParentTypes DEF Next, Child

\* The child that goes ahead is one of its wave.
LEMMA FirstIsIn ==
    ASSUME NEW S, S \subseteq Projects, S # {}
    PROVE  First(S) \in S
<1> DEFINE Least(T) == \E m \in T : \A t \in T : m <= t
           Good == {n \in Nat : \A T \in SUBSET Projects : Cardinality(T) = n + 1 => Least(T)}
<1>1. \A T \in SUBSET Projects : IsFiniteSet(T) /\ Cardinality(T) \in Nat
  BY FanoutAssumption, FS_Subset, FS_CardinalityType
<1>2. \A T \in SUBSET Projects : Cardinality(T) = 0 <=> T = {}
  BY <1>1, FS_EmptySet
<1>3. ASSUME NEW T \in SUBSET Projects, NEW x \in T
      PROVE  /\ Cardinality(T \ {x}) = Cardinality(T) - 1
             /\ T \ {x} \in SUBSET Projects
             /\ Least(T \ {x}) \/ T \ {x} = {} => Least(T)
  <2>1. Cardinality(T \ {x}) = Cardinality(T) - 1
    BY <1>1, FS_RemoveElement
  <2>2. x \in Int /\ T \subseteq Int
    BY FanoutAssumption
  <2>3. ASSUME T \ {x} = {} PROVE Least(T)
    BY <2>2, <2>3
  <2>4. ASSUME NEW m \in T \ {x}, \A t \in T \ {x} : m <= t PROVE Least(T)
    <3>1. CASE m <= x
      BY <2>4, <3>1
    <3>2. CASE ~(m <= x)
      <4>1. \A t \in T : x <= t
        BY <2>2, <2>4, <3>2
      <4> QED
        BY <4>1
    <3> QED
      BY <3>1, <3>2
  <2> QED
    BY <2>1, <2>3, <2>4
<1>4. 0 \in Good
  <2> SUFFICES ASSUME NEW T \in SUBSET Projects, Cardinality(T) = 1
               PROVE  Least(T)
    OBVIOUS
  <2>1. PICK x \in T : TRUE
    BY <1>2
  <2>2. T \ {x} = {}
    <3>1. T \ {x} \in SUBSET Projects /\ Cardinality(T \ {x}) = 0
      BY <1>3
    <3> QED
      BY <1>2, <3>1
  <2> QED
    BY <1>3, <2>2
<1>5. ASSUME NEW n \in Good
      PROVE  n + 1 \in Good
  <2>1. n \in Nat /\ \A T \in SUBSET Projects : Cardinality(T) = n + 1 => Least(T)
    OBVIOUS
  <2> HIDE DEF Least
  <2>2. ASSUME NEW T \in SUBSET Projects, Cardinality(T) = (n + 1) + 1
        PROVE  Least(T)
    <3>1. PICK x \in T : TRUE
      BY <1>2, <2>1, <2>2
    <3>2. Cardinality(T \ {x}) = n + 1
      BY <1>3, <2>1, <2>2
    <3> QED
      BY <1>3, <2>1, <3>2
  <2> QED
    BY <2>1, <2>2
<1>6. Good = Nat
  <2>1. Good \subseteq Nat
    OBVIOUS
  <2> HIDE DEF Good
  <2> QED
    BY <1>4, <1>5, <2>1, NatSetInduction
<1>7. Least(S)
  <2>1. Cardinality(S) \in Nat /\ Cardinality(S) # 0
    BY <1>1, <1>2
  <2>2. Cardinality(S) - 1 \in Good /\ Cardinality(S) = (Cardinality(S) - 1) + 1
    BY <1>6, <2>1
  <2> QED
    BY <2>2
<1> QED
  BY <1>7 DEF First

\* A child that is over stays what it is, and one that has not begun is begun by a wave.
LEMMA ChildMoves ==
    ASSUME TypeOK, Told, WavesOver, Validated, [Next]_vars
    PROVE  /\ \A s \in Projects : child[s] \in Statuses => child'[s] = child[s]
           /\ \A s \in Projects : child[s] \in Statuses => results'[s] = results[s]
           /\ \A s \in Projects : child[s] = "none" =>
                 \/ child'[s] = "none"
                 \/ StartWave /\ s \in Wave(wave + 1)
                 \/ StartRest /\ s \in Wave(1)
<1> USE DEF Statuses
<1>1. CASE Validate \/ WaveDone \/ GatherRaises \/ ParentCancelled \/ Rollup \/ UNCHANGED vars
  BY <1>1 DEF Validate, WaveDone, GatherRaises, ParentCancelled, Rollup, vars
<1>2. CASE StartWave
  <2> DEFINE now == IF stagger /\ wave = 0 /\ Cardinality(Wave(wave + 1)) > 1
                    THEN {First(Wave(wave + 1))} ELSE Wave(wave + 1)
  <2>1. /\ child' = [s \in Projects |-> IF s \in now THEN "waiting" ELSE child[s]]
        /\ UNCHANGED results /\ Wave(wave + 1) # {}
    BY <1>2 DEF StartWave
  <2>2. Wave(wave + 1) \subseteq Projects /\ Wave(wave + 1) \cap DoneAfter(wave) = {}
    <3>1. wave # N
      BY <1>2, DoneFacts DEF StartWave, Validated, Cyclic, N
    <3>2. wave + 1 \in 0..N /\ (wave + 1) - 1 = wave
      BY <3>1, DoneFacts DEF TypeOK, N
    <3> QED
      BY <3>2, DoneFacts DEF Wave
  <2>3. now \subseteq Wave(wave + 1)
    BY <2>1, <2>2, FirstIsIn
  <2>4. \A s \in Wave(wave + 1) : child[s] \notin Statuses
    BY <2>2 DEF Told
  <2> HIDE DEF now
  <2> QED
    BY <1>2, <2>1, <2>3, <2>4
<1>3. CASE StartRest
  BY <1>3 DEF StartRest
<1>4. ASSUME NEW s \in Projects, Child(s) \/ ChildBreaks(s)
      PROVE  /\ child[s] \in {"waiting", "running", "cancelling"}
             /\ \A t \in Projects \ {s} : child'[t] = child[t] /\ results'[t] = results[t]
  BY <1>4 DEF Child, ChildStarts, ChildEnds, ChildCancelled, ChildBreaks, TypeOK
<1>5. CASE Cancel
  BY <1>5 DEF Cancel
<1> QED
  BY <1>1, <1>2, <1>3, <1>4, <1>5 DEF Next, Parent

\* A wave is what comes to the projects of the waves before it.
LEMMA WaveFacts ==
    ASSUME TypeOK
    PROVE  /\ wave > 0 => /\ DoneAfter(wave) = DoneAfter(wave - 1) \cup Wave(wave)
                          /\ Wave(wave) \subseteq Projects
           /\ DoneAfter(wave) \subseteq Projects
<1>1. N \in Nat /\ wave \in 0..N
  BY DoneFacts DEF TypeOK, N
<1>2. CASE wave > 0
  <2>1. wave - 1 \in 0..N /\ wave - 1 < N /\ (wave - 1) + 1 = wave
    BY <1>1, <1>2
  <2> QED
    BY <1>1, <2>1, DoneFacts DEF Wave
<1> QED
  BY <1>1, <1>2, DoneFacts

\* A wave that starts is made of projects that have not begun and whose upstream projects
\* are done.
LEMMA NewWave ==
    ASSUME TypeOK, Validated, StartWave
    PROVE  /\ wave < N /\ wave + 1 \in 0..N
           /\ DoneAfter(wave + 1) = DoneAfter(wave) \cup Wave(wave + 1)
           /\ Wave(wave + 1) \cap DoneAfter(wave) = {}
           /\ Wave(wave + 1) \subseteq Projects
           /\ \A s \in Wave(wave + 1) : deps[s] \subseteq DoneAfter(wave)
<1>1. wave # N
  BY DoneFacts DEF StartWave, Validated, Cyclic, N
<1>2. wave \in 0..N /\ wave < N /\ wave + 1 \in 0..N /\ (wave + 1) - 1 = wave
  BY <1>1, DoneFacts DEF TypeOK, N
<1> QED
  BY <1>2, DoneFacts DEF Wave

\* A child begins once its upstream projects have results, and is told of them.
LEMMA ToldStep ==
    ASSUME TypeOK, Told, WavesOver, Validated, ResultsOwn, [Next]_vars
    PROVE  Told'
<1>1. \A s \in Projects : results[s] # "none" => results'[s] = results[s]
  BY ChildMoves DEF ResultsOwn
<1>2. deps' = deps /\ \A k : DoneAfter(k)' = DoneAfter(k)
  BY WavesSame DEF config
<1>3. \A s \in Projects : deps[s] \subseteq Projects
  BY DEF TypeOK, Deps
<1>4. CASE StartWave
  <2>1. wave' = wave + 1 /\ stage = "next" /\ results' = results
    BY <1>4 DEF StartWave
  <2>2. DoneAfter(wave)' = DoneAfter(wave) \cup Wave(wave + 1)
    <3>1. DoneAfter(wave)' = DoneAfter(wave + 1)
      BY <1>2, <2>1 DEF DoneAfter
    <3> QED
      BY <1>4, <3>1, NewWave
  <2>3. ASSUME NEW s \in Projects, s \notin DoneAfter(wave)'
        PROVE  child'[s] = "none"
    <3>1. child[s] = "none" /\ s \notin Wave(wave + 1)
      BY <2>2, <2>3 DEF Told
    <3>2. ~StartRest
      BY <2>1 DEF StartRest
    <3> QED
      BY <3>1, <3>2, ChildMoves
  <2>4. heard' = [s \in Projects |-> IF s \in Wave(wave + 1) THEN {u \in deps[s] : results[u] # "none"}
                                     ELSE heard[s]]
    BY <1>4 DEF StartWave
  <2>5. ASSUME NEW s \in Wave(wave + 1)
        PROVE  heard'[s] = deps[s] /\ \A u \in deps[s] : results[u] # "none"
    <3>1. s \in Projects /\ deps[s] \subseteq DoneAfter(wave)
      BY <1>4, NewWave
    <3>2. \A u \in deps[s] : results[u] # "none"
      BY <1>3, <2>1, <3>1 DEF WavesOver, ResultsOwn, Statuses
    <3> QED
      BY <2>4, <3>1, <3>2
  <2>6. ASSUME NEW s \in DoneAfter(wave)
        PROVE  heard'[s] = deps[s] /\ \A u \in deps[s] : results[u] # "none"
    BY <1>4, <2>4, NewWave, WaveFacts DEF Told
  <2> QED
    BY <1>2, <2>1, <2>2, <2>3, <2>5, <2>6 DEF Told
<1>5. CASE ~StartWave
  <2>1. wave' = wave /\ heard' = heard
    BY <1>5 DEF Next, Parent, Validate, StartRest, WaveDone, Rollup, GatherRaises, ParentCancelled, Cancel,
       Child, ChildStarts, ChildBreaks, ChildEnds, ChildCancelled, vars
  <2>2. DoneAfter(wave)' = DoneAfter(wave)
    BY <1>2, <2>1 DEF DoneAfter
  <2>3. ASSUME NEW s \in Projects, s \notin DoneAfter(wave)
        PROVE  child'[s] = "none"
    <3>1. StartRest => wave = 1
      BY DEF StartRest, WavesOver
    <3>2. wave = 1 => s \notin Wave(1)
      BY <2>3, WaveFacts
    <3> QED
      BY <1>5, <2>3, <3>1, <3>2, ChildMoves DEF Told
  <2>4. \A s \in DoneAfter(wave) : heard'[s] = deps'[s] /\ \A u \in deps'[s] : results'[u] # "none"
    BY <1>1, <1>2, <1>3, <2>1, WaveFacts DEF Told
  <2> QED
    BY <2>2, <2>3, <2>4 DEF Told
<1> QED
  BY <1>4, <1>5

\* How far the parent gets, and that no step but its own moves it.
LEMMA StageMoves ==
    ASSUME TypeOK, [Next]_vars
    PROVE  \/ Parent
           \/ UNCHANGED <<stage, wave, row>>
BY DEF Next, Child, ChildStarts, ChildBreaks, ChildEnds, ChildCancelled, Cancel, vars

\* The parent goes on to the next wave, or rolls up, when a wave is over.
LEMMA WavesOverStep ==
    ASSUME TypeOK, Told, WavesOver, Validated, [Next]_vars
    PROVE  WavesOver'
<1>1. \A s \in Projects : child[s] \in Statuses => child'[s] \in Statuses
  BY ChildMoves
<1>2. \A k : DoneAfter(k)' = DoneAfter(k)
  BY WavesSame
<1>3. DoneAfter(wave) \subseteq Projects /\ (wave > 0 => DoneAfter(wave - 1) \subseteq Projects)
  BY WaveFacts
<1>4. CASE UNCHANGED <<stage, wave>>
  <2>1. DoneAfter(wave)' = DoneAfter(wave) /\ DoneAfter(wave - 1)' = DoneAfter(wave - 1)
    BY <1>2, <1>4 DEF DoneAfter
  <2> QED
    BY <1>1, <1>3, <1>4, <2>1 DEF WavesOver
<1>5. CASE Validate
  <2>1. wave' = wave /\ wave = 0 /\ stage' \in {"next", "closed"}
    BY <1>5 DEF Validate, Validated
  <2>2. DoneAfter(wave)' = {}
    BY <1>2, <2>1, DoneFacts DEF DoneAfter
  <2> QED
    BY <2>1, <2>2 DEF WavesOver
<1>6. CASE StartWave
  <2>1. /\ stage = "next" /\ wave' = wave + 1 /\ wave \in Nat
        /\ stage' \in {"first", "gather"} /\ (stage' = "first" => wave = 0)
    BY <1>6, DoneFacts DEF StartWave, TypeOK, N
  <2>2. DoneAfter(wave - 1)' = DoneAfter(wave)
    <3>1. (wave + 1) - 1 = wave
      BY <2>1
    <3> QED
      BY <1>2, <2>1, <3>1 DEF DoneAfter
  <2> QED
    BY <1>1, <1>3, <2>1, <2>2 DEF WavesOver
<1>7. CASE StartRest
  <2>1. stage = "first" /\ stage' = "gather" /\ wave' = wave
    BY <1>7 DEF StartRest
  <2>2. DoneAfter(wave - 1)' = DoneAfter(wave - 1)
    BY <1>2, <2>1 DEF DoneAfter
  <2> QED
    BY <1>1, <1>3, <2>1, <2>2 DEF WavesOver
<1>8. CASE WaveDone
  <2>1. /\ stage = "gather" /\ wave' = wave /\ \A s \in Wave(wave) : child[s] \in Statuses
        /\ stage' = IF DoneAfter(wave) = Projects THEN "rollup" ELSE "next"
    BY <1>8 DEF WaveDone
  <2>2. \A s \in DoneAfter(wave) : child[s] \in Statuses
    BY <2>1, WaveFacts DEF WavesOver
  <2>3. DoneAfter(wave)' = DoneAfter(wave)
    BY <1>2, <2>1 DEF DoneAfter
  <2> QED
    BY <1>1, <1>3, <2>1, <2>2, <2>3 DEF WavesOver
<1>9. CASE Rollup \/ GatherRaises \/ ParentCancelled
  BY <1>9 DEF Rollup, GatherRaises, ParentCancelled, WavesOver
<1> QED
  BY <1>4, <1>5, <1>6, <1>7, <1>8, <1>9, StageMoves DEF Parent

\* The parent goes on only with valid dependencies.
LEMMA ValidatedStep ==
    ASSUME TypeOK, WavesOver, Validated, [Next]_vars
    PROVE  Validated'
<1>1. Cyclic' = Cyclic
  BY WavesSame
<1>2. CASE UNCHANGED <<stage, wave>>
  BY <1>1, <1>2 DEF Validated
<1>3. CASE Validate
  BY <1>1, <1>3 DEF Validate, Validated
<1>4. CASE StartWave \/ StartRest \/ WaveDone
  <2>1. stage \in {"next", "first", "gather"} /\ stage' \in {"next", "first", "gather", "rollup"}
    BY <1>4 DEF StartWave, StartRest, WaveDone
  <2> QED
    BY <1>1, <2>1 DEF Validated
<1>5. CASE Rollup \/ GatherRaises \/ ParentCancelled
  BY <1>1, <1>5 DEF Rollup, GatherRaises, ParentCancelled, Validated
<1> QED
  BY <1>2, <1>3, <1>4, <1>5, StageMoves DEF Parent

\* A result is recorded with its child, and its row named, in one step.
LEMMA ResultsStep ==
    ASSUME TypeOK, Told, WavesOver, Validated, ResultsOwn, [Next]_vars
    PROVE  ResultsOwn'
<1> USE DEF Statuses
<1>1. ASSUME NEW s \in Projects, Child(s) \/ ChildBreaks(s)
      PROVE  ResultsOwn'
  <2>1. /\ child[s] \in {"waiting", "running", "cancelling"} /\ stage' = stage
        /\ \A t \in Projects \ {s} : child'[t] = child[t] /\ results'[t] = results[t]
        /\ linked \subseteq linked' /\ broken \subseteq broken'
    BY <1>1 DEF Child, ChildStarts, ChildEnds, ChildCancelled, ChildBreaks, TypeOK
  <2>2. /\ results'[s] = IF child'[s] \in Statuses THEN child'[s] ELSE "none"
        /\ child'[s] \in Statuses /\ stage' # "closed" => s \in linked'
        /\ child'[s] = "broken" => s \in broken'
    BY <1>1, <2>1 DEF Child, ChildStarts, ChildEnds, ChildCancelled, ChildBreaks, TypeOK, ResultsOwn
  <2> QED
    BY <2>1, <2>2 DEF ResultsOwn
<1>2. CASE Parent \/ Cancel \/ UNCHANGED vars
  <2>1. UNCHANGED <<results, linked, broken>> /\ (stage = "closed" => stage' = "closed")
    BY <1>2 DEF Parent, Validate, StartWave, StartRest, WaveDone, Rollup, GatherRaises, ParentCancelled,
       Cancel, vars
  <2>2. \A s \in Projects : child'[s] = child[s] \/ (child[s] \notin Statuses /\ child'[s] \notin Statuses \cup {"broken"})
    <3>1. CASE StartWave
      <4>1. child' \in [Projects -> {"waiting"} \cup Ended \cup Active \cup {"none"}]
            /\ \A s \in Projects : child'[s] = child[s] \/ child'[s] = "waiting"
        BY <3>1 DEF StartWave, TypeOK
      <4> QED
        BY <4>1, ChildMoves
    <3>2. CASE StartRest
      <4>1. \A s \in Projects : child'[s] = child[s] \/ child'[s] = "waiting"
        BY <3>2 DEF StartRest
      <4> QED
        BY <4>1, ChildMoves
    <3>3. CASE Cancel
      BY <3>3 DEF Cancel
    <3>4. CASE Validate \/ WaveDone \/ Rollup \/ GatherRaises \/ ParentCancelled \/ UNCHANGED vars
      BY <3>4 DEF Validate, WaveDone, Rollup, GatherRaises, ParentCancelled, vars
    <3> QED
      BY <1>2, <3>1, <3>2, <3>3, <3>4 DEF Parent
  <2> QED
    BY <2>1, <2>2 DEF ResultsOwn
<1> QED
  BY <1>1, <1>2 DEF Next

\* What the parent tells when it is over is what its children came to, and stays so.
LEMMA RollupStep ==
    ASSUME TypeOK, Told, WavesOver, Validated, ResultsOwn, RollupTrue, [Next]_vars
    PROVE  RollupTrue'
<1> SUFFICES ASSUME stage' = "closed", row' # "cancelled", broken' = {}, ~Cyclic'
             PROVE  /\ \A s \in Projects : results'[s] # "none" /\ child'[s] \notin Active
                    /\ linked' = Projects
                    /\ row' = "completed" => \A s \in Projects : results'[s] = "completed"
  BY DEF RollupTrue
<1>1. ~Cyclic /\ linked \subseteq linked' /\ linked' \subseteq Projects /\ broken = {}
  <2>1. linked \subseteq linked' /\ broken \subseteq broken'
    BY DEF Next, Parent, Validate, StartWave, StartRest, WaveDone, Rollup, GatherRaises, ParentCancelled,
       Cancel, Child, ChildStarts, ChildBreaks, ChildEnds, ChildCancelled, vars
  <2> QED
    BY <2>1, WavesSame, TypeStep DEF TypeOK
<1>2. ASSUME \A s \in Projects : child[s] \in Statuses
      PROVE  \A s \in Projects : /\ results'[s] = results[s] /\ results[s] # "none"
                                 /\ child'[s] \notin Active
  BY <1>2, ChildMoves DEF ResultsOwn, Statuses, Active
<1>3. CASE stage = "closed"
  <2>1. row' = row
    BY <1>3, StageMoves DEF Parent, Validate, StartWave, StartRest, WaveDone, Rollup, GatherRaises,
       ParentCancelled
  <2>2. \A s \in Projects : child[s] \in Statuses
    BY <1>1, <1>3, <2>1 DEF RollupTrue, ResultsOwn
  <2> QED
    BY <1>1, <1>2, <1>3, <2>1, <2>2 DEF RollupTrue
<1>4. CASE Rollup
  <2>1. stage = "rollup" /\ row' \in {Overall, "failed"} /\ UNCHANGED <<results, linked>>
    BY <1>4 DEF Rollup
  <2>2. \A s \in Projects : child[s] \in Statuses
    BY <2>1 DEF WavesOver
  <2>3. linked = Projects
    BY <2>1, <2>2 DEF ResultsOwn, TypeOK
  <2>4. row' = "completed" => \A s \in Projects : results[s] = "completed"
    BY <2>1 DEF Overall
  <2> QED
    BY <1>2, <2>1, <2>2, <2>3, <2>4
<1>5. CASE stage # "closed" /\ ~Rollup
  <2>1. Validate \/ GatherRaises
    BY <1>5, StageMoves DEF Parent, StartWave, StartRest, WaveDone, ParentCancelled
  <2>2. ~Validate
    BY <1>1 DEF Validate
  <2>3. GatherRaises => broken # {}
    <3>1. GatherRaises => wave > 0
      BY DEF GatherRaises, WavesOver
    <3> QED
      BY <3>1, WaveFacts DEF GatherRaises, ResultsOwn
  <2> QED
    BY <1>1, <2>1, <2>2, <2>3
<1> QED
  BY <1>3, <1>4, <1>5

-----------------------------------------------------------------------------
(* The theorems. *)

\* A fan-out starts with nothing done.
LEMMA InitFanInv == Init => FanInv
<1> SUFFICES ASSUME Init PROVE FanInv
  OBVIOUS
<1>1. TypeOK
  <2>1. Cardinality(holds) <= Limit
    BY FanoutAssumption, FS_EmptySet DEF Init, Limit
  <2>2. 0 \in 0..Cardinality(Projects)
    BY DoneFacts DEF N
  <2> QED
    BY <2>1, <2>2 DEF Init, TypeOK
<1>2. DoneAfter(wave) = {}
  BY DoneFacts DEF Init
<1> QED
  BY <1>1, <1>2 DEF Init, FanInv, Told, WavesOver, Validated, ResultsOwn, RollupTrue, Statuses

\* The invariant of a fan-out is inductive.
THEOREM FanInvariantHolds == Spec => []FanInv
<1>1. FanInv /\ [Next]_vars => FanInv'
  BY TypeStep, ToldStep, WavesOverStep, ValidatedStep, ResultsStep, RollupStep DEF FanInv
<1> QED
  BY InitFanInv, <1>1, PTL DEF Spec

\* A child is told of what it builds on, and the parent tells what its children came to,
\* for any projects, dependencies and number of children at a time.
THEOREM FanoutStaysSound == Spec => []FanoutSound
<1>1. FanInv => FanoutSound
  BY DEF FanInv, Told, FanoutSound, UpstreamsHeard
<1> QED
  BY FanInvariantHolds, <1>1, PTL

\* A result is not changed once there is one, whatever fails or is cancelled meanwhile.
THEOREM ResultsStay ==
    Spec => [][\A s \in Projects : results[s] # "none" => results'[s] = results[s]]_vars
<1>1. FanInv /\ [Next]_vars => [\A s \in Projects : results[s] # "none" => results'[s] = results[s]]_vars
  BY ChildMoves DEF FanInv, ResultsOwn
<1> QED
  BY FanInvariantHolds, <1>1, PTL DEF Spec
=============================================================================
