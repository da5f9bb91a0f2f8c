---------------------------- MODULE Host_proofs ----------------------------
(***************************************************************************)
(* Proofs about the agents of a run (AgentLoop) and about the parts of the *)
(* host (Host), for any constants.                                         *)
(*                                                                         *)
(* AgentLoop, for any number of subtasks and any bounds: the types of its  *)
(* variables, that work which passes has broken nothing of its own, and    *)
(* that a subtask's attributed cost covers what it spent.                  *)
(*                                                                         *)
(* Host: each part has an inductive invariant of its own, <Part>Inv, that  *)
(* holds at first (<Part>Begins), that its steps keep (<Part>Kept), and    *)
(* that its property follows from (<Part>Follows).  A step of the host is  *)
(* a step of one part and leaves the others as they are (HostSteps), so    *)
(* every invariant holds of the host.                                      *)
(***************************************************************************)
EXTENDS AgentLoop, Host, Functions, FunctionTheorems, FiniteSetTheorems,
        NaturalsInduction, SequenceTheorems, WellFoundedInduction, TLAPS

-----------------------------------------------------------------------------
(* The inductive invariant. *)

\* A subtask that is to be executed has an execution left.
TriesLeft == \A s \in Subtasks : at[s] = "new" => tries[s] < MaxTries

\* What an execution spent was spent since it started.
OwnPaid == \A s \in Subtasks : at[s] \in Executing => before[s] + own[s] <= spent

\* A change of its own is known to the subtask from its merge to its verdict: in the
\* index of the workspace, then in its changed files.
NotYet == \A s \in Subtasks : at[s] \in {"prepares", "calls", "waits", "merges"} => s \notin shown
Indexed == \A s \in Subtasks : at[s] = "merged" /\ s \in shown => s \in since[s]
Noticed == \A s \in Subtasks :
    at[s] \in {"review", "tests"} /\ s \in shown => s \in changed[s]

\* What no usage has belongs to turns that one has.
Unseen == unseen <= spent * MaxDelegated

Known == NotYet /\ Indexed /\ Noticed

-----------------------------------------------------------------------------
\* Every subtask is somewhere, and what it holds has its type.
LEMMA InitIInv == Init => TypeOK /\ TriesLeft /\ OwnPaid /\ Unseen /\ Known /\ NothingBrokenPasses
  <1> SUFFICES ASSUME Init
               PROVE  TypeOK /\ TriesLeft /\ OwnPaid /\ Unseen /\ Known /\ NothingBrokenPasses
    OBVIOUS
  <1> USE AgentLoopAssumption DEF Init, Zero, Nothing
  <1>1. TypeOK
    BY DEF TypeOK, Places, Outcomes
  <1>2. TriesLeft /\ Unseen
    BY DEF TriesLeft, Unseen
  <1>3. OwnPaid /\ Known /\ NothingBrokenPasses
    BY DEF OwnPaid, Known, NotYet, Indexed, Noticed, NothingBrokenPasses, Executing
  <1> QED
    BY <1>1, <1>2, <1>3

\* Every step keeps the types, and the tries of a call and of an agent within bounds.
LEMMA TypeStep == TypeOK /\ TriesLeft /\ OwnPaid /\ [Next]_vars => TypeOK' /\ TriesLeft'
  <1> SUFFICES ASSUME TypeOK, TriesLeft, OwnPaid, [Next]_vars
               PROVE  TypeOK' /\ TriesLeft'
    OBVIOUS
  <1> USE AgentLoopAssumption DEF TypeOK, TriesLeft, Outcomes
  <1>1. CASE StopAll
    BY <1>1 DEF StopAll, Zero, Nothing, Settled, Places
  <1>2. ASSUME NEW s \in Subtasks, Starts(s) PROVE TypeOK' /\ TriesLeft'
    BY <1>2 DEF Starts, To, Places, Executing, OverBudget, judgement
  <1>3. ASSUME NEW s \in Subtasks, Begins(s) PROVE TypeOK' /\ TriesLeft'
    BY <1>3 DEF Begins, Locals, To, Top, Remaining, Places, Executing, workspace, judgement
  <1>4. ASSUME NEW s \in Subtasks, Answers(s) PROVE TypeOK' /\ TriesLeft'
    BY <1>4 DEF Answers, Delegations, Locals, To, Top, Places, Executing, workspace, judgement
  <1>5. ASSUME NEW s \in Subtasks, FailsForNow(s) PROVE TypeOK' /\ TriesLeft'
    BY <1>5 DEF FailsForNow, Attempt, Locals, To, Places, Executing, workspace, judgement
  <1>6. ASSUME NEW s \in Subtasks, WaitEnds(s) PROVE TypeOK' /\ TriesLeft'
    BY <1>6 DEF WaitEnds, To, Places, Executing, execution, workspace, judgement
  <1>7. ASSUME NEW s \in Subtasks, GivesUp(s) PROVE TypeOK' /\ TriesLeft'
    BY <1>7 DEF GivesUp, Again, Drop, Locals, To, Places, Settled, judgement
  <1>8. ASSUME NEW s \in Subtasks, FailsForGood(s) PROVE TypeOK' /\ TriesLeft'
    BY <1>8 DEF FailsForGood, Drop, Locals, To, Places, Settled, judgement
  <1>9. ASSUME NEW s \in Subtasks, Merges(s) PROVE TypeOK' /\ TriesLeft'
    BY <1>9 DEF Merges, Put, To, Places, Executing, execution, judgement
  <1>10. ASSUME NEW s \in Subtasks, MergesNothing(s) PROVE TypeOK' /\ TriesLeft'
    BY <1>10 DEF MergesNothing, To, Places, Executing, execution, workspace, judgement
  <1>11. ASSUME NEW s \in Subtasks, Returns(s) PROVE TypeOK' /\ TriesLeft'
    BY <1>11 DEF Returns, CostDelta, EmitDiff, Drop, To, Places, Executing, OwnPaid
  <1>12. ASSUME NEW s \in Subtasks, Reviewed(s) PROVE TypeOK' /\ TriesLeft'
    BY <1>12 DEF Reviewed, To, Places, execution, workspace
  <1>13. ASSUME NEW s \in Subtasks, NEW b \in BOOLEAN, Ends(s, b),
                UNCHANGED <<spent, unseen, execution, workspace>>
         PROVE  TypeOK' /\ TriesLeft'
    BY <1>13 DEF Ends, Again, To, Places, Settled, execution, workspace
  <1>15. CASE UNCHANGED vars
    BY <1>15 DEF vars, execution, workspace, judgement
  <1>16. \A s \in Subtasks : \A result \in TestResults(s), post \in Counts :
            ObjectiveGate(s, result, post) \in BOOLEAN
    BY DEF ObjectiveGate, NewlyFailing, Regressed
  <1>17. ASSUME NEW s \in Subtasks, SubtaskStep(s) PROVE TypeOK' /\ TriesLeft'
    <2> USE DEF SubtaskStep
    <2>1. CASE ReviewFails(s)
      BY <2>1, <1>13 DEF ReviewFails
    <2>2. CASE Judged(s)
      BY <2>2, <1>13, <1>16 DEF Judged
    <2> QED
      BY <1>17, <1>2, <1>3, <1>4, <1>5, <1>6, <1>7, <1>8, <1>9, <1>10, <1>11, <1>12,
         <2>1, <2>2
  <1> QED
    BY <1>1, <1>15, <1>17 DEF Next, Refuses, Cancel

\* Nothing but the subtask's own calls adds to what it spent, and the sum never falls.
LEMMA PaidStep == TypeOK /\ OwnPaid /\ [Next]_vars => OwnPaid'
  <1> SUFFICES ASSUME TypeOK, OwnPaid, [Next]_vars
               PROVE  OwnPaid'
    OBVIOUS
  <1> USE AgentLoopAssumption DEF TypeOK, OwnPaid, Executing
  <1>1. CASE StopAll
    BY <1>1 DEF StopAll, Settled, Zero
  <1>2. ASSUME NEW s \in Subtasks, Starts(s) PROVE OwnPaid'
    BY <1>2 DEF Starts, To, judgement
  <1>3. ASSUME NEW s \in Subtasks, Begins(s) PROVE OwnPaid'
    BY <1>3 DEF Begins, Locals, To, Top, workspace, judgement
  <1>4. ASSUME NEW s \in Subtasks, Answers(s) PROVE OwnPaid'
    BY <1>4 DEF Answers, Delegations, Locals, To, Top, workspace, judgement
  <1>5. ASSUME NEW s \in Subtasks, FailsForNow(s) PROVE OwnPaid'
    BY <1>5 DEF FailsForNow, Attempt, Locals, To, workspace, judgement
  <1>6. ASSUME NEW s \in Subtasks, WaitEnds(s) PROVE OwnPaid'
    BY <1>6 DEF WaitEnds, To, execution, workspace, judgement
  <1>7. ASSUME NEW s \in Subtasks, GivesUp(s) PROVE OwnPaid'
    BY <1>7 DEF GivesUp, Again, Drop, Locals, To, judgement
  <1>8. ASSUME NEW s \in Subtasks, FailsForGood(s) PROVE OwnPaid'
    BY <1>8 DEF FailsForGood, Drop, Locals, To, judgement
  <1>9. ASSUME NEW s \in Subtasks, Merges(s) PROVE OwnPaid'
    BY <1>9 DEF Merges, Put, To, execution, judgement
  <1>10. ASSUME NEW s \in Subtasks, MergesNothing(s) PROVE OwnPaid'
    BY <1>10 DEF MergesNothing, To, execution, workspace, judgement
  <1>11. ASSUME NEW s \in Subtasks, Returns(s) PROVE OwnPaid'
    BY <1>11 DEF Returns, Drop, To
  <1>12. ASSUME NEW s \in Subtasks, Reviewed(s) PROVE OwnPaid'
    BY <1>12 DEF Reviewed, To, execution, workspace
  <1>13. ASSUME NEW s \in Subtasks, ReviewFails(s) PROVE OwnPaid'
    BY <1>13 DEF ReviewFails, Ends, Again, To, execution, workspace
  <1>15. ASSUME NEW s \in Subtasks, Judged(s) PROVE OwnPaid'
    BY <1>15 DEF Judged, Ends, Again, To, execution, workspace
  <1>16. CASE UNCHANGED vars
    BY <1>16 DEF vars, execution, workspace, judgement
  <1> QED
    BY <1>1, <1>2, <1>3, <1>4, <1>5, <1>6, <1>7, <1>8, <1>9, <1>10, <1>11, <1>12, <1>13, <1>15, <1>16
       DEF Next, Refuses, Cancel, SubtaskStep

\* The change of a subtask stays known from its merge to its verdict, whatever its
\* siblings do.
LEMMA KnownStep == TypeOK /\ Known /\ [Next]_vars => Known'
  <1> SUFFICES ASSUME TypeOK, Known, [Next]_vars
               PROVE  Known'
    OBVIOUS
  <1> USE AgentLoopAssumption DEF TypeOK, Known, NotYet, Indexed, Noticed, Executing
  <1>1. CASE StopAll
    BY <1>1 DEF StopAll, Settled, Nothing
  <1>2. ASSUME NEW s \in Subtasks, Starts(s) PROVE Known'
    BY <1>2 DEF Starts, To, judgement
  <1>3. ASSUME NEW s \in Subtasks, Begins(s) PROVE Known'
    BY <1>3 DEF Begins, Locals, To, Top, workspace, judgement
  <1>4. ASSUME NEW s \in Subtasks, Answers(s) PROVE Known'
    BY <1>4 DEF Answers, Delegations, Locals, To, Top, workspace, judgement
  <1>5. ASSUME NEW s \in Subtasks, FailsForNow(s) PROVE Known'
    BY <1>5 DEF FailsForNow, Attempt, Locals, To, workspace, judgement
  <1>6. ASSUME NEW s \in Subtasks, WaitEnds(s) PROVE Known'
    BY <1>6 DEF WaitEnds, To, execution, workspace, judgement
  <1>7. ASSUME NEW s \in Subtasks, GivesUp(s) PROVE Known'
    BY <1>7 DEF GivesUp, Again, Drop, Locals, To, judgement
  <1>8. ASSUME NEW s \in Subtasks, FailsForGood(s) PROVE Known'
    BY <1>8 DEF FailsForGood, Drop, Locals, To, judgement
  <1>9. ASSUME NEW s \in Subtasks, Merges(s) PROVE Known'
    BY <1>9 DEF Merges, Put, To, execution, judgement
  <1>10. ASSUME NEW s \in Subtasks, MergesNothing(s) PROVE Known'
    BY <1>10 DEF MergesNothing, To, execution, workspace, judgement
  <1>11. ASSUME NEW s \in Subtasks, Returns(s) PROVE Known'
    BY <1>11 DEF Returns, EmitDiff, Drop, To
  <1>12. ASSUME NEW s \in Subtasks, Reviewed(s) PROVE Known'
    BY <1>12 DEF Reviewed, To, execution, workspace
  <1>13. ASSUME NEW s \in Subtasks, ReviewFails(s) PROVE Known'
    BY <1>13 DEF ReviewFails, Ends, Again, To, execution, workspace
  <1>15. ASSUME NEW s \in Subtasks, Judged(s) PROVE Known'
    BY <1>15 DEF Judged, Ends, Again, To, execution, workspace
  <1>16. CASE UNCHANGED vars
    BY <1>16 DEF vars, execution, workspace, judgement
  <1> QED
    BY <1>1, <1>2, <1>3, <1>4, <1>5, <1>6, <1>7, <1>8, <1>9, <1>10, <1>11, <1>12, <1>13, <1>15, <1>16
       DEF Next, Refuses, Cancel, SubtaskStep

\* What passes is judged by the tests of its own change, and nobody else touches them
\* later.
LEMMA PassedStep == TypeOK /\ Known /\ NothingBrokenPasses /\ [Next]_vars => NothingBrokenPasses'
  <1> SUFFICES ASSUME TypeOK, Known, NothingBrokenPasses, [Next]_vars
               PROVE  NothingBrokenPasses'
    OBVIOUS
  <1> USE AgentLoopAssumption DEF TypeOK, NothingBrokenPasses, Known, Noticed
  <1>1. CASE StopAll
    BY <1>1 DEF StopAll, Settled
  <1>2. ASSUME NEW s \in Subtasks, Starts(s) PROVE NothingBrokenPasses'
    BY <1>2 DEF Starts, To, judgement
  <1>3. ASSUME NEW s \in Subtasks, Begins(s) PROVE NothingBrokenPasses'
    BY <1>3 DEF Begins, Locals, To, Top, workspace, judgement
  <1>4. ASSUME NEW s \in Subtasks, Answers(s) PROVE NothingBrokenPasses'
    BY <1>4 DEF Answers, Delegations, Locals, To, Top, workspace, judgement
  <1>5. ASSUME NEW s \in Subtasks, FailsForNow(s) PROVE NothingBrokenPasses'
    BY <1>5 DEF FailsForNow, Attempt, Locals, To, workspace, judgement
  <1>6. ASSUME NEW s \in Subtasks, WaitEnds(s) PROVE NothingBrokenPasses'
    BY <1>6 DEF WaitEnds, To, execution, workspace, judgement
  <1>7. ASSUME NEW s \in Subtasks, GivesUp(s) PROVE NothingBrokenPasses'
    BY <1>7 DEF GivesUp, Again, Drop, Locals, To, judgement
  <1>8. ASSUME NEW s \in Subtasks, FailsForGood(s) PROVE NothingBrokenPasses'
    BY <1>8 DEF FailsForGood, Drop, Locals, To, judgement
  <1>9. ASSUME NEW s \in Subtasks, Merges(s) PROVE NothingBrokenPasses'
    BY <1>9 DEF Merges, Put, To, execution, judgement
  <1>10. ASSUME NEW s \in Subtasks, MergesNothing(s) PROVE NothingBrokenPasses'
    BY <1>10 DEF MergesNothing, To, execution, workspace, judgement
  <1>11. ASSUME NEW s \in Subtasks, Returns(s) PROVE NothingBrokenPasses'
    BY <1>11 DEF Returns, EmitDiff, Drop, To
  <1>12. ASSUME NEW s \in Subtasks, Reviewed(s) PROVE NothingBrokenPasses'
    BY <1>12 DEF Reviewed, To, execution, workspace
  <1>13. ASSUME NEW s \in Subtasks, ReviewFails(s) PROVE NothingBrokenPasses'
    BY <1>13 DEF ReviewFails, Ends, Again, To, execution, workspace
  <1>15. ASSUME NEW s \in Subtasks, Judged(s) PROVE NothingBrokenPasses'
    <2>1. PICK result \in TestResults(s), post \in Counts : Ends(s, ObjectiveGate(s, result, post))
      BY <1>15 DEF Judged
    <2>2. UNCHANGED <<named, shown>> /\ at[s] = "tests"
      BY <1>15 DEF Judged, workspace
    <2>3. ASSUME at'[s] = "passed", named[s] = "red", s \in shown PROVE ~BaselineGreen
      <3>1. ObjectiveGate(s, result, post)
        BY <2>1, <2>3 DEF Ends, Again, To
      <3>2. s \in Selected(s)
        BY <2>2, <2>3 DEF Selected
      <3>3. result = "red"
        BY <3>2, <2>3 DEF TestResults, Outcomes
      <3> QED
        BY <3>1, <3>3 DEF ObjectiveGate, NewlyFailing
    <2>4. \A x \in Subtasks : x # s => at'[x] = at[x]
      BY <2>1 DEF Ends, To
    <2> QED
      BY <2>2, <2>3, <2>4
  <1>16. CASE UNCHANGED vars
    BY <1>16 DEF vars, execution, workspace, judgement
  <1> QED
    BY <1>1, <1>2, <1>3, <1>4, <1>5, <1>6, <1>7, <1>8, <1>9, <1>10, <1>11, <1>12, <1>13, <1>15, <1>16
       DEF Next, Refuses, Cancel, SubtaskStep

\* Products of naturals are naturals, and grow with each factor.
LEMMA Products ==
    /\ \A t, r, n, d, m \in Nat : t + r <= n /\ m <= d => t * d + r * m <= n * d
    /\ \A a, b, d \in Nat : a <= b => a * d <= b * d
    /\ \A a, d \in Nat : (a - 1) * d = a * d - d /\ (a + 1) * d = a * d + d
  <1>1. \A a, b, d \in Nat : a <= b => a * d <= b * d
    OBVIOUS
  <1>2. \A a, d \in Nat : (a - 1) * d = a * d - d /\ (a + 1) * d = a * d + d
    OBVIOUS
  <1>3. ASSUME NEW t \in Nat, NEW r \in Nat, NEW n \in Nat, NEW d \in Nat, NEW m \in Nat,
               t + r <= n, m <= d
        PROVE  t * d + r * m <= n * d
    <2>1. r * m <= r * d
      BY <1>3
    <2>2. (t + r) * d <= n * d
      BY <1>3, <1>1
    <2>3. (t + r) * d = t * d + r * d
      OBVIOUS
    <2> QED
      BY <2>1, <2>2, <2>3
  <1> QED
    BY <1>1, <1>2, <1>3

\* A delegation belongs to a turn, which is paid.
LEMMA UnseenStep == TypeOK /\ TypeOK' /\ Unseen /\ [Next]_vars => Unseen'
  <1> SUFFICES ASSUME TypeOK, TypeOK', Unseen, [Next]_vars PROVE Unseen'
    OBVIOUS
  <1> USE AgentLoopAssumption DEF AgentLoopAssumption
  <1>1. /\ MaxDelegated \in Nat /\ spent \in Nat /\ spent' \in Nat
        /\ unseen \in Nat /\ unseen' \in Nat
    BY DEF TypeOK
  <1>2. ASSUME unseen' = unseen, spent' >= spent PROVE Unseen'
    <2> DEFINE d == MaxDelegated
               a == spent
               b == spent'
    <2>1. d \in Nat /\ a \in Nat /\ b \in Nat /\ a <= b
      BY <1>1, <1>2
    <2>2. unseen' <= a * d
      BY <1>2 DEF Unseen
    <2> HIDE DEF a, b, d
    <2>3. a * d <= b * d /\ a * d \in Nat /\ b * d \in Nat
      BY <2>1, Products
    <2>4. unseen' <= b * d
      BY <1>1, <2>2, <2>3
    <2> QED
      BY <2>4 DEF Unseen, b, d
  <1>3. ASSUME unseen' <= unseen + MaxDelegated, spent' >= spent + 1 PROVE Unseen'
    <2> DEFINE d == MaxDelegated
               a == spent
               b == spent'
    <2>1. d \in Nat /\ a \in Nat /\ b \in Nat /\ a + 1 \in Nat /\ a + 1 <= b
      BY <1>1, <1>3
    <2>2. unseen <= a * d /\ unseen' <= unseen + d
      BY <1>3 DEF Unseen
    <2> HIDE DEF a, b, d
    <2>3. (a + 1) * d = a * d + d /\ (a + 1) * d <= b * d
      BY <2>1, Products
    <2>4. a * d \in Nat /\ b * d \in Nat
      BY <2>1
    <2>5. unseen' <= b * d
      BY <1>1, <2>1, <2>2, <2>3, <2>4
    <2> QED
      BY <2>5 DEF Unseen, b, d
  <1>4. CASE StopAll
    BY <1>1, <1>2, <1>4 DEF StopAll
  <1>5. CASE UNCHANGED vars
    BY <1>1, <1>2, <1>5 DEF vars
  <1>6. ASSUME NEW s \in Subtasks, Answers(s) PROVE Unseen'
    <2>1. PICK c \in 1 .. MaxCost, d \in Delegations :
             spent' = spent + c + d.shared /\ unseen' = unseen + d.apart
      BY <1>6 DEF Answers
    <2>2. spent' >= spent + 1 /\ unseen' <= unseen + MaxDelegated
      BY <1>1, <2>1 DEF Delegations
    <2> QED
      BY <1>3, <2>2
  <1>7. ASSUME NEW s \in Subtasks, Reviewed(s) PROVE Unseen'
    <2>1. unseen' = unseen /\ spent' >= spent
      BY <1>1, <1>7 DEF Reviewed
    <2> QED
      BY <1>2, <2>1
  <1>8. ASSUME NEW s \in Subtasks, SubtaskStep(s), ~Answers(s), ~Reviewed(s) PROVE Unseen'
    <2>1. CASE Starts(s) \/ Begins(s) \/ FailsForNow(s) \/ WaitEnds(s) \/ GivesUp(s) \/ FailsForGood(s)
      BY <1>1, <1>2, <2>1 DEF Starts, Begins, FailsForNow, WaitEnds, GivesUp, FailsForGood
    <2>2. CASE Merges(s) \/ MergesNothing(s) \/ Returns(s)
      BY <1>1, <1>2, <2>2 DEF Merges, MergesNothing, Returns
    <2>3. CASE ReviewFails(s)
      BY <1>1, <1>2, <2>3 DEF ReviewFails
    <2>4. CASE Judged(s)
      <3>1. UNCHANGED <<spent, unseen, execution, workspace>>
        BY <2>4, Zenon DEF Judged
      <3> QED
        BY <1>1, <1>2, <3>1
    <2> QED
      BY <1>8, <2>1, <2>2, <2>3, <2>4 DEF SubtaskStep
  <1> QED
    BY <1>4, <1>5, <1>6, <1>7, <1>8 DEF Next, Refuses, Cancel

-----------------------------------------------------------------------------
(* What is spent beyond the budget. *)

\* Subtasks that may still pay for a turn and a review, or for a review alone.
Turning == {s \in Subtasks : at[s] \in {"calls", "waits"}}
Awaiting == {s \in Subtasks : at[s] \in {"prepares", "merges", "merged", "review"}}

\* What one subtask may spend when nothing is left.
Most == 2 * MaxCost + MaxDelegated

\* What may still be paid is part of what SpendBounded allows.
Overdraft == spent + Cardinality(Turning) * Most + Cardinality(Awaiting) * MaxCost
                <= Budget + Cardinality(Subtasks) * Most

\* Two disjoint parts of a finite set are finite, and together at most as large as it.
LEMMA Sizes ==
    ASSUME NEW T \in SUBSET Subtasks, NEW R \in SUBSET Subtasks, T \cap R = {}
    PROVE  /\ IsFiniteSet(T) /\ IsFiniteSet(R)
           /\ Cardinality(T) \in Nat /\ Cardinality(R) \in Nat
           /\ Cardinality(Subtasks) \in Nat
           /\ Cardinality(T) + Cardinality(R) <= Cardinality(Subtasks)
  <1>1. IsFiniteSet(T) /\ IsFiniteSet(R) /\ IsFiniteSet(Subtasks)
    BY FS_Subset, AgentLoopAssumption DEF AgentLoopAssumption
  <1>2. Cardinality(T \cup R) = Cardinality(T) + Cardinality(R) - Cardinality({})
    BY <1>1, FS_Union
  <1>3. Cardinality({}) = 0
    BY FS_EmptySet
  <1>4. Cardinality(T \cup R) <= Cardinality(Subtasks)
    BY <1>1, FS_Subset
  <1> QED
    BY <1>1, <1>2, <1>3, <1>4, FS_CardinalityType

\* Before the budget is overspent there is room for everybody.
LEMMA WithinBudget == TypeOK' /\ spent' <= Budget => Overdraft'
  <1> SUFFICES ASSUME TypeOK', spent' <= Budget PROVE Overdraft'
    OBVIOUS
  <1> USE AgentLoopAssumption DEF AgentLoopAssumption
  <1>1. Turning' \in SUBSET Subtasks /\ Awaiting' \in SUBSET Subtasks
    BY DEF Turning, Awaiting
  <1>2. Turning' \cap Awaiting' = {}
    BY DEF Turning, Awaiting
  <1> DEFINE t == Cardinality(Turning')
             r == Cardinality(Awaiting')
             n == Cardinality(Subtasks)
  <1>3. t \in Nat /\ r \in Nat /\ n \in Nat /\ t + r <= n
    BY <1>1, <1>2, Sizes
  <1>4. Most \in Nat /\ MaxCost \in Nat /\ MaxCost <= Most
    BY DEF Most
  <1> HIDE DEF t, r, n
  <1>5. t * Most + r * MaxCost <= n * Most
    BY <1>3, <1>4, Products
  <1>6. spent' \in Nat /\ Budget \in Nat
    BY DEF TypeOK
  <1>7. t * Most \in Nat /\ r * MaxCost \in Nat /\ n * Most \in Nat
    BY <1>3, <1>4
  <1>8. spent' + t * Most + r * MaxCost <= Budget + n * Most
    BY <1>5, <1>6, <1>7
  <1> QED
    BY <1>8 DEF Overdraft, t, r, n, Most

\* Subtasks that leave without paying leave room.
LEMMA Leaving ==
    ASSUME Overdraft, spent \in Nat, spent' = spent,
           Turning' \subseteq Turning, Awaiting' \subseteq Awaiting
    PROVE  Overdraft'
  <1> USE AgentLoopAssumption DEF AgentLoopAssumption
  <1>1. Turning \in SUBSET Subtasks /\ Awaiting \in SUBSET Subtasks /\ Turning \cap Awaiting = {}
    BY DEF Turning, Awaiting
  <1>2. Turning' \in SUBSET Turning /\ Awaiting' \in SUBSET Awaiting
    OBVIOUS
  <1> DEFINE t == Cardinality(Turning)
             r == Cardinality(Awaiting)
             u == Cardinality(Turning')
             q == Cardinality(Awaiting')
             n == Cardinality(Subtasks)
  <1>3. t \in Nat /\ r \in Nat /\ n \in Nat /\ IsFiniteSet(Turning) /\ IsFiniteSet(Awaiting)
    BY <1>1, Sizes
  <1>4. u \in Nat /\ q \in Nat /\ u <= t /\ q <= r
    BY <1>2, <1>3, FS_Subset, FS_CardinalityType
  <1>5. Most \in Nat /\ MaxCost \in Nat
    BY DEF Most
  <1>6. spent + t * Most + r * MaxCost <= Budget + n * Most
    BY DEF Overdraft
  <1> HIDE DEF t, r, u, q, n
  <1>7. u * Most <= t * Most /\ q * MaxCost <= r * MaxCost
    BY <1>3, <1>4, <1>5, Products
  <1>8. /\ u * Most \in Nat /\ t * Most \in Nat /\ q * MaxCost \in Nat
        /\ r * MaxCost \in Nat /\ n * Most \in Nat
    BY <1>3, <1>4, <1>5
  <1>9. spent + u * Most + q * MaxCost <= Budget + n * Most
    BY <1>6, <1>7, <1>8
  <1> QED
    BY <1>9 DEF Overdraft, u, q, n, Most

\* A turn is paid by the subtask that takes it, if it was the last.
LEMMA Turned ==
    ASSUME Overdraft, spent \in Nat, spent' \in Nat,
           spent' <= spent + MaxCost + MaxDelegated,
           NEW s \in Turning, Turning' = Turning \ {s}, Awaiting' = Awaiting \cup {s}
    PROVE  Overdraft'
  <1> USE AgentLoopAssumption DEF AgentLoopAssumption
  <1>1. Turning \in SUBSET Subtasks /\ Awaiting \in SUBSET Subtasks /\ Turning \cap Awaiting = {}
    BY DEF Turning, Awaiting
  <1> DEFINE t == Cardinality(Turning)
             r == Cardinality(Awaiting)
             n == Cardinality(Subtasks)
  <1>2. t \in Nat /\ r \in Nat /\ n \in Nat /\ IsFiniteSet(Turning) /\ IsFiniteSet(Awaiting)
    BY <1>1, Sizes
  <1>3. Cardinality(Turning') = t - 1
    BY <1>2, FS_RemoveElement
  <1>4. Cardinality(Awaiting') = r + 1
    BY <1>1, <1>2, FS_AddElement
  <1>5. Most \in Nat /\ MaxCost \in Nat /\ Most = 2 * MaxCost + MaxDelegated
    BY DEF Most
  <1>6. spent + t * Most + r * MaxCost <= Budget + n * Most
    BY DEF Overdraft
  <1> HIDE DEF t, r, n
  <1>7. (t - 1) * Most = t * Most - Most /\ (r + 1) * MaxCost = r * MaxCost + MaxCost
    BY <1>2, <1>5, Products
  <1>8. t * Most \in Nat /\ r * MaxCost \in Nat /\ n * Most \in Nat
    BY <1>2, <1>5
  <1>9. spent' + (t - 1) * Most + (r + 1) * MaxCost <= Budget + n * Most
    BY <1>5, <1>6, <1>7, <1>8
  <1> QED
    BY <1>3, <1>4, <1>9 DEF Overdraft, n, Most

\* A review is paid by the subtask that is reviewed.
LEMMA Paid ==
    ASSUME Overdraft, spent \in Nat, spent' \in Nat, spent' <= spent + MaxCost,
           NEW s \in Awaiting, Turning' = Turning, Awaiting' = Awaiting \ {s}
    PROVE  Overdraft'
  <1> USE AgentLoopAssumption DEF AgentLoopAssumption
  <1>1. Turning \in SUBSET Subtasks /\ Awaiting \in SUBSET Subtasks /\ Turning \cap Awaiting = {}
    BY DEF Turning, Awaiting
  <1> DEFINE t == Cardinality(Turning)
             r == Cardinality(Awaiting)
             n == Cardinality(Subtasks)
  <1>2. t \in Nat /\ r \in Nat /\ n \in Nat /\ IsFiniteSet(Awaiting)
    BY <1>1, Sizes
  <1>3. Cardinality(Awaiting') = r - 1
    BY <1>2, FS_RemoveElement
  <1>4. Most \in Nat /\ MaxCost \in Nat
    BY DEF Most
  <1>5. spent + t * Most + r * MaxCost <= Budget + n * Most
    BY DEF Overdraft
  <1> HIDE DEF t, r, n
  <1>6. (r - 1) * MaxCost = r * MaxCost - MaxCost
    BY <1>2, <1>4, Products
  <1>7. t * Most \in Nat /\ r * MaxCost \in Nat /\ n * Most \in Nat
    BY <1>2, <1>4
  <1>8. spent' + t * Most + (r - 1) * MaxCost <= Budget + n * Most
    BY <1>4, <1>5, <1>6, <1>7
  <1> QED
    BY <1>3, <1>8 DEF Overdraft, t, n, Most

\* At the start nothing is spent.
LEMMA InitOverdraft == Init => Overdraft
  <1> SUFFICES ASSUME Init PROVE Overdraft
    OBVIOUS
  <1>1. Turning = {} /\ Awaiting = {}
    BY DEF Init, Turning, Awaiting
  <1>2. Cardinality({}) = 0 /\ Cardinality(Subtasks) \in Nat
    BY FS_EmptySet, FS_CardinalityType, AgentLoopAssumption DEF AgentLoopAssumption
  <1>3. Most \in Nat /\ MaxCost \in Nat /\ Budget \in Nat
    BY AgentLoopAssumption DEF AgentLoopAssumption, Most
  <1>4. Cardinality(Subtasks) * Most \in Nat
    BY <1>2, <1>3
  <1> QED
    BY <1>1, <1>2, <1>3, <1>4 DEF Overdraft, Init

\* Once the budget is spent, every subtask pays for one turn and one review at most.
LEMMA OverdraftStep == TypeOK /\ Overdraft /\ [Next]_vars /\ TypeOK' => Overdraft'
  <1> SUFFICES ASSUME TypeOK, Overdraft, [Next]_vars, TypeOK', spent' > Budget
               PROVE  Overdraft'
    <2>1. spent' \in Nat /\ Budget \in Nat => (spent' > Budget \/ spent' <= Budget)
      OBVIOUS
    <2> QED
      BY <2>1, WithinBudget, AgentLoopAssumption DEF AgentLoopAssumption, TypeOK
  <1> USE AgentLoopAssumption DEF AgentLoopAssumption, TypeOK
  <1>1. spent \in Nat /\ spent' \in Nat
    OBVIOUS
  <1>2. ASSUME spent' = spent, Turning' \subseteq Turning, Awaiting' \subseteq Awaiting
        PROVE  Overdraft'
    BY <1>1, <1>2, Leaving
  <1> USE DEF Turning, Awaiting
  <1>3. CASE StopAll
    BY <1>2, <1>3 DEF StopAll, Settled
  <1>4. CASE UNCHANGED vars
    BY <1>2, <1>4 DEF vars
  <1>5. ASSUME NEW s \in Subtasks, FailsForNow(s) PROVE Overdraft'
    BY <1>2, <1>5 DEF FailsForNow, Attempt, Locals, To, workspace, judgement
  <1>6. ASSUME NEW s \in Subtasks, WaitEnds(s) PROVE Overdraft'
    BY <1>2, <1>6 DEF WaitEnds, To, execution, workspace, judgement
  <1>7. ASSUME NEW s \in Subtasks, GivesUp(s) PROVE Overdraft'
    BY <1>2, <1>7 DEF GivesUp, Again, Drop, Locals, To, judgement
  <1>8. ASSUME NEW s \in Subtasks, FailsForGood(s) PROVE Overdraft'
    BY <1>2, <1>8 DEF FailsForGood, Drop, Locals, To, judgement
  <1>9. ASSUME NEW s \in Subtasks, Merges(s) PROVE Overdraft'
    BY <1>2, <1>9 DEF Merges, Put, To, execution, judgement
  <1>10. ASSUME NEW s \in Subtasks, MergesNothing(s) PROVE Overdraft'
    BY <1>2, <1>10 DEF MergesNothing, To, execution, workspace, judgement
  <1>11. ASSUME NEW s \in Subtasks, Returns(s) PROVE Overdraft'
    BY <1>2, <1>11 DEF Returns, Drop, To
  <1>12. ASSUME NEW s \in Subtasks, ReviewFails(s) PROVE Overdraft'
    BY <1>2, <1>12 DEF ReviewFails, Ends, Again, To, execution, workspace
  <1>14. ASSUME NEW s \in Subtasks, Judged(s) PROVE Overdraft'
    BY <1>2, <1>14 DEF Judged, Ends, Again, To, execution, workspace
  <1>15. ASSUME NEW s \in Subtasks, Starts(s) PROVE Overdraft'
    BY <1>15 DEF Starts, OverBudget
  <1>16. ASSUME NEW s \in Subtasks, Begins(s) PROVE Overdraft'
    <2>1. Top(0, spent, Remaining) = "merges"
      BY <1>16 DEF Begins, Top, Remaining
    <2> QED
      BY <1>2, <1>16, <2>1 DEF Begins, Locals, To
  <1>17. ASSUME NEW s \in Subtasks, Answers(s) PROVE Overdraft'
    <2>1. PICK c \in 1 .. MaxCost, d \in Delegations, more \in BOOLEAN :
             /\ spent' = spent + c + d.shared
             /\ Locals(s, IF more THEN Top(turns[s] + 1, spent', cap[s]) ELSE "merges",
                       cap[s], turns[s] + 1, 0)
      BY <1>17 DEF Answers
    <2>2. Top(turns[s] + 1, spent', cap[s]) = "merges"
      BY DEF Top
    <2>3. at[s] = "calls" /\ at' = [at EXCEPT ![s] = "merges"]
      BY <1>17, <2>1, <2>2 DEF Answers, Locals, To
    <2>4. spent' <= spent + MaxCost + MaxDelegated
      BY <2>1 DEF Delegations
    <2>5. s \in Turning /\ Turning' = Turning \ {s} /\ Awaiting' = Awaiting \cup {s}
      BY <2>3
    <2> QED
      BY <1>1, <2>4, <2>5, Turned
  <1>18. ASSUME NEW s \in Subtasks, Reviewed(s) PROVE Overdraft'
    <2>1. spent' <= spent + MaxCost
      BY <1>18 DEF Reviewed
    <2>2. s \in Awaiting /\ Turning' = Turning /\ Awaiting' = Awaiting \ {s}
      BY <1>18 DEF Reviewed, To
    <2> QED
      BY <1>1, <2>1, <2>2, Paid
  <1> QED
    BY <1>3, <1>4, <1>5, <1>6, <1>7, <1>8, <1>9, <1>10, <1>11, <1>12, <1>14, <1>15, <1>16, <1>17, <1>18
       DEF Next, Refuses, Cancel, SubtaskStep

-----------------------------------------------------------------------------
(* The theorems. *)

IInv == TypeOK /\ TriesLeft /\ OwnPaid /\ Unseen /\ Known /\ NothingBrokenPasses /\ Overdraft

\* The parts together are an inductive invariant.
LEMMA InvariantHolds == Spec => []IInv
  <1>1. Init => IInv
    <2> SUFFICES ASSUME Init PROVE Overdraft
      BY InitIInv DEF IInv
    <2> QED
      BY InitOverdraft
  <1>2. IInv /\ [Next]_vars => IInv'
    BY TypeStep, PaidStep, UnseenStep, KnownStep, PassedStep, OverdraftStep DEF IInv
  <1> QED
    BY <1>1, <1>2, PTL DEF Spec

\* Every variable has its type, and no counter passes its bound (retries of a call, turns
\* of an agent, executions of a subtask).
THEOREM TypeCorrect == Spec => []TypeOK
  BY InvariantHolds, PTL DEF IInv

\* For any number of subtasks: what passes has not broken the tests named after the files it
\* changed, whatever the reviewer says and the siblings merge.
THEOREM BrokenNeverPasses == Spec => []NothingBrokenPasses
  BY InvariantHolds, PTL DEF IInv

\* For any number of subtasks and any cost of a call: the usage of the run's provider passes
\* the budget by a turn and a review of each subtask at most, and what delegations spend on
\* providers of their own is at most a multiple of that usage.
THEOREM SpendingBounded == Spec => []SpendBounded
  <1>1. IInv => SpendBounded
    <2> SUFFICES ASSUME IInv PROVE SpendBounded
      OBVIOUS
    <2> USE AgentLoopAssumption DEF AgentLoopAssumption
    <2>1. Turning \in SUBSET Subtasks /\ Awaiting \in SUBSET Subtasks /\ Turning \cap Awaiting = {}
      BY DEF Turning, Awaiting
    <2>2. Cardinality(Turning) \in Nat /\ Cardinality(Awaiting) \in Nat
      BY <2>1, Sizes
    <2>3. Cardinality(Turning) * Most \in Nat /\ Cardinality(Awaiting) * MaxCost \in Nat
      BY <2>2 DEF Most
    <2>4. spent \in Nat /\ Cardinality(Subtasks) \in Nat
      BY <2>1, Sizes DEF IInv, TypeOK
    <2>5. Cardinality(Subtasks) * Most \in Nat
      BY <2>4 DEF Most
    <2>6. spent <= Budget + Cardinality(Subtasks) * Most
      BY <2>3, <2>4, <2>5 DEF IInv, Overdraft
    <2> QED
      BY <2>6 DEF SpendBounded, Most, IInv, Unseen
  <1> QED
    BY <1>1, InvariantHolds, PTL

\* For any number of subtasks: the cost attributed to one covers what it spent itself of the
\* run's provider.
THEOREM CostsCovered == Spec => CostCoversOwn
  <1>1. IInv /\ [Next]_vars => [\A s \in Subtasks :
            at[s] = "merged" /\ at'[s] = "review" => cost'[s] >= own[s]]_vars
    <2> SUFFICES ASSUME IInv, [Next]_vars, NEW s \in Subtasks,
                        at[s] = "merged", at'[s] = "review"
                 PROVE  cost'[s] >= own[s]
      OBVIOUS
    <2> USE DEF IInv, TypeOK
    <2>1. Returns(s)
      <3>1. CASE StopAll
        BY <3>1 DEF StopAll, Settled
      <3>2. CASE UNCHANGED vars
        BY <3>2 DEF vars
      <3>3. ASSUME NEW x \in Subtasks, SubtaskStep(x) PROVE Returns(s)
        <4>1. CASE x = s
          BY <3>3, <4>1 DEF SubtaskStep, Starts, Begins, Answers, FailsForNow, WaitEnds,
             GivesUp, FailsForGood, Merges, MergesNothing, Reviewed, ReviewFails,
             Judged
        <4>2. CASE x # s
          BY <3>3, <4>2 DEF SubtaskStep, Starts, Begins, Answers, FailsForNow, WaitEnds,
             GivesUp, FailsForGood, Merges, MergesNothing, Returns, Reviewed, ReviewFails,
             Judged, Ends, Locals, To
        <4> QED
          BY <4>1, <4>2
      <3> QED
        BY <3>1, <3>2, <3>3 DEF Next, Refuses, Cancel
    <2>2. cost'[s] = spent - before[s]
      BY <2>1 DEF Returns, CostDelta
    <2>3. before[s] + own[s] <= spent /\ before[s] \in Nat /\ own[s] \in Nat /\ spent \in Nat
      BY AgentLoopAssumption DEF AgentLoopAssumption, OwnPaid, Executing
    <2> QED
      BY <2>2, <2>3
  <1> QED
    BY <1>1, InvariantHolds, PTL DEF Spec, CostCoversOwn

-----------------------------------------------------------------------------
(* The memory store. *)

Lesson  == [scope : Scopes, text : Texts]
Vector  == [scope : Scopes, of : Texts, text : Texts]
Inserts == [at : {"insert"}, scope : Scopes, text : Texts, alone : BOOLEAN]
Embeds  == [at : {"embed"}, id : Nat, scope : Scopes, text : Texts, new : BOOLEAN]

Embeds1(a, i) == writing[a].at = "embed" /\ writing[a].id = i
Alone(a)      == writing[a].at = "insert" /\ writing[a].alone

MemoryTyped ==
    /\ last \in Nat /\ DOMAIN rows \subseteq 1 .. last
    /\ \A i \in DOMAIN rows : rows[i] \in Lesson
    /\ \A i \in DOMAIN vectors : vectors[i] \in Vector
    /\ writing \in [Askers -> {Mem!Idle} \cup Inserts \cup Embeds]

\* What is being embedded was written before, and is there unless calls met on it.
EmbedsWritten == \A a \in Askers : writing[a].at = "embed" =>
    writing[a].id \in 1 .. last /\ writing[a].id \in DOMAIN rows \cup raced

\* A row nobody raced on and whose vector could be written is either being embedded by one
\* call, with what it says, or can be recalled.
RowRecalled(i) == i \in DOMAIN rows \ (raced \cup unembedded) =>
    /\ \A a, b \in Askers : Embeds1(a, i) /\ Embeds1(b, i) => a = b
    /\ \A a \in Askers : Embeds1(a, i) =>
          /\ writing[a].scope = rows[i].scope /\ writing[a].text = rows[i].text
          /\ writing[a].new \/ (i \in DOMAIN vectors /\ vectors[i].scope = rows[i].scope)
    /\ (\A a \in Askers : ~Embeds1(a, i)) =>
          /\ i \in DOMAIN vectors /\ vectors[i].scope = rows[i].scope
          /\ vectors[i].of = rows[i].text \/ vectors[i].text = rows[i].text

\* A row nobody doubts is found by what it says, or is being embedded with it.
RowFound(i) == i \in DOMAIN rows \ doubted =>
    /\ \A a \in Askers : Embeds1(a, i) =>
          writing[a].scope = rows[i].scope /\ writing[a].text = rows[i].text
    /\ \/ \E a \in Askers : Embeds1(a, i)
       \/ /\ i \in DOMAIN vectors /\ vectors[i].scope = rows[i].scope
          /\ vectors[i].of = rows[i].text

\* Lessons nobody doubts differ, from each other and from those about to be written by calls
\* that were alone with their text when they looked.
LessonsDiffer ==
    /\ \A i, j \in DOMAIN rows \ doubted : i # j => rows[i] # rows[j]
    /\ \A a \in Askers : Alone(a) => \A j \in DOMAIN rows \ doubted :
          rows[j].scope # writing[a].scope \/ rows[j].text # writing[a].text
    /\ \A a, b \in Askers : Alone(a) /\ Alone(b) /\ a # b => writing[a].text # writing[b].text

MemoryInv ==
    /\ MemoryTyped /\ EmbedsWritten /\ LessonsDiffer
    /\ \A i \in DOMAIN rows : RowRecalled(i) /\ RowFound(i)
    /\ Mem!NoGhosts /\ Mem!CapHeld /\ Mem!NothingSwallowed

LEMMA MemCount == \A S : Mem!Cardinality(S) = Cardinality(S)
BY Zenon DEF Mem!Cardinality, Cardinality

\* A set of numbers has a least one.
LEMMA LeastOne ==
    ASSUME NEW S, S \subseteq Nat, S # {}
    PROVE  \E m \in S : \A n \in S : m <= n
<1> DEFINE R == OpToRel(<, Nat)
<1>1. IsWellFoundedOn(R, Nat)
  BY NatLessThanWellFounded, Zenon
<1>2. \A x, y \in Nat : <<x, y>> \in R <=> x < y
  BY DEF OpToRel
<1> HIDE DEF R
<1>3. PICK m \in S : \A n \in S : ~(<<n, m>> \in R)
  BY <1>1, WFMin
<1>4. ASSUME NEW n \in S PROVE m <= n
  <2>1. n \in Nat /\ m \in Nat /\ ~(n < m)
    BY <1>2, <1>3
  <2> QED
    BY <2>1
<1> QED
  BY <1>4

\* What the cap leaves is within the cap.
LEMMA CapLeaves ==
    ASSUME NEW S, NEW n \in Nat, S \subseteq 1 .. n
    PROVE  LET left == {i \in S : ~(Cardinality({j \in S : j >= i}) > MemoryCap)}
           IN  Cardinality(left) <= MemoryCap
<1> DEFINE left == {i \in S : ~(Cardinality({j \in S : j >= i}) > MemoryCap)}
<1>1. IsFiniteSet(S) /\ S \subseteq Nat
  <2>1. IsFiniteSet(1 .. n)
    <3>1. 1 \in Int /\ n \in Int
      OBVIOUS
    <3> QED
      BY <3>1, FS_Interval
  <2>2. IsFiniteSet(S)
    BY <2>1, FS_Subset
  <2> QED
    BY <2>2
<1>2. CASE left = {}
  <2>1. Cardinality(left) = 0
    <3> HIDE DEF left
    <3> QED
      BY <1>2, FS_EmptySet
  <2> HIDE DEF left
  <2>2. Cardinality(left) <= MemoryCap
    BY <2>1, MemoryAssumption
  <2> QED
    BY <2>2 DEF left
<1>3. CASE left # {}
  <2>1. PICK m \in left : \A i \in left : m <= i
    BY <1>1, <1>3, LeastOne
  <2> DEFINE above == {j \in S : j >= m}
  <2>2. left \subseteq above /\ above \subseteq S
    BY <1>1, <2>1
  <2>3. ~(Cardinality(above) > MemoryCap)
    BY <2>1
  <2> HIDE DEF left, above
  <2>4. IsFiniteSet(above) /\ Cardinality(above) \in Nat
    BY <1>1, <2>2, FS_Subset, FS_CardinalityType
  <2>5. Cardinality(left) <= Cardinality(above) /\ Cardinality(left) \in Nat
    BY <2>2, <2>4, FS_Subset, FS_CardinalityType
  <2> QED
    BY <2>3, <2>4, <2>5, MemoryAssumption DEF left
<1> QED
  BY <1>2, <1>3

LEMMA MemoryBegins == ASSUME Mem!Init PROVE MemoryInv
<1>1. DOMAIN rows = {} /\ DOMAIN vectors = {}
  BY DEF Mem!Init
<1>2. \A a \in Askers : writing[a].at = "idle"
  BY DEF Mem!Init, Mem!Idle
<1>3. MemoryTyped
  BY <1>1 DEF Mem!Init, MemoryTyped
<1>4. EmbedsWritten /\ LessonsDiffer
  BY <1>1, <1>2 DEF EmbedsWritten, LessonsDiffer, Alone
<1>5. Mem!NoGhosts /\ Mem!NothingSwallowed
  BY <1>1 DEF Mem!Init, Mem!NoGhosts, Mem!NothingSwallowed
<1>6. Mem!CapHeld
  BY <1>1, MemCount, FS_EmptySet, MemoryAssumption DEF Mem!CapHeld
<1> QED
  BY <1>1, <1>3, <1>4, <1>5, <1>6 DEF MemoryInv

\* A call in the middle of something has the fields of it.
LEMMA MemoryShapes ==
    ASSUME MemoryTyped, NEW a \in Askers
    PROVE  /\ writing[a].at = "insert" => writing[a] \in Inserts
           /\ writing[a].at = "embed" => writing[a] \in Embeds
           /\ writing[a].at \notin {"insert", "embed"} => writing[a] = Mem!Idle
<1>1. writing[a] \in {Mem!Idle} \cup Inserts \cup Embeds
  BY DEF MemoryTyped
<1> QED
  BY <1>1 DEF Inserts, Embeds, Mem!Idle

\* The cap holds while no row is added.
LEMMA CapStays ==
    ASSUME MemoryInv, DOMAIN rows' \subseteq DOMAIN rows PROVE Mem!CapHeld'
<1>1. IsFiniteSet(DOMAIN rows)
  <2>1. 1 \in Int /\ last \in Int /\ DOMAIN rows \subseteq 1 .. last
    BY DEF MemoryInv, MemoryTyped
  <2>2. IsFiniteSet(1 .. last)
    BY <2>1, FS_Interval
  <2> QED
    BY <2>1, <2>2, FS_Subset
<1>2. /\ Cardinality(DOMAIN rows') <= Cardinality(DOMAIN rows)
      /\ Cardinality(DOMAIN rows') \in Nat /\ Cardinality(DOMAIN rows) \in Nat
  BY <1>1, FS_Subset, FS_CardinalityType
<1>3. Cardinality(DOMAIN rows) <= MemoryCap
  BY MemCount DEF MemoryInv, Mem!CapHeld
<1>4. Cardinality(DOMAIN rows') <= MemoryCap
  BY <1>2, <1>3, MemoryAssumption
<1> QED
  BY <1>4, MemCount DEF Mem!CapHeld

\* A lesson that looks like a row there is, is that row, or was, until calls met on it.
LEMMA MemoryLooks ==
    ASSUME MemoryInv, NEW a \in Askers, NEW s \in Scopes, NEW t \in Texts,
           Mem!RememberUnique(a, s, t)
    PROVE  MemoryInv'
<1>1. writing[a] = Mem!Idle /\ writing[a].at = "idle"
      /\ UNCHANGED <<rows, vectors, last, edits, failures, raced, unembedded, doubted>>
  BY DEF Mem!RememberUnique, Mem!Idle
<1>2. Mem!CapHeld' /\ Mem!NoGhosts'
  BY <1>1, CapStays DEF MemoryInv, Mem!NoGhosts
<1>3. CASE Mem!Near(s, t) # {}
  <2>1. PICK i \in Mem!Near(s, t) :
          swallowed' = IF i \in DOMAIN rows THEN swallowed ELSE swallowed \cup {i}
    BY <1>3 DEF Mem!RememberUnique
  <2>2. writing' = writing
    BY <1>3 DEF Mem!RememberUnique
  <2>3. Mem!NothingSwallowed'
    BY <1>1, <2>1 DEF MemoryInv, Mem!NothingSwallowed, Mem!NoGhosts, Mem!Near
  <2>4. MemoryTyped' /\ EmbedsWritten' /\ LessonsDiffer'
    BY <1>1, <2>2 DEF MemoryInv, MemoryTyped, EmbedsWritten, LessonsDiffer, Alone
  <2>5. \A j \in DOMAIN rows : RowRecalled(j)' /\ RowFound(j)'
    BY <1>1, <2>2 DEF MemoryInv, RowRecalled, RowFound, Embeds1
  <2> QED
    BY <1>1, <1>2, <2>3, <2>4, <2>5 DEF MemoryInv
<1>4. CASE Mem!Near(s, t) = {}
  <2> DEFINE sole == \A b \in Askers : writing[b] = Mem!Idle \/ writing[b].text # t
             o == [at |-> "insert", scope |-> s, text |-> t, alone |-> sole]
  <2>1. writing' = [writing EXCEPT ![a] = o] /\ swallowed' = swallowed
    BY <1>4 DEF Mem!RememberUnique
  <2>2. o \in Inserts /\ o.at = "insert" /\ o.scope = s /\ o.text = t
        /\ (o.alone <=> sole)
    BY DEF Inserts
  <2> HIDE DEF o
  <2>3. \A b \in Askers : writing'[b] = IF b = a THEN o ELSE writing[b]
    BY <2>1 DEF MemoryInv, MemoryTyped
  <2>4. \A b \in Askers, i \in Nat : Embeds1(b, i)' <=> Embeds1(b, i)
    BY <1>1, <2>2, <2>3 DEF Embeds1
  <2>5. MemoryTyped' /\ EmbedsWritten' /\ Mem!NothingSwallowed'
    BY <1>1, <2>1, <2>2, <2>3 DEF MemoryInv, MemoryTyped, EmbedsWritten, Mem!NothingSwallowed
  <2>6. ASSUME NEW i \in DOMAIN rows PROVE RowRecalled(i)' /\ RowFound(i)'
    <3>1. i \in Nat
      BY DEF MemoryInv, MemoryTyped
    <3>2. \A b \in Askers : /\ Embeds1(b, i)' <=> Embeds1(b, i)
                            /\ Embeds1(b, i) => writing'[b] = writing[b]
      BY <1>1, <2>3, <2>4, <3>1 DEF Embeds1
    <3> QED
      BY <1>1, <3>2 DEF MemoryInv, RowRecalled, RowFound
  <2>7. \A b \in Askers \ {a} : (Alone(b)' <=> Alone(b)) /\ writing'[b] = writing[b]
    BY <2>3 DEF Alone
  <2>8. ASSUME sole
        PROVE  /\ \A j \in DOMAIN rows \ doubted : rows[j].scope # s \/ rows[j].text # t
               /\ \A b \in Askers \ {a} : Alone(b) => writing[b].text # t
    <3>1. \A b \in Askers : writing[b].at \in {"insert", "embed"} => writing[b].text # t
      BY <2>8 DEF Mem!Idle
    <3>2. ASSUME NEW j \in DOMAIN rows \ doubted, rows[j].scope = s, rows[j].text = t
          PROVE  FALSE
      <4>1. \A b \in Askers : ~Embeds1(b, j)
        BY <3>1, <3>2 DEF Embeds1, MemoryInv, RowFound
      <4>2. j \in Mem!Near(s, t)
        BY <3>2, <4>1 DEF Mem!Near, MemoryInv, RowFound
      <4> QED
        BY <1>4, <4>2
    <3> QED
      BY <3>1, <3>2 DEF Alone
  <2>9. LessonsDiffer'
    <3>1. \A j \in DOMAIN rows \ doubted : Alone(a)' => rows[j].scope # s \/ rows[j].text # t
      BY <2>2, <2>3, <2>8 DEF Alone
    <3>2. \A b \in Askers \ {a} : Alone(a)' /\ Alone(b) => writing[b].text # t
      BY <2>2, <2>3, <2>8 DEF Alone
    <3> QED
      BY <1>1, <2>2, <2>3, <2>7, <3>1, <3>2 DEF MemoryInv, LessonsDiffer
  <2> QED
    BY <1>1, <1>2, <2>5, <2>6, <2>9 DEF MemoryInv
<1> QED
  BY <1>3, <1>4

\* A row comes in, and the oldest beyond the cap go, with their vectors.
LEMMA MemoryInserts == ASSUME MemoryInv, NEW a \in Askers, Mem!Insert(a) PROVE MemoryInv'
<1>a. PICK i \in Nat : i = last + 1
  BY DEF MemoryInv, MemoryTyped
<1>b. PICK fresh : fresh = [scope |-> writing[a].scope, text |-> writing[a].text]
  OBVIOUS
<1>c. PICK o : o = [at |-> "embed", id |-> i, scope |-> writing[a].scope,
                    text |-> writing[a].text, new |-> TRUE]
  OBVIOUS
<1>d. PICK R : R = Mem!Put(rows, i, fresh)
  OBVIOUS
<1>1. PICK gone : gone = Mem!Overflow(R)
  OBVIOUS
<1>2. /\ writing[a].at = "insert" /\ rows' = Mem!Without(R, gone)
      /\ vectors' = Mem!Without(vectors, gone) /\ last' = i
      /\ raced' = raced \cup {j \in gone : Mem!Embedding(j) # {}}
      /\ doubted' = (IF writing[a].alone THEN doubted ELSE doubted \cup {i})
      /\ writing' = [writing EXCEPT ![a] = o]
      /\ UNCHANGED <<unembedded, swallowed>>
  BY <1>1, <1>a, <1>b, <1>c, <1>d DEF Mem!Insert, Mem!Evicted
<1>3. /\ writing[a] \in Inserts /\ i \in Nat /\ i \in 1 .. i /\ i \notin DOMAIN rows
      /\ last \in Nat /\ DOMAIN rows \subseteq 1 .. last /\ 1 .. last \subseteq 1 .. i
  BY <1>2, <1>a, MemoryShapes DEF MemoryInv, MemoryTyped
<1>4. /\ fresh \in Lesson /\ fresh.scope = writing[a].scope /\ fresh.text = writing[a].text
      /\ o \in Embeds /\ o.at = "embed" /\ o.id = i /\ o.scope = writing[a].scope
      /\ o.text = writing[a].text /\ o.new = TRUE
  BY <1>3, <1>b, <1>c DEF Inserts, Embeds, Lesson
<1>5. /\ DOMAIN R = DOMAIN rows \cup {i} /\ DOMAIN R \subseteq 1 .. i
      /\ R[i].scope = writing[a].scope /\ R[i].text = writing[a].text /\ R[i] \in Lesson
      /\ \A j \in DOMAIN rows : R[j] = rows[j]
  <2>1. DOMAIN R = DOMAIN rows \cup {i} /\ R[i] = fresh
        /\ \A j \in DOMAIN rows \ {i} : R[j] = rows[j]
    BY <1>d DEF Mem!Put
  <2> QED
    BY <1>3, <1>4, <2>1
<1>6. /\ DOMAIN rows' = DOMAIN R \ gone /\ \A j \in DOMAIN rows' : rows'[j] = R[j]
      /\ DOMAIN vectors' = DOMAIN vectors \ gone
      /\ \A j \in DOMAIN vectors' : vectors'[j] = vectors[j]
  BY <1>2 DEF Mem!Without
<1>e. gone = {j \in DOMAIN R : Cardinality({k \in DOMAIN R : k >= j}) > MemoryCap}
  BY <1>1, MemCount DEF Mem!Overflow
<1>7. Mem!CapHeld'
  <2>2. DOMAIN R \ gone =
           {j \in DOMAIN R : ~(Cardinality({k \in DOMAIN R : k >= j}) > MemoryCap)}
    BY <1>e
  <2>3. Cardinality(DOMAIN R \ gone) <= MemoryCap
    BY <1>3, <1>5, <2>2, CapLeaves
  <2> QED
    BY <1>6, <2>3, MemCount DEF Mem!CapHeld
<1>8. i \in DOMAIN rows'
  <2>1. {k \in DOMAIN R : k >= i} = {i}
    BY <1>3, <1>5
  <2>2. Cardinality({k \in DOMAIN R : k >= i}) = 1
    BY <2>1, FS_Singleton
  <2>3. i \notin gone
    BY <1>e, <2>2, MemoryAssumption
  <2> QED
    BY <1>5, <1>6, <2>3
<1>9. \A b \in Askers : writing'[b] = IF b = a THEN o ELSE writing[b]
  BY <1>2 DEF MemoryInv, MemoryTyped
<1>10. MemoryTyped'
  <2>1. \A j \in DOMAIN rows' : j \in 1 .. i /\ rows'[j] \in Lesson
    BY <1>3, <1>5, <1>6 DEF MemoryInv, MemoryTyped
  <2>2. \A j \in DOMAIN vectors' : vectors'[j] \in Vector
    BY <1>6 DEF MemoryInv, MemoryTyped
  <2> QED
    BY <1>2, <1>3, <1>4, <2>1, <2>2 DEF MemoryInv, MemoryTyped
<1>11. \A b \in Askers \ {a} : writing[b].at = "embed" =>
          writing[b].id \in 1 .. last /\ writing[b].id \in DOMAIN rows' \cup raced'
  BY <1>2, <1>5, <1>6 DEF MemoryInv, EmbedsWritten, Mem!Embedding
<1>12. EmbedsWritten'
  BY <1>2, <1>3, <1>4, <1>8, <1>9, <1>11 DEF EmbedsWritten
<1>13. Mem!NoGhosts' /\ Mem!NothingSwallowed'
  BY <1>2, <1>5, <1>6 DEF MemoryInv, Mem!NoGhosts, Mem!NothingSwallowed
<1>14. \A b \in Askers, j \in DOMAIN rows \cup {i} :
          Embeds1(b, j)' <=> IF b = a THEN j = i ELSE Embeds1(b, j) /\ j # i
  <2>1. \A b \in Askers \ {a} : ~Embeds1(b, i)
    BY <1>3, <1>a DEF MemoryInv, EmbedsWritten, Embeds1
  <2>2. \A j : ~Embeds1(a, j)
    BY <1>2 DEF Embeds1
  <2> QED
    BY <1>4, <1>9, <2>1, <2>2 DEF Embeds1
<1>15. ASSUME NEW j \in DOMAIN rows' PROVE RowRecalled(j)' /\ RowFound(j)'
  <2>1. CASE j = i
    <3>1. \A b \in Askers : Embeds1(b, i)' <=> b = a
      BY <1>14
    <3>2. rows'[i].scope = writing[a].scope /\ rows'[i].text = writing[a].text
      BY <1>5, <1>6, <1>8
    <3> QED
      BY <1>4, <1>9, <2>1, <3>1, <3>2 DEF RowRecalled, RowFound
  <2>2. CASE j # i
    <3>1. j \in DOMAIN rows /\ j \notin gone /\ rows'[j] = rows[j]
      BY <1>5, <1>6, <2>2
    <3>2. /\ j \in DOMAIN vectors' <=> j \in DOMAIN vectors
          /\ j \in DOMAIN vectors => vectors'[j] = vectors[j]
      BY <1>6, <3>1
    <3>3. \A b \in Askers : /\ Embeds1(b, j)' <=> Embeds1(b, j)
                            /\ Embeds1(b, j) => writing'[b] = writing[b]
      BY <1>2, <1>9, <1>14, <2>2, <3>1 DEF Embeds1
    <3>4. (j \in doubted' <=> j \in doubted) /\ (j \in raced => j \in raced')
          /\ unembedded' = unembedded
      BY <1>2, <2>2
    <3> QED
      BY <3>1, <3>2, <3>3, <3>4 DEF MemoryInv, RowRecalled, RowFound
  <2> QED
    BY <2>1, <2>2
<1>16. LessonsDiffer'
  <2>1. \A b \in Askers : Alone(b)' => Alone(b) /\ b # a /\ writing'[b] = writing[b]
    BY <1>4, <1>9 DEF Alone
  <2>2. \A j \in DOMAIN rows' \ doubted' :
           \/ j \in DOMAIN rows \ doubted /\ rows'[j] = rows[j]
           \/ j = i /\ Alone(a) /\ rows'[j] = R[i]
    BY <1>2, <1>5, <1>6 DEF Alone
  <2>3. Alone(a) => \A j \in DOMAIN rows \ doubted : rows[j] # R[i]
    BY <1>5 DEF MemoryInv, LessonsDiffer
  <2>4. \A j, k \in DOMAIN rows' \ doubted' : j # k => rows'[j] # rows'[k]
    BY <2>2, <2>3 DEF MemoryInv, LessonsDiffer
  <2>5. \A b \in Askers : Alone(b)' => \A j \in DOMAIN rows' \ doubted' :
           rows'[j].scope # writing'[b].scope \/ rows'[j].text # writing'[b].text
    BY <1>5, <2>1, <2>2 DEF MemoryInv, LessonsDiffer
  <2> QED
    BY <2>1, <2>4, <2>5 DEF MemoryInv, LessonsDiffer
<1> QED
  BY <1>7, <1>10, <1>12, <1>13, <1>15, <1>16 DEF MemoryInv

\* The vector of a row is written, with what the one call embedding it says.
LEMMA MemoryEmbeds == ASSUME MemoryInv, NEW a \in Askers, Mem!Embed(a) PROVE MemoryInv'
<1>a. PICK i : i = writing[a].id
  OBVIOUS
<1>b. PICK v : v = [scope |-> writing[a].scope, of |-> writing[a].text,
                    text |-> writing[a].text]
  OBVIOUS
<1>1. /\ writing[a].at = "embed" /\ vectors' = Mem!Put(vectors, i, v)
      /\ writing' = [writing EXCEPT ![a] = Mem!Idle]
      /\ UNCHANGED <<rows, last, raced, unembedded, doubted, swallowed>>
  BY <1>a, <1>b DEF Mem!Embed
<1>2. /\ writing[a] \in Embeds /\ i \in 1 .. last /\ i \in DOMAIN rows \cup raced
      /\ Embeds1(a, i) /\ v \in Vector
      /\ v.scope = writing[a].scope /\ v.of = writing[a].text /\ v.text = writing[a].text
  BY <1>1, <1>a, <1>b, MemoryShapes
     DEF MemoryInv, EmbedsWritten, Embeds, Embeds1, Vector
<1>3. /\ DOMAIN vectors' = DOMAIN vectors \cup {i} /\ vectors'[i] = v
      /\ \A j \in DOMAIN vectors \ {i} : vectors'[j] = vectors[j]
  BY <1>1 DEF Mem!Put
<1>4. \A b \in Askers : writing'[b] = IF b = a THEN Mem!Idle ELSE writing[b]
  BY <1>1 DEF MemoryInv, MemoryTyped
<1>5. Mem!Idle.at = "idle"
  BY DEF Mem!Idle
<1>6. MemoryTyped'
  <2>1. \A j \in DOMAIN vectors' : vectors'[j] \in Vector
    BY <1>2, <1>3 DEF MemoryInv, MemoryTyped
  <2> QED
    BY <1>1, <2>1 DEF MemoryInv, MemoryTyped
<1>7. EmbedsWritten'
  BY <1>1, <1>4, <1>5 DEF MemoryInv, EmbedsWritten
<1>8. \A b \in Askers, j \in 1 .. last : Embeds1(b, j)' <=> (b # a /\ Embeds1(b, j))
  BY <1>4, <1>5 DEF Embeds1
<1>9. \A b \in Askers : Alone(b)' => Alone(b) /\ writing'[b] = writing[b]
  BY <1>4, <1>5 DEF Alone
<1>10. LessonsDiffer'
  BY <1>1, <1>9 DEF MemoryInv, LessonsDiffer
<1>11. Mem!NoGhosts' /\ Mem!NothingSwallowed'
  BY <1>1, <1>2, <1>3 DEF MemoryInv, Mem!NoGhosts, Mem!NothingSwallowed
<1>12. Mem!CapHeld'
  BY <1>1, CapStays
<1>13. ASSUME NEW j \in DOMAIN rows' PROVE RowRecalled(j)' /\ RowFound(j)'
  <2>1. j \in DOMAIN rows /\ j \in 1 .. last /\ rows' = rows
    BY <1>1 DEF MemoryInv, MemoryTyped
  <2>2. CASE j = i
    <3>1. ASSUME j \notin raced \cup unembedded PROVE RowRecalled(j)'
      <4>1. \A b \in Askers : ~Embeds1(b, j)'
        BY <1>2, <1>8, <2>1, <2>2, <3>1 DEF MemoryInv, RowRecalled
      <4>2. rows[j].scope = v.scope
        BY <1>2, <2>1, <2>2, <3>1 DEF MemoryInv, RowRecalled
      <4>3. rows[j].text = v.text
        BY <1>2, <2>1, <2>2, <3>1 DEF MemoryInv, RowRecalled
      <4> QED
        BY <1>3, <2>1, <2>2, <4>1, <4>2, <4>3 DEF RowRecalled
    <3>2. ASSUME j \notin doubted PROVE RowFound(j)'
      <4>1. \A b \in Askers : Embeds1(b, j)' => Embeds1(b, j) /\ writing'[b] = writing[b]
        BY <1>4, <1>8, <2>1
      <4>2. rows[j].scope = v.scope /\ rows[j].text = v.of
        BY <1>2, <2>1, <2>2, <3>2 DEF MemoryInv, RowFound
      <4> QED
        BY <1>3, <2>1, <2>2, <3>2, <4>1, <4>2 DEF MemoryInv, RowFound
    <3> QED
      BY <1>1, <3>1, <3>2 DEF RowRecalled, RowFound
  <2>3. CASE j # i
    <3>1. /\ j \in DOMAIN vectors' <=> j \in DOMAIN vectors
          /\ j \in DOMAIN vectors => vectors'[j] = vectors[j]
      BY <1>3, <2>3
    <3>2. \A b \in Askers : /\ Embeds1(b, j)' <=> Embeds1(b, j)
                            /\ Embeds1(b, j) => writing'[b] = writing[b]
      BY <1>4, <1>8, <1>a, <2>1, <2>3 DEF Embeds1
    <3>3. RowRecalled(j)'
      BY <1>1, <2>1, <3>1, <3>2 DEF MemoryInv, RowRecalled
    <3>4. RowFound(j)'
      BY <1>1, <2>1, <3>1, <3>2 DEF MemoryInv, RowFound
    <3> QED
      BY <3>3, <3>4
  <2> QED
    BY <2>2, <2>3
<1> QED
  BY <1>6, <1>7, <1>10, <1>11, <1>12, <1>13 DEF MemoryInv

\* A row whose vector is not written is no longer vouched for.
LEMMA MemoryFails == ASSUME MemoryInv, NEW a \in Askers, Mem!EmbedFails(a) PROVE MemoryInv'
<1>a. PICK i : i = writing[a].id
  OBVIOUS
<1>1. /\ writing[a].at = "embed" /\ writing' = [writing EXCEPT ![a] = Mem!Idle]
      /\ vectors' = (IF writing[a].new \/ i \notin DOMAIN vectors THEN vectors
                     ELSE [vectors EXCEPT ![i].text = writing[a].text])
      /\ unembedded' = (IF writing[a].new \/ i \notin DOMAIN vectors
                        THEN unembedded \cup {i} ELSE unembedded)
      /\ doubted' = doubted \cup {i}
      /\ UNCHANGED <<rows, last, raced, swallowed>>
  BY <1>a DEF Mem!EmbedFails
<1>2. writing[a] \in Embeds /\ Embeds1(a, i) /\ writing[a].text \in Texts
  BY <1>1, <1>a, MemoryShapes DEF MemoryInv, Embeds, Embeds1
<1>3. DOMAIN vectors' = DOMAIN vectors
  BY <1>1
<1>3a. \A j \in DOMAIN vectors \ {i} : vectors'[j] = vectors[j]
  BY <1>1
<1>3b. i \in DOMAIN vectors => vectors'[i] \in Vector /\ vectors'[i].scope = vectors[i].scope
          /\ (~writing[a].new => vectors'[i].text = writing[a].text)
  <2>1. i \in DOMAIN vectors => vectors[i] \in Vector
    BY DEF MemoryInv, MemoryTyped
  <2> QED
    BY <1>1, <1>2, <2>1 DEF Vector
<1>4. \A b \in Askers : writing'[b] = IF b = a THEN Mem!Idle ELSE writing[b]
  BY <1>1 DEF MemoryInv, MemoryTyped
<1>5. Mem!Idle.at = "idle"
  BY DEF Mem!Idle
<1>6. MemoryTyped'
  <2>1. \A j \in DOMAIN vectors' : vectors'[j] \in Vector
    BY <1>3, <1>3a, <1>3b DEF MemoryInv, MemoryTyped
  <2> QED
    BY <1>1, <2>1 DEF MemoryInv, MemoryTyped
<1>7. EmbedsWritten'
  BY <1>1, <1>4, <1>5 DEF MemoryInv, EmbedsWritten
<1>8. \A b \in Askers, j \in DOMAIN rows : Embeds1(b, j)' <=> (b # a /\ Embeds1(b, j))
  BY <1>4, <1>5 DEF Embeds1
<1>9. \A b \in Askers : Alone(b)' => Alone(b) /\ writing'[b] = writing[b]
  BY <1>4, <1>5 DEF Alone
<1>10. LessonsDiffer'
  BY <1>1, <1>9 DEF MemoryInv, LessonsDiffer
<1>11. Mem!NoGhosts' /\ Mem!NothingSwallowed'
  BY <1>1, <1>3 DEF MemoryInv, Mem!NoGhosts, Mem!NothingSwallowed
<1>12. Mem!CapHeld'
  BY <1>1, CapStays
<1>13. ASSUME NEW j \in DOMAIN rows' PROVE RowRecalled(j)' /\ RowFound(j)'
  <2>1. j \in DOMAIN rows /\ rows' = rows
    BY <1>1
  <2>2. CASE j = i
    <3>1. RowFound(j)'
      BY <1>1, <2>2 DEF RowFound
    <3>2. ASSUME j \notin raced \cup unembedded', ~writing[a].new, j \in DOMAIN vectors
          PROVE  RowRecalled(j)'
      <4>1. j \notin raced \cup unembedded
        BY <1>1, <3>2
      <4>2. \A b \in Askers : ~Embeds1(b, j)'
        BY <1>2, <1>8, <2>1, <2>2, <4>1 DEF MemoryInv, RowRecalled
      <4>3. rows[j].scope = vectors[j].scope /\ rows[j].text = writing[a].text
        BY <1>2, <2>1, <2>2, <3>2, <4>1 DEF MemoryInv, RowRecalled
      <4> QED
        BY <1>3, <1>3b, <2>1, <2>2, <3>2, <4>2, <4>3 DEF RowRecalled
    <3>3. RowRecalled(j)'
      BY <1>1, <2>2, <3>2 DEF RowRecalled
    <3> QED
      BY <3>1, <3>3
  <2>3. CASE j # i
    <3>1. j \in DOMAIN vectors => vectors'[j] = vectors[j]
      BY <1>3a, <2>3
    <3>2. \A b \in Askers : /\ Embeds1(b, j)' <=> Embeds1(b, j)
                            /\ Embeds1(b, j) => writing'[b] = writing[b]
      BY <1>4, <1>8, <1>a, <2>1, <2>3 DEF Embeds1
    <3>3. /\ j \notin raced' \cup unembedded' => j \notin raced \cup unembedded
          /\ j \notin doubted' => j \notin doubted
      BY <1>1
    <3>4. RowRecalled(j)'
      BY <1>3, <2>1, <3>1, <3>2, <3>3 DEF MemoryInv, RowRecalled
    <3>5. RowFound(j)'
      BY <1>3, <2>1, <3>1, <3>2, <3>3 DEF MemoryInv, RowFound
    <3> QED
      BY <3>4, <3>5
  <2> QED
    BY <2>2, <2>3
<1> QED
  BY <1>6, <1>7, <1>10, <1>11, <1>12, <1>13 DEF MemoryInv

\* A row that is edited is doubted, and is embedded by the call that edits it alone unless
\* another was embedding it.
LEMMA MemoryEdits ==
    ASSUME MemoryInv, NEW a \in Askers, NEW i \in Mem!Ids, NEW t \in Texts, Mem!Edit(a, i, t)
    PROVE  MemoryInv'
<1>a. PICK o : o = [at |-> "embed", id |-> i, scope |-> rows[i].scope, text |-> t,
                    new |-> FALSE]
  OBVIOUS
<1>1. /\ writing[a] = Mem!Idle /\ i \in DOMAIN rows
      /\ rows' = [rows EXCEPT ![i].text = t] /\ writing' = [writing EXCEPT ![a] = o]
      /\ raced' = (IF Mem!Embedding(i) = {} THEN raced ELSE raced \cup {i})
      /\ doubted' = doubted \cup {i}
      /\ UNCHANGED <<vectors, last, unembedded, swallowed>>
  BY <1>a DEF Mem!Edit
<1>2. /\ i \in 1 .. last /\ last \in Nat /\ i \in Nat /\ rows[i] \in Lesson
      /\ DOMAIN rows \subseteq 1 .. last
  BY <1>1 DEF MemoryInv, MemoryTyped
<1>3. /\ DOMAIN rows' = DOMAIN rows /\ rows'[i] \in Lesson
      /\ rows'[i].scope = rows[i].scope /\ rows'[i].text = t
      /\ \A j \in DOMAIN rows \ {i} : rows'[j] = rows[j]
  BY <1>1, <1>2 DEF Lesson
<1>4. /\ o \in Embeds /\ o.at = "embed" /\ o.id = i /\ o.scope = rows[i].scope
      /\ o.text = t /\ o.new = FALSE
  BY <1>a, <1>2 DEF Embeds, Lesson
<1>5. \A b \in Askers : writing'[b] = IF b = a THEN o ELSE writing[b]
  BY <1>1 DEF MemoryInv, MemoryTyped
<1>6. MemoryTyped'
  <2>1. \A j \in DOMAIN rows' : rows'[j] \in Lesson
    BY <1>3 DEF MemoryInv, MemoryTyped
  <2> QED
    BY <1>1, <1>3, <1>4, <2>1 DEF MemoryInv, MemoryTyped
<1>7. EmbedsWritten'
  BY <1>1, <1>2, <1>3, <1>4, <1>5 DEF MemoryInv, EmbedsWritten
<1>8. /\ \A b \in Askers, j \in DOMAIN rows \ {i} : /\ Embeds1(b, j)' <=> Embeds1(b, j)
                                                   /\ Embeds1(b, j) => writing'[b] = writing[b]
      /\ \A b \in Askers \ {a} : Embeds1(b, i)' <=> Embeds1(b, i)
  BY <1>1, <1>4, <1>5 DEF Embeds1, Mem!Idle
<1>9. \A b \in Askers : Alone(b)' => Alone(b) /\ writing'[b] = writing[b]
  BY <1>4, <1>5 DEF Alone
<1>10. \A j \in DOMAIN rows' \ doubted' : j \in DOMAIN rows \ doubted /\ rows'[j] = rows[j]
  BY <1>1, <1>3
<1>11. LessonsDiffer'
  BY <1>9, <1>10 DEF MemoryInv, LessonsDiffer
<1>12. Mem!NoGhosts' /\ Mem!NothingSwallowed'
  BY <1>1, <1>3 DEF MemoryInv, Mem!NoGhosts, Mem!NothingSwallowed
<1>13. Mem!CapHeld'
  BY <1>3, CapStays
<1>14. ASSUME NEW j \in DOMAIN rows' PROVE RowRecalled(j)' /\ RowFound(j)'
  <2>1. CASE j = i
    <3>1. RowFound(j)'
      BY <1>1, <2>1 DEF RowFound
    <3>2. ASSUME j \notin raced' \cup unembedded PROVE RowRecalled(j)'
      <4>1. \A b \in Askers : ~Embeds1(b, i)
        BY <1>1, <2>1, <3>2 DEF Mem!Embedding, Embeds1
      <4>2. i \in DOMAIN vectors /\ vectors[i].scope = rows[i].scope
        BY <1>1, <2>1, <3>2, <4>1 DEF MemoryInv, RowRecalled
      <4>3. \A b \in Askers : Embeds1(b, i)' => b = a
        BY <1>8, <4>1
      <4>4. Embeds1(a, i)' /\ writing'[a] = o
        BY <1>4, <1>5 DEF Embeds1
      <4> QED
        BY <1>1, <1>3, <1>4, <2>1, <4>2, <4>3, <4>4 DEF RowRecalled
    <3>3. RowRecalled(j)'
      BY <1>1, <3>2 DEF RowRecalled
    <3> QED
      BY <3>1, <3>3
  <2>2. CASE j # i
    <3>1. j \in DOMAIN rows /\ rows'[j] = rows[j] /\ vectors' = vectors
          /\ (j \in raced => j \in raced') /\ (j \in doubted => j \in doubted')
          /\ unembedded' = unembedded
      BY <1>1, <1>3, <2>2
    <3>2. \A b \in Askers : /\ Embeds1(b, j)' <=> Embeds1(b, j)
                            /\ Embeds1(b, j) => writing'[b] = writing[b]
      BY <1>1, <1>4, <1>5, <2>2 DEF Embeds1, Mem!Idle
    <3>3. RowRecalled(j)'
      BY <3>1, <3>2 DEF MemoryInv, RowRecalled
    <3>4. RowFound(j)'
      BY <3>1, <3>2 DEF MemoryInv, RowFound
    <3> QED
      BY <3>3, <3>4
  <2> QED
    BY <2>1, <2>2
<1> QED
  BY <1>6, <1>7, <1>11, <1>12, <1>13, <1>14, <1>3 DEF MemoryInv

\* A row that is deleted goes with its vector; a call embedding it is marked.
LEMMA MemoryDeletes ==
    ASSUME MemoryInv, NEW a \in Askers, NEW i \in Mem!Ids, Mem!Delete(a, i) PROVE MemoryInv'
<1>1. /\ i \in DOMAIN rows /\ rows' = Mem!Without(rows, {i})
      /\ vectors' = Mem!Without(vectors, {i})
      /\ raced' = (IF Mem!Embedding(i) = {} THEN raced ELSE raced \cup {i})
      /\ UNCHANGED <<last, writing, unembedded, doubted, swallowed>>
  BY DEF Mem!Delete
<1>2. /\ DOMAIN rows' = DOMAIN rows \ {i} /\ \A j \in DOMAIN rows' : rows'[j] = rows[j]
      /\ DOMAIN vectors' = DOMAIN vectors \ {i}
      /\ \A j \in DOMAIN vectors' : vectors'[j] = vectors[j]
  BY <1>1 DEF Mem!Without
<1>3. MemoryTyped'
  BY <1>1, <1>2 DEF MemoryInv, MemoryTyped
<1>4. EmbedsWritten'
  BY <1>1, <1>2 DEF MemoryInv, EmbedsWritten, Mem!Embedding
<1>5. LessonsDiffer'
  <2>1. \A j \in DOMAIN rows' \ doubted' : j \in DOMAIN rows \ doubted /\ rows'[j] = rows[j]
    BY <1>1, <1>2
  <2>2. \A b \in Askers : (Alone(b)' => Alone(b)) /\ writing'[b] = writing[b]
    BY <1>1 DEF Alone
  <2> QED
    BY <2>1, <2>2 DEF MemoryInv, LessonsDiffer
<1>6. Mem!NoGhosts' /\ Mem!NothingSwallowed'
  BY <1>1, <1>2 DEF MemoryInv, Mem!NoGhosts, Mem!NothingSwallowed
<1>7. Mem!CapHeld'
  BY <1>2, CapStays
<1>8. ASSUME NEW j \in DOMAIN rows' PROVE RowRecalled(j)' /\ RowFound(j)'
  <2>1. /\ j \in DOMAIN rows /\ rows'[j] = rows[j]
        /\ j \in DOMAIN vectors' <=> j \in DOMAIN vectors
        /\ j \in DOMAIN vectors => vectors'[j] = vectors[j]
    BY <1>2
  <2>2. (j \in raced => j \in raced') /\ unembedded' = unembedded /\ doubted' = doubted
        /\ writing' = writing
    BY <1>1
  <2>3. RowRecalled(j)'
    BY <2>1, <2>2 DEF MemoryInv, RowRecalled, Embeds1
  <2>4. RowFound(j)'
    BY <2>1, <2>2 DEF MemoryInv, RowFound, Embeds1
  <2> QED
    BY <2>3, <2>4
<1> QED
  BY <1>3, <1>4, <1>5, <1>6, <1>7, <1>8 DEF MemoryInv

LEMMA MemoryKept == MemoryInv /\ [Mem!Next]_memory => MemoryInv'
<1> SUFFICES ASSUME MemoryInv, [Mem!Next]_memory PROVE MemoryInv'
  OBVIOUS
<1>1. CASE UNCHANGED memory
  <2>1. UNCHANGED <<rows, vectors, last, writing, raced, unembedded, doubted, swallowed>>
    BY <1>1 DEF memory
  <2>2. MemoryTyped' /\ EmbedsWritten' /\ LessonsDiffer'
    BY <2>1 DEF MemoryInv, MemoryTyped, EmbedsWritten, LessonsDiffer, Alone
  <2>3. \A i \in DOMAIN rows' : RowRecalled(i)' /\ RowFound(i)'
    BY <2>1 DEF MemoryInv, RowRecalled, RowFound, Embeds1
  <2>4. Mem!NoGhosts' /\ Mem!NothingSwallowed'
    BY <2>1 DEF MemoryInv, Mem!NoGhosts, Mem!NothingSwallowed
  <2>5. Mem!CapHeld'
    BY <2>1, CapStays
  <2> QED
    BY <2>2, <2>3, <2>4, <2>5 DEF MemoryInv
<1>2. CASE Mem!Next
  <2>1. PICK a \in Askers :
           \/ \E s \in Scopes, t \in Texts : Mem!RememberUnique(a, s, t)
           \/ Mem!Insert(a) \/ Mem!Embed(a) \/ Mem!EmbedFails(a)
           \/ \E i \in Mem!Ids : Mem!Delete(a, i) \/ \E t \in Texts : Mem!Edit(a, i, t)
    BY <1>2 DEF Mem!Next
  <2> QED
    BY <2>1, MemoryLooks, MemoryInserts, MemoryEmbeds, MemoryFails, MemoryEdits,
       MemoryDeletes
<1> QED
  BY <1>1, <1>2

LEMMA MemoryFollows == MemoryInv => Mem!MemorySound
<1> SUFFICES ASSUME MemoryInv PROVE Mem!MemorySound
  OBVIOUS
<1>1. Mem!NoTwins
  BY DEF MemoryInv, LessonsDiffer, Mem!NoTwins
<1>2. Mem!Recallable
  <2> SUFFICES ASSUME NEW i \in DOMAIN rows \ (raced \cup unembedded),
                      Mem!Embedding(i) = {}
               PROVE  i \in Mem!Recall(rows[i].scope, rows[i].text)
    BY DEF Mem!Recallable
  <2>1. \A a \in Askers : ~Embeds1(a, i)
    BY DEF Mem!Embedding, Embeds1
  <2> QED
    BY <2>1 DEF MemoryInv, RowRecalled, Mem!Recall
<1> QED
  BY <1>1, <1>2 DEF MemoryInv, Mem!MemorySound

-----------------------------------------------------------------------------
(* The knowledge graph of a project. *)

Weights == [Graph!Facts -> Nat]

\* One graph has all another has, with no less weight.
Holds(g, h) == \A f \in Graph!Facts : g[f] >= h[f]

Distilling(s) == place[Graph!Distiller] = s

GraphTyped ==
    /\ disk \in Weights /\ owed \in Weights /\ indexed \in Weights
    /\ mem \in [Graph!Actors -> Weights]
    /\ place \in [Graph!Actors -> {"away", "open", "cleared", "writing", "saved"}]
    /\ holder \subseteq Graph!Actors /\ unlinked \subseteq Savers

\* The lock is with the one that writes; a write to an unlinked file leaves no file; only a
\* whole one has facts.
FileLocked ==
    /\ \A a \in Graph!Actors : /\ a \in holder <=> place[a] = "writing"
                               /\ place[a] = "saved" => a = Indexer
    /\ \A a, b \in holder : a = b
    /\ unlinked \subseteq holder /\ (unlinked # {} => graphFile = "none")
    /\ graphFile # "whole" => disk = Graph!Empty
    /\ Graph!WholeAgain

\* What is owed is in the file, or on its way there: with the one that writes, and with the
\* distillation, from its opening to the end of its write.
OwedHeld ==
    /\ Graph!KeptFacts
    /\ graphFile # "whole" /\ ~Distilling("cleared") =>
          owed = Graph!Empty \/ holder \ unlinked # {}
    /\ ~Distilling("cleared") => \A a \in holder \ unlinked : Holds(mem[a], owed)
    /\ ~Distilling("away") => Holds(mem[Graph!Distiller], owed)

\* What was distilled away, nobody has.
NobodyHas ==
    /\ Graph!StaysDistilled
    /\ \A a \in Graph!Actors : place[a] # "away" => \A f \in distilled : mem[a][f] = 0

\* What the indexer saved is owed before it is recorded.
IndexedOwed ==
    /\ Graph!IndexedIsStored
    /\ ~crossed /\ place[Indexer] = "saved" =>
          \A f \in Graph!Facts \ removed : owed[f] >= mem[Indexer][f]

GraphInv ==
    /\ GraphTyped /\ FileLocked /\ OwedHeld /\ NobodyHas /\ IndexedOwed
    /\ distilled \subseteq Graph!Facts

LEMMA GraphActors ==
    /\ Graph!Distiller \in Graph!Actors /\ Indexer \in Graph!Actors
    /\ Savers \subseteq Graph!Actors /\ Graph!Distiller \notin Savers
    /\ Indexer # Graph!Distiller
BY GraphAssumption DEF Graph!Actors

LEMMA EmptyGraph == Graph!Empty \in Weights /\ \A f \in Graph!Facts : Graph!Empty[f] = 0
BY DEF Graph!Empty, Weights

LEMMA Merged ==
    ASSUME NEW g \in Weights, NEW h \in Weights
    PROVE  /\ Graph!Merge(g, h) \in Weights
           /\ Holds(Graph!Merge(g, h), g) /\ Holds(Graph!Merge(g, h), h)
           /\ \A f \in Graph!Facts : Graph!Merge(g, h)[f] \in {g[f], h[f]}
<1>1. \A f \in Graph!Facts : g[f] \in Nat /\ h[f] \in Nat
  BY DEF Weights
<1>2. Graph!Merge(g, h) = [f \in Graph!Facts |-> IF g[f] >= h[f] THEN g[f] ELSE h[f]]
  BY DEF Graph!Merge, Graph!Larger
<1>3. \A f \in Graph!Facts :
         Graph!Merge(g, h)[f] = IF g[f] >= h[f] THEN g[f] ELSE h[f]
  BY <1>2
<1>4. Graph!Merge(g, h) \in Weights
  BY <1>1, <1>2 DEF Weights
<1> QED
  BY <1>1, <1>3, <1>4 DEF Holds

LEMMA HoldsBoth ==
    ASSUME NEW g \in Weights, NEW h \in Weights, NEW k \in Weights
    PROVE  /\ Holds(g, h) /\ Holds(h, k) => Holds(g, k)
           /\ Holds(g, h) /\ Holds(g, k) => Holds(g, Graph!Merge(h, k))
           /\ Holds(g, Graph!Empty)
<1>1. \A f \in Graph!Facts : g[f] \in Nat /\ h[f] \in Nat /\ k[f] \in Nat
  BY DEF Weights
<1>2. \A f \in Graph!Facts : Graph!Merge(h, k)[f] \in {h[f], k[f]}
  BY Merged
<1> QED
  BY <1>1, <1>2, EmptyGraph DEF Holds

LEMMA GraphBegins == ASSUME Graph!Init PROVE GraphInv
<1>1. \A a \in Graph!Actors : place[a] = "away"
  BY DEF Graph!Init
<1>2. GraphTyped /\ distilled \subseteq Graph!Facts
  BY EmptyGraph DEF Graph!Init, GraphTyped
<1>3. FileLocked
  BY <1>1 DEF Graph!Init, FileLocked, Graph!WholeAgain
<1>4. OwedHeld
  BY <1>1, GraphActors DEF Graph!Init, OwedHeld, Graph!KeptFacts, Distilling
<1>5. NobodyHas /\ IndexedOwed
  BY <1>1, EmptyGraph, GraphActors
     DEF Graph!Init, NobodyHas, IndexedOwed, Graph!StaysDistilled, Graph!IndexedIsStored, Weights
<1> QED
  BY <1>2, <1>3, <1>4, <1>5 DEF GraphInv

\* What is on disk holds what is owed, when it is whole, and nothing that was distilled away.
LEMMA DiskRead ==
    ASSUME GraphInv
    PROVE  /\ Graph!OnDisk \in Weights
           /\ graphFile = "whole" /\ ~Distilling("cleared") => Holds(Graph!OnDisk, owed)
           /\ \A f \in distilled : Graph!OnDisk[f] = 0
<1>1. Graph!OnDisk \in Weights
  BY EmptyGraph DEF Graph!OnDisk, GraphInv, GraphTyped
<1>2. graphFile = "whole" /\ ~Distilling("cleared") => Holds(Graph!OnDisk, owed)
  BY DEF Graph!OnDisk, GraphInv, OwedHeld, Graph!KeptFacts, Distilling, Holds
<1>3. \A f \in distilled : Graph!OnDisk[f] = 0
  BY EmptyGraph DEF Graph!OnDisk, GraphInv, NobodyHas, Graph!StaysDistilled
<1> QED
  BY <1>1, <1>2, <1>3

\* Somebody opens the graph.
LEMMA GraphOpens ==
    ASSUME GraphInv, NEW a \in Graph!Actors, place[a] = "away",
           mem' = [mem EXCEPT ![a] = Graph!OnDisk], place' = [place EXCEPT ![a] = "open"],
           a = Graph!Distiller => graphFile = "whole",
           UNCHANGED <<graphFile, disk, unlinked, holder, indexed, owed, removed, distilled,
                       crossed>>
    PROVE  GraphInv'
<1>1. \A b \in Graph!Actors : /\ place'[b] = (IF b = a THEN "open" ELSE place[b])
                              /\ mem'[b] = (IF b = a THEN Graph!OnDisk ELSE mem[b])
  BY DEF GraphInv, GraphTyped
<1>2. GraphTyped' /\ distilled' \subseteq Graph!Facts
  BY DiskRead DEF GraphInv, GraphTyped
<1>3. FileLocked'
  BY <1>1 DEF GraphInv, GraphTyped, FileLocked, Graph!WholeAgain
<1>4. \A b \in holder : b # a /\ b \in Graph!Actors
  BY DEF GraphInv, GraphTyped, FileLocked
<1>5. Distilling("cleared")' <=> Distilling("cleared")
  BY <1>1, GraphActors DEF Distilling
<1>6. Graph!KeptFacts'
  BY <1>5 DEF GraphInv, OwedHeld, Graph!KeptFacts, Distilling
<1>7. ~Distilling("away")' => Holds(mem'[Graph!Distiller], owed)
  BY <1>1, GraphActors, DiskRead DEF GraphInv, OwedHeld, Distilling
<1>8. OwedHeld'
  BY <1>1, <1>4, <1>5, <1>6, <1>7 DEF GraphInv, OwedHeld, Holds
<1>9. NobodyHas'
  BY <1>1, DiskRead DEF GraphInv, NobodyHas, Graph!StaysDistilled
<1>10. IndexedOwed'
  BY <1>1, GraphActors DEF GraphInv, IndexedOwed, Graph!IndexedIsStored
<1> QED
  BY <1>2, <1>3, <1>8, <1>9, <1>10 DEF GraphInv

LEMMA GraphAsserts ==
    ASSUME GraphInv, NEW r \in Savers, NEW f \in Graph!Facts, Graph!AddFact(r, f)
    PROVE  GraphInv'
<1>1. /\ place[r] = "open" /\ mem' = [mem EXCEPT ![r][f] = @ + 1]
      /\ distilled' = distilled \ {f} /\ r \in Graph!Actors /\ r # Graph!Distiller
      /\ UNCHANGED <<graphFile, disk, unlinked, place, holder, indexed, owed, removed, crossed>>
  BY GraphActors DEF Graph!AddFact
<1>2. /\ mem[r] \in Weights /\ [mem[r] EXCEPT ![f] = @ + 1] \in Weights
      /\ \A b \in Graph!Actors :
            mem'[b] = IF b = r THEN [mem[r] EXCEPT ![f] = @ + 1] ELSE mem[b]
      /\ \A h \in Graph!Facts \ {f} : [mem[r] EXCEPT ![f] = @ + 1][h] = mem[r][h]
  BY <1>1 DEF GraphInv, GraphTyped, Weights
<1>3. GraphTyped' /\ distilled' \subseteq Graph!Facts
  BY <1>1, <1>2 DEF GraphInv, GraphTyped
<1>4. FileLocked'
  BY <1>1 DEF GraphInv, FileLocked, Graph!WholeAgain
<1>5. \A b \in holder : b # r /\ b \in Graph!Actors
  BY <1>1 DEF GraphInv, GraphTyped, FileLocked
<1>6. OwedHeld'
  BY <1>1, <1>2, <1>5, GraphActors DEF GraphInv, OwedHeld, Graph!KeptFacts, Distilling, Holds
<1>7. NobodyHas'
  BY <1>1, <1>2 DEF GraphInv, NobodyHas, Graph!StaysDistilled
<1>8. IndexedOwed'
  BY <1>1, <1>2, GraphActors DEF GraphInv, IndexedOwed, Graph!IndexedIsStored
<1> QED
  BY <1>3, <1>4, <1>6, <1>7, <1>8 DEF GraphInv

LEMMA GraphSaves == ASSUME GraphInv, NEW a \in Graph!Actors, Graph!StartSave(a) PROVE GraphInv'
<1> DEFINE g == Graph!Merge(mem[a], Graph!OnDisk)
<1>1. /\ place[a] = (IF a = Graph!Distiller THEN "cleared" ELSE "open") /\ holder = {}
      /\ mem' = [mem EXCEPT ![a] = g] /\ graphFile' = "torn" /\ disk' = Graph!Empty
      /\ holder' = {a} /\ place' = [place EXCEPT ![a] = "writing"]
      /\ UNCHANGED <<unlinked, indexed, owed, removed, distilled, crossed>>
  BY DEF Graph!StartSave, Graph!TakenIn
<1>2. /\ g \in Weights /\ Holds(g, mem[a]) /\ Holds(g, Graph!OnDisk)
      /\ \A f \in Graph!Facts : g[f] \in {mem[a][f], Graph!OnDisk[f]}
      /\ mem[a] \in Weights /\ owed \in Weights /\ Graph!OnDisk \in Weights
  BY Merged, DiskRead DEF GraphInv, GraphTyped
<1> HIDE DEF g
<1>3. GraphTyped' /\ distilled' \subseteq Graph!Facts
  BY <1>1, <1>2, EmptyGraph DEF GraphInv, GraphTyped
<1>4. \A b \in Graph!Actors : /\ place'[b] = (IF b = a THEN "writing" ELSE place[b])
                              /\ mem'[b] = (IF b = a THEN g ELSE mem[b])
  BY <1>1 DEF GraphInv, GraphTyped
<1>5. unlinked = {}
  BY <1>1 DEF GraphInv, FileLocked
<1>6. FileLocked'
  BY <1>1, <1>4, <1>5 DEF GraphInv, FileLocked, Graph!WholeAgain
<1>7. OwedHeld'
  <2>1. a = Graph!Distiller => Holds(g, owed)
    BY <1>1, <1>2, HoldsBoth DEF GraphInv, OwedHeld, Distilling
  <2>2. a # Graph!Distiller /\ ~Distilling("cleared") => Holds(g, owed)
    <3>1. CASE graphFile = "whole"
      BY <1>2, <3>1, HoldsBoth, DiskRead
    <3>2. CASE graphFile # "whole"
      BY <1>1, <1>2, <3>2, HoldsBoth DEF GraphInv, OwedHeld
    <3> QED
      BY <3>1, <3>2
  <2>3. ~Distilling("cleared")' => Holds(g, owed)
    BY <1>4, <2>1, <2>2, GraphActors DEF Distilling
  <2>4. ~Distilling("away")' => Holds(mem'[Graph!Distiller], owed)
    BY <1>4, <2>1, GraphActors DEF GraphInv, OwedHeld, Distilling
  <2>5. \A b \in (holder \ unlinked)' : b = a
    BY <1>1
  <2>6. (holder \ unlinked)' # {}
    BY <1>1, <1>5
  <2> QED
    BY <1>1, <1>4, <2>3, <2>4, <2>5, <2>6 DEF OwedHeld, Graph!KeptFacts, Holds
<1>8. NobodyHas'
  <2>1. \A f \in distilled : g[f] = 0
    <3>1. place[a] # "away"
      BY <1>1
    <3> QED
      BY <1>2, <3>1, DiskRead DEF GraphInv, NobodyHas
  <2>2. \A f \in distilled : disk'[f] = 0
    BY <1>1, EmptyGraph DEF GraphInv
  <2> QED
    BY <1>1, <1>4, <2>1, <2>2 DEF GraphInv, NobodyHas, Graph!StaysDistilled
<1>9. IndexedOwed'
  BY <1>1, <1>4, GraphActors DEF GraphInv, IndexedOwed, Graph!IndexedIsStored
<1> QED
  BY <1>3, <1>6, <1>7, <1>8, <1>9 DEF GraphInv

LEMMA GraphSaved == ASSUME GraphInv, NEW a \in Graph!Actors, Graph!EndSave(a) PROVE GraphInv'
<1> DEFINE open == Distilling("open") \/ Distilling("cleared")
<1>1. /\ place[a] = "writing" /\ holder' = {}
      /\ IF a \in unlinked THEN graphFile' = graphFile /\ disk' = disk
         ELSE graphFile' = "whole" /\ disk' = mem[a]
      /\ owed' = IF a \in unlinked \/ open THEN owed ELSE Graph!Merge(owed, mem[a])
      /\ crossed' = (crossed \/ a \in unlinked \/ open)
      /\ unlinked' = unlinked \ {a}
      /\ place' = [place EXCEPT ![a] = IF a = Indexer THEN "saved" ELSE "away"]
      /\ UNCHANGED <<mem, indexed, removed, distilled>>
  BY DEF Graph!EndSave, Distilling
<1>2. mem[a] \in Weights /\ owed \in Weights /\ disk \in Weights
  BY DEF GraphInv, GraphTyped
<1>3. owed' \in Weights /\ disk' \in Weights
  BY <1>1, <1>2, Merged
<1>4. GraphTyped' /\ distilled' \subseteq Graph!Facts
  BY <1>1, <1>3 DEF GraphInv, GraphTyped
<1>5. \A b \in Graph!Actors : place'[b] = (IF b = a THEN IF a = Indexer THEN "saved" ELSE "away"
                                           ELSE place[b])
  BY <1>1 DEF GraphInv, GraphTyped
<1>6. holder = {a} /\ unlinked \subseteq {a} /\ unlinked' = {}
  BY <1>1 DEF GraphInv, FileLocked
<1>7. FileLocked'
  <2>1. \A b \in Graph!Actors : place'[b] # "writing" /\ (place'[b] = "saved" => b = Indexer)
    BY <1>5, <1>6 DEF GraphInv, FileLocked
  <2>2. graphFile' # "whole" => disk' = Graph!Empty
    BY <1>1 DEF GraphInv, FileLocked
  <2>3. Graph!WholeAgain'
    BY <1>1 DEF GraphInv, FileLocked, Graph!WholeAgain
  <2> QED
    BY <1>1, <1>6, <2>1, <2>2, <2>3 DEF FileLocked
<1>8. Distilling("cleared")' <=> Distilling("cleared")
  BY <1>1, <1>5, GraphActors DEF Distilling
<1>9. OwedHeld'
  <2>1. ASSUME ~Distilling("cleared"), a \notin unlinked PROVE Holds(mem[a], owed')
    <3>1. Holds(mem[a], owed)
      BY <1>6, <2>1 DEF GraphInv, OwedHeld
    <3>2. Holds(mem[a], mem[a])
      BY <1>2 DEF Holds, Weights
    <3> QED
      BY <1>1, <1>2, <3>1, <3>2, HoldsBoth
  <2>2. ASSUME ~Distilling("cleared"), a \in unlinked
        PROVE  owed = Graph!Empty /\ owed' = owed /\ disk' = disk /\ graphFile' = graphFile
    BY <1>1, <1>6, <2>2 DEF GraphInv, FileLocked, OwedHeld
  <2>3. Graph!KeptFacts'
    <3> SUFFICES ASSUME ~Distilling("cleared"), graphFile' = "whole" PROVE Holds(disk', owed')
      BY <1>8 DEF Graph!KeptFacts, Holds, Distilling
    <3>1. CASE a \in unlinked
      BY <1>2, <2>2, <3>1, HoldsBoth
    <3>2. CASE a \notin unlinked
      BY <1>1, <2>1, <3>2
    <3> QED
      BY <3>1, <3>2
  <2>4. graphFile' # "whole" /\ ~Distilling("cleared") => owed' = Graph!Empty
    BY <1>1, <2>2
  <2>5. ~Distilling("away")' => Holds(mem[Graph!Distiller], owed')
    <3> SUFFICES ASSUME ~Distilling("away")' PROVE Holds(mem[Graph!Distiller], owed')
      OBVIOUS
    <3>1. Graph!Distiller # a /\ ~Distilling("away")
      BY <1>5, GraphActors DEF Distilling
    <3>2. open
      BY <1>6, <3>1, GraphActors DEF GraphInv, GraphTyped, FileLocked, Distilling
    <3> QED
      BY <1>1, <3>1, <3>2 DEF GraphInv, OwedHeld
  <2> QED
    BY <1>1, <1>6, <1>8, <2>3, <2>4, <2>5 DEF OwedHeld
<1>10. NobodyHas'
  BY <1>1, <1>5 DEF GraphInv, NobodyHas, Graph!StaysDistilled
<1>11. IndexedOwed'
  <2> SUFFICES ASSUME ~crossed' PROVE IndexedOwed'
    BY DEF IndexedOwed, Graph!IndexedIsStored
  <2>1. ~crossed /\ owed' = Graph!Merge(owed, mem[a])
    BY <1>1
  <2>2. Holds(owed', owed) /\ Holds(owed', mem[a])
    BY <1>2, <2>1, Merged
  <2>3. \A f \in Graph!Facts : owed[f] \in Nat /\ owed'[f] \in Nat /\ mem[a][f] \in Nat
                               /\ indexed[f] \in Nat /\ mem[Indexer][f] \in Nat
    BY <1>2, <1>3, GraphActors DEF GraphInv, GraphTyped, Weights
  <2>4. Graph!IndexedIsStored'
    BY <1>1, <2>1, <2>2, <2>3 DEF Holds, GraphInv, IndexedOwed, Graph!IndexedIsStored
  <2>5. place'[Indexer] = "saved" => \A f \in Graph!Facts \ removed : owed'[f] >= mem[Indexer][f]
    BY <1>5, <2>1, <2>2, <2>3, GraphActors DEF Holds, GraphInv, IndexedOwed
  <2> QED
    BY <1>1, <2>4, <2>5 DEF IndexedOwed
<1> QED
  BY <1>4, <1>7, <1>9, <1>10, <1>11 DEF GraphInv

LEMMA GraphRecords == ASSUME GraphInv, Graph!Record PROVE GraphInv'
<1>1. /\ place[Indexer] = "saved" /\ indexed' = mem[Indexer]
      /\ place' = [place EXCEPT ![Indexer] = "away"]
      /\ UNCHANGED <<graphFile, disk, unlinked, mem, holder, owed, removed, distilled, crossed>>
  BY DEF Graph!Record
<1>2. GraphTyped' /\ distilled' \subseteq Graph!Facts
  BY <1>1, GraphActors DEF GraphInv, GraphTyped
<1>3. \A b \in Graph!Actors : place'[b] = IF b = Indexer THEN "away" ELSE place[b]
  BY <1>1 DEF GraphInv, GraphTyped
<1>4. FileLocked'
  BY <1>1, <1>3 DEF GraphInv, GraphTyped, FileLocked, Graph!WholeAgain
<1>5. OwedHeld'
  BY <1>1, <1>3, GraphActors DEF GraphInv, OwedHeld, Graph!KeptFacts, Distilling, Holds
<1>6. NobodyHas'
  BY <1>1, <1>3 DEF GraphInv, NobodyHas, Graph!StaysDistilled
<1>7. IndexedOwed'
  BY <1>1, <1>3, GraphActors DEF GraphInv, IndexedOwed, Graph!IndexedIsStored
<1> QED
  BY <1>2, <1>4, <1>5, <1>6, <1>7 DEF GraphInv

\* A distillation takes facts of the domain layer only, and those whole.
LEMMA DistilsDomain ==
    ASSUME GraphInv, NEW g,
           \/ \E S \in SUBSET Graph!Prunable(mem[Graph!Distiller]) :
                 g = Graph!Pruned(mem[Graph!Distiller], S)
           \/ \E p \in Graph!Mergeable(mem[Graph!Distiller]) :
                 g = Graph!MergedAs(mem[Graph!Distiller], p)
    PROVE  /\ g \in Weights
           /\ \A f \in Graph!Facts :
                 g[f] >= mem[Graph!Distiller][f] \/ (g[f] = 0 /\ f \in Domain)
<1> DEFINE m == mem[Graph!Distiller]
<1>1. m \in Weights /\ Domain \subseteq Graph!Facts
  BY GraphActors DEF GraphInv, GraphTyped, Graph!Facts
<1> HIDE DEF m
<1>2. \A f \in Graph!Facts : m[f] \in Nat /\ m[f] >= m[f]
  BY <1>1 DEF Weights
<1>3. ASSUME NEW S \in SUBSET Graph!Prunable(m), g = Graph!Pruned(m, S)
      PROVE  /\ g \in Weights
             /\ \A f \in Graph!Facts : g[f] >= m[f] \/ (g[f] = 0 /\ f \in Domain)
  <2>1. S \subseteq Domain
    BY DEF Graph!Prunable
  <2>2. \A f \in Graph!Facts : g[f] = IF f \in S THEN 0 ELSE m[f]
    BY <1>3 DEF Graph!Pruned
  <2>3. g \in Weights
    BY <1>2, <1>3 DEF Graph!Pruned, Weights
  <2> QED
    BY <1>2, <2>1, <2>2, <2>3
<1>4. ASSUME NEW p \in Graph!Mergeable(m), g = Graph!MergedAs(m, p)
      PROVE  /\ g \in Weights
             /\ \A f \in Graph!Facts : g[f] >= m[f] \/ (g[f] = 0 /\ f \in Domain)
  <2>1. p[1] \in Domain /\ p[2] \in Domain /\ p[1] # p[2]
    BY DEF Graph!Mergeable
  <2>2. m[p[1]] \in Nat /\ m[p[2]] \in Nat
    BY <1>1, <1>2, <2>1
  <2> DEFINE w == Graph!Larger(m[p[1]], m[p[2]])
  <2>3. w \in Nat /\ w >= m[p[1]]
    BY <2>2 DEF Graph!Larger
  <2>4. g = [m EXCEPT ![p[1]] = w, ![p[2]] = 0]
    BY <1>4 DEF Graph!MergedAs
  <2> HIDE DEF w
  <2>5. g \in Weights
    BY <1>1, <2>1, <2>3, <2>4 DEF Weights
  <2>6. \A f \in Graph!Facts : g[f] = IF f = p[2] THEN 0 ELSE IF f = p[1] THEN w ELSE m[f]
    BY <1>1, <2>1, <2>4 DEF Weights
  <2> QED
    BY <1>2, <2>1, <2>3, <2>5, <2>6
<1> QED
  BY <1>3, <1>4 DEF m

LEMMA GraphDistils ==
    ASSUME GraphInv, NEW g \in Weights,
           \A f \in Graph!Facts :
              g[f] >= mem[Graph!Distiller][f] \/ (g[f] = 0 /\ f \in Domain),
           Graph!Distil(g)
    PROVE  GraphInv'
<1> DEFINE D    == Graph!Distiller
           gone == {f \in Graph!Facts : g[f] < mem[D][f]}
<1>1. /\ place[D] = "open" /\ removed' = removed \cup gone
      /\ distilled' = (distilled \ {f \in Graph!Facts : g[f] > 0}) \cup
                      {f \in gone : \A r \in Savers : place[r] = "away" \/ mem[r][f] = 0}
      /\ owed' = [f \in Graph!Facts |-> IF f \in gone \cap Domain THEN 0 ELSE owed[f]]
      /\ mem' = [mem EXCEPT ![D] = g] /\ unlinked' = holder
      /\ graphFile' = "none" /\ disk' = Graph!Empty
      /\ place' = [place EXCEPT ![D] = "cleared"]
      /\ UNCHANGED <<holder, indexed, crossed>>
  BY DEF Graph!Distil
<1>2. /\ D \in Graph!Actors /\ D \notin Savers /\ Graph!Actors = Savers \cup {D}
      /\ Savers \subseteq Graph!Actors
  BY GraphActors DEF Graph!Actors
<1>3. \A b \in Graph!Actors : /\ place'[b] = (IF b = D THEN "cleared" ELSE place[b])
                              /\ mem'[b] = (IF b = D THEN g ELSE mem[b])
  BY <1>1, <1>2 DEF GraphInv, GraphTyped
<1>4. \A f \in Graph!Facts : /\ g[f] \in Nat /\ owed[f] \in Nat /\ mem[D][f] \in Nat
                             /\ owed'[f] = IF f \in gone /\ f \in Domain THEN 0 ELSE owed[f]
  BY <1>1, <1>2 DEF GraphInv, GraphTyped, Weights
<1>5. \A f \in gone : f \in Graph!Facts /\ f \in Domain /\ g[f] = 0
  BY <1>4
<1>6. owed' \in Weights
  BY <1>1, <1>4 DEF Weights
<1>7. \A f \in Graph!Facts \ gone : g[f] >= mem[D][f]
  BY <1>4
<1> HIDE DEF gone
<1>8. holder \subseteq Savers
  BY <1>1, <1>2 DEF GraphInv, GraphTyped, FileLocked
<1>9. GraphTyped'
  BY <1>1, <1>2, <1>6, <1>8, EmptyGraph DEF GraphInv, GraphTyped
<1>10. distilled' \subseteq Graph!Facts
  BY <1>1, <1>5 DEF GraphInv
<1>11. FileLocked'
  BY <1>1, <1>2, <1>3 DEF GraphInv, FileLocked, Graph!WholeAgain
<1>12. OwedHeld'
  <2>1. Holds(mem[D], owed)
    BY <1>1 DEF GraphInv, OwedHeld, Distilling
  <2>2. Holds(g, owed')
    BY <1>4, <1>5, <1>7, <2>1 DEF Holds
  <2>3. Distilling("cleared")'
    BY <1>2, <1>3 DEF Distilling
  <2>4. Graph!KeptFacts'
    BY <2>3 DEF Graph!KeptFacts, Distilling
  <2> QED
    BY <1>2, <1>3, <2>2, <2>3, <2>4 DEF OwedHeld
<1>13. NobodyHas'
  <2>1. \A f \in distilled' : f \in Graph!Facts /\ g[f] = 0 /\ disk'[f] = 0
    BY <1>1, <1>4, <1>5, <1>10, EmptyGraph
  <2>2. ASSUME NEW b \in Savers, place[b] # "away", NEW f \in distilled' PROVE mem[b][f] = 0
    BY <1>1, <1>2, <2>2 DEF GraphInv, NobodyHas
  <2> QED
    BY <1>2, <1>3, <2>1, <2>2 DEF NobodyHas, Graph!StaysDistilled
<1>14. IndexedOwed'
  <2>1. \A f \in Graph!Facts \ removed' : owed'[f] = owed[f]
    BY <1>1, <1>4
  <2>2. Indexer # D /\ Indexer \in Graph!Actors
    BY GraphActors
  <2> QED
    BY <1>1, <1>3, <2>1, <2>2 DEF GraphInv, IndexedOwed, Graph!IndexedIsStored
<1> QED
  BY <1>9, <1>10, <1>11, <1>12, <1>13, <1>14 DEF GraphInv

LEMMA GraphCrashes == ASSUME GraphInv, NEW a \in Graph!Actors, Graph!Crash(a) PROVE GraphInv'
<1> DEFINE fatal == place[a] = "cleared" \/ (place[a] = "writing" /\ a \notin unlinked)
<1>1. /\ place[a] # "away" /\ place' = [place EXCEPT ![a] = "away"]
      /\ holder' = holder \ {a} /\ unlinked' = unlinked \ {a}
      /\ owed' = (IF fatal THEN Graph!Empty ELSE owed) /\ crossed' = (crossed \/ fatal)
      /\ UNCHANGED <<graphFile, disk, mem, indexed, removed, distilled>>
  BY DEF Graph!Crash
<1>2. \A b \in Graph!Actors : place'[b] = IF b = a THEN "away" ELSE place[b]
  BY <1>1 DEF GraphInv, GraphTyped
<1>3. GraphTyped' /\ distilled' \subseteq Graph!Facts
  BY <1>1, EmptyGraph DEF GraphInv, GraphTyped
<1>4. FileLocked'
  <2>1. \A b \in Graph!Actors : /\ b \in holder' <=> place'[b] = "writing"
                                /\ place'[b] = "saved" => b = Indexer
    BY <1>1, <1>2 DEF GraphInv, FileLocked
  <2>2. Graph!WholeAgain'
    <3> SUFFICES ASSUME graphFile = "torn", ~crossed, ~fatal PROVE holder' # {}
      BY <1>1 DEF Graph!WholeAgain
    <3>1. holder # {} /\ unlinked = {}
      BY DEF GraphInv, FileLocked, Graph!WholeAgain
    <3>2. a \notin holder
      BY <3>1 DEF GraphInv, FileLocked
    <3> QED
      BY <1>1, <3>1, <3>2
  <2>3. unlinked' # {} => unlinked # {}
    BY <1>1
  <2> QED
    BY <1>1, <2>1, <2>2, <2>3 DEF GraphInv, FileLocked
<1>5. OwedHeld'
  <2>1. CASE fatal
    <3>1. owed' = Graph!Empty /\ \A b \in Graph!Actors : mem[b] \in Weights
      BY <1>1, <2>1 DEF GraphInv, GraphTyped
    <3>2. \A b \in Graph!Actors : Holds(mem[b], owed')
      BY <3>1, HoldsBoth
    <3>3. Holds(disk, owed')
      BY <3>1, HoldsBoth DEF GraphInv, GraphTyped
    <3>4. holder' \subseteq Graph!Actors
      BY <1>3 DEF GraphTyped
    <3> QED
      BY <1>1, <3>1, <3>2, <3>3, <3>4, GraphActors DEF OwedHeld, Graph!KeptFacts, Holds
  <2>2. CASE ~fatal
    <3>1. /\ owed' = owed /\ place[a] # "cleared"
          /\ (Distilling("cleared")' <=> Distilling("cleared"))
          /\ (~Distilling("away")' => ~Distilling("away"))
      BY <1>1, <1>2, <2>2, GraphActors DEF Distilling
    <3>2. holder' \ unlinked' = holder \ unlinked
      BY <1>1, <2>2 DEF GraphInv, GraphTyped, FileLocked
    <3>3. Graph!KeptFacts'
      BY <1>1, <3>1 DEF GraphInv, OwedHeld, Graph!KeptFacts, Distilling
    <3> QED
      BY <1>1, <3>1, <3>2, <3>3 DEF GraphInv, OwedHeld, Holds
  <2> QED
    BY <2>1, <2>2
<1>6. NobodyHas'
  BY <1>1, <1>2 DEF GraphInv, NobodyHas, Graph!StaysDistilled
<1>7. IndexedOwed'
  <2> SUFFICES ASSUME ~crossed' PROVE IndexedOwed'
    BY DEF IndexedOwed, Graph!IndexedIsStored
  <2>1. ~crossed /\ owed' = owed
    BY <1>1
  <2>2. place'[Indexer] = "saved" => place[Indexer] = "saved"
    BY <1>2, GraphActors
  <2> QED
    BY <1>1, <2>1, <2>2 DEF GraphInv, IndexedOwed, Graph!IndexedIsStored
<1> QED
  BY <1>3, <1>4, <1>5, <1>6, <1>7 DEF GraphInv

LEMMA GraphKept == ASSUME GraphInv, [Graph!Next]_graph PROVE GraphInv'
<1>1. ASSUME UNCHANGED graph PROVE GraphInv'
  <2>1. UNCHANGED <<graphFile, disk, unlinked, mem, place, holder, indexed, owed, removed,
                    distilled, crossed>>
    BY <1>1 DEF graph
  <2>2. GraphTyped' /\ FileLocked'
    BY <2>1 DEF GraphInv, GraphTyped, FileLocked, Graph!WholeAgain
  <2>3. OwedHeld'
    BY <2>1 DEF GraphInv, OwedHeld, Distilling, Holds, Graph!KeptFacts
  <2>4. NobodyHas' /\ IndexedOwed'
    BY <2>1 DEF GraphInv, NobodyHas, IndexedOwed, Graph!StaysDistilled, Graph!IndexedIsStored
  <2> QED
    BY <2>1, <2>2, <2>3, <2>4 DEF GraphInv
<1>2. ASSUME NEW r \in Savers, Graph!Load(r) PROVE GraphInv'
  BY <1>2, GraphOpens, GraphActors DEF Graph!Load
<1>3. ASSUME Graph!Open PROVE GraphInv'
  <2>1. PICK f \in Domain : Graph!OnDisk[f] > 0
    BY <1>3 DEF Graph!Open
  <2>2. graphFile = "whole"
    <3>1. f \in Graph!Facts
      BY DEF Graph!Facts
    <3> QED
      BY <2>1, <3>1, EmptyGraph DEF Graph!OnDisk
  <2> QED
    BY <1>3, <2>2, GraphOpens, GraphActors DEF Graph!Open
<1>4. ASSUME NEW g, Graph!Distil(g),
             \/ \E S \in SUBSET Graph!Prunable(mem[Graph!Distiller]) :
                   g = Graph!Pruned(mem[Graph!Distiller], S)
             \/ \E p \in Graph!Mergeable(mem[Graph!Distiller]) :
                   g = Graph!MergedAs(mem[Graph!Distiller], p)
      PROVE  GraphInv'
  BY <1>4, DistilsDomain, GraphDistils
<1>5. CASE Graph!Next
  <2>1. CASE \/ \E S \in SUBSET Graph!Prunable(mem[Graph!Distiller]) :
                   Graph!Distil(Graph!Pruned(mem[Graph!Distiller], S))
             \/ \E p \in Graph!Mergeable(mem[Graph!Distiller]) :
                   Graph!Distil(Graph!MergedAs(mem[Graph!Distiller], p))
    BY <1>4, <2>1
  <2> QED
    BY <1>2, <1>3, <1>5, <2>1, GraphAsserts, GraphSaves, GraphSaved, GraphRecords,
       GraphCrashes DEF Graph!Next
<1> QED
  BY <1>1, <1>5

LEMMA GraphFollows == GraphInv => Graph!GraphSound
BY DEF GraphInv, FileLocked, OwedHeld, NobodyHas, IndexedOwed, Graph!GraphSound

-----------------------------------------------------------------------------
(* The code index of a project. *)

Stamps == Trees \X (1 .. MaxVersion)
Stored == {Code!None} \cup Stamps
Walks  == [at : {"walk"}, known : [Files -> Stored], todo : SUBSET Files,
           seen : SUBSET Files, capped : BOOLEAN]
Looks  == [at : {"read"}, file : Files, stamp : Stamps, rest : Walks]
Writes == [at : {"drop", "add"}, file : Files, stamp : Stamps, rest : Walks,
           text : Stamps, todo : SUBSET Code!Windows]
Loses  == [at : {"forget"}, file : Files, rest : Walks]

IndexTyped ==
    /\ tree \in [Trees -> [Files -> -1 .. MaxVersion]]
    /\ files \in [Files -> Stored]
    /\ chunks \in [Files -> [Code!Windows -> Stored]]
    /\ pass \in [Trees -> {Code!Idle} \cup Walks \cup Looks \cup Writes \cup Loses]

\* The tree has had this version of the file, and never has an earlier one again.
HasHad(t, f, v) == tree[t][f] = -1 \/ tree[t][f] >= v

\* What a pass reads is of its own tree, and its text is no older than its stamp.
PassesRead == \A t \in Trees :
    /\ pass[t].at \in {"read", "drop", "add"} =>
          pass[t].stamp[1] = t /\ HasHad(t, pass[t].file, pass[t].stamp[2])
    /\ pass[t].at \in {"drop", "add"} =>
          /\ pass[t].text[1] = t /\ pass[t].stamp[2] <= pass[t].text[2]
          /\ HasHad(t, pass[t].file, pass[t].text[2])
    /\ pass[t].at = "drop" => pass[t].todo = Code!Windows

Adds(t, f)    == pass[t].at = "add" /\ pass[t].file = f
Forgets(t, f) == pass[t].at = "forget" /\ pass[t].file = f
Told(f) == \E s \in Stamps : files[f] = s /\ \E v \in s[2] .. MaxVersion :
    chunks[f] = [w \in Code!Windows |-> <<s[1], v>>] /\ HasHad(s[1], f, v)

\* Where no passes met and none was cut: one pass at most writes the file, and has written the
\* windows that are there; without one the row tells what is there, or there is nothing.
FileTold(f) == f \notin mixed =>
    /\ \A t, u \in Trees : Adds(t, f) /\ Adds(u, f) => t = u
    /\ \A t \in Trees : Adds(t, f) => \A w \in Code!Windows :
          chunks[f][w] = IF w \in pass[t].todo THEN Code!None ELSE pass[t].text
    /\ (\A t \in Trees : ~Adds(t, f)) =>
          \/ chunks[f] = Code!Blank /\ (files[f] = Code!None \/ \E t \in Trees : Forgets(t, f))
          \/ Told(f)

IndexInv == IndexTyped /\ PassesRead /\ \A f \in Files : FileTold(f)

LEMMA IndexBegins == ASSUME Code!Init PROVE IndexInv
<1> USE IndexAssumption
<1>1. \A t \in Trees : pass[t].at = "idle"
  BY DEF Code!Init, Code!Idle
<1>2. Code!Blank \in [Code!Windows -> Stored] /\ Code!None \in Stored
  BY DEF Code!Blank, Stored
<1>3. IndexTyped
  BY <1>2 DEF Code!Init, IndexTyped
<1>4. PassesRead
  BY <1>1 DEF PassesRead
<1>5. ASSUME NEW f \in Files PROVE FileTold(f)
  BY <1>1 DEF Code!Init, FileTold, Adds
<1> QED
  BY <1>3, <1>4, <1>5 DEF IndexInv

\* A pass at some point has the fields it needs there.
LEMMA IndexShapes ==
    ASSUME IndexTyped, NEW t \in Trees
    PROVE  /\ pass[t].at = "walk" => pass[t] \in Walks
           /\ pass[t].at = "read" => pass[t] \in Looks
           /\ pass[t].at \in {"drop", "add"} => pass[t] \in Writes
           /\ pass[t].at = "forget" => pass[t] \in Loses
<1>1. pass[t] \in {Code!Idle} \cup Walks \cup Looks \cup Writes \cup Loses
  BY DEF IndexTyped
<1> QED
  BY <1>1 DEF Walks, Looks, Writes, Loses, Code!Idle

LEMMA StampOf ==
    ASSUME NEW s \in Stamps
    PROVE  /\ s = <<s[1], s[2]>> /\ s[1] \in Trees /\ s[2] \in Nat /\ s[2] # 0
           /\ s[2] \in 1 .. MaxVersion /\ s \in Stored /\ s # Code!None
BY IndexAssumption DEF Stamps, Stored, Code!None

\* The tree goes on.
LEMMA IndexWritten ==
    ASSUME IndexInv, NEW t \in Trees, NEW f \in Files, Code!Write(t, f) \/ Code!Remove(t, f)
    PROVE  IndexInv'
<1> USE IndexAssumption
<1>1. /\ tree[t][f] \in Int /\ tree[t][f] >= 0 /\ tree[t][f] <= MaxVersion
      /\ \/ tree' = [tree EXCEPT ![t][f] = @ + 1] /\ tree[t][f] < MaxVersion
         \/ tree' = [tree EXCEPT ![t][f] = -1]
      /\ UNCHANGED <<files, chunks, pass, mixed>>
  BY DEF Code!Write, Code!Remove, IndexInv, IndexTyped
<1>2. \A u \in Trees, g \in Files :
         tree[u][g] \in Int /\
         tree'[u][g] = IF u = t /\ g = f THEN tree'[t][f] ELSE tree[u][g]
  BY <1>1 DEF IndexInv, IndexTyped
<1>3. tree'[t][f] = -1 \/ tree'[t][f] = tree[t][f] + 1
  BY <1>1 DEF IndexInv, IndexTyped
<1>4. \A u \in Trees, g \in Files, v \in Int : HasHad(u, g, v) => HasHad(u, g, v)'
  BY <1>1, <1>2, <1>3 DEF HasHad
<1>5. tree' \in [Trees -> [Files -> -1 .. MaxVersion]]
  <2>1. PICK v \in -1 .. MaxVersion : tree' = [tree EXCEPT ![t][f] = v]
    BY <1>1
  <2>2. [tree[t] EXCEPT ![f] = v] \in [Files -> -1 .. MaxVersion]
    BY DEF IndexInv, IndexTyped
  <2> QED
    BY <2>1, <2>2 DEF IndexInv, IndexTyped
<1>6. IndexTyped'
  BY <1>1, <1>5 DEF IndexInv, IndexTyped
<1>7. PassesRead'
  <2> SUFFICES ASSUME NEW u \in Trees
               PROVE  /\ pass[u].at \in {"read", "drop", "add"} =>
                            HasHad(u, pass[u].file, pass[u].stamp[2])'
                      /\ pass[u].at \in {"drop", "add"} =>
                            HasHad(u, pass[u].file, pass[u].text[2])'
    BY <1>1 DEF IndexInv, PassesRead
  <2>1. CASE pass[u].at = "read"
    <3>1. pass[u].file \in Files /\ pass[u].stamp[2] \in Int
      BY <2>1, IndexShapes, StampOf DEF IndexInv, Looks
    <3> QED
      BY <1>1, <1>4, <2>1, <3>1 DEF IndexInv, PassesRead
  <2>2. CASE pass[u].at \in {"drop", "add"}
    <3>1. pass[u].file \in Files /\ pass[u].stamp[2] \in Int /\ pass[u].text[2] \in Int
      BY <2>2, IndexShapes, StampOf DEF IndexInv, Writes
    <3> QED
      BY <1>1, <1>4, <2>2, <3>1 DEF IndexInv, PassesRead
  <2> QED
    BY <2>1, <2>2
<1>8. ASSUME NEW g \in Files PROVE FileTold(g)'
  <2>1. Told(g) => Told(g)'
    <3> SUFFICES ASSUME NEW s \in Stamps, files[g] = s, NEW v \in s[2] .. MaxVersion,
                        chunks[g] = [w \in Code!Windows |-> <<s[1], v>>], HasHad(s[1], g, v)
                 PROVE  Told(g)'
      BY DEF Told
    <3>1. HasHad(s[1], g, v)'
      BY <1>4, StampOf
    <3> QED
      BY <1>1, <3>1 DEF Told
  <2>2. (\A u \in Trees : Adds(u, g)' <=> Adds(u, g))
        /\ (\A u \in Trees : Forgets(u, g)' <=> Forgets(u, g))
    BY <1>1 DEF Adds, Forgets
  <2> QED
    BY <1>1, <2>1, <2>2 DEF IndexInv, FileTold
<1> QED
  BY <1>6, <1>7, <1>8 DEF IndexInv

\* A pass goes on, and writes nothing.
LEMMA PassLeft ==
    ASSUME IndexInv, NEW t \in Trees, NEW o, pass' = [pass EXCEPT ![t] = o],
           pass[t].at \notin {"add", "forget"}, o.at \notin {"add", "forget"},
           o \in {Code!Idle} \cup Walks \cup Looks \cup Writes,
           o.at \in {"read", "drop"} => o.stamp[1] = t /\ HasHad(t, o.file, o.stamp[2]),
           o.at = "drop" => /\ o.text[1] = t /\ o.stamp[2] <= o.text[2]
                            /\ HasHad(t, o.file, o.text[2]) /\ o.todo = Code!Windows,
           UNCHANGED <<tree, files, chunks, mixed>>
    PROVE  IndexInv'
<1>1. \A u \in Trees : pass'[u] = IF u = t THEN o ELSE pass[u]
  BY DEF IndexInv, IndexTyped
<1>2. IndexTyped'
  BY DEF IndexInv, IndexTyped
<1>3. PassesRead'
  BY <1>1 DEF IndexInv, PassesRead, HasHad
<1>4. \A u \in Trees, f \in Files : (Adds(u, f)' <=> Adds(u, f)) /\ (Forgets(u, f)' <=> Forgets(u, f))
                                    /\ (Adds(u, f) => pass'[u] = pass[u])
  BY <1>1 DEF Adds, Forgets
<1>5. ASSUME NEW f \in Files PROVE FileTold(f)'
  <2>1. Told(f)' <=> Told(f)
    BY DEF Told, HasHad
  <2> QED
    BY <1>4, <2>1 DEF IndexInv, FileTold
<1> QED
  BY <1>2, <1>3, <1>5 DEF IndexInv

LEMMA PassStarts ==
    ASSUME IndexInv, NEW t \in Trees, Code!Start(t) \/ Code!End(t) PROVE IndexInv'
<1>1. CASE Code!Start(t)
  <2>1. PICK visit \in SUBSET Files :
          /\ pass' = [pass EXCEPT ![t] =
                [at |-> "walk", known |-> files, todo |-> visit, seen |-> {},
                 capped |-> visit # {f \in Files : tree[t][f] > 0}]]
          /\ pass[t] = Code!Idle
          /\ UNCHANGED <<tree, files, chunks, mixed>>
    BY <1>1 DEF Code!Start
  <2> DEFINE o == [at |-> "walk", known |-> files, todo |-> visit, seen |-> {},
                   capped |-> visit # {f \in Files : tree[t][f] > 0}]
  <2>2. o \in Walks /\ o.at = "walk"
    BY DEF Walks, IndexInv, IndexTyped
  <2>3. pass' = [pass EXCEPT ![t] = o] /\ pass[t].at = "idle"
    BY <2>1 DEF Code!Idle
  <2> HIDE DEF o
  <2> QED
    BY <2>1, <2>2, <2>3, PassLeft
<1>2. CASE Code!End(t)
  <2>1. /\ pass[t].at = "walk" /\ pass' = [pass EXCEPT ![t] = Code!Idle]
        /\ UNCHANGED <<tree, files, chunks, mixed>>
    BY <1>2 DEF Code!End
  <2>2. Code!Idle.at = "idle"
    BY DEF Code!Idle
  <2> QED
    BY <2>1, <2>2, PassLeft
<1> QED
  BY <1>1, <1>2

LEMMA PassStats ==
    ASSUME IndexInv, NEW t \in Trees, NEW f \in Files, Code!Stat(t, f) PROVE IndexInv'
<1> USE IndexAssumption
<1> DEFINE rest  == [pass[t] EXCEPT !.todo = @ \ {f}]
           stamp == <<t, tree[t][f]>>
           look  == [at |-> "read", file |-> f, stamp |-> stamp, rest |-> rest]
<1>1. /\ pass[t].at = "walk"
      /\ pass' = [pass EXCEPT ![t] =
            CASE tree[t][f] <= 0 -> rest
              [] stamp = rest.known[f] -> [rest EXCEPT !.seen = @ \cup {f}]
              [] OTHER -> look]
      /\ UNCHANGED <<tree, files, chunks, mixed>>
  BY DEF Code!Stat
<1>2. pass[t] \in Walks
  BY <1>1, IndexShapes DEF IndexInv
<1>3. rest \in Walks /\ [rest EXCEPT !.seen = @ \cup {f}] \in Walks
  BY <1>2 DEF Walks
<1>4. tree[t][f] \in -1 .. MaxVersion
  BY DEF IndexInv, IndexTyped
<1>5. CASE tree[t][f] <= 0 \/ stamp = rest.known[f]
  <2>1. PICK o \in Walks : pass' = [pass EXCEPT ![t] = o]
    BY <1>1, <1>3, <1>5
  <2>2. o.at = "walk"
    BY DEF Walks
  <2> QED
    BY <1>1, <2>1, <2>2, PassLeft
<1>6. CASE ~(tree[t][f] <= 0 \/ stamp = rest.known[f])
  <2>1. pass' = [pass EXCEPT ![t] = look]
    BY <1>1, <1>6
  <2>2. stamp \in Stamps /\ stamp[1] = t /\ HasHad(t, f, stamp[2])
    BY <1>4, <1>6 DEF Stamps, HasHad
  <2>3. look \in Looks
    BY <1>3, <2>2 DEF Looks
  <2>4. look.at = "read" /\ look.stamp = stamp /\ look.file = f
    OBVIOUS
  <2> HIDE DEF look, stamp
  <2> QED
    BY <1>1, <2>1, <2>2, <2>3, <2>4, PassLeft
<1> QED
  BY <1>5, <1>6

LEMMA PassReads == ASSUME IndexInv, NEW t \in Trees, Code!Read(t) PROVE IndexInv'
<1> USE IndexAssumption
<1> DEFINE p   == pass[t]
           now == tree[t][p.file]
           o   == [at |-> "drop", file |-> p.file, stamp |-> p.stamp,
                   rest |-> [p.rest EXCEPT !.seen = @ \cup {p.file}],
                   text |-> <<t, now>>, todo |-> Code!Windows]
<1>1. /\ p.at = "read" /\ pass' = [pass EXCEPT ![t] = IF now <= 0 THEN p.rest ELSE o]
      /\ UNCHANGED <<tree, files, chunks, mixed>>
  BY DEF Code!Read
<1>2. p \in Looks
  BY <1>1, IndexShapes DEF IndexInv
<1>3. p.file \in Files /\ p.stamp \in Stamps /\ p.rest \in Walks
  BY <1>2 DEF Looks
<1>4. now \in -1 .. MaxVersion
  BY <1>3 DEF IndexInv, IndexTyped
<1>5. CASE now <= 0
  <2>1. pass' = [pass EXCEPT ![t] = p.rest] /\ p.rest.at = "walk"
    BY <1>1, <1>3, <1>5 DEF Walks
  <2> QED
    BY <1>1, <1>3, <2>1, PassLeft
<1>6. CASE ~(now <= 0)
  <2>1. [p.rest EXCEPT !.seen = @ \cup {p.file}] \in Walks
    BY <1>3 DEF Walks
  <2>2. <<t, now>> \in Stamps
    BY <1>4, <1>6 DEF Stamps
  <2>3. o \in Writes
    BY <1>3, <2>1, <2>2 DEF Writes
  <2>4. /\ o.at = "drop" /\ o.file = p.file /\ o.stamp = p.stamp /\ o.text[1] = t
        /\ o.text[2] = now /\ o.todo = Code!Windows
    OBVIOUS
  <2>5. p.stamp[1] = t /\ HasHad(t, p.file, p.stamp[2])
    BY <1>1 DEF IndexInv, PassesRead
  <2>6. HasHad(t, p.file, now) /\ p.stamp[2] <= now
    BY <1>3, <1>4, <1>6, <2>5, StampOf DEF HasHad
  <2>7. pass' = [pass EXCEPT ![t] = o] /\ p.at = "read"
    BY <1>1, <1>6
  <2> HIDE DEF o
  <2> QED
    BY <1>1, <2>3, <2>4, <2>5, <2>6, <2>7, PassLeft DEF p
<1> QED
  BY <1>5, <1>6

\* The first step of writing a file: it has no windows then.
LEMMA PassDrops == ASSUME IndexInv, NEW t \in Trees, Code!Drop(t) PROVE IndexInv'
<1> DEFINE o == [pass[t] EXCEPT !.at = "add"]
<1>0. PICK f \in Files : f = pass[t].file
  BY IndexShapes DEF IndexInv, Writes, Code!Drop
<1>1. /\ pass[t].at = "drop" /\ chunks' = [chunks EXCEPT ![f] = Code!Blank]
      /\ mixed' = (IF Code!Inside(f) = {} THEN mixed \ {f} ELSE mixed \cup {f})
      /\ pass' = [pass EXCEPT ![t] = o]
      /\ UNCHANGED <<tree, files>>
  BY <1>0 DEF Code!Drop
<1>2. pass[t] \in Writes
  BY <1>1, IndexShapes DEF IndexInv
<1>3. f \in Files /\ o \in Writes /\ o.at = "add" /\ o.file = f /\ o.todo = pass[t].todo
      /\ o.stamp = pass[t].stamp /\ o.text = pass[t].text
  BY <1>0, <1>2 DEF Writes
<1> HIDE DEF o
<1>4. \A u \in Trees : pass'[u] = IF u = t THEN o ELSE pass[u]
  BY <1>1 DEF IndexInv, IndexTyped
<1>5. \A g \in Files : chunks'[g] = IF g = f THEN Code!Blank ELSE chunks[g]
  BY <1>1 DEF IndexInv, IndexTyped
<1>6. IndexTyped'
  <2>1. Code!Blank \in [Code!Windows -> Stored]
    BY DEF Code!Blank, Stored
  <2> QED
    BY <1>1, <1>3, <2>1 DEF IndexInv, IndexTyped
<1>7. PassesRead'
  <2> SUFFICES ASSUME NEW u \in Trees
               PROVE  /\ pass'[u].at \in {"read", "drop", "add"} => pass'[u].stamp[1] = u /\
                            HasHad(u, pass[u].file, pass[u].stamp[2])'
                      /\ pass'[u].at \in {"drop", "add"} =>
                            /\ pass'[u].text[1] = u /\ pass'[u].stamp[2] <= pass'[u].text[2]
                            /\ HasHad(u, pass[u].file, pass[u].text[2])'
                      /\ pass'[u].at = "drop" => pass'[u].todo = Code!Windows
    BY DEF PassesRead
  <2>1. CASE u = t
    BY <1>0, <1>1, <1>3, <1>4, <2>1 DEF IndexInv, PassesRead, HasHad
  <2>2. CASE u # t
    BY <1>1, <1>4, <2>2 DEF IndexInv, PassesRead, HasHad
  <2> QED
    BY <2>1, <2>2
<1>8. pass[t].todo = Code!Windows
  BY <1>1 DEF IndexInv, PassesRead
<1>9. ASSUME NEW g \in Files, g # f PROVE FileTold(g)'
  <2>1. \A u \in Trees : /\ Adds(u, g)' <=> Adds(u, g)
                         /\ Forgets(u, g)' <=> Forgets(u, g)
                         /\ Adds(u, g) => pass'[u] = pass[u]
    BY <1>1, <1>3, <1>4, <1>9 DEF Adds, Forgets
  <2>2. g \in mixed' <=> g \in mixed
    BY <1>1, <1>9
  <2>3. Told(g)' <=> Told(g)
    BY <1>1, <1>5, <1>9 DEF Told, HasHad
  <2> QED
    BY <1>1, <1>5, <1>9, <2>1, <2>2, <2>3 DEF IndexInv, FileTold
<1>10. FileTold(f)'
  <2> SUFFICES ASSUME f \notin mixed' PROVE FileTold(f)'
    BY DEF FileTold
  <2>1. \A u \in Trees : ~Adds(u, f)
    BY <1>1 DEF Code!Inside, Adds
  <2> QED
    BY <1>3, <1>4, <1>5, <1>8, <2>1 DEF FileTold, Adds, Code!Blank
<1> QED
  BY <1>6, <1>7, <1>9, <1>10 DEF IndexInv

\* The next window goes in.
LEMMA PassAdds == ASSUME IndexInv, NEW t \in Trees, Code!Add(t) PROVE IndexInv'
<1>0. PICK f \in Files : f = pass[t].file
  BY IndexShapes DEF IndexInv, Writes, Code!Add
<1>1. PICK w \in pass[t].todo :
        /\ pass[t].at = "add" /\ chunks' = [chunks EXCEPT ![f][w] = pass[t].text]
        /\ pass' = [pass EXCEPT ![t].todo = @ \ {w}]
        /\ UNCHANGED <<tree, files, mixed>>
  BY <1>0 DEF Code!Add
<1> DEFINE o == [pass[t] EXCEPT !.todo = @ \ {w}]
<1>2. pass[t] \in Writes
  BY <1>1, IndexShapes DEF IndexInv
<1>3. o \in Writes /\ o.at = "add" /\ o.file = f /\ o.todo = pass[t].todo \ {w}
      /\ o.stamp = pass[t].stamp /\ o.text = pass[t].text
      /\ w \in Code!Windows /\ pass[t].text \in Stored
  BY <1>0, <1>1, <1>2 DEF Writes, Stored
<1>4. pass' = [pass EXCEPT ![t] = o] /\ \A u \in Trees : pass'[u] = IF u = t THEN o ELSE pass[u]
  BY <1>1 DEF IndexInv, IndexTyped
<1> HIDE DEF o
<1>5. [chunks[f] EXCEPT ![w] = pass[t].text] \in [Code!Windows -> Stored]
  BY <1>3 DEF IndexInv, IndexTyped
<1>6. \A g \in Files : chunks'[g] = IF g = f THEN [chunks[f] EXCEPT ![w] = pass[t].text]
                                    ELSE chunks[g]
  BY <1>1 DEF IndexInv, IndexTyped
<1>7. IndexTyped'
  BY <1>1, <1>3, <1>4, <1>5 DEF IndexInv, IndexTyped
<1>8. PassesRead'
  <2> SUFFICES ASSUME NEW u \in Trees
               PROVE  /\ pass'[u].at \in {"read", "drop", "add"} => pass'[u].stamp[1] = u /\
                            HasHad(u, pass[u].file, pass[u].stamp[2])'
                      /\ pass'[u].at \in {"drop", "add"} =>
                            /\ pass'[u].text[1] = u /\ pass'[u].stamp[2] <= pass'[u].text[2]
                            /\ HasHad(u, pass[u].file, pass[u].text[2])'
                      /\ pass'[u].at = "drop" => pass'[u].todo = Code!Windows
    BY DEF PassesRead
  <2>1. CASE u = t
    BY <1>0, <1>1, <1>3, <1>4, <2>1 DEF IndexInv, PassesRead, HasHad
  <2>2. CASE u # t
    BY <1>1, <1>4, <2>2 DEF IndexInv, PassesRead, HasHad
  <2> QED
    BY <2>1, <2>2
<1>9. \A u \in Trees, g \in Files : (Adds(u, g)' <=> Adds(u, g)) /\ (Forgets(u, g)' <=> Forgets(u, g))
  BY <1>0, <1>1, <1>3, <1>4 DEF Adds, Forgets
<1>10. Adds(t, f)
  BY <1>0, <1>1 DEF Adds
<1>11. ASSUME NEW g \in Files, g # f PROVE FileTold(g)'
  <2>1. Told(g)' <=> Told(g)
    BY <1>1, <1>6, <1>11 DEF Told, HasHad
  <2>2. \A u \in Trees : Adds(u, g) => pass'[u] = pass[u]
    BY <1>0, <1>4, <1>11 DEF Adds
  <2> QED
    <3> SUFFICES ASSUME g \notin mixed PROVE FileTold(g)'
      BY <1>1 DEF FileTold
    <3>1. FileTold(g) /\ chunks'[g] = chunks[g] /\ files'[g] = files[g]
      BY <1>1, <1>6, <1>11 DEF IndexInv
    <3>2. \A u \in Trees : (Adds(u, g)' <=> Adds(u, g)) /\ (Forgets(u, g)' <=> Forgets(u, g))
      BY <1>9
    <3> QED
      BY <2>1, <2>2, <3>1, <3>2 DEF FileTold
<1>12. FileTold(f)'
  <2> SUFFICES ASSUME f \notin mixed PROVE FileTold(f)'
    BY <1>1 DEF FileTold
  <2>1. \A u \in Trees : Adds(u, f)' => u = t
    BY <1>9, <1>10 DEF IndexInv, FileTold
  <2>2. \A x \in Code!Windows :
           chunks[f][x] = IF x \in pass[t].todo THEN Code!None ELSE pass[t].text
    BY <1>10 DEF IndexInv, FileTold
  <2>3. \A x \in Code!Windows : chunks'[f][x] = IF x \in o.todo THEN Code!None ELSE o.text
    BY <1>3, <1>6, <2>2 DEF IndexInv, IndexTyped
  <2> QED
    BY <1>4, <1>9, <1>10, <2>1, <2>3 DEF FileTold
<1> QED
  BY <1>7, <1>8, <1>11, <1>12 DEF IndexInv

\* A pass that leaves a file, with its row written, or dropped, or neither.
LEMMA PassLeaves ==
    ASSUME IndexInv, NEW t \in Trees, NEW o \in {Code!Idle} \cup Walks,
           NEW f \in Files, NEW r \in Stored, pass' = [pass EXCEPT ![t] = o],
           \A g \in Files : (Adds(t, g) \/ Forgets(t, g)) => g = f,
           files' = [files EXCEPT ![f] = r], UNCHANGED <<tree, chunks>>,
           mixed \subseteq mixed', mixed' \subseteq mixed \cup {f},
           f \notin mixed' => \/ /\ r = files[f] /\ ~Adds(t, f) /\ ~Forgets(t, f)
                              \/ /\ Adds(t, f) /\ pass[t].todo = {} /\ r = pass[t].stamp
                              \/ /\ Forgets(t, f) /\ r = Code!None /\ chunks[f] = Code!Blank
    PROVE  IndexInv'
<1> USE IndexAssumption
<1>1. /\ \A u \in Trees : pass'[u] = IF u = t THEN o ELSE pass[u]
      /\ \A g \in Files : files'[g] = IF g = f THEN r ELSE files[g]
  BY DEF IndexInv, IndexTyped
<1>2. IndexTyped'
  BY DEF IndexInv, IndexTyped
<1>3. o.at \in {"idle", "walk"}
  BY DEF Walks, Code!Idle
<1>4. PassesRead'
  BY <1>1, <1>3 DEF IndexInv, PassesRead, HasHad
<1>5. \A u \in Trees, g \in Files : /\ Adds(u, g)' <=> Adds(u, g) /\ u # t
                                    /\ Forgets(u, g)' <=> Forgets(u, g) /\ u # t
                                    /\ Adds(u, g)' => pass'[u] = pass[u]
  BY <1>1, <1>3 DEF Adds, Forgets
<1>6. ASSUME NEW g \in Files, g # f PROVE FileTold(g)'
  <2>1. Told(g)' <=> Told(g)
    BY <1>1, <1>6 DEF Told, HasHad
  <2>2. \A u \in Trees : (Adds(u, g)' <=> Adds(u, g)) /\ (Forgets(u, g)' <=> Forgets(u, g))
    BY <1>5, <1>6
  <2>3. g \in mixed' <=> g \in mixed
    BY <1>6
  <2> QED
    BY <1>1, <1>5, <1>6, <2>1, <2>2, <2>3 DEF IndexInv, FileTold
<1>7. FileTold(f)'
  <2> SUFFICES ASSUME f \notin mixed' PROVE FileTold(f)'
    BY DEF FileTold
  <2>1. f \notin mixed /\ FileTold(f)
    BY DEF IndexInv
  <2>2. CASE r = files[f] /\ ~Adds(t, f) /\ ~Forgets(t, f)
    <3>1. Told(f)' <=> Told(f)
      BY <1>1, <2>2 DEF Told, HasHad
    <3>2. \A u \in Trees : (Adds(u, f)' <=> Adds(u, f)) /\ (Forgets(u, f)' <=> Forgets(u, f))
      BY <1>5, <2>2
    <3> QED
      BY <1>1, <1>5, <2>1, <2>2, <3>1, <3>2 DEF FileTold
  <2>3. CASE Adds(t, f) /\ pass[t].todo = {} /\ r = pass[t].stamp
    <3>1. \A u \in Trees : ~Adds(u, f)'
      BY <1>5, <2>1, <2>3 DEF FileTold
    <3>2. pass[t] \in Writes /\ pass[t].file = f
      BY <2>3, IndexShapes DEF IndexInv, Adds
    <3>3. pass[t].stamp \in Stamps /\ pass[t].text \in Stamps
      BY <3>2 DEF Writes
    <3>4. /\ pass[t].stamp[1] = t /\ pass[t].text[1] = t
          /\ pass[t].stamp[2] <= pass[t].text[2] /\ HasHad(t, f, pass[t].text[2])
      BY <2>3, <3>2 DEF IndexInv, PassesRead, Adds
    <3>5. PICK s \in Stamps, v \in Int : /\ s = pass[t].stamp /\ s[1] = t
                                         /\ v \in s[2] .. MaxVersion /\ pass[t].text = <<t, v>>
                                         /\ HasHad(t, f, v)
      BY <3>3, <3>4, StampOf
    <3>6. \A x \in Code!Windows : chunks[f][x] = pass[t].text
      BY <2>1, <2>3 DEF FileTold
    <3>7. chunks[f] = [w \in Code!Windows |-> <<s[1], v>>]
      BY <3>5, <3>6 DEF IndexInv, IndexTyped
    <3>8. HasHad(s[1], f, v)'
      BY <3>5 DEF HasHad
    <3>9. files'[f] = s /\ chunks' = chunks
      BY <1>1, <2>3, <3>5
    <3>10. Told(f)'
      BY <3>5, <3>7, <3>8, <3>9 DEF Told
    <3> QED
      BY <3>1, <3>10 DEF FileTold
  <2>4. CASE Forgets(t, f) /\ r = Code!None /\ chunks[f] = Code!Blank
    <3>1. ~Adds(t, f)
      BY <2>4 DEF Adds, Forgets
    <3>2. \A u \in Trees : Adds(u, f)' <=> Adds(u, f)
      BY <1>5, <3>1
    <3> QED
      BY <1>1, <1>5, <2>1, <2>4, <3>2 DEF FileTold
  <2> QED
    BY <2>2, <2>3, <2>4
<1> QED
  BY <1>2, <1>4, <1>6, <1>7 DEF IndexInv

LEMMA PassEnds ==
    ASSUME IndexInv, NEW t \in Trees, Code!Row(t) \/ Code!Forget(t) \/ Code!Cut(t)
    PROVE  IndexInv'
<1>1. ASSUME Code!Row(t) PROVE IndexInv'
  <2>1. /\ pass[t].at = "add" /\ pass[t].todo = {}
        /\ files' = [files EXCEPT ![pass[t].file] = pass[t].stamp]
        /\ pass' = [pass EXCEPT ![t] = pass[t].rest]
        /\ UNCHANGED <<tree, chunks, mixed>>
    BY <1>1 DEF Code!Row, Code!Indexed
  <2>2. pass[t].file \in Files /\ pass[t].stamp \in Stored /\ pass[t].rest \in Walks
    BY <2>1, IndexShapes DEF IndexInv, Writes, Stored
  <2>3. /\ \A g \in Files : (Adds(t, g) \/ Forgets(t, g)) => g = pass[t].file
        /\ Adds(t, pass[t].file)
    BY <2>1 DEF Adds, Forgets
  <2> QED
    BY <2>1, <2>2, <2>3, PassLeaves
<1>2. ASSUME Code!Forget(t) PROVE IndexInv'
  <2>1. /\ pass[t].at = "forget" /\ files' = [files EXCEPT ![pass[t].file] = Code!None]
        /\ mixed' = (IF chunks[pass[t].file] = Code!Blank THEN mixed
                     ELSE mixed \cup {pass[t].file})
        /\ pass' = [pass EXCEPT ![t] = pass[t].rest]
        /\ UNCHANGED <<tree, chunks>>
    BY <1>2 DEF Code!Forget
  <2>2. pass[t].file \in Files /\ Code!None \in Stored /\ pass[t].rest \in Walks
    BY <2>1, IndexShapes DEF IndexInv, Loses, Stored
  <2>3. /\ \A g \in Files : (Adds(t, g) \/ Forgets(t, g)) => g = pass[t].file
        /\ Forgets(t, pass[t].file)
    BY <2>1 DEF Adds, Forgets
  <2> QED
    BY <2>1, <2>2, <2>3, PassLeaves
<1>3. ASSUME Code!Cut(t) PROVE IndexInv'
  <2>1. /\ mixed' = (IF pass[t].at \in {"add", "forget"} THEN mixed \cup {pass[t].file}
                     ELSE mixed)
        /\ pass' = [pass EXCEPT ![t] = Code!Idle]
        /\ UNCHANGED <<tree, files, chunks>>
    BY <1>3 DEF Code!Cut
  <2>2. CASE pass[t].at \in {"add", "forget"}
    <3>1. pass[t].file \in Files
      BY <2>2, IndexShapes DEF IndexInv, Writes, Loses
    <3>2. files[pass[t].file] \in Stored /\ files' = [files EXCEPT ![pass[t].file] = files[pass[t].file]]
      BY <2>1, <3>1 DEF IndexInv, IndexTyped
    <3>3. \A g \in Files : (Adds(t, g) \/ Forgets(t, g)) => g = pass[t].file
      BY DEF Adds, Forgets
    <3> QED
      BY <2>1, <2>2, <3>1, <3>2, <3>3, PassLeaves
  <2>3. CASE pass[t].at \notin {"add", "forget"}
    <3>1. Code!Idle.at = "idle"
      BY DEF Code!Idle
    <3> QED
      BY <2>1, <2>3, <3>1, PassLeft
  <2> QED
    BY <2>2, <2>3
<1> QED
  BY <1>1, <1>2, <1>3

\* A complete pass drops the windows of a file it did not see.
LEMMA PassPrunes == ASSUME IndexInv, NEW t \in Trees, Code!Prune(t) PROVE IndexInv'
<1>1. PICK f \in Code!Stale(t) :
        /\ pass[t].at = "walk" /\ chunks' = [chunks EXCEPT ![f] = Code!Blank]
        /\ mixed' = (IF Code!Inside(f) = {} THEN mixed ELSE mixed \cup {f})
        /\ pass' = [pass EXCEPT ![t] = [at |-> "forget", file |-> f,
                                        rest |-> [pass[t] EXCEPT !.known[f] = Code!None]]]
        /\ UNCHANGED <<tree, files>>
  BY DEF Code!Prune
<1> DEFINE rest == [pass[t] EXCEPT !.known[f] = Code!None]
           o == [at |-> "forget", file |-> f, rest |-> rest]
<1>2. f \in Files /\ pass[t] \in Walks
  BY <1>1, IndexShapes DEF IndexInv, Code!Stale
<1>3. rest \in Walks
  <2>1. Code!None \in Stored
    BY DEF Stored
  <2>2. [pass[t].known EXCEPT ![f] = Code!None] \in [Files -> Stored]
    BY <1>2, <2>1 DEF Walks
  <2> QED
    BY <1>2, <2>2 DEF Walks
<1> HIDE DEF rest
<1>4. o \in Loses /\ o.at = "forget" /\ o.file = f
  BY <1>2, <1>3 DEF Loses
<1>5. pass' = [pass EXCEPT ![t] = o]
  BY <1>1 DEF rest
<1> HIDE DEF o
<1>6. /\ \A u \in Trees : pass'[u] = IF u = t THEN o ELSE pass[u]
      /\ \A g \in Files : chunks'[g] = IF g = f THEN Code!Blank ELSE chunks[g]
  BY <1>1, <1>5 DEF IndexInv, IndexTyped
<1>7. IndexTyped'
  <2>1. Code!Blank \in [Code!Windows -> Stored]
    BY DEF Code!Blank, Stored
  <2> QED
    BY <1>1, <1>2, <1>4, <1>5, <2>1 DEF IndexInv, IndexTyped
<1>8. PassesRead'
  BY <1>1, <1>4, <1>6 DEF IndexInv, PassesRead, HasHad
<1>9. \A u \in Trees, g \in Files :
         /\ Adds(u, g)' <=> Adds(u, g)
         /\ Forgets(u, g)' <=> Forgets(u, g) \/ (u = t /\ g = f)
         /\ Adds(u, g)' => pass'[u] = pass[u]
  BY <1>1, <1>4, <1>6 DEF Adds, Forgets
<1>10. ASSUME NEW g \in Files, g # f PROVE FileTold(g)'
  <2>1. Told(g)' <=> Told(g)
    BY <1>1, <1>6, <1>10 DEF Told, HasHad
  <2>2. \A u \in Trees : (Adds(u, g)' <=> Adds(u, g)) /\ (Forgets(u, g)' <=> Forgets(u, g))
    BY <1>9, <1>10
  <2>3. g \in mixed' <=> g \in mixed
    BY <1>1, <1>10
  <2> QED
    BY <1>1, <1>6, <1>9, <1>10, <2>1, <2>2, <2>3 DEF IndexInv, FileTold
<1>11. FileTold(f)'
  <2> SUFFICES ASSUME f \notin mixed' PROVE FileTold(f)'
    BY DEF FileTold
  <2>1. \A u \in Trees : ~Adds(u, f)
    BY <1>1 DEF Code!Inside, Adds
  <2> QED
    BY <1>2, <1>6, <1>9, <2>1 DEF FileTold
<1> QED
  BY <1>2, <1>7, <1>8, <1>10, <1>11 DEF IndexInv

LEMMA IndexKept == ASSUME IndexInv, [Code!Next]_index PROVE IndexInv'
<1>1. ASSUME UNCHANGED index PROVE IndexInv'
  <2>1. UNCHANGED <<tree, files, chunks, pass, mixed>>
    BY <1>1 DEF index
  <2>2. IndexTyped' /\ PassesRead'
    BY <2>1 DEF IndexInv, IndexTyped, PassesRead, HasHad
  <2>3. ASSUME NEW f \in Files PROVE FileTold(f)'
    <3>1. Told(f)' <=> Told(f)
      BY <2>1 DEF Told, HasHad
    <3> QED
      BY <2>1, <3>1 DEF IndexInv, FileTold, Adds, Forgets
  <2> QED
    BY <2>2, <2>3 DEF IndexInv
<1> QED
  BY <1>1, IndexWritten, PassStarts, PassStats, PassReads, PassDrops, PassAdds, PassEnds,
     PassPrunes DEF Code!Next

LEMMA IndexFollows == IndexInv => Code!IndexSound
<1> USE IndexAssumption
<1> SUFFICES ASSUME IndexInv, NEW f \in Files, ~Code!Busy(f), f \notin mixed
             PROVE  /\ \/ files[f] = Code!None
                       \/ \E v \in files[f][2] .. MaxVersion :
                             /\ chunks[f] = [w \in Code!Windows |-> <<files[f][1], v>>]
                             /\ v > files[f][2] => tree[files[f][1]][f] # files[f][2]
                    /\ files[f] # Code!None \/ chunks[f] = Code!Blank
  BY DEF Code!IndexSound, Code!RowsTell, Code!NothingStray
<1>1. \A t \in Trees : ~Adds(t, f) /\ ~Forgets(t, f)
  BY DEF Code!Busy, Adds, Forgets
<1>2. (files[f] = Code!None /\ chunks[f] = Code!Blank) \/ Told(f)
  BY <1>1 DEF IndexInv, FileTold
<1>3. ASSUME Told(f)
      PROVE  /\ files[f] # Code!None
             /\ \E v \in files[f][2] .. MaxVersion :
                   /\ chunks[f] = [w \in Code!Windows |-> <<files[f][1], v>>]
                   /\ v > files[f][2] => tree[files[f][1]][f] # files[f][2]
  <2>0. PICK s \in Stamps : files[f] = s /\ \E v \in s[2] .. MaxVersion :
           chunks[f] = [w \in Code!Windows |-> <<s[1], v>>] /\ HasHad(s[1], f, v)
    BY <1>3 DEF Told
  <2>1. PICK v \in s[2] .. MaxVersion :
           /\ files[f] = s
           /\ chunks[f] = [w \in Code!Windows |-> <<s[1], v>>] /\ HasHad(s[1], f, v)
    BY <2>0
  <2>2. s # Code!None /\ s[2] \in Nat /\ s[2] # 0 /\ s[1] \in Trees
    BY StampOf
  <2>3. v > s[2] => tree[s[1]][f] # s[2]
    BY <2>1, <2>2 DEF HasHad
  <2> QED
    BY <2>1, <2>2, <2>3
<1> QED
  BY <1>2, <1>3

-----------------------------------------------------------------------------
(* Child processes. *)

ProcessesTyped ==
    /\ call \in [Proc!Pairs -> {"none", "waiting"}]
    /\ child \in [Proc!Pairs -> BOOLEAN]
    /\ registry \subseteq Proc!Pairs
    /\ procCrashes \in Nat

\* The run whose tool's command is waited for holds the loop.
ToolHoldsLoop == \A r \in Runs : call[<<r, "tool">>] = "waiting" => loop = {r}

\* Until a crash the only app alive is the one the server knows.
AppKnown == procCrashes = 0 => apps \subseteq {app}

ProcessesInv ==
    /\ ProcessesTyped /\ ToolHoldsLoop /\ AppKnown
    /\ Proc!EachIsWaitedFor /\ Proc!NoStaleKill /\ Proc!RegisteredIsWaited
    /\ Proc!StrayAreTests

LEMMA ProcessesBegin == ASSUME Proc!Init PROVE ProcessesInv
<1>1. \A p \in Proc!Pairs : call[p] = "none" /\ ~child[p]
  BY DEF Proc!Init
<1>2. \A r \in Runs : <<r, "tool">> \in Proc!Pairs
  BY DEF Proc!Pairs, Proc!Kinds
<1> QED
  BY <1>1, <1>2 DEF Proc!Init, ProcessesInv, ProcessesTyped, ToolHoldsLoop, AppKnown,
     Proc!EachIsWaitedFor, Proc!NoStaleKill, Proc!RegisteredIsWaited, Proc!StrayAreTests

\* The only step that leaves a child to itself without a crash leaves tests.
LEMMA StrayKept == ASSUME ProcessesInv, [Proc!Next]_processes PROVE Proc!StrayAreTests'
<1>1. procCrashes \in Nat /\ (procCrashes = 0 => \A p \in astray : p[2] = "tests")
  BY DEF ProcessesInv, ProcessesTyped, Proc!StrayAreTests
<1>2. ASSUME procCrashes' = procCrashes, NEW r, astray' \subseteq astray \cup {<<r, "tests">>}
      PROVE  Proc!StrayAreTests'
  BY <1>1, <1>2 DEF Proc!StrayAreTests
<1>3. ASSUME NEW r \in Runs, Proc!Cancel(r) PROVE Proc!StrayAreTests'
  BY <1>2, <1>3 DEF Proc!Cancel
<1>4. CASE Proc!Crash
  BY <1>1, <1>4 DEF Proc!Crash, Proc!StrayAreTests
<1>5. ASSUME procCrashes' = procCrashes, astray' \subseteq astray PROVE Proc!StrayAreTests'
  BY <1>1, <1>5 DEF Proc!StrayAreTests
<1>6. ASSUME NEW r \in Runs, NEW k \in Proc!Kinds,
             Proc!Start(r, k) \/ Proc!Exit(r, k) \/ Proc!Return(r, k)
      PROVE  Proc!StrayAreTests'
  BY <1>5, <1>6 DEF Proc!Start, Proc!Exit, Proc!Return
<1>7. ASSUME NEW r \in Runs, Proc!Finalize(r) \/ Proc!Close(r) \/ Proc!Resume(r)
      PROVE  Proc!StrayAreTests'
  BY <1>5, <1>7 DEF Proc!Finalize, Proc!Close, Proc!Resume
<1>8. ASSUME Proc!StartApp \/ \E n \in 1 .. MaxApps : Proc!EndApp(n) PROVE Proc!StrayAreTests'
  BY <1>5, <1>8 DEF Proc!StartApp, Proc!EndApp
<1>9. ASSUME UNCHANGED processes PROVE Proc!StrayAreTests'
  BY <1>5, <1>9 DEF processes
<1> QED
  BY <1>3, <1>4, <1>6, <1>7, <1>8, <1>9 DEF Proc!Next, processes

LEMMA ProcessesKept == ASSUME ProcessesInv, [Proc!Next]_processes PROVE ProcessesInv'
<1>s. Proc!StrayAreTests'
  BY StrayKept
<1> USE <1>s DEF ProcessesInv, ProcessesTyped
<1>0. \A r \in Runs, k \in Proc!Kinds : <<r, k>> \in Proc!Pairs
  BY DEF Proc!Pairs
<1>k. "tool" \in Proc!Kinds /\ "tests" \in Proc!Kinds /\ "check" \in Proc!Kinds
  BY DEF Proc!Kinds
\* What an action does that leaves the commands alone.
<1>1. ASSUME UNCHANGED <<call, child, registry, loop, stale>>, astray' = astray, ProcessesTyped',
             AppKnown'
      PROVE  ProcessesInv'
  BY <1>1 DEF ToolHoldsLoop, Proc!EachIsWaitedFor, Proc!NoStaleKill, Proc!RegisteredIsWaited
<1>2. ASSUME NEW r \in Runs, NEW kind \in Proc!Kinds, Proc!Start(r, kind) PROVE ProcessesInv'
  <2> DEFINE p == <<r, kind>>
  <2>1. /\ call[p] = "none" /\ loop = {} /\ call' = [call EXCEPT ![p] = "waiting"]
        /\ child' = [child EXCEPT ![p] = TRUE]
        /\ registry' = (IF kind \in Proc!Tagged THEN registry \cup {p} ELSE registry)
        /\ loop' = (IF kind = "tool" THEN {r} ELSE loop)
        /\ UNCHANGED <<app, apps, procCrashes, astray, stale>>
    BY <1>2 DEF Proc!Start, Proc!Held, Proc!Free
  <2>2. p \in Proc!Pairs
    BY <1>0
  <2>3. ProcessesTyped' /\ AppKnown' /\ Proc!NoStaleKill'
    BY <2>1, <2>2 DEF AppKnown, Proc!NoStaleKill
  <2>4. \A q \in Proc!Pairs : /\ call'[q] = (IF q = p THEN "waiting" ELSE call[q])
                              /\ child'[q] = (IF q = p THEN TRUE ELSE child[q])
    BY <2>1, <2>2
  <2>5. Proc!EachIsWaitedFor' /\ Proc!RegisteredIsWaited'
    <3>1. p[2] = kind
      OBVIOUS
    <3>2. \A q \in registry' : q \in Proc!Pairs /\ (q = p \/ q \in registry) /\ q[2] \in Proc!Tagged
      BY <2>1, <2>2, <3>1 DEF Proc!RegisteredIsWaited
    <3> QED
      BY <2>1, <2>4, <3>2 DEF Proc!EachIsWaitedFor, Proc!RegisteredIsWaited
  <2>6. \A x \in Runs : call[<<x, "tool">>] # "waiting"
    BY <2>1 DEF ToolHoldsLoop
  <2>7. ASSUME NEW x \in Runs, call'[<<x, "tool">>] = "waiting" PROVE loop' = {x}
    <3>1. <<x, "tool">> = p
      BY <1>0, <1>k, <2>4, <2>6, <2>7
    <3>2. x = r /\ kind = "tool"
      BY <3>1
    <3> QED
      BY <2>1, <3>2
  <2> QED
    BY <2>3, <2>5, <2>7 DEF ToolHoldsLoop
<1>3. ASSUME NEW r \in Runs, NEW kind \in Proc!Kinds, Proc!Exit(r, kind) PROVE ProcessesInv'
  <2>1. /\ child' = [child EXCEPT ![<<r, kind>>] = FALSE] /\ astray' = astray \ {<<r, kind>>}
        /\ UNCHANGED <<call, registry, loop, app, apps, procCrashes, stale>>
    BY <1>3 DEF Proc!Exit
  <2>2. \A q \in Proc!Pairs : child'[q] = (IF q = <<r, kind>> THEN FALSE ELSE child[q])
    BY <2>1
  <2>3. Proc!EachIsWaitedFor'
    BY <2>1, <2>2 DEF Proc!EachIsWaitedFor
  <2>4. ProcessesTyped'
    BY <2>1
  <2>5. ToolHoldsLoop' /\ AppKnown' /\ Proc!NoStaleKill' /\ Proc!RegisteredIsWaited'
    BY <2>1 DEF ToolHoldsLoop, AppKnown, Proc!NoStaleKill, Proc!RegisteredIsWaited
  <2> QED
    BY <2>3, <2>4, <2>5
<1>4. ASSUME NEW r \in Runs, NEW kind \in Proc!Kinds, Proc!Return(r, kind) PROVE ProcessesInv'
  <2> DEFINE p == <<r, kind>>
  <2>1. /\ call[p] = "waiting" /\ ~child[p] /\ call' = [call EXCEPT ![p] = "none"]
        /\ registry' = registry \ {p} /\ loop' = (IF kind = "tool" THEN {} ELSE loop)
        /\ UNCHANGED <<child, app, apps, procCrashes, astray, stale>>
    BY <1>4 DEF Proc!Return, Proc!Free
  <2>2. p \in Proc!Pairs /\ \A q \in Proc!Pairs : call'[q] = IF q = p THEN "none" ELSE call[q]
    BY <1>0, <2>1
  <2>3. ProcessesTyped' /\ AppKnown' /\ Proc!NoStaleKill'
    BY <2>1 DEF AppKnown, Proc!NoStaleKill
  <2>4. Proc!EachIsWaitedFor' /\ Proc!RegisteredIsWaited'
    BY <2>1, <2>2 DEF Proc!EachIsWaitedFor, Proc!RegisteredIsWaited
  <2>5. ASSUME NEW x \in Runs, call'[<<x, "tool">>] = "waiting" PROVE loop' = {x}
    <3>1. <<x, "tool">> # p /\ call[<<x, "tool">>] = "waiting"
      BY <1>0, <1>k, <2>2, <2>5
    <3>2. loop = {x}
      BY <3>1 DEF ToolHoldsLoop
    <3>3. kind = "tool" => x = r
      BY <2>1, <3>2 DEF ToolHoldsLoop
    <3> QED
      BY <2>1, <3>1, <3>2, <3>3
  <2> QED
    BY <2>3, <2>4, <2>5 DEF ToolHoldsLoop
<1>5. ASSUME NEW r \in Runs, Proc!Cancel(r) PROVE ProcessesInv'
  <2> DEFINE p == <<r, "tests">>
             others == registry \ {p}
             hit == Proc!Terminated(others, r)
  <2>1. /\ loop = {} /\ registry' = others \ hit
        /\ child' = [q \in Proc!Pairs |-> child[q] /\ q \notin hit]
        /\ stale' = (stale \/ {q \in hit : ~child[q]} # {})
        /\ astray' = astray \cup {q \in {p} : child[q]}
        /\ call' = [call EXCEPT ![p] = "none"]
        /\ UNCHANGED <<loop, app, apps, procCrashes>>
    BY <1>5 DEF Proc!Cancel, Proc!Free
  <2>2. hit = {}
    <3> SUFFICES ASSUME NEW q \in hit PROVE FALSE
      OBVIOUS
    <3>1. q \in registry /\ q # p /\ q[1] = r /\ q \in Proc!Pairs
      BY DEF Proc!Terminated
    <3>2. q[2] = "tool" /\ call[q] = "waiting"
      BY <3>1 DEF Proc!RegisteredIsWaited, Proc!Tagged, Proc!Pairs
    <3>3. q = <<r, "tool">>
      BY <3>1, <3>2 DEF Proc!Pairs
    <3> QED
      BY <2>1, <3>2, <3>3 DEF ToolHoldsLoop
  <2>3. p \in Proc!Pairs /\ \A q \in Proc!Pairs : call'[q] = IF q = p THEN "none" ELSE call[q]
    BY <1>0, <1>k, <2>1
  <2>4. registry' = registry \ {p} /\ child' = child /\ Proc!NoStaleKill'
    BY <2>1, <2>2 DEF Proc!NoStaleKill
  <2>5. ProcessesTyped' /\ AppKnown'
    BY <2>1, <2>4 DEF AppKnown
  <2>6. Proc!EachIsWaitedFor' /\ Proc!RegisteredIsWaited'
    BY <2>1, <2>3, <2>4 DEF Proc!EachIsWaitedFor, Proc!RegisteredIsWaited
  <2>7. ToolHoldsLoop'
    BY <1>0, <1>k, <2>1, <2>3 DEF ToolHoldsLoop
  <2> QED
    BY <2>4, <2>5, <2>6, <2>7
<1>6. CASE Proc!StartApp
  <2>1. AppKnown'
    BY <1>6 DEF Proc!StartApp, AppKnown
  <2> QED
    BY <1>1, <1>6, <2>1 DEF Proc!StartApp
<1>7. ASSUME NEW n, Proc!EndApp(n) PROVE ProcessesInv'
  <2>1. AppKnown'
    BY <1>7 DEF Proc!EndApp, AppKnown
  <2> QED
    BY <1>1, <1>7, <2>1 DEF Proc!EndApp
<1>8. CASE Proc!Crash
  <2>1. /\ call' = [p \in Proc!Pairs |-> "none"] /\ registry' = {}
        /\ astray' = {p \in Proc!Pairs : child[p]} /\ procCrashes' = procCrashes + 1
        /\ UNCHANGED <<child, stale>>
    BY <1>8 DEF Proc!Crash
  <2> QED
    BY <1>0, <1>k, <2>1 DEF ToolHoldsLoop, AppKnown, Proc!EachIsWaitedFor, Proc!NoStaleKill,
       Proc!RegisteredIsWaited
<1>9. ASSUME UNCHANGED <<call, child, registry, loop, app, apps, procCrashes, astray, stale>>
      PROVE  ProcessesInv'
  BY <1>1, <1>9 DEF AppKnown
<1>10. ASSUME NEW r \in Runs, Proc!Finalize(r) \/ Proc!Close(r) \/ Proc!Resume(r) PROVE ProcessesInv'
  BY <1>9, <1>10 DEF Proc!Finalize, Proc!Close, Proc!Resume
<1> QED
  BY <1>2, <1>3, <1>4, <1>5, <1>6, <1>7, <1>8, <1>9, <1>10 DEF Proc!Next, processes

\* Module Processes counts as this module does.
LEMMA ProcCount == \A S : Proc!Cardinality(S) = Cardinality(S)
BY Zenon DEF Proc!Cardinality, Cardinality

LEMMA ProcessesFollow == ASSUME ProcessesInv PROVE Proc!ProcessesSound
<1>1. procCrashes = 0 => Cardinality(apps) <= 1
  <2>1. CASE procCrashes = 0
    <3>1. apps = {} \/ apps = {app}
      BY <2>1 DEF ProcessesInv, AppKnown
    <3>2. Cardinality({}) = 0 /\ Cardinality({app}) = 1
      BY FS_EmptySet, FS_Singleton
    <3> QED
      BY <3>1, <3>2
  <2> QED
    BY <2>1
<1> QED
  BY <1>1, ProcCount DEF ProcessesInv, Proc!ProcessesSound, Proc!OneApp

-----------------------------------------------------------------------------
(* What runs share without saying so. *)

Knobs == {"ambient", Pinned} \cup UNION {{Values[j][k] : k \in 1..Len(Values[j])} : j \in Jobs}
JobPlaces == {"idle", "arm", "set", "run", "ran"}
JobStates ==
    [pc : JobPlaces, arm : Nat \ {0}, baseline : Knobs, prev : Knobs, value : Knobs]

AmbientTyped ==
    /\ started \in [Runs -> {"idle", "running", "done"}]
    /\ knob \in Knobs
    /\ arms \in [Jobs -> JobStates]
    /\ alone \subseteq Runs

\* Nothing was configured since the runs of alone were started.
AloneConfigured == \A r \in alone : conf = Tier[r]

\* A tool that holds the loop found no path, and set none unless it has packages.
PathOfTool ==
    /\ tool = Around!Nobody => path = <<>>
    /\ tool # Around!Nobody =>
          \E r \in Runs : tool = [owner |-> {r}, prev |-> <<>>] /\ (r \notin deps => path = <<>>)
    /\ command.kind = "tool" => \A k \in DOMAIN command.path : command.path[k] \in command.of
    /\ command.kind = "install" => command.path = <<>>

\* As long as no two comparisons overlapped: the one under way found the knob as it was,
\* and the knob is where its place says.
OneJob == \A i, j \in Jobs : arms[i].pc # "idle" /\ arms[j].pc # "idle" => i = j
KnobOfJob == \A j \in Jobs :
    /\ arms[j].pc # "idle" => arms[j].baseline = "ambient"
    /\ arms[j].pc \in {"set", "run", "ran"} => arms[j].prev = "ambient" /\ knob = Around!Value(j)
    /\ arms[j].pc \in {"run", "ran"} =>
            arms[j].value = (IF Around!Value(j) = "ambient" THEN Pinned ELSE Around!Value(j))
KnobAtRest == (\A j \in Jobs : arms[j].pc \in {"idle", "arm"}) => knob = "ambient"
KnobsApart == ~overlapped => OneJob /\ KnobOfJob /\ KnobAtRest

AmbientInv == AmbientTyped /\ AloneConfigured /\ PathOfTool /\ KnobsApart

LEMMA AmbientBegins == ASSUME Around!Init PROVE AmbientInv
<1>1. "ambient" \in Knobs /\ 1 \in Nat \ {0}
  BY DEF Knobs
<1>2. AmbientTyped
  BY <1>1 DEF AmbientTyped, JobStates, Around!Init, Around!IdleJob, JobPlaces
<1>3. \A j \in Jobs : arms[j].pc = "idle"
  BY DEF Around!Init, Around!IdleJob
<1>4. AloneConfigured /\ PathOfTool
  BY DEF Around!Init, AloneConfigured, PathOfTool, Around!Nobody, Around!NoCommand
<1>5. KnobsApart
  BY <1>3 DEF Around!Init, KnobsApart, OneJob, KnobOfJob, KnobAtRest
<1> QED
  BY <1>2, <1>4, <1>5 DEF AmbientInv

\* A step of a run leaves the comparisons as they are, and one of a comparison the path.
LEMMA JobsLeft ==
    ASSUME KnobsApart, UNCHANGED <<knob, arms, overlapped>> PROVE KnobsApart'
<1>1. \A j \in Jobs : Around!Value(j)' = Around!Value(j)
  BY DEF Around!Value, Around!Arm
<1> QED
  BY <1>1 DEF KnobsApart, OneJob, KnobOfJob, KnobAtRest

LEMMA PathLeft ==
    ASSUME PathOfTool, UNCHANGED <<started, deps, path, tool, commands, command>> PROVE PathOfTool'
BY DEF PathOfTool

LEMMA AmbientKept == ASSUME AmbientInv, [Around!Next]_ambience PROVE AmbientInv'
<1> USE DEF AmbientInv
<1>1. ASSUME NEW r \in Runs, Around!Start(r) PROVE AmbientInv'
  <2>1. KnobsApart'
    BY <1>1, JobsLeft DEF Around!Start, Around!job_vars
  <2>2. PathOfTool'
    BY <1>1 DEF Around!Start, PathOfTool
  <2> QED
    BY <1>1, <2>1, <2>2 DEF Around!Start, Around!job_vars, AmbientTyped, AloneConfigured
<1>2. ASSUME NEW r \in Runs, Around!End(r) PROVE AmbientInv'
  <2>1. KnobsApart'
    BY <1>2, JobsLeft DEF Around!End, Around!job_vars
  <2>2. PathOfTool'
    BY <1>2 DEF Around!End, PathOfTool
  <2> QED
    BY <1>2, <2>1, <2>2 DEF Around!End, Around!job_vars, AmbientTyped, AloneConfigured
<1>3. ASSUME NEW r \in Runs, Around!Tool(r) PROVE AmbientInv'
  <2>1. KnobsApart' /\ AmbientTyped' /\ AloneConfigured'
    BY <1>3, JobsLeft DEF Around!Tool, Around!job_vars, AmbientTyped, AloneConfigured
  <2>2. /\ path = <<>> /\ tool' = [owner |-> {r}, prev |-> path] /\ deps' = deps
        /\ path' = (IF r \in deps THEN <<r>> \o path ELSE path)
        /\ command'.kind = "tool" /\ command'.of = {r} /\ command'.path = path'
    BY <1>3 DEF Around!Tool, Around!Spawn, Around!LoopFree, PathOfTool
  <2>3. \A k \in DOMAIN path' : path'[k] \in {r}
    BY <2>2
  <2>4. tool' # Around!Nobody /\ tool' = [owner |-> {r}, prev |-> <<>>] /\ (r \notin deps' => path' = <<>>)
    BY <2>2 DEF Around!Nobody
  <2>5. PathOfTool'
    BY <2>2, <2>3, <2>4 DEF PathOfTool
  <2> QED
    BY <2>1, <2>5
<1>4. CASE Around!ToolEnds
  <2>1. KnobsApart' /\ AmbientTyped' /\ AloneConfigured'
    BY <1>4, JobsLeft DEF Around!ToolEnds, Around!job_vars, AmbientTyped, AloneConfigured
  <2>2. /\ tool # Around!Nobody /\ tool' = Around!Nobody /\ UNCHANGED <<command, deps>>
        /\ path' = (IF tool.owner \subseteq deps THEN tool.prev ELSE path)
    BY <1>4 DEF Around!ToolEnds, Around!LoopFree, Around!Restored
  <2>3. PICK r \in Runs : tool = [owner |-> {r}, prev |-> <<>>] /\ (r \notin deps => path = <<>>)
    BY <2>2 DEF PathOfTool
  <2>4. path' = <<>>
    BY <2>2, <2>3
  <2>5. PathOfTool'
    BY <2>2, <2>4 DEF PathOfTool
  <2> QED
    BY <2>1, <2>5
<1>5. ASSUME NEW r \in Runs, Around!Install(r) PROVE AmbientInv'
  <2>1. KnobsApart' /\ AmbientTyped' /\ AloneConfigured'
    BY <1>5, JobsLeft DEF Around!Install, Around!job_vars, AmbientTyped, AloneConfigured
  <2>2. PathOfTool'
    BY <1>5 DEF Around!Install, Around!Spawn, Around!LoopFree, PathOfTool
  <2> QED
    BY <2>1, <2>2
<1>6. ASSUME NEW r \in Runs, Around!Check(r) PROVE AmbientInv'
  <2>1. KnobsApart' /\ AmbientTyped' /\ AloneConfigured'
    BY <1>6, JobsLeft DEF Around!Check, Around!job_vars, AmbientTyped, AloneConfigured
  <2>2. PathOfTool'
    BY <1>6 DEF Around!Check, Around!Spawn, PathOfTool
  <2> QED
    BY <2>1, <2>2
\* A step of comparison j.
<1>7. ASSUME NEW j \in Jobs, UNCHANGED Around!run_vars, \A i \in Jobs \ {j} : arms'[i] = arms[i],
             AmbientTyped', (conf' = conf /\ alone' = alone) \/ alone' = {},
             ~overlapped' => /\ ~overlapped
                             /\ KnobOfJob' /\ OneJob' /\ KnobAtRest'
      PROVE  AmbientInv'
  <2>1. PathOfTool'
    BY <1>7, PathLeft DEF Around!run_vars
  <2> QED
    BY <1>7, <2>1 DEF AloneConfigured, KnobsApart
<1>8. ASSUME NEW j \in Jobs, Around!Compare(j) PROVE AmbientInv'
  <2>1. /\ arms[j].pc = "idle" /\ arms' = [arms EXCEPT ![j].pc = "arm", ![j].baseline = knob]
        /\ overlapped' = (overlapped \/ \E i \in Jobs : arms[i].pc # "idle")
        /\ UNCHANGED <<Around!run_vars, conf, alone, knob>>
    BY <1>8 DEF Around!Compare
  <2>2. AmbientTyped'
    <3>1. arms' \in [Jobs -> JobStates]
      <4>1. arms' = [arms EXCEPT ![j] = [arms[j] EXCEPT !.pc = "arm", !.baseline = knob]]
        BY <2>1 DEF AmbientTyped, JobStates
      <4>2. [arms[j] EXCEPT !.pc = "arm", !.baseline = knob] \in JobStates
        BY DEF AmbientTyped, JobStates, JobPlaces
      <4> QED
        BY <4>1, <4>2 DEF AmbientTyped
    <3> QED
      BY <2>1, <3>1 DEF AmbientTyped, Around!run_vars
  <2>3. /\ arms'[j].pc = "arm" /\ arms'[j].baseline = knob
        /\ \A i \in Jobs \ {j} : arms'[i] = arms[i]
    BY <2>1 DEF AmbientTyped, JobStates
  <2>4. ASSUME ~overlapped' PROVE ~overlapped /\ KnobOfJob' /\ OneJob' /\ KnobAtRest'
    <3>1. ~overlapped /\ \A i \in Jobs : arms[i].pc = "idle"
      BY <2>1, <2>4
    <3>2. knob = "ambient"
      BY <3>1 DEF KnobsApart, KnobAtRest
    <3> QED
      BY <2>1, <2>3, <3>1, <3>2 DEF KnobOfJob, OneJob, KnobAtRest
  <2> QED
    BY <1>7, <2>1, <2>2, <2>3, <2>4
\* The others are idle while comparison j is not, if no two overlapped.
<1>9. ASSUME NEW j \in Jobs, ~overlapped, arms[j].pc # "idle"
      PROVE  KnobOfJob /\ OneJob /\ KnobAtRest /\ \A i \in Jobs \ {j} : arms[i].pc = "idle"
  BY <1>9 DEF KnobsApart, OneJob
<1>10. ASSUME NEW j \in Jobs, Around!Override(j) PROVE AmbientInv'
  <2>1. /\ arms[j].pc = "arm" /\ arms[j].arm <= Len(Values[j]) /\ knob' = Values[j][arms[j].arm]
        /\ arms' = [arms EXCEPT ![j].pc = "set", ![j].prev = knob]
        /\ UNCHANGED <<Around!run_vars, conf, alone, overlapped>>
    BY <1>10 DEF Around!Override, Around!Value, Around!Arm
  <2>2. AmbientTyped'
    <3>1. arms[j].arm \in 1..Len(Values[j])
      BY <2>1, AmbientAssumption DEF AmbientTyped, JobStates
    <3>2. knob' \in Knobs
      BY <2>1, <3>1 DEF Knobs
    <3> QED
      <4>1. arms' \in [Jobs -> JobStates]
        <5>1. arms' = [arms EXCEPT ![j] = [arms[j] EXCEPT !.pc = "set", !.prev = knob]]
          BY <2>1 DEF AmbientTyped, JobStates
        <5>2. [arms[j] EXCEPT !.pc = "set", !.prev = knob] \in JobStates
          BY DEF AmbientTyped, JobStates, JobPlaces
        <5> QED
          BY <5>1, <5>2 DEF AmbientTyped
      <4> QED
        BY <2>1, <3>2, <4>1 DEF AmbientTyped, Around!run_vars
  <2>3. /\ arms'[j].pc = "set" /\ arms'[j].prev = knob /\ arms'[j].baseline = arms[j].baseline
        /\ arms'[j].arm = arms[j].arm
        /\ \A i \in Jobs \ {j} : arms'[i] = arms[i]
    BY <2>1 DEF AmbientTyped, JobStates
  <2>4. ASSUME ~overlapped' PROVE ~overlapped /\ KnobOfJob' /\ OneJob' /\ KnobAtRest'
    <3>1. /\ ~overlapped /\ KnobOfJob /\ KnobAtRest
          /\ \A i \in Jobs \ {j} : arms[i].pc = "idle"
      BY <1>9, <2>1, <2>4
    <3>2. knob = "ambient"
      BY <2>1, <3>1 DEF KnobAtRest
    <3>3. Around!Value(j)' = knob'
      BY <2>1, <2>3 DEF Around!Value, Around!Arm
    <3>4. KnobOfJob'
      <4>1. arms'[j].baseline = "ambient"
        BY <2>1, <2>3, <3>1 DEF KnobOfJob
      <4>2. \A i \in Jobs \ {j} : arms'[i].pc = "idle"
        BY <2>3, <3>1
      <4> QED
        BY <2>3, <3>2, <3>3, <4>1, <4>2 DEF KnobOfJob
    <3> QED
      BY <2>3, <3>1, <3>4 DEF OneJob, KnobAtRest
  <2> QED
    BY <1>7, <2>1, <2>2, <2>3, <2>4
<1>11. ASSUME NEW j \in Jobs, Around!Load(j) PROVE AmbientInv'
  <2>1. /\ arms[j].pc = "set"
        /\ arms' = [arms EXCEPT ![j].pc = "run",
                                ![j].value = IF knob = arms[j].baseline THEN Pinned ELSE knob]
        /\ UNCHANGED <<Around!run_vars, conf, alone, knob, overlapped>>
    BY <1>11 DEF Around!Load
  <2>2. AmbientTyped'
    <3>1. Pinned \in Knobs
      BY DEF Knobs
    <3> QED
      <4>1. arms' \in [Jobs -> JobStates]
        <5>1. arms' = [arms EXCEPT ![j] = [arms[j] EXCEPT !.pc = "run", !.value = IF knob = arms[j].baseline THEN Pinned ELSE knob]]
          BY <2>1 DEF AmbientTyped, JobStates
        <5>2. [arms[j] EXCEPT !.pc = "run", !.value = IF knob = arms[j].baseline THEN Pinned ELSE knob] \in JobStates
          BY <3>1 DEF AmbientTyped, JobStates, JobPlaces
        <5> QED
          BY <5>1, <5>2 DEF AmbientTyped
      <4> QED
        BY <2>1, <4>1 DEF AmbientTyped, Around!run_vars
  <2>3. /\ arms'[j].pc = "run" /\ arms'[j].prev = arms[j].prev /\ arms'[j].baseline = arms[j].baseline
        /\ arms'[j].arm = arms[j].arm
        /\ arms'[j].value = (IF knob = arms[j].baseline THEN Pinned ELSE knob)
        /\ \A i \in Jobs \ {j} : arms'[i] = arms[i]
    BY <2>1 DEF AmbientTyped, JobStates
  <2>4. ASSUME ~overlapped' PROVE ~overlapped /\ KnobOfJob' /\ OneJob' /\ KnobAtRest'
    <3>1. ~overlapped /\ KnobOfJob /\ \A i \in Jobs \ {j} : arms[i].pc = "idle"
      BY <1>9, <2>1, <2>4
    <3>2. Around!Value(j)' = Around!Value(j)
      BY <2>3 DEF Around!Value, Around!Arm
    <3>3. arms[j].baseline = "ambient" /\ arms[j].prev = "ambient" /\ knob = Around!Value(j)
      BY <2>1, <3>1 DEF KnobOfJob
    <3>4. KnobOfJob'
      <4>1. \A i \in Jobs \ {j} : arms'[i].pc = "idle"
        BY <2>3, <3>1
      <4>2. knob' = knob
        BY <2>1
      <4> QED
        BY <2>3, <3>2, <3>3, <4>1, <4>2 DEF KnobOfJob
    <3> QED
      BY <2>3, <3>1, <3>4 DEF OneJob, KnobAtRest
  <2> QED
    BY <1>7, <2>1, <2>2, <2>3, <2>4
<1>12. ASSUME NEW j \in Jobs, Around!RunArm(j) PROVE AmbientInv'
  <2>1. /\ arms[j].pc = "run" /\ arms' = [arms EXCEPT ![j].pc = "ran"] /\ alone' = {}
        /\ UNCHANGED <<Around!run_vars, knob, overlapped>>
    BY <1>12 DEF Around!RunArm
  <2>2. AmbientTyped'
    <3>1. arms' \in [Jobs -> JobStates]
      BY <2>1 DEF AmbientTyped, JobStates, JobPlaces
    <3> QED
      BY <2>1, <3>1 DEF AmbientTyped, Around!run_vars
  <2>3. /\ arms'[j].pc = "ran" /\ arms'[j].prev = arms[j].prev /\ arms'[j].baseline = arms[j].baseline
        /\ arms'[j].arm = arms[j].arm /\ arms'[j].value = arms[j].value
        /\ \A i \in Jobs \ {j} : arms'[i] = arms[i]
    BY <2>1 DEF AmbientTyped, JobStates
  <2>4. ASSUME ~overlapped' PROVE ~overlapped /\ KnobOfJob' /\ OneJob' /\ KnobAtRest'
    <3>1. ~overlapped /\ KnobOfJob /\ \A i \in Jobs \ {j} : arms[i].pc = "idle"
      BY <1>9, <2>1, <2>4
    <3>2. Around!Value(j)' = Around!Value(j)
      BY <2>3 DEF Around!Value, Around!Arm
    <3>3. /\ arms[j].baseline = "ambient" /\ arms[j].prev = "ambient" /\ knob = Around!Value(j)
          /\ arms[j].value = (IF Around!Value(j) = "ambient" THEN Pinned ELSE Around!Value(j))
      BY <2>1, <3>1 DEF KnobOfJob
    <3>4. KnobOfJob'
      <4>1. \A i \in Jobs \ {j} : arms'[i].pc = "idle"
        BY <2>3, <3>1
      <4>2. knob' = knob
        BY <2>1
      <4> QED
        BY <2>3, <3>2, <3>3, <4>1, <4>2 DEF KnobOfJob
    <3> QED
      BY <2>3, <3>1, <3>4 DEF OneJob, KnobAtRest
  <2> QED
    BY <1>7, <2>1, <2>2, <2>3, <2>4
<1>13. ASSUME NEW j \in Jobs, Around!Restore(j) PROVE AmbientInv'
  <2>1. /\ arms[j].pc \in {"set", "run", "ran"} /\ knob' = arms[j].prev
        /\ arms' = [arms EXCEPT ![j].pc = IF @ = "ran" THEN "arm" ELSE "idle", ![j].arm = @ + 1]
        /\ UNCHANGED <<Around!run_vars, conf, alone, overlapped>>
    BY <1>13 DEF Around!Restore
  <2>2. AmbientTyped'
    <3>1. arms' \in [Jobs -> JobStates]
      BY <2>1 DEF AmbientTyped, JobStates, JobPlaces
    <3>2. arms[j].prev \in Knobs
      BY DEF AmbientTyped, JobStates
    <3> QED
      BY <2>1, <3>1, <3>2 DEF AmbientTyped, Around!run_vars
  <2>3. /\ arms'[j].pc \in {"arm", "idle"} /\ arms'[j].baseline = arms[j].baseline
        /\ \A i \in Jobs \ {j} : arms'[i] = arms[i]
    BY <2>1 DEF AmbientTyped, JobStates
  <2>4. ASSUME ~overlapped' PROVE ~overlapped /\ KnobOfJob' /\ OneJob' /\ KnobAtRest'
    <3>1. ~overlapped /\ KnobOfJob /\ \A i \in Jobs \ {j} : arms[i].pc = "idle"
      BY <1>9, <2>1, <2>4
    <3>2. knob' = "ambient"
      BY <2>1, <3>1 DEF KnobOfJob
    <3>3. arms[j].baseline = "ambient"
      BY <2>1, <3>1 DEF KnobOfJob
    <3>4. KnobOfJob'
      BY <2>3, <3>1, <3>3 DEF KnobOfJob
    <3> QED
      BY <2>3, <3>1, <3>2, <3>4 DEF OneJob, KnobAtRest
  <2> QED
    BY <1>7, <2>1, <2>2, <2>3, <2>4
<1>14. ASSUME NEW j \in Jobs, Around!Compared(j) PROVE AmbientInv'
  <2>1. /\ arms[j].pc = "arm" /\ arms' = [arms EXCEPT ![j].pc = "idle"]
        /\ UNCHANGED <<Around!run_vars, conf, alone, knob, overlapped>>
    BY <1>14 DEF Around!Compared
  <2>2. AmbientTyped'
    <3>1. arms' \in [Jobs -> JobStates]
      BY <2>1 DEF AmbientTyped, JobStates, JobPlaces
    <3> QED
      BY <2>1, <3>1 DEF AmbientTyped, Around!run_vars
  <2>3. arms'[j].pc = "idle" /\ \A i \in Jobs \ {j} : arms'[i] = arms[i]
    BY <2>1 DEF AmbientTyped, JobStates
  <2>4. ASSUME ~overlapped' PROVE ~overlapped /\ KnobOfJob' /\ OneJob' /\ KnobAtRest'
    <3>1. ~overlapped /\ KnobAtRest /\ \A i \in Jobs \ {j} : arms[i].pc = "idle"
      BY <1>9, <2>1, <2>4
    <3> QED
      BY <2>1, <2>3, <3>1 DEF KnobOfJob, OneJob, KnobAtRest
  <2> QED
    BY <1>7, <2>1, <2>2, <2>3, <2>4
<1>15. CASE UNCHANGED ambience
  <2>1. KnobsApart' /\ PathOfTool'
    BY <1>15, JobsLeft, PathLeft DEF ambience
  <2> QED
    BY <1>15, <2>1 DEF ambience, AmbientTyped, AloneConfigured
<1> QED
  BY <1>1, <1>2, <1>3, <1>4, <1>5, <1>6, <1>8, <1>10, <1>11, <1>12, <1>13, <1>14, <1>15
     DEF Around!Next

LEMMA AmbientFollows == ASSUME AmbientInv PROVE Around!AmbientSound
<1>1. Around!AloneInOwnTier /\ Around!PathIsOwn
  BY DEF AmbientInv, AloneConfigured, PathOfTool, Around!AloneInOwnTier, Around!PathIsOwn,
     Around!LoopFree
<1>2. Around!KnobIsOwn
  BY DEF AmbientInv, KnobsApart, KnobOfJob, KnobAtRest, Around!KnobIsOwn
<1> QED
  BY <1>1, <1>2 DEF Around!AmbientSound

-----------------------------------------------------------------------------
(* The subscriptions of browsers and the key pair. *)

Subscription == [endpoint : Browsers, key : Nat]
Prunes == [at : {"prune"}, listed : SUBSET Subscription, gone : SUBSET Browsers]
Saves  == [at : {"save", "fill"}, subs : SUBSET Subscription, members : SUBSET Browsers,
           then : {Subs!Idle} \cup Prunes]
Keys   == [at : {"mint", "keep", "key"}, goal : {"status", "send"}, key : Nat]
Sends  == [at : {"send"}, key : Nat, listed : SUBSET Subscription,
           todo : SUBSET Subscription, gone : SUBSET Browsers]

PushTyped ==
    /\ subs \subseteq Subscription /\ members \subseteq Browsers
    /\ handed \subseteq Nat /\ key \in Nat /\ minted \in Nat
    /\ op \in [Subs!Actors -> {Subs!Idle} \cup Saves \cup Keys \cup Sends \cup Prunes]

Rewrites(a) == op[a].at \in {"save", "fill"}
Mints(t)    == op[t].at \in {"mint", "keep"}

\* Until rewrites meet, there is one at a time, what it writes is what is to be on file, and
\* without one that is on file.
OneRewrite == ~clash =>
    /\ \A a, b \in Subs!Actors : Rewrites(a) /\ Rewrites(b) => a = b
    /\ \A a \in Subs!Actors :
          Rewrites(a) => Subs!Endpoints(op[a].subs) = members \cup op[a].members
    /\ (\A a \in Subs!Actors : ~Rewrites(a)) => Subs!Endpoints(Subs!Listed) = members

\* Until two threads make the pair at once, there is one on file before anybody has a key or
\* a subscription, and theirs is that one.
OneKey == ~keyRace =>
    /\ \A t, u \in Threads : Mints(t) /\ Mints(u) => t = u
    /\ \A t \in Threads : Mints(t) => keyFile # "whole"
    /\ \A t \in Threads : op[t].at = "key" => keyFile = "whole" /\ op[t].key = key
    /\ \A k \in handed : keyFile = "whole" /\ k = key
    /\ \A s \in subs : keyFile = "whole" /\ s.key = key
    /\ \A a \in Subs!Actors :
          Rewrites(a) => \A s \in op[a].subs : keyFile = "whole" /\ s.key = key

PushInv == PushTyped /\ OneRewrite /\ OneKey

LEMMA PushBegins == ASSUME Subs!Init PROVE PushInv
<1>1. PushTyped
  BY DEF Subs!Init, PushTyped
<1>2. \A a \in Subs!Actors : op[a].at = "idle"
  BY DEF Subs!Init, Subs!Idle
<1>3. Threads \subseteq Subs!Actors /\ handed = {} /\ subs = {} /\ members = {}
      /\ Subs!Listed = {}
  BY DEF Subs!Init, Subs!Actors, Subs!Listed
<1>4. OneRewrite
  BY <1>2, <1>3 DEF OneRewrite, Rewrites, Subs!Endpoints
<1>5. OneKey
  BY <1>2, <1>3 DEF OneKey, Rewrites, Mints
<1> QED
  BY <1>1, <1>4, <1>5 DEF PushInv

\* Whoever is doing a thing has the fields of it.
LEMMA PushShapes ==
    ASSUME PushTyped, NEW a \in Subs!Actors
    PROVE  /\ op[a].at \in {"save", "fill"} => op[a] \in Saves
           /\ op[a].at \in {"mint", "keep", "key"} => op[a] \in Keys
           /\ op[a].at = "send" => op[a] \in Sends
           /\ op[a].at = "prune" => op[a] \in Prunes
<1>1. op[a] \in {Subs!Idle} \cup Saves \cup Keys \cup Sends \cup Prunes
  BY DEF PushTyped
<1> QED
  BY <1>1 DEF Saves, Keys, Sends, Prunes, Subs!Idle

\* An actor that neither begins nor ends a rewrite.
LEMMA RewritesLeft ==
    ASSUME PushInv, NEW a \in Subs!Actors, NEW o, op' = [op EXCEPT ![a] = o],
           ~Rewrites(a), o.at \notin {"save", "fill"},
           UNCHANGED <<pushFile, subs, members>>, ~clash' => ~clash
    PROVE  OneRewrite'
<1>1. \A b \in Subs!Actors : op'[b] = IF b = a THEN o ELSE op[b]
  BY DEF PushInv, PushTyped
<1>2. \A b \in Subs!Actors : Rewrites(b)' <=> Rewrites(b)
  BY <1>1 DEF Rewrites
<1>3. Subs!Listed' = Subs!Listed
  BY DEF Subs!Listed
<1> QED
  BY <1>1, <1>2, <1>3 DEF PushInv, OneRewrite, Rewrites

\* An actor that gets no key and writes no subscription.
LEMMA KeysLeft ==
    ASSUME PushInv, NEW a \in Subs!Actors, NEW o, op' = [op EXCEPT ![a] = o],
           o.at \notin {"mint", "keep", "key"},
           ~keyRace /\ o.at \in {"save", "fill"} =>
              \A s \in o.subs : keyFile = "whole" /\ s.key = key,
           UNCHANGED <<subs, keyFile, key, handed, keyRace>>
    PROVE  OneKey'
<1>1. \A b \in Subs!Actors : op'[b] = IF b = a THEN o ELSE op[b]
  BY DEF PushInv, PushTyped
<1>2. Threads \subseteq Subs!Actors
  BY DEF Subs!Actors
<1>3. \A t \in Threads : (Mints(t)' => Mints(t) /\ t # a) /\ (op'[t].at = "key" => t # a)
  BY <1>1, <1>2 DEF Mints
<1>4. \A b \in Subs!Actors \ {a} : Rewrites(b)' <=> Rewrites(b)
  BY <1>1 DEF Rewrites
<1>5. Rewrites(a)' <=> o.at \in {"save", "fill"}
  BY <1>1 DEF Rewrites
<1> QED
  BY <1>1, <1>2, <1>3, <1>4, <1>5 DEF PushInv, OneKey

\* A rewrite begins: met by none, it is the only one.
LEMMA RewriteBegins ==
    ASSUME PushInv, NEW a \in Subs!Actors, NEW S \in SUBSET Subscription,
           NEW M \in SUBSET Browsers, NEW th \in {Subs!Idle} \cup Prunes,
           Subs!Save(a, S, M, th), ~Rewrites(a),
           UNCHANGED <<pushFile, subs, keyFile, key, minted, handed, keyRace>>,
           members' \in SUBSET Browsers,
           ~clash /\ (\A b \in Subs!Actors : ~Rewrites(b)) => Subs!Endpoints(S) = members' \cup M,
           ~keyRace => \A s \in S : keyFile = "whole" /\ s.key = key
    PROVE  PushInv'
<1> DEFINE o == [at |-> "save", subs |-> S, members |-> M, then |-> th]
<1>1. /\ op' = [op EXCEPT ![a] = o]
      /\ clash' = (clash \/ Subs!Rewriting # {})
  BY DEF Subs!Save
<1>2. o \in Saves /\ o.at = "save" /\ o.subs = S /\ o.members = M
  BY DEF Saves
<1> HIDE DEF o
<1>3. PushTyped'
  BY <1>1, <1>2 DEF PushInv, PushTyped
<1>4. \A b \in Subs!Actors : op'[b] = IF b = a THEN o ELSE op[b]
  BY <1>1 DEF PushInv, PushTyped
<1>5. OneKey'
  BY <1>1, <1>2, KeysLeft
<1>6. OneRewrite'
  <2> SUFFICES ASSUME ~clash' PROVE OneRewrite'
    BY DEF OneRewrite
  <2>1. ~clash /\ \A b \in Subs!Actors : ~Rewrites(b)
    BY <1>1 DEF Subs!Rewriting, Rewrites
  <2>2. \A b \in Subs!Actors : Rewrites(b)' <=> b = a
    BY <1>2, <1>4, <2>1 DEF Rewrites
  <2>3. Subs!Endpoints(op'[a].subs) = members' \cup op'[a].members
    BY <1>2, <1>4, <2>1
  <2> QED
    BY <2>2, <2>3 DEF OneRewrite
<1> QED
  BY <1>3, <1>5, <1>6 DEF PushInv

\* A removal, of an endpoint that is on file, or of one that is not.
LEMMA PushRemoves ==
    ASSUME PushInv, NEW a \in Subs!Actors, NEW e \in Browsers,
           NEW th \in {Subs!Idle} \cup Prunes, Subs!Remove(a, e, th), ~Rewrites(a)
    PROVE  PushInv'
<1>1. /\ Subs!Listed \subseteq subs /\ members' = members \ {e}
      /\ UNCHANGED <<pushFile, subs, keyFile, key, minted, handed, keyRace>>
  BY DEF Subs!Remove, Subs!Listed
<1>2. ~clash /\ (\A b \in Subs!Actors : ~Rewrites(b)) => Subs!Endpoints(Subs!Listed) = members
  BY DEF PushInv, OneRewrite
<1>3. CASE e \in Subs!Endpoints(Subs!Listed)
  <2> DEFINE S == {s \in Subs!Listed : s.endpoint # e}
  <2>1. Subs!Save(a, S, {}, th)
    BY <1>3 DEF Subs!Remove, Subs!Base
  <2>2. S \in SUBSET Subscription /\ {} \in SUBSET Browsers /\ members' \in SUBSET Browsers
    BY <1>1 DEF PushInv, PushTyped
  <2>3. Subs!Endpoints(S) = Subs!Endpoints(Subs!Listed) \ {e}
    BY DEF Subs!Endpoints
  <2>4. ~keyRace => \A s \in S : keyFile = "whole" /\ s.key = key
    BY <1>1 DEF PushInv, OneKey
  <2> HIDE DEF S
  <2> QED
    BY <1>1, <1>2, <2>1, <2>2, <2>3, <2>4, RewriteBegins
<1>4. CASE e \notin Subs!Endpoints(Subs!Listed)
  <2>1. op' = [op EXCEPT ![a] = th] /\ clash' = (clash \/ Subs!Rewriting # {})
    BY <1>4 DEF Subs!Remove, Subs!Base
  <2>2. th.at \notin {"save", "fill", "mint", "keep", "key"}
    BY DEF Prunes, Subs!Idle
  <2>3. PushTyped'
    BY <1>1, <2>1 DEF PushInv, PushTyped
  <2>4. OneKey'
    BY <1>1, <2>1, <2>2, KeysLeft
  <2>5. OneRewrite'
    <3> SUFFICES ASSUME ~clash' PROVE OneRewrite'
      BY DEF OneRewrite
    <3>1. ~clash /\ \A b \in Subs!Actors : ~Rewrites(b)
      BY <2>1 DEF Subs!Rewriting, Rewrites
    <3>2. members' = members
      BY <1>1, <1>2, <1>4, <3>1
    <3> QED
      BY <1>1, <2>1, <2>2, <3>1, <3>2, RewritesLeft
  <2> QED
    BY <2>3, <2>4, <2>5 DEF PushInv
<1> QED
  BY <1>3, <1>4

LEMMA PushSubscribes ==
    ASSUME PushInv, NEW e \in Browsers, Subs!Subscribe(e) PROVE PushInv'
<1>1. PICK k \in handed : Subs!Save(Subs!Loop,
         {s \in Subs!Listed : s.endpoint # e} \cup {[endpoint |-> e, key |-> k]}, {e}, Subs!Idle)
  BY DEF Subs!Subscribe
<1> DEFINE S == {s \in Subs!Listed : s.endpoint # e} \cup {[endpoint |-> e, key |-> k]}
<1>2. /\ Subs!Loop \in Subs!Actors /\ ~Rewrites(Subs!Loop)
      /\ UNCHANGED <<pushFile, subs, keyFile, key, minted, handed, members, keyRace>>
      /\ Subs!Listed \subseteq subs
  BY DEF Subs!Subscribe, Subs!Actors, Subs!Idle, Subs!Listed, Rewrites
<1>3. S \in SUBSET Subscription /\ {e} \in SUBSET Browsers /\ members' \in SUBSET Browsers
  BY <1>2 DEF PushInv, PushTyped, Subscription
<1>4. Subs!Endpoints(S) = Subs!Endpoints(Subs!Listed) \cup {e}
  <2> DEFINE new == [endpoint |-> e, key |-> k]
  <2>1. \A x : x \in Subs!Endpoints(S) <=>
               (\E s \in Subs!Listed : s.endpoint # e /\ s.endpoint = x) \/ x = new.endpoint
    BY DEF Subs!Endpoints
  <2>2. \A x : x \in Subs!Endpoints(Subs!Listed) <=> \E s \in Subs!Listed : s.endpoint = x
    BY DEF Subs!Endpoints
  <2> QED
    BY <2>1, <2>2
<1>5. ~keyRace => \A s \in S : keyFile = "whole" /\ s.key = key
  BY <1>2 DEF PushInv, OneKey
<1>6. ~clash /\ (\A b \in Subs!Actors : ~Rewrites(b)) =>
         Subs!Endpoints(S) = members' \cup {e}
  BY <1>2, <1>4 DEF PushInv, OneRewrite
<1> HIDE DEF S
<1>7. Subs!Save(Subs!Loop, S, {e}, Subs!Idle)
  BY <1>1 DEF S
<1> QED
  BY <1>2, <1>3, <1>5, <1>6, <1>7, RewriteBegins

\* The two steps of a rewrite.
LEMMA PushWrites ==
    ASSUME PushInv, NEW a \in Subs!Actors, Subs!Truncate(a) \/ Subs!Fill(a) PROVE PushInv'
<1>1. Rewrites(a) /\ op[a] \in Saves
  BY PushShapes DEF PushInv, Subs!Truncate, Subs!Fill, Rewrites
<1>2. ASSUME Subs!Truncate(a) PROVE PushInv'
  <2> DEFINE o == [op[a] EXCEPT !.at = "fill"]
  <2>1. /\ op' = [op EXCEPT ![a] = o]
        /\ UNCHANGED <<subs, keyFile, key, minted, handed, members, clash, keyRace>>
    BY <1>2 DEF Subs!Truncate
  <2>2. o \in Saves /\ o.at = "fill" /\ o.subs = op[a].subs /\ o.members = op[a].members
    BY <1>1 DEF Saves
  <2> HIDE DEF o
  <2>3. PushTyped'
    BY <2>1, <2>2 DEF PushInv, PushTyped
  <2>4. \A b \in Subs!Actors : op'[b] = IF b = a THEN o ELSE op[b]
    BY <2>1 DEF PushInv, PushTyped
  <2>5. OneKey'
    <3>1. ~keyRace => \A s \in o.subs : keyFile = "whole" /\ s.key = key
      BY <1>1, <2>2 DEF PushInv, OneKey
    <3> QED
      BY <2>1, <2>2, <3>1, KeysLeft
  <2>6. \A b \in Subs!Actors : Rewrites(b)' <=> Rewrites(b)
    BY <1>1, <2>2, <2>4 DEF Rewrites
  <2>7. OneRewrite'
    BY <1>1, <2>1, <2>2, <2>4, <2>6 DEF PushInv, OneRewrite
  <2> QED
    BY <2>3, <2>5, <2>7 DEF PushInv
<1>3. ASSUME Subs!Fill(a) PROVE PushInv'
  <2> DEFINE o == op[a].then
  <2>1. /\ op' = [op EXCEPT ![a] = o]
        /\ pushFile' \in IF clash THEN {"whole", "torn"} ELSE {"whole"}
        /\ subs' = IF pushFile' = "whole" THEN op[a].subs ELSE {}
        /\ members' = members \cup op[a].members
        /\ UNCHANGED <<keyFile, key, minted, handed, clash, keyRace>>
    BY <1>3 DEF Subs!Fill
  <2>2. /\ o \in {Subs!Idle} \cup Prunes
        /\ o.at \notin {"save", "fill", "mint", "keep", "key"}
        /\ op[a].subs \subseteq Subscription /\ op[a].members \subseteq Browsers
    BY <1>1 DEF Saves, Prunes, Subs!Idle
  <2> HIDE DEF o
  <2>3. PushTyped'
    BY <2>1, <2>2 DEF PushInv, PushTyped
  <2>4. \A b \in Subs!Actors : op'[b] = IF b = a THEN o ELSE op[b]
    BY <2>1 DEF PushInv, PushTyped
  <2>5. \A b \in Subs!Actors : Rewrites(b)' <=> Rewrites(b) /\ b # a
    BY <2>2, <2>4 DEF Rewrites
  <2>6. OneRewrite'
    <3> SUFFICES ASSUME ~clash PROVE OneRewrite'
      BY <2>1 DEF OneRewrite
    <3>1. \A b \in Subs!Actors : ~Rewrites(b)'
      BY <1>1, <2>5 DEF PushInv, OneRewrite
    <3>2. Subs!Listed' = op[a].subs
      BY <2>1 DEF Subs!Listed
    <3>3. Subs!Endpoints(op[a].subs) = members'
      BY <1>1, <2>1 DEF PushInv, OneRewrite
    <3>4. Subs!Endpoints(Subs!Listed)' = members'
      BY <3>2, <3>3 DEF Subs!Endpoints
    <3> QED
      BY <3>1, <3>4 DEF OneRewrite
  <2>7. OneKey'
    <3>1. Threads \subseteq Subs!Actors
      BY DEF Subs!Actors
    <3>2. \A t \in Threads : (Mints(t)' => Mints(t) /\ t # a) /\ (op'[t].at = "key" => t # a)
      BY <2>2, <2>4, <3>1 DEF Mints
    <3>3. ~keyRace => \A s \in subs' : keyFile = "whole" /\ s.key = key
      BY <1>1, <2>1 DEF PushInv, OneKey
    <3> QED
      BY <2>1, <2>4, <2>5, <3>1, <3>2, <3>3 DEF PushInv, OneKey
  <2> QED
    BY <2>3, <2>6, <2>7 DEF PushInv
<1> QED
  BY <1>2, <1>3

\* The key is looked up, and made when there is none.
LEMMA PushKeys ==
    ASSUME PushInv, NEW t \in Threads, NEW g \in {"status", "send"},
           Subs!NeedKey(t, g) \/ Subs!StoreKey(t)
    PROVE  PushInv'
<1>1. t \in Subs!Actors /\ Threads \subseteq Subs!Actors
  BY DEF Subs!Actors
<1>2. ASSUME NEW o \in Keys, op' = [op EXCEPT ![t] = o], ~Rewrites(t),
             UNCHANGED <<pushFile, subs, handed, members, clash>>,
             key' \in Nat, minted' \in Nat
      PROVE  /\ PushTyped' /\ OneRewrite'
             /\ \A b \in Subs!Actors : op'[b] = IF b = t THEN o ELSE op[b]
             /\ \A b \in Subs!Actors : Rewrites(b)' <=> Rewrites(b)
  <2>1. o.at \notin {"save", "fill"}
    BY DEF Keys
  <2>2. OneRewrite'
    BY <1>1, <1>2, <2>1, RewritesLeft
  <2>3. \A b \in Subs!Actors : op'[b] = IF b = t THEN o ELSE op[b]
    BY <1>1, <1>2 DEF PushInv, PushTyped
  <2>4. \A b \in Subs!Actors : Rewrites(b)' <=> Rewrites(b)
    BY <1>2, <2>1, <2>3 DEF Rewrites
  <2>5. PushTyped'
    BY <1>1, <1>2 DEF PushInv, PushTyped
  <2> QED
    BY <2>2, <2>3, <2>4, <2>5
<1>3. ASSUME Subs!NeedKey(t, g), keyFile = "whole" PROVE PushInv'
  <2> DEFINE o == [at |-> "key", goal |-> g, key |-> key]
  <2>1. /\ op' = [op EXCEPT ![t] = o] /\ op[t] = Subs!Idle
        /\ UNCHANGED <<pushFile, subs, keyFile, key, minted, handed, members, clash, keyRace>>
    BY <1>3 DEF Subs!NeedKey
  <2>2. o \in Keys /\ o.at = "key" /\ o.key = key
    BY DEF Keys, PushInv, PushTyped
  <2> HIDE DEF o
  <2>3. ~Rewrites(t) /\ key' \in Nat /\ minted' \in Nat
    BY <2>1 DEF Rewrites, Subs!Idle, PushInv, PushTyped
  <2>4. /\ PushTyped' /\ OneRewrite'
        /\ \A b \in Subs!Actors : op'[b] = IF b = t THEN o ELSE op[b]
        /\ \A b \in Subs!Actors : Rewrites(b)' <=> Rewrites(b)
    BY <1>2, <2>1, <2>2, <2>3
  <2>5. \A u \in Threads : Mints(u)' => Mints(u) /\ u # t
    BY <1>1, <2>2, <2>4 DEF Mints
  <2>6. OneKey'
    BY <1>1, <1>3, <2>1, <2>2, <2>3, <2>4, <2>5 DEF PushInv, OneKey
  <2> QED
    BY <2>4, <2>6 DEF PushInv
<1>4. ASSUME Subs!NeedKey(t, g), keyFile # "whole" PROVE PushInv'
  <2> DEFINE o == [at |-> "mint", goal |-> g, key |-> minted + 1]
  <2>1. /\ op' = [op EXCEPT ![t] = o] /\ op[t] = Subs!Idle /\ minted' = minted + 1
        /\ keyRace' = (keyRace \/ \E a \in Threads : op[a].at \in {"mint", "keep"})
        /\ UNCHANGED <<pushFile, subs, keyFile, key, handed, members, clash>>
    BY <1>4 DEF Subs!NeedKey
  <2>2. o \in Keys /\ o.at = "mint"
    BY DEF Keys, PushInv, PushTyped
  <2> HIDE DEF o
  <2>3. ~Rewrites(t) /\ key' \in Nat /\ minted' \in Nat
    BY <2>1 DEF Rewrites, Subs!Idle, PushInv, PushTyped
  <2>4. /\ PushTyped' /\ OneRewrite'
        /\ \A b \in Subs!Actors : op'[b] = IF b = t THEN o ELSE op[b]
        /\ \A b \in Subs!Actors : Rewrites(b)' <=> Rewrites(b)
    BY <1>2, <2>1, <2>2, <2>3
  <2>5. OneKey'
    <3> SUFFICES ASSUME ~keyRace' PROVE OneKey'
      BY DEF OneKey
    <3>1. ~keyRace /\ \A u \in Threads : ~Mints(u)
      BY <2>1 DEF Mints
    <3>2. \A u \in Threads : (Mints(u)' => u = t) /\ (op'[u].at = "key" => u # t)
      BY <1>1, <2>2, <2>4, <3>1 DEF Mints
    <3> QED
      BY <1>1, <1>4, <2>1, <2>3, <2>4, <3>1, <3>2 DEF PushInv, OneKey
  <2> QED
    BY <2>4, <2>5 DEF PushInv
<1>5. ASSUME Subs!StoreKey(t) PROVE PushInv'
  <2>0. Mints(t) /\ op[t] \in Keys
    BY <1>1, <1>5, PushShapes DEF Subs!StoreKey, Mints, PushInv
  <2>1. ~Rewrites(t)
    BY <2>0 DEF Rewrites, Mints
  <2>2. PICK x \in {"keep", "key"} :
          /\ op' = [op EXCEPT ![t] = [op[t] EXCEPT !.at = x]]
          /\ \/ x = "keep" /\ op[t].at = "mint" /\ keyFile' = "torn" /\ key' = key
             \/ x = "key" /\ keyFile' = "whole" /\ key' = op[t].key
          /\ UNCHANGED <<pushFile, subs, handed, minted, members, clash, keyRace>>
    <3>1. CASE op[t].at = "mint"
      BY <1>5, <3>1 DEF Subs!StoreKey
    <3>2. CASE op[t].at # "mint"
      BY <1>5, <3>2 DEF Subs!StoreKey
    <3> QED
      BY <3>1, <3>2
  <2> DEFINE o == [op[t] EXCEPT !.at = x]
  <2>3. o \in Keys /\ o.at = x /\ o.key = op[t].key /\ op[t].key \in Nat
    BY <2>0 DEF Keys
  <2> HIDE DEF o
  <2>4. op' = [op EXCEPT ![t] = o] /\ key' \in Nat /\ minted' \in Nat
    BY <2>2, <2>3 DEF o, PushInv, PushTyped
  <2>5. /\ PushTyped' /\ OneRewrite'
        /\ \A b \in Subs!Actors : op'[b] = IF b = t THEN o ELSE op[b]
        /\ \A b \in Subs!Actors : Rewrites(b)' <=> Rewrites(b)
    BY <1>2, <2>1, <2>2, <2>3, <2>4
  <2>6. OneKey'
    <3> SUFFICES ASSUME ~keyRace PROVE OneKey'
      BY <2>2 DEF OneKey
    <3>1. /\ keyFile # "whole" /\ handed = {} /\ subs = {}
          /\ \A u \in Threads : op[u].at # "key" /\ (Mints(u) => u = t)
          /\ \A a \in Subs!Actors : Rewrites(a) => op[a].subs = {}
      <4>1. keyFile # "whole"
        BY <2>0 DEF PushInv, OneKey
      <4> QED
        BY <2>0, <4>1 DEF PushInv, OneKey
    <3>2. \A u \in Threads : (Mints(u)' => u = t /\ x = "keep")
                             /\ (op'[u].at = "key" => u = t /\ x = "key")
      BY <1>1, <2>2, <2>3, <2>5, <3>1 DEF Mints
    <3>3. \A a \in Subs!Actors : Rewrites(a)' => op'[a].subs = {}
      BY <2>1, <2>5, <3>1
    <3> QED
      BY <1>1, <2>2, <2>3, <2>5, <3>1, <3>2, <3>3 DEF OneKey
  <2> QED
    BY <2>5, <2>6 DEF PushInv
<1> QED
  BY <1>3, <1>4, <1>5

\* A thread that has the key hands it out, or sends and then prunes.
LEMMA PushSends ==
    ASSUME PushInv, NEW t \in Threads,
           Subs!HaveKey(t) \/ Subs!Push(t) \/ Subs!Pruning(t) \/ Subs!Prune(t)
    PROVE  PushInv'
<1>1. t \in Subs!Actors
  BY DEF Subs!Actors
<1>2. ~Rewrites(t)
  BY DEF Subs!HaveKey, Subs!Push, Subs!Pruning, Subs!Prune, Rewrites
<1>3. ASSUME NEW o \in {Subs!Idle} \cup Sends \cup Prunes, op' = [op EXCEPT ![t] = o],
             UNCHANGED <<pushFile, subs, keyFile, key, minted, handed, members, clash, keyRace>>
      PROVE  PushInv'
  <2>1. o.at \notin {"save", "fill", "mint", "keep", "key"}
    BY DEF Sends, Prunes, Subs!Idle
  <2>2. PushTyped'
    BY <1>1, <1>3 DEF PushInv, PushTyped
  <2>3. OneRewrite'
    BY <1>1, <1>2, <1>3, <2>1, RewritesLeft
  <2>4. OneKey'
    BY <1>1, <1>3, <2>1, KeysLeft
  <2> QED
    BY <2>2, <2>3, <2>4 DEF PushInv
<1>4. ASSUME Subs!HaveKey(t) PROVE PushInv'
  <2>1. op[t].at = "key" /\ op[t] \in Keys
    BY <1>1, <1>4, PushShapes DEF Subs!HaveKey, PushInv
  <2>2. CASE op[t].goal = "status"
    <3>1. /\ handed' = handed \cup {op[t].key} /\ op' = [op EXCEPT ![t] = Subs!Idle]
          /\ UNCHANGED <<pushFile, subs, keyFile, key, minted, members, clash, keyRace>>
      BY <1>4, <2>2 DEF Subs!HaveKey
    <3>2. PushTyped'
      BY <1>1, <2>1, <3>1 DEF PushInv, PushTyped, Keys
    <3>3. OneRewrite'
      BY <1>1, <1>2, <3>1, RewritesLeft DEF Subs!Idle
    <3>4. \A b \in Subs!Actors : op'[b] = IF b = t THEN Subs!Idle ELSE op[b]
      BY <3>1 DEF PushInv, PushTyped
    <3>5. \A u \in Threads : (Mints(u)' => Mints(u)) /\ (op'[u].at = "key" => u # t)
      BY <3>4 DEF Mints, Subs!Idle, Subs!Actors
    <3>6. \A b \in Subs!Actors : Rewrites(b)' => Rewrites(b) /\ b # t
      BY <3>4 DEF Rewrites, Subs!Idle
    <3>7. ~keyRace => keyFile = "whole" /\ op[t].key = key
      BY <2>1 DEF PushInv, OneKey
    <3>8. Threads \subseteq Subs!Actors
      BY DEF Subs!Actors
    <3>9. OneKey'
      BY <3>1, <3>4, <3>5, <3>6, <3>7, <3>8 DEF PushInv, OneKey
    <3> QED
      BY <3>2, <3>3, <3>9 DEF PushInv
  <2>3. CASE op[t].goal # "status"
    <3> DEFINE o == [at |-> "send", key |-> op[t].key, listed |-> Subs!Listed,
                     todo |-> Subs!Listed, gone |-> {}]
    <3>1. /\ op' = [op EXCEPT ![t] = o]
          /\ UNCHANGED <<pushFile, subs, keyFile, key, minted, handed, members, clash, keyRace>>
      BY <1>4, <2>3 DEF Subs!HaveKey
    <3>2. Subs!Listed \subseteq Subscription
      BY DEF Subs!Listed, PushInv, PushTyped
    <3>3. o \in Sends
      BY <2>1, <3>2 DEF Sends, Keys
    <3> HIDE DEF o
    <3> QED
      BY <1>3, <3>1, <3>3
  <2> QED
    BY <2>2, <2>3
<1>5. ASSUME Subs!Push(t) PROVE PushInv'
  <2>1. op[t] \in Sends
    BY <1>1, <1>5, PushShapes DEF Subs!Push, PushInv
  <2>2. PICK s \in op[t].todo :
          /\ \/ op' = [op EXCEPT ![t] = [op[t] EXCEPT !.todo = @ \ {s}]]
             \/ op' = [op EXCEPT ![t] = [op[t] EXCEPT !.todo = @ \ {s},
                                                      !.gone = @ \cup {s.endpoint}]]
          /\ UNCHANGED <<pushFile, subs, keyFile, key, minted, handed, members, clash, keyRace>>
    BY <1>1, <1>5 DEF Subs!Push, PushInv, PushTyped
  <2>3. s \in Subscription
    BY <2>1 DEF Sends
  <2>4. /\ [op[t] EXCEPT !.todo = @ \ {s}] \in Sends
        /\ [op[t] EXCEPT !.todo = @ \ {s}, !.gone = @ \cup {s.endpoint}] \in Sends
    BY <2>1, <2>3 DEF Sends, Subscription
  <2> QED
    BY <1>3, <2>2, <2>4
<1>6. ASSUME Subs!Pruning(t) PROVE PushInv'
  <2>1. op[t] \in Sends
    BY <1>1, <1>6, PushShapes DEF Subs!Pruning, PushInv
  <2> DEFINE o == [at |-> "prune", listed |-> op[t].listed, gone |-> op[t].gone]
  <2>2. o \in Prunes
    BY <2>1 DEF Sends, Prunes
  <2>3. /\ op' = [op EXCEPT ![t] = o]
        /\ UNCHANGED <<pushFile, subs, keyFile, key, minted, handed, members, clash, keyRace>>
    BY <1>6 DEF Subs!Pruning
  <2> HIDE DEF o
  <2> QED
    BY <1>3, <2>2, <2>3
<1>7. ASSUME Subs!Prune(t) PROVE PushInv'
  <2>1. op[t] \in Prunes
    BY <1>1, <1>7, PushShapes DEF Subs!Prune, PushInv
  <2>2. CASE op[t].gone = {}
    <3>1. /\ op' = [op EXCEPT ![t] = Subs!Idle]
          /\ UNCHANGED <<pushFile, subs, keyFile, key, minted, handed, members, clash, keyRace>>
      BY <1>7, <2>2 DEF Subs!Prune
    <3> QED
      BY <1>3, <3>1
  <2>3. CASE op[t].gone # {}
    <3>1. PICK e \in op[t].gone : Subs!Remove(t, e, [op[t] EXCEPT !.gone = @ \ {e}])
      BY <1>7, <2>3 DEF Subs!Prune
    <3>2. e \in Browsers /\ [op[t] EXCEPT !.gone = @ \ {e}] \in Prunes
      BY <2>1 DEF Prunes
    <3> QED
      BY <1>1, <1>2, <3>1, <3>2, PushRemoves
  <2> QED
    BY <2>2, <2>3
<1> QED
  BY <1>4, <1>5, <1>6, <1>7

LEMMA PushCrashes == ASSUME PushInv, Subs!Crash PROVE PushInv'
<1>1. /\ op' = [a \in Subs!Actors |-> Subs!Idle]
      /\ clash' = (clash \/ Subs!Rewriting # {})
      /\ UNCHANGED <<pushFile, subs, keyFile, key, minted, handed, members, keyRace>>
  BY DEF Subs!Crash
<1>2. PushTyped'
  BY <1>1 DEF PushInv, PushTyped
<1>3. \A a \in Subs!Actors : ~Rewrites(a)' /\ op'[a].at = "idle"
  BY <1>1 DEF Rewrites, Subs!Idle
<1>4. ~clash' => ~clash /\ \A a \in Subs!Actors : ~Rewrites(a)
  BY <1>1 DEF Subs!Rewriting, Rewrites
<1>5. Subs!Listed' = Subs!Listed /\ Threads \subseteq Subs!Actors
  BY <1>1 DEF Subs!Listed, Subs!Actors
<1>6. OneRewrite'
  BY <1>1, <1>3, <1>4, <1>5 DEF PushInv, OneRewrite, Subs!Endpoints
<1>7. OneKey'
  BY <1>1, <1>3, <1>5 DEF PushInv, OneKey, Mints
<1> QED
  BY <1>2, <1>6, <1>7 DEF PushInv

LEMMA PushKept == ASSUME PushInv, [Subs!Next]_browsers PROVE PushInv'
<1>1. ASSUME UNCHANGED browsers PROVE PushInv'
  <2>1. UNCHANGED <<pushFile, subs, keyFile, key, minted, handed, op, members, clash, keyRace>>
    BY <1>1 DEF browsers
  <2>2. PushTyped' /\ OneKey'
    BY <2>1 DEF PushInv, PushTyped, OneKey, Rewrites, Mints
  <2>3. OneRewrite'
    BY <2>1 DEF PushInv, OneRewrite, Rewrites, Subs!Listed, Subs!Endpoints
  <2> QED
    BY <2>2, <2>3 DEF PushInv
<1>2. ASSUME NEW e \in Browsers, Subs!Unsubscribe(e) PROVE PushInv'
  <2>1. Subs!Loop \in Subs!Actors /\ ~Rewrites(Subs!Loop)
    BY <1>2 DEF Subs!Unsubscribe, Subs!Actors, Subs!Idle, Rewrites
  <2> QED
    BY <1>2, <2>1, PushRemoves DEF Subs!Unsubscribe
<1>3. CASE Subs!Next
  <2>1. ASSUME NEW t \in Threads, Subs!NeedKey(t, "status") \/ Subs!NeedKey(t, "send")
                                  \/ Subs!StoreKey(t)
        PROVE PushInv'
    BY <2>1, PushKeys
  <2> QED
    BY <1>2, <1>3, <2>1, PushSubscribes, PushWrites, PushSends, PushCrashes DEF Subs!Next
<1> QED
  BY <1>1, <1>3

LEMMA PushFollows == PushInv => Subs!PushSound
<1> SUFFICES ASSUME PushInv PROVE Subs!SubscribersKept /\ Subs!KeysAgree
  BY DEF Subs!PushSound
<1>1. Subs!SubscribersKept
  BY DEF PushInv, OneRewrite, Subs!SubscribersKept, Subs!Rewriting, Rewrites
<1>2. Subs!KeysAgree
  BY DEF PushInv, OneKey, Subs!KeysAgree
<1> QED
  BY <1>1, <1>2

-----------------------------------------------------------------------------
(* Spend alerts. *)

\* What the tick, the file and the counts look like; a file being saved is torn.
AlertsTyped ==
    /\ month \in Alerts!Months
    /\ state \in [month : Alerts!Months \cup {0}, fired : SUBSET Alerts!Thresholds]
    /\ state.month = 0 => state.fired = {}
    /\ tick \in {Alerts!Idle}
            \cup [at : {"save"}, month : Alerts!Months, fired : SUBSET Alerts!Thresholds,
                  alerts : SUBSET Alerts!Thresholds]
            \cup [at : {"send"}, month : Alerts!Months, alerts : SUBSET Alerts!Thresholds,
                  left : SUBSET Channels]
    /\ tick.at = "save" => alertFile = "torn" /\ tick.alerts \subseteq tick.fired
    /\ told \in [Alerts!Months -> [Alerts!Thresholds -> [Channels -> Nat]]]

\* The alert about th is still to go out on c, in the tick that is on.
Pending(m, th, c) ==
    /\ tick.at \in {"save", "send"} /\ tick.month = m /\ th \in tick.alerts
    /\ tick.at = "send" => c \in tick.left \/ \E x \in tick.alerts : x < th

\* No later tick finds th newly crossed in month m: the month is over, or the threshold is
\* in the file, or about to be.
Noted(m, th) ==
    \/ m < month
    \/ m = month /\ alertFile = "whole" /\ state.month = m /\ th \in state.fired
    \/ m = month /\ tick.at = "save" /\ tick.month = m /\ th \in tick.fired

\* What was told is known and not told again, and what is to be told was not yet.
ToldOnce == \A m \in Alerts!Months \ reset, th \in Alerts!Thresholds, c \in Channels :
    /\ told[m][th][c] <= 1
    /\ told[m][th][c] = 1 => Noted(m, th) /\ ~Pending(m, th, c)
    /\ Pending(m, th, c) => Noted(m, th)

\* What is recorded as fired was told, or is about to be.
Recorded(m, F) == \A th \in F, c \in Channels :
    <<m, th>> \in missed \/ told[m][th][c] >= 1 \/ Pending(m, th, c)
FiredTold == /\ alertFile = "whole" /\ state.month # 0 => Recorded(state.month, state.fired)
             /\ tick.at = "save" => Recorded(tick.month, tick.fired)

AlertsInv == AlertsTyped /\ ToldOnce /\ FiredTold

LEMMA AlertsBegin == ASSUME Alerts!Init PROVE AlertsInv
<1> USE AlertsAssumption
<1>1. AlertsTyped
  BY DEF AlertsTyped, Alerts!Init, Alerts!Months, Alerts!Idle
<1>2. tick.at = "idle" /\ alertFile = "none"
  BY DEF Alerts!Init, Alerts!Idle
<1>3. \A m \in Alerts!Months, th \in Alerts!Thresholds, c \in Channels : told[m][th][c] = 0
  BY DEF Alerts!Init
<1> QED
  BY <1>1, <1>2, <1>3 DEF AlertsInv, ToldOnce, FiredTold, Pending

LEMMA AlertShapes ==
    ASSUME AlertsTyped, tick.at = "send"
    PROVE  tick \in [at : {"send"}, month : Alerts!Months, alerts : SUBSET Alerts!Thresholds,
                     left : SUBSET Channels]
<1>1. /\ tick # Alerts!Idle
      /\ tick \notin [at : {"save"}, month : Alerts!Months, fired : SUBSET Alerts!Thresholds,
                      alerts : SUBSET Alerts!Thresholds]
  BY DEF Alerts!Idle
<1> QED
  BY <1>1 DEF AlertsTyped

LEMMA AlertsKept == ASSUME AlertsInv, [Alerts!Next]_alerts PROVE AlertsInv'
<1> USE AlertsAssumption
<1> USE DEF AlertsInv, AlertsTyped, Alerts!Months, Alerts!Thresholds, Alerts!Idle
<1>1. CASE Alerts!Spend
  <2>1. AlertsTyped'
    BY <1>1 DEF Alerts!Spend
  <2>2. ToldOnce'
    BY <1>1 DEF Alerts!Spend, ToldOnce, Noted, Pending
  <2>3. FiredTold'
    BY <1>1 DEF Alerts!Spend, FiredTold, Pending, Recorded
  <2> QED
    BY <2>1, <2>2, <2>3
<1>2. CASE Alerts!Month
  <2>1. AlertsTyped' /\ month' = month + 1 /\ month \in Nat
    BY <1>2 DEF Alerts!Month
  <2>2. \A m \in Alerts!Months, th \in Alerts!Thresholds : Noted(m, th) => Noted(m, th)'
    BY <1>2, <2>1 DEF Alerts!Month, Noted
  <2>3. ToldOnce'
    BY <1>2, <2>2 DEF Alerts!Month, ToldOnce, Pending
  <2>4. FiredTold'
    BY <1>2 DEF Alerts!Month, FiredTold, Pending, Recorded
  <2> QED
    BY <2>1, <2>3, <2>4
<1>3. CASE Alerts!Check
  <2> DEFINE seen == IF alertFile = "whole" THEN state ELSE [month |-> 0, fired |-> {}]
             old == Alerts!Fired(seen, month)
             new == {th \in Alerts!Thresholds : th <= spend} \ old
  <2>1. CASE tick' = tick /\ alertFile' = alertFile
    BY <1>3, <2>1 DEF Alerts!Check, ToldOnce, FiredTold, Noted, Pending, Recorded
  <2>2. CASE /\ alertFile' = "torn"
             /\ tick' = [at |-> "save", month |-> month, fired |-> old \cup new, alerts |-> new]
    <3>1. old \subseteq Alerts!Thresholds /\ new \subseteq Alerts!Thresholds
      BY DEF Alerts!Fired
    <3>2. UNCHANGED <<month, spend, state, told, reset, missed>> /\ tick = Alerts!Idle
      BY <1>3 DEF Alerts!Check
    <3>3. AlertsTyped'
      BY <2>2, <3>1, <3>2
    <3>9. tick.at = "idle"
      BY <3>2
    <3>4. \A m \in Alerts!Months \ reset, th \in Alerts!Thresholds, c \in Channels :
            told[m][th][c] = 1 => m < month \/ (m = month /\ th \in old)
      <4> HIDE DEF AlertsInv, AlertsTyped
      <4> SUFFICES ASSUME NEW m \in Alerts!Months \ reset, NEW th \in Alerts!Thresholds,
                          NEW c \in Channels, told[m][th][c] = 1
                   PROVE  m < month \/ (m = month /\ th \in old)
        OBVIOUS
      <4>1. Noted(m, th)
        BY DEF AlertsInv, ToldOnce
      <4>2. m < month \/ (m = month /\ alertFile = "whole" /\ state.month = m /\ th \in state.fired)
        BY <3>9, <4>1 DEF Noted
      <4>3. CASE m = month /\ alertFile = "whole" /\ state.month = m /\ th \in state.fired
        BY <4>3 DEF Alerts!Fired
      <4> QED
        BY <4>2, <4>3
    <3>5. ToldOnce'
      BY <2>2, <3>1, <3>2, <3>4 DEF ToldOnce, Noted, Pending
    <3>6. Recorded(month, old)
      BY <3>2 DEF FiredTold, Alerts!Fired, Recorded
    <3>7. FiredTold'
      BY <2>2, <3>1, <3>2, <3>6 DEF FiredTold, Recorded, Pending
    <3> QED
      BY <3>3, <3>5, <3>7
  <2> QED
    BY <1>3, <2>1, <2>2 DEF Alerts!Check
<1>4. CASE Alerts!Fill
  <2>1. /\ UNCHANGED <<month, told, reset, missed>> /\ tick.at = "save" /\ alertFile' = "whole"
        /\ state' = [month |-> tick.month, fired |-> tick.fired]
        /\ tick' = [at |-> "send", month |-> tick.month, alerts |-> tick.alerts, left |-> Channels]
    BY <1>4 DEF Alerts!Fill
  <2>2. AlertsTyped'
    BY <2>1
  <2>3. \A m, th : Noted(m, th) => Noted(m, th)'
    BY <2>1 DEF Noted
  <2>4. \A m, th : \A c \in Channels : Pending(m, th, c) <=> Pending(m, th, c)'
    BY <2>1 DEF Pending
  <2>5. ToldOnce'
    BY <2>1, <2>3, <2>4 DEF ToldOnce
  <2>6. FiredTold'
    BY <2>1, <2>4 DEF FiredTold, Recorded
  <2> QED
    BY <2>2, <2>5, <2>6
<1>5. CASE Alerts!Tell
  <2>1. PICK th \in tick.alerts, c \in tick.left :
          /\ \A x \in tick.alerts : th <= x
          /\ told' = [told EXCEPT ![tick.month][th][c] = @ + 1]
          /\ tick' = IF tick.left = {c}
                     THEN [tick EXCEPT !.alerts = @ \ {th}, !.left = Channels]
                     ELSE [tick EXCEPT !.left = @ \ {c}]
    BY <1>5 DEF Alerts!Tell
  <2>2. tick.at = "send" /\ UNCHANGED <<month, alertFile, state, reset, missed>>
    BY <1>5 DEF Alerts!Tell
  <2>3. tick.month \in Alerts!Months /\ th \in Alerts!Thresholds /\ c \in Channels
    BY <2>1, <2>2
  <2>20. tick \in [at : {"send"}, month : Alerts!Months, alerts : SUBSET Alerts!Thresholds,
                   left : SUBSET Channels]
    BY <2>2, AlertShapes
  <2> HIDE DEF AlertsInv, AlertsTyped
  <2>4. /\ tick' \in [at : {"send"}, month : Alerts!Months, alerts : SUBSET Alerts!Thresholds,
                      left : SUBSET Channels]
        /\ tick'.month = tick.month /\ tick'.alerts \subseteq tick.alerts
    BY <2>1, <2>20
  <2>21. told \in [Alerts!Months -> [Alerts!Thresholds -> [Channels -> Nat]]]
    BY DEF AlertsInv, AlertsTyped
  <2>5. /\ told' \in [Alerts!Months -> [Alerts!Thresholds -> [Channels -> Nat]]]
        /\ \A m \in Alerts!Months, t \in Alerts!Thresholds, d \in Channels :
              told'[m][t][d] = IF m = tick.month /\ t = th /\ d = c THEN told[m][t][d] + 1
                               ELSE told[m][t][d]
    <3> DEFINE counts == told[tick.month]
               more == [counts[th] EXCEPT ![c] = @ + 1]
               grown == [counts EXCEPT ![th] = more]
    <3>1. counts \in [Alerts!Thresholds -> [Channels -> Nat]]
      BY <2>3, <2>21
    <3>2. told' = [told EXCEPT ![tick.month] = grown]
      BY <2>1
    <3> HIDE DEF counts
    <3>3. counts[th] \in [Channels -> Nat]
      BY <2>3, <3>1
    <3>4. /\ more \in [Channels -> Nat]
          /\ \A d \in Channels : more[d] = IF d = c THEN counts[th][d] + 1 ELSE counts[th][d]
      BY <2>3, <3>3
    <3> HIDE DEF more
    <3>5. /\ grown \in [Alerts!Thresholds -> [Channels -> Nat]]
          /\ \A t \in Alerts!Thresholds : grown[t] = IF t = th THEN more ELSE counts[t]
      BY <2>3, <3>1, <3>4
    <3> HIDE DEF grown
    <3>6. told' \in [Alerts!Months -> [Alerts!Thresholds -> [Channels -> Nat]]]
      BY <2>3, <2>21, <3>2, <3>5
    <3>7. \A m \in Alerts!Months : told'[m] = IF m = tick.month THEN grown ELSE told[m]
      BY <2>3, <2>21, <3>2
    <3> QED
      BY <3>4, <3>5, <3>6, <3>7 DEF counts
  <2>6. AlertsTyped'
    BY <2>2, <2>4, <2>5 DEF AlertsInv, AlertsTyped
  <2>7. \A m, t : Noted(m, t) <=> Noted(m, t)'
    BY <2>2, <2>4 DEF Noted
  <2>8. \A m \in Alerts!Months, t \in Alerts!Thresholds, d \in Channels :
          Pending(m, t, d)' <=> Pending(m, t, d) /\ ~(m = tick.month /\ t = th /\ d = c)
    <3> SUFFICES ASSUME NEW m \in Alerts!Months, NEW t \in Alerts!Thresholds, NEW d \in Channels
                 PROVE  Pending(m, t, d)' <=> Pending(m, t, d) /\ ~(m = tick.month /\ t = th /\ d = c)
      OBVIOUS
    <3>1. CASE tick.left = {c}
      BY <2>1, <2>2, <2>3, <2>20, <3>1 DEF Pending
    <3>2. CASE tick.left # {c}
      BY <2>1, <2>2, <2>3, <2>20, <3>2 DEF Pending
    <3> QED
      BY <3>1, <3>2
  <2>9. Pending(tick.month, th, c)
    BY <2>1, <2>2 DEF Pending
  <2>10. ToldOnce'
    <3> SUFFICES ASSUME NEW m \in Alerts!Months \ reset, NEW t \in Alerts!Thresholds, NEW d \in Channels
                 PROVE  (/\ told[m][t][d] <= 1
                         /\ told[m][t][d] = 1 => Noted(m, t) /\ ~Pending(m, t, d)
                         /\ Pending(m, t, d) => Noted(m, t))'
      BY <2>2 DEF ToldOnce
    <3>4. told[m][t][d] \in Nat
      BY <2>21
    <3>1. /\ told[m][t][d] <= 1
          /\ told[m][t][d] = 1 => Noted(m, t) /\ ~Pending(m, t, d)
          /\ Pending(m, t, d) => Noted(m, t)
      BY DEF ToldOnce, AlertsInv
    <3>2. CASE m = tick.month /\ t = th /\ d = c
      <4>1. Pending(m, t, d) /\ Noted(m, t) /\ told[m][t][d] # 1
        BY <2>9, <3>1, <3>2
      <4>3. told'[m][t][d] = told[m][t][d] + 1
        BY <2>5, <3>2
      <4>2. told'[m][t][d] = 1
        BY <3>1, <3>4, <4>1, <4>3
      <4> QED
        BY <2>7, <2>8, <3>2, <4>1, <4>2
    <3>3. CASE ~(m = tick.month /\ t = th /\ d = c)
      BY <2>5, <2>7, <2>8, <3>1, <3>3
    <3> QED
      BY <3>2, <3>3
  <2>11. FiredTold'
    <3>1. \A m \in Alerts!Months, F \in SUBSET Alerts!Thresholds : Recorded(m, F) => Recorded(m, F)'
      <4> SUFFICES ASSUME NEW m \in Alerts!Months, NEW F \in SUBSET Alerts!Thresholds, Recorded(m, F),
                          NEW t \in F, NEW d \in Channels
                   PROVE  (<<m, t>> \in missed \/ told[m][t][d] >= 1 \/ Pending(m, t, d))'
        BY DEF Recorded
      <4>1. <<m, t>> \in missed \/ told[m][t][d] >= 1 \/ Pending(m, t, d)
        BY DEF Recorded
      <4>2. told[m][t][d] \in Nat
        <5>1. t \in Alerts!Thresholds
          OBVIOUS
        <5>2. told[m] \in [Alerts!Thresholds -> [Channels -> Nat]]
          BY <2>21, Zenon
        <5>3. told[m][t] \in [Channels -> Nat]
          BY <5>1, <5>2, Zenon
        <5> QED
          BY <5>3, Zenon
      <4> QED
        <5>1. CASE <<m, t>> \in missed
          BY <2>2, <5>1
        <5>2. CASE m = tick.month /\ t = th /\ d = c
          <6>1. told'[m][t][d] = told[m][t][d] + 1
            BY <2>5, <5>2
          <6> QED
            BY <4>2, <6>1
        <5>3. CASE <<m, t>> \notin missed /\ ~(m = tick.month /\ t = th /\ d = c)
          <6>1. told[m][t][d] >= 1 => told'[m][t][d] >= 1
            BY <2>5, <5>3
          <6>2. Pending(m, t, d) => Pending(m, t, d)'
            BY <2>8, <5>3
          <6> QED
            BY <4>1, <5>3, <6>1, <6>2
        <5> QED
          BY <5>1, <5>2, <5>3
    <3> QED
      BY <2>2, <2>4, <2>20, <3>1 DEF FiredTold, AlertsInv, AlertsTyped
  <2> QED
    BY <2>6, <2>10, <2>11 DEF AlertsInv
<1>6. CASE Alerts!Done
  <2>1. AlertsTyped'
    BY <1>6 DEF Alerts!Done
  <2>2. ToldOnce'
    BY <1>6 DEF Alerts!Done, ToldOnce, Noted, Pending
  <2>3. FiredTold'
    BY <1>6 DEF Alerts!Done, FiredTold, Pending, Recorded
  <2> QED
    BY <2>1, <2>2, <2>3
<1>7. CASE Alerts!Crash
  <2>1. /\ UNCHANGED <<month, alertFile, state, told>> /\ tick' = Alerts!Idle
        /\ reset' = (IF tick.at = "save" THEN reset \cup {tick.month} ELSE reset)
        /\ missed' = missed \cup {<<tick.month, th>> : th \in tick.alerts}
    BY <1>7 DEF Alerts!Crash
  <2>2. AlertsTyped'
    BY <2>1
  <2>3. ToldOnce'
    BY <2>1 DEF ToldOnce, Noted, Pending
  <2>4. FiredTold'
    BY <2>1 DEF FiredTold, Recorded, Pending
  <2> QED
    BY <2>2, <2>3, <2>4
<1>8. CASE UNCHANGED alerts
  BY <1>8 DEF alerts, ToldOnce, FiredTold, Noted, Pending, Recorded
<1> QED
  BY <1>1, <1>2, <1>3, <1>4, <1>5, <1>6, <1>7, <1>8 DEF Alerts!Next

LEMMA AlertsFollow == ASSUME AlertsInv PROVE Alerts!AlertsSound
BY AlertsAssumption DEF AlertsInv, AlertsTyped, ToldOnce, FiredTold, Recorded, Pending, Alerts!AlertsSound,
   Alerts!OncePerMonth, Alerts!FiredIsTold, Alerts!Months, Alerts!Thresholds, Alerts!Idle

-----------------------------------------------------------------------------
(* The stores of the console. *)

\* A store, and the users' store in particular, as it is read.
Read(s) == Users!Loaded(s)

ConsoleTyped ==
    /\ stores \in [Users!Stores -> {"none", "torn", "whole"}]
    /\ content \in [Users!Stores -> [Names -> Nat]]
    /\ asked \in [Users!Stores -> [Names -> Nat]]
    /\ saving \in {Users!Nothing} \cup
                  [at : Users!Stores, new : [Names -> Nat], name : Names, value : Nat]
    /\ issued \in Nat

\* No save of s is under way.
Quiet(s) == saving = Users!Nothing \/ saving.at # s

\* A quiet store that no crash cut is what was asked; a save adds one change to that.
StoresKept ==
    /\ \A s \in Users!Stores \ cut : Quiet(s) => Read(s) = asked[s]
    /\ saving # Users!Nothing =>
          /\ stores[saving.at] = "torn"
          /\ saving.at \notin cut =>
                saving.new = [asked[saving.at] EXCEPT ![saving.name] = saving.value]

\* The settings in force are the quiet overlay.
OverlayLive == Quiet("settings") => live = Read("settings")

\* Whoever is on file has the token that was asked for, or is being saved without one.
TokensAsked ==
    /\ Quiet("users") => \A n \in Names : Read("users")[n] \in {0, asked["users"][n]}
    /\ ~Quiet("users") => /\ \A n \in Names \ {saving.name} : saving.new[n] \in {0, asked["users"][n]}
                          /\ saving.new[saving.name] = saving.value

\* Tokens are given out once: no two users have the same, none has a revoked one, and one
\* that is being saved is new.
TokensFresh ==
    /\ \A m, n \in Names : asked["users"][m] = asked["users"][n] /\ m # n => asked["users"][m] = 0
    /\ \A n \in Names : asked["users"][n] <= issued /\ asked["users"][n] \notin revoked
    /\ \A t \in revoked : t \in Nat /\ t # 0 /\ t <= issued
    /\ ~Quiet("users") /\ saving.value # 0 =>
          /\ saving.value <= issued /\ saving.value \notin revoked
          /\ \A n \in Names : asked["users"][n] # saving.value

ConsoleInv == ConsoleTyped /\ StoresKept /\ OverlayLive /\ TokensAsked /\ TokensFresh

LEMMA ConsoleBegins == ASSUME Users!Init PROVE ConsoleInv
<1> USE DEF Users!Stores, Users!Empty, Users!Nothing
<1>1. ConsoleTyped
  BY DEF ConsoleTyped, Users!Init
<1>2. \A s \in Users!Stores : Read(s) = Users!Empty /\ asked[s] = Users!Empty
  BY DEF Users!Init, Read, Users!Loaded
<1>3. StoresKept /\ OverlayLive
  BY <1>2 DEF Users!Init, StoresKept, OverlayLive
<1>4. TokensAsked /\ TokensFresh
  BY <1>2 DEF Users!Init, TokensAsked, TokensFresh, Quiet
<1> QED
  BY <1>1, <1>3, <1>4 DEF ConsoleInv

\* What a change that begins leaves true, whatever the store.
LEMMA ChangeBegins ==
    ASSUME ConsoleInv, NEW s \in Users!Stores, NEW n \in Names, NEW v \in Nat, Users!Change(s, n, v),
           UNCHANGED <<content, live, asked, cut, revoked>>,
           \/ issued' = issued /\ (s = "users" => v = 0)
           \/ issued' = issued + 1 /\ v = issued + 1
    PROVE  ConsoleInv'
<1> USE DEF ConsoleInv, ConsoleTyped
<1>1. /\ saving = Users!Nothing /\ stores' = [stores EXCEPT ![s] = "torn"]
      /\ saving' = [at |-> s, new |-> [Read(s) EXCEPT ![n] = v], name |-> n, value |-> v]
  BY DEF Users!Change, Read
<1>2. Read(s) \in [Names -> Nat]
  BY DEF Read, Users!Loaded, Users!Empty
<1>3. ConsoleTyped'
  BY <1>1, <1>2
<1>4. \A x \in Users!Stores \ {s} : Read(x)' = Read(x)
  BY <1>1 DEF Read, Users!Loaded
<1>5. \A x \in Users!Stores : Quiet(x) /\ (Quiet(x)' <=> x # s)
  BY <1>1 DEF Quiet, Users!Nothing
<1>6. "users" \in Users!Stores /\ "settings" \in Users!Stores
  BY DEF Users!Stores
<1>7. saving' # Users!Nothing /\ saving'.at = s /\ saving'.name = n /\ saving'.value = v
      /\ saving'.new = [Read(s) EXCEPT ![n] = v] /\ stores'[s] = "torn"
  BY <1>1 DEF Users!Nothing
<1>8. StoresKept'
  BY <1>4, <1>5, <1>7 DEF StoresKept
<1>9. OverlayLive'
  BY <1>4, <1>5, <1>6 DEF OverlayLive
<1>10. TokensAsked'
  BY <1>2, <1>4, <1>5, <1>6, <1>7 DEF TokensAsked
<1>11. TokensFresh'
  BY <1>5, <1>6, <1>7 DEF TokensFresh
<1> QED
  BY <1>3, <1>8, <1>9, <1>10, <1>11

LEMMA ConsoleKept == ASSUME ConsoleInv, [Users!Next]_console PROVE ConsoleInv'
<1> USE ConsoleAssumption
<1>1. ASSUME NEW n \in Names, Users!CreateUser(n) PROVE ConsoleInv'
  <2>1. "users" \in Users!Stores /\ issued + 1 \in Nat
    BY DEF Users!Stores, ConsoleInv, ConsoleTyped
  <2>2. /\ Users!Change("users", n, issued + 1) /\ issued' = issued + 1
        /\ UNCHANGED <<content, live, asked, cut, revoked>>
    BY <1>1 DEF Users!CreateUser
  <2> QED
    BY <2>1, <2>2, ChangeBegins
<1>2. ASSUME NEW n \in Names, Users!DeleteUser(n) PROVE ConsoleInv'
  <2>1. "users" \in Users!Stores /\ 0 \in Nat
    BY DEF Users!Stores
  <2>2. /\ Users!Change("users", n, 0) /\ issued' = issued
        /\ UNCHANGED <<content, live, asked, cut, revoked>>
    BY <1>2 DEF Users!DeleteUser
  <2> QED
    BY <2>1, <2>2, ChangeBegins
<1>3. ASSUME NEW n \in Names, NEW v \in Nat, NEW s \in {"runs", "agents", "settings"},
             Users!Change(s, n, v), UNCHANGED <<content, live, issued, asked, cut, revoked>>
      PROVE ConsoleInv'
  BY <1>3, ChangeBegins DEF Users!Stores
<1>4. CASE Users!Save
  <2> DEFINE s == saving.at
             n == saving.name
             v == saving.value
  <2>1. /\ saving # Users!Nothing /\ saving' = Users!Nothing
        /\ stores' = [stores EXCEPT ![s] = "whole"]
        /\ content' = [content EXCEPT ![s] = saving.new]
        /\ live' = IF s = "settings" THEN saving.new ELSE live
        /\ asked' = [asked EXCEPT ![s][n] = v]
        /\ revoked' = IF s = "users" /\ v = 0
                      THEN revoked \cup {t \in Users!Contents : t = asked[s][n]} ELSE revoked
        /\ UNCHANGED <<cut, issued>>
    BY <1>4 DEF Users!Save, Users!Applied
  <2>2. s \in Users!Stores /\ n \in Names /\ v \in Nat /\ saving.new \in [Names -> Nat]
    BY <2>1 DEF ConsoleInv, ConsoleTyped
  <2>3. ConsoleTyped'
    BY <2>1, <2>2 DEF ConsoleInv, ConsoleTyped
  <2>4. \A x \in Users!Stores : Quiet(x)' /\ (Quiet(x) <=> x # s)
    BY <2>1 DEF Quiet
  <2>5. \A x \in Users!Stores : Read(x)' = IF x = s THEN saving.new ELSE Read(x)
    BY <2>1, <2>2 DEF ConsoleInv, ConsoleTyped, Read, Users!Loaded
  <2>6. /\ asked'[s] = [asked[s] EXCEPT ![n] = v]
        /\ \A x \in Users!Stores \ {s} : asked'[x] = asked[x]
    BY <2>1, <2>2 DEF ConsoleInv, ConsoleTyped
  <2>7. "users" \in Users!Stores /\ "settings" \in Users!Stores
    BY DEF Users!Stores
  <2>8. StoresKept'
    BY <2>1, <2>2, <2>4, <2>5, <2>6 DEF ConsoleInv, StoresKept
  <2>9. OverlayLive'
    BY <2>1, <2>4, <2>5, <2>7 DEF ConsoleInv, OverlayLive
  <2>10. TokensAsked' /\ TokensFresh'
    <3>1. CASE s # "users"
      BY <2>1, <2>4, <2>5, <2>6, <2>7, <3>1 DEF ConsoleInv, TokensAsked, TokensFresh
    <3>2. CASE s = "users"
      <4>1. asked["users"] \in [Names -> Nat] /\ saving.new \in [Names -> Nat] /\ n \in Names
        BY <2>2, <2>7 DEF ConsoleInv, ConsoleTyped
      <4>2. \A m \in Names : asked'["users"][m] = IF m = n THEN v ELSE asked["users"][m]
        BY <2>6, <3>2, <4>1
      <4>3. ~Quiet("users") /\ Quiet("users")' /\ Read("users")' = saving.new
        BY <2>4, <2>5, <2>7, <3>2
      <4>4. TokensAsked'
        BY <4>2, <4>3 DEF ConsoleInv, TokensAsked
      <4>5. CASE v = 0
        <5>1. revoked' = revoked \cup {t \in Users!Contents : t = asked["users"][n]}
          BY <2>1, <3>2, <4>5
        <5>2. \A m \in Names \ {n} : asked["users"][m] \notin revoked'
          BY <5>1, <4>1 DEF ConsoleInv, TokensFresh, Users!Contents
        <5>3. 0 \notin revoked'
          BY <5>1 DEF ConsoleInv, TokensFresh, Users!Contents
        <5>4. \A t \in revoked' : t \in Nat /\ t # 0 /\ t <= issued
          BY <5>1, <4>1 DEF ConsoleInv, TokensFresh, Users!Contents
        <5>5. \A m, k \in Names :
                 asked'["users"][m] = asked'["users"][k] /\ m # k => asked'["users"][m] = 0
          BY <4>2, <4>5 DEF ConsoleInv, TokensFresh
        <5>6. \A m \in Names :
                 asked'["users"][m] <= issued /\ asked'["users"][m] \notin revoked'
          <6> TAKE m \in Names
          <6>1. CASE m = n
            BY <4>2, <4>5, <5>3, <6>1 DEF ConsoleInv, ConsoleTyped
          <6>2. CASE m # n
            BY <4>2, <5>2, <6>2 DEF ConsoleInv, TokensFresh
          <6> QED
            BY <6>1, <6>2
        <5> QED
          BY <2>1, <4>3, <4>4, <5>4, <5>5, <5>6 DEF TokensFresh
      <4>6. CASE v # 0
        <5>1. revoked' = revoked
          BY <2>1, <4>6
        <5> QED
          BY <2>1, <4>1, <4>2, <4>3, <4>4, <4>6, <5>1 DEF ConsoleInv, TokensFresh
      <4> QED
        BY <4>5, <4>6
    <3> QED
      BY <3>1, <3>2
  <2> QED
    BY <2>3, <2>8, <2>9, <2>10 DEF ConsoleInv
<1>5. CASE Users!Restart
  <2>1. /\ UNCHANGED <<stores, content, issued, asked, revoked>>
        /\ cut' = (IF saving = Users!Nothing THEN cut ELSE cut \cup {saving.at})
        /\ saving' = Users!Nothing /\ live' = Read("settings")
    BY <1>5 DEF Users!Restart, Read
  <2>2. \A x \in Users!Stores : Read(x)' = Read(x) /\ Quiet(x)'
    BY <2>1 DEF Read, Users!Loaded, Quiet
  <2>3. "users" \in Users!Stores /\ "settings" \in Users!Stores
    BY DEF Users!Stores
  <2>4. ConsoleTyped'
    BY <2>1 DEF ConsoleInv, ConsoleTyped
  <2>5. StoresKept' /\ OverlayLive'
    BY <2>1, <2>2, <2>3 DEF ConsoleInv, StoresKept, OverlayLive, Quiet
  <2>6. TokensFresh'
    BY <2>1, <2>2, <2>3 DEF ConsoleInv, TokensFresh
  <2>7. ~Quiet("users") => Read("users") = Users!Empty
    BY <2>3 DEF ConsoleInv, StoresKept, Read, Users!Loaded, Quiet
  <2>8. TokensAsked'
    BY <2>1, <2>2, <2>3, <2>7 DEF ConsoleInv, TokensAsked, Users!Empty
  <2> QED
    BY <2>4, <2>5, <2>6, <2>8 DEF ConsoleInv
<1>6. CASE UNCHANGED <<stores, content, saving, live, issued, asked, cut, revoked>>
  <2>1. \A x \in Users!Stores : Read(x)' = Read(x) /\ Quiet(x)' = Quiet(x)
    BY <1>6 DEF Read, Users!Loaded, Quiet
  <2>2. "users" \in Users!Stores /\ "settings" \in Users!Stores
    BY DEF Users!Stores
  <2> QED
    BY <1>6, <2>1, <2>2
       DEF ConsoleInv, ConsoleTyped, StoresKept, OverlayLive, TokensAsked, TokensFresh
<1>7. Users!Contents \subseteq Nat
  BY DEF Users!Contents
<1>8. ASSUME Users!Next PROVE ConsoleInv'
  <2>1. ASSUME NEW n \in Names, NEW v \in Users!Contents, Users!RememberRun(n, v) PROVE ConsoleInv'
    BY <1>3, <1>7, <2>1 DEF Users!RememberRun
  <2>2. ASSUME NEW n \in Names, NEW v \in Users!Contents \cup {0},
               Users!SaveAgent(n, v) \/ Users!PatchSetting(n, v)
        PROVE ConsoleInv'
    <3>1. v \in Nat
      BY <1>7
    <3> QED
      BY <1>3, <2>2, <3>1 DEF Users!SaveAgent, Users!PatchSetting
  <2>3. ASSUME NEW t \in Users!Contents, Users!Login(t) \/ Users!Logout(t) PROVE ConsoleInv'
    BY <1>6, <2>3 DEF Users!Login, Users!Logout
  <2> QED
    BY <1>1, <1>2, <1>4, <1>5, <1>8, <2>1, <2>2, <2>3 DEF Users!Next
<1> QED
  BY <1>6, <1>8 DEF console

LEMMA ConsoleFollows == ASSUME ConsoleInv PROVE Users!ConsoleSound
<1>1. Users!AskedIsKept
  BY DEF ConsoleInv, StoresKept, Quiet, Read, Users!AskedIsKept
<1>2. Users!LiveIsOverlay
  BY DEF ConsoleInv, OverlayLive, Quiet, Read, Users!LiveIsOverlay
<1>3. Users!RevokedStaysOut
  <2>1. CASE Quiet("users")
    BY <2>1 DEF ConsoleInv, TokensAsked, TokensFresh, Read, Users!RevokedStaysOut, Users!Resolved
  <2>2. CASE ~Quiet("users")
    <3>1. Read("users") = Users!Empty
      BY <2>2 DEF ConsoleInv, StoresKept, Read, Users!Loaded, Quiet
    <3> QED
      BY <3>1 DEF Read, Users!Empty, Users!RevokedStaysOut, Users!Resolved
  <2> QED
    BY <2>1, <2>2
<1> QED
  BY <1>1, <1>2, <1>3 DEF Users!ConsoleSound

-----------------------------------------------------------------------------
(* Backup and restore. *)

Versions == [Arch!DataFiles -> Int]
Archive  == [id : Nat, since : Versions, got : Versions]
Copying  == [no : Nat, id : Nat, since : Versions, left : SUBSET Arch!DataFiles, got : Versions]

BackupTyped ==
    /\ up \in BOOLEAN /\ filling \subseteq Jsons
    /\ data \in Versions /\ latest \in [Arch!DataFiles -> Nat]
    /\ writes \in Nat /\ backups \in Nat /\ restores \in Nat
    /\ kept \subseteq Archive
    /\ aside \subseteq [id : Nat, files : Versions, kept : SUBSET Archive]
    /\ staging \subseteq Copying
    /\ restoring \in {Arch!NoRestore} \cup
                     [at : {"extracting"}, from : Archive, left : SUBSET Arch!DataFiles]

\* A backup is under way only while the server is up, and a restore while it is down.
OneOfThem ==
    /\ staging # {} => up
    /\ restoring # Arch!NoRestore => ~up /\ truth = Arch!NoArchive
    /\ ~up \/ truth # Arch!NoArchive => filling = {}

\* What is on disk is no newer than the last write; what is being filled is cut meanwhile;
\* a database never is.
OnDisk ==
    /\ \A f \in Arch!DataFiles : data[f] <= writes /\ latest[f] <= writes
    /\ \A f \in filling : data[f] = Arch!Torn /\ latest[f] >= 1
    /\ \A f \in Dbs : data[f] # Arch!Torn

\* What an archive owes for one file.
Complete(a, f) ==
    /\ a.since[f] # Arch!None => a.got[f] # Arch!None
    /\ a.got[f] # Arch!Torn => a.got[f] >= a.since[f]
    /\ f \in Dbs => a.got[f] # Arch!Torn
    /\ a.got[f] <= writes

\* A backup has that for the files it copied, and can still get it for those left.
Staged(b) ==
    /\ \A f \in Arch!DataFiles \ b.left : Complete(b, f)
    /\ \A f \in Arch!DataFiles : b.since[f] <= writes
    /\ \A f \in filling : latest[f] >= b.since[f]
    /\ \A f \in b.left : data[f] # Arch!None /\ (data[f] # Arch!Torn => data[f] >= b.since[f])
StagingComplete == \A b \in staging : Staged(b)

\* A restore has put back what is not left, and nothing else is there.
Extracted == restoring # Arch!NoRestore =>
    /\ \A f \in Arch!DataFiles : Complete(restoring.from, f)
    /\ \A f \in Arch!DataFiles :
          data[f] = IF f \in restoring.left THEN Arch!None ELSE restoring.from.got[f]

BackupInv ==
    /\ BackupTyped /\ OneOfThem /\ OnDisk /\ StagingComplete /\ Extracted
    /\ Arch!NothingDeleted /\ Arch!RestoredIsArchived
    /\ \A a \in Arch!Archives, f \in Arch!DataFiles : Complete(a, f)

LEMMA BackupBegins == ASSUME Arch!Init PROVE BackupInv
<1>1. Arch!Archives = {}
  BY DEF Arch!Init, Arch!Archives
<1>2. BackupTyped
  BY DEF Arch!Init, BackupTyped, Versions, Arch!Bare, Arch!None
<1>3. OneOfThem /\ OnDisk
  BY DEF Arch!Init, OneOfThem, OnDisk, Arch!Bare, Arch!None, Arch!Torn, Arch!DataFiles
<1>4. Arch!NothingDeleted /\ Arch!RestoredIsArchived
  BY DEF Arch!Init, Arch!NothingDeleted, Arch!RestoredIsArchived, Arch!Bare
<1>5. StagingComplete /\ Extracted
  BY DEF Arch!Init, StagingComplete, Extracted
<1> QED
  BY <1>1, <1>2, <1>3, <1>4, <1>5 DEF BackupInv

LEMMA ArchivesTyped == BackupTyped => Arch!Archives \subseteq Archive
<1> SUFFICES ASSUME BackupTyped, NEW b \in Arch!Archives PROVE b \in Archive
  OBVIOUS
<1> QED
  BY DEF BackupTyped, Arch!Archives

\* The archives and what was moved aside stay as they are.
LEMMA ArchivesLeft ==
    ASSUME BackupInv, UNCHANGED <<kept, aside>>, writes' \in {writes, writes + 1}
    PROVE  \A a \in Arch!Archives', f \in Arch!DataFiles : Complete(a, f)'
<1> SUFFICES ASSUME NEW a \in Arch!Archives, NEW f \in Arch!DataFiles PROVE Complete(a, f)'
  BY DEF Arch!Archives
<1>1. a.got[f] \in Int /\ writes \in Nat
  BY ArchivesTyped DEF BackupInv, BackupTyped, Archive, Versions
<1> QED
  BY <1>1 DEF BackupInv, Complete

LEMMA StagingLeft ==
    ASSUME BackupInv, writes' \in {writes, writes + 1},
           NEW b \in staging, NEW f \in Arch!DataFiles \ b.left
    PROVE  Complete(b, f)'
<1>1. b \in Copying /\ writes \in Nat
  BY DEF BackupInv, BackupTyped
<1>2. b.got[f] \in Int /\ b.since[f] \in Int
  BY <1>1 DEF Versions, Copying
<1> QED
  BY <1>1, <1>2 DEF BackupInv, StagingComplete, Staged, Complete

LEMMA BackupCommits == ASSUME BackupInv, NEW f \in Arch!DataFiles, Arch!Commit(f) PROVE BackupInv'
<1> USE DEF BackupInv
<1>1. /\ up /\ f \in Dbs /\ writes' = writes + 1
      /\ data' = [data EXCEPT ![f] = writes'] /\ latest' = [latest EXCEPT ![f] = writes']
      /\ truth' = Arch!NoArchive
      /\ UNCHANGED <<up, kept, filling, staging, aside, restoring, backups, restores>>
  BY DEF Arch!Commit
<1>2. BackupTyped'
  BY <1>1 DEF BackupTyped, Versions
<1>3. /\ \A g \in Arch!DataFiles : /\ data'[g] = (IF g = f THEN writes' ELSE data[g])
                               /\ latest'[g] = (IF g = f THEN writes' ELSE latest[g])
      /\ writes' \in Nat /\ writes' >= 1 /\ writes' > writes /\ f \notin filling
  BY <1>1, BackupAssumption DEF BackupTyped, Versions
<1>4. OneOfThem' /\ Extracted' /\ Arch!RestoredIsArchived'
  BY <1>1 DEF OneOfThem, Extracted, Arch!RestoredIsArchived
<1>5. OnDisk'
  BY <1>1, <1>3 DEF BackupTyped, Versions, OnDisk, Arch!Torn, Arch!DataFiles
<1>6. StagingComplete'
  <2> SUFFICES ASSUME NEW b \in staging
               PROVE  /\ \A g \in filling : latest'[g] >= b.since[g]
                      /\ \A g \in Arch!DataFiles : b.since[g] <= writes'
                      /\ \A g \in b.left : data'[g] # Arch!None /\
                            (data'[g] # Arch!Torn => data'[g] >= b.since[g])
    BY <1>1, StagingLeft DEF StagingComplete, Staged
  <2>1. b.since \in [Arch!DataFiles -> Int] /\ b.left \subseteq Arch!DataFiles
        /\ filling \subseteq Arch!DataFiles /\ writes \in Nat /\ Staged(b)
    BY DEF BackupTyped, Copying, Versions, Arch!DataFiles, StagingComplete
  <2>2. \A g \in Arch!DataFiles : b.since[g] <= writes'
    BY <1>3, <2>1 DEF Staged, BackupTyped
  <2> QED
    BY <1>1, <1>3, <2>1, <2>2 DEF Staged, Arch!None
<1>7. Arch!NothingDeleted'
  BY <1>1, <1>3 DEF Arch!NothingDeleted
<1> QED
  BY <1>1, <1>2, <1>4, <1>5, <1>6, <1>7, ArchivesLeft

LEMMA BackupTruncates ==
    ASSUME BackupInv, NEW f \in Arch!DataFiles, Arch!Truncate(f) PROVE BackupInv'
<1> USE DEF BackupInv
<1>1. /\ up /\ f \in Jsons \ filling /\ writes' = writes + 1
      /\ data' = [data EXCEPT ![f] = Arch!Torn] /\ latest' = [latest EXCEPT ![f] = writes']
      /\ filling' = filling \cup {f} /\ truth' = Arch!NoArchive
      /\ UNCHANGED <<up, kept, staging, aside, restoring, backups, restores>>
  BY DEF Arch!Truncate
<1>2. BackupTyped'
  BY <1>1 DEF BackupTyped, Versions, Arch!Torn
<1>3. /\ \A g \in Arch!DataFiles : /\ data'[g] = (IF g = f THEN Arch!Torn ELSE data[g])
                               /\ latest'[g] = (IF g = f THEN writes' ELSE latest[g])
      /\ writes' \in Nat /\ writes' >= 1 /\ writes' > writes /\ f \notin Dbs
      /\ filling' \subseteq Arch!DataFiles
  BY <1>1, BackupAssumption DEF BackupTyped, Versions, Arch!DataFiles
<1>4. OneOfThem' /\ Extracted' /\ Arch!RestoredIsArchived'
  BY <1>1 DEF OneOfThem, Extracted, Arch!RestoredIsArchived
<1>5. OnDisk'
  BY <1>1, <1>3 DEF BackupTyped, Versions, OnDisk, Arch!Torn, Arch!DataFiles
<1>6. StagingComplete'
  <2> SUFFICES ASSUME NEW b \in staging
               PROVE  /\ \A g \in filling' : latest'[g] >= b.since[g]
                      /\ \A g \in Arch!DataFiles : b.since[g] <= writes'
                      /\ \A g \in b.left : data'[g] # Arch!None /\
                            (data'[g] # Arch!Torn => data'[g] >= b.since[g])
    BY <1>1, StagingLeft DEF StagingComplete, Staged
  <2>1. b.since \in [Arch!DataFiles -> Int] /\ b.left \subseteq Arch!DataFiles
        /\ filling \subseteq Arch!DataFiles /\ writes \in Nat /\ Staged(b)
    BY DEF BackupTyped, Copying, Versions, Arch!DataFiles, StagingComplete
  <2>2. \A g \in Arch!DataFiles : b.since[g] <= writes'
    BY <1>3, <2>1 DEF Staged, BackupTyped
  <2>3. \A g \in filling' : latest'[g] >= b.since[g]
    BY <1>1, <1>3, <2>1, <2>2 DEF Staged
  <2> QED
    BY <1>1, <1>3, <2>1, <2>2, <2>3 DEF Staged, Arch!None, Arch!Torn
<1>7. Arch!NothingDeleted'
  BY <1>1, <1>3 DEF Arch!NothingDeleted
<1> QED
  BY <1>1, <1>2, <1>4, <1>5, <1>6, <1>7, ArchivesLeft

LEMMA BackupFills == ASSUME BackupInv, NEW f \in Arch!DataFiles, Arch!Fill(f) PROVE BackupInv'
<1> USE DEF BackupInv
<1>1. /\ f \in filling /\ data' = [data EXCEPT ![f] = latest[f]] /\ filling' = filling \ {f}
      /\ UNCHANGED <<up, kept, staging, aside, restoring, backups, restores, writes, latest,
                     truth>>
  BY DEF Arch!Fill
<1>2. BackupTyped'
  BY <1>1 DEF BackupTyped, Versions
<1>3. /\ \A g \in Arch!DataFiles : data'[g] = (IF g = f THEN latest[f] ELSE data[g])
      /\ latest[f] \in Nat /\ latest[f] >= 1 /\ latest[f] <= writes /\ f \notin Dbs
      /\ up /\ truth = Arch!NoArchive
  BY <1>1, BackupAssumption DEF BackupTyped, Versions, OnDisk, OneOfThem
<1>4. OneOfThem' /\ Extracted' /\ Arch!RestoredIsArchived'
  BY <1>1, <1>3 DEF OneOfThem, Extracted, Arch!RestoredIsArchived
<1>5. OnDisk'
  BY <1>1, <1>3 DEF BackupTyped, Versions, OnDisk, Arch!Torn, Arch!DataFiles
<1>6. StagingComplete'
  BY <1>1, <1>3 DEF StagingComplete, Staged, Complete, Arch!None, BackupTyped, Copying
<1>7. Arch!NothingDeleted'
  BY <1>1, <1>3 DEF Arch!NothingDeleted
<1> QED
  BY <1>1, <1>2, <1>4, <1>5, <1>6, <1>7, ArchivesLeft

\* A backup: begun, it may miss every file there is; file by file, it has them; put in place,
\* it is an archive, complete.
LEMMA BackupStarts == ASSUME BackupInv, Arch!StartBackup PROVE BackupInv'
<1> USE DEF BackupInv
<1>1. PICK id \in {backups'} \cup {b.id : b \in staging} :
        staging' = staging \cup {[no |-> backups', id |-> id, since |-> data,
                       left |-> {f \in Arch!DataFiles : data[f] # Arch!None}, got |-> Arch!Bare]}
  BY DEF Arch!StartBackup
<1>2. /\ up /\ backups' = backups + 1
      /\ UNCHANGED <<up, data, kept, filling, aside, restoring, restores, writes, latest, truth>>
  BY DEF Arch!StartBackup
<1>2a. PICK new : new = [no |-> backups', id |-> id, since |-> data,
                   left |-> {f \in Arch!DataFiles : data[f] # Arch!None}, got |-> Arch!Bare]
  OBVIOUS
<1>3. id \in Nat /\ backups' \in Nat
  BY <1>2 DEF BackupTyped, Copying
<1>4. new \in Copying /\ new.since = data /\ new.got = Arch!Bare
      /\ new.left = {f \in Arch!DataFiles : data[f] # Arch!None}
  BY <1>2a, <1>3 DEF BackupTyped, Copying, Versions, Arch!Bare, Arch!None
<1>5. staging' = staging \cup {new}
  BY <1>1, <1>2a
<1>6. BackupTyped'
  BY <1>2, <1>3, <1>4, <1>5 DEF BackupTyped
<1>7. OneOfThem' /\ OnDisk' /\ Extracted' /\ Arch!NothingDeleted' /\ Arch!RestoredIsArchived'
  BY <1>2 DEF OneOfThem, OnDisk, Extracted, Arch!NothingDeleted, Arch!RestoredIsArchived
<1>8. Staged(new)'
  <2>1. \A f \in Arch!DataFiles \ new.left : Complete(new, f)'
    BY <1>2, <1>4 DEF Complete, Arch!Bare, Arch!None, Arch!Torn, BackupTyped
  <2>2. \A f \in filling : latest[f] >= data[f]
    BY DEF OnDisk, Arch!Torn, BackupTyped, Arch!DataFiles
  <2>3. \A f \in Arch!DataFiles : data[f] <= writes /\ data[f] \in Int
    BY DEF OnDisk, BackupTyped, Versions
  <2> QED
    BY <1>2, <1>4, <2>1, <2>2, <2>3 DEF Staged
<1>9. \A b \in staging : Staged(b)'
  BY <1>2 DEF StagingComplete, Staged, Complete
<1>10. StagingComplete'
  BY <1>5, <1>8, <1>9 DEF StagingComplete
<1> QED
  BY <1>2, <1>6, <1>7, <1>10, ArchivesLeft

LEMMA BackupCopies ==
    ASSUME BackupInv, NEW b \in staging, NEW f \in Arch!DataFiles, Arch!Copy(b, f)
    PROVE  BackupInv'
<1> USE DEF BackupInv
<1>0. PICK more : more = [b EXCEPT !.left = @ \ {f}, !.got = [@ EXCEPT ![f] = data[f]]]
  OBVIOUS
<1>1. /\ f \in b.left /\ staging' = (staging \ {b}) \cup {more}
      /\ UNCHANGED <<up, data, kept, filling, aside, restoring, restores, writes, latest,
                     truth, backups>>
  BY <1>0 DEF Arch!Copy
<1>2. b \in Copying /\ Staged(b)
  BY DEF BackupTyped, StagingComplete
<1>3. /\ more.since = b.since /\ more.left = b.left \ {f}
      /\ more.got = [b.got EXCEPT ![f] = data[f]] /\ more \in Copying
  <2>1. [b.got EXCEPT ![f] = data[f]] \in Versions
    BY <1>2 DEF BackupTyped, Versions, Copying
  <2> QED
    BY <1>0, <1>2, <2>1 DEF Copying
<1>4. BackupTyped'
  BY <1>1, <1>3 DEF BackupTyped
<1>5. OneOfThem' /\ OnDisk' /\ Extracted' /\ Arch!NothingDeleted' /\ Arch!RestoredIsArchived'
  BY <1>1 DEF OneOfThem, OnDisk, Extracted, Arch!NothingDeleted, Arch!RestoredIsArchived
<1>6. Staged(more)'
  <2>1. Complete(more, f)'
    BY <1>1, <1>2, <1>3 DEF Staged, Complete, OnDisk, Versions, Copying
  <2>2. \A g \in Arch!DataFiles \ more.left : Complete(more, g)'
    BY <1>1, <1>2, <1>3, <2>1 DEF Staged, Complete, Versions, Copying
  <2> QED
    BY <1>1, <1>2, <1>3, <2>2 DEF Staged
<1>7. \A c \in staging : Staged(c)'
  BY <1>1 DEF StagingComplete, Staged, Complete
<1>8. StagingComplete'
  BY <1>1, <1>6, <1>7 DEF StagingComplete
<1> QED
  BY <1>1, <1>4, <1>5, <1>8, ArchivesLeft

LEMMA BackupPublishes == ASSUME BackupInv, NEW b \in staging, Arch!Publish(b) PROVE BackupInv'
<1> USE DEF BackupInv
<1> DEFINE a == [id |-> b.id, since |-> b.since, got |-> b.got]
<1>1. /\ b.left = {} /\ kept' \subseteq kept \cup {a} /\ staging' \subseteq staging
      /\ UNCHANGED <<up, data, filling, aside, restoring, restores, writes, latest, truth,
                     backups>>
  BY DEF Arch!Publish, Arch!Complete
<1>2. a \in Archive /\ \A f \in Arch!DataFiles : Complete(a, f)
  BY <1>1 DEF BackupTyped, Copying, Archive, StagingComplete, Staged, Complete
<1> HIDE DEF a
<1>3. BackupTyped'
  BY <1>1, <1>2 DEF BackupTyped
<1>4. OneOfThem' /\ OnDisk' /\ Extracted' /\ Arch!NothingDeleted' /\ Arch!RestoredIsArchived'
  BY <1>1 DEF OneOfThem, OnDisk, Extracted, Arch!NothingDeleted, Arch!RestoredIsArchived
<1>5. StagingComplete'
  BY <1>1 DEF StagingComplete, Staged, Complete
<1>6. Arch!Archives' \subseteq Arch!Archives \cup {a}
  BY <1>1 DEF Arch!Archives
<1>7. \A c \in Arch!Archives', f \in Arch!DataFiles : Complete(c, f)'
  BY <1>1, <1>2, <1>6 DEF Complete
<1> QED
  BY <1>1, <1>3, <1>4, <1>5, <1>7

\* The server stops, dies and comes back.
LEMMA BackupServes == ASSUME BackupInv, Arch!Stop \/ Arch!Crash \/ Arch!Serve PROVE BackupInv'
<1> USE DEF BackupInv
<1>1. CASE Arch!Stop
  <2>1. /\ up /\ filling = {} /\ staging = {} /\ up' = FALSE
        /\ UNCHANGED <<data, kept, filling, staging, aside, restoring, writes, backups,
                       restores, latest, truth>>
    BY <1>1 DEF Arch!Stop
  <2>2. BackupTyped' /\ OneOfThem'
    BY <2>1 DEF BackupTyped, OneOfThem
  <2>3. OnDisk' /\ Extracted' /\ Arch!NothingDeleted' /\ Arch!RestoredIsArchived'
        /\ StagingComplete'
    BY <2>1 DEF OnDisk, Extracted, Arch!NothingDeleted, Arch!RestoredIsArchived,
       StagingComplete, Staged, Complete
  <2> QED
    BY <2>1, <2>2, <2>3, ArchivesLeft
<1>2. CASE Arch!Crash
  <2>1. /\ up /\ up' = FALSE /\ filling' = {} /\ staging' = {}
        /\ latest' = [f \in Arch!DataFiles |-> IF f \in filling THEN Arch!None ELSE latest[f]]
        /\ UNCHANGED <<data, kept, aside, restoring, writes, backups, restores, truth>>
    BY <1>2 DEF Arch!Crash
  <2>2. BackupTyped' /\ OneOfThem'
    BY <2>1 DEF BackupTyped, OneOfThem, Arch!None
  <2>3. OnDisk'
    BY <2>1 DEF BackupTyped, OnDisk, Arch!None
  <2>4. Extracted' /\ Arch!RestoredIsArchived' /\ StagingComplete'
    BY <2>1 DEF OneOfThem, Extracted, Arch!RestoredIsArchived, StagingComplete
  <2>5. Arch!NothingDeleted'
    BY <2>1 DEF Arch!NothingDeleted
  <2> QED
    BY <2>1, <2>2, <2>3, <2>4, <2>5, ArchivesLeft
<1>3. CASE Arch!Serve
  <2>1. /\ ~up /\ restoring = Arch!NoRestore /\ up' = TRUE
        /\ UNCHANGED <<data, kept, filling, staging, aside, restoring, writes, backups,
                       restores, latest, truth>>
    BY <1>3 DEF Arch!Serve
  <2>2. BackupTyped' /\ OneOfThem'
    BY <2>1 DEF BackupTyped, OneOfThem
  <2>3. OnDisk' /\ Extracted' /\ Arch!NothingDeleted' /\ Arch!RestoredIsArchived'
        /\ StagingComplete'
    BY <2>1 DEF OnDisk, Extracted, Arch!NothingDeleted, Arch!RestoredIsArchived,
       StagingComplete, Staged, Complete
  <2> QED
    BY <2>1, <2>2, <2>3, ArchivesLeft
<1> QED
  BY <1>1, <1>2, <1>3

\* A restore moves what is there aside, puts the files of its archive back, and ends or is cut.
LEMMA RestoreStarts ==
    ASSUME BackupInv, NEW a \in Arch!Archives, Arch!StartRestore(a) PROVE BackupInv'
<1> USE DEF BackupInv
<1>1. /\ ~up /\ restoring = Arch!NoRestore /\ restores' = restores + 1
      /\ data' = Arch!Bare /\ kept' = {} /\ truth' = Arch!NoArchive
      /\ restoring' = [at |-> "extracting", from |-> a,
                       left |-> {f \in Arch!DataFiles : a.got[f] # Arch!None}]
      /\ IF data = Arch!Bare /\ kept = {} THEN aside' = aside ELSE aside' = Arch!MovedAside
      /\ UNCHANGED <<up, filling, staging, writes, backups, latest>>
  BY DEF Arch!StartRestore
<1> DEFINE d == [id |-> restores', files |-> data, kept |-> kept]
<1>2. aside \subseteq aside' /\ aside' \subseteq aside \cup {d}
      /\ (data = Arch!Bare \/ d \in aside')
  BY <1>1 DEF Arch!MovedAside
<1>3. d \in [id : Nat, files : Versions, kept : SUBSET Archive] /\ d.files = data
      /\ d.kept = kept
  BY <1>1 DEF BackupTyped
<1> HIDE DEF d
<1>4. Arch!Archives \subseteq Archive
  <2> SUFFICES ASSUME NEW b \in Arch!Archives PROVE b \in Archive
    OBVIOUS
  <2> QED
    BY DEF BackupTyped, Arch!Archives
<1>5. restoring' \in [at : {"extracting"}, from : Archive, left : SUBSET Arch!DataFiles]
  BY <1>1, <1>4
<1>6. Arch!Bare \in Versions /\ \A f \in Arch!DataFiles : Arch!Bare[f] = 0
  BY DEF Arch!Bare, Versions, Arch!None
<1>7. BackupTyped'
  BY <1>1, <1>2, <1>3, <1>5, <1>6 DEF BackupTyped
<1>8. OneOfThem'
  BY <1>1 DEF OneOfThem
<1>9. filling = {} /\ staging = {}
  BY <1>1 DEF OneOfThem
<1>10. OnDisk' /\ StagingComplete'
  BY <1>1, <1>6, <1>9 DEF BackupTyped, OnDisk, StagingComplete, Arch!Torn, Arch!DataFiles
<1>11. Extracted'
  <2>1. \A f \in Arch!DataFiles : Complete(a, f)'
    BY <1>1 DEF Complete
  <2>2. \A f \in Arch!DataFiles :
           data'[f] = IF f \in restoring'.left THEN Arch!None ELSE a.got[f]
    BY <1>1, <1>6 DEF Arch!None
  <2> QED
    BY <1>1, <2>1, <2>2 DEF Extracted
<1>12. Arch!NothingDeleted' /\ Arch!RestoredIsArchived'
  BY <1>1, <1>2, <1>3, <1>6 DEF Arch!NothingDeleted, Arch!RestoredIsArchived, Arch!None
<1>13. Arch!Archives' \subseteq Arch!Archives /\ writes' = writes
  <2> SUFFICES ASSUME NEW b \in Arch!Archives' PROVE b \in Arch!Archives
    BY <1>1
  <2>1. PICK e \in aside' : b \in e.kept
    BY <1>1 DEF Arch!Archives
  <2>2. e \in aside \/ e.kept = kept
    BY <1>2, <1>3
  <2> QED
    BY <2>1, <2>2 DEF Arch!Archives
<1>14. \A b \in Arch!Archives', f \in Arch!DataFiles : Complete(b, f)'
  BY <1>13 DEF Complete
<1> QED
  BY <1>7, <1>8, <1>10, <1>11, <1>12, <1>14

LEMMA RestoreExtracts ==
    ASSUME BackupInv, NEW f \in Arch!DataFiles, Arch!Extract(f) PROVE BackupInv'
<1> USE DEF BackupInv
<1>1. /\ restoring # Arch!NoRestore /\ f \in restoring.left
      /\ data' = [data EXCEPT ![f] = restoring.from.got[f]]
      /\ restoring' = [restoring EXCEPT !.left = @ \ {f}]
      /\ UNCHANGED <<up, kept, filling, staging, aside, writes, backups, restores, latest,
                     truth>>
  BY DEF Arch!Extract
<1>2. restoring \in [at : {"extracting"}, from : Archive, left : SUBSET Arch!DataFiles]
  BY <1>1 DEF BackupTyped
<1>3. /\ restoring' \in [at : {"extracting"}, from : Archive, left : SUBSET Arch!DataFiles]
      /\ restoring'.from = restoring.from /\ restoring'.left = restoring.left \ {f}
  BY <1>1, <1>2
<1>4. restoring.from.got \in Versions
  BY <1>2 DEF Archive
<1>5. /\ data' \in Versions
      /\ \A g \in Arch!DataFiles :
            data'[g] = IF g = f THEN restoring.from.got[f] ELSE data[g]
  BY <1>1, <1>4 DEF BackupTyped, Versions
<1>6. BackupTyped'
  BY <1>1, <1>3, <1>5 DEF BackupTyped
<1>7. OneOfThem' /\ Arch!RestoredIsArchived'
  BY <1>1 DEF OneOfThem, Arch!RestoredIsArchived
<1>8. ~up /\ filling = {} /\ staging = {}
  BY <1>1 DEF OneOfThem
<1>9. StagingComplete'
  BY <1>1, <1>8 DEF StagingComplete
<1>10. Extracted'
  <2>1. \A g \in Arch!DataFiles : Complete(restoring.from, g)'
    BY <1>1 DEF Extracted, Complete
  <2>2. \A g \in Arch!DataFiles : data'[g] =
           IF g \in restoring'.left THEN Arch!None ELSE restoring.from.got[g]
    BY <1>1, <1>3, <1>5 DEF Extracted
  <2> QED
    BY <1>3, <2>1, <2>2 DEF Extracted
<1>11. data[f] = Arch!None
  BY <1>1, <1>2 DEF Extracted
<1>12. Arch!NothingDeleted'
  BY <1>1, <1>5, <1>11 DEF Arch!NothingDeleted
<1>13. OnDisk'
  BY <1>1, <1>5, <1>8 DEF OnDisk, Extracted, Complete, Arch!DataFiles
<1> QED
  BY <1>1, <1>6, <1>7, <1>9, <1>10, <1>12, <1>13, ArchivesLeft

LEMMA RestoreEnds ==
    ASSUME BackupInv, Arch!EndRestore \/ Arch!CutRestore PROVE BackupInv'
<1> USE DEF BackupInv
<1>1. /\ restoring # Arch!NoRestore /\ restoring' = Arch!NoRestore
      /\ UNCHANGED <<up, data, kept, filling, staging, aside, writes, backups, restores,
                     latest>>
      /\ truth' = truth \/ (truth' = restoring.from /\ restoring.left = {})
  BY DEF Arch!EndRestore, Arch!CutRestore
<1>2. BackupTyped' /\ OnDisk' /\ StagingComplete' /\ Extracted' /\ Arch!NothingDeleted'
  BY <1>1 DEF BackupTyped, OnDisk, StagingComplete, Staged, Extracted, Arch!NothingDeleted, Complete
<1>3. OneOfThem'
  BY <1>1 DEF OneOfThem
<1>4. restoring.left = {} => data = restoring.from.got
  BY <1>1 DEF BackupTyped, Archive, Versions, Extracted
<1>5. Arch!RestoredIsArchived'
  BY <1>1, <1>4 DEF Arch!RestoredIsArchived
<1> QED
  BY <1>1, <1>2, <1>3, <1>5, ArchivesLeft

LEMMA BackupKept == ASSUME BackupInv, [Arch!Next]_archives PROVE BackupInv'
<1>1. ASSUME UNCHANGED archives PROVE BackupInv'
  <2>1. UNCHANGED <<up, data, kept, filling, staging, aside, restoring, writes, backups,
                    restores, latest, truth>>
    BY <1>1 DEF archives
  <2>2. BackupTyped' /\ OneOfThem' /\ OnDisk' /\ StagingComplete' /\ Extracted'
    BY <2>1 DEF BackupInv, BackupTyped, OneOfThem, OnDisk, StagingComplete, Staged, Extracted,
       Complete
  <2>3. Arch!NothingDeleted' /\ Arch!RestoredIsArchived'
    BY <2>1 DEF BackupInv, Arch!NothingDeleted, Arch!RestoredIsArchived
  <2> QED
    BY <2>1, <2>2, <2>3, ArchivesLeft DEF BackupInv
<1> QED
  BY <1>1, BackupCommits, BackupTruncates, BackupFills, BackupStarts, BackupCopies,
     BackupPublishes, BackupServes, RestoreStarts, RestoreExtracts, RestoreEnds DEF Arch!Next

LEMMA BackupFollows == BackupInv => Arch!BackupSound
<1> SUFFICES ASSUME BackupInv PROVE Arch!ArchivesComplete
  BY DEF BackupInv, Arch!BackupSound
<1> QED
  BY DEF BackupInv, Arch!ArchivesComplete, Complete

-----------------------------------------------------------------------------
(* From a plan to the subtasks of a run. *)

PlanIds == UNION {Plans!Ids(p) : p \in Drafts}

Listing(p) == Len(p) \in Nat /\ DOMAIN p = 1 .. Len(p) /\ Plans!Ids(p) \subseteq PlanIds
Held(P)    == P.some => Listing(P.tasks)

\* The dependencies of a cleaned plan are on others of it.
Cleaned(p) == \A k \in DOMAIN p : p[k].needs \subseteq Plans!Ids(p) \ {p[k].id}

PlansTyped ==
    /\ Held(editor) /\ Held(stored) /\ (queued.some => Held(queued.plan))
    /\ DOMAIN passed = PlanIds
    /\ engine.at \in {"none", "preparing", "running"} /\ (engine.at = "none" => engine = Plans!Idle)
    /\ engine.at = "preparing" => Held(engine.plan) /\ Builtin \subseteq engine.known
    /\ engine.at = "running" =>
          /\ engine = [at |-> "running", plan |-> engine.plan, known |-> engine.known,
                       done |-> engine.done]
          /\ Listing(engine.plan)

\* What is stored has been cleaned, and there is something stored once a run has begun.
StoredCleaned ==
    /\ stored.some => Cleaned(stored.tasks)
    /\ stored.some <=> begun.some
    /\ Plans!Working => begun.some

\* An id nobody submitted has not run; submitted once, whatever has no resume to it comes
\* before the first attempt has begun.
First(e) == ~e.resume \/ e.plan.some
SubmittedOnce ==
    /\ submits \in Nat
    /\ submits = 0 => ~queued.some /\ engine = Plans!Idle /\ row = "absent" /\ ~begun.some
    /\ submits <= 1 =>
          /\ queued.some /\ First(queued) =>
                engine = Plans!Idle /\ row = "queued" /\ ~begun.some
          /\ engine.at = "preparing" /\ First(engine) => ~begun.some /\ ~queued.some

\* Submitted once, it is always the same work.
SameWork == submits <= 1 =>
    /\ begun.some => Plans!Work(stored.tasks) = Plans!Work(begun.tasks)
    /\ Plans!Working => Plans!Work(engine.plan) = Plans!Work(begun.tasks)

\* Only what passed is done, and submitted once, it is work of the plan it began with.
PassedOfPlan ==
    /\ Plans!Working => engine.done \subseteq {i \in PlanIds : passed[i] # {}}
    /\ ~begun.some => \A i \in PlanIds : passed[i] = {}
    /\ submits <= 1 => \A i \in PlanIds : \A s \in passed[i] :
          \E k \in DOMAIN begun.tasks : /\ begun.tasks[k].id = i
                                        /\ begun.tasks[k].what = s.what
                                        /\ begun.tasks[k].needs = s.needs

PlansInv ==
    /\ PlansTyped /\ StoredCleaned /\ SubmittedOnce /\ SameWork /\ PassedOfPlan
    /\ Plans!WellFormed /\ Plans!RefusedIsWrong

LEMMA PlanCount == \A S : Plans!Cardinality(S) = Cardinality(S)
BY Zenon DEF Plans!Cardinality, Cardinality

\* A list has as many ids as entries when and only when they differ.
LEMMA IdsDiffer ==
    ASSUME NEW p, Listing(p)
    PROVE  /\ Cardinality(Plans!Ids(p)) \in Nat /\ Cardinality(Plans!Ids(p)) <= Len(p)
           /\ Cardinality(Plans!Ids(p)) = Len(p)
                 <=> \A j, k \in DOMAIN p : p[j].id = p[k].id => j = k
<1> DEFINE D == DOMAIN p
           f == [k \in D |-> p[k].id]
           T == Plans!Ids(p)
<1>1. D = 1 .. Len(p) /\ Len(p) \in Nat
  BY DEF Listing
<1>2. IsFiniteSet(D) /\ Cardinality(D) = Len(p)
  <2>1. 1 \in Int /\ Len(p) \in Int
    BY <1>1
  <2>2. IsFiniteSet(1 .. Len(p))
        /\ Cardinality(1 .. Len(p)) = (IF 1 > Len(p) THEN 0 ELSE Len(p) - 1 + 1)
    BY <2>1, FS_Interval
  <2> QED
    BY <1>1, <2>2
<1>3. f \in [D -> T] /\ \A t \in T : \E k \in D : f[k] = t
  BY DEF Plans!Ids
<1>4. f \in Surjection(D, T)
  BY <1>3 DEF Surjection
<1>5. f \in Injection(D, T) <=> \A j, k \in D : p[j].id = p[k].id => j = k
  BY <1>3 DEF Injection, IsInjective
<1> HIDE DEF f, D, T
<1>6. /\ IsFiniteSet(T) /\ Cardinality(T) <= Cardinality(D)
      /\ Cardinality(T) = Cardinality(D) <=> f \in Injection(D, T)
  BY <1>2, <1>4, FS_Surjection
<1>7. Cardinality(T) \in Nat
  BY <1>6, FS_CardinalityType
<1> QED
  BY <1>2, <1>5, <1>6, <1>7 DEF D, T

\* Of all places a property holds at, one has the lowest rank.
LEMMA LeastPlace ==
    ASSUME NEW S, S # {}, NEW r, \A k \in S : r[k] \in Nat
    PROVE  \E k \in S : \A j \in S : r[k] <= r[j]
<1>1. {r[k] : k \in S} \subseteq Nat /\ {r[k] : k \in S} # {}
  OBVIOUS
<1>2. PICK m \in {r[k] : k \in S} : \A n \in {r[k] : k \in S} : m <= n
  BY <1>1, LeastOne
<1> QED
  BY <1>2

\* The sort takes everything off a plan that is in order.
LEMMA OrderSorts ==
    ASSUME NEW p, Listing(p), Plans!InOrder(p) PROVE Plans!Sorted(p) = DOMAIN p
<1>1. PICK rank \in [Plans!Ids(p) -> 1 .. Len(p)] :
         \A k \in DOMAIN p : \A d \in p[k].needs :
            d \in Plans!Ids(p) /\ rank[d] < rank[p[k].id]
  BY DEF Plans!InOrder
<1> SUFFICES ASSUME NEW off \in SUBSET DOMAIN p, Plans!NoMore(p, off), DOMAIN p \ off # {}
             PROVE  FALSE
  BY DEF Plans!Sorted
<1>2. PICK r : r = [k \in DOMAIN p |-> rank[p[k].id]]
  OBVIOUS
<1>3. \A k \in DOMAIN p : r[k] = rank[p[k].id] /\ r[k] \in Nat
  BY <1>1, <1>2 DEF Listing, Plans!Ids
<1>4. PICK k \in DOMAIN p \ off : \A j \in DOMAIN p \ off : r[k] <= r[j]
  BY <1>3, LeastPlace
<1>5. \A d \in p[k].needs : \E j \in off : p[j].id = d
  <2> SUFFICES ASSUME NEW d \in p[k].needs PROVE \E j \in off : p[j].id = d
    OBVIOUS
  <2>1. d \in Plans!Ids(p) /\ rank[d] < rank[p[k].id]
    BY <1>1
  <2>2. PICK j \in DOMAIN p : p[j].id = d
    BY <2>1 DEF Plans!Ids
  <2>3. r[j] < r[k] /\ r[j] \in Nat /\ r[k] \in Nat
    BY <1>3, <2>1, <2>2
  <2>4. j \in off
    BY <1>4, <2>3
  <2> QED
    BY <2>2, <2>4
<1> QED
  BY <1>4, <1>5 DEF Plans!NoMore

\* Numbered(p, U, n, rank): what is in U is numbered up to n, everything after its needs.
Numbered(p, U, n, rank) ==
    /\ U \subseteq DOMAIN p /\ rank \in [U -> 1 .. n]
    /\ \A k \in U : \A d \in p[k].needs : \E j \in U : p[j].id = d /\ rank[j] < rank[k]

\* One more can be numbered if it only needs what is.
LEMMA NumberOne ==
    ASSUME NEW p, NEW U, NEW n \in Nat, NEW rank, Numbered(p, U, n, rank),
           NEW k \in DOMAIN p \ U, p[k].needs \subseteq {p[j].id : j \in U}
    PROVE  \E r : Numbered(p, U \cup {k}, n + 1, r)
<1>1. PICK r : r = [j \in U \cup {k} |-> IF j = k THEN n + 1 ELSE rank[j]]
  OBVIOUS
<1>2. r[k] = n + 1 /\ \A j \in U : r[j] = rank[j] /\ r[j] \in 1 .. n
  BY <1>1 DEF Numbered
<1>3. r \in [U \cup {k} -> 1 .. n + 1]
  BY <1>1, <1>2
<1>4. ASSUME NEW i \in U \cup {k}, NEW d \in p[i].needs
      PROVE  \E j \in U \cup {k} : p[j].id = d /\ r[j] < r[i]
  <2>1. CASE i = k
    <3>1. PICK j \in U : p[j].id = d
      BY <2>1
    <3> QED
      BY <1>2, <2>1, <3>1
  <2>2. CASE i \in U
    <3>1. PICK j \in U : p[j].id = d /\ rank[j] < rank[i]
      BY <2>2 DEF Numbered
    <3> QED
      BY <1>2, <2>2, <3>1
  <2> QED
    BY <2>1, <2>2
<1> QED
  BY <1>3, <1>4 DEF Numbered

\* A plan the sort takes apart is in order: of the parts of it that can be numbered, the one
\* with the most left out fewest, which is none.
LEMMA SortOrders ==
    ASSUME NEW p, Listing(p), Plans!Sorted(p) = DOMAIN p,
           \A j, k \in DOMAIN p : p[j].id = p[k].id => j = k
    PROVE  Plans!InOrder(p)
<1> DEFINE Parts == {U \in SUBSET DOMAIN p : \E r : Numbered(p, U, Cardinality(U), r)}
           Left == {Len(p) - Cardinality(U) : U \in Parts}
<1>1. /\ IsFiniteSet(DOMAIN p) /\ Cardinality(DOMAIN p) = Len(p) /\ Len(p) \in Nat
      /\ DOMAIN p = 1 .. Len(p)
  <2>1. 1 \in Int /\ Len(p) \in Int /\ Len(p) \in Nat /\ DOMAIN p = 1 .. Len(p)
    BY DEF Listing
  <2>2. IsFiniteSet(1 .. Len(p))
        /\ Cardinality(1 .. Len(p)) = (IF 1 > Len(p) THEN 0 ELSE Len(p) - 1 + 1)
    BY <2>1, FS_Interval
  <2> QED
    BY <2>1, <2>2
<1>2. \A U \in SUBSET DOMAIN p :
         IsFiniteSet(U) /\ Cardinality(U) \in Nat /\ Cardinality(U) <= Len(p)
  BY <1>1, FS_Subset, FS_CardinalityType
<1>3. {} \in Parts
  <2>1. Numbered(p, {}, Cardinality({}), <<>>)
    BY DEF Numbered
  <2> QED
    BY <2>1
<1>4. Left \subseteq Nat /\ Left # {}
  <2>1. \A U \in Parts : Len(p) - Cardinality(U) \in Nat
    BY <1>1, <1>2
  <2> QED
    BY <1>3, <2>1
<1>5. PICK m \in Left : \A n \in Left : m <= n
  BY <1>4, LeastOne
<1>6. PICK U \in Parts : \A V \in Parts : Len(p) - Cardinality(U) <= Len(p) - Cardinality(V)
  <2>1. PICK U \in Parts : m = Len(p) - Cardinality(U)
    BY <1>5
  <2> QED
    BY <1>5, <2>1
<1>7. PICK rank : Numbered(p, U, Cardinality(U), rank)
  BY <1>6
<1>8. U \in SUBSET DOMAIN p
  BY <1>6
<1>9. ASSUME NEW k \in DOMAIN p \ U, p[k].needs \subseteq {p[j].id : j \in U} PROVE FALSE
  <2>1. Cardinality(U) \in Nat /\ IsFiniteSet(U)
    BY <1>2, <1>8
  <2>2. Cardinality(U \cup {k}) = Cardinality(U) + 1
    BY <2>1, FS_AddElement
  <2>3. \E r : Numbered(p, U \cup {k}, Cardinality(U) + 1, r)
    BY <1>7, <1>9, <2>1, NumberOne
  <2>4. U \cup {k} \in Parts
    BY <1>8, <2>2, <2>3
  <2>5. Len(p) - Cardinality(U) <= Len(p) - (Cardinality(U) + 1)
    BY <1>6, <2>2, <2>4
  <2> QED
    BY <1>1, <2>1, <2>5
<1>10. Plans!NoMore(p, U)
  BY <1>9 DEF Plans!NoMore
<1>11. U = DOMAIN p
  BY <1>8, <1>10 DEF Plans!Sorted
<1>12. Numbered(p, DOMAIN p, Len(p), rank)
  BY <1>1, <1>7, <1>11
<1> HIDE DEF Parts, Left
<1> DEFINE where(i) == CHOOSE k \in DOMAIN p : p[k].id = i
           r == [i \in Plans!Ids(p) |-> rank[where(i)]]
<1>13. \A k \in DOMAIN p : p[k].id \in Plans!Ids(p) /\ where(p[k].id) = k
  BY DEF Plans!Ids
<1>14. \A i \in Plans!Ids(p) : where(i) \in DOMAIN p
  BY DEF Plans!Ids
<1> HIDE DEF where
<1>15. r \in [Plans!Ids(p) -> 1 .. Len(p)]
  BY <1>12, <1>14 DEF Numbered
<1>16. \A k \in DOMAIN p : r[p[k].id] = rank[k]
  BY <1>13
<1> HIDE DEF r
<1>17. ASSUME NEW k \in DOMAIN p, NEW d \in p[k].needs
       PROVE  d \in Plans!Ids(p) /\ r[d] < r[p[k].id]
  <2>1. PICK j \in DOMAIN p : p[j].id = d /\ rank[j] < rank[k]
    BY <1>12 DEF Numbered
  <2> QED
    BY <1>13, <1>16, <2>1
<1> QED
  BY <1>15, <1>17 DEF Plans!InOrder

\* The checks accept exactly the plans that are in order and within the cap.
LEMMA AcceptedInOrder ==
    ASSUME NEW p, Listing(p)
    PROVE  Plans!Accepted(p) <=> Plans!InOrder(p) /\ Len(p) <= PlanCap
<1>1. CASE Plans!Accepted(p)
  <2>1. Cardinality(Plans!Ids(p)) <= PlanCap /\ Cardinality(Plans!Ids(p)) = Len(p)
        /\ Plans!Sorted(p) = DOMAIN p
    BY <1>1, PlanCount DEF Plans!Accepted
  <2> QED
    BY <1>1, <2>1, IdsDiffer, SortOrders
<1>2. CASE Plans!InOrder(p) /\ Len(p) <= PlanCap
  <2>1. Cardinality(Plans!Ids(p)) = Len(p)
    BY <1>2, IdsDiffer DEF Plans!InOrder
  <2>2. \A k \in DOMAIN p : p[k].needs \subseteq Plans!Ids(p)
    BY <1>2 DEF Plans!InOrder
  <2>3. Plans!Sorted(p) = DOMAIN p
    BY <1>2, OrderSorts
  <2> QED
    BY <1>2, <2>1, <2>2, <2>3, PlanCount DEF Plans!Accepted
<1> QED
  BY <1>1, <1>2

\* Cleaning keeps the list, and the work of a plan that is clean.
LEMMA Sanitizes ==
    ASSUME NEW p, Listing(p), NEW known, Builtin \subseteq known
    PROVE  LET c == Plans!Sanitized(p, known)
           IN  /\ Listing(c) /\ DOMAIN c = DOMAIN p /\ Plans!Ids(c) = Plans!Ids(p)
               /\ Cleaned(c) /\ \A k \in DOMAIN c : c[k].agent \in known
               /\ Cleaned(p) => Plans!Work(c) = Plans!Work(p)
<1> DEFINE c == Plans!Sanitized(p, known)
<1>1. /\ DOMAIN c = DOMAIN p
      /\ \A k \in DOMAIN p :
            /\ c[k].id = p[k].id /\ c[k].what = p[k].what
            /\ c[k].needs = {d \in p[k].needs : d \in Plans!Ids(p) /\ d # p[k].id}
            /\ c[k].agent = (IF p[k].agent \in known THEN p[k].agent ELSE Default)
  BY DEF Plans!Sanitized
<1> HIDE DEF c
<1>2. Plans!Ids(c) = Plans!Ids(p)
  BY <1>1 DEF Plans!Ids
<1>3. Len(c) = Len(p)
  <2>1. DOMAIN c = 1 .. Len(p) /\ Len(p) \in Nat
    BY <1>1 DEF Listing
  <2> QED
    BY <2>1
<1>4. Cleaned(c)
  BY <1>1, <1>2 DEF Cleaned
<1>5. \A k \in DOMAIN c : c[k].agent \in known
  BY <1>1, PlansAssumption
<1>6. Cleaned(p) => Plans!Work(c) = Plans!Work(p)
  <2> SUFFICES ASSUME Cleaned(p) PROVE Plans!Work(c) = Plans!Work(p)
    OBVIOUS
  <2>1. ASSUME NEW k \in DOMAIN p PROVE c[k].needs = p[k].needs
    <3>1. \A d \in p[k].needs : d \in Plans!Ids(p) /\ d # p[k].id
      BY DEF Cleaned
    <3>2. c[k].needs = {d \in p[k].needs : d \in Plans!Ids(p) /\ d # p[k].id}
      BY <1>1
    <3> QED
      BY <3>1, <3>2
  <2> QED
    BY <1>1, <2>1 DEF Plans!Work
<1> QED
  BY <1>1, <1>2, <1>3, <1>4, <1>5, <1>6 DEF Listing, c

LEMMA PlansBegin == ASSUME Plans!Init PROVE PlansInv
<1>1. /\ editor = Plans!NoPlan /\ stored = Plans!NoPlan /\ begun = Plans!NoPlan
      /\ refused = Plans!NoPlan /\ queued = Plans!NoJob /\ engine = Plans!Idle
      /\ row = "absent" /\ submits = 0
      /\ passed = [i \in PlanIds |-> {}]
  BY DEF Plans!Init, PlanIds
<1>2. /\ Plans!NoPlan.some = FALSE /\ Plans!NoJob.some = FALSE /\ Plans!Idle.at = "none"
  BY DEF Plans!NoPlan, Plans!NoJob, Plans!Idle
<1>3. PlansTyped
  BY <1>1, <1>2 DEF PlansTyped, Held
<1>4. StoredCleaned /\ SubmittedOnce /\ SameWork
  BY <1>1, <1>2 DEF StoredCleaned, SubmittedOnce, SameWork, Plans!Working
<1>5. PassedOfPlan
  BY <1>1, <1>2 DEF PassedOfPlan, Plans!Working
<1>6. Plans!WellFormed /\ Plans!RefusedIsWrong
  BY <1>1, <1>2 DEF Plans!WellFormed, Plans!RefusedIsWrong, Plans!Working
<1> QED
  BY <1>3, <1>4, <1>5, <1>6 DEF PlansInv

\* Whatever happens to the screen, the agents, the queue or the counters, what the engine,
\* the checkpoints and the plan on disk say of each other stays.
LEMMA PlansAside ==
    ASSUME PlansInv, UNCHANGED <<stored, passed, begun, refused>>, submits' \in Nat,
           submits <= submits', engine' = engine \/ engine' = Plans!Idle
    PROVE  /\ StoredCleaned' /\ SameWork' /\ PassedOfPlan'
           /\ Plans!WellFormed' /\ Plans!RefusedIsWrong'
<1>1. Plans!Idle.at = "none"
  BY DEF Plans!Idle
<1>2. Plans!Working' => Plans!Working /\ engine' = engine
  BY <1>1 DEF Plans!Working
<1>3. submits \in Nat /\ (submits' <= 1 => submits <= 1)
  BY DEF PlansInv, SubmittedOnce
<1>4. StoredCleaned'
  BY <1>2 DEF PlansInv, StoredCleaned
<1>5. SameWork'
  BY <1>2, <1>3 DEF PlansInv, SameWork
<1>6. PassedOfPlan'
  BY <1>2, <1>3 DEF PlansInv, PassedOfPlan
<1>7. Plans!WellFormed'
  BY <1>2 DEF PlansInv, Plans!WellFormed
<1>8. Plans!RefusedIsWrong'
  BY DEF PlansInv, Plans!RefusedIsWrong
<1> QED
  BY <1>4, <1>5, <1>6, <1>7, <1>8

\* What the engine is left with is typed as it was.
LEMMA PlansStayTyped ==
    ASSUME PlansInv, UNCHANGED <<stored, passed>>, engine' = engine \/ engine' = Plans!Idle,
           Held(editor)', queued'.some => Held(queued'.plan)
    PROVE  PlansTyped'
<1>1. Plans!Idle.at = "none"
  BY DEF Plans!Idle
<1>2. CASE engine' = engine
  BY <1>2 DEF PlansInv, PlansTyped, Held
<1>3. CASE engine' = Plans!Idle
  BY <1>1, <1>3 DEF PlansInv, PlansTyped, Held
<1> QED
  BY <1>2, <1>3

\* A draft is a list of subtasks with ids there are checkpoints for.
LEMMA DraftListing == ASSUME NEW p \in Drafts PROVE Listing(p)
<1>1. p \in Seq({p[k] : k \in DOMAIN p})
  BY PlansAssumption
<1>2. Len(p) \in Nat /\ DOMAIN p = 1 .. Len(p)
  BY <1>1
<1>3. Plans!Ids(p) \subseteq PlanIds
  BY DEF PlanIds
<1> QED
  BY <1>2, <1>3 DEF Listing

LEMMA PlansEdited ==
    ASSUME PlansInv, Plans!MakePlan \/ Plans!Edit \/ Plans!Hire PROVE PlansInv'
<1>1. UNCHANGED <<row, queued, engine, stored, passed, begun, refused, submits>>
  BY DEF Plans!MakePlan, Plans!Edit, Plans!Hire
<1>2. Held(editor)'
  <2>1. CASE Plans!MakePlan
    <3>1. PICK p \in Typed : editor' = Plans!Plan(Plans!Sanitized(p, Builtin \cup hired))
      BY <2>1 DEF Plans!MakePlan
    <3>2. p \in Drafts
      BY PlansAssumption
    <3>3. Listing(Plans!Sanitized(p, Builtin \cup hired))
      BY <3>2, DraftListing, Sanitizes
    <3> QED
      BY <3>1, <3>3 DEF Held, Plans!Plan
  <2>2. CASE Plans!Edit
    <3>1. PICK p \in Typed : editor' = Plans!Plan(p)
      BY <2>2 DEF Plans!Edit
    <3>2. p \in Drafts
      BY PlansAssumption
    <3> QED
      BY <3>1, <3>2, DraftListing DEF Held, Plans!Plan
  <2>3. CASE Plans!Hire
    BY <2>3 DEF Plans!Hire, PlansInv, PlansTyped, Held
  <2> QED
    BY <2>1, <2>2, <2>3
<1>3. PlansTyped'
  BY <1>1, <1>2, PlansStayTyped DEF PlansInv, PlansTyped, Held
<1>4. submits' \in Nat /\ submits <= submits'
  BY <1>1 DEF PlansInv, SubmittedOnce
<1>5. SubmittedOnce'
  BY <1>1 DEF PlansInv, SubmittedOnce, First
<1> QED
  BY <1>1, <1>3, <1>4, <1>5, PlansAside DEF PlansInv

\* A plan is approved, or a run is asked for without one.
LEMMA PlansSubmitted ==
    ASSUME PlansInv, Plans!Approve \/ Plans!RunUnplanned PROVE PlansInv'
<1>1. /\ UNCHANGED <<editor, engine, stored, passed, begun, refused>>
      /\ row' = "queued" /\ queued'.some /\ queued'.resume = FALSE
      /\ queued'.plan = editor \/ queued'.plan = Plans!NoPlan
      /\ submits' = submits + 1
  BY DEF Plans!Approve, Plans!RunUnplanned, Plans!Enqueue, Plans!Job
<1>2. Held(Plans!NoPlan)
  BY DEF Held, Plans!NoPlan
<1>3. Held(editor) /\ Held(editor)'
  BY <1>1 DEF PlansInv, PlansTyped, Held
<1>4. PlansTyped'
  BY <1>1, <1>2, <1>3, PlansStayTyped
<1>5. submits \in Nat /\ submits' \in Nat /\ submits <= submits' /\ submits' # 0
      /\ (submits' <= 1 => submits = 0)
  BY <1>1 DEF PlansInv, SubmittedOnce
<1>6. Plans!Idle.at = "none"
  BY DEF Plans!Idle
<1>7. SubmittedOnce'
  BY <1>1, <1>5, <1>6 DEF PlansInv, SubmittedOnce
<1> QED
  BY <1>1, <1>4, <1>5, <1>7, PlansAside DEF PlansInv

LEMMA PlansResumed == ASSUME PlansInv, Plans!Resume PROVE PlansInv'
<1>1. /\ UNCHANGED <<editor, engine, stored, passed, begun, refused, submits>>
      /\ row \in {"failed", "stopped"} /\ engine = Plans!Idle
      /\ queued'.some /\ queued'.resume = TRUE /\ queued'.plan = Plans!NoPlan
  BY DEF Plans!Resume, Plans!Enqueue, Plans!Job
<1>2. Plans!NoPlan.some = FALSE /\ Plans!Idle.at = "none"
  BY DEF Plans!NoPlan, Plans!Idle
<1>3. PlansTyped'
  <2>1. Held(editor)'
    BY <1>1 DEF PlansInv, PlansTyped, Held
  <2>2. Held(queued'.plan)
    BY <1>1, <1>2 DEF Held
  <2> QED
    BY <1>1, <2>1, <2>2, PlansStayTyped
<1>4. submits \in Nat /\ submits' \in Nat /\ submits <= submits' /\ submits # 0
  BY <1>1 DEF PlansInv, SubmittedOnce
<1>5. SubmittedOnce'
  BY <1>1, <1>2, <1>4 DEF SubmittedOnce, First
<1> QED
  BY <1>1, <1>3, <1>4, <1>5, PlansAside DEF PlansInv

\* The queue hands a run to an engine, if it is not on.
LEMMA PlansStarted == ASSUME PlansInv, Plans!Start PROVE PlansInv'
<1>1. /\ queued.some /\ queued' = Plans!NoJob
      /\ UNCHANGED <<editor, stored, passed, begun, refused, submits>>
  BY DEF Plans!Start
<1>2. Plans!NoJob.some = FALSE /\ Plans!Idle.at = "none"
  BY DEF Plans!NoJob, Plans!Idle
<1>3. submits \in Nat /\ submits' \in Nat /\ submits <= submits' /\ submits # 0
  BY <1>1 DEF PlansInv, SubmittedOnce
<1>4. CASE engine # Plans!Idle
  <2>1. engine' = engine
    BY <1>4 DEF Plans!Start
  <2>2. PlansTyped'
    <3>1. Held(editor)'
      BY <1>1 DEF PlansInv, PlansTyped, Held
    <3> QED
      BY <1>1, <1>2, <2>1, <3>1, PlansStayTyped
  <2>3. SubmittedOnce'
    BY <1>1, <1>2, <1>3, <2>1 DEF PlansInv, SubmittedOnce, First
  <2> QED
    BY <1>1, <1>3, <2>1, <2>2, <2>3, PlansAside DEF PlansInv
<1>5. CASE engine = Plans!Idle
  <2>1. engine' = [at |-> "preparing", plan |-> queued.plan, resume |-> queued.resume,
                   known |-> Builtin \cup hired]
    BY <1>5 DEF Plans!Start
  <2>2. /\ engine'.at = "preparing" /\ engine'.plan = queued.plan
        /\ engine'.resume = queued.resume /\ Builtin \subseteq engine'.known
    BY <2>1
  <2>3. PlansTyped'
    BY <1>1, <1>2, <2>2 DEF PlansInv, PlansTyped, Held
  <2>4. ~Plans!Working'
    BY <2>2 DEF Plans!Working
  <2>5. SubmittedOnce'
    BY <1>1, <1>2, <1>3, <2>2 DEF PlansInv, SubmittedOnce, First
  <2>6. StoredCleaned' /\ SameWork'
    BY <1>1, <2>4 DEF PlansInv, StoredCleaned, SameWork
  <2>7. PassedOfPlan'
    BY <1>1, <2>4 DEF PlansInv, PassedOfPlan
  <2>8. Plans!WellFormed' /\ Plans!RefusedIsWrong'
    BY <1>1, <2>4 DEF PlansInv, Plans!WellFormed, Plans!RefusedIsWrong
  <2> QED
    BY <2>3, <2>5, <2>6, <2>7, <2>8 DEF PlansInv
<1> QED
  BY <1>4, <1>5

\* The engine gives up, or is stopped, or goes down with the server; or the run is over.
LEMMA PlansEnded ==
    ASSUME PlansInv,
           Plans!NothingToResume \/ Plans!End \/ Plans!Stop \/ Plans!Restart
    PROVE  PlansInv'
<1>1. /\ UNCHANGED <<editor, stored, passed, begun, submits, refused>>
      /\ engine' = Plans!Idle /\ queued' \in {queued, Plans!NoJob} /\ engine # Plans!Idle
  BY DEF Plans!NothingToResume, Plans!End, Plans!Stop, Plans!Restart, Plans!Refuse,
         Plans!Idle
<1>2. Plans!NoJob.some = FALSE /\ Plans!Idle.at = "none"
  BY DEF Plans!NoJob, Plans!Idle
<1>3. PlansTyped'
  <2>1. Held(editor)' /\ (queued'.some => Held(queued'.plan))
    BY <1>1, <1>2 DEF PlansInv, PlansTyped, Held
  <2> QED
    BY <1>1, <2>1, PlansStayTyped
<1>4. submits \in Nat /\ submits' \in Nat /\ submits <= submits' /\ submits # 0
  BY <1>1 DEF PlansInv, SubmittedOnce
<1>5. SubmittedOnce'
  BY <1>1, <1>2, <1>4 DEF PlansInv, SubmittedOnce, First
<1> QED
  BY <1>1, <1>3, <1>4, <1>5, PlansAside DEF PlansInv

\* A plan is chosen, cleaned, and refused or worked on.
LEMMA PlansReady == ASSUME PlansInv, Plans!Ready PROVE PlansInv'
<1>1. PICK p \in Plans!Chosen(engine) :
         LET c == Plans!Sanitized(p, engine.known)
         IN  IF ~Plans!Accepted(c) THEN Plans!Refuse(Plans!Plan(c))
             ELSE /\ row' = "running" /\ stored' = Plans!Plan(c)
                  /\ begun' = IF begun.some THEN begun ELSE Plans!Plan(c)
                  /\ engine' = [at |-> "running", plan |-> c, known |-> engine.known,
                                done |-> IF engine.resume
                                         THEN {i \in Plans!Ids(c) : passed[i] # {}} ELSE {}]
                  /\ UNCHANGED refused
  BY DEF Plans!Ready
<1>2. /\ engine.at = "preparing" /\ (engine.resume /\ ~engine.plan.some => stored.some)
      /\ UNCHANGED <<editor, queued, passed, submits>>
  BY DEF Plans!Ready
<1>3. Held(engine.plan) /\ Builtin \subseteq engine.known /\ Held(stored)
  BY <1>2 DEF PlansInv, PlansTyped
<1>4. Listing(p)
  <2>1. CASE engine.plan.some
    BY <1>1, <1>3, <2>1 DEF Plans!Chosen, Held
  <2>2. CASE ~engine.plan.some /\ engine.resume
    BY <1>1, <1>2, <1>3, <2>2 DEF Plans!Chosen, Held
  <2>3. CASE ~engine.plan.some /\ ~engine.resume
    BY <1>1, <2>3, DraftListing DEF Plans!Chosen
  <2> QED
    BY <2>1, <2>2, <2>3
<1>5. PICK c : c = Plans!Sanitized(p, engine.known)
  OBVIOUS
<1>6. /\ Listing(c) /\ Cleaned(c) /\ \A k \in DOMAIN c : c[k].agent \in engine.known
      /\ Cleaned(p) => Plans!Work(c) = Plans!Work(p)
  BY <1>3, <1>4, <1>5, Sanitizes
<1>7. Plans!Accepted(c) <=> Plans!InOrder(c) /\ Len(c) <= PlanCap
  BY <1>6, AcceptedInOrder
<1>8. Plans!Idle.at = "none" /\ Plans!Plan(c).some = TRUE /\ Plans!Plan(c).tasks = c
  BY DEF Plans!Idle, Plans!Plan
<1>9. submits \in Nat /\ submits' \in Nat /\ submits <= submits' /\ submits # 0
      /\ engine # Plans!Idle
  BY <1>2, <1>8 DEF PlansInv, SubmittedOnce
<1>10. CASE ~Plans!Accepted(c)
  <2>1. row' = "failed" /\ engine' = Plans!Idle /\ refused' = Plans!Plan(c)
        /\ UNCHANGED <<stored, begun>>
    BY <1>1, <1>5, <1>10 DEF Plans!Refuse
  <2>2. PlansTyped'
    <3>1. Held(editor)' /\ (queued'.some => Held(queued'.plan))
      BY <1>2 DEF PlansInv, PlansTyped, Held
    <3> QED
      BY <1>2, <2>1, <3>1, PlansStayTyped
  <2>3. ~Plans!Working'
    BY <1>8, <2>1 DEF Plans!Working
  <2>4. SubmittedOnce'
    BY <1>2, <1>8, <1>9, <2>1 DEF PlansInv, SubmittedOnce
  <2>5. StoredCleaned' /\ SameWork'
    BY <1>2, <2>1, <2>3 DEF PlansInv, StoredCleaned, SameWork
  <2>6. PassedOfPlan'
    BY <1>2, <2>1, <2>3 DEF PlansInv, PassedOfPlan
  <2>7. Plans!WellFormed'
    BY <2>3 DEF Plans!WellFormed
  <2>8. Plans!RefusedIsWrong'
    <3>1. ~Plans!InOrder(c) \/ Len(c) > PlanCap
      <4>1. Len(c) \in Nat /\ PlanCap \in Nat
        BY <1>6, PlansAssumption DEF Listing
      <4> QED
        BY <1>7, <1>10, <4>1
    <3> QED
      BY <1>8, <2>1, <3>1 DEF Plans!RefusedIsWrong, Plans!InOrder
  <2> QED
    BY <2>2, <2>4, <2>5, <2>6, <2>7, <2>8 DEF PlansInv
<1>11. CASE Plans!Accepted(c)
  <2>1. PICK done : done = IF engine.resume THEN {i \in Plans!Ids(c) : passed[i] # {}} ELSE {}
    OBVIOUS
  <2>2. /\ stored' = Plans!Plan(c) /\ refused' = refused
        /\ begun' = (IF begun.some THEN begun ELSE Plans!Plan(c))
        /\ engine' = [at |-> "running", plan |-> c, known |-> engine.known, done |-> done]
    BY <1>1, <1>5, <1>11, <2>1
  <2>3. /\ engine'.at = "running" /\ engine'.plan = c /\ engine'.known = engine.known
        /\ engine'.done = done
    BY <2>2
  <2>4. stored'.some = TRUE /\ stored'.tasks = c /\ begun'.some
    BY <1>8, <2>2
  <2>5. PlansTyped'
    <3>1. Held(editor)' /\ (queued'.some => Held(queued'.plan))
      BY <1>2 DEF PlansInv, PlansTyped, Held
    <3>2. Held(stored)'
      BY <1>6, <2>4 DEF Held
    <3> QED
      BY <1>2, <1>6, <2>2, <2>3, <3>1, <3>2 DEF PlansInv, PlansTyped
  <2>6. StoredCleaned'
    BY <1>6, <2>4 DEF StoredCleaned
  <2>7. SubmittedOnce'
    <3>1. submits' <= 1 => ~(queued'.some /\ First(queued'))
      <4>1. submits <= 1 => ~(queued.some /\ First(queued))
        BY <1>9 DEF PlansInv, SubmittedOnce
      <4> QED
        BY <1>2, <4>1
    <3> QED
      BY <1>2, <1>9, <2>3, <3>1 DEF SubmittedOnce, First
  <2>8. SameWork'
    <3>1. ASSUME submits <= 1 PROVE Plans!Work(c) = Plans!Work(begun'.tasks)
      <4>1. CASE ~begun.some
        BY <1>8, <2>2, <4>1
      <4>2. CASE begun.some
        <5>1. engine.resume /\ ~engine.plan.some
          BY <1>2, <3>1, <4>2 DEF PlansInv, SubmittedOnce, First
        <5>2. p = stored.tasks /\ Cleaned(p)
          BY <1>1, <1>2, <5>1 DEF Plans!Chosen, PlansInv, StoredCleaned
        <5>3. Plans!Work(p) = Plans!Work(begun.tasks)
          BY <3>1, <4>2, <5>2 DEF PlansInv, SameWork
        <5> QED
          BY <1>6, <2>2, <4>2, <5>2, <5>3
      <4> QED
        BY <4>1, <4>2
    <3> QED
      BY <1>2, <2>3, <2>4, <3>1 DEF SameWork, Plans!Work
  <2>9. PassedOfPlan'
    <3>1. done \subseteq {i \in PlanIds : passed[i] # {}}
      BY <1>6, <2>1 DEF Listing
    <3>2. begun.some => begun' = begun
      BY <2>2
    <3>3. CASE begun.some
      BY <1>2, <2>3, <3>1, <3>2, <3>3 DEF PlansInv, PassedOfPlan
    <3>4. CASE ~begun.some
      BY <1>2, <2>3, <2>4, <3>1, <3>4 DEF PlansInv, PassedOfPlan
    <3> QED
      BY <3>3, <3>4
  <2>10. Plans!WellFormed'
    BY <1>6, <1>7, <1>11, <2>3 DEF Plans!WellFormed, Plans!InOrder
  <2>11. Plans!RefusedIsWrong'
    BY <2>2 DEF PlansInv, Plans!RefusedIsWrong
  <2> QED
    BY <2>5, <2>6, <2>7, <2>8, <2>9, <2>10, <2>11 DEF PlansInv
<1> QED
  BY <1>10, <1>11

\* A subtask passes and is checkpointed.
LEMMA PlansPass == ASSUME PlansInv, Plans!Pass PROVE PlansInv'
<1>1. PICK k \in Plans!Open(engine) :
         /\ engine' = [engine EXCEPT !.done = @ \cup {engine.plan[k].id}]
         /\ passed' = [passed EXCEPT ![engine.plan[k].id] = {engine.plan[k]}]
  BY DEF Plans!Pass
<1>2. /\ engine.at = "running"
      /\ UNCHANGED <<editor, row, queued, stored, begun, refused, submits>>
  BY DEF Plans!Pass
<1>3. PICK x : x = engine.plan[k]
  OBVIOUS
<1>4. k \in DOMAIN engine.plan /\ x.id \in Plans!Ids(engine.plan)
  BY <1>1, <1>3 DEF Plans!Open, Plans!Ids
<1>5. /\ engine = [at |-> "running", plan |-> engine.plan, known |-> engine.known,
                   done |-> engine.done]
      /\ Listing(engine.plan) /\ x.id \in PlanIds
  BY <1>2, <1>4 DEF PlansInv, PlansTyped, Listing
<1>6. engine' = [at |-> "running", plan |-> engine.plan, known |-> engine.known,
                 done |-> engine.done \cup {x.id}]
  BY <1>1, <1>3, <1>5
<1>7. /\ engine'.at = "running" /\ engine'.plan = engine.plan
      /\ engine'.known = engine.known /\ engine'.done = engine.done \cup {x.id}
  BY <1>6
<1>8. /\ DOMAIN passed = PlanIds /\ DOMAIN passed' = PlanIds
      /\ \A i \in PlanIds : passed'[i] = IF i = x.id THEN {x} ELSE passed[i]
  BY <1>1, <1>3 DEF PlansInv, PlansTyped
<1>9. Plans!Working /\ Plans!Working' /\ begun.some
  BY <1>2, <1>7 DEF Plans!Working, PlansInv, StoredCleaned
<1>10. PlansTyped'
  BY <1>2, <1>5, <1>6, <1>7, <1>8 DEF PlansInv, PlansTyped, Held
<1>11. StoredCleaned'
  BY <1>2, <1>9 DEF PlansInv, StoredCleaned
<1>12. SubmittedOnce'
  <2>1. submits \in Nat /\ engine # Plans!Idle /\ submits # 0
    BY <1>2, <1>9 DEF PlansInv, SubmittedOnce, Plans!Idle
  <2> QED
    BY <1>2, <1>7, <2>1 DEF PlansInv, SubmittedOnce, First
<1>13. SameWork'
  BY <1>2, <1>7, <1>9 DEF PlansInv, SameWork
<1>14. PassedOfPlan'
  <2>1. engine'.done \subseteq {i \in PlanIds : passed'[i] # {}}
    BY <1>5, <1>7, <1>8, <1>9 DEF PlansInv, PassedOfPlan
  <2>2. ASSUME submits <= 1
        PROVE  \E j \in DOMAIN begun.tasks : /\ begun.tasks[j].id = x.id
                                             /\ begun.tasks[j].what = x.what
                                             /\ begun.tasks[j].needs = x.needs
    <3>1. Plans!Work(engine.plan) = Plans!Work(begun.tasks)
      BY <1>9, <2>2 DEF PlansInv, SameWork
    <3>2. Plans!Work(engine.plan)[k] = [id |-> x.id, what |-> x.what, needs |-> x.needs]
      BY <1>3, <1>4 DEF Plans!Work
    <3>3. k \in DOMAIN begun.tasks
      BY <1>4, <3>1 DEF Plans!Work
    <3>4. Plans!Work(begun.tasks)[k] = [id |-> begun.tasks[k].id, what |-> begun.tasks[k].what,
                                        needs |-> begun.tasks[k].needs]
      BY <3>3 DEF Plans!Work
    <3> QED
      BY <3>1, <3>2, <3>3, <3>4
  <2>3. ASSUME submits <= 1, NEW i \in PlanIds, NEW s \in passed'[i]
        PROVE  \E j \in DOMAIN begun.tasks : /\ begun.tasks[j].id = i
                                             /\ begun.tasks[j].what = s.what
                                             /\ begun.tasks[j].needs = s.needs
    <3>1. CASE i = x.id
      BY <1>8, <2>2, <2>3, <3>1
    <3>2. CASE i # x.id
      BY <1>8, <2>3, <3>2 DEF PlansInv, PassedOfPlan
    <3> QED
      BY <3>1, <3>2
  <2> QED
    BY <1>2, <1>9, <2>1, <2>3 DEF PassedOfPlan
<1>15. Plans!WellFormed'
  BY <1>7, <1>9 DEF PlansInv, Plans!WellFormed, Plans!InOrder
<1>16. Plans!RefusedIsWrong'
  BY <1>2 DEF PlansInv, Plans!RefusedIsWrong
<1> QED
  BY <1>10, <1>11, <1>12, <1>13, <1>14, <1>15, <1>16 DEF PlansInv

LEMMA PlansKept == ASSUME PlansInv, [Plans!Next]_plans PROVE PlansInv'
<1>1. CASE UNCHANGED plans
  <2>1. UNCHANGED <<editor, row, queued, engine, stored, passed, begun, refused, submits>>
    BY <1>1 DEF plans
  <2>2. PlansTyped'
    BY <2>1 DEF PlansInv, PlansTyped, Held
  <2>3. SubmittedOnce'
    BY <2>1 DEF PlansInv, SubmittedOnce, First
  <2>4. submits' \in Nat /\ submits <= submits'
    BY <2>1 DEF PlansInv, SubmittedOnce
  <2> QED
    BY <2>1, <2>2, <2>3, <2>4, PlansAside DEF PlansInv
<1>2. CASE Plans!Next
  BY <1>2, PlansEdited, PlansSubmitted, PlansResumed, PlansStarted, PlansEnded, PlansReady,
     PlansPass DEF Plans!Next
<1> QED
  BY <1>1, <1>2

\* While subtasks are open, one with the lowest rank waits for none.
LEMMA PlansUnstuck == ASSUME PlansInv PROVE Plans!NeverStuck
<1> SUFFICES ASSUME Plans!Working, Plans!Open(engine) # {}
             PROVE  \E k \in Plans!Open(engine) : engine.plan[k].needs \subseteq engine.done
  BY DEF Plans!NeverStuck
<1>1. PICK p : p = engine.plan
  OBVIOUS
<1>2. Plans!InOrder(p) /\ Listing(p)
  BY <1>1 DEF PlansInv, Plans!WellFormed, PlansTyped, Plans!Working, Plans!InOrder
<1>3. PICK rank \in [Plans!Ids(p) -> 1 .. Len(p)] :
         \A k \in DOMAIN p : \A d \in p[k].needs :
            d \in Plans!Ids(p) /\ rank[d] < rank[p[k].id]
  BY <1>2 DEF Plans!InOrder
<1>4. PICK r : r = [k \in DOMAIN p |-> rank[p[k].id]]
  OBVIOUS
<1>5. \A k \in DOMAIN p : r[k] = rank[p[k].id] /\ r[k] \in Nat
  BY <1>2, <1>3, <1>4 DEF Listing, Plans!Ids
<1>6. Plans!Open(engine) \subseteq DOMAIN p
  BY <1>1 DEF Plans!Open
<1>7. PICK k \in Plans!Open(engine) : \A j \in Plans!Open(engine) : r[k] <= r[j]
  BY <1>5, <1>6, LeastPlace
<1>8. ASSUME NEW d \in p[k].needs PROVE d \in engine.done
  <2>1. d \in Plans!Ids(p) /\ rank[d] < rank[p[k].id]
    BY <1>3, <1>6, <1>7
  <2>2. PICK j \in DOMAIN p : p[j].id = d
    BY <2>1 DEF Plans!Ids
  <2>3. r[j] < r[k] /\ r[j] \in Nat /\ r[k] \in Nat
    BY <1>5, <1>6, <1>7, <2>1, <2>2
  <2>4. j \notin Plans!Open(engine)
    BY <1>7, <2>3
  <2> QED
    BY <1>1, <2>2, <2>4 DEF Plans!Open
<1> QED
  BY <1>1, <1>7, <1>8

LEMMA PlansFollow == ASSUME PlansInv PROVE Plans!PlansSound
<1>1. Plans!ResumedAsPlanned
  BY DEF PlansInv, SameWork, Plans!ResumedAsPlanned
<1>2. Plans!CheckpointsFitOnce
  <2> SUFFICES ASSUME Plans!Working, submits <= 1, NEW i \in engine.done, NEW s \in passed[i]
               PROVE  \E k \in DOMAIN engine.plan : /\ engine.plan[k].id = i
                                                    /\ engine.plan[k].what = s.what
                                                    /\ engine.plan[k].needs = s.needs
    BY DEF Plans!CheckpointsFitOnce, Plans!Fits
  <2>1. i \in PlanIds
    BY DEF PlansInv, PassedOfPlan
  <2>2. PICK k \in DOMAIN begun.tasks : /\ begun.tasks[k].id = i
                                        /\ begun.tasks[k].what = s.what
                                        /\ begun.tasks[k].needs = s.needs
    BY <2>1 DEF PlansInv, PassedOfPlan
  <2>3. Plans!Work(engine.plan) = Plans!Work(begun.tasks)
    BY DEF PlansInv, SameWork
  <2>4. k \in DOMAIN engine.plan
    BY <2>3 DEF Plans!Work
  <2>5. /\ Plans!Work(begun.tasks)[k] = [id |-> begun.tasks[k].id, what |-> begun.tasks[k].what,
                                         needs |-> begun.tasks[k].needs]
        /\ Plans!Work(engine.plan)[k] = [id |-> engine.plan[k].id, what |-> engine.plan[k].what,
                                         needs |-> engine.plan[k].needs]
    BY <2>4 DEF Plans!Work
  <2> QED
    BY <2>2, <2>3, <2>4, <2>5
<1> QED
  BY <1>1, <1>2, PlansUnstuck DEF PlansInv, Plans!PlansSound

-----------------------------------------------------------------------------
(* The golden suite. *)

Cards == [task : DOMAIN Suite, passed : BOOLEAN, skipped : BOOLEAN, graders : Seq(BOOLEAN),
          status : {"none", "completed", "partial"}, error : BOOLEAN]

InAttempt == step \in {"setup", "running", "closing"}

EvalTyped ==
    /\ step \in {"idle", "task", "append", "exit"} \/ InAttempt
    /\ evals \in Nat /\ (step # "idle" => evals \in 1 .. Len(Repeats))
    /\ task \in Nat /\ attempts \in Nat /\ engines \in Nat /\ cards \in Seq(Cards)
    /\ step # "idle" => task # 0
    /\ InAttempt => card \in Cards /\ card.task = task

\* A card says what became of its attempt, and of its task on this machine.
TrueCard(c) ==
    /\ c.skipped <=> Suite[c.task].missing
    /\ c.passed <=> /\ ~Suite[c.task].missing /\ ~c.error /\ c.status # "none"
                    /\ \A k \in DOMAIN c.graders : c.graders[k]
                    /\ Suite[c.task].graded = 0 => c.status = "completed"
\* An attempt that is over was graded to the end, or says that it broke.
Over(c) == c.skipped \/ c.error \/ c.status # "none"
TrueCards ==
    /\ \A k \in DOMAIN cards : TrueCard(cards[k]) /\ Over(cards[k])
    /\ InAttempt => TrueCard(card) /\ ~card.skipped
    /\ step = "closing" => Over(card)
    /\ step \in {"setup", "running"} => ~card.passed /\ ~card.error

\* The cards of a task there are, and those there are to be so far.
CardsOf(k) == {c \in DOMAIN cards : cards[c].task = k}
Wanted(k) == IF Suite[k].missing THEN 1 ELSE Repeats[evals]
Due(k) == IF k < task THEN Wanted(k)
          ELSE IF k > task THEN 0 ELSE IF InAttempt THEN attempts - 1 ELSE attempts

Counted ==
    /\ step = "idle" => cards = <<>> /\ attempts = 0
    /\ step # "idle" => \A k \in DOMAIN Suite : Cardinality(CardsOf(k)) = Due(k)
    /\ step # "idle" => attempts <= Repeats[evals]
    /\ task \in DOMAIN Suite => (Suite[task].missing => attempts = 0)
    /\ InAttempt => attempts >= 1 /\ task \in DOMAIN Suite
    /\ step \in {"append", "exit"} => task > Len(Suite)

NoneOpen == step \notin {"running", "closing"} => engines = 0

EvalsInv == EvalTyped /\ TrueCards /\ Counted /\ NoneOpen

LEMMA EvalCount == \A S : Scores!Cardinality(S) = Cardinality(S)
BY Zenon DEF Scores!Cardinality, Cardinality

\* The places of a list are as many as it is long.
LEMMA PlacesFinite ==
    ASSUME NEW S, NEW s \in Seq(S)
    PROVE  /\ IsFiniteSet(DOMAIN s) /\ Cardinality(DOMAIN s) = Len(s)
           /\ Len(s) \in Nat /\ DOMAIN s = 1 .. Len(s)
<1>1. 1 \in Int /\ Len(s) \in Int /\ Len(s) \in Nat /\ DOMAIN s = 1 .. Len(s)
  OBVIOUS
<1>2. IsFiniteSet(1 .. Len(s))
      /\ Cardinality(1 .. Len(s)) = (IF 1 > Len(s) THEN 0 ELSE Len(s) - 1 + 1)
  BY <1>1, FS_Interval
<1> QED
  BY <1>1, <1>2

\* A card more is a card more of its task.
LEMMA CardMore ==
    ASSUME cards \in Seq(Cards), NEW c \in Cards, cards' = Append(cards, c)
    PROVE  /\ cards' \in Seq(Cards) /\ DOMAIN cards' = DOMAIN cards \cup {Len(cards) + 1}
           /\ cards'[Len(cards) + 1] = c /\ \A j \in DOMAIN cards : cards'[j] = cards[j]
           /\ \A k \in DOMAIN Suite :
                 Cardinality(CardsOf(k)') = Cardinality(CardsOf(k)) + (IF k = c.task THEN 1 ELSE 0)
           /\ \A k \in DOMAIN Suite : Cardinality(CardsOf(k)) \in Nat
<1>1. /\ cards' \in Seq(Cards) /\ DOMAIN cards' = DOMAIN cards \cup {Len(cards) + 1}
      /\ cards'[Len(cards) + 1] = c /\ \A j \in DOMAIN cards : cards'[j] = cards[j]
      /\ Len(cards) + 1 \notin DOMAIN cards
  <2>1. Len(cards) \in Nat /\ DOMAIN cards = 1 .. Len(cards) /\ Len(cards') = Len(cards) + 1
        /\ cards' \in Seq(Cards)
    OBVIOUS
  <2> QED
    BY <2>1
<1>2. ASSUME NEW k \in DOMAIN Suite
      PROVE  /\ Cardinality(CardsOf(k)') = Cardinality(CardsOf(k)) + (IF k = c.task THEN 1 ELSE 0)
             /\ Cardinality(CardsOf(k)) \in Nat
  <2>1. IsFiniteSet(CardsOf(k)) /\ Len(cards) + 1 \notin CardsOf(k)
    BY <1>1, PlacesFinite, FS_Subset DEF CardsOf
  <2>2. Cardinality(CardsOf(k)) \in Nat
    BY <2>1, FS_CardinalityType
  <2>3. CASE k = c.task
    <3>1. CardsOf(k)' = CardsOf(k) \cup {Len(cards) + 1}
      BY <1>1, <2>3 DEF CardsOf
    <3>2. Cardinality(CardsOf(k)') = Cardinality(CardsOf(k)) + 1
      BY <2>1, <3>1, FS_AddElement
    <3> QED
      BY <2>2, <2>3, <3>2
  <2>4. CASE k # c.task
    <3>1. CardsOf(k)' = CardsOf(k)
      BY <1>1, <2>4 DEF CardsOf
    <3> QED
      BY <2>2, <2>4, <3>1
  <2> QED
    BY <2>3, <2>4
<1> QED
  BY <1>1, <1>2

LEMMA SuiteTyped ==
    /\ Len(Suite) \in Nat /\ DOMAIN Suite = 1 .. Len(Suite)
    /\ \A k \in DOMAIN Suite : /\ Suite[k].missing \in BOOLEAN /\ Suite[k].setup \in BOOLEAN
                               /\ Suite[k].parts \in Nat \ {0} /\ Suite[k].graded \in Nat
    /\ Len(Repeats) \in Nat /\ \A e \in 1 .. Len(Repeats) : Repeats[e] \in Nat
<1> DEFINE Tasks == [missing : BOOLEAN, setup : BOOLEAN, parts : Nat \ {0}, graded : Nat]
<1>1. Suite \in Seq(Tasks) /\ Repeats \in Seq(Nat)
  BY SuiteAssumption
<1> HIDE DEF Tasks
<1>2. /\ Len(Suite) \in Nat /\ DOMAIN Suite = 1 .. Len(Suite)
      /\ \A k \in DOMAIN Suite : Suite[k] \in Tasks
  BY <1>1
<1>3. Len(Repeats) \in Nat /\ \A e \in 1 .. Len(Repeats) : Repeats[e] \in Nat
  BY <1>1
<1>4. \A t \in Tasks : /\ t.missing \in BOOLEAN /\ t.setup \in BOOLEAN
                       /\ t.parts \in Nat \ {0} /\ t.graded \in Nat
  BY DEF Tasks
<1> QED
  BY <1>2, <1>3, <1>4

LEMMA NoCards ==
    ASSUME cards = <<>> PROVE \A k \in DOMAIN Suite : Cardinality(CardsOf(k)) = 0
<1>1. \A k \in DOMAIN Suite : CardsOf(k) = {}
  BY DEF CardsOf
<1> QED
  BY <1>1, FS_EmptySet

LEMMA EvalsBegin == ASSUME Scores!Init PROVE EvalsInv
<1>1. step = "idle" /\ task = 0 /\ attempts = 0 /\ cards = <<>> /\ engines = 0 /\ evals = 0
  BY DEF Scores!Init
<1>2. task \notin DOMAIN Suite
  BY <1>1, SuiteTyped
<1> QED
  BY <1>1, <1>2 DEF EvalsInv, EvalTyped, TrueCards, Counted, NoneOpen, InAttempt

\* When the command ends, or begins, there is nothing in the report.
LEMMA EvalsEnd ==
    ASSUME EvalsInv, Scores!Commit \/ Scores!Dies \/ Scores!Exit \/ Scores!Crash
    PROVE  EvalsInv'
<1>1. evals' = evals
  BY DEF Scores!Commit, Scores!Dies, Scores!Exit, Scores!Crash
<1>2. CASE Scores!Commit
  <2>1. UNCHANGED <<step, task, attempts, card, cards, engines>>
    BY <1>2 DEF Scores!Commit, Scores!eval_vars
  <2> QED
    BY <1>1, <2>1 DEF EvalsInv, EvalTyped, TrueCards, Counted, NoneOpen, InAttempt, Due, Wanted,
                      CardsOf
<1>3. CASE Scores!Dies \/ Scores!Exit \/ Scores!Crash
  <2>1. step' = "idle" /\ task' = 0 /\ attempts' = 0 /\ cards' = <<>> /\ engines' = 0
    BY <1>3 DEF Scores!Dies, Scores!Exit, Scores!Crash, Scores!Ends
  <2>2. task' \notin DOMAIN Suite
    BY <2>1, SuiteTyped
  <2>3. evals' \in Nat
    BY <1>1 DEF EvalsInv, EvalTyped
  <2> QED
    BY <2>1, <2>2, <2>3 DEF EvalsInv, EvalTyped, TrueCards, Counted, NoneOpen, InAttempt
<1> QED
  BY <1>2, <1>3

LEMMA EvalsStart == ASSUME EvalsInv, Scores!Begin PROVE EvalsInv'
<1>1. /\ step = "idle" /\ step' = "task" /\ task' = 1 /\ evals' = evals + 1
      /\ UNCHANGED <<attempts, card, cards, engines>> /\ evals < Len(Repeats)
  BY DEF Scores!Begin, Scores!MaxEvals
<1>2. cards = <<>> /\ attempts = 0 /\ evals \in Nat /\ engines = 0
  BY <1>1 DEF EvalsInv, EvalTyped, Counted, NoneOpen, InAttempt
<1>3. evals' \in 1 .. Len(Repeats) /\ evals' \in Nat
  BY <1>1, <1>2, SuiteTyped
<1>4. Repeats[evals'] \in Nat
  BY <1>3, SuiteTyped
<1>5. \A k \in DOMAIN Suite : Cardinality(CardsOf(k))' = Due(k)'
  <2>1. \A k \in DOMAIN Suite : Cardinality(CardsOf(k)) = 0
    BY <1>2, NoCards
  <2>2. \A k \in DOMAIN Suite : Due(k)' = 0
    BY <1>1, <1>2, SuiteTyped DEF Due, InAttempt
  <2> QED
    BY <1>1, <2>1, <2>2 DEF CardsOf
<1>6. Counted'
  BY <1>1, <1>2, <1>4, <1>5 DEF Counted, InAttempt
<1>7. EvalTyped'
  BY <1>1, <1>2, <1>3 DEF EvalsInv, EvalTyped, InAttempt
<1> QED
  BY <1>1, <1>2, <1>6, <1>7 DEF EvalsInv, TrueCards, NoneOpen, InAttempt

\* A card of a task that is skipped.
LEMMA EvalsSkip == ASSUME EvalsInv, Scores!Skip PROVE EvalsInv'
<1>1. /\ step = "task" /\ task <= Len(Suite) /\ Suite[task].missing /\ task' = task + 1
      /\ UNCHANGED <<step, attempts, card, engines, evals>>
      /\ cards' = Append(cards, [Scores!Card EXCEPT !.skipped = TRUE])
  BY DEF Scores!Skip, Scores!Current
<1>2. PICK c : c = [Scores!Card EXCEPT !.skipped = TRUE]
  OBVIOUS
<1>3. /\ c.task = task /\ c.passed = FALSE /\ c.skipped = TRUE /\ c.graders = <<>>
      /\ c.status = "none"
      /\ c = [task |-> task, passed |-> FALSE, skipped |-> TRUE, graders |-> <<>>,
              status |-> "none", error |-> FALSE]
  BY <1>2 DEF Scores!Card
<1>4. /\ task \in DOMAIN Suite /\ task \in Nat /\ attempts = 0 /\ ~InAttempt
      /\ evals \in 1 .. Len(Repeats) /\ cards \in Seq(Cards) /\ Repeats[evals] \in Nat
  BY <1>1, SuiteTyped DEF EvalsInv, EvalTyped, Counted, InAttempt
<1>5. c \in Cards /\ TrueCard(c) /\ Over(c)
  BY <1>1, <1>3, <1>4 DEF Cards, TrueCard, Over
<1>6. /\ cards' \in Seq(Cards) /\ DOMAIN cards' = DOMAIN cards \cup {Len(cards) + 1}
      /\ cards'[Len(cards) + 1] = c /\ \A j \in DOMAIN cards : cards'[j] = cards[j]
      /\ \A k \in DOMAIN Suite :
            Cardinality(CardsOf(k)') = Cardinality(CardsOf(k)) + (IF k = c.task THEN 1 ELSE 0)
  BY <1>1, <1>2, <1>4, <1>5, CardMore
<1>7. EvalTyped'
  BY <1>1, <1>4, <1>6 DEF EvalsInv, EvalTyped, InAttempt
<1>8. TrueCards'
  BY <1>1, <1>4, <1>5, <1>6 DEF EvalsInv, TrueCards, InAttempt
<1>9. ASSUME NEW k \in DOMAIN Suite PROVE Cardinality(CardsOf(k)') = Due(k)'
  <2>1. k \in Nat /\ Cardinality(CardsOf(k)) = Due(k)
    BY <1>1, SuiteTyped DEF EvalsInv, Counted
  <2>2. Due(k)' = Due(k) + (IF k = task THEN 1 ELSE 0)
    BY <1>1, <1>4, <2>1 DEF Due, Wanted, InAttempt
  <2> QED
    BY <1>3, <1>6, <2>1, <2>2
<1>10. Counted'
  BY <1>1, <1>4, <1>9 DEF EvalsInv, Counted, InAttempt
<1> QED
  BY <1>1, <1>4, <1>7, <1>8, <1>10 DEF EvalsInv, NoneOpen, InAttempt

\* The attempts of a task begin, until there were as many as asked for.
LEMMA EvalsAttempt == ASSUME EvalsInv, Scores!Start PROVE EvalsInv'
<1>1. /\ step = "task" /\ task <= Len(Suite) /\ ~Suite[task].missing
      /\ UNCHANGED <<cards, engines, evals>>
  BY DEF Scores!Start, Scores!Current
<1>2. /\ task \in DOMAIN Suite /\ task \in Nat /\ ~InAttempt /\ engines = 0 /\ engines \in Nat
      /\ evals \in 1 .. Len(Repeats) /\ evals \in Nat /\ cards \in Seq(Cards)
      /\ Repeats[evals] \in Nat
      /\ attempts <= Repeats[evals] /\ attempts \in Nat
  BY <1>1, SuiteTyped DEF EvalsInv, EvalTyped, Counted, NoneOpen, InAttempt
<1>3. \A k \in DOMAIN Suite : CardsOf(k)' = CardsOf(k)
                              /\ Cardinality(CardsOf(k)) = Due(k) /\ k \in Nat
  BY <1>1, SuiteTyped DEF EvalsInv, Counted, CardsOf
<1>4. CASE attempts = Repeats[evals]
  <2>1. task' = task + 1 /\ attempts' = 0 /\ UNCHANGED <<step, card>>
    BY <1>4 DEF Scores!Start, Scores!Repeat
  <2>2. ~InAttempt'
    BY <1>2, <2>1 DEF InAttempt
  <2>3. \A k \in DOMAIN Suite : Due(k)' = Due(k)
    BY <1>1, <1>2, <1>3, <1>4, <2>1, <2>2 DEF Due, Wanted
  <2>4. EvalTyped'
    BY <1>1, <1>2, <2>1, <2>2 DEF EvalsInv, EvalTyped
  <2>5. Counted'
    BY <1>1, <1>2, <1>3, <2>1, <2>2, <2>3 DEF Counted
  <2> QED
    BY <1>1, <2>1, <2>2, <2>4, <2>5 DEF EvalsInv, TrueCards, NoneOpen
<1>5. CASE attempts # Repeats[evals]
  <2>1. /\ attempts' = attempts + 1 /\ card' = Scores!Card /\ task' = task
        /\ step' \in {"setup", "running"}
    BY <1>5 DEF Scores!Start, Scores!Repeat
  <2>2. InAttempt'
    BY <2>1 DEF InAttempt
  <2>3. \A k \in DOMAIN Suite : Due(k)' = Due(k)
    BY <1>1, <1>2, <1>3, <2>1, <2>2 DEF Due, Wanted
  <2>4. /\ Scores!Card.task = task /\ Scores!Card.passed = FALSE
        /\ Scores!Card.skipped = FALSE /\ Scores!Card.graders = <<>>
        /\ Scores!Card.status = "none" /\ Scores!Card.error = FALSE
        /\ Scores!Card \in Cards
    BY <1>2 DEF Scores!Card, Cards
  <2>5. EvalTyped'
    BY <1>1, <1>2, <2>1, <2>2, <2>4 DEF EvalsInv, EvalTyped
  <2>6. TrueCard(card)' /\ ~card'.skipped /\ ~card'.passed /\ ~card'.error
    BY <1>1, <2>1, <2>4 DEF TrueCard
  <2>7. Counted'
    BY <1>1, <1>2, <1>3, <1>5, <2>1, <2>2, <2>3 DEF Counted
  <2> QED
    BY <1>1, <1>2, <2>1, <2>2, <2>5, <2>6, <2>7 DEF EvalsInv, TrueCards, TrueCard, NoneOpen
<1> QED
  BY <1>4, <1>5

\* What happens during an attempt leaves the report alone, and grades tell the truth.
LEMMA EvalsDuring ==
    ASSUME EvalsInv,
           Scores!Setup \/ Scores!Opens \/ Scores!Grades \/ Scores!Breaks \/ Scores!Closes
    PROVE  EvalsInv'
<1>1. InAttempt /\ InAttempt' /\ UNCHANGED <<task, attempts, cards, evals>>
  BY DEF Scores!Setup, Scores!Opens, Scores!Grades, Scores!Breaks, Scores!Closes, InAttempt
<1>2. engines' \in Nat /\ NoneOpen'
  <2>1. engines \in Nat
    BY DEF EvalsInv, EvalTyped
  <2>2. step' \in {"running", "closing"}
    BY DEF Scores!Setup, Scores!Opens, Scores!Grades, Scores!Breaks, Scores!Closes
  <2>3. CASE Scores!Opens \/ Scores!Closes
    BY <2>1, <2>2, <2>3 DEF Scores!Opens, Scores!Closes, NoneOpen
  <2>4. CASE Scores!Setup \/ Scores!Grades \/ Scores!Breaks
    BY <2>1, <2>2, <2>4 DEF Scores!Setup, Scores!Grades, Scores!Breaks, NoneOpen
  <2> QED
    BY <2>3, <2>4
<1>3. card \in Cards /\ card.task = task /\ TrueCard(card) /\ ~card.skipped
      /\ task \in DOMAIN Suite
  BY <1>1 DEF EvalsInv, EvalTyped, TrueCards, Counted
<1>3a. step \in {"setup", "running"} => ~card.passed /\ ~card.error
  BY DEF EvalsInv, TrueCards
<1>4. /\ card' \in Cards /\ card'.task = task /\ TrueCard(card)' /\ ~card'.skipped
      /\ step' = "closing" => Over(card)'
      /\ step' \in {"setup", "running"} => ~card'.passed /\ ~card'.error
  <2>1. CASE Scores!Grades
    <3>1. PICK results \in [1 .. Suite[task].graded -> BOOLEAN],
               status \in {"completed", "partial"} :
             card' = [card EXCEPT !.graders = results, !.status = status,
                                  !.passed = Scores!Graded(results, status)]
      BY <2>1 DEF Scores!Grades, Scores!Current
    <3>2. Scores!Graded(results, status) \in BOOLEAN
      BY DEF Scores!Graded
    <3>3. results \in Seq(BOOLEAN) /\ (results = <<>> <=> Suite[task].graded = 0)
          /\ DOMAIN results = 1 .. Suite[task].graded
      BY <1>3, SuiteTyped
    <3>4. /\ card'.task = task /\ card'.skipped = card.skipped /\ card'.graders = results
          /\ card'.error = card.error /\ card'.status = status /\ card'.passed = Scores!Graded(results, status)
          /\ card' \in Cards
      BY <1>3, <3>1, <3>2, <3>3 DEF Cards
    <3>5. Scores!Graded(results, status) <=>
             /\ \A k \in DOMAIN results : results[k]
             /\ Suite[task].graded = 0 => status = "completed"
      BY <1>3, <3>3, SuiteTyped DEF Scores!Graded
    <3>6. ~Suite[task].missing /\ ~card.skipped /\ ~card.error /\ step' = "closing"
      BY <1>3, <1>3a, <2>1 DEF TrueCard, Scores!Grades
    <3> QED
      BY <1>3, <3>4, <3>5, <3>6 DEF TrueCard, Over
  <2>2. CASE Scores!Breaks
    <3>1. PICK graded \in 0 .. Suite[task].graded, status \in {"none", "completed", "partial"} :
            \E results \in [1 .. graded -> BOOLEAN] :
              card' = [card EXCEPT !.graders = results, !.status = status, !.error = TRUE]
      BY <2>2 DEF Scores!Breaks, Scores!Current
    <3>2. PICK results \in [1 .. graded -> BOOLEAN] :
              card' = [card EXCEPT !.graders = results, !.status = status, !.error = TRUE]
      BY <3>1
    <3>3. results \in Seq(BOOLEAN)
      BY <1>3, SuiteTyped
    <3>4. step' = "closing" /\ ~card.passed
      BY <1>3a, <2>2 DEF Scores!Breaks
    <3> QED
      BY <1>3, <3>2, <3>3, <3>4 DEF Cards, TrueCard, Over
  <2>3. CASE Scores!Setup
    <3>1. /\ card' = [card EXCEPT !.error = step' = "closing"]
          /\ step' \in {"running", "closing"} /\ ~card.passed /\ ~card.error
      BY <1>3a, <2>3 DEF Scores!Setup
    <3>2. /\ card' \in Cards /\ card'.task = task /\ card'.passed = card.passed
          /\ card'.skipped = card.skipped /\ card'.graders = card.graders
          /\ card'.status = card.status /\ card'.error = (step' = "closing")
      BY <1>3, <3>1 DEF Cards
    <3> QED
      BY <1>3, <3>1, <3>2 DEF TrueCard, Over
  <2>4. CASE Scores!Opens \/ Scores!Closes
    BY <1>3, <1>3a, <2>4 DEF Scores!Opens, Scores!Closes, TrueCard, Over, EvalsInv, TrueCards
  <2> QED
    BY <2>1, <2>2, <2>3, <2>4
<1>5. EvalTyped'
  BY <1>1, <1>2, <1>4 DEF EvalsInv, EvalTyped, InAttempt
<1>6. TrueCards'
  BY <1>1, <1>4 DEF EvalsInv, TrueCards, TrueCard
<1>7. \A k \in DOMAIN Suite : CardsOf(k)' = CardsOf(k) /\ Due(k)' = Due(k)
  BY <1>1 DEF CardsOf, Due, Wanted
<1>8. Counted'
  BY <1>1, <1>7 DEF EvalsInv, Counted, InAttempt
<1> QED
  BY <1>2, <1>5, <1>6, <1>8 DEF EvalsInv

\* The card of an attempt goes to the report.
LEMMA EvalsReport == ASSUME EvalsInv, Scores!Report PROVE EvalsInv'
<1>1. /\ step = "closing" /\ engines = 0 /\ step' = "task" /\ cards' = Append(cards, card)
      /\ UNCHANGED <<task, attempts, engines, evals>>
  BY DEF Scores!Report
<1>2. InAttempt /\ ~InAttempt'
  BY <1>1 DEF InAttempt
<1>3. /\ card \in Cards /\ card.task = task /\ TrueCard(card) /\ task \in DOMAIN Suite
      /\ ~Suite[task].missing /\ cards \in Seq(Cards) /\ attempts \in Nat /\ task \in Nat
  BY <1>2 DEF EvalsInv, EvalTyped, TrueCards, Counted, TrueCard
<1>4. PICK c \in Cards : c = card
  BY <1>3
<1>5. /\ cards' \in Seq(Cards) /\ DOMAIN cards' = DOMAIN cards \cup {Len(cards) + 1}
      /\ cards'[Len(cards) + 1] = c /\ \A j \in DOMAIN cards : cards'[j] = cards[j]
      /\ \A k \in DOMAIN Suite :
            Cardinality(CardsOf(k)') = Cardinality(CardsOf(k)) + (IF k = c.task THEN 1 ELSE 0)
  BY <1>1, <1>3, <1>4, CardMore
<1>6. TrueCard(c) /\ Over(c)
  BY <1>1, <1>3, <1>4 DEF EvalsInv, TrueCards
<1>7. ASSUME NEW k \in DOMAIN Suite PROVE Cardinality(CardsOf(k)') = Due(k)'
  <2>1. k \in Nat /\ Cardinality(CardsOf(k)) = Due(k)
    BY <1>1, SuiteTyped DEF EvalsInv, Counted
  <2>2. CASE k = task
    BY <1>1, <1>2, <1>3, <1>4, <1>5, <2>1, <2>2 DEF Due
  <2>3. CASE k # task
    <3>1. Due(k)' = Due(k) /\ Due(k) \in Nat
      BY <1>1, <1>2, <1>3, <2>1, <2>3, SuiteTyped DEF Due, Wanted, EvalsInv, EvalTyped
    <3> QED
      BY <1>3, <1>4, <1>5, <2>1, <2>3, <3>1
  <2> QED
    BY <2>2, <2>3
<1>8. EvalTyped'
  BY <1>1, <1>2, <1>5 DEF EvalsInv, EvalTyped
<1>9. TrueCards'
  BY <1>1, <1>2, <1>5, <1>6 DEF EvalsInv, TrueCards
<1>10. Counted'
  BY <1>1, <1>2, <1>3, <1>7 DEF EvalsInv, Counted
<1> QED
  BY <1>1, <1>8, <1>9, <1>10 DEF EvalsInv, NoneOpen

\* The suite is through, and its scores are recorded.
LEMMA EvalsDone == ASSUME EvalsInv, Scores!Finish \/ Scores!Record PROVE EvalsInv'
<1>1. /\ step \in {"task", "append"} /\ step' \in {"append", "exit"}
      /\ UNCHANGED <<task, attempts, card, cards, engines, evals>>
  BY DEF Scores!Finish, Scores!Record
<1>2. task > Len(Suite)
  BY <1>1 DEF Scores!Finish, Scores!Record, EvalsInv, Counted
<1>3. ~InAttempt /\ ~InAttempt'
  BY <1>1 DEF InAttempt
<1>4. \A k \in DOMAIN Suite : CardsOf(k)' = CardsOf(k) /\ Due(k)' = Due(k)
  BY <1>1, <1>3 DEF CardsOf, Due, Wanted
<1>5. Counted'
  BY <1>1, <1>2, <1>3, <1>4 DEF EvalsInv, Counted
<1>6. EvalTyped'
  BY <1>1, <1>3 DEF EvalsInv, EvalTyped
<1> QED
  BY <1>1, <1>3, <1>5, <1>6 DEF EvalsInv, TrueCards, NoneOpen

LEMMA EvalsKept == ASSUME EvalsInv, [Scores!Next]_evaluation PROVE EvalsInv'
<1>1. CASE UNCHANGED evaluation
  <2>1. UNCHANGED <<step, task, attempts, card, cards, engines, evals>>
    BY <1>1 DEF evaluation
  <2> QED
    BY <2>1 DEF EvalsInv, EvalTyped, TrueCards, Counted, NoneOpen, InAttempt, Due, Wanted,
                CardsOf, TrueCard
<1>2. CASE Scores!Next
  BY <1>2, EvalsEnd, EvalsStart, EvalsSkip, EvalsAttempt, EvalsDuring, EvalsReport, EvalsDone
     DEF Scores!Next
<1> QED
  BY <1>1, <1>2

\* Counting those that did not fail tells whether all did not.
LEMMA EvalsFollow ==
    ASSUME EvalsInv PROVE Scores!AllReported /\ Scores!GreenMeansPassed /\ Scores!EnginesClosed
<1>1. Scores!EnginesClosed
  BY DEF EvalsInv, NoneOpen, Scores!EnginesClosed
<1>2. Scores!AllReported
  <2> SUFFICES ASSUME step = "exit", NEW k \in DOMAIN Suite
               PROVE  Cardinality(CardsOf(k)) = IF Suite[k].missing THEN 1 ELSE Repeats[evals]
    BY EvalCount DEF Scores!AllReported, Scores!Repeat, CardsOf
  <2>1. Cardinality(CardsOf(k)) = Due(k) /\ task > Len(Suite) /\ task \in Nat
    BY DEF EvalsInv, Counted, EvalTyped
  <2>2. k < task
    BY <2>1, SuiteTyped
  <2> QED
    BY <2>1, <2>2 DEF Due, Wanted
<1>3. Scores!GreenMeansPassed
  <2> DEFINE Fine(c) == \/ Suite[cards[c].task].missing
                        \/ /\ ~cards[c].error
                           /\ \A k \in DOMAIN cards[c].graders : cards[c].graders[k]
                           /\ Suite[cards[c].task].graded = 0 => cards[c].status = "completed"
             fine == {c \in DOMAIN cards : cards[c].passed \/ cards[c].skipped}
  <2>1. cards \in Seq(Cards)
    BY DEF EvalsInv, EvalTyped
  <2>2. /\ IsFiniteSet(DOMAIN cards) /\ Cardinality(DOMAIN cards) = Len(cards)
    BY <2>1, PlacesFinite
  <2>3. \A c \in DOMAIN cards : c \in fine <=> Fine(c)
    <3> SUFFICES ASSUME NEW c \in DOMAIN cards
                 PROVE  (cards[c].passed \/ cards[c].skipped) <=> Fine(c)
      OBVIOUS
    <3>1. TrueCard(cards[c]) /\ Over(cards[c])
      BY DEF EvalsInv, TrueCards
    <3> QED
      BY <3>1 DEF TrueCard, Over
  <2>4. Scores!Green <=> Cardinality(fine) = Len(cards)
    BY EvalCount DEF Scores!Green, Scores!Count, Scores!NotFailed
  <2>5. Cardinality(fine) = Cardinality(DOMAIN cards) <=> fine = DOMAIN cards
    <3> HIDE DEF fine
    <3>1. fine \subseteq DOMAIN cards
      BY DEF fine
    <3> QED
      BY <2>2, <3>1, FS_Subset
  <2>6. Scores!Green <=> \A c \in DOMAIN cards : Fine(c)
    BY <2>2, <2>3, <2>4, <2>5
  <2> QED
    BY <2>6 DEF Scores!GreenMeansPassed
<1> QED
  BY <1>1, <1>2, <1>3

-----------------------------------------------------------------------------
(* The history of the scores. *)

\* The lines of the file are results, whole or cut; a file that does not end with a line break
\* ends with a cut one; and what parses is what was recorded.
Results == [sha : Shas, suite : Suites, id : Nat, passed : Nat, runs : Nat]
Lines   == [whole : BOOLEAN, entry : Results]
WholeLines == {k \in DOMAIN lines : lines[k].whole}

HistoryInv ==
    /\ sha \in Shas /\ suite \in Suites /\ newline \in BOOLEAN
    /\ lines \in Seq(Lines) /\ recorded \in Seq(Results)
    /\ ~newline => lines # <<>> /\ ~lines[Len(lines)].whole
    /\ Scores!HistoryKept

\* How many places of K come up to k, and the place that comes n-th.
RankIn(K, k) == Cardinality({j \in K : j <= k})
Place(K, n) == CHOOSE k \in K : RankIn(K, k) = n

\* The places of a finite set have the ranks from 1 up, each one of them, in their order.
LEMMA RanksOf ==
    ASSUME NEW K \in SUBSET Nat, IsFiniteSet(K)
    PROVE  /\ Cardinality(K) \in Nat
           /\ \A j, k \in K : j < k => RankIn(K, j) < RankIn(K, k)
           /\ \A k \in K : RankIn(K, k) \in 1 .. Cardinality(K)
           /\ \A n \in 1 .. Cardinality(K) : Place(K, n) \in K /\ RankIn(K, Place(K, n)) = n
<1> DEFINE upTo(k) == {j \in K : j <= k}
           ranks == 1 .. Cardinality(K)
           r == [k \in K |-> RankIn(K, k)]
<1>1. Cardinality(K) \in Nat
  BY FS_CardinalityType
<1>2. ASSUME NEW k \in K
      PROVE  /\ k \in upTo(k) /\ IsFiniteSet(upTo(k)) /\ RankIn(K, k) = Cardinality(upTo(k))
             /\ RankIn(K, k) \in ranks
  <2>1. upTo(k) \subseteq K /\ k \in upTo(k) /\ RankIn(K, k) = Cardinality(upTo(k))
    BY DEF RankIn
  <2> HIDE DEF upTo
  <2>2. IsFiniteSet(upTo(k)) /\ Cardinality(upTo(k)) <= Cardinality(K)
    BY <2>1, FS_Subset
  <2>3. Cardinality(upTo(k)) \in Nat /\ Cardinality(upTo(k)) # 0
    BY <2>1, <2>2, FS_CardinalityType, FS_EmptySet
  <2> QED
    BY <1>1, <2>1, <2>2, <2>3
<1>3. ASSUME NEW j \in K, NEW k \in K, j < k PROVE RankIn(K, j) < RankIn(K, k)
  <2>1. upTo(j) \subseteq upTo(k) /\ k \notin upTo(j)
    <3>1. j \in Nat /\ k \in Nat /\ ~(k <= j)
      BY <1>3
    <3>2. \A i \in K : i <= j => i <= k
      BY <1>3
    <3> QED
      BY <3>1, <3>2
  <2> HIDE DEF upTo
  <2>2. Cardinality(upTo(j)) <= Cardinality(upTo(k)) /\ Cardinality(upTo(j)) # Cardinality(upTo(k))
    BY <1>2, <2>1, FS_Subset
  <2> QED
    BY <1>2, <2>2
<1>4. \A n \in ranks : \E k \in K : RankIn(K, k) = n
  <2>1. r \in [K -> ranks]
    BY <1>2
  <2>2. ASSUME NEW j \in K, NEW k \in K, r[j] = r[k] PROVE j = k
    <3>1. RankIn(K, j) = RankIn(K, k) /\ RankIn(K, j) \in Nat
      <4>1. RankIn(K, j) \in ranks
        BY <1>2
      <4> QED
        BY <1>1, <2>2, <4>1
    <3>2. ~(j < k) /\ ~(k < j)
      BY <1>3, <3>1
    <3> QED
      BY <3>2
  <2>3. IsFiniteSet(ranks) /\ Cardinality(ranks) = Cardinality(K)
    BY <1>1, FS_Interval
  <2>4. r \in Surjection(K, ranks)
    <3> HIDE DEF r, ranks
    <3>1. r \in Injection(K, ranks)
      BY <2>1, <2>2, Fun_IsInj
    <3> QED
      BY <2>3, <3>1, FS_Injection
  <2>5. \A n \in ranks : \E k \in K : r[k] = n
    <3> HIDE DEF r, ranks
    <3> QED
      BY <2>4, Fun_SurjectionProperties
  <2> QED
    BY <2>5
<1>5. \A n \in ranks : Place(K, n) \in K /\ RankIn(K, Place(K, n)) = n
  BY <1>4 DEF Place
<1> QED
  BY <1>1, <1>2, <1>3, <1>5

LEMMA RanksApart ==
    ASSUME NEW K \in SUBSET Nat, IsFiniteSet(K)
    PROVE  \A j, k \in K : RankIn(K, j) = RankIn(K, k) => j = k
<1>1. /\ \A j, k \in K : j < k => RankIn(K, j) < RankIn(K, k)
      /\ \A k \in K : k \in Nat /\ RankIn(K, k) \in 1 .. Cardinality(K)
      /\ Cardinality(K) \in Nat
  BY RanksOf
<1> SUFFICES ASSUME NEW j \in K, NEW k \in K, RankIn(K, j) = RankIn(K, k) PROVE j = k
  OBVIOUS
<1>2. ~(j < k) /\ ~(k < j) /\ j \in Nat /\ k \in Nat
  BY <1>1
<1> QED
  BY <1>2

\* What is kept is found at the places of K, which come in their order.
LEMMA KeptPlaces ==
    ASSUME NEW K \in SUBSET Nat, IsFiniteSet(K)
    PROVE  /\ \A s : Scores!Kept(s, K) = [n \in 1 .. Cardinality(K) |-> s[Place(K, n)]]
           /\ \A m, n \in 1 .. Cardinality(K) : m < n => Place(K, m) < Place(K, n)
           /\ \A k \in K : \E n \in 1 .. Cardinality(K) : Place(K, n) = k
<1>1. \A s : Scores!Kept(s, K) = [n \in 1 .. Cardinality(K) |-> s[Place(K, n)]]
  BY Zenon DEF Scores!Kept, Place, RankIn, Scores!Cardinality, Cardinality
<1>2. /\ \A j, k \in K : j < k => RankIn(K, j) < RankIn(K, k)
      /\ \A k \in K : k \in Nat /\ RankIn(K, k) \in 1 .. Cardinality(K)
      /\ \A n \in 1 .. Cardinality(K) : Place(K, n) \in K /\ RankIn(K, Place(K, n)) = n
      /\ Cardinality(K) \in Nat
  BY RanksOf
<1>a. \A j, k \in K : RankIn(K, j) = RankIn(K, k) => j = k
  BY RanksApart
<1>3. ASSUME NEW m \in 1 .. Cardinality(K), NEW n \in 1 .. Cardinality(K), m < n
      PROVE  Place(K, m) < Place(K, n)
  <2>1. PICK a \in K : a = Place(K, m) /\ RankIn(K, a) = m
    BY <1>2
  <2>2. PICK b \in K : b = Place(K, n) /\ RankIn(K, b) = n
    BY <1>2
  <2>3. m \in Nat /\ n \in Nat /\ a \in Nat /\ b \in Nat
    BY <1>2
  <2>4. ~(b < a) /\ a # b
    BY <1>2, <1>3, <2>1, <2>2, <2>3
  <2> QED
    BY <2>1, <2>2, <2>3, <2>4
<1>4. ASSUME NEW k \in K PROVE \E n \in 1 .. Cardinality(K) : Place(K, n) = k
  <2>1. RankIn(K, k) \in 1 .. Cardinality(K)
    BY <1>2
  <2>2. Place(K, RankIn(K, k)) = k
    BY <1>2, <1>a, <2>1
  <2> QED
    BY <2>1, <2>2
<1> QED
  BY <1>1, <1>3, <1>4

\* Places of a list, and what is kept of it.
LEMMA KeptOf ==
    ASSUME NEW S, NEW s \in Seq(S), NEW K \in SUBSET DOMAIN s
    PROVE  /\ IsFiniteSet(K) /\ K \in SUBSET Nat /\ Cardinality(K) \in Nat
           /\ Scores!Kept(s, K) \in Seq(S) /\ Len(Scores!Kept(s, K)) = Cardinality(K)
           /\ \A n \in 1 .. Cardinality(K) :
                 Place(K, n) \in K /\ Scores!Kept(s, K)[n] = s[Place(K, n)]
<1>1. IsFiniteSet(K) /\ K \in SUBSET Nat
  BY PlacesFinite, FS_Subset
<1>2. /\ Cardinality(K) \in Nat /\ \A n \in 1 .. Cardinality(K) : Place(K, n) \in K
      /\ Scores!Kept(s, K) = [n \in 1 .. Cardinality(K) |-> s[Place(K, n)]]
  BY <1>1, RanksOf, KeptPlaces
<1>3. \A n \in 1 .. Cardinality(K) : s[Place(K, n)] \in S
  BY <1>2
<1>4. Scores!Kept(s, K) \in Seq(S) /\ Len(Scores!Kept(s, K)) = Cardinality(K)
  BY <1>2, <1>3
<1> QED
  BY <1>1, <1>2, <1>4

\* What is added at the end of a list changes nothing in what is kept of the rest.
LEMMA KeptSame ==
    ASSUME NEW S, NEW s \in Seq(S), NEW K \in SUBSET DOMAIN s, NEW e \in S
    PROVE  Scores!Kept(Append(s, e), K) = Scores!Kept(s, K)
<1> DEFINE c == Cardinality(K)
           t == Append(s, e)
<1>1. \A k \in DOMAIN s : t[k] = s[k]
  OBVIOUS
<1> HIDE DEF t
<1>2. /\ IsFiniteSet(K) /\ K \in SUBSET Nat /\ c \in Nat
  BY KeptOf
<1>3. \A u : Scores!Kept(u, K) = [n \in 1 .. c |-> u[Place(K, n)]]
  BY <1>2, KeptPlaces
<1>4. \A n \in 1 .. c : Place(K, n) \in K
  BY <1>2, RanksOf
<1>5. \A n \in 1 .. c : t[Place(K, n)] = s[Place(K, n)]
  BY <1>1, <1>4
<1> QED
  BY <1>3, <1>5 DEF t

\* When it is kept as well, it comes at the end of what is kept.
LEMMA KeptMore ==
    ASSUME NEW S, NEW s \in Seq(S), NEW K \in SUBSET DOMAIN s, NEW e \in S
    PROVE  Append(Scores!Kept(s, K), e) = Scores!Kept(Append(s, e), K \cup {Len(s) + 1})
<1> DEFINE t == Append(s, e)
           L == Len(s) + 1
           M == K \cup {L}
           c == Cardinality(K)
<1>1. /\ Len(s) \in Nat /\ L = Len(s) + 1 /\ L \in Nat /\ DOMAIN t = 1 .. L
      /\ t \in Seq(S) /\ t[L] = e
      /\ \A k \in DOMAIN s : t[k] = s[k]
      /\ K \subseteq 1 .. Len(s) /\ DOMAIN s = 1 .. Len(s)
  OBVIOUS
<1>2. /\ L \notin K /\ \A k \in K : k \in Nat /\ k < L
      /\ K \in SUBSET DOMAIN t /\ M \in SUBSET DOMAIN t
  BY <1>1
<1> HIDE DEF L, t
<1>3. /\ IsFiniteSet(K) /\ K \in SUBSET Nat /\ c \in Nat
      /\ IsFiniteSet(M) /\ M \in SUBSET Nat /\ Cardinality(M) = c + 1
  <2>1. IsFiniteSet(K) /\ K \in SUBSET Nat /\ c \in Nat
    BY KeptOf
  <2>2. IsFiniteSet(M) /\ Cardinality(M) = c + 1
    BY <1>2, <2>1, FS_AddElement
  <2> QED
    BY <1>1, <2>1, <2>2
<1>4. /\ Scores!Kept(s, K) = [n \in 1 .. c |-> s[Place(K, n)]]
      /\ Scores!Kept(t, K) = [n \in 1 .. c |-> t[Place(K, n)]]
      /\ Scores!Kept(t, M) = [n \in 1 .. c + 1 |-> t[Place(M, n)]]
  <2>1. \A u : Scores!Kept(u, K) = [n \in 1 .. c |-> u[Place(K, n)]]
    BY <1>3, KeptPlaces
  <2>2. \A u : Scores!Kept(u, M) = [n \in 1 .. Cardinality(M) |-> u[Place(M, n)]]
    BY <1>3, KeptPlaces
  <2> QED
    BY <1>3, <2>1, <2>2
<1>5. \A n \in 1 .. c : Place(K, n) \in K /\ RankIn(K, Place(K, n)) = n
  BY <1>3, RanksOf
<1>7. \A k \in K : RankIn(M, k) = RankIn(K, k)
  <2> SUFFICES ASSUME NEW k \in K PROVE {j \in M : j <= k} = {j \in K : j <= k}
    BY DEF RankIn
  <2>1. ~(L <= k)
    BY <1>1, <1>2
  <2> QED
    BY <2>1
<1>8. RankIn(M, L) = c + 1
  <2>1. {j \in M : j <= L} = M
    BY <1>1, <1>2
  <2> QED
    BY <1>3, <2>1 DEF RankIn
<1> HIDE DEF M, c
<1>9. \A j, k \in M : RankIn(M, j) = RankIn(M, k) => j = k
  BY <1>3, RanksApart
<1>10. \A n \in 1 .. c + 1 : Place(M, n) \in M /\ RankIn(M, Place(M, n)) = n
  BY <1>3, RanksOf
<1>11. K \subseteq M /\ L \in M
  BY DEF M
<1>12. \A n \in 1 .. c : Place(M, n) = Place(K, n)
  <2> SUFFICES ASSUME NEW n \in 1 .. c PROVE Place(M, n) = Place(K, n)
    OBVIOUS
  <2>1. n \in 1 .. c + 1
    BY <1>3
  <2> QED
    BY <1>5, <1>7, <1>9, <1>10, <1>11, <2>1
<1>13. Place(M, c + 1) = L
  <2>1. c + 1 \in 1 .. c + 1
    BY <1>3
  <2> QED
    BY <1>8, <1>9, <1>10, <1>11, <2>1
<1>14. Scores!Kept(s, K) \in Seq(S) /\ Len(Scores!Kept(s, K)) = c
  BY KeptOf DEF c
<1>15. Scores!Kept(t, M) \in Seq(S) /\ Len(Scores!Kept(t, M)) = c + 1
  BY <1>1, <1>2, <1>3, KeptOf
<1>16. \A n \in 1 .. c + 1 : Scores!Kept(t, M)[n] = t[Place(M, n)]
  BY <1>4
<1>17. Scores!Kept(t, M)[c + 1] = t[L]
  BY <1>1, <1>3, <1>13, <1>16
<1>18. \A n \in 1 .. c : Scores!Kept(t, M)[n] = Scores!Kept(s, K)[n]
  <2> SUFFICES ASSUME NEW n \in 1 .. c PROVE Scores!Kept(t, M)[n] = Scores!Kept(s, K)[n]
    OBVIOUS
  <2>1. Scores!Kept(s, K)[n] = s[Place(K, n)] /\ Place(K, n) \in K
    BY <1>4, <1>5
  <2>2. n \in 1 .. c + 1
    BY <1>3
  <2> QED
    BY <1>1, <1>12, <1>16, <2>1, <2>2
<1>19. Scores!Kept(t, M) = Append(Scores!Kept(s, K), e)
  <2> DEFINE u == Scores!Kept(t, M)
             v == Scores!Kept(s, K)
             w == Append(v, e)
  <2>2. w \in Seq(S) /\ Len(w) = c + 1 /\ w[c + 1] = e /\ \A n \in 1 .. c : w[n] = v[n]
    BY <1>14, AppendProperties
  <2>3. \A n \in 1 .. c + 1 : u[n] = w[n]
    BY <1>1, <1>3, <1>17, <1>18, <2>2
  <2> QED
    BY <1>15, <2>2, <2>3, SeqEqual
<1> QED
  BY <1>19 DEF M, L, t

\* What the file holds when a line is appended to it.
LEMMA LineMore ==
    ASSUME lines \in Seq(Lines), NEW e \in Results, NEW good \in BOOLEAN,
           lines' = Append(lines, [whole |-> good, entry |-> e])
    PROVE  /\ lines' \in Seq(Lines) /\ lines' # <<>> /\ lines'[Len(lines')].whole = good
           /\ Scores!Loaded \in Seq(Results)
           /\ Scores!Loaded' = IF good THEN Append(Scores!Loaded, e) ELSE Scores!Loaded
<1>a. PICK x : x = [whole |-> good, entry |-> e]
  OBVIOUS
<1> DEFINE sound == Scores!Kept(lines, WholeLines)
           L == Len(lines) + 1
<1>1. x \in Lines /\ x.whole = good /\ x.entry = e /\ lines' = Append(lines, x)
  BY <1>a DEF Lines
<1>2. /\ lines' \in Seq(Lines) /\ Len(lines) \in Nat /\ Len(lines') = L /\ L \in Nat
      /\ DOMAIN lines = 1 .. Len(lines) /\ DOMAIN lines' = 1 .. L /\ lines'[L] = x
      /\ \A k \in DOMAIN lines : lines'[k] = lines[k]
  BY <1>1
<1>3. /\ WholeLines \in SUBSET DOMAIN lines
      /\ WholeLines' = IF good THEN WholeLines \cup {L} ELSE WholeLines
  BY <1>1, <1>2 DEF WholeLines
<1>4. sound \in Seq(Lines)
  BY <1>3, KeptOf
<1> DEFINE Entries(s) == [k \in DOMAIN s |-> s[k].entry]
<1>5. Scores!Kept(lines', WholeLines') = IF good THEN Append(sound, x) ELSE sound
  <2>1. Scores!Kept(lines', WholeLines) = sound
    BY <1>1, <1>3, KeptSame
  <2>2. Append(sound, x) = Scores!Kept(lines', WholeLines \cup {L})
    <3>1. lines \in Seq(Lines) /\ WholeLines \in SUBSET DOMAIN lines /\ x \in Lines
      BY <1>1, <1>3
    <3>2. Append(Scores!Kept(lines, WholeLines), x)
            = Scores!Kept(Append(lines, x), WholeLines \cup {Len(lines) + 1})
      BY <3>1, KeptMore
    <3> QED
      BY <1>1, <3>2
  <2> QED
    BY <1>2, <1>3, <2>1, <2>2
<1>6. Scores!Loaded = Entries(sound) /\ Scores!Loaded' = Entries(Scores!Kept(lines', WholeLines'))
  BY DEF Scores!Loaded, WholeLines
<1> HIDE DEF sound
<1>7. ASSUME NEW s \in Seq(Lines)
      PROVE  /\ Entries(s) \in Seq(Results) /\ Len(Entries(s)) = Len(s)
             /\ Entries(Append(s, x)) = Append(Entries(s), e)
  <2>1. /\ Len(s) \in Nat /\ DOMAIN s = 1 .. Len(s) /\ \A k \in DOMAIN s : s[k] \in Lines
    OBVIOUS
  <2>2. \A k \in DOMAIN s : s[k].entry \in Results
    BY <2>1 DEF Lines
  <2>3. Entries(s) \in Seq(Results) /\ Len(Entries(s)) = Len(s)
    BY <2>1, <2>2
  <2>4. /\ DOMAIN Append(s, x) = 1 .. Len(s) + 1 /\ Append(s, x)[Len(s) + 1] = x
        /\ \A k \in 1 .. Len(s) : Append(s, x)[k] = s[k]
    BY <1>1, <2>1
  <2>5. Append(Entries(s), e) = [k \in 1 .. Len(s) + 1 |-> IF k = Len(s) + 1 THEN e ELSE s[k].entry]
    BY <2>1, <2>3
  <2>6. \A k \in 1 .. Len(s) + 1 :
            Append(s, x)[k].entry = IF k = Len(s) + 1 THEN e ELSE s[k].entry
    BY <1>1, <2>1, <2>4
  <2> QED
    BY <2>3, <2>4, <2>5, <2>6
<1>8. Scores!Loaded \in Seq(Results)
  BY <1>4, <1>6, <1>7
<1>9. Scores!Loaded' = IF good THEN Append(Scores!Loaded, e) ELSE Scores!Loaded
  BY <1>4, <1>5, <1>6, <1>7
<1>10. lines' # <<>>
  BY <1>2
<1> QED
  BY <1>1, <1>2, <1>8, <1>9, <1>10

LEMMA HistoryBegins == ASSUME Scores!Init PROVE HistoryInv
<1>1. /\ sha \in Shas /\ suite \in Suites /\ newline = TRUE /\ lines = <<>> /\ recorded = <<>>
  BY DEF Scores!Init
<1>2. WholeLines = {} /\ WholeLines \in SUBSET DOMAIN lines /\ lines \in Seq(Lines)
  BY <1>1 DEF WholeLines
<1>3. Cardinality({}) = 0
  BY FS_EmptySet
<1>4. Scores!Kept(lines, WholeLines) \in Seq(Lines) /\ Len(Scores!Kept(lines, WholeLines)) = 0
  BY <1>2, <1>3, KeptOf
<1>5. Scores!Loaded = <<>>
  <2>1. DOMAIN Scores!Kept(lines, WholeLines) = {}
    BY <1>4
  <2>2. Scores!Loaded = [k \in {} |-> Scores!Kept(lines, WholeLines)[k].entry]
    BY <2>1 DEF Scores!Loaded, WholeLines
  <2> QED
    BY <2>2
<1> QED
  BY <1>1, <1>2, <1>5 DEF HistoryInv, Scores!HistoryKept

\* An entry says how many cards passed, of how many there were.
LEMMA EntryTyped == ASSUME EvalTyped, HistoryInv PROVE Scores!Entry \in Results
<1>1. ASSUME NEW K \in SUBSET DOMAIN cards PROVE Cardinality(K) \in Nat
  BY PlacesFinite, FS_Subset, FS_CardinalityType DEF EvalTyped
<1>2. /\ Scores!Count(cards, Scores!Passed) = Cardinality({k \in DOMAIN cards : cards[k].passed})
      /\ Scores!Count(cards, Scores!Attempted)
            = Cardinality({k \in DOMAIN cards : ~cards[k].skipped})
  BY EvalCount DEF Scores!Count, Scores!Passed, Scores!Attempted
<1>3. /\ Scores!Count(cards, Scores!Passed) \in Nat
      /\ Scores!Count(cards, Scores!Attempted) \in Nat
  BY <1>1, <1>2
<1> QED
  BY <1>3 DEF Scores!Entry, Results, EvalTyped, HistoryInv

\* A line appended to a file that ends within a line spoils that line, which is cut already.
LEMMA HistoryAppends ==
    ASSUME EvalTyped, HistoryInv, NEW good \in BOOLEAN, lines' = Scores!Appended(good)
    PROVE  /\ lines' \in Seq(Lines) /\ lines' # <<>>
           /\ ~(newline /\ good) => ~lines'[Len(lines')].whole
           /\ Scores!Loaded' = IF newline /\ good THEN Append(recorded, Scores!Entry) ELSE recorded
<1>1. Scores!Entry \in Results
  BY EntryTyped
<1>2. CASE newline
  <2>1. lines' = Append(lines, [whole |-> good, entry |-> Scores!Entry])
    BY <1>2 DEF Scores!Appended
  <2> HIDE DEF Scores!Entry
  <2> QED
    BY <1>1, <1>2, <2>1, LineMore DEF HistoryInv, Scores!HistoryKept
<1>3. CASE ~newline
  <2>1. /\ lines \in Seq(Lines) /\ lines # <<>> /\ ~lines[Len(lines)].whole
        /\ lines' = [lines EXCEPT ![Len(lines)].whole = FALSE]
    BY <1>3 DEF HistoryInv, Scores!Appended
  <2>2. Len(lines) \in DOMAIN lines /\ lines[Len(lines)] \in Lines
    BY <2>1
  <2>3. [lines[Len(lines)] EXCEPT !.whole = FALSE] = lines[Len(lines)]
    BY <2>1, <2>2 DEF Lines
  <2>4. lines' = lines
    BY <2>1, <2>2, <2>3
  <2>5. Scores!Loaded' = Scores!Loaded
    BY <2>4 DEF Scores!Loaded
  <2> QED
    BY <1>3, <2>1, <2>4, <2>5 DEF HistoryInv, Scores!HistoryKept
<1> QED
  BY <1>2, <1>3

LEMMA HistoryStays ==
    ASSUME HistoryInv, lines' = lines, newline' = newline, recorded' = recorded,
           sha' \in Shas, suite' \in Suites
    PROVE  HistoryInv'
<1>1. Scores!Loaded' = Scores!Loaded
  BY DEF Scores!Loaded
<1> QED
  BY <1>1 DEF HistoryInv, Scores!HistoryKept

LEMMA HistoryStep ==
    ASSUME EvalsInv, HistoryInv, [Scores!Next]_evaluation PROVE HistoryInv'
<1> USE DEF Scores!file_vars
<1>1. CASE UNCHANGED evaluation
  <2>1. UNCHANGED <<lines, newline, recorded, sha, suite>>
    BY <1>1 DEF evaluation
  <2> QED
    BY <2>1, HistoryStays DEF HistoryInv
<1>2. CASE Scores!Record
  <2>1. /\ lines' = Scores!Appended(TRUE) /\ newline' = TRUE /\ UNCHANGED <<sha, suite>>
        /\ recorded' = IF newline THEN Append(recorded, Scores!Entry) ELSE recorded
    BY <1>2 DEF Scores!Record
  <2>2. EvalTyped /\ Scores!Entry \in Results
    BY EntryTyped DEF EvalsInv
  <2>3. lines' \in Seq(Lines) /\ Scores!Loaded' = recorded'
    BY <2>1, <2>2, HistoryAppends
  <2>4. recorded' \in Seq(Results)
    BY <2>1, <2>2 DEF HistoryInv
  <2> QED
    BY <2>1, <2>3, <2>4 DEF HistoryInv, Scores!HistoryKept
<1>3. CASE Scores!Crash
  <2>1. UNCHANGED <<sha, suite, recorded>>
    BY <1>3 DEF Scores!Crash
  <2>2. CASE step = "append"
    <3>1. lines' = Scores!Appended(FALSE) /\ newline' = FALSE
      BY <1>3, <2>2 DEF Scores!Crash
    <3>2. EvalTyped
      BY DEF EvalsInv
    <3>3. /\ lines' \in Seq(Lines) /\ lines' # <<>> /\ ~lines'[Len(lines')].whole
          /\ Scores!Loaded' = recorded
      BY <3>1, <3>2, HistoryAppends
    <3> QED
      BY <2>1, <3>1, <3>3 DEF HistoryInv, Scores!HistoryKept
  <2>3. CASE step # "append"
    <3>1. UNCHANGED <<lines, newline>>
      BY <1>3, <2>3 DEF Scores!Crash
    <3> QED
      BY <2>1, <3>1, HistoryStays DEF HistoryInv
  <2> QED
    BY <2>2, <2>3
<1>4. CASE Scores!Commit \/ Scores!Begin
  <2>1. /\ UNCHANGED <<lines, newline, recorded>> /\ sha' \in Shas \cup {sha}
        /\ suite' \in Suites \cup {suite}
    BY <1>4 DEF Scores!Commit, Scores!Begin
  <2> QED
    BY <2>1, HistoryStays DEF HistoryInv
<1>5. CASE \/ Scores!Skip \/ Scores!Start \/ Scores!Setup \/ Scores!Opens \/ Scores!Grades
           \/ Scores!Breaks \/ Scores!Closes \/ Scores!Report \/ Scores!Dies \/ Scores!Finish
           \/ Scores!Exit
  <2>1. UNCHANGED <<lines, newline, recorded, sha, suite>>
    BY <1>5 DEF Scores!Skip, Scores!Start, Scores!Setup, Scores!Opens, Scores!Grades,
                Scores!Breaks, Scores!Closes, Scores!Report, Scores!Dies, Scores!Finish,
                Scores!Exit
  <2> QED
    BY <2>1, HistoryStays DEF HistoryInv
<1> QED
  BY <1>1, <1>2, <1>3, <1>4, <1>5 DEF Scores!Next

-----------------------------------------------------------------------------
(* The series of a suite. *)

\* What holds of 0, and of every next one, holds of every number.
LEMMA AllNumbers ==
    ASSUME NEW T, 0 \in T, \A n \in Nat : n \in T => n + 1 \in T PROVE Nat \subseteq T
<1> DEFINE Left == Nat \ T
<1>1. CASE Left = {}
  BY <1>1
<1>2. CASE Left # {}
  <2>1. PICK m \in Left : \A n \in Left : m <= n
    BY <1>2, LeastOne
  <2>2. m \in Nat /\ m # 0 /\ m \notin T
    BY <2>1
  <2>3. m - 1 \in Nat /\ ~(m <= m - 1) /\ (m - 1) + 1 = m
    BY <2>2
  <2>4. m - 1 \in T
    BY <2>1, <2>3
  <2> QED
    BY <2>2, <2>3, <2>4
<1> QED
  BY <1>1, <1>2

\* The series with one entry more, and a table of the series of the first k entries of s.
With(r, e) == Append(Scores!Kept(r, {j \in DOMAIN r : r[j].sha # e.sha}), e)
Grown(s, n, g) == g = [k \in 0 .. n |-> IF k = 0 THEN <<>> ELSE With(g[k - 1], s[k])]

LEMMA TableThere == ASSUME NEW s PROVE \A n \in Nat : \E g : Grown(s, n, g)
<1> DEFINE T == {n \in Nat : \E g : Grown(s, n, g)}
<1>1. 0 \in T
  <2> DEFINE g == [k \in 0 .. 0 |-> <<>>]
  <2>1. Grown(s, 0, g)
    BY DEF Grown
  <2> QED
    BY <2>1
<1>2. ASSUME NEW n \in Nat, n \in T PROVE n + 1 \in T
  <2>1. PICK g : Grown(s, n, g)
    BY <1>2
  <2> DEFINE h == [k \in 0 .. n + 1 |-> IF k <= n THEN g[k] ELSE With(g[n], s[n + 1])]
             u == [k \in 0 .. n + 1 |-> IF k = 0 THEN <<>> ELSE With(h[k - 1], s[k])]
  <2>2. ASSUME NEW k \in 0 .. n + 1 PROVE h[k] = u[k]
    <3>1. CASE k = 0
      <4>1. k <= n /\ g[k] = <<>>
        BY <2>1, <3>1 DEF Grown
      <4> QED
        BY <3>1, <4>1
    <3>2. CASE k # 0 /\ k <= n
      <4>1. k \in 0 .. n /\ k - 1 \in 0 .. n + 1 /\ k - 1 <= n
        BY <3>2
      <4>2. g[k] = With(g[k - 1], s[k]) /\ h[k - 1] = g[k - 1] /\ h[k] = g[k]
        BY <2>1, <3>2, <4>1 DEF Grown
      <4> QED
        BY <3>2, <4>1, <4>2
    <3>3. CASE k = n + 1
      <4>1. k - 1 = n /\ n \in 0 .. n + 1 /\ ~(k <= n) /\ k # 0
        BY <3>3
      <4>2. h[n] = g[n] /\ h[k] = With(g[n], s[k]) /\ u[k] = With(h[n], s[k])
        BY <3>3, <4>1
      <4> QED
        BY <4>2
    <3> QED
      BY <3>1, <3>2, <3>3
  <2>3. h = u
    BY <2>2
  <2>4. Grown(s, n + 1, h)
    BY <2>3, Zenon DEF Grown
  <2> QED
    BY <2>4
<1> HIDE DEF T
<1>3. Nat \subseteq T
  BY <1>1, <1>2, AllNumbers
<1> QED
  BY <1>3 DEF T

LEMMA SeriesOf ==
    ASSUME NEW s, Len(s) \in Nat PROVE \E g : Grown(s, Len(s), g) /\ Scores!Series(s) = g[Len(s)]
<1> DEFINE table == CHOOSE g : Grown(s, Len(s), g)
<1>1. Grown(s, Len(s), table)
  BY TableThere
<1>2. Scores!Series(s) = table[Len(s)]
  BY DEF Grown, With, Scores!Series
<1> QED
  BY <1>1, <1>2

\* The entries that are the latest of their commit among the first k.
LatestIn(s, k) == {i \in 1 .. k : \A j \in 1 .. k : s[j].sha = s[i].sha => j <= i}

\* The series of the first k entries has these, in the order of the history.
SeriesAt(s, k, r) ==
    \E q \in [DOMAIN r -> 1 .. k] :
        /\ \A i, j \in DOMAIN r : i < j => q[i] < q[j]
        /\ \A j \in DOMAIN r : r[j] = s[q[j]] /\ q[j] \in LatestIn(s, k)
        /\ \A i \in LatestIn(s, k) : \E j \in DOMAIN r : q[j] = i

LEMMA SeriesBegins == ASSUME NEW s PROVE SeriesAt(s, 0, <<>>)
<1> DEFINE q == [j \in {} |-> 0]
<1>1. /\ DOMAIN <<>> = {} /\ q \in [{} -> 1 .. 0] /\ LatestIn(s, 0) = {}
  BY DEF LatestIn
<1> QED
  BY <1>1 DEF SeriesAt

LEMMA SeriesGoesOn ==
    ASSUME NEW s \in Seq(Results), NEW k \in Nat, k + 1 \in DOMAIN s,
           NEW r \in Seq(Results), SeriesAt(s, k, r)
    PROVE  With(r, s[k + 1]) \in Seq(Results) /\ SeriesAt(s, k + 1, With(r, s[k + 1]))
<1> DEFINE e == s[k + 1]
           K == {j \in DOMAIN r : r[j].sha # e.sha}
           c == Cardinality(K)
           v == Scores!Kept(r, K)
           w == Append(v, e)
<1>1. e \in Results /\ K \in SUBSET DOMAIN r
  OBVIOUS
<1>2. /\ IsFiniteSet(K) /\ K \in SUBSET Nat /\ c \in Nat /\ v \in Seq(Results) /\ Len(v) = c
      /\ \A n \in 1 .. c : Place(K, n) \in K /\ v[n] = r[Place(K, n)]
  BY <1>1, KeptOf
<1>3. /\ \A m, n \in 1 .. c : m < n => Place(K, m) < Place(K, n)
      /\ \A j \in K : \E n \in 1 .. c : Place(K, n) = j
  BY <1>2, KeptPlaces
<1>4. PICK q \in [DOMAIN r -> 1 .. k] :
        /\ \A i, j \in DOMAIN r : i < j => q[i] < q[j]
        /\ \A j \in DOMAIN r : r[j] = s[q[j]] /\ q[j] \in LatestIn(s, k)
        /\ \A i \in LatestIn(s, k) : \E j \in DOMAIN r : q[j] = i
  BY DEF SeriesAt
<1>5. With(r, s[k + 1]) = w
  BY DEF With
<1>6. /\ w \in Seq(Results) /\ Len(w) = c + 1 /\ DOMAIN w = 1 .. c + 1 /\ w[c + 1] = e
      /\ \A n \in 1 .. c : w[n] = v[n]
  <2> HIDE DEF v, e, c
  <2>1. w \in Seq(Results) /\ Len(w) = c + 1 /\ w[c + 1] = e /\ \A n \in 1 .. c : w[n] = v[n]
    BY <1>1, <1>2, AppendProperties
  <2> QED
    BY <1>2, <2>1
<1>7. ASSUME NEW j \in K
      PROVE /\ j \in DOMAIN r /\ q[j] \in 1 .. k /\ s[q[j]].sha # e.sha /\ r[j] = s[q[j]]
            /\ q[j] \in LatestIn(s, k)
  BY <1>4
<1>8. ASSUME NEW i \in 1 .. k
      PROVE  i \in LatestIn(s, k + 1) <=> i \in LatestIn(s, k) /\ s[i].sha # e.sha
  <2>1. i \in 1 .. k + 1 /\ k + 1 \in 1 .. k + 1 /\ ~(k + 1 <= i)
    OBVIOUS
  <2>2. \A j : j \in 1 .. k + 1 <=> j \in 1 .. k \/ j = k + 1
    OBVIOUS
  <2> QED
    BY <2>1, <2>2 DEF LatestIn
<1>9. k + 1 \in LatestIn(s, k + 1)
  BY DEF LatestIn
<1> HIDE DEF K, e, c, v, w
<1> DEFINE p == [n \in 1 .. c + 1 |-> IF n <= c THEN q[Place(K, n)] ELSE k + 1]
<1>10. ASSUME NEW n \in 1 .. c + 1, n <= c
       PROVE  /\ n \in 1 .. c /\ Place(K, n) \in K /\ p[n] = q[Place(K, n)]
              /\ p[n] \in 1 .. k /\ p[n] \in LatestIn(s, k + 1) /\ w[n] = s[p[n]]
  <2>1. n \in 1 .. c
    BY <1>2, <1>10
  <2>2. Place(K, n) \in K /\ p[n] = q[Place(K, n)] /\ w[n] = r[Place(K, n)]
    BY <1>2, <1>6, <1>10, <2>1
  <2> HIDE DEF p
  <2> QED
    BY <1>7, <1>8, <2>1, <2>2
<1>11. c + 1 \in 1 .. c + 1 /\ p[c + 1] = k + 1 /\ w[c + 1] = s[k + 1]
  BY <1>2, <1>6 DEF e
<1>12. \A n \in 1 .. c + 1 : n <= c \/ n = c + 1
  BY <1>2
<1>13. DOMAIN p = 1 .. c + 1
  OBVIOUS
<1>14. \A n \in 1 .. c + 1 : p[n] \in 1 .. k + 1 /\ p[n] \in LatestIn(s, k + 1) /\ w[n] = s[p[n]]
  <2> HIDE DEF p
  <2> QED
    BY <1>9, <1>10, <1>11, <1>12
<1>15. ASSUME NEW m \in 1 .. c + 1, NEW n \in 1 .. c + 1, m < n PROVE p[m] < p[n]
  <2> HIDE DEF p
  <2>1. m <= c
    BY <1>2, <1>15
  <2>2. p[m] \in 1 .. k /\ p[m] = q[Place(K, m)] /\ m \in 1 .. c /\ Place(K, m) \in K
    BY <1>10, <2>1
  <2>3. CASE n = c + 1
    BY <1>11, <2>2, <2>3
  <2>4. CASE n <= c
    <3>1. p[n] = q[Place(K, n)] /\ n \in 1 .. c /\ Place(K, n) \in K
      BY <1>10, <2>4
    <3>2. Place(K, m) < Place(K, n)
      BY <1>3, <1>15, <2>2, <3>1
    <3> QED
      BY <1>4, <1>7, <2>2, <3>1, <3>2
  <2> QED
    BY <1>12, <2>3, <2>4
<1>16. ASSUME NEW i \in LatestIn(s, k + 1) PROVE \E n \in 1 .. c + 1 : p[n] = i
  <2> HIDE DEF p
  <2>1. CASE i = k + 1
    BY <1>11, <2>1
  <2>2. CASE i # k + 1
    <3>1. i \in 1 .. k
      BY <2>2 DEF LatestIn
    <3>2. i \in LatestIn(s, k) /\ s[i].sha # e.sha
      BY <1>8, <3>1
    <3>3. PICK j \in DOMAIN r : q[j] = i
      BY <1>4, <3>2
    <3>4. j \in K
      BY <1>4, <3>2, <3>3 DEF K
    <3>5. PICK n \in 1 .. c : Place(K, n) = j
      BY <1>3, <3>4
    <3>6. n \in 1 .. c + 1 /\ n <= c
      BY <1>2
    <3> QED
      BY <1>10, <3>3, <3>5, <3>6
  <2> QED
    BY <2>1, <2>2
<1>17. p \in [DOMAIN w -> 1 .. k + 1]
  BY <1>6, <1>14
<1>18. SeriesAt(s, k + 1, w)
  <2> HIDE DEF p
  <2>1. \A i, j \in DOMAIN w : i < j => p[i] < p[j]
    BY <1>6, <1>15
  <2>2. \A j \in DOMAIN w : w[j] = s[p[j]] /\ p[j] \in LatestIn(s, k + 1)
    BY <1>6, <1>14
  <2>3. \A i \in LatestIn(s, k + 1) : \E j \in DOMAIN w : p[j] = i
    BY <1>6, <1>16
  <2> QED
    BY <1>17, <2>1, <2>2, <2>3, Zenon DEF SeriesAt
<1> QED
  BY <1>5, <1>6, <1>18

LEMMA SeriesThere ==
    ASSUME NEW s \in Seq(Results) PROVE SeriesAt(s, Len(s), Scores!Series(s))
<1>1. Len(s) \in Nat /\ DOMAIN s = 1 .. Len(s)
  OBVIOUS
<1>2. PICK g : Grown(s, Len(s), g) /\ Scores!Series(s) = g[Len(s)]
  BY <1>1, SeriesOf
<1> DEFINE T == {k \in Nat : k <= Len(s) => g[k] \in Seq(Results) /\ SeriesAt(s, k, g[k])}
<1>3. 0 \in T
  <2>1. g[0] = <<>>
    BY <1>1, <1>2 DEF Grown
  <2>2. g[0] \in Seq(Results)
    BY <2>1
  <2>3. SeriesAt(s, 0, g[0])
    BY <2>1, SeriesBegins, Zenon
  <2> QED
    BY <2>2, <2>3
<1>4. ASSUME NEW k \in Nat, k \in T PROVE k + 1 \in T
  <2> SUFFICES ASSUME k + 1 <= Len(s)
               PROVE  g[k + 1] \in Seq(Results) /\ SeriesAt(s, k + 1, g[k + 1])
    OBVIOUS
  <2>1. k <= Len(s) /\ k + 1 \in 0 .. Len(s) /\ k + 1 # 0 /\ (k + 1) - 1 = k /\ k + 1 \in DOMAIN s
    BY <1>1
  <2>2. g[k + 1] = With(g[(k + 1) - 1], s[k + 1])
    BY <1>2, <2>1 DEF Grown
  <2>3. g[k] \in Seq(Results) /\ SeriesAt(s, k, g[k])
    BY <1>4, <2>1
  <2> QED
    BY <2>1, <2>2, <2>3, SeriesGoesOn
<1> HIDE DEF T
<1>5. Nat \subseteq T
  BY <1>3, <1>4, AllNumbers
<1> QED
  BY <1>1, <1>2, <1>5 DEF T

\* Of the places of a commit there is a last one.
LEMMA LastPlace ==
    ASSUME NEW s \in Seq(Results), NEW k \in DOMAIN s
    PROVE  \E i \in LatestIn(s, Len(s)) : s[i].sha = s[k].sha
<1> DEFINE n == Len(s)
           Same == {j \in 1 .. n : s[j].sha = s[k].sha}
           Back == {n - j : j \in Same}
<1>1. n \in Nat /\ k \in Same
  OBVIOUS
<1>2. Back \subseteq Nat /\ Back # {}
  BY <1>1
<1>3. PICK b \in Back : \A d \in Back : b <= d
  <2> HIDE DEF Back
  <2> QED
    BY <1>2, LeastOne
<1>4. PICK i \in Same : b = n - i
  BY <1>3
<1>5. ASSUME NEW j \in Same PROVE j <= i
  <2>1. n - i <= n - j
    BY <1>3, <1>4
  <2> QED
    BY <1>1, <2>1
<1>6. i \in LatestIn(s, n)
  BY <1>5 DEF LatestIn
<1> QED
  BY <1>4, <1>6

\* The series of every list of results.
LEMMA SeriesHolds ==
    ASSUME NEW s \in Seq(Results)
    PROVE  LET r == Scores!Series(s)
               Latest(c) == CHOOSE k \in DOMAIN s :
                   s[k].sha = c /\ \A j \in DOMAIN s : s[j].sha = c => j <= k
           IN  /\ {r[k].sha : k \in DOMAIN r} = {s[k].sha : k \in DOMAIN s}
               /\ \A k \in DOMAIN r : r[k] = s[Latest(r[k].sha)]
               /\ \A j, k \in DOMAIN r : j < k => Latest(r[j].sha) < Latest(r[k].sha)
<1> DEFINE r == Scores!Series(s)
           Latest(c) == CHOOSE k \in DOMAIN s :
               s[k].sha = c /\ \A j \in DOMAIN s : s[j].sha = c => j <= k
<1>1. DOMAIN s = 1 .. Len(s) /\ Len(s) \in Nat
  OBVIOUS
<1>2. PICK q \in [DOMAIN r -> 1 .. Len(s)] :
        /\ \A i, j \in DOMAIN r : i < j => q[i] < q[j]
        /\ \A j \in DOMAIN r : r[j] = s[q[j]] /\ q[j] \in LatestIn(s, Len(s))
        /\ \A i \in LatestIn(s, Len(s)) : \E j \in DOMAIN r : q[j] = i
  BY SeriesThere DEF SeriesAt
<1> HIDE DEF r
<1>3. ASSUME NEW i \in LatestIn(s, Len(s)) PROVE Latest(s[i].sha) = i
  <2> DEFINE Last(k) == s[k].sha = s[i].sha /\ \A j \in DOMAIN s : s[j].sha = s[i].sha => j <= k
  <2>1. i \in DOMAIN s /\ Last(i)
    BY <1>1 DEF LatestIn
  <2>2. \A k \in DOMAIN s : Last(k) => k = i
    BY <1>1, <2>1
  <2>3. Latest(s[i].sha) = CHOOSE k \in DOMAIN s : Last(k)
    OBVIOUS
  <2> HIDE DEF Last, Latest
  <2> QED
    BY <2>1, <2>2, <2>3
<1> HIDE DEF Latest
<1>4. \A j \in DOMAIN r : Latest(r[j].sha) = q[j] /\ r[j] = s[q[j]] /\ q[j] \in DOMAIN s
  BY <1>1, <1>2, <1>3
<1>5. ASSUME NEW k \in DOMAIN s PROVE \E j \in DOMAIN r : r[j].sha = s[k].sha
  <2>1. PICK i \in LatestIn(s, Len(s)) : s[i].sha = s[k].sha
    BY LastPlace
  <2> QED
    BY <1>2, <2>1
<1>6. {r[k].sha : k \in DOMAIN r} = {s[k].sha : k \in DOMAIN s}
  BY <1>4, <1>5
<1>7. \A j, k \in DOMAIN r : j < k => Latest(r[j].sha) < Latest(r[k].sha)
  BY <1>2, <1>4
<1> QED
  BY <1>4, <1>6, <1>7 DEF r, Latest

LEMMA HistoryFollows == ASSUME HistoryInv PROVE Scores!HistoryKept /\ Scores!SeriesSound
<1>1. Scores!Loaded \in Seq(Results) /\ Scores!HistoryKept
  BY DEF HistoryInv, Scores!HistoryKept
<1>2. ASSUME NEW name PROVE Scores!OfSuite(Scores!Loaded, name) \in Seq(Results)
  <2> DEFINE K == {k \in DOMAIN Scores!Loaded : Scores!Loaded[k].suite = name}
  <2>1. Scores!OfSuite(Scores!Loaded, name) = Scores!Kept(Scores!Loaded, K)
    BY DEF Scores!OfSuite
  <2>2. K \in SUBSET DOMAIN Scores!Loaded
    OBVIOUS
  <2> HIDE DEF K
  <2> QED
    BY <1>1, <2>1, <2>2, KeptOf
<1>3. Scores!SeriesSound
  BY <1>2, SeriesHolds, Zenon DEF Scores!SeriesSound
<1> QED
  BY <1>1, <1>3

-----------------------------------------------------------------------------
(* The host. *)

\* Every step of the host is, for each part, a step of that part or none.
LEMMA HostSteps ==
    ASSUME [HostNext]_hostVars
    PROVE  /\ [Mem!Next]_memory /\ [Graph!Next]_graph /\ [Code!Next]_index
           /\ [Proc!Next]_processes /\ [Subs!Next]_browsers /\ [Alerts!Next]_alerts
           /\ [Users!Next]_console /\ [Arch!Next]_archives /\ [Plans!Next]_plans
           /\ [Scores!Next]_evaluation /\ [Around!Next]_ambience
<1>1. CASE UNCHANGED hostVars
  BY <1>1 DEF hostVars
<1>2. CASE HostNext
  BY <1>2 DEF HostNext, MemoryStep, GraphStep, CodeStep, ProcessStep, PushStep, AlertStep,
              ConsoleStep, BackupStep, PlanStep, EvalStep, AmbientStep, Only
<1> QED
  BY <1>1, <1>2

\* A vector has its row and a row is recalled by what it says, but for ids on which two calls
\* met and failed embeddings; lessons differ, but for those written beside one another, edited
\* or not embedded; the store is within its cap in any case (MemoryStore of memory/store.py).
THEOREM MemoryStaysSound == HostSpec => []MemorySound
<1>1. HostInit => MemoryInv
  BY MemoryBegins DEF HostInit
<1>2. MemoryInv /\ [HostNext]_hostVars => MemoryInv'
  BY HostSteps, MemoryKept
<1>3. MemoryInv => MemorySound
  BY MemoryFollows DEF MemorySound
<1> QED
  BY <1>1, <1>2, <1>3, PTL DEF HostSpec

\* What was saved to the graph stays, but for saves a distillation or a crash fell into; what
\* was distilled away comes back only with a run that holds it or asserts it again; the rows of
\* the code index tell which chunks are there, but for files on which passes met or were cut
\* (knowledge/graph.py, distill.py, code_index.py).
THEOREM KnowledgeStaysSound == HostSpec => []KnowledgeSound
<1> DEFINE Inv == GraphInv /\ IndexInv
<1>1. HostInit => Inv
  BY GraphBegins, IndexBegins DEF HostInit
<1>2. Inv /\ [HostNext]_hostVars => Inv'
  BY HostSteps, GraphKept, IndexKept
<1>3. Inv => KnowledgeSound
  BY GraphFollows, IndexFollows DEF KnowledgeSound
<1> QED
  BY <1>1, <1>2, <1>3, PTL DEF HostSpec

\* Every child process has a caller that waits for it, but for those gone astray: until a crash
\* only the tests of a run's end, when a cancel hits them.  No cancel kills a process already
\* reaped, and until a crash a project has one app.  A run that is alone has its own sandbox
\* tier, a tool its own package path, and comparisons that do not overlap their own setting, and
\* leave it as it was (execution.py, evals/ab.py).
THEOREM ProcessesStaySound == HostSpec => []ProcessesSound
<1> DEFINE Inv == ProcessesInv /\ AmbientInv
<1>1. HostInit => Inv
  BY ProcessesBegin, AmbientBegins DEF HostInit
<1>2. Inv /\ [HostNext]_hostVars => Inv'
  BY HostSteps, ProcessesKept, AmbientKept
<1>3. Inv => ProcessesSound
  BY ProcessesFollow, AmbientFollows DEF ProcessesSound
<1> QED
  BY <1>1, <1>2, <1>3, PTL DEF HostSpec

\* Subscriptions and the key are not lost to calls that meet or to a crash, and a threshold
\* is told once in a month.
THEOREM NoticesStaySound == HostSpec => []NoticesSound
<1> DEFINE Inv == PushInv /\ AlertsInv
<1>1. HostInit => Inv
  BY PushBegins, AlertsBegin DEF HostInit
<1>2. Inv /\ [HostNext]_hostVars => Inv'
  BY HostSteps, PushKept, AlertsKept
<1>3. Inv => NoticesSound
  BY PushFollows, AlertsFollow DEF NoticesSound
<1> QED
  BY <1>1, <1>2, <1>3, PTL DEF HostSpec

\* The stores behind the console hold what its calls were told, and backups and restores
\* keep the archives complete and the data there.
THEOREM StoresStaySound == HostSpec => []StoresSound
<1> DEFINE Inv == ConsoleInv /\ BackupInv
<1>1. HostInit => Inv
  BY ConsoleBegins, BackupBegins DEF HostInit
<1>2. Inv /\ [HostNext]_hostVars => Inv'
  BY HostSteps, ConsoleKept, BackupKept
<1>3. Inv => StoresSound
  BY ConsoleFollows, BackupFollows DEF StoresSound
<1> QED
  BY <1>1, <1>2, <1>3, PTL DEF HostSpec

\* The plan a run works on is in order, whoever wrote it; no other is refused; some subtask
\* can always be worked on; and a run that is resumed goes on with the work it began with.
THEOREM PlansStaySound == HostSpec => []PlansSound
<1>1. HostInit => PlansInv
  BY PlansBegin DEF HostInit
<1>2. PlansInv /\ [HostNext]_hostVars => PlansInv'
  BY HostSteps, PlansKept
<1>3. PlansInv => PlansSound
  BY PlansFollow DEF PlansSound
<1> QED
  BY <1>1, <1>2, <1>3, PTL DEF HostSpec

\* At the end of the suite every task is in the report as often as it was to run, the command
\* is green exactly when nothing failed that could run, and no engine is left open; the history
\* holds what was recorded, and the series the latest entry of every commit.
THEOREM EvalsStaySound == HostSpec => []EvalsSound
<1> DEFINE Inv == EvalsInv /\ HistoryInv
<1>1. HostInit => Inv
  BY EvalsBegin, HistoryBegins DEF HostInit
<1>2. Inv /\ [HostNext]_hostVars => Inv'
  BY HostSteps, EvalsKept, HistoryStep
<1>3. Inv => EvalsSound
  BY EvalsFollow, HistoryFollows DEF EvalsSound, Scores!EvalsSound
<1> QED
  BY <1>1, <1>2, <1>3, PTL DEF HostSpec

=============================================================================
